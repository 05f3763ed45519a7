----------------------------- MODULE MCLRUCache -----------------------------
(* LRUCache with four keys, limits 1 to 3, and Boolean values, which are   *)
(* what rules.js keeps in cookieHostCache, for both kinds of client.       *)
EXTENDS LRUCache

CONSTANTS k1, k2, k3, k4, e1, e2, e3, e4

MCKey   == {k1, k2, k3, k4}
MCEntry == {e1, e2, e3, e4}
MCValue == BOOLEAN
MCTruthy == {TRUE}

VARIABLE client  \* who calls: rules.js, or any caller that leaves shift to put

MCInit == Init /\ client \in {"rules.js", "any"}

MCNext ==
  /\ \/ client = "rules.js" /\ Next
     \/ client = "any" /\ ApiNext
  /\ UNCHANGED client
MCSpec == MCInit /\ [][MCNext]_<<lru, client>>

(* As rules.js uses the cache no entry is orphaned: each is the one its    *)
(* key finds, so shifting an old entry never hides a newer one (lru.js     *)
(* 38-42 and 82-84).                                                       *)
NoOrphansAsUsed == client = "rules.js" => NoOrphans

(* Nothing is promised to other clients: theirs counts as never used.      *)
Unused == [limit |-> lru.limit, order |-> <<>>, val |-> << >>]
Contract == INSTANCE LRUContract
  WITH cache <- IF client = "rules.js" THEN Abstraction ELSE Unused

(* Used as rules.js uses it, the linked list of lru.js is a bounded map    *)
(* that evicts its least recently used key.                                *)
ImplementsContract == Contract!Spec
=============================================================================
