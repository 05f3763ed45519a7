---------------------------- MODULE LRUContract ----------------------------
(***************************************************************************)
(* What chromium/rules.js expects of its two caches (ruleCache and         *)
(* cookieHostCache): a bounded map that forgets the key that has gone      *)
(* longest without being looked up or stored.  No pointers here:           *)
(* LRUCache.tla models the linked list of chromium/lru.js and is checked   *)
(* against this module; RuleStore.tla uses the operators below for its     *)
(* caches.                                                                 *)
(*                                                                         *)
(* A cache is a record [limit, order, val]: the capacity, the keys from    *)
(* the oldest to the freshest, and the value memoized for each of them.    *)
(***************************************************************************)
EXTENDS Naturals, SequencesExt

EmptyCache(limit) == [limit |-> limit, order |-> <<>>, val |-> << >>]

Has(c, k) == k \in DOMAIN c.val

(* Keys occur once in the order.                                           *)
Without(s, k) ==
  IF k \in Range(s) THEN RemoveAt(s, CHOOSE i \in DOMAIN s : s[i] = k) ELSE s

(* A lookup that hits makes its key the freshest; one that misses changes  *)
(* nothing.                                                                *)
Touch(c, k) ==
  IF Has(c, k) THEN [c EXCEPT !.order = Append(Without(c.order, k), k)] ELSE c

(* Storing under a key that is not cached evicts the oldest key of a full  *)
(* cache.                                                                  *)
Full(c) == Len(c.order) = c.limit
Victims(c) == IF Full(c) THEN {Head(c.order)} ELSE {}

Store(c, k, v) ==
  [c EXCEPT !.order = Append(IF Full(c) THEN Tail(c.order) ELSE c.order, k),
            !.val = [x \in (DOMAIN c.val \ Victims(c)) \cup {k} |->
                       IF x = k THEN v ELSE c.val[x]]]

Drop(c, k) ==
  [c EXCEPT !.order = Without(c.order, k), !.val = Restrict(c.val, DOMAIN c.val \ {k})]

-----------------------------------------------------------------------------

CONSTANTS Key, Value, MaxLimit

VARIABLE cache

Init == \E limit \in 1 .. MaxLimit : cache = EmptyCache(limit)

Lookup(k) == cache' = Touch(cache, k)

(* Only a key that is not cached is stored; which value, the client says.  *)
Memoize(k) ==
  /\ ~Has(cache, k)
  /\ k \in DOMAIN cache'.val /\ cache'.val[k] \in Value
  /\ cache' = Store(cache, k, cache'.val[k])

Purge(k) == cache' = Drop(cache, k)

Clear == cache' = EmptyCache(cache.limit)

Next ==
  \/ \E k \in Key : Lookup(k) \/ Memoize(k) \/ Purge(k)
  \/ Clear

Spec == Init /\ [][Next]_cache
=============================================================================
