------------------------------ MODULE LRUCache ------------------------------
(***************************************************************************)
(* chromium/lru.js: the doubly linked list behind the extension's caches.  *)
(* `lru` is the LRUCache object.  Its entries live in lru.heap; an entry   *)
(* nothing refers to any more (shifted or removed) leaves the heap, as the *)
(* garbage collector takes it.  Each operator below is one method, reading *)
(* the object s before the call and yielding the object after it.          *)
(*                                                                         *)
(* Two clients: Spec is rules.js, which calls set only right after get     *)
(* missed; ApiSpec calls any method with any key, but leaves shift to put. *)
(* A caller of the exported shift itself (69-86, there is none in the      *)
(* repository) gets none of the promises: shift alone neither counts the   *)
(* entry out, which put does by not counting its own in, nor takes the     *)
(* tail back from the last entry.                                          *)
(***************************************************************************)
EXTENDS Naturals, Sequences, FiniteSets, Functions

CONSTANTS
  Key, Value,
  Truthy,     \* the values JavaScript takes for true in `if (entry)`
  Entry,      \* identities of {key, value} objects
  MaxLimit,   \* the caches' limits are 1 .. MaxLimit here, 1000 and 100 there
  Undefined

ASSUME LRUAssumption ==
  /\ Undefined \notin Entry
  /\ Truthy \subseteq Value
  /\ MaxLimit \in Nat

VARIABLE lru

Node == [key : Key, value : Value,
         newer : Entry \cup {Undefined}, older : Entry \cup {Undefined}]

EmptyLRU(limit) ==
  [size |-> 0, limit |-> limit, keymap |-> << >>, heap |-> << >>,
   head |-> Undefined, tail |-> Undefined]

(* `e.newer = n` and `e.older = n`, where the code has checked that e is   *)
(* an object.                                                              *)
SetNewer(h, e, n) == IF e = Undefined THEN h ELSE [h EXCEPT ![e].newer = n]
SetOlder(h, e, n) == IF e = Undefined THEN h ELSE [h EXCEPT ![e].older = n]

shift(s) ==
  LET entry == s.head
      next  == s.heap[entry].newer
  IN IF entry = Undefined THEN s
     ELSE [s EXCEPT
             !.head   = next,
             !.heap   = Restrict(SetOlder(s.heap, next, Undefined), DOMAIN s.heap \ {entry}),
             !.keymap = Restrict(s.keymap, DOMAIN s.keymap \ {s.heap[entry].key})]

(* The new entry e becomes the tail; a previous entry of the same key      *)
(* stays in the list but is no longer in the key map.                      *)
Linked(s, e, k, v) ==
  LET entry == [key |-> k, value |-> v, newer |-> Undefined, older |-> s.tail]
      h     == SetNewer(s.heap, s.tail, e)
  IN [s EXCEPT
        !.keymap = [x \in DOMAIN s.keymap \cup {k} |-> IF x = k THEN e ELSE s.keymap[x]],
        !.heap   = [x \in DOMAIN s.heap \cup {e} |-> IF x = e THEN entry ELSE h[x]],
        !.head   = IF s.tail = Undefined THEN e ELSE s.head,
        !.tail   = e]

(* Fault: the limit is noticed one entry late.                             *)
PutLate(s, e, k, v) ==
  IF s.size > s.limit
  THEN shift(Linked(s, e, k, v))
  ELSE [Linked(s, e, k, v) EXCEPT !.size = s.size + 1]

put(s, e, k, v) ==
  IF s.size = s.limit
  THEN shift(Linked(s, e, k, v))
  ELSE [Linked(s, e, k, v) EXCEPT !.size = s.size + 1]

Cached(s, k) == k \in DOMAIN s.keymap
AtTail(s, k) == Cached(s, k) /\ s.keymap[k] = s.tail

(* Fault: the head moves to the tail and stays the head.                   *)
MovedKeepingHead(s, entry) ==
  LET newer    == s.heap[entry].newer
      older    == s.heap[entry].older
      unlinked == SetNewer(SetOlder(s.heap, newer, older), older, newer)
      appended == [unlinked EXCEPT ![entry].newer = Undefined, ![entry].older = s.tail]
  IN [s EXCEPT !.heap = SetNewer(appended, s.tail, entry), !.tail = entry]

(* get of an entry that is not the tail: unlink it, append it again.       *)
MovedToTail(s, entry) ==
  LET newer    == s.heap[entry].newer
      older    == s.heap[entry].older
      unlinked == SetNewer(IF newer = Undefined THEN s.heap ELSE SetOlder(s.heap, newer, older),
                           older, newer)
      appended == [unlinked EXCEPT ![entry].newer = Undefined, ![entry].older = s.tail]
  IN [s EXCEPT
        !.head = IF newer # Undefined /\ entry = s.head THEN newer ELSE s.head,
        !.heap = SetNewer(appended, s.tail, entry),
        !.tail = entry]

get(s, k) ==
  IF ~Cached(s, k) \/ AtTail(s, k) THEN s ELSE MovedToTail(s, s.keymap[k])

(* set asks get for the entry, but get answers the tail's VALUE: a truthy  *)
(* value then receives the `.value = ` meant for the entry, a falsy one is *)
(* taken for a miss.                                                       *)
set(s, e, k, v) ==
  IF Cached(s, k) /\ ~AtTail(s, k)
  THEN [get(s, k) EXCEPT !.heap[s.keymap[k]].value = v]
  ELSE IF AtTail(s, k) /\ s.heap[s.tail].value \in Truthy
       THEN s
       ELSE put(s, e, k, v)

(* The four cases of relinking around a removed entry.                     *)
remove(s, k) ==
  LET entry    == s.keymap[k]
      newer    == s.heap[entry].newer
      older    == s.heap[entry].older
      relinked == SetOlder(SetNewer(s.heap, older, newer), newer, older)
  IN IF ~Cached(s, k) THEN s
     ELSE [s EXCEPT
             !.keymap = Restrict(s.keymap, DOMAIN s.keymap \ {s.heap[entry].key}),
             !.heap   = Restrict(relinked, DOMAIN s.heap \ {entry}),
             !.head   = IF older = Undefined THEN newer ELSE s.head,
             !.tail   = IF newer = Undefined THEN older ELSE s.tail,
             !.size   = s.size - 1]

removeAll(s) == EmptyLRU(s.limit)

-----------------------------------------------------------------------------

Init == \E limit \in 1 .. MaxLimit : lru = EmptyLRU(limit)

Fresh == Entry \ DOMAIN lru.heap

Lookup(k) == lru' = get(lru, k)
Purge(k)  == lru' = remove(lru, k)
Clear     == lru' = removeAll(lru)

(* Fault: the result is put without asking whether the key is cached.      *)
MemoizeBlindly(k, v) == \E e \in Fresh : lru' = put(lru, e, k, v)

(* rules.js 263-267 and 298, 355-359 and 375: set follows a get that missed. *)
Memoize(k, v) == ~Cached(lru, k) /\ \E e \in Fresh : lru' = set(lru, e, k, v)

(* A caller of any method but shift.                                       *)
Put(k, v) == \E e \in Fresh : lru' = put(lru, e, k, v)
Set(k, v) == \E e \in Fresh : lru' = set(lru, e, k, v)

Next ==
  \/ \E k \in Key : Lookup(k) \/ Purge(k)
  \/ \E k \in Key, v \in Value : Memoize(k, v)
  \/ Clear

ApiNext ==
  \/ \E k \in Key : Lookup(k) \/ Purge(k)
  \/ \E k \in Key, v \in Value : Put(k, v) \/ Set(k, v)
  \/ Clear

Spec    == Init /\ [][Next]_lru
ApiSpec == Init /\ [][ApiNext]_lru

-----------------------------------------------------------------------------
(* Properties.                                                             *)

Entries == DOMAIN lru.heap

(* The fields hold entries and keys of the right kind; the key map and the *)
(* two ends point into the list.                                           *)
TypeOK ==
  /\ lru.limit \in 1 .. MaxLimit /\ lru.size \in 0 .. MaxLimit
  /\ Entries \subseteq Entry /\ lru.heap \in [Entries -> Node]
  /\ DOMAIN lru.keymap \subseteq Key
  /\ lru.keymap \in [DOMAIN lru.keymap -> Entries]
  /\ {lru.head, lru.tail} \subseteq Entries \cup {Undefined}

(* The two directions of the list agree, and only its ends lack a neighbour. *)
LinksMirrored ==
  /\ \A e \in Entries : \A dir \in {"newer", "older"} :
        lru.heap[e][dir] \in Entries \cup {Undefined}
  /\ \A e, f \in Entries : lru.heap[e].newer = f <=> lru.heap[f].older = e
  /\ \A e \in Entries : lru.heap[e].older = Undefined <=> e = lru.head
  /\ \A e \in Entries : lru.heap[e].newer = Undefined <=> e = lru.tail
  /\ lru.head = Undefined <=> Entries = {}
  /\ lru.tail = Undefined <=> Entries = {}

(* find, get and remove reach an entry of the key they were asked for.     *)
KeymapFaithful ==
  \A k \in DOMAIN lru.keymap : lru.heap[lru.keymap[k]].key = k

(* `size` counts the entries of the list and never exceeds the limit, so   *)
(* put's `size === limit` test is reached before the list overflows.       *)
SizeCounts == lru.size = Cardinality(Entries) /\ lru.size <= lru.limit

(* Whatever a caller that leaves shift to put does, orphaning entries by   *)
(* put included, the list stays a list and the key map points into it.     *)
WellFormed == LinksMirrored /\ KeymapFaithful /\ SizeCounts

(* Every entry is the one its key finds.                                   *)
NoOrphans == \A e \in Entries :
  lru.heap[e].key \in DOMAIN lru.keymap /\ lru.keymap[lru.heap[e].key] = e

(* forEach: the entries met from `start` following `dir`, at most as many  *)
(* as there are.                                                           *)
forEach(start, dir) ==
  LET n == Cardinality(Entries)
      visit[i \in 1 .. n] ==
        IF i = 1 THEN start
        ELSE IF visit[i - 1] \in Entries THEN lru.heap[visit[i - 1]][dir] ELSE Undefined
  IN [i \in 1 .. n |-> visit[i]]

(* forEach meets every entry exactly once, oldest first or, with desc,     *)
(* newest first: the list has neither cycle nor detached part.             *)
IterationSound ==
  LET asc  == forEach(lru.head, "newer")
      desc == forEach(lru.tail, "older")
      n    == Cardinality(Entries)
  IN /\ {asc[i] : i \in 1 .. n} = Entries
     /\ \A i \in 1 .. n : desc[i] = asc[n + 1 - i]

(* The cache rules.js sees: its keys from head to tail and their values.   *)
Abstraction ==
  [limit |-> lru.limit,
   order |-> LET asc == forEach(lru.head, "newer")
             IN [i \in DOMAIN asc |-> lru.heap[asc[i]].key],
   val   |-> [k \in DOMAIN lru.keymap |-> lru.heap[lru.keymap[k]].value]]
=============================================================================
