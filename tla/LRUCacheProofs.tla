--------------------------- MODULE LRUCacheProofs ---------------------------
(***************************************************************************)
(* Proofs about LRUCache and the client of it that MCLRUCache adds.        *)
(*                                                                         *)
(* Whatever methods are called with whatever keys, by a caller that leaves *)
(* shift to put, the fields keep their types, the entries form one doubly  *)
(* linked list from head to tail, the key map points into it and `size`    *)
(* counts it (ShiftAloneMiscounts says why shift is left out).  That       *)
(* neighbours point at                                                     *)
(* each other is not inductive by itself: a cycle of entries off the list  *)
(* would satisfy it, and removing the last entry of the list then leave a  *)
(* head that is Undefined and a heap that is not empty.  So the invariant  *)
(* names the order: some q lists all entries, each once, and the links are *)
(* its successions.  For each method a lemma says what becomes of q, after *)
(* steps that say which fields it changes.                                 *)
(*                                                                         *)
(* As rules.js calls them, no entry is orphaned either (Found).  Then the  *)
(* keys in the order q are the contract's `order`, and what a method does  *)
(* to q is what the contract's operator does to `order`: Shows relates an  *)
(* object to the cache it holds, a lemma per method carries it over, and   *)
(* Walk says that forEach, which Abstraction is read off with, follows q.  *)
(***************************************************************************)
EXTENDS MCLRUCache, FiniteSetTheorems, SequenceTheorems, TLAPS

Loops == INSTANCE HostTargetsProofs

Ref == Entry \cup {Undefined}

(* The fields of the constructor.                                          *)
Shape(s) == DOMAIN s = {"size", "limit", "keymap", "heap", "head", "tail"}

Typed(s) ==
  /\ Shape(s)
  /\ DOMAIN s.heap \subseteq Entry /\ s.heap \in [DOMAIN s.heap -> Node]
  /\ DOMAIN s.keymap \subseteq Key
  /\ s.keymap \in [DOMAIN s.keymap -> DOMAIN s.heap]

(* q lists the n entries from head to tail.                                *)
Lists(s, n, q) ==
  /\ q \in [1 .. n -> DOMAIN s.heap]
  /\ \A e \in DOMAIN s.heap : \E i \in 1 .. n : q[i] = e
  /\ \A i, j \in 1 .. n : q[i] = q[j] => i = j
  /\ s.head = IF n = 0 THEN Undefined ELSE q[1]
  /\ s.tail = IF n = 0 THEN Undefined ELSE q[n]
  /\ \A i \in 1 .. n :
       /\ s.heap[q[i]].newer = IF i = n THEN Undefined ELSE q[i + 1]
       /\ s.heap[q[i]].older = IF i = 1 THEN Undefined ELSE q[i - 1]

(* The list q with e at its end, and without its j-th entry.               *)
After(n, q, e) == [i \in 1 .. n + 1 |-> IF i = n + 1 THEN e ELSE q[i]]
Minus(n, q, j) == [i \in 1 .. n - 1 |-> IF i < j THEN q[i] ELSE q[i + 1]]

(* What the entries hold stays as it is.                                   *)
Keeps(s, new) ==
  \A x \in DOMAIN s.heap \cap DOMAIN new.heap :
    new.heap[x].key = s.heap[x].key /\ new.heap[x].value = s.heap[x].value

Faithful(s) == \A k \in DOMAIN s.keymap : s.heap[s.keymap[k]].key = k

(* An object whose list has n entries.                                     *)
Sound(s, n) == Typed(s) /\ (\E q : Lists(s, n, q)) /\ Faithful(s)

(* ... and is as long as `size` says, within the limit.                    *)
Good(s) == s.limit \in 1 .. MaxLimit /\ s.size \in 0 .. s.limit /\ Sound(s, s.size)

(* The inductive invariant.                                                *)
LRUInv == Good(lru)

-----------------------------------------------------------------------------
(* put: a new tail.                                                        *)

(* new is s with e linked behind the tail.                                 *)
Extended(s, e, new) ==
  /\ e \notin DOMAIN s.heap /\ DOMAIN new.heap = DOMAIN s.heap \cup {e}
  /\ \A x \in DOMAIN new.heap :
       /\ new.heap[x].newer = IF x = e THEN Undefined
                              ELSE IF x = s.tail THEN e ELSE s.heap[x].newer
       /\ new.heap[x].older = IF x = e THEN s.tail ELSE s.heap[x].older
  /\ new.head = IF s.tail = Undefined THEN e ELSE s.head
  /\ new.tail = e

(* An entry linked behind the tail lengthens the list by one.              *)
LEMMA ListExtended ==
  ASSUME NEW s, NEW n \in Nat, NEW q, Lists(s, n, q), Undefined \notin DOMAIN s.heap,
         NEW e, NEW new, Extended(s, e, new)
  PROVE  Lists(new, n + 1, After(n, q, e))
<1> USE DEF Extended
<1> DEFINE D == DOMAIN s.heap
           r == After(n, q, e)
<1>1. /\ q \in [1 .. n -> D]
      /\ \A x \in D : \E i \in 1 .. n : q[i] = x
      /\ \A i, j \in 1 .. n : q[i] = q[j] => i = j
      /\ s.head = IF n = 0 THEN Undefined ELSE q[1]
      /\ s.tail = IF n = 0 THEN Undefined ELSE q[n]
      /\ \A i \in 1 .. n : /\ s.heap[q[i]].newer = IF i = n THEN Undefined ELSE q[i + 1]
                           /\ s.heap[q[i]].older = IF i = 1 THEN Undefined ELSE q[i - 1]
  BY DEF Lists
<1> HIDE DEF D
<1>2. /\ r \in [1 .. n + 1 -> D \cup {e}] /\ r[n + 1] = e
      /\ \A i \in 1 .. n : r[i] = q[i] /\ r[i] \in D
  BY <1>1 DEF After
<1> HIDE DEF r
<1>3. ASSUME NEW x \in D \cup {e} PROVE \E i \in 1 .. n + 1 : r[i] = x
  <2>1. r[n + 1] = e /\ n + 1 \in 1 .. n + 1
    BY <1>2
  <2>2. \A y \in D : \E i \in 1 .. n + 1 : r[i] = y
    BY <1>1, <1>2
  <2> QED BY <2>1, <2>2
<1>4. ASSUME NEW i \in 1 .. n + 1, NEW j \in 1 .. n + 1, r[i] = r[j] PROVE i = j
  <2>1. CASE i = n + 1 \/ j = n + 1
    BY <1>2, <1>4, <2>1 DEF D
  <2>2. CASE i \in 1 .. n /\ j \in 1 .. n
    BY <1>1, <1>2, <1>4, <2>2
  <2> QED BY <2>1, <2>2
<1>5. new.head = r[1]
  <2>1. CASE n = 0
    BY <1>1, <1>2, <2>1
  <2>2. CASE n # 0
    <3>1. 1 \in 1 .. n /\ n \in 1 .. n
      BY <2>2
    <3>2. s.tail # Undefined
      BY <1>1, <1>2, <3>1 DEF D
    <3> QED BY <1>1, <1>2, <3>1, <3>2
  <2> QED BY <2>1, <2>2
<1>6. ASSUME NEW i \in 1 .. n + 1
      PROVE  /\ new.heap[r[i]].newer = IF i = n + 1 THEN Undefined ELSE r[i + 1]
             /\ new.heap[r[i]].older = IF i = 1 THEN Undefined ELSE r[i - 1]
  <2>1. CASE i = n + 1
    <3>1. new.heap[e].newer = Undefined /\ new.heap[e].older = s.tail
      OBVIOUS
    <3>2. i # 1 => s.tail = r[i - 1]
      BY <1>1, <1>2, <2>1
    <3>3. i = 1 => s.tail = Undefined
      BY <1>1, <2>1
    <3> QED BY <1>2, <2>1, <3>1, <3>2, <3>3
  <2>2. CASE i \in 1 .. n
    <3>1. q[i] \in D /\ q[i] # e /\ r[i] = q[i]
      BY <1>2, <2>2 DEF D
    <3>2. /\ new.heap[q[i]].newer = IF q[i] = s.tail THEN e ELSE s.heap[q[i]].newer
          /\ new.heap[q[i]].older = s.heap[q[i]].older
      BY <3>1 DEF D
    <3>3. i # 1 => r[i - 1] = q[i - 1]
      BY <1>2, <2>2
    <3>4. q[i] = s.tail <=> i = n
      BY <1>1, <2>2
    <3>5. i # n => r[i + 1] = q[i + 1]
      BY <1>2, <2>2
    <3>6. new.heap[r[i]].newer = r[i + 1]
      BY <1>1, <1>2, <2>2, <3>1, <3>2, <3>4, <3>5
    <3>7. new.heap[r[i]].older = IF i = 1 THEN Undefined ELSE r[i - 1]
      BY <1>1, <2>2, <3>1, <3>2, <3>3, SMTT(30)
    <3> QED BY <2>2, <3>6, <3>7
  <2> QED BY <2>1, <2>2
<1>7. Lists(new, n + 1, r)
  <2>1. DOMAIN new.heap = D \cup {e}
    BY DEF D
  <2>2. n + 1 # 0 /\ new.tail = r[n + 1]
    BY <1>2
  <2> QED BY <1>2, <1>3, <1>4, <1>5, <1>6, <2>1, <2>2 DEF Lists
<1> QED BY <1>7 DEF r

(* Linking a new entry for k, whether or not k was cached.                 *)
LinkedAs(s, n, q, e, k, v, new) ==
  /\ Sound(new, n + 1) /\ new.size = s.size /\ new.limit = s.limit
  /\ Lists(new, n + 1, After(n, q, e)) /\ Keeps(s, new)
  /\ DOMAIN new.heap = DOMAIN s.heap \cup {e}
  /\ new.heap[e].key = k /\ new.heap[e].value = v
  /\ new.keymap = [x \in DOMAIN s.keymap \cup {k} |-> IF x = k THEN e ELSE s.keymap[x]]

LEMMA LinkedSound ==
  ASSUME NEW s, NEW n \in Nat, Sound(s, n), NEW q, Lists(s, n, q),
         NEW e \in Entry \ DOMAIN s.heap, NEW k \in Key, NEW v \in Value
  PROVE  LinkedAs(s, n, q, e, k, v, Linked(s, e, k, v))
<1> DEFINE D == DOMAIN s.heap
           h == SetNewer(s.heap, s.tail, e)
           entry == [key |-> k, value |-> v, newer |-> Undefined, older |-> s.tail]
           heap == [x \in D \cup {e} |-> IF x = e THEN entry ELSE h[x]]
           keymap == [x \in DOMAIN s.keymap \cup {k} |-> IF x = k THEN e ELSE s.keymap[x]]
           head == IF s.tail = Undefined THEN e ELSE s.head
           new == Linked(s, e, k, v)
<1>1. new = [s EXCEPT !.keymap = keymap, !.heap = heap, !.head = head, !.tail = e]
  BY DEF Linked
<1>2. /\ D \in SUBSET Entry /\ s.heap \in [D -> Node]
      /\ s.tail \in D \cup {Undefined} /\ e \in Ref /\ Undefined \notin D
  BY LRUAssumption DEF Sound, Typed, Lists, Ref
<1>3. /\ h \in [D -> Node]
      /\ \A x \in D : /\ h[x].newer = IF x = s.tail THEN e ELSE s.heap[x].newer
                      /\ h[x].older = s.heap[x].older /\ h[x].key = s.heap[x].key
                      /\ h[x].value = s.heap[x].value
  BY <1>2, LRUAssumption DEF SetNewer, Node, Ref
<1>4. entry \in Node
  BY <1>2 DEF Node
<1> HIDE DEF h
<1>5. heap \in [D \cup {e} -> Node]
  BY <1>3, <1>4
<1>6. \A x \in D \cup {e} :
        /\ heap[x].newer = IF x = e THEN Undefined ELSE IF x = s.tail THEN e ELSE s.heap[x].newer
        /\ heap[x].older = IF x = e THEN s.tail ELSE s.heap[x].older
        /\ heap[x].key = IF x = e THEN k ELSE s.heap[x].key
        /\ heap[x].value = IF x = e THEN v ELSE s.heap[x].value
  BY <1>3
<1> HIDE DEF entry, heap, keymap, head, new
<1>7. /\ Shape(new) /\ new.size = s.size /\ new.limit = s.limit
      /\ new.keymap = keymap /\ new.heap = heap /\ new.head = head /\ new.tail = e
  BY <1>1 DEF Shape, Sound, Typed
<1>8. DOMAIN new.heap = D \cup {e} /\ e \notin D /\ e # Undefined
  BY <1>5, <1>7, LRUAssumption
<1>9. Typed(new)
  BY <1>5, <1>7, <1>8 DEF Sound, Typed, keymap
<1>10. Lists(new, n + 1, After(n, q, e))
  <2> HIDE DEF D
  <2>1. \A x \in DOMAIN new.heap :
          /\ new.heap[x].newer = IF x = e THEN Undefined
                                 ELSE IF x = s.tail THEN e ELSE s.heap[x].newer
          /\ new.heap[x].older = IF x = e THEN s.tail ELSE s.heap[x].older
    BY <1>6, <1>7, <1>8
  <2>2. /\ DOMAIN new.heap = DOMAIN s.heap \cup {e} /\ e \notin DOMAIN s.heap
        /\ Undefined \notin DOMAIN s.heap /\ new.tail = e
        /\ new.head = IF s.tail = Undefined THEN e ELSE s.head
    BY <1>2, <1>7, <1>8 DEF D, head
  <2>3. Extended(s, e, new) /\ Undefined \notin DOMAIN s.heap
    BY <2>1, <2>2 DEF Extended
  <2> QED BY <2>3, ListExtended
<1>11. Faithful(new)
  BY <1>6, <1>7, <1>8 DEF Faithful, Sound, Typed, keymap
<1>12. Sound(new, n + 1)
  BY <1>9, <1>10, <1>11 DEF Sound
<1>13. Keeps(s, new) /\ new.heap[e].key = k /\ new.heap[e].value = v
  BY <1>6, <1>7, <1>8 DEF Keeps
<1> QED BY <1>7, <1>8, <1>10, <1>12, <1>13 DEF LinkedAs, new, keymap, D

-----------------------------------------------------------------------------
(* shift and remove: the neighbours of the entry that goes, the j-th, are  *)
(* linked to each other and the ends adjusted.                             *)

Succ(n, q, j) == IF j = n THEN Undefined ELSE q[j + 1]
Pred(q, j)    == IF j = 1 THEN Undefined ELSE q[j - 1]

(* The list without its j-th entry.                                        *)
LEMMA GapClosed ==
  ASSUME NEW s, NEW n \in Nat, Typed(s), NEW q, Lists(s, n, q), NEW j \in 1 .. n,
         NEW new, DOMAIN new.heap = DOMAIN s.heap \ {q[j]},
         \A x \in DOMAIN new.heap :
           /\ new.heap[x].newer = IF x = Pred(q, j) THEN Succ(n, q, j) ELSE s.heap[x].newer
           /\ new.heap[x].older = IF x = Succ(n, q, j) THEN Pred(q, j) ELSE s.heap[x].older,
         new.head = IF j = 1 THEN Succ(n, q, j) ELSE s.head,
         new.tail = IF j = n THEN Pred(q, j) ELSE s.tail
  PROVE  Lists(new, n - 1, Minus(n, q, j))
<1> DEFINE D == DOMAIN s.heap
           r == Minus(n, q, j)
<1>1. /\ q \in [1 .. n -> D] /\ Undefined \notin D
      /\ \A x \in D : \E i \in 1 .. n : q[i] = x
      /\ \A i, k \in 1 .. n : q[i] = q[k] => i = k
      /\ s.head = IF n = 0 THEN Undefined ELSE q[1]
      /\ s.tail = IF n = 0 THEN Undefined ELSE q[n]
      /\ \A i \in 1 .. n : /\ s.heap[q[i]].newer = IF i = n THEN Undefined ELSE q[i + 1]
                           /\ s.heap[q[i]].older = IF i = 1 THEN Undefined ELSE q[i - 1]
  BY LRUAssumption DEF Lists, Typed
<1> HIDE DEF D
<1>0. \A i, k \in 1 .. n : q[i] = q[k] => i = k
  BY <1>1
<1>2. /\ DOMAIN r = 1 .. n - 1 /\ r = [i \in DOMAIN r |-> r[i]]
      /\ \A i \in 1 .. n - 1 : i < j => r[i] = q[i]
      /\ \A i \in 1 .. n - 1 : i >= j => r[i] = q[i + 1]
  BY DEF Minus
<1> HIDE DEF r
<1>3. \A i \in 1 .. n - 1 : r[i] \in D \ {q[j]}
  BY <1>1, <1>2
<1>4. r \in [1 .. n - 1 -> D \ {q[j]}]
  BY <1>2, <1>3
<1>5. ASSUME NEW x \in D \ {q[j]} PROVE \E i \in 1 .. n - 1 : r[i] = x
  <2>1. PICK i \in 1 .. n : q[i] = x
    BY <1>1
  <2>2. CASE i < j
    BY <1>2, <2>1, <2>2
  <2>3. CASE i > j
    <3>1. i - 1 \in 1 .. n - 1 /\ i - 1 >= j
      BY <2>3
    <3>2. r[i - 1] = q[(i - 1) + 1]
      BY <1>2, <3>1
    <3> QED BY <2>1, <3>1, <3>2
  <2> QED BY <2>1, <2>2, <2>3
<1>6. ASSUME NEW i \in 1 .. n - 1, NEW k \in 1 .. n - 1, r[i] = r[k] PROVE i = k
  <2>1. PICK a \in 1 .. n : a = IF i < j THEN i ELSE i + 1
    OBVIOUS
  <2>2. PICK b \in 1 .. n : b = IF k < j THEN k ELSE k + 1
    OBVIOUS
  <2>3. r[i] = q[a] /\ r[k] = q[b]
    BY <1>2, <2>1, <2>2
  <2>4. a = b
    BY <1>0, <1>6, <2>3
  <2> QED BY <2>1, <2>2, <2>4
<1>7. new.head = IF n - 1 = 0 THEN Undefined ELSE r[1]
  BY <1>1, <1>2 DEF Succ
<1>8. new.tail = IF n - 1 = 0 THEN Undefined ELSE r[n - 1]
  BY <1>1, <1>2 DEF Pred
<1>9. ASSUME NEW i \in 1 .. n - 1
      PROVE  /\ new.heap[r[i]].newer = IF i = n - 1 THEN Undefined ELSE r[i + 1]
             /\ new.heap[r[i]].older = IF i = 1 THEN Undefined ELSE r[i - 1]
  <2> PICK m \in 1 .. n : m = IF i < j THEN i ELSE i + 1
    OBVIOUS
  <2>1. m \in 1 .. n /\ r[i] = q[m] /\ m # j /\ q[m] \in D \ {q[j]}
    BY <1>2, <1>3
  <2>2. q[m] = Pred(q, j) <=> m = j - 1
    <3>1. CASE j = 1
      BY <1>1, <2>1, <3>1 DEF Pred
    <3>2. CASE j # 1
      <4>1. j - 1 \in 1 .. n /\ Pred(q, j) = q[j - 1]
        BY <3>2 DEF Pred
      <4> QED BY <1>0, <2>1, <4>1
    <3> QED BY <3>1, <3>2
  <2>3. q[m] = Succ(n, q, j) <=> m = j + 1
    <3>1. j # n => j + 1 \in 1 .. n
      OBVIOUS
    <3> QED BY <1>0, <1>1, <2>1, <3>1 DEF Succ
  <2>4. /\ s.heap[q[m]].newer = IF m = n THEN Undefined ELSE q[m + 1]
        /\ s.heap[q[m]].older = IF m = 1 THEN Undefined ELSE q[m - 1]
    BY <1>1, <2>1
  <2>5. new.heap[q[m]].newer = IF m = j - 1 THEN Succ(n, q, j) ELSE s.heap[q[m]].newer
    BY <2>1, <2>2 DEF D
  <2>6. new.heap[q[m]].older = IF m = j + 1 THEN Pred(q, j) ELSE s.heap[q[m]].older
    BY <2>1, <2>3 DEF D
  <2>7. new.heap[r[i]].newer = IF i = n - 1 THEN Undefined ELSE r[i + 1]
    <3>1. CASE i < j - 1
      BY <1>2, <2>1, <2>4, <2>5, <3>1
    <3>2. CASE i = j - 1
      BY <1>2, <2>1, <2>4, <2>5, <3>2 DEF Succ
    <3>3. CASE i >= j
      BY <1>2, <2>1, <2>4, <2>5, <3>3
    <3> QED BY <3>1, <3>2, <3>3
  <2>8. new.heap[r[i]].older = IF i = 1 THEN Undefined ELSE r[i - 1]
    <3>1. CASE i < j
      BY <1>2, <2>1, <2>4, <2>6, <3>1
    <3>2. CASE i = j
      BY <1>2, <2>1, <2>4, <2>6, <3>2 DEF Pred
    <3>3. CASE i > j
      BY <1>2, <2>1, <2>4, <2>6, <3>3
    <3> QED BY <3>1, <3>2, <3>3
  <2> QED BY <2>7, <2>8
<1>10. Lists(new, n - 1, r)
  BY <1>4, <1>5, <1>6, <1>7, <1>8, <1>9 DEF Lists, D
<1> QED BY <1>10 DEF r

(* remove of a cached key shortens the list and lowers `size` with it.     *)
LEMMA RemoveSound ==
  ASSUME NEW s, NEW n \in Nat, Sound(s, n), NEW q, Lists(s, n, q), NEW k \in DOMAIN s.keymap
  PROVE  LET new == remove(s, k)
         IN /\ Sound(new, n - 1) /\ n > 0 /\ new.size = s.size - 1 /\ new.limit = s.limit
            /\ \E j \in 1 .. n : q[j] = s.keymap[k] /\ Lists(new, n - 1, Minus(n, q, j))
            /\ DOMAIN new.heap = DOMAIN s.heap \ {s.keymap[k]} /\ Keeps(s, new)
            /\ new.keymap = Restrict(s.keymap, DOMAIN s.keymap \ {k})
<1> DEFINE D == DOMAIN s.heap
           entry == s.keymap[k]
           newer == s.heap[entry].newer
           older == s.heap[entry].older
           h1 == SetNewer(s.heap, older, newer)
           relinked == SetOlder(h1, newer, older)
           heap == Restrict(relinked, D \ {entry})
           keymap == Restrict(s.keymap, DOMAIN s.keymap \ {s.heap[entry].key})
           head == IF older = Undefined THEN newer ELSE s.head
           tail == IF newer = Undefined THEN older ELSE s.tail
           new == remove(s, k)
<1>1. new = [s EXCEPT !.keymap = keymap, !.heap = heap, !.head = head, !.tail = tail,
                      !.size = s.size - 1]
  BY DEF remove, Cached
<1>2. /\ D \in SUBSET Entry /\ s.heap \in [D -> Node] /\ entry \in D
      /\ Undefined \notin D
  BY LRUAssumption DEF Sound, Typed
<1>3. /\ DOMAIN keymap = DOMAIN s.keymap \ {k}
      /\ keymap = [x \in DOMAIN keymap |-> keymap[x]]
      /\ \A x \in DOMAIN keymap : /\ keymap[x] = s.keymap[x] /\ s.keymap[x] \in D
                                  /\ s.heap[s.keymap[x]].key = x /\ s.keymap[x] # entry
  <2>1. s.heap[entry].key = k
    BY DEF Sound, Faithful
  <2> QED BY <2>1 DEF Restrict, Sound, Typed, Faithful
<1>17. keymap = Restrict(s.keymap, DOMAIN s.keymap \ {k})
  BY DEF Sound, Faithful
<1>4. PICK j \in 1 .. n : q[j] = entry
  BY <1>2 DEF Lists
<1>5. newer = Succ(n, q, j) /\ older = Pred(q, j)
  BY <1>4 DEF Lists, Succ, Pred
<1>6. /\ newer \in D \cup {Undefined} /\ older \in D \cup {Undefined}
      /\ (newer = Undefined) = (j = n) /\ (older = Undefined) = (j = 1)
  <2>1. \A i \in 1 .. n : q[i] \in D
    BY DEF Lists
  <2>2. j # n => j + 1 \in 1 .. n
    OBVIOUS
  <2>3. j # 1 => j - 1 \in 1 .. n
    OBVIOUS
  <2> HIDE DEF newer, older, D
  <2> QED BY <1>2, <1>5, <2>1, <2>2, <2>3 DEF Succ, Pred
<1> HIDE DEF D, entry, newer, older
<1>7. /\ h1 \in [D -> Node]
      /\ \A x \in D : /\ h1[x].newer = IF x = older THEN newer ELSE s.heap[x].newer
                      /\ h1[x].older = s.heap[x].older /\ h1[x].key = s.heap[x].key
                      /\ h1[x].value = s.heap[x].value
  BY <1>2, <1>6, LRUAssumption DEF SetNewer, Node, Ref
<1> HIDE DEF h1
<1>8. /\ relinked \in [D -> Node]
      /\ \A x \in D : /\ relinked[x].older = IF x = newer THEN older ELSE h1[x].older
                      /\ relinked[x].newer = h1[x].newer /\ relinked[x].key = h1[x].key
                      /\ relinked[x].value = h1[x].value
  BY <1>2, <1>6, <1>7, LRUAssumption DEF SetOlder, Node, Ref
<1> HIDE DEF relinked
<1>9. /\ heap \in [D \ {entry} -> Node]
      /\ \A x \in D \ {entry} :
           /\ heap[x].newer = IF x = older THEN newer ELSE s.heap[x].newer
           /\ heap[x].older = IF x = newer THEN older ELSE s.heap[x].older
           /\ heap[x].key = s.heap[x].key /\ heap[x].value = s.heap[x].value
  BY <1>7, <1>8 DEF Restrict
<1> HIDE DEF heap, keymap, head, tail, new
<1>10. /\ Shape(new) /\ new.size = s.size - 1 /\ new.limit = s.limit
       /\ new.keymap = keymap /\ new.heap = heap /\ new.head = head /\ new.tail = tail
  BY <1>1 DEF Shape, Sound, Typed
<1>11. DOMAIN new.heap = D \ {entry}
  BY <1>9, <1>10
<1>12. Typed(new)
  <2>1. DOMAIN keymap \subseteq Key /\ keymap \in [DOMAIN keymap -> D \ {entry}]
    BY <1>3 DEF Sound, Typed
  <2> QED BY <1>2, <1>9, <1>10, <1>11, <2>1 DEF Typed
<1>13. Lists(new, n - 1, Minus(n, q, j))
  <2>1. /\ new.head = IF j = 1 THEN Succ(n, q, j) ELSE s.head
        /\ new.tail = IF j = n THEN Pred(q, j) ELSE s.tail
    BY <1>5, <1>6, <1>10 DEF head, tail
  <2>2. \A x \in DOMAIN new.heap :
          /\ new.heap[x].newer = IF x = Pred(q, j) THEN Succ(n, q, j) ELSE s.heap[x].newer
          /\ new.heap[x].older = IF x = Succ(n, q, j) THEN Pred(q, j) ELSE s.heap[x].older
    BY <1>5, <1>9, <1>10, <1>11
  <2>3. DOMAIN new.heap = DOMAIN s.heap \ {q[j]}
    BY <1>4, <1>11 DEF D
  <2>4. Typed(s)
    BY DEF Sound
  <2> QED BY <2>1, <2>2, <2>3, <2>4, GapClosed
<1>14. Faithful(new)
  BY <1>3, <1>9, <1>10 DEF Faithful
<1>15. Sound(new, n - 1)
  BY <1>12, <1>13, <1>14 DEF Sound
<1>16. Keeps(s, new)
  BY <1>9, <1>10, <1>11 DEF Keeps
<1> QED BY <1>4, <1>10, <1>11, <1>13, <1>15, <1>16, <1>17 DEF new, D, entry

(* shift, of at least two entries, leaves `size` to its caller.            *)
LEMMA ShiftSound ==
  ASSUME NEW s, NEW n \in Nat, Sound(s, n), NEW q, Lists(s, n, q), n >= 2
  PROVE  LET new == shift(s)
         IN /\ Sound(new, n - 1) /\ new.size = s.size /\ new.limit = s.limit
            /\ Lists(new, n - 1, Minus(n, q, 1))
            /\ DOMAIN new.heap = DOMAIN s.heap \ {q[1]} /\ Keeps(s, new)
            /\ new.keymap = Restrict(s.keymap, DOMAIN s.keymap \ {s.heap[q[1]].key})
<1> DEFINE D == DOMAIN s.heap
           next == s.heap[s.head].newer
           gone == s.heap[s.head].key
           h == SetOlder(s.heap, next, Undefined)
           heap == Restrict(h, D \ {s.head})
           keymap == Restrict(s.keymap, DOMAIN s.keymap \ {gone})
           new == shift(s)
<1>1. /\ s.head = q[1] /\ q[1] \in D /\ Pred(q, 1) = Undefined
      /\ next = Succ(n, q, 1) /\ next = q[2] /\ next \in D /\ next # s.head
  <2>1. 1 \in 1 .. n /\ 2 \in 1 .. n /\ 1 # n /\ n # 0
    OBVIOUS
  <2>2. s.head = q[1] /\ q[1] \in D /\ q[2] \in D /\ q[1] # q[2]
    BY <2>1 DEF Lists
  <2>3. s.heap[q[1]].newer = q[2]
    BY <2>1 DEF Lists
  <2> QED BY <2>1, <2>2, <2>3 DEF Succ, Pred
<1>2. /\ D \in SUBSET Entry /\ s.heap \in [D -> Node] /\ Undefined \notin D
  BY LRUAssumption DEF Sound, Typed
<1>3. new = [s EXCEPT !.head = next, !.heap = heap, !.keymap = keymap]
  BY <1>1, <1>2 DEF shift
<1>4. /\ heap \in [D \ {s.head} -> Node]
      /\ \A x \in D \ {s.head} :
           /\ heap[x].older = IF x = next THEN Undefined ELSE s.heap[x].older
           /\ heap[x].newer = s.heap[x].newer /\ heap[x].key = s.heap[x].key
           /\ heap[x].value = s.heap[x].value
  BY <1>1, <1>2, LRUAssumption DEF SetOlder, Node, Ref, Restrict
<1>5. /\ DOMAIN keymap = DOMAIN s.keymap \ {gone}
      /\ \A k \in DOMAIN keymap : /\ keymap[k] = s.keymap[k] /\ s.keymap[k] \in D
                                  /\ s.heap[s.keymap[k]].key = k /\ s.keymap[k] # s.head
      /\ keymap = [k \in DOMAIN keymap |-> keymap[k]]
  BY DEF Restrict, Sound, Typed, Faithful
<1>13. keymap = Restrict(s.keymap, DOMAIN s.keymap \ {s.heap[q[1]].key})
  BY <1>1
<1> HIDE DEF h, heap, keymap, new
<1>6. /\ Shape(new) /\ new.size = s.size /\ new.limit = s.limit
      /\ new.keymap = keymap /\ new.heap = heap /\ new.head = next /\ new.tail = s.tail
  BY <1>3 DEF Shape, Sound, Typed
<1>7. DOMAIN new.heap = D \ {s.head}
  BY <1>4, <1>6
<1>8. Typed(new)
  <2>1. DOMAIN keymap \subseteq Key /\ keymap \in [DOMAIN keymap -> D \ {s.head}]
    BY <1>5 DEF Sound, Typed
  <2> QED BY <1>2, <1>4, <1>6, <1>7, <2>1 DEF Typed
<1>9. Lists(new, n - 1, Minus(n, q, 1))
  <2>1. \A x \in DOMAIN new.heap : x # Undefined
    BY <1>2, <1>7
  <2> HIDE DEF next
  <2>2. \A x \in DOMAIN new.heap :
          /\ new.heap[x].newer = IF x = Pred(q, 1) THEN Succ(n, q, 1) ELSE s.heap[x].newer
          /\ new.heap[x].older = IF x = Succ(n, q, 1) THEN Pred(q, 1) ELSE s.heap[x].older
    BY <1>1, <1>4, <1>6, <1>7, <2>1
  <2>3. /\ DOMAIN new.heap = DOMAIN s.heap \ {q[1]}
        /\ new.head = Succ(n, q, 1) /\ new.tail = s.tail /\ 1 \in 1 .. n /\ 1 # n
    BY <1>1, <1>6, <1>7
  <2>4. Typed(s)
    BY DEF Sound
  <2> QED BY <2>2, <2>3, <2>4, GapClosed
<1>10. Faithful(new)
  BY <1>4, <1>5, <1>6 DEF Faithful
<1>11. Sound(new, n - 1)
  BY <1>8, <1>9, <1>10 DEF Sound
<1>12. Keeps(s, new)
  BY <1>4, <1>6, <1>7 DEF Keeps
<1> QED BY <1>1, <1>6, <1>7, <1>9, <1>11, <1>12, <1>13 DEF new

-----------------------------------------------------------------------------
(* get: an entry that is not the tail leaves its place and becomes the     *)
(* tail.  `mid` is the list without it.                                    *)
LEMMA MovedSound ==
  ASSUME NEW s, NEW n \in Nat, Sound(s, n), NEW q, Lists(s, n, q),
         NEW entry \in DOMAIN s.heap, entry # s.tail
  PROVE  LET new == MovedToTail(s, entry)
         IN /\ Sound(new, n) /\ DOMAIN new.heap = DOMAIN s.heap /\ new.keymap = s.keymap
            /\ new.size = s.size /\ new.limit = s.limit /\ Keeps(s, new)
            /\ \E j \in 1 .. n :
                 q[j] = entry /\ Lists(new, n, After(n - 1, Minus(n, q, j), entry))
<1> DEFINE D == DOMAIN s.heap
           newer == s.heap[entry].newer
           older == s.heap[entry].older
           h1 == SetOlder(s.heap, newer, older)
           unlinked == SetNewer(h1, older, newer)
           appended == [unlinked EXCEPT ![entry].newer = Undefined, ![entry].older = s.tail]
           heap == SetNewer(appended, s.tail, entry)
           head == IF entry = s.head THEN newer ELSE s.head
           new == MovedToTail(s, entry)
<1> PICK j \in 1 .. n : q[j] = entry
  BY DEF Lists
<1>0. /\ \A i \in 1 .. n : q[i] \in D
      /\ \A i, m \in 1 .. n : q[i] = q[m] => i = m
      /\ 1 \in 1 .. n /\ n \in 1 .. n
      /\ s.head = q[1] /\ s.tail = q[n]
  <2>1. 1 \in 1 .. n /\ n \in 1 .. n /\ n # 0
    OBVIOUS
  <2> QED BY <2>1 DEF Lists
<1>1. /\ D \in SUBSET Entry /\ s.heap \in [D -> Node] /\ Undefined \notin D
      /\ s.tail \in D /\ s.head \in D
  BY <1>0, LRUAssumption DEF Sound, Typed
<1>2. /\ newer = Succ(n, q, j) /\ older = Pred(q, j) /\ j # n /\ n - 1 \in Nat
  <2>1. newer = Succ(n, q, j) /\ older = Pred(q, j)
    BY DEF Lists, Succ, Pred
  <2>2. j # n
    BY <1>0
  <2> QED BY <2>1, <2>2
<1>3. newer \in D /\ older \in D \cup {Undefined}
  <2>1. j + 1 \in 1 .. n /\ (j # 1 => j - 1 \in 1 .. n)
    BY <1>2
  <2> HIDE DEF newer, older, D
  <2> QED BY <1>0, <1>2, <2>1 DEF Succ, Pred
<1>4. new = [s EXCEPT !.head = head, !.heap = heap, !.tail = entry]
  BY <1>1, <1>3 DEF MovedToTail
<1>5. /\ h1 \in [D -> Node]
      /\ \A x \in D : /\ h1[x].older = IF x = newer THEN older ELSE s.heap[x].older
                      /\ h1[x].newer = s.heap[x].newer /\ h1[x].key = s.heap[x].key
                      /\ h1[x].value = s.heap[x].value
  BY <1>1, <1>3, LRUAssumption DEF SetOlder, Node, Ref
<1> HIDE DEF D, newer, older, h1
<1>6. /\ unlinked \in [D -> Node]
      /\ \A x \in D : /\ unlinked[x].newer = IF x = older THEN newer ELSE h1[x].newer
                      /\ unlinked[x].older = h1[x].older /\ unlinked[x].key = h1[x].key
                      /\ unlinked[x].value = h1[x].value
  BY <1>1, <1>3, <1>5, LRUAssumption DEF SetNewer, Node, Ref
<1> HIDE DEF unlinked
<1>7. /\ appended \in [D -> Node]
      /\ \A x \in D : /\ appended[x].newer = IF x = entry THEN Undefined ELSE unlinked[x].newer
                      /\ appended[x].older = IF x = entry THEN s.tail ELSE unlinked[x].older
                      /\ appended[x].key = unlinked[x].key
                      /\ appended[x].value = unlinked[x].value
  BY <1>1, <1>6, LRUAssumption DEF Node, Ref
<1> HIDE DEF appended
<1>8. /\ heap \in [D -> Node]
      /\ \A x \in D : /\ heap[x].newer = IF x = s.tail THEN entry ELSE appended[x].newer
                      /\ heap[x].older = appended[x].older /\ heap[x].key = appended[x].key
                      /\ heap[x].value = appended[x].value
  BY <1>1, <1>7, LRUAssumption DEF SetNewer, Node, Ref, D
<1> HIDE DEF heap, head, new
<1>9. \A x \in D :
        /\ heap[x].newer = IF x = s.tail THEN entry
                           ELSE IF x = entry THEN Undefined
                           ELSE IF x = older THEN newer ELSE s.heap[x].newer
        /\ heap[x].older = IF x = entry THEN s.tail
                           ELSE IF x = newer THEN older ELSE s.heap[x].older
        /\ heap[x].key = s.heap[x].key /\ heap[x].value = s.heap[x].value
  BY <1>5, <1>6, <1>7, <1>8
<1>10. /\ Shape(new) /\ new.size = s.size /\ new.limit = s.limit
       /\ new.keymap = s.keymap /\ new.heap = heap /\ new.head = head /\ new.tail = entry
  BY <1>4 DEF Shape, Sound, Typed
<1>11. DOMAIN new.heap = D
  BY <1>8, <1>10
<1>12. Typed(new)
  <2>1. DOMAIN s.keymap \subseteq Key /\ s.keymap \in [DOMAIN s.keymap -> D]
    BY DEF Sound, Typed, D
  <2> QED BY <1>1, <1>8, <1>10, <1>11, <2>1 DEF Typed, D
<1>13. Lists(new, n, After(n - 1, Minus(n, q, j), entry))
  <2> DEFINE rest == [x \in D \ {entry} |->
                        [newer |-> IF x = older THEN newer ELSE s.heap[x].newer,
                         older |-> IF x = newer THEN older ELSE s.heap[x].older]]
             mid == [heap |-> rest, head |-> head, tail |-> s.tail]
  <2>1. /\ DOMAIN mid.heap = DOMAIN s.heap \ {q[j]} /\ mid.head = head /\ mid.tail = s.tail
        /\ \A x \in DOMAIN mid.heap :
             /\ mid.heap[x].newer = IF x = older THEN newer ELSE s.heap[x].newer
             /\ mid.heap[x].older = IF x = newer THEN older ELSE s.heap[x].older
    BY DEF D
  <2> HIDE DEF mid
  <2>2. mid.head = IF j = 1 THEN Succ(n, q, j) ELSE s.head
    BY <1>0, <1>2, <2>1 DEF head
  <2>3. mid.tail = IF j = n THEN Pred(q, j) ELSE s.tail
    BY <1>2, <2>1
  <2>4. \A x \in DOMAIN mid.heap :
          /\ mid.heap[x].newer = IF x = Pred(q, j) THEN Succ(n, q, j) ELSE s.heap[x].newer
          /\ mid.heap[x].older = IF x = Succ(n, q, j) THEN Pred(q, j) ELSE s.heap[x].older
    BY <1>2, <2>1
  <2>5. Typed(s) /\ DOMAIN mid.heap = DOMAIN s.heap \ {q[j]}
    BY <2>1 DEF Sound
  <2>6. Lists(mid, n - 1, Minus(n, q, j))
    BY <2>2, <2>3, <2>4, <2>5, GapClosed
  <2>7. Extended(mid, entry, new)
    <3>1. DOMAIN mid.heap = D \ {entry} /\ entry \in D
      BY <2>1 DEF D
    <3>2. DOMAIN new.heap = DOMAIN mid.heap \cup {entry}
      BY <1>11, <3>1
    <3>3. \A x \in DOMAIN new.heap :
            new.heap[x].newer = IF x = entry THEN Undefined
                                ELSE IF x = mid.tail THEN entry ELSE mid.heap[x].newer
      BY <1>9, <1>10, <1>11, <2>1, <3>1
    <3>4. \A x \in DOMAIN new.heap :
            new.heap[x].older = IF x = entry THEN mid.tail ELSE mid.heap[x].older
      BY <1>9, <1>10, <1>11, <2>1, <3>1
    <3>5. new.head = IF mid.tail = Undefined THEN entry ELSE mid.head
      BY <1>1, <1>10, <2>1
    <3> QED BY <1>10, <3>1, <3>2, <3>3, <3>4, <3>5 DEF Extended
  <2>8. Undefined \notin DOMAIN mid.heap
    BY <1>1, <2>1 DEF D
  <2>9. Lists(new, (n - 1) + 1, After(n - 1, Minus(n, q, j), entry))
    BY <1>2, <2>6, <2>7, <2>8, ListExtended
  <2>10. (n - 1) + 1 = n
    OBVIOUS
  <2> QED BY <2>9, <2>10
<1>14. Faithful(new)
  BY <1>9, <1>10 DEF Faithful, Sound, Typed, D
<1>15. Sound(new, n)
  BY <1>12, <1>13, <1>14 DEF Sound
<1>16. Keeps(s, new)
  BY <1>9, <1>10, <1>11 DEF Keeps, D
<1> QED BY <1>10, <1>11, <1>13, <1>15, <1>16 DEF new, D

(* get moves at most one entry.                                            *)
LEMMA GetSound ==
  ASSUME NEW s, NEW n \in Nat, Sound(s, n), NEW k
  PROVE  /\ Sound(get(s, k), n) /\ DOMAIN get(s, k).heap = DOMAIN s.heap
         /\ get(s, k).keymap = s.keymap
         /\ get(s, k).size = s.size /\ get(s, k).limit = s.limit
<1>1. CASE Cached(s, k) /\ ~AtTail(s, k)
  <2>1. s.keymap[k] \in DOMAIN s.heap /\ s.keymap[k] # s.tail
    BY <1>1 DEF Cached, AtTail, Sound, Typed
  <2> PICK q : Lists(s, n, q)
    BY DEF Sound
  <2> QED BY <1>1, <2>1, MovedSound DEF get
<1>2. CASE ~Cached(s, k) \/ AtTail(s, k)
  BY <1>2 DEF get
<1> QED BY <1>1, <1>2

(* set's assignment to the value of an entry.                              *)
LEMMA WriteSound ==
  ASSUME NEW s, NEW n \in Nat, Sound(s, n), NEW e \in DOMAIN s.heap, NEW v \in Value
  PROVE  LET new == [s EXCEPT !.heap[e].value = v]
         IN Sound(new, n) /\ new.size = s.size /\ new.limit = s.limit
<1> DEFINE D == DOMAIN s.heap
           heap == [s.heap EXCEPT ![e].value = v]
           new == [s EXCEPT !.heap[e].value = v]
<1>1. s.heap \in [D -> Node]
  BY DEF Sound, Typed
<1>2. /\ heap \in [D -> Node]
      /\ \A x \in D : /\ heap[x].newer = s.heap[x].newer /\ heap[x].older = s.heap[x].older
                      /\ heap[x].key = s.heap[x].key
  BY <1>1 DEF Node
<1>3. new = [s EXCEPT !.heap = heap]
  OBVIOUS
<1> HIDE DEF heap, new
<1>4. /\ Shape(new) /\ new.size = s.size /\ new.limit = s.limit
      /\ new.keymap = s.keymap /\ new.heap = heap /\ new.head = s.head /\ new.tail = s.tail
  BY <1>3 DEF Shape, Sound, Typed
<1>5. Typed(new)
  BY <1>2, <1>4 DEF Sound, Typed
<1>6. \E r : Lists(new, n, r)
  <2> PICK q : Lists(s, n, q)
    BY DEF Sound
  <2>1. DOMAIN new.heap = D
    BY <1>2, <1>4
  <2>2. /\ q \in [1 .. n -> D] /\ \A x \in D : \E i \in 1 .. n : q[i] = x
        /\ \A i, j \in 1 .. n : q[i] = q[j] => i = j
        /\ s.head = (IF n = 0 THEN Undefined ELSE q[1])
        /\ s.tail = (IF n = 0 THEN Undefined ELSE q[n])
    BY DEF Lists
  <2>3. \A i \in 1 .. n :
          /\ new.heap[q[i]].newer = (IF i = n THEN Undefined ELSE q[i + 1])
          /\ new.heap[q[i]].older = (IF i = 1 THEN Undefined ELSE q[i - 1])
    <3> SUFFICES ASSUME NEW i \in 1 .. n
                 PROVE  /\ new.heap[q[i]].newer = (IF i = n THEN Undefined ELSE q[i + 1])
                        /\ new.heap[q[i]].older = (IF i = 1 THEN Undefined ELSE q[i - 1])
      OBVIOUS
    <3>1. /\ s.heap[q[i]].newer = (IF i = n THEN Undefined ELSE q[i + 1])
          /\ s.heap[q[i]].older = (IF i = 1 THEN Undefined ELSE q[i - 1])
      BY DEF Lists
    <3>2. q[i] \in D
      BY <2>2
    <3> QED BY <1>2, <1>4, <3>1, <3>2
  <2> HIDE DEF D
  <2>4. Lists(new, n, q)
    BY <1>4, <2>1, <2>2, <2>3 DEF Lists
  <2> QED BY <2>4
<1>7. Faithful(new)
  <2>1. \A k \in DOMAIN s.keymap : s.keymap[k] \in D /\ s.heap[s.keymap[k]].key = k
    BY DEF Sound, Typed, Faithful
  <2> QED BY <1>2, <1>4, <2>1 DEF Faithful
<1> QED BY <1>4, <1>5, <1>6, <1>7 DEF Sound, new

-----------------------------------------------------------------------------
(* put at the limit links and shifts; as the limit is at least 1 the list  *)
(* then has two entries and shift takes its first branch.                  *)
LEMMA PutSound ==
  ASSUME NEW s, s.size \in Nat, s.limit \in Nat \ {0}, s.size <= s.limit, Sound(s, s.size),
         NEW e \in Entry \ DOMAIN s.heap, NEW k \in Key, NEW v \in Value
  PROVE  LET new == put(s, e, k, v)
         IN /\ new.size \in 0 .. s.limit /\ new.limit = s.limit
            /\ Sound(new, new.size)
<1> DEFINE linked == Linked(s, e, k, v)
<1> PICK q : Lists(s, s.size, q)
  BY DEF Sound
<1>1. Sound(linked, s.size + 1) /\ linked.size = s.size /\ linked.limit = s.limit
  <2>1. LinkedAs(s, s.size, q, e, k, v, linked)
    BY LinkedSound
  <2> QED BY <2>1 DEF LinkedAs
<1> HIDE DEF linked
<1>2. CASE s.size = s.limit
  <2>1. s.size + 1 \in Nat /\ s.size + 1 >= 2 /\ (s.size + 1) - 1 = s.size
    BY <1>2
  <2> PICK r : Lists(linked, s.size + 1, r)
    BY <1>1 DEF Sound
  <2>2. LET new == shift(linked)
        IN Sound(new, (s.size + 1) - 1) /\ new.size = s.size /\ new.limit = s.limit
    BY <1>1, <2>1, ShiftSound
  <2>3. put(s, e, k, v) = shift(linked)
    BY <1>2 DEF put, linked
  <2> QED BY <1>2, <2>1, <2>2, <2>3
<1>3. CASE s.size # s.limit
  <2> DEFINE new == [linked EXCEPT !.size = s.size + 1]
  <2>1. put(s, e, k, v) = new
    BY <1>3 DEF put, linked
  <2>2. /\ Shape(new) /\ new.size = s.size + 1 /\ new.limit = linked.limit
        /\ new.keymap = linked.keymap /\ new.heap = linked.heap
        /\ new.head = linked.head /\ new.tail = linked.tail
    BY <1>1 DEF Shape, Sound, Typed
  <2> HIDE DEF new
  <2>3. Sound(new, s.size + 1)
    <3> PICK r : Lists(linked, s.size + 1, r)
      BY <1>1 DEF Sound
    <3>1. Typed(linked) /\ Faithful(linked)
      BY <1>1 DEF Sound
    <3>2. Lists(new, s.size + 1, r)
      BY <2>2 DEF Lists
    <3>3. Typed(new) /\ Faithful(new)
      BY <2>2, <3>1 DEF Typed, Faithful
    <3> QED BY <3>2, <3>3 DEF Sound
  <2> QED BY <1>1, <1>3, <2>1, <2>2, <2>3
<1> QED BY <1>2, <1>3

(* set ends in a put, a write behind get, or nothing.                      *)
LEMMA SetSound ==
  ASSUME NEW s, Good(s), NEW e \in Entry \ DOMAIN s.heap, NEW k \in Key, NEW v \in Value
  PROVE  Good(set(s, e, k, v))
<1>1. /\ s.size \in Nat /\ s.limit \in Nat \ {0} /\ s.size <= s.limit
      /\ Sound(s, s.size) /\ s.limit \in 1 .. MaxLimit /\ s.size \in 0 .. s.limit
  BY LRUAssumption DEF Good
<1>2. CASE Cached(s, k) /\ ~AtTail(s, k)
  <2> DEFINE got == get(s, k)
  <2>1. /\ Sound(got, s.size) /\ got.size = s.size /\ got.limit = s.limit
        /\ DOMAIN got.heap = DOMAIN s.heap
    BY <1>1, GetSound
  <2>2. s.keymap[k] \in DOMAIN got.heap
    BY <1>1, <1>2, <2>1 DEF Cached, Sound, Typed
  <2>3. set(s, e, k, v) = [got EXCEPT !.heap[s.keymap[k]].value = v]
    BY <1>2 DEF set
  <2> HIDE DEF got
  <2>4. LET new == [got EXCEPT !.heap[s.keymap[k]].value = v]
        IN Sound(new, s.size) /\ new.size = got.size /\ new.limit = got.limit
    BY <1>1, <2>1, <2>2, WriteSound
  <2> QED BY <1>1, <2>1, <2>3, <2>4 DEF Good
<1>3. CASE AtTail(s, k) /\ s.heap[s.tail].value \in Truthy
  BY <1>3 DEF set, Good
<1>4. CASE ~(Cached(s, k) /\ ~AtTail(s, k)) /\ ~(AtTail(s, k) /\ s.heap[s.tail].value \in Truthy)
  <2>1. set(s, e, k, v) = put(s, e, k, v)
    BY <1>4 DEF set
  <2>2. LET new == put(s, e, k, v)
        IN /\ new.size \in 0 .. s.limit /\ new.limit = s.limit
           /\ Sound(new, new.size)
    BY <1>1, PutSound
  <2> QED BY <1>1, <2>1, <2>2 DEF Good
<1> QED BY <1>2, <1>3, <1>4

(* The constructor and removeAll.                                          *)
LEMMA EmptySound ==
  ASSUME NEW limit \in 1 .. MaxLimit
  PROVE  Good(EmptyLRU(limit))
<1> DEFINE s == EmptyLRU(limit)
           q == [i \in 1 .. 0 |-> i]
<1>1. /\ Shape(s) /\ s.size = 0 /\ s.limit = limit /\ s.head = Undefined
      /\ s.tail = Undefined /\ s.keymap = << >> /\ s.heap = << >>
  BY DEF EmptyLRU, Shape
<1>2. DOMAIN << >> = {}
  OBVIOUS
<1> HIDE DEF s
<1>3. DOMAIN s.heap = {} /\ DOMAIN s.keymap = {}
  BY <1>1, <1>2
<1>4. s.heap \in [DOMAIN s.heap -> Node] /\ s.keymap \in [DOMAIN s.keymap -> DOMAIN s.heap]
  BY <1>1, <1>2, <1>3
<1>5. Lists(s, 0, q)
  BY <1>1, <1>3 DEF Lists
<1>6. Sound(s, 0)
  BY <1>1, <1>3, <1>4, <1>5 DEF Sound, Typed, Faithful
<1>7. limit \in Nat
  BY LRUAssumption
<1> QED BY <1>1, <1>6, <1>7 DEF Good, s

(* remove of a cached key; of any other it does nothing.                   *)
LEMMA PurgeSound ==
  ASSUME NEW s, Good(s), NEW k
  PROVE  Good(remove(s, k))
<1>1. /\ s.size \in Nat /\ s.limit \in Nat /\ s.size <= s.limit
      /\ Sound(s, s.size) /\ s.limit \in 1 .. MaxLimit
  BY LRUAssumption DEF Good
<1>2. CASE Cached(s, k)
  <2> PICK q : Lists(s, s.size, q)
    BY <1>1 DEF Sound
  <2>1. LET new == remove(s, k)
        IN Sound(new, s.size - 1) /\ s.size > 0 /\ new.size = s.size - 1 /\ new.limit = s.limit
    BY <1>1, <1>2, RemoveSound DEF Cached
  <2> QED BY <1>1, <2>1 DEF Good
<1>3. CASE ~Cached(s, k)
  BY <1>3 DEF remove
<1> QED BY <1>2, <1>3

-----------------------------------------------------------------------------
(* The invariant holds whatever a caller that leaves shift to put does.    *)
LEMMA LRUInvInit ==
  Init => LRUInv
BY EmptySound DEF Init, LRUInv

(* rules.js's calls are among those of the API.                            *)
LEMMA NextIsApiNext ==
  Next => ApiNext
BY DEF Next, ApiNext, Memoize, Set

(* Every call of a method keeps it.                                        *)
LEMMA LRUInvNext ==
  LRUInv /\ [ApiNext]_lru => LRUInv'
<1> SUFFICES ASSUME Good(lru), [ApiNext]_lru PROVE Good(lru')
  BY DEF LRUInv
<1>1. CASE UNCHANGED lru
  BY <1>1
<1>2. ASSUME NEW k \in Key, Lookup(k) PROVE Good(lru')
  <2>1. lru.size \in Nat /\ Sound(lru, lru.size)
    BY LRUAssumption DEF Good
  <2> DEFINE got == get(lru, k)
  <2>2. Sound(got, lru.size) /\ got.size = lru.size /\ got.limit = lru.limit
    BY <2>1, GetSound
  <2>3. lru' = got
    BY <1>2 DEF Lookup
  <2> HIDE DEF got
  <2>4. Good(got)
    BY <2>2 DEF Good
  <2> QED BY <2>3, <2>4
<1>3. ASSUME NEW k \in Key, Purge(k) PROVE Good(lru')
  <2>1. Good(remove(lru, k))
    BY PurgeSound
  <2> QED BY <1>3, <2>1 DEF Purge
<1>4. ASSUME NEW k \in Key, NEW v \in Value, Put(k, v) PROVE Good(lru')
  <2> PICK e \in Entry \ DOMAIN lru.heap : lru' = put(lru, e, k, v)
    BY <1>4 DEF Put, Fresh
  <2> DEFINE new == put(lru, e, k, v)
  <2>1. /\ lru.size \in Nat /\ lru.limit \in Nat \ {0} /\ lru.size <= lru.limit
        /\ Sound(lru, lru.size) /\ lru.limit \in 1 .. MaxLimit
    BY LRUAssumption DEF Good
  <2>2. new.size \in 0 .. lru.limit /\ new.limit = lru.limit /\ Sound(new, new.size)
    BY <2>1, PutSound
  <2> HIDE DEF new
  <2>3. Good(new)
    BY <2>1, <2>2 DEF Good
  <2>4. lru' = new
    BY DEF new
  <2> QED BY <2>3, <2>4
<1>5. ASSUME NEW k \in Key, NEW v \in Value, Set(k, v) PROVE Good(lru')
  <2> PICK e \in Entry \ DOMAIN lru.heap : lru' = set(lru, e, k, v)
    BY <1>5 DEF Set, Fresh
  <2>1. Good(set(lru, e, k, v))
    BY SetSound
  <2> QED BY <2>1
<1>6. CASE Clear
  <2>1. Good(EmptyLRU(lru.limit))
    BY EmptySound DEF Good
  <2> QED BY <1>6, <2>1 DEF Clear, removeAll
<1> QED BY <1>1, <1>2, <1>3, <1>4, <1>5, <1>6 DEF ApiNext

(* So it holds throughout.                                                 *)
LEMMA LRUInvAlways ==
  ApiSpec => []LRUInv
BY LRUInvInit, LRUInvNext, PTL DEF ApiSpec

-----------------------------------------------------------------------------
(* What the invariant says of the list.                                    *)

(* The order is a bijection, so `size` counts the entries.                 *)
LEMMA InvCounts ==
  LRUInv => SizeCounts
<1> SUFFICES ASSUME LRUInv PROVE SizeCounts
  OBVIOUS
<1>1. lru.size \in Nat /\ lru.size <= lru.limit
  BY LRUAssumption DEF LRUInv, Good
<1> PICK q : Lists(lru, lru.size, q)
  BY DEF LRUInv, Good, Sound
<1>2. q \in Bijection(1 .. lru.size, Entries)
  <2>1. q \in [1 .. lru.size -> Entries]
    BY DEF Lists, Entries
  <2>2. \A i, j \in 1 .. lru.size : q[i] = q[j] => i = j
    BY DEF Lists
  <2>3. \A e \in Entries : \E i \in 1 .. lru.size : q[i] = e
    BY DEF Lists, Entries
  <2> QED BY <2>1, <2>2, <2>3 DEF Bijection, Injection, Surjection, IsInjective
<1>3. Cardinality(1 .. lru.size) = lru.size /\ IsFiniteSet(1 .. lru.size)
  BY <1>1, FS_Interval
<1>4. Cardinality(Entries) = Cardinality(1 .. lru.size)
  BY <1>2, <1>3, FS_Bijection DEF ExistsBijection
<1> QED BY <1>1, <1>3, <1>4 DEF SizeCounts

(* Neighbours in the order are each other's older and newer.               *)
LEMMA InvMirrored ==
  LRUInv => LinksMirrored
<1> SUFFICES ASSUME LRUInv PROVE LinksMirrored
  OBVIOUS
<1> DEFINE n == lru.size
           D == DOMAIN lru.heap
<1>1. n \in Nat /\ Undefined \notin D
  BY LRUAssumption DEF LRUInv, Good, Sound, Typed
<1> PICK q : Lists(lru, n, q)
  BY DEF LRUInv, Good, Sound
<1> HIDE DEF n
<1>2. /\ \A i \in 1 .. n : q[i] \in D
      /\ \A x \in D : \E i \in 1 .. n : q[i] = x
      /\ \A i, j \in 1 .. n : q[i] = q[j] => i = j
  BY DEF Lists
<1>3. \A i \in 1 .. n : /\ lru.heap[q[i]].newer = IF i = n THEN Undefined ELSE q[i + 1]
                       /\ lru.heap[q[i]].older = IF i = 1 THEN Undefined ELSE q[i - 1]
  BY DEF Lists
<1>4. /\ lru.head = IF n = 0 THEN Undefined ELSE q[1]
      /\ lru.tail = IF n = 0 THEN Undefined ELSE q[n]
  BY DEF Lists
<1> HIDE DEF D
<1>5. ASSUME NEW e \in D
      PROVE  /\ lru.heap[e].newer \in D \cup {Undefined}
             /\ lru.heap[e].older \in D \cup {Undefined}
             /\ (lru.heap[e].older = Undefined) = (e = lru.head)
             /\ (lru.heap[e].newer = Undefined) = (e = lru.tail)
  <2> PICK i \in 1 .. n : q[i] = e
    BY <1>2
  <2>1. 1 \in 1 .. n /\ n \in 1 .. n /\ n # 0
    BY <1>1
  <2>2. (i # n => i + 1 \in 1 .. n) /\ (i # 1 => i - 1 \in 1 .. n)
    BY <1>1
  <2> QED BY <1>1, <1>2, <1>3, <1>4, <2>1, <2>2
<1>6. ASSUME NEW e \in D, NEW f \in D
      PROVE  (lru.heap[e].newer = f) = (lru.heap[f].older = e)
  <2> PICK i \in 1 .. n : q[i] = e
    BY <1>2
  <2> PICK j \in 1 .. n : q[j] = f
    BY <1>2
  <2>1. (i # n => i + 1 \in 1 .. n) /\ (j # 1 => j - 1 \in 1 .. n)
    BY <1>1
  <2>2. (lru.heap[e].newer = f) = (j = i + 1)
    BY <1>1, <1>2, <1>3, <2>1
  <2>3. (lru.heap[f].older = e) = (j = i + 1)
    BY <1>1, <1>2, <1>3, <2>1
  <2> QED BY <2>2, <2>3
<1>7. (n = 0) = (D = {})
  BY <1>1, <1>2
<1>8. (lru.head = Undefined) = (n = 0) /\ (lru.tail = Undefined) = (n = 0)
  <2>1. n # 0 => 1 \in 1 .. n /\ n \in 1 .. n
    BY <1>1
  <2> QED BY <1>1, <1>2, <1>4, <2>1
<1>9. Entries = D
  BY DEF Entries, D
<1> QED BY <1>5, <1>6, <1>7, <1>8, <1>9 DEF LinksMirrored

(* The ends are entries unless the list is empty.                          *)
LEMMA InvTyped ==
  LRUInv => TypeOK
<1> SUFFICES ASSUME LRUInv PROVE TypeOK
  OBVIOUS
<1>1. /\ lru.limit \in 1 .. MaxLimit /\ lru.size \in 0 .. lru.limit
      /\ lru.size \in 0 .. MaxLimit /\ lru.size \in Nat /\ Typed(lru)
  BY LRUAssumption DEF LRUInv, Good, Sound
<1> PICK q : Lists(lru, lru.size, q)
  BY DEF LRUInv, Good, Sound
<1>2. \A i \in 1 .. lru.size : q[i] \in Entries
  BY DEF Lists, Entries
<1>3. /\ lru.head = IF lru.size = 0 THEN Undefined ELSE q[1]
      /\ lru.tail = IF lru.size = 0 THEN Undefined ELSE q[lru.size]
  BY DEF Lists
<1>4. lru.size # 0 => 1 \in 1 .. lru.size /\ lru.size \in 1 .. lru.size
  BY <1>1
<1>5. {lru.head, lru.tail} \subseteq Entries \cup {Undefined}
  BY <1>2, <1>3, <1>4
<1> QED BY <1>1, <1>5 DEF TypeOK, Typed, Entries

(* The cache stays well typed, as rules.js uses it (lru.js's constructor   *)
(* and every method).                                                      *)
THEOREM CacheIsTyped ==
  Spec => []TypeOK
<1>1. [Next]_lru => [ApiNext]_lru
  BY NextIsApiNext
<1>2. LRUInv /\ [Next]_lru => LRUInv'
  BY <1>1, LRUInvNext
<1> QED BY <1>2, LRUInvInit, InvTyped, PTL DEF Spec

(* Whatever methods of lru.js but shift a caller calls, in any order and   *)
(* with any keys, neighbours point at each other, the ends alone lack one, *)
(* the key map finds an entry of its key, and `size` counts the entries.   *)
THEOREM CacheIsWellFormed ==
  ApiSpec => []WellFormed
<1>1. LRUInv => KeymapFaithful
  BY DEF LRUInv, Good, Sound, Faithful, KeymapFaithful
<1>2. LRUInv => WellFormed
  BY <1>1, InvMirrored, InvCounts DEF WellFormed
<1> QED BY <1>2, LRUInvAlways, PTL

(* shift called by itself (lru.js 69-86) takes an entry and leaves `size`  *)
(* as it was: after it the count is wrong, whatever list it was called on. *)
THEOREM ShiftAloneMiscounts ==
  ASSUME LRUInv, lru.head # Undefined, lru' = shift(lru)
  PROVE  ~SizeCounts'
<1> DEFINE next == lru.heap[lru.head].newer
           D == DOMAIN lru.heap
           h == SetOlder(lru.heap, next, Undefined)
<1>1. SizeCounts /\ lru.size \in Nat
  BY InvCounts, LRUAssumption DEF LRUInv, Good
<1>2. lru.head \in D /\ IsFiniteSet(D)
  <2> PICK q : Lists(lru, lru.size, q)
    BY DEF LRUInv, Good, Sound
  <2>1. lru.head \in D
    BY <1>1 DEF Lists
  <2>2. q \in Surjection(1 .. lru.size, D)
    BY DEF Lists, Surjection
  <2> QED BY <1>1, <2>1, <2>2, FS_Interval, FS_Surjection
<1>3. DOMAIN h = D
  BY DEF SetOlder
<1>4. lru'.size = lru.size /\ DOMAIN lru'.heap = D \ {lru.head}
  BY <1>2, <1>3 DEF shift, Restrict, LRUInv, Good, Sound, Typed, Shape
<1>5. Cardinality(D \ {lru.head}) = Cardinality(D) - 1
  BY <1>2, FS_RemoveElement
<1>6. Cardinality(D) = lru.size
  BY <1>1 DEF SizeCounts, Entries
<1> QED BY <1>1, <1>4, <1>5, <1>6 DEF SizeCounts, Entries

-----------------------------------------------------------------------------
(* The contract's operators on orders that are given by position.          *)

Distinct(f) == \A i, j \in DOMAIN f : f[i] = f[j] => i = j

LEMMA WithoutIs ==
  ASSUME NEW S, NEW f \in Seq(S), Distinct(f), NEW j \in DOMAIN f
  PROVE  Contract!Without(f, f[j]) = Minus(Len(f), f, j)
<1> DEFINE n == Len(f)
           i == CHOOSE x \in DOMAIN f : f[x] = f[j]
           before == SubSeq(f, 1, j - 1)
           behind == SubSeq(f, j + 1, n)
           g == before \o behind
<1>0. n \in Nat /\ j \in 1 .. n
  OBVIOUS
<1>1. i = j
  BY DEF Distinct
<1>2. f[j] \in Contract!Range(f)
  BY DEF Contract!Range
<1>3. Contract!Without(f, f[j]) = g
  BY <1>1, <1>2 DEF Contract!Without, Contract!RemoveAt
<1>4. before \in Seq(S) /\ Len(before) = j - 1 /\ \A x \in 1 .. j - 1 : before[x] = f[x]
  <2>1. \A x \in 1 .. j - 1 : f[x] \in S
    BY <1>0
  <2> QED BY <1>0, <2>1, SubSeqProperties
<1>5. behind \in Seq(S) /\ Len(behind) = n - j /\ \A x \in 1 .. n - j : behind[x] = f[j + x]
  <2>1. \A x \in j + 1 .. n : f[x] \in S
    BY <1>0
  <2> QED BY <1>0, <2>1, SubSeqProperties
<1> HIDE DEF before, behind, n
<1>6. /\ g \in Seq(S) /\ Len(g) = n - 1
      /\ \A x \in 1 .. n - 1 : g[x] = IF x <= j - 1 THEN before[x] ELSE behind[x - (j - 1)]
  <2>1. /\ g \in Seq(S) /\ Len(g) = Len(before) + Len(behind)
        /\ \A x \in 1 .. Len(before) + Len(behind) :
             g[x] = IF x <= Len(before) THEN before[x] ELSE behind[x - Len(before)]
    BY <1>4, <1>5, ConcatProperties
  <2>2. Len(before) + Len(behind) = n - 1
    BY <1>0, <1>4, <1>5
  <2> QED BY <1>4, <2>1, <2>2
<1> HIDE DEF g
<1>7. ASSUME NEW x \in 1 .. n - 1 PROVE g[x] = IF x < j THEN f[x] ELSE f[x + 1]
  <2>1. CASE x < j
    BY <1>0, <1>4, <1>6, <2>1
  <2>2. CASE ~(x < j)
    <3>1. x - (j - 1) \in 1 .. n - j /\ j + (x - (j - 1)) = x + 1 /\ ~(x <= j - 1)
      BY <1>0, <2>2
    <3> QED BY <1>5, <1>6, <2>2, <3>1
  <2> QED BY <2>1, <2>2
<1>8. g = [x \in 1 .. n - 1 |-> g[x]]
  BY <1>0, <1>6, LenProperties
<1>9. g = Minus(n, f, j)
  BY <1>7, <1>8 DEF Minus
<1> QED BY <1>3, <1>9 DEF n

LEMMA WithoutNone ==
  ASSUME NEW f, NEW k, \A i \in DOMAIN f : f[i] # k
  PROVE  Contract!Without(f, k) = f
BY DEF Contract!Without, Contract!Range

LEMMA AppendIs ==
  ASSUME NEW S, NEW f \in Seq(S), NEW x \in S
  PROVE  Append(f, x) = After(Len(f), f, x)
<1> DEFINE g == Append(f, x)
           n == Len(f)
<1>1. n \in Nat /\ g \in Seq(S) /\ Len(g) = n + 1
  OBVIOUS
<1>2. \A i \in 1 .. n + 1 : g[i] = IF i = n + 1 THEN x ELSE f[i]
  OBVIOUS
<1> HIDE DEF g, n
<1>3. g = [i \in 1 .. n + 1 |-> g[i]]
  BY <1>1, LenProperties
<1>4. g = After(n, f, x)
  BY <1>2, <1>3 DEF After
<1> QED BY <1>4 DEF g, n

LEMMA TailIs ==
  ASSUME NEW S, NEW f \in Seq(S), f # <<>>
  PROVE  Tail(f) = Minus(Len(f), f, 1)
<1> DEFINE g == Tail(f)
           n == Len(f)
<1>1. /\ n \in Nat /\ n > 0 /\ g \in Seq(S) /\ Len(g) = n - 1
      /\ \A i \in 1 .. n - 1 : g[i] = f[i + 1]
  BY HeadTailProperties, EmptySeq
<1> HIDE DEF g, n
<1>2. g = [i \in 1 .. n - 1 |-> g[i]]
  BY <1>1, LenProperties
<1>3. g = Minus(n, f, 1)
  BY <1>1, <1>2 DEF Minus
<1> QED BY <1>3 DEF g, n

LEMMA MinusSeq ==
  ASSUME NEW S, NEW f \in Seq(S), NEW j \in DOMAIN f
  PROVE  Minus(Len(f), f, j) \in Seq(S) /\ Len(Minus(Len(f), f, j)) = Len(f) - 1
<1> DEFINE n == Len(f)
<1>1. n \in Nat /\ j \in 1 .. n /\ n - 1 \in Nat /\ \A i \in 1 .. n : f[i] \in S
  OBVIOUS
<1> HIDE DEF n
<1>2. \A i \in 1 .. n - 1 : (IF i < j THEN f[i] ELSE f[i + 1]) \in S
  BY <1>1
<1>3. Minus(n, f, j) \in [1 .. n - 1 -> S]
  BY <1>2 DEF Minus
<1> QED BY <1>1, <1>3 DEF n

(* Moving the j-th to the end.                                             *)
LEMMA TouchIs ==
  ASSUME NEW S, NEW f \in Seq(S), Distinct(f), NEW j \in DOMAIN f
  PROVE  Append(Contract!Without(f, f[j]), f[j]) =
           After(Len(f) - 1, Minus(Len(f), f, j), f[j])
<1>1. f[j] \in S
  OBVIOUS
<1> QED BY <1>1, WithoutIs, MinusSeq, AppendIs

-----------------------------------------------------------------------------
(* What rules.js sees of an object whose list is q.                        *)

KeysOf(s, n, q) == [i \in 1 .. n |-> s.heap[q[i]].key]
ValuesOf(s) == [k \in DOMAIN s.keymap |-> s.heap[s.keymap[k]].value]
ValuesWith(s, k, v) ==
  [x \in DOMAIN s.keymap \cup {k} |-> IF x = k THEN v ELSE ValuesOf(s)[x]]
ValuesBut(s, k) == [x \in DOMAIN s.keymap \ {k} |-> ValuesOf(s)[x]]
View(s, n, q) == [limit |-> s.limit, order |-> KeysOf(s, n, q), val |-> ValuesOf(s)]

(* NoOrphans, of any object.                                               *)
Found(s) ==
  \A e \in DOMAIN s.heap : /\ s.heap[e].key \in DOMAIN s.keymap
                           /\ s.keymap[s.heap[e].key] = e

(* The keys are as many as the entries, in the same order.                 *)
LEMMA KeysListed ==
  ASSUME NEW s, NEW n \in Nat, Sound(s, n), Found(s), NEW q, Lists(s, n, q)
  PROVE  /\ KeysOf(s, n, q) \in Seq(Key) /\ Len(KeysOf(s, n, q)) = n
         /\ Distinct(KeysOf(s, n, q))
         /\ \A k \in DOMAIN s.keymap : \E i \in 1 .. n :
              q[i] = s.keymap[k] /\ KeysOf(s, n, q)[i] = k
         /\ \A i \in 1 .. n : KeysOf(s, n, q)[i] \in DOMAIN s.keymap
<1> DEFINE f == KeysOf(s, n, q)
<1>1. \A i \in 1 .. n : q[i] \in DOMAIN s.heap
  BY DEF Lists
<1>2. \A e \in DOMAIN s.heap : s.heap[e].key \in Key
  BY DEF Sound, Typed, Node
<1>3. f \in Seq(Key) /\ Len(f) = n /\ \A i \in 1 .. n : f[i] = s.heap[q[i]].key
  BY <1>1, <1>2 DEF KeysOf
<1> HIDE DEF f
<1>4. ASSUME NEW i \in 1 .. n, NEW j \in 1 .. n, f[i] = f[j] PROVE i = j
  <2>1. q[i] = q[j]
    BY <1>1, <1>3, <1>4 DEF Found
  <2> QED BY <2>1 DEF Lists
<1>5. ASSUME NEW k \in DOMAIN s.keymap PROVE \E i \in 1 .. n : q[i] = s.keymap[k] /\ f[i] = k
  <2>1. s.keymap[k] \in DOMAIN s.heap /\ s.heap[s.keymap[k]].key = k
    BY DEF Sound, Typed, Faithful
  <2>2. PICK i \in 1 .. n : q[i] = s.keymap[k]
    BY <2>1 DEF Lists
  <2> QED BY <1>3, <2>1, <2>2
<1>6. \A i \in 1 .. n : f[i] \in DOMAIN s.keymap
  BY <1>1, <1>3 DEF Found
<1>7. Distinct(f)
  BY <1>3, <1>4 DEF Distinct
<1> QED BY <1>3, <1>5, <1>6, <1>7 DEF f

(* An entry has the same key in two objects that keep what entries hold.   *)
LEMMA KeysKept ==
  ASSUME NEW s, NEW new, Keeps(s, new), NEW n \in Nat, NEW q,
         \A i \in 1 .. n : q[i] \in DOMAIN s.heap /\ q[i] \in DOMAIN new.heap
  PROVE  KeysOf(new, n, q) = KeysOf(s, n, q)
BY DEF KeysOf, Keeps

LEMMA KeysAfter ==
  ASSUME NEW s, NEW n \in Nat, NEW q, NEW e
  PROVE  KeysOf(s, n + 1, After(n, q, e)) = After(n, KeysOf(s, n, q), s.heap[e].key)
<1>1. ASSUME NEW i \in 1 .. n + 1
      PROVE  s.heap[After(n, q, e)[i]].key = After(n, KeysOf(s, n, q), s.heap[e].key)[i]
  BY DEF After, KeysOf
<1> QED BY <1>1 DEF After, KeysOf

LEMMA KeysMinus ==
  ASSUME NEW s, NEW n \in Nat, NEW q, NEW j \in 1 .. n
  PROVE  KeysOf(s, n - 1, Minus(n, q, j)) = Minus(n, KeysOf(s, n, q), j)
<1>1. ASSUME NEW i \in 1 .. n - 1
      PROVE  s.heap[Minus(n, q, j)[i]].key = Minus(n, KeysOf(s, n, q), j)[i]
  BY DEF Minus, KeysOf
<1> QED BY <1>1 DEF Minus, KeysOf

(* Dropping the first of a list and then adding one, or the other way.     *)
LEMMA FirstOutLastIn ==
  ASSUME NEW n \in Nat, n >= 1, NEW f, NEW x
  PROVE  Minus(n + 1, After(n, f, x), 1) = After(n - 1, Minus(n, f, 1), x)
BY DEF Minus, After

(* s is an object of rules.js that holds the cache c.                      *)
Shows(s, c) ==
  Found(s) /\ \E q : Lists(s, s.size, q) /\ View(s, s.size, q) = c

(* Linking an entry for a new key: the key follows the others.             *)
LEMMA LinkedView ==
  ASSUME NEW s, NEW n \in Nat, Sound(s, n), Found(s), NEW q, Lists(s, n, q), NEW new,
         NEW e, e \notin DOMAIN s.heap, NEW k, k \notin DOMAIN s.keymap, NEW v,
         LinkedAs(s, n, q, e, k, v, new)
  PROVE  /\ Found(new)
         /\ KeysOf(new, n + 1, After(n, q, e)) = After(n, KeysOf(s, n, q), k)
         /\ ValuesOf(new) = ValuesWith(s, k, v)
<1>1. /\ Keeps(s, new) /\ DOMAIN new.heap = DOMAIN s.heap \cup {e}
      /\ new.heap[e].key = k /\ new.heap[e].value = v
      /\ DOMAIN new.keymap = DOMAIN s.keymap \cup {k}
      /\ \A x \in DOMAIN new.keymap : new.keymap[x] = IF x = k THEN e ELSE s.keymap[x]
  BY DEF LinkedAs
<1>2. \A x \in DOMAIN s.keymap : s.keymap[x] \in DOMAIN s.heap
  BY DEF Sound, Typed
<1>3. \A x \in DOMAIN s.heap : /\ new.heap[x].key = s.heap[x].key
                               /\ new.heap[x].value = s.heap[x].value
  BY <1>1 DEF Keeps
<1>4. Found(new)
  BY <1>1, <1>3 DEF Found
<1>5. KeysOf(new, n + 1, After(n, q, e)) = After(n, KeysOf(s, n, q), k)
  <2>1. \A i \in 1 .. n : q[i] \in DOMAIN s.heap /\ q[i] \in DOMAIN new.heap
    BY <1>1 DEF Lists
  <2>2. KeysOf(new, n, q) = KeysOf(s, n, q)
    BY <1>1, <2>1, KeysKept
  <2>3. KeysOf(new, n + 1, After(n, q, e)) = After(n, KeysOf(new, n, q), new.heap[e].key)
    BY KeysAfter
  <2>4. new.heap[e].key = k
    BY <1>1
  <2> QED BY <2>2, <2>3, <2>4, Zenon
<1>6. ValuesOf(new) = ValuesWith(s, k, v)
  <2>1. \A x \in DOMAIN s.keymap \cup {k} :
          new.heap[new.keymap[x]].value = IF x = k THEN v ELSE ValuesOf(s)[x]
    BY <1>1, <1>2, <1>3 DEF ValuesOf
  <2> QED BY <1>1, <2>1 DEF ValuesOf, ValuesWith
<1> QED BY <1>4, <1>5, <1>6

(* An entry and its key go: what they leave is as it was.                  *)
LEMMA GoneView ==
  ASSUME NEW s, NEW n \in Nat, Sound(s, n), Found(s), NEW q, Lists(s, n, q), NEW new,
         NEW j \in 1 .. n, Lists(new, n - 1, Minus(n, q, j)), Keeps(s, new),
         DOMAIN new.heap = DOMAIN s.heap \ {q[j]},
         new.keymap = Restrict(s.keymap, DOMAIN s.keymap \ {s.heap[q[j]].key})
  PROVE  /\ Found(new)
         /\ KeysOf(new, n - 1, Minus(n, q, j)) = Minus(n, KeysOf(s, n, q), j)
         /\ ValuesOf(new) = ValuesBut(s, KeysOf(s, n, q)[j])
<1> DEFINE gone == s.heap[q[j]].key
<1>1. /\ gone \in DOMAIN s.keymap /\ s.keymap[gone] = q[j] /\ q[j] \in DOMAIN s.heap
      /\ KeysOf(s, n, q)[j] = gone
  <2>1. q[j] \in DOMAIN s.heap
    BY DEF Lists
  <2> QED BY <2>1 DEF Found, KeysOf
<1> HIDE DEF gone
<1>2. /\ DOMAIN new.keymap = DOMAIN s.keymap \ {gone}
      /\ \A x \in DOMAIN new.keymap : new.keymap[x] = s.keymap[x]
  BY DEF Restrict, gone
<1>3. \A x \in DOMAIN new.heap : /\ x \in DOMAIN s.heap
                                 /\ new.heap[x].key = s.heap[x].key
                                 /\ new.heap[x].value = s.heap[x].value
  BY DEF Keeps
<1>4. \A x \in DOMAIN s.keymap : s.keymap[x] \in DOMAIN s.heap /\ s.heap[s.keymap[x]].key = x
  BY DEF Sound, Typed, Faithful
<1>5. Found(new)
  <2> SUFFICES ASSUME NEW x \in DOMAIN new.heap
               PROVE  new.heap[x].key \in DOMAIN new.keymap /\ new.keymap[new.heap[x].key] = x
    BY DEF Found
  <2>1. s.heap[x].key \in DOMAIN s.keymap /\ s.keymap[s.heap[x].key] = x /\ x # q[j]
    BY <1>3 DEF Found
  <2>2. s.heap[x].key # gone
    BY <1>1, <2>1
  <2> QED BY <1>2, <1>3, <2>1, <2>2
<1>6. KeysOf(new, n - 1, Minus(n, q, j)) = Minus(n, KeysOf(s, n, q), j)
  <2>1. n - 1 \in Nat
    OBVIOUS
  <2>2. \A i \in 1 .. n - 1 : Minus(n, q, j)[i] \in DOMAIN new.heap
    BY DEF Lists
  <2>3. KeysOf(new, n - 1, Minus(n, q, j)) = KeysOf(s, n - 1, Minus(n, q, j))
    BY <1>3, <2>1, <2>2, KeysKept
  <2> QED BY <2>3, KeysMinus
<1>7. ValuesOf(new) = ValuesBut(s, gone)
  <2>1. ASSUME NEW x \in DOMAIN s.keymap \ {gone}
        PROVE  new.heap[new.keymap[x]].value = ValuesOf(s)[x]
    <3>1. s.keymap[x] # q[j]
      BY <1>4 DEF gone
    <3> QED BY <1>2, <1>3, <1>4, <3>1 DEF ValuesOf
  <2> QED BY <1>2, <2>1 DEF ValuesOf, ValuesBut
<1> QED BY <1>1, <1>5, <1>6, <1>7

(* get of a key makes it the freshest; of a missing one it does nothing.   *)
LEMMA GetView ==
  ASSUME NEW s, Good(s), NEW c, Shows(s, c), NEW k
  PROVE  Shows(get(s, k), Contract!Touch(c, k))
<1> DEFINE n == s.size
<1>1. n \in Nat /\ Sound(s, n) /\ Found(s)
  BY LRUAssumption DEF Good, Shows
<1> PICK q : Lists(s, n, q) /\ View(s, n, q) = c
  BY DEF Shows
<1> HIDE DEF n
<1> DEFINE f == KeysOf(s, n, q)
<1>2. c.order = f /\ c.val = ValuesOf(s) /\ DOMAIN c.val = DOMAIN s.keymap
  BY DEF View, ValuesOf
<1>3. CASE ~Cached(s, k)
  <2>1. get(s, k) = s /\ Contract!Touch(c, k) = c
    BY <1>2, <1>3 DEF get, Cached, Contract!Touch, Contract!Has
  <2> QED BY <2>1
<1>4. CASE Cached(s, k)
  <2> DEFINE entry == s.keymap[k]
             touched == [limit |-> s.limit, order |-> Append(Contract!Without(f, k), k),
                         val |-> ValuesOf(s)]
  <2>1. Contract!Touch(c, k) = touched
    <3>1. Contract!Touch(c, k) = [c EXCEPT !.order = Append(Contract!Without(c.order, k), k)]
      BY <1>2, <1>4 DEF Contract!Touch, Contract!Has, Cached
    <3> QED BY <1>2, <3>1 DEF View
  <2>2. /\ f \in Seq(Key) /\ Len(f) = n /\ DOMAIN f = 1 .. n /\ Distinct(f)
        /\ entry \in DOMAIN s.heap /\ s.heap[entry].key = k
        /\ \A i \in 1 .. n : f[i] = s.heap[q[i]].key
    <3>1. entry \in DOMAIN s.heap /\ s.heap[entry].key = k
      BY <1>1, <1>4 DEF Cached, Sound, Typed, Faithful
    <3> QED BY <1>1, <3>1, KeysListed, LenProperties DEF KeysOf
  <2> HIDE DEF f
  <2>3. ASSUME NEW j \in 1 .. n, q[j] = entry
        PROVE  f[j] = k /\ Append(Contract!Without(f, k), k) = After(n - 1, Minus(n, f, j), k)
    <3>1. f[j] = k /\ j \in DOMAIN f
      BY <2>2, <2>3
    <3> QED BY <2>2, <3>1, TouchIs
  <2> HIDE DEF entry
  <2>4. CASE AtTail(s, k)
    <3>1. get(s, k) = s /\ entry = s.tail
      BY <2>4 DEF get, AtTail, entry
    <3>2. n # 0 /\ n \in 1 .. n /\ q[n] = entry
      <4>1. n # 0
        BY <1>1, <2>2, <3>1, LRUAssumption DEF Lists, Sound, Typed
      <4> QED BY <1>1, <3>1, <4>1 DEF Lists
    <3>3. f[n] = k /\ Append(Contract!Without(f, k), k) = After(n - 1, Minus(n, f, n), k)
      BY <2>3, <3>2
    <3>4. f = [i \in 1 .. n |-> f[i]]
      BY <2>2, LenProperties
    <3>5. After(n - 1, Minus(n, f, n), k) = f
      <4>1. (n - 1) + 1 = n
        BY <1>1
      <4>2. \A i \in 1 .. n : (IF i = n THEN k ELSE Minus(n, f, n)[i]) = f[i]
        BY <1>1, <3>3 DEF Minus
      <4> QED BY <3>4, <4>1, <4>2 DEF After
    <3>6. touched = c
      BY <3>3, <3>5 DEF View, f
    <3> QED BY <2>1, <3>1, <3>6
  <2>5. CASE ~AtTail(s, k)
    <3> DEFINE new == MovedToTail(s, entry)
    <3>1. get(s, k) = new /\ entry # s.tail
      BY <1>4, <2>5 DEF get, AtTail, entry
    <3>2. /\ DOMAIN new.heap = DOMAIN s.heap /\ new.keymap = s.keymap
          /\ new.size = s.size /\ new.limit = s.limit /\ Keeps(s, new)
          /\ \E j \in 1 .. n :
               q[j] = entry /\ Lists(new, n, After(n - 1, Minus(n, q, j), entry))
      BY <1>1, <2>2, <3>1, MovedSound
    <3> HIDE DEF new
    <3> PICK j \in 1 .. n : q[j] = entry /\ Lists(new, n, After(n - 1, Minus(n, q, j), entry))
      BY <3>2
    <3> DEFINE mid == Minus(n, q, j)
               r == After(n - 1, mid, entry)
    <3>3. Found(new) /\ ValuesOf(new) = ValuesOf(s)
      <4>1. \A x \in DOMAIN s.heap : /\ new.heap[x].key = s.heap[x].key
                                     /\ new.heap[x].value = s.heap[x].value
        BY <3>2 DEF Keeps
      <4>2. \A x \in DOMAIN s.keymap : s.keymap[x] \in DOMAIN s.heap
        BY <1>1 DEF Sound, Typed
      <4>3. Found(new)
        BY <1>1, <3>2, <4>1 DEF Found
      <4> QED BY <3>2, <4>1, <4>2, <4>3 DEF ValuesOf
    <3>4. KeysOf(new, n, q) = f
      <4>1. \A i \in 1 .. n : q[i] \in DOMAIN s.heap /\ q[i] \in DOMAIN new.heap
        BY <3>2 DEF Lists
      <4> QED BY <1>1, <3>2, <4>1, KeysKept DEF f
    <3>5. new.heap[entry].key = k
      BY <2>2, <3>2 DEF Keeps
    <3>6. KeysOf(new, n, r) = After(n - 1, Minus(n, f, j), k)
      <4>1. n - 1 \in Nat /\ (n - 1) + 1 = n
        BY <1>1
      <4>2. KeysOf(new, (n - 1) + 1, r) = After(n - 1, KeysOf(new, n - 1, mid), new.heap[entry].key)
        BY <4>1, KeysAfter
      <4>3. KeysOf(new, n - 1, mid) = Minus(n, f, j)
        BY <1>1, <3>4, KeysMinus
      <4> QED BY <3>5, <4>1, <4>2, <4>3
    <3>7. View(new, n, r) = touched
      BY <2>3, <3>2, <3>3, <3>6 DEF View
    <3>8. Lists(new, new.size, r) /\ View(new, new.size, r) = touched
      BY <3>2, <3>7 DEF n
    <3> QED BY <2>1, <3>1, <3>3, <3>8 DEF Shows
  <2> QED BY <2>4, <2>5
<1> QED BY <1>3, <1>4

(* put under a key that is not cached stores it, and evicts the oldest key *)
(* of a full cache.                                                        *)
LEMMA PutView ==
  ASSUME NEW s, Good(s), NEW c, Shows(s, c), NEW e \in Entry \ DOMAIN s.heap,
         NEW k \in Key, ~Cached(s, k), NEW v \in Value
  PROVE  Shows(put(s, e, k, v), Contract!Store(c, k, v))
<1> DEFINE n == s.size
           linked == Linked(s, e, k, v)
           new == put(s, e, k, v)
<1>1. /\ n \in Nat /\ s.limit \in Nat \ {0} /\ n <= s.limit
      /\ Sound(s, n) /\ Found(s) /\ k \notin DOMAIN s.keymap
  BY LRUAssumption DEF Good, Shows, Cached
<1> PICK q : Lists(s, n, q) /\ View(s, n, q) = c
  BY DEF Shows
<1> HIDE DEF n, linked
<1> DEFINE f == KeysOf(s, n, q)
           val == ValuesWith(s, k, v)
<1>2. /\ c.limit = s.limit /\ c.order = f /\ c.val = ValuesOf(s)
      /\ DOMAIN c.val = DOMAIN s.keymap
  BY DEF View, ValuesOf
<1>3. f \in Seq(Key) /\ Len(f) = n /\ \A i \in 1 .. n : f[i] \in DOMAIN s.keymap
  BY <1>1, KeysListed
<1>4. LinkedAs(s, n, q, e, k, v, linked)
  BY <1>1, LinkedSound DEF linked
<1>5. /\ Sound(linked, n + 1) /\ linked.size = n /\ linked.limit = s.limit
      /\ Lists(linked, n + 1, After(n, q, e))
  BY <1>4 DEF LinkedAs, n
<1>6. /\ Found(linked) /\ KeysOf(linked, n + 1, After(n, q, e)) = After(n, f, k)
      /\ ValuesOf(linked) = val
  <2>1. e \notin DOMAIN s.heap
    OBVIOUS
  <2>2. k \notin DOMAIN s.keymap /\ n \in Nat /\ Sound(s, n) /\ Found(s) /\ Lists(s, n, q)
    BY <1>1
  <2>3. /\ Found(linked)
        /\ KeysOf(linked, n + 1, After(n, q, e)) = After(n, KeysOf(s, n, q), k)
        /\ ValuesOf(linked) = ValuesWith(s, k, v)
    BY <1>4, <2>1, <2>2, LinkedView, SMTT(30)
  <2> QED BY <2>3
<1>9. c = [limit |-> s.limit, order |-> f, val |-> ValuesOf(s)]
  BY DEF View
<1> HIDE DEF f, val
<1>7. CASE n = s.limit
  <2> DEFINE shifted == shift(linked)
             r == Minus(n + 1, After(n, q, e), 1)
             left == [x \in (DOMAIN s.keymap \ {Head(f)}) \cup {k} |->
                        IF x = k THEN v ELSE ValuesOf(s)[x]]
             stored == [limit |-> s.limit, order |-> Append(Tail(f), k), val |-> left]
  <2>1. new = shifted
    BY <1>7 DEF put, linked, n
  <2>2. Contract!Store(c, k, v) = stored
    <3>1. Contract!Full(c) /\ Contract!Victims(c) = {Head(f)}
      BY <1>2, <1>3, <1>7 DEF Contract!Full, Contract!Victims
    <3>2. Contract!Store(c, k, v) =
            [c EXCEPT !.order = Append(Tail(f), k), !.val = left]
      BY <1>2, <3>1 DEF Contract!Store
    <3> HIDE DEF left
    <3> PICK d : d = Contract!Store(c, k, v)
      OBVIOUS
    <3>7. /\ DOMAIN d = {"limit", "order", "val"} /\ d.limit = s.limit
          /\ d.order = Append(Tail(f), k) /\ d.val = left
      BY <1>2, <1>9, <3>2
    <3>8. d = [x \in {"limit", "order", "val"} |-> d[x]]
      BY <3>7, <1>9, <3>2
    <3>9. d = [limit |-> s.limit, order |-> Append(Tail(f), k), val |-> left]
      BY <3>7, <3>8
    <3> QED BY <3>9
  <2>3. n + 1 \in Nat /\ n + 1 >= 2 /\ (n + 1) - 1 = n /\ 1 \in 1 .. n + 1 /\ n >= 1
    BY <1>1, <1>7
  <2>4. /\ shifted.size = n /\ shifted.limit = s.limit
        /\ Lists(shifted, (n + 1) - 1, r)
        /\ DOMAIN shifted.heap = DOMAIN linked.heap \ {After(n, q, e)[1]}
        /\ Keeps(linked, shifted)
        /\ shifted.keymap = Restrict(linked.keymap, DOMAIN linked.keymap \
                                       {linked.heap[After(n, q, e)[1]].key})
    BY <1>5, <2>3, ShiftSound
  <2> HIDE DEF shifted
  <2>5. /\ Found(shifted)
        /\ KeysOf(shifted, (n + 1) - 1, r) = Minus(n + 1, After(n, f, k), 1)
        /\ ValuesOf(shifted) = ValuesBut(linked, After(n, f, k)[1])
    <3> DEFINE p == After(n, q, e)
    <3> HIDE DEF p
    <3>1. /\ Found(shifted)
          /\ KeysOf(shifted, (n + 1) - 1, Minus(n + 1, p, 1)) =
               Minus(n + 1, KeysOf(linked, n + 1, p), 1)
          /\ ValuesOf(shifted) = ValuesBut(linked, KeysOf(linked, n + 1, p)[1])
      <4>1. /\ n + 1 \in Nat /\ Sound(linked, n + 1) /\ Found(linked) /\ Lists(linked, n + 1, p)
            /\ 1 \in 1 .. n + 1
        BY <1>5, <1>6, <2>3 DEF p
      <4>2. /\ Lists(shifted, (n + 1) - 1, Minus(n + 1, p, 1)) /\ Keeps(linked, shifted)
            /\ DOMAIN shifted.heap = DOMAIN linked.heap \ {p[1]}
            /\ shifted.keymap = Restrict(linked.keymap, DOMAIN linked.keymap \
                                           {linked.heap[p[1]].key})
        BY <2>4 DEF p
      <4> DEFINE m == n + 1
      <4>3. /\ m \in Nat /\ Sound(linked, m) /\ Found(linked) /\ Lists(linked, m, p)
            /\ 1 \in 1 .. m /\ Lists(shifted, m - 1, Minus(m, p, 1)) /\ Keeps(linked, shifted)
            /\ DOMAIN shifted.heap = DOMAIN linked.heap \ {p[1]}
            /\ shifted.keymap = Restrict(linked.keymap, DOMAIN linked.keymap \
                                           {linked.heap[p[1]].key})
        BY <4>1, <4>2
      <4> HIDE DEF m
      <4>4. /\ Found(shifted)
            /\ KeysOf(shifted, m - 1, Minus(m, p, 1)) = Minus(m, KeysOf(linked, m, p), 1)
            /\ ValuesOf(shifted) = ValuesBut(linked, KeysOf(linked, m, p)[1])
        BY <4>3, GoneView
      <4> QED BY <4>4 DEF m
    <3> QED BY <1>6, <3>1 DEF p
  <2>6. f # <<>> /\ 1 \in 1 .. n /\ Head(f) = f[1] /\ Head(f) # k /\ After(n, f, k)[1] = Head(f)
    <3>1. 1 \in 1 .. n /\ f # <<>>
      BY <1>3, <2>3
    <3>2. Head(f) = f[1] /\ f[1] # k
      BY <1>1, <1>3, <3>1
    <3> QED BY <2>3, <3>1, <3>2 DEF After
  <2>7. Minus(n + 1, After(n, f, k), 1) = Append(Tail(f), k)
    <3>1. Tail(f) = Minus(n, f, 1) /\ Tail(f) \in Seq(Key) /\ Len(Tail(f)) = n - 1
      BY <1>3, <2>6, TailIs, HeadTailProperties
    <3>2. Append(Tail(f), k) = After(n - 1, Minus(n, f, 1), k)
      BY <3>1, AppendIs
    <3> QED BY <1>1, <2>3, <3>2, FirstOutLastIn
  <2>8. ValuesOf(shifted) = stored.val
    <3>1. DOMAIN linked.keymap = DOMAIN s.keymap \cup {k}
      BY <1>4 DEF LinkedAs
    <3>2. DOMAIN linked.keymap \ {Head(f)} = (DOMAIN s.keymap \ {Head(f)}) \cup {k}
      BY <2>6, <3>1
    <3>3. \A x \in DOMAIN linked.keymap : ValuesOf(linked)[x] = IF x = k THEN v ELSE ValuesOf(s)[x]
      BY <1>6, <3>1 DEF val, ValuesWith
    <3>4. ValuesOf(shifted) = [x \in DOMAIN linked.keymap \ {Head(f)} |-> ValuesOf(linked)[x]]
      BY <2>5, <2>6 DEF ValuesBut
    <3> QED BY <3>2, <3>3, <3>4
  <2>9. Lists(shifted, shifted.size, r) /\ View(shifted, shifted.size, r) = stored
    BY <2>3, <2>4, <2>5, <2>7, <2>8 DEF View
  <2> QED BY <2>1, <2>2, <2>5, <2>9 DEF Shows
<1>8. CASE n # s.limit
  <2> DEFINE r == After(n, q, e)
             stored == [limit |-> s.limit, order |-> Append(f, k), val |-> val]
  <2>1. new = [linked EXCEPT !.size = n + 1]
    BY <1>8 DEF put, linked, n
  <2>2. /\ new.size = n + 1 /\ new.limit = s.limit
        /\ new.keymap = linked.keymap /\ new.heap = linked.heap
        /\ new.head = linked.head /\ new.tail = linked.tail
    BY <1>5, <2>1 DEF Shape, Sound, Typed
  <2>3. Contract!Store(c, k, v) = stored
    <3>1. ~Contract!Full(c) /\ Contract!Victims(c) = {}
      BY <1>2, <1>3, <1>8 DEF Contract!Full, Contract!Victims
    <3>2. Contract!Store(c, k, v) =
            [c EXCEPT !.order = Append(f, k),
                      !.val = [x \in (DOMAIN c.val \ {}) \cup {k} |->
                                 IF x = k THEN v ELSE c.val[x]]]
      BY <1>2, <3>1 DEF Contract!Store
    <3>3. [x \in (DOMAIN c.val \ {}) \cup {k} |-> IF x = k THEN v ELSE c.val[x]] = val
      <4>1. DOMAIN c.val \ {} = DOMAIN s.keymap
        BY <1>2
      <4> QED BY <1>2, <4>1 DEF val, ValuesWith
    <3>4. Contract!Store(c, k, v) = [c EXCEPT !.order = Append(f, k), !.val = val]
      BY <3>2, <3>3
    <3> PICK d : d = Contract!Store(c, k, v)
      OBVIOUS
    <3>7. /\ DOMAIN d = {"limit", "order", "val"} /\ d.limit = s.limit
          /\ d.order = Append(f, k) /\ d.val = val
      BY <1>2, <1>9, <3>4
    <3>8. d = [x \in {"limit", "order", "val"} |-> d[x]]
      BY <3>7, <1>9, <3>4
    <3>9. d = [limit |-> s.limit, order |-> Append(f, k), val |-> val]
      BY <3>7, <3>8
    <3> QED BY <3>9
  <2> HIDE DEF new
  <2>4. Found(new) /\ KeysOf(new, n + 1, r) = After(n, f, k) /\ ValuesOf(new) = val
    BY <1>6, <2>2 DEF Found, KeysOf, ValuesOf
  <2>5. Lists(new, n + 1, r)
    BY <1>5, <2>2 DEF Lists
  <2>6. After(n, f, k) = Append(f, k)
    BY <1>3, AppendIs
  <2>7. Lists(new, new.size, r) /\ View(new, new.size, r) = stored
    BY <2>2, <2>4, <2>5, <2>6 DEF View
  <2> QED BY <2>3, <2>4, <2>7 DEF Shows, new
<1> QED BY <1>7, <1>8

(* remove takes a key out, removeAll all of them.                          *)
LEMMA RemoveView ==
  ASSUME NEW s, Good(s), NEW c, Shows(s, c), NEW k
  PROVE  Shows(remove(s, k), Contract!Drop(c, k))
<1> DEFINE n == s.size
           new == remove(s, k)
<1>1. n \in Nat /\ Sound(s, n) /\ Found(s)
  BY LRUAssumption DEF Good, Shows
<1> PICK q : Lists(s, n, q) /\ View(s, n, q) = c
  BY DEF Shows
<1> HIDE DEF n
<1> DEFINE f == KeysOf(s, n, q)
           dropped == [limit |-> s.limit, order |-> Contract!Without(f, k),
                       val |-> ValuesBut(s, k)]
<1>2. /\ f \in Seq(Key) /\ Len(f) = n /\ DOMAIN f = 1 .. n /\ Distinct(f)
      /\ \A i \in 1 .. n : f[i] \in DOMAIN s.keymap
      /\ k \in DOMAIN s.keymap => \E i \in 1 .. n : q[i] = s.keymap[k] /\ f[i] = k
  BY <1>1, KeysListed, LenProperties
<1>3. Contract!Drop(c, k) = dropped
  <2>1. c = [limit |-> s.limit, order |-> f, val |-> ValuesOf(s)]
    BY DEF View
  <2>2. DOMAIN ValuesOf(s) = DOMAIN s.keymap
    BY DEF ValuesOf
  <2> HIDE DEF f
  <2>3. Contract!Restrict(ValuesOf(s), DOMAIN s.keymap \ {k}) =
          ValuesBut(s, k)
    BY DEF Contract!Restrict, ValuesBut
  <2>4. /\ Contract!Drop(c, k) =
             [c EXCEPT !.order = Contract!Without(c.order, k),
                       !.val = Contract!Restrict(c.val, DOMAIN c.val \ {k})]
        /\ c.order = f /\ c.val = ValuesOf(s)
    BY <2>1 DEF Contract!Drop
  <2>5. Contract!Drop(c, k) =
          [c EXCEPT !.order = Contract!Without(f, k),
                    !.val = ValuesBut(s, k)]
    BY <2>2, <2>3, <2>4
  <2> PICK d : d = Contract!Drop(c, k)
    OBVIOUS
  <2>6. c.limit = s.limit /\ DOMAIN c = {"limit", "order", "val"}
    BY <2>1
  <2>7. /\ DOMAIN d = {"limit", "order", "val"} /\ d.limit = s.limit
        /\ d.order = Contract!Without(f, k) /\ d.val = ValuesBut(s, k)
    BY <2>5, <2>6
  <2>8. d = [x \in {"limit", "order", "val"} |-> d[x]]
    BY <2>7, <2>1, <2>5
  <2>9. d = [limit |-> s.limit, order |-> Contract!Without(f, k), val |-> ValuesBut(s, k)]
    BY <2>7, <2>8
  <2> QED BY <2>9
<1>4. CASE k \notin DOMAIN s.keymap
  <2>1. new = s
    BY <1>4 DEF remove, Cached
  <2>2. Contract!Without(f, k) = f
    <3> HIDE DEF f
    <3> QED BY <1>2, <1>4, WithoutNone
  <2>3. ValuesBut(s, k) = ValuesOf(s)
    <3>1. DOMAIN s.keymap \ {k} = DOMAIN s.keymap
      BY <1>4
    <3> QED BY <3>1 DEF ValuesBut, ValuesOf
  <2>4. dropped = c
    BY <2>2, <2>3 DEF View
  <2> QED BY <1>3, <2>1, <2>4
<1>5. CASE k \in DOMAIN s.keymap
  <2>1. /\ n > 0 /\ new.size = n - 1 /\ new.limit = s.limit
        /\ \E j \in 1 .. n : q[j] = s.keymap[k] /\ Lists(new, n - 1, Minus(n, q, j))
        /\ DOMAIN new.heap = DOMAIN s.heap \ {s.keymap[k]} /\ Keeps(s, new)
        /\ new.keymap = Restrict(s.keymap, DOMAIN s.keymap \ {k})
    BY <1>1, <1>5, RemoveSound, ZenonT(40) DEF n
  <2> HIDE DEF new, f
  <2> PICK j \in 1 .. n : q[j] = s.keymap[k] /\ Lists(new, n - 1, Minus(n, q, j))
    BY <2>1
  <2>2. s.heap[q[j]].key = k /\ f[j] = k
    BY <1>1, <1>5 DEF Sound, Faithful, f, KeysOf
  <2>3. /\ Found(new) /\ KeysOf(new, n - 1, Minus(n, q, j)) = Minus(n, f, j)
        /\ ValuesOf(new) = ValuesBut(s, k)
    <3>1. /\ DOMAIN new.heap = DOMAIN s.heap \ {q[j]}
          /\ new.keymap = Restrict(s.keymap, DOMAIN s.keymap \ {s.heap[q[j]].key})
      BY <2>1, <2>2
    <3>2. /\ Found(new)
          /\ KeysOf(new, n - 1, Minus(n, q, j)) = Minus(n, KeysOf(s, n, q), j)
          /\ ValuesOf(new) = ValuesBut(s, KeysOf(s, n, q)[j])
      BY <1>1, <2>1, <3>1, GoneView
    <3> QED BY <2>2, <3>2 DEF f
  <2>4. Contract!Without(f, k) = Minus(n, f, j)
    BY <1>2, <2>2, WithoutIs
  <2>5. Lists(new, new.size, Minus(n, q, j)) /\ View(new, new.size, Minus(n, q, j)) = dropped
    BY <2>1, <2>3, <2>4 DEF View
  <2> QED BY <1>3, <2>3, <2>5 DEF Shows, new
<1> QED BY <1>4, <1>5

LEMMA EmptyView ==
  ASSUME NEW limit
  PROVE  Shows(EmptyLRU(limit), Contract!EmptyCache(limit))
<1> DEFINE s == EmptyLRU(limit)
           q == [i \in 1 .. 0 |-> i]
<1>1. /\ s.size = 0 /\ s.limit = limit /\ s.head = Undefined /\ s.tail = Undefined
      /\ s.keymap = << >> /\ s.heap = << >> /\ DOMAIN << >> = {} /\ 1 .. 0 = {}
  BY DEF EmptyLRU
<1> HIDE DEF s
<1>2. Lists(s, 0, q) /\ Found(s)
  BY <1>1 DEF Lists, Found
<1>3. KeysOf(s, 0, q) = << >> /\ ValuesOf(s) = << >>
  BY <1>1 DEF KeysOf, ValuesOf
<1>4. View(s, 0, q) = Contract!EmptyCache(limit)
  BY <1>1, <1>3 DEF View, Contract!EmptyCache
<1> QED BY <1>1, <1>2, <1>4 DEF Shows, s

-----------------------------------------------------------------------------
(* forEach: whoever starts at one end and follows the links walks the list *)
(* (the n-th call of the loop, so an argument by counting).                *)
LEMMA Walk ==
  ASSUME NEW n \in Nat, n = Cardinality(Entries), NEW start, NEW dir,
         NEW p \in [1 .. n -> Entries], n # 0 => p[1] = start,
         \A i \in 1 .. n : i # 1 => lru.heap[p[i - 1]][dir] = p[i]
  PROVE  forEach(start, dir) = p
<1> DEFINE Pass(f) == [i \in 1 .. n |->
                         IF i = 1 THEN start
                         ELSE IF f[i - 1] \in Entries THEN lru.heap[f[i - 1]][dir] ELSE Undefined]
           visit == CHOOSE f : f = Pass(f)
<1>1. p = Pass(p)
  <2>1. \A i \in 1 .. n : i # 1 => i - 1 \in 1 .. n /\ p[i - 1] \in Entries
    OBVIOUS
  <2>2. \A i \in 1 .. n : Pass(p)[i] = p[i]
    BY <2>1
  <2> QED BY <2>2
<1>2. forEach(start, dir) = [i \in 1 .. n |-> visit[i]]
  BY DEF forEach
<1>3. visit = Pass(visit)
  <2> HIDE DEF Pass
  <2> QED BY <1>1, Zenon
<1> HIDE DEF visit
<1>4. ASSUME NEW k \in 0 .. n, k < n, k # 0 => visit[k] = p[k]
      PROVE  visit[k + 1] = p[k + 1]
  <2>1. k + 1 \in 1 .. n
    BY <1>4
  <2>2. visit[k + 1] = IF k + 1 = 1 THEN start
                       ELSE IF visit[k] \in Entries THEN lru.heap[visit[k]][dir] ELSE Undefined
    <3>1. visit[k + 1] = Pass(visit)[k + 1]
      BY <1>3
    <3>2. k + 1 - 1 = k
      OBVIOUS
    <3> QED BY <2>1, <3>1, <3>2
  <2>3. CASE k = 0
    BY <2>1, <2>2, <2>3
  <2>4. CASE k # 0
    <3>1. k \in 1 .. n /\ p[k] \in Entries /\ lru.heap[p[k]][dir] = p[k + 1]
      BY <2>1, <2>4
    <3> QED BY <1>4, <2>2, <2>4, <3>1
  <2> QED BY <2>3, <2>4
<1>5. \A k \in 0 .. n : k # 0 => visit[k] = p[k]
  <2> DEFINE T == {k \in 0 .. n : k # 0 => visit[k] = p[k]}
  <2>1. 0 \in T
    OBVIOUS
  <2>2. \A k \in 0 .. n : k < n /\ k \in T => k + 1 \in T
    BY <1>4
  <2> HIDE DEF T
  <2>3. \A k \in 0 .. n : k \in T
    BY <2>1, <2>2, Loops!Counting
  <2> QED BY <2>3 DEF T
<1> QED BY <1>2, <1>5

(* From the head along `newer` that is q, from the tail along `older` q    *)
(* backwards.                                                              *)
LEMMA WalksAre ==
  ASSUME LRUInv, NEW q, Lists(lru, lru.size, q)
  PROVE  /\ Cardinality(Entries) = lru.size /\ lru.size \in Nat
         /\ forEach(lru.head, "newer") = q
         /\ forEach(lru.tail, "older") = [i \in 1 .. lru.size |-> q[lru.size + 1 - i]]
<1> DEFINE n == lru.size
<1>1. n \in Nat /\ n = Cardinality(Entries)
  BY InvCounts, LRUAssumption DEF SizeCounts, LRUInv, Good
<1> HIDE DEF n
<1>2. /\ q \in [1 .. n -> Entries]
      /\ lru.head = IF n = 0 THEN Undefined ELSE q[1]
      /\ lru.tail = IF n = 0 THEN Undefined ELSE q[n]
      /\ \A i \in 1 .. n :
           /\ lru.heap[q[i]].newer = IF i = n THEN Undefined ELSE q[i + 1]
           /\ lru.heap[q[i]].older = IF i = 1 THEN Undefined ELSE q[i - 1]
  BY DEF Lists, Entries, n
<1>3. forEach(lru.head, "newer") = q
  <2>1. ASSUME NEW i \in 1 .. n, i # 1 PROVE lru.heap[q[i - 1]]["newer"] = q[i]
    <3>1. i - 1 \in 1 .. n /\ i - 1 # n /\ (i - 1) + 1 = i
      BY <1>1, <2>1
    <3> QED BY <1>2, <3>1
  <2>2. n # 0 => q[1] = lru.head
    BY <1>2
  <2> QED BY <1>1, <1>2, <2>1, <2>2, Walk, SMTT(30)
<1>4. forEach(lru.tail, "older") = [i \in 1 .. n |-> q[n + 1 - i]]
  <2> DEFINE p == [i \in 1 .. n |-> q[n + 1 - i]]
  <2>1. \A i \in 1 .. n : n + 1 - i \in 1 .. n
    BY <1>1
  <2>2. p \in [1 .. n -> Entries]
    BY <1>2, <2>1
  <2>3. ASSUME NEW i \in 1 .. n, i # 1 PROVE lru.heap[p[i - 1]]["older"] = p[i]
    <3>1. /\ i - 1 \in 1 .. n /\ n + 1 - (i - 1) \in 1 .. n
          /\ n + 1 - (i - 1) # 1 /\ (n + 1 - (i - 1)) - 1 = n + 1 - i
      BY <1>1, <2>3
    <3> QED BY <1>2, <3>1
  <2>4. n # 0 => p[1] = lru.tail
    BY <1>1, <1>2
  <2> HIDE DEF p
  <2>5. forEach(lru.tail, "older") = p
    BY <1>1, <2>2, <2>3, <2>4, Walk
  <2> QED BY <2>5 DEF p
<1> QED BY <1>1, <1>3, <1>4 DEF n

(* Whatever a caller that leaves shift to put does, forEach meets every    *)
(* entry exactly once, in opposite orders from the two ends.               *)
THEOREM EveryEntryIsVisited ==
  ApiSpec => []IterationSound
<1>1. LRUInv => IterationSound
  <2> SUFFICES ASSUME LRUInv PROVE IterationSound
    OBVIOUS
  <2> PICK q : Lists(lru, lru.size, q)
    BY DEF LRUInv, Good, Sound
  <2> DEFINE n == lru.size
             desc == [i \in 1 .. n |-> q[n + 1 - i]]
  <2>1. /\ Cardinality(Entries) = n /\ n \in Nat
        /\ forEach(lru.head, "newer") = q /\ forEach(lru.tail, "older") = desc
    BY WalksAre
  <2>2. {q[i] : i \in 1 .. n} = Entries
    BY DEF Lists, Entries
  <2>3. \A i \in 1 .. n : desc[i] = q[n + 1 - i]
    OBVIOUS
  <2> HIDE DEF n, desc
  <2> QED BY <2>1, <2>2, <2>3 DEF IterationSound
<1> QED BY <1>1, LRUInvAlways, PTL

-----------------------------------------------------------------------------
(* rules.js's calls, one by one, are steps of the contract.                *)

(* The cache an object shows is the one Abstraction reads off it.          *)
ShownIsRead == \A c : Shows(lru, c) => Abstraction = c

LEMMA AbstractionIs ==
  LRUInv => ShownIsRead
<1> SUFFICES ASSUME LRUInv, NEW c, Shows(lru, c) PROVE Abstraction = c
  BY DEF ShownIsRead
<1> PICK q : Lists(lru, lru.size, q) /\ View(lru, lru.size, q) = c
  BY DEF Shows
<1>1. forEach(lru.head, "newer") = q /\ DOMAIN q = 1 .. lru.size
  BY WalksAre DEF Lists
<1> QED BY <1>1 DEF Abstraction, View, KeysOf, ValuesOf

(* The steps of the contract from c to d.                                  *)
Steps(c, d) ==
  \/ \E k \in Key : \/ d = Contract!Touch(c, k)
                    \/ ~Contract!Has(c, k) /\ \E v \in Value : d = Contract!Store(c, k, v)
                    \/ d = Contract!Drop(c, k)
  \/ d = Contract!EmptyCache(c.limit)

LEMMA NextShows ==
  ASSUME LRUInv, NEW c, Shows(lru, c), Next
  PROVE  \E d : Shows(lru', d) /\ Steps(c, d)
<1>1. Good(lru) /\ c.limit = lru.limit /\ DOMAIN c.val = DOMAIN lru.keymap
  BY DEF LRUInv, Shows, View, ValuesOf
<1>2. ASSUME NEW k \in Key, Lookup(k) PROVE \E d : Shows(lru', d) /\ Steps(c, d)
  <2>1. Shows(get(lru, k), Contract!Touch(c, k))
    BY <1>1, GetView
  <2> QED BY <1>2, <2>1 DEF Lookup, Steps
<1>3. ASSUME NEW k \in Key, Purge(k) PROVE \E d : Shows(lru', d) /\ Steps(c, d)
  <2>1. Shows(remove(lru, k), Contract!Drop(c, k))
    BY <1>1, RemoveView
  <2> QED BY <1>3, <2>1 DEF Purge, Steps
<1>4. ASSUME NEW k \in Key, NEW v \in Value, Memoize(k, v)
      PROVE  \E d : Shows(lru', d) /\ Steps(c, d)
  <2>1. ~Cached(lru, k)
    BY <1>4 DEF Memoize
  <2> PICK e \in Entry \ DOMAIN lru.heap : lru' = set(lru, e, k, v)
    BY <1>4 DEF Memoize, Fresh
  <2>2. set(lru, e, k, v) = put(lru, e, k, v)
    BY <2>1 DEF set, AtTail
  <2>3. Shows(put(lru, e, k, v), Contract!Store(c, k, v))
    BY <1>1, <2>1, PutView
  <2>4. ~Contract!Has(c, k)
    BY <1>1, <2>1 DEF Contract!Has, Cached
  <2> QED BY <2>2, <2>3, <2>4 DEF Steps
<1>5. CASE Clear
  <2>1. Shows(EmptyLRU(lru.limit), Contract!EmptyCache(lru.limit))
    BY EmptyView
  <2> QED BY <1>1, <1>5, <2>1 DEF Clear, removeAll, Steps
<1> QED BY <1>2, <1>3, <1>4, <1>5 DEF Next

(* Such a step is one of Contract!Next: the value stored is the one found. *)
LEMMA StepsAreContract ==
  ASSUME NEW c, DOMAIN c = {"limit", "order", "val"}, NEW k, NEW v
  PROVE  LET d == Contract!Store(c, k, v)
         IN k \in DOMAIN d.val /\ d.val[k] = v
<1> DEFINE d == Contract!Store(c, k, v)
           val == [x \in (DOMAIN c.val \ Contract!Victims(c)) \cup {k} |->
                     IF x = k THEN v ELSE c.val[x]]
<1>1. d.val = val
  BY DEF Contract!Store
<1> QED BY <1>1

(* No method changes the limit.                                            *)
LEMMA LimitKept ==
  ASSUME NEW s, Good(s), NEW e, NEW k, NEW v
  PROVE  /\ get(s, k).limit = s.limit /\ remove(s, k).limit = s.limit
         /\ put(s, e, k, v).limit = s.limit /\ set(s, e, k, v).limit = s.limit
<1>1. Shape(s)
  BY DEF Good, Sound, Typed
<1>2. \A x : MovedToTail(s, x).limit = s.limit /\ Shape(MovedToTail(s, x))
  BY <1>1 DEF MovedToTail, Shape
<1>3. get(s, k).limit = s.limit /\ Shape(get(s, k))
  BY <1>1, <1>2 DEF get
<1>4. remove(s, k).limit = s.limit
  BY <1>1 DEF remove, Shape
<1>5. Linked(s, e, k, v).limit = s.limit /\ Shape(Linked(s, e, k, v))
  BY <1>1 DEF Linked, Shape
<1>6. \A r : Shape(r) => shift(r).limit = r.limit
  BY DEF shift, Shape
<1>7. put(s, e, k, v).limit = s.limit
  BY <1>5, <1>6 DEF put, Shape
<1>8. set(s, e, k, v).limit = s.limit
  BY <1>3, <1>7 DEF set, Shape
<1> QED BY <1>3, <1>4, <1>7, <1>8

(* What rules.js relies on: LRUInv, and no entry orphaned.                 *)
AsUsed == LRUInv /\ (client = "rules.js" => Found(lru))

LEMMA AsUsedInit ==
  MCInit => AsUsed
<1> SUFFICES ASSUME MCInit PROVE AsUsed
  OBVIOUS
<1> PICK limit \in 1 .. MaxLimit : lru = EmptyLRU(limit)
  BY DEF MCInit, Init
<1>1. Found(lru)
  BY EmptyView DEF Shows
<1>2. LRUInv
  BY LRUInvInit DEF MCInit
<1> QED BY <1>1, <1>2 DEF AsUsed

LEMMA AsUsedNext ==
  AsUsed /\ [MCNext]_<<lru, client>> => AsUsed'
<1> SUFFICES ASSUME AsUsed, [MCNext]_<<lru, client>> PROVE AsUsed'
  OBVIOUS
<1>1. [ApiNext]_lru /\ client' = client
  BY NextIsApiNext DEF MCNext
<1>2. LRUInv'
  BY <1>1, LRUInvNext DEF AsUsed
<1>3. ASSUME client = "rules.js" PROVE Found(lru')
  <2>1. Found(lru) /\ (Next \/ lru' = lru)
    BY <1>3 DEF AsUsed, MCNext
  <2>2. CASE lru' = lru
    BY <2>1, <2>2
  <2>3. CASE Next
    <3>1. \E c : Shows(lru, c)
      BY <2>1 DEF AsUsed, LRUInv, Good, Sound, Shows
    <3> PICK c : Shows(lru, c)
      BY <3>1
    <3>2. \E d : Shows(lru', d) /\ Steps(c, d)
      BY <2>3, NextShows DEF AsUsed
    <3> QED BY <3>2 DEF Shows
  <2> QED BY <2>1, <2>2, <2>3
<1> QED BY <1>1, <1>2, <1>3 DEF AsUsed

(* As rules.js uses lru.js, setting only what it has just missed, no entry *)
(* is ever hidden from its key (38-42 and 82-84).                          *)
THEOREM NoEntryIsOrphaned ==
  MCSpec => []NoOrphansAsUsed
<1>1. AsUsed => NoOrphansAsUsed
  BY DEF AsUsed, NoOrphansAsUsed, NoOrphans, Found, Entries
<1> QED BY <1>1, AsUsedInit, AsUsedNext, PTL DEF MCSpec

(* Used so, lru.js implements the bounded map of LRUContract: each call of *)
(* rules.js is one step of it, with the cache that forEach reads.          *)
THEOREM ListIsBoundedMap ==
  MCSpec => ImplementsContract
<1> DEFINE cache == IF client = "rules.js" THEN Abstraction ELSE Unused
<1>1. LRUInv => ShownIsRead
  BY AbstractionIs
<1>2. MCInit /\ ShownIsRead => Contract!Init
  <2> SUFFICES ASSUME MCInit, ShownIsRead PROVE Contract!Init
    OBVIOUS
  <2> PICK limit \in 1 .. MaxLimit : lru = EmptyLRU(limit)
    BY DEF MCInit, Init
  <2>1. Shows(lru, Contract!EmptyCache(limit))
    BY EmptyView
  <2>2. client = "rules.js" => cache = Contract!EmptyCache(limit)
    BY <2>1 DEF ShownIsRead
  <2>3. client # "rules.js" => cache = Contract!EmptyCache(limit)
    BY DEF Unused, Contract!EmptyCache, EmptyLRU
  <2> QED BY <2>2, <2>3 DEF Contract!Init
<1>3. /\ AsUsed /\ ShownIsRead /\ ShownIsRead' /\ [MCNext]_<<lru, client>>
      => [Contract!Next]_cache
  <2> SUFFICES ASSUME AsUsed, ShownIsRead, ShownIsRead', [MCNext]_<<lru, client>>
               PROVE  Contract!Next \/ cache' = cache
    OBVIOUS
  <2>1. client' = client /\ Good(lru)
    BY DEF MCNext, AsUsed, LRUInv
  <2>2. CASE client # "rules.js"
    <3>1. lru'.limit = lru.limit
      <4>1. ApiNext \/ lru' = lru
        BY <2>2 DEF MCNext
      <4>2. CASE ApiNext
        BY <2>1, <4>2, LimitKept
           DEF ApiNext, Lookup, Purge, Put, Set, Clear, removeAll, EmptyLRU
      <4> QED BY <4>1, <4>2
    <3> QED BY <2>1, <2>2, <3>1 DEF Unused
  <2>3. CASE client = "rules.js" /\ lru' = lru
    <3>1. \E c : Shows(lru, c)
      BY <2>3 DEF AsUsed, LRUInv, Good, Sound, Shows
    <3> PICK c : Shows(lru, c)
      BY <3>1
    <3>2. Abstraction = c /\ Abstraction' = c
      BY <2>3 DEF ShownIsRead
    <3> QED BY <2>1, <2>3, <3>2
  <2>4. CASE client = "rules.js" /\ Next
    <3>1. \E c : Shows(lru, c)
      BY <2>4 DEF AsUsed, LRUInv, Good, Sound, Shows
    <3> PICK c : Shows(lru, c)
      BY <3>1
    <3> PICK d : Shows(lru', d) /\ Steps(c, d)
      BY <2>4, NextShows DEF AsUsed
    <3>2. cache = c /\ cache' = d
      BY <2>1, <2>4 DEF ShownIsRead
    <3>3. DOMAIN c = {"limit", "order", "val"}
      BY DEF Shows, View
    <3>4. CASE \E k \in Key : d = Contract!Touch(c, k)
      BY <3>2, <3>4 DEF Contract!Next, Contract!Lookup
    <3>5. CASE \E k \in Key :
                 ~Contract!Has(c, k) /\ \E v \in Value : d = Contract!Store(c, k, v)
      <4> PICK k \in Key, v \in Value : ~Contract!Has(c, k) /\ d = Contract!Store(c, k, v)
        BY <3>5
      <4>1. k \in DOMAIN d.val /\ d.val[k] = v
        BY <3>3, StepsAreContract
      <4>2. Contract!Memoize(k)
        BY <3>2, <4>1 DEF Contract!Memoize
      <4> QED BY <4>2 DEF Contract!Next
    <3>6. CASE \E k \in Key : d = Contract!Drop(c, k)
      BY <3>2, <3>6 DEF Contract!Next, Contract!Purge
    <3>7. CASE d = Contract!EmptyCache(c.limit)
      BY <3>2, <3>7 DEF Contract!Next, Contract!Clear
    <3> QED BY <3>4, <3>5, <3>6, <3>7 DEF Steps
  <2> QED BY <2>2, <2>3, <2>4 DEF MCNext
<1>4. AsUsed => LRUInv
  BY DEF AsUsed
<1> HIDE DEF cache
<1> QED BY <1>1, <1>2, <1>3, <1>4, AsUsedInit, AsUsedNext, PTL
       DEF MCSpec, ImplementsContract, Contract!Spec, cache
=============================================================================
