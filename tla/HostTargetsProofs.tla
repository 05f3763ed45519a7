------------------------- MODULE HostTargetsProofs -------------------------
(***************************************************************************)
(* Proofs about HostTargets, for all host names and lists: what Probes     *)
(* tries and what Merge returns.                                           *)
(*                                                                         *)
(* Merge and setInsert are loops, written as folds.  What a loop computes  *)
(* is proved by induction over its passes, and the induction principle     *)
(* comes from a fact about sets, that the finite sets of numbers are well  *)
(* founded under inclusion: the theorems of NaturalsInduction take the     *)
(* induction hypothesis as an operator, which no prover here instantiates. *)
(***************************************************************************)
EXTENDS HostTargets, FiniteSetTheorems, TLAPS

-----------------------------------------------------------------------------
(* Induction over numbers and the passes of a loop.                        *)

(* A set of natural numbers has a least element.                           *)
LEMMA Smallest ==
  ASSUME NEW T \in SUBSET Nat, T # {}
  PROVE  \E n \in T : \A m \in T : n <= m
<1> DEFINE U == {1 .. n : n \in T}
<1>1. U \subseteq FiniteSubsetsOf(Nat) /\ U # {}
  <2>1. \A n \in T : IsFiniteSet(1 .. n) /\ 1 .. n \in SUBSET Nat
    BY FS_Interval
  <2>2. \A x \in U : x \in FiniteSubsetsOf(Nat)
    BY <2>1, Zenon DEF FiniteSubsetsOf
  <2>3. U # {}
    OBVIOUS
  <2> QED BY <2>2, <2>3
<1>2. IsWellFoundedOn(StrictSubsetOrdering(Nat), FiniteSubsetsOf(Nat))
  BY FS_StrictSubsetOrderingWellFounded, Zenon
<1>3. PICK x \in U : \A y \in U : <<y, x>> \notin StrictSubsetOrdering(Nat)
  BY <1>1, <1>2, WFMin, Zenon
<1>4. PICK n \in T : x = 1 .. n
  OBVIOUS
<1>5. ASSUME NEW m \in T, ~(n <= m) PROVE FALSE
  <2>1. 1 .. m \subseteq 1 .. n /\ n \in 1 .. n /\ n \notin 1 .. m
    BY <1>5
  <2>2. <<1 .. m, 1 .. n>> \in StrictSubsetOrdering(Nat)
    BY <2>1 DEF StrictSubsetOrdering
  <2> QED BY <1>3, <1>4, <2>2
<1> QED BY <1>5

(* What holds at 0 and goes from each number to the next holds up to n.    *)
LEMMA Counting ==
  ASSUME NEW n \in Nat, NEW T, 0 \in T, \A k \in 0 .. n : k < n /\ k \in T => k + 1 \in T
  PROVE  \A k \in 0 .. n : k \in T
<1> DEFINE bad == {k \in 0 .. n : k \notin T}
<1> SUFFICES ASSUME bad # {} PROVE FALSE
  OBVIOUS
<1>0. bad \in SUBSET Nat
  OBVIOUS
<1>1. PICK m \in bad : \A k \in bad : m <= k
  <2> HIDE DEF bad
  <2> QED BY <1>0, Smallest
<1>2. m # 0 /\ m - 1 \in 0 .. n /\ m - 1 \notin bad
  BY <1>1
<1>3. (m - 1) + 1 \in T
  BY <1>2
<1> QED BY <1>1, <1>3

LEMMA MaxOfInterval == ASSUME NEW k \in Nat, k # 0 PROVE Max(1 .. k) = k
<1>1. k \in 1 .. k /\ \A y \in 1 .. k : k >= y
  OBVIOUS
<1>2. \A x \in 1 .. k : (\A y \in 1 .. k : x >= y) => x = k
  OBVIOUS
<1> QED BY <1>1, <1>2, Zenon DEF Max

(* The table a fold consults exists, whatever function a pass computes.    *)
IsFoldTable(it, n, D, base, F) ==
  /\ it \in [SUBSET (1 .. n) -> D]
  /\ \A s \in SUBSET (1 .. n) :
       it[s] = IF s = {} THEN base ELSE F[<<it[s \ {Max(s)}], Max(s)>>]

LEMMA FoldTable ==
  ASSUME NEW n \in Nat, NEW D, NEW base \in D, NEW F \in [D \X (1 .. n) -> D]
  PROVE  \E it : IsFoldTable(it, n, D, base, F)
<1> USE DEF IsFoldTable
<1> DEFINE Table(it, k) ==
             \A s \in SUBSET (1 .. k) :
               it[s] = IF s = {} THEN base ELSE F[<<it[s \ {Max(s)}], Max(s)>>]
           T == {k \in 0 .. n : \E it \in [SUBSET (1 .. k) -> D] : Table(it, k)}
<1>1. 0 \in T
  <2>1. 1 .. 0 = {} /\ 0 \in 0 .. n
    OBVIOUS
  <2>2. [s \in SUBSET (1 .. 0) |-> base] \in [SUBSET (1 .. 0) -> D]
    OBVIOUS
  <2>3. Table([s \in SUBSET (1 .. 0) |-> base], 0)
    BY <2>1
  <2> QED BY <2>1, <2>2, <2>3
<1>2. ASSUME NEW k \in 0 .. n, k < n, k \in T PROVE k + 1 \in T
  <2>1. PICK it \in [SUBSET (1 .. k) -> D] : Table(it, k)
    BY <1>2
  <2> DEFINE new == [s \in SUBSET (1 .. k + 1) |->
                       IF k + 1 \in s THEN F[<<it[s \ {k + 1}], k + 1>>] ELSE it[s]]
  <2>2. ASSUME NEW s \in SUBSET (1 .. k + 1), k + 1 \in s
        PROVE  Max(s) = k + 1 /\ s \ {k + 1} \in SUBSET (1 .. k)
    <3>1. k + 1 \in s /\ \A y \in s : k + 1 >= y
      BY <2>2
    <3>2. \A x \in s : (\A y \in s : x >= y) => x = k + 1
      BY <3>1
    <3>3. Max(s) = k + 1
      BY <3>1, <3>2, Zenon DEF Max
    <3> QED BY <3>3
  <2>3. ASSUME NEW s \in SUBSET (1 .. k + 1), k + 1 \notin s
        PROVE  s \in SUBSET (1 .. k)
    BY <2>3
  <2>4. new \in [SUBSET (1 .. k + 1) -> D]
    <3>1. ASSUME NEW s \in SUBSET (1 .. k + 1) PROVE new[s] \in D
      <4>1. CASE k + 1 \in s
        <5>1. s \ {k + 1} \in SUBSET (1 .. k)
          BY <2>2, <4>1
        <5>2. it[s \ {k + 1}] \in D
          BY <5>1
        <5>3. k + 1 \in 1 .. n
          BY <1>2
        <5> QED BY <4>1, <5>2, <5>3
      <4>2. CASE k + 1 \notin s
        BY <2>3, <4>2
      <4> QED BY <4>1, <4>2
    <3> QED BY <3>1
  <2>5. ASSUME NEW s \in SUBSET (1 .. k + 1)
        PROVE  new[s] = IF s = {} THEN base ELSE F[<<new[s \ {Max(s)}], Max(s)>>]
    <3>1. CASE k + 1 \in s
      BY <2>2, <3>1
    <3>2. CASE k + 1 \notin s
      <4>1. s \in SUBSET (1 .. k) /\ new[s] = it[s]
        BY <2>3, <3>2
      <4>2. \A t \in SUBSET (1 .. k) : t \in SUBSET (1 .. k + 1) /\ k + 1 \notin t
        OBVIOUS
      <4>3. s \ {Max(s)} \in SUBSET (1 .. k)
        BY <4>1
      <4>4. new[s \ {Max(s)}] = it[s \ {Max(s)}]
        BY <4>2, <4>3
      <4> QED BY <2>1, <4>1, <4>4
    <3> QED BY <3>1, <3>2
  <2> HIDE DEF new
  <2>6. Table(new, k + 1)
    BY <2>5
  <2>7. k + 1 \in 0 .. n
    BY <1>2
  <2> QED BY <2>4, <2>6, <2>7
<1>3. n \in T
  <2>1. \A k \in 0 .. n : k < n /\ k \in T => k + 1 \in T
    BY <1>2
  <2>2. n \in 0 .. n
    OBVIOUS
  <2> HIDE DEF T
  <2> QED BY <1>1, <2>1, <2>2, Counting
<1> QED BY <1>3

LEMMA MaxIsMember ==
  ASSUME NEW n \in Nat, NEW s \in SUBSET (1 .. n), s # {}
  PROVE  Max(s) \in s
<1> DEFINE T == {n - x : x \in s}
<1>1. T \in SUBSET Nat /\ T # {}
  <2>1. \A x \in s : n - x \in Nat
    OBVIOUS
  <2> QED BY <2>1
<1>2. PICK m \in T : \A y \in T : m <= y
  <2> HIDE DEF T
  <2> QED BY <1>1, Smallest
<1>3. PICK x \in s : m = n - x
  BY <1>2
<1>4. \A y \in s : n - y \in T
  OBVIOUS
<1>5. ASSUME NEW y \in s PROVE x >= y
  <2>1. m <= n - y
    BY <1>2, <1>4
  <2> HIDE DEF T
  <2> QED BY <1>3, <2>1
<1> QED BY <1>3, <1>5, Zenon DEF Max

-----------------------------------------------------------------------------
(* setInsert and Merge.                                                    *)

Inserted(list, x) == IF Contains(list, x) THEN list ELSE Append(list, x)

(* The list after each pass of setInsert's loop.                           *)
InsertPasses(into, from, h) ==
  /\ h[0] = into
  /\ \A k \in 0 .. Len(from) : k < Len(from) => h[k + 1] = Inserted(h[k], from[k + 1])
  /\ h[Len(from)] = setInsert(into, from)

LEMMA InsertLoop ==
  ASSUME NEW R, NEW into \in Seq(R), NEW from \in Seq(R)
  PROVE  \E h : InsertPasses(into, from, h)
<1> DEFINE n == Len(from)
           D == Seq(R)
           F == [p \in D \X (1 .. n) |-> Inserted(p[1], from[p[2]])]
           Eqn(g) == g = [s \in SUBSET DOMAIN from |->
                            IF s = {} THEN into
                            ELSE Inserted(g[s \ {Max(s)}], from[Max(s)])]
           it == CHOOSE g : Eqn(g)
           h == [k \in 0 .. n |-> it[1 .. k]]
<1>1. F \in [D \X (1 .. n) -> D]
  <2>1. ASSUME NEW d \in D, NEW i \in 1 .. n PROVE Inserted(d, from[i]) \in D
    BY DEF Inserted
  <2> QED BY <2>1
<1>2. \E g : Eqn(g)
  <2> HIDE DEF F, D
  <2>1. PICK g : IsFoldTable(g, n, D, into, F)
    <3>1. into \in D /\ n \in Nat
      BY DEF D
    <3> HIDE DEF n
    <3> QED BY <1>1, <3>1, FoldTable, Zenon
  <2>2. ASSUME NEW s \in SUBSET (1 .. n), s # {}
        PROVE  g[s] = Inserted(g[s \ {Max(s)}], from[Max(s)])
    <3>1. Max(s) \in 1 .. n /\ s \ {Max(s)} \in SUBSET (1 .. n)
      <4>1. n \in Nat
        OBVIOUS
      <4>2. Max(s) \in s
        BY <2>2, <4>1, MaxIsMember, Zenon
      <4> QED BY <4>2
    <3>2. g[s \ {Max(s)}] \in D
      BY <2>1, <3>1 DEF IsFoldTable
    <3>3. F[<<g[s \ {Max(s)}], Max(s)>>] = Inserted(g[s \ {Max(s)}], from[Max(s)])
      BY <3>1, <3>2 DEF F
    <3> QED BY <2>1, <2>2, <3>3 DEF IsFoldTable
  <2>3. DOMAIN from = 1 .. n
    OBVIOUS
  <2>4. Eqn(g)
    BY <2>1, <2>2, <2>3 DEF IsFoldTable
  <2> QED BY <2>4
<1>3. Eqn(it)
  <2> HIDE DEF Eqn
  <2> QED BY <1>2
<1>4. setInsert(into, from) = it[DOMAIN from]
  BY Zenon DEF setInsert, FoldLeft, MapThenFoldSet, Inserted
<1> HIDE DEF it
<1>5. DOMAIN from = 1 .. n /\ n \in Nat
  OBVIOUS
<1>6. h[0] = into
  <2>1. 1 .. 0 = {} /\ 0 \in 0 .. n
    BY <1>5
  <2> QED BY <1>3, <2>1
<1>7. ASSUME NEW k \in 0 .. n, k < n
      PROVE  h[k + 1] = Inserted(h[k], from[k + 1])
  <2>1. Max(1 .. k + 1) = k + 1
    BY <1>5, MaxOfInterval
  <2>2. /\ 1 .. k + 1 \in SUBSET DOMAIN from /\ 1 .. k + 1 # {}
        /\ (1 .. k + 1) \ {k + 1} = 1 .. k
    <3>1. 1 .. k + 1 \subseteq 1 .. n /\ k + 1 \in 1 .. k + 1
      BY <1>5, <1>7
    <3>2. (1 .. k + 1) \ {k + 1} = 1 .. k
      BY <1>5, <1>7
    <3> QED BY <1>5, <3>1, <3>2
  <2>3. it[1 .. k + 1] = Inserted(it[1 .. k], from[k + 1])
    BY <1>3, <2>1, <2>2
  <2>4. k + 1 \in 0 .. n
    BY <1>5, <1>7
  <2> QED BY <2>3, <2>4
<1>8. h[n] = setInsert(into, from)
  BY <1>4, <1>5
<1> HIDE DEF h
<1>9. InsertPasses(into, from, h)
  BY <1>6, <1>7, <1>8 DEF InsertPasses
<1> QED BY <1>9

(* The list `new` is `old` with the members of S appended that were not in *)
(* it, each once.                                                          *)
Gains(old, new, S) ==
  /\ DOMAIN old \subseteq DOMAIN new
  /\ \A i \in DOMAIN old : new[i] = old[i]
  /\ Range(new) = Range(old) \cup S
  /\ IsInjective(old) => IsInjective(new)

LEMMA GainsNothing == ASSUME NEW s PROVE Gains(s, s, {})
BY DEF Gains

LEMMA GainsAgain ==
  ASSUME NEW a, NEW b, NEW c, NEW S, NEW T, Gains(a, b, S), Gains(b, c, T)
  PROVE  Gains(a, c, S \cup T)
BY DEF Gains

LEMMA InsertedGains ==
  ASSUME NEW R, NEW list \in Seq(R), NEW x \in R
  PROVE  Inserted(list, x) \in Seq(R) /\ Gains(list, Inserted(list, x), {x})
<1>1. CASE Contains(list, x)
  <2>1. x \in Range(list)
    BY <1>1 DEF Contains, Range
  <2> QED BY <1>1, <2>1 DEF Inserted, Gains
<1>2. CASE ~Contains(list, x)
  <2> DEFINE new == Append(list, x)
  <2>1. /\ new \in Seq(R) /\ DOMAIN new = 1 .. Len(list) + 1 /\ DOMAIN list = 1 .. Len(list)
        /\ Len(list) \in Nat /\ new[Len(list) + 1] = x
        /\ \A i \in DOMAIN list : new[i] = list[i]
    OBVIOUS
  <2> HIDE DEF new
  <2>2. \A i \in DOMAIN new : i \in DOMAIN list \/ i = Len(list) + 1
    BY <2>1
  <2>3. Range(new) = Range(list) \cup {x}
    <3>1. DOMAIN list \subseteq DOMAIN new /\ Len(list) + 1 \in DOMAIN new
      BY <2>1
    <3> QED BY <2>1, <2>2, <3>1 DEF Range
  <2>4. \A i \in DOMAIN list : list[i] # x
    BY <1>2, <2>1 DEF Contains
  <2>5. IsInjective(list) => IsInjective(new)
    BY <2>1, <2>2, <2>4 DEF IsInjective
  <2>6. DOMAIN list \subseteq DOMAIN new
    BY <2>1
  <2>7. Inserted(list, x) = new
    BY <1>2 DEF Inserted, new
  <2> QED BY <2>1, <2>3, <2>5, <2>6, <2>7 DEF Gains
<1> QED BY <1>1, <1>2

(* setInsert adds what is not there yet and nothing else.                  *)
LEMMA InsertGains ==
  ASSUME NEW R, NEW into \in Seq(R), NEW from \in Seq(R)
  PROVE  setInsert(into, from) \in Seq(R) /\ Gains(into, setInsert(into, from), Range(from))
<1> DEFINE n == Len(from)
<1>1. PICK h : InsertPasses(into, from, h)
  BY InsertLoop
<1> DEFINE seen(k) == {from[i] : i \in 1 .. k}
           T == {k \in 0 .. n : h[k] \in Seq(R) /\ Gains(into, h[k], seen(k))}
<1>2. n \in Nat /\ DOMAIN from = 1 .. n
  OBVIOUS
<1>3. 0 \in T
  <2>1. seen(0) = {}
    OBVIOUS
  <2>2. h[0] = into
    BY <1>1 DEF InsertPasses
  <2>3. 0 \in 0 .. n
    BY <1>2
  <2> QED BY <2>1, <2>2, <2>3, GainsNothing
<1>4. ASSUME NEW k \in 0 .. n, k < n /\ k \in T PROVE k + 1 \in T
  <2> HIDE DEF seen
  <2>1. h[k + 1] = Inserted(h[k], from[k + 1])
    BY <1>1, <1>4 DEF InsertPasses
  <2>2. from[k + 1] \in R /\ k + 1 \in 0 .. n
    BY <1>2, <1>4
  <2>3. h[k] \in Seq(R) /\ Gains(into, h[k], seen(k))
    BY <1>4
  <2>4. h[k + 1] \in Seq(R) /\ Gains(h[k], h[k + 1], {from[k + 1]})
    BY <2>1, <2>2, <2>3, InsertedGains
  <2>5. seen(k + 1) = seen(k) \cup {from[k + 1]}
    <3>1. 1 .. k + 1 = (1 .. k) \cup {k + 1}
      BY <1>4
    <3> QED BY <3>1 DEF seen
  <2>6. Gains(into, h[k + 1], seen(k + 1))
    BY <2>3, <2>4, <2>5, GainsAgain
  <2> QED BY <2>2, <2>4, <2>6
<1>5. n \in T
  <2>1. n \in 0 .. n
    BY <1>2
  <2> HIDE DEF T, n
  <2> QED BY <1>2, <1>3, <1>4, <2>1, Counting
<1>6. seen(n) = Range(from)
  BY <1>2 DEF Range
<1>7. h[n] = setInsert(into, from)
  BY <1>1 DEF InsertPasses
<1> HIDE DEF seen
<1> QED BY <1>5, <1>6, <1>7

(* The list after each call of setInsert.                                  *)
MergePasses(into, from, h) ==
  /\ h[0] = into
  /\ \A k \in 0 .. Len(from) : k < Len(from) => h[k + 1] = setInsert(h[k], from[k + 1])
  /\ h[Len(from)] = FoldLeft(setInsert, into, from)

LEMMA MergeLoop ==
  ASSUME NEW R, NEW into \in Seq(R), NEW from \in Seq(Seq(R))
  PROVE  \E h : MergePasses(into, from, h)
<1> DEFINE n == Len(from)
           D == Seq(R)
           F == [p \in D \X (1 .. n) |-> setInsert(p[1], from[p[2]])]
           Eqn(g) == g = [s \in SUBSET DOMAIN from |->
                            IF s = {} THEN into
                            ELSE setInsert(g[s \ {Max(s)}], from[Max(s)])]
           it == CHOOSE g : Eqn(g)
           h == [k \in 0 .. n |-> it[1 .. k]]
<1>1. F \in [D \X (1 .. n) -> D]
  <2>1. ASSUME NEW d \in D, NEW i \in 1 .. n PROVE setInsert(d, from[i]) \in D
    <3>1. from[i] \in Seq(R)
      OBVIOUS
    <3> QED BY <3>1, InsertGains
  <2> QED BY <2>1
<1>2. \E g : Eqn(g)
  <2> HIDE DEF F, D
  <2>1. PICK g : IsFoldTable(g, n, D, into, F)
    <3>1. into \in D /\ n \in Nat
      BY DEF D
    <3> HIDE DEF n
    <3> QED BY <1>1, <3>1, FoldTable, Zenon
  <2>2. ASSUME NEW s \in SUBSET (1 .. n), s # {}
        PROVE  g[s] = setInsert(g[s \ {Max(s)}], from[Max(s)])
    <3>1. Max(s) \in 1 .. n /\ s \ {Max(s)} \in SUBSET (1 .. n)
      <4>1. n \in Nat
        OBVIOUS
      <4>2. Max(s) \in s
        BY <2>2, <4>1, MaxIsMember, Zenon
      <4> QED BY <4>2
    <3>2. g[s \ {Max(s)}] \in D
      BY <2>1, <3>1 DEF IsFoldTable
    <3>3. F[<<g[s \ {Max(s)}], Max(s)>>] = setInsert(g[s \ {Max(s)}], from[Max(s)])
      BY <3>1, <3>2 DEF F
    <3> QED BY <2>1, <2>2, <3>3 DEF IsFoldTable
  <2>3. DOMAIN from = 1 .. n
    OBVIOUS
  <2>4. Eqn(g)
    BY <2>1, <2>2, <2>3 DEF IsFoldTable
  <2> QED BY <2>4
<1>3. Eqn(it)
  <2> HIDE DEF Eqn
  <2> QED BY <1>2
<1>4. FoldLeft(setInsert, into, from) = it[DOMAIN from]
  BY Zenon DEF FoldLeft, MapThenFoldSet
<1> HIDE DEF it
<1>5. DOMAIN from = 1 .. n /\ n \in Nat
  OBVIOUS
<1>6. h[0] = into
  <2>1. 1 .. 0 = {} /\ 0 \in 0 .. n
    BY <1>5
  <2> QED BY <1>3, <2>1
<1>7. ASSUME NEW k \in 0 .. n, k < n
      PROVE  h[k + 1] = setInsert(h[k], from[k + 1])
  <2>1. Max(1 .. k + 1) = k + 1
    BY <1>5, MaxOfInterval
  <2>2. /\ 1 .. k + 1 \in SUBSET DOMAIN from /\ 1 .. k + 1 # {}
        /\ (1 .. k + 1) \ {k + 1} = 1 .. k
    <3>1. 1 .. k + 1 \subseteq 1 .. n /\ k + 1 \in 1 .. k + 1
      BY <1>5, <1>7
    <3>2. (1 .. k + 1) \ {k + 1} = 1 .. k
      BY <1>5, <1>7
    <3> QED BY <1>5, <3>1, <3>2
  <2>3. it[1 .. k + 1] = setInsert(it[1 .. k], from[k + 1])
    BY <1>3, <2>1, <2>2
  <2>4. k + 1 \in 0 .. n
    BY <1>5, <1>7
  <2> QED BY <2>3, <2>4
<1>8. h[n] = FoldLeft(setInsert, into, from)
  BY <1>4, <1>5
<1> HIDE DEF h
<1>9. MergePasses(into, from, h)
  BY <1>6, <1>7, <1>8 DEF MergePasses
<1> QED BY <1>9

(* Merge keeps the first list as it is and appends each member of the      *)
(* others that is not there yet, once (rules.js 238-290).                  *)
THEOREM MergeGains ==
  ASSUME NEW R, NEW lists \in Seq(Seq(R)), lists # <<>>
  PROVE  /\ Merge(lists) \in Seq(R)
         /\ Gains(lists[1], Merge(lists), UNION {Range(lists[i]) : i \in DOMAIN lists})
<1> DEFINE into == Head(lists)
           from == Tail(lists)
           n    == Len(from)
<1>1. into \in Seq(R) /\ from \in Seq(Seq(R)) /\ into = lists[1]
  OBVIOUS
<1>2. /\ n \in Nat /\ DOMAIN from = 1 .. n /\ DOMAIN lists = 1 .. n + 1
      /\ \A i \in 1 .. n : from[i] = lists[i + 1] /\ from[i] \in Seq(R)
  BY <1>1
<1> HIDE DEF into, from
<1>3. PICK h : MergePasses(into, from, h)
  BY <1>1, MergeLoop
<1> DEFINE seen(k) == UNION {Range(from[i]) : i \in 1 .. k}
           T == {k \in 0 .. n : h[k] \in Seq(R) /\ Gains(into, h[k], seen(k))}
<1>4. 0 \in T
  <2>1. seen(0) = {}
    OBVIOUS
  <2>2. h[0] = into
    BY <1>3 DEF MergePasses
  <2>3. 0 \in 0 .. n
    BY <1>2
  <2> QED BY <1>1, <2>1, <2>2, <2>3, GainsNothing
<1>5. ASSUME NEW k \in 0 .. n, k < n /\ k \in T PROVE k + 1 \in T
  <2> HIDE DEF seen
  <2>1. h[k + 1] = setInsert(h[k], from[k + 1])
    BY <1>3, <1>5 DEF MergePasses
  <2>2. from[k + 1] \in Seq(R) /\ k + 1 \in 0 .. n
    BY <1>2, <1>5
  <2>3. h[k] \in Seq(R) /\ Gains(into, h[k], seen(k))
    BY <1>5
  <2>4. h[k + 1] \in Seq(R) /\ Gains(h[k], h[k + 1], Range(from[k + 1]))
    BY <2>1, <2>2, <2>3, InsertGains
  <2>5. seen(k + 1) = seen(k) \cup Range(from[k + 1])
    <3>1. 1 .. k + 1 = (1 .. k) \cup {k + 1}
      BY <1>5
    <3> QED BY <3>1 DEF seen
  <2>6. Gains(into, h[k + 1], seen(k + 1))
    BY <2>3, <2>4, <2>5, GainsAgain
  <2> QED BY <2>2, <2>4, <2>6
<1>6. n \in T
  <2>1. n \in 0 .. n
    BY <1>2
  <2> HIDE DEF T, n
  <2> QED BY <1>2, <1>4, <1>5, <2>1, Counting
<1>7. h[n] = Merge(lists)
  BY <1>3 DEF MergePasses, Merge, into, from
<1>8. Range(into) \cup seen(n) = Range(into) \cup UNION {Range(lists[i]) : i \in DOMAIN lists}
  <2> DEFINE all == UNION {Range(lists[i]) : i \in DOMAIN lists}
  <2> HIDE DEF n
  <2>1. ASSUME NEW i \in 1 .. n + 1, i # 1
        PROVE  i - 1 \in 1 .. n /\ lists[i] = from[i - 1]
    <3>1. i - 1 \in 1 .. n /\ (i - 1) + 1 = i
      BY <1>2, <2>1
    <3> QED BY <1>2, <3>1
  <2>2. \A i \in 1 .. n : i + 1 \in DOMAIN lists /\ from[i] = lists[i + 1]
    BY <1>2
  <2>3. 1 \in DOMAIN lists
    BY <1>2
  <2>4. seen(n) \subseteq all
    BY <2>2
  <2>5. Range(into) \subseteq all
    BY <1>1, <2>3
  <2>6. ASSUME NEW i \in DOMAIN lists PROVE Range(lists[i]) \subseteq Range(into) \cup seen(n)
    <3>1. CASE i = 1
      BY <1>1, <3>1
    <3>2. CASE i # 1
      BY <1>2, <2>1, <3>2
    <3> QED BY <3>1, <3>2
  <2> QED BY <2>4, <2>5, <2>6
<1>9. Gains(into, h[n], seen(n)) /\ h[n] \in Seq(R)
  BY <1>6
<1> HIDE DEF seen
<1> QED BY <1>1, <1>7, <1>8, <1>9 DEF Gains

-----------------------------------------------------------------------------
(* Probes.                                                                 *)

StarAt(host, i)      == [host EXCEPT ![i] = Star]
StarBefore(host, i)  == <<Star>> \o SubSeq(host, i + 2, Len(host))
StarTails(host)      == IF Len(host) >= 4 THEN Len(host) - 3 ELSE 0
OneStar(t) == \A i, j \in DOMAIN t : t[i] = Star /\ t[j] = Star => i = j

(* What is in a concatenation is in one of its two parts.                  *)
LEMMA ContainsConcat ==
  ASSUME NEW S, NEW s \in Seq(S), NEW u \in Seq(S), NEW x
  PROVE  Contains(s \o u, x) <=> Contains(s, x) \/ Contains(u, x)
<1> DEFINE m == Len(s)
           n == Len(u)
<1>1. /\ m \in Nat /\ n \in Nat /\ Len(s \o u) = m + n
      /\ \A i \in 1 .. m : (s \o u)[i] = s[i]
      /\ \A i \in 1 .. n : (s \o u)[m + i] = u[i]
  OBVIOUS
<1> HIDE DEF m, n
<1>2. ASSUME Contains(s \o u, x) PROVE Contains(s, x) \/ Contains(u, x)
  <2>1. PICK i \in 1 .. m + n : (s \o u)[i] = x
    BY <1>1, <1>2 DEF Contains
  <2>2. CASE i \in 1 .. m
    BY <1>1, <2>1, <2>2 DEF Contains, m
  <2>3. CASE i \notin 1 .. m
    <3>1. i - m \in 1 .. n /\ m + (i - m) = i
      BY <1>1, <2>3
    <3>2. u[i - m] = x
      BY <1>1, <2>1, <3>1
    <3> QED BY <3>1, <3>2 DEF Contains, n
  <2> QED BY <2>2, <2>3
<1>3. ASSUME Contains(s, x) PROVE Contains(s \o u, x)
  <2>1. PICK i \in 1 .. m : s[i] = x
    BY <1>3 DEF Contains, m
  <2>2. i \in 1 .. m + n /\ (s \o u)[i] = x
    BY <1>1, <2>1
  <2> QED BY <1>1, <2>2 DEF Contains
<1>4. ASSUME Contains(u, x) PROVE Contains(s \o u, x)
  <2>1. PICK i \in 1 .. n : u[i] = x
    BY <1>4 DEF Contains, n
  <2>2. m + i \in 1 .. m + n /\ (s \o u)[m + i] = x
    BY <1>1, <2>1
  <2> QED BY <1>1, <2>2 DEF Contains
<1> QED BY <1>2, <1>3, <1>4

LEMMA ProbesContain ==
  ASSUME NEW Lab, NEW host \in Seq(Lab), NEW t
  PROVE  /\ Probes(host) \in Seq(Seq(Lab \cup {Star})) /\ Probes(host) # <<>>
         /\ Contains(Probes(host), t) <=>
              \/ t = host
              \/ \E i \in 1 .. Len(host) : t = StarAt(host, i)
              \/ \E i \in 1 .. StarTails(host) : t = StarBefore(host, i)
<1> DEFINE n == Len(host)
           T == Seq(Lab \cup {Star})
           A == [i \in 1 .. n |-> StarAt(host, i)]
           B == [i \in 1 .. StarTails(host) |-> StarBefore(host, i)]
<1>1. n \in Nat /\ StarTails(host) \in Nat /\ host \in T
  BY DEF StarTails
<1>2. A \in Seq(T) /\ Len(A) = n
  <2>1. \A i \in 1 .. n : StarAt(host, i) \in T
    BY <1>1 DEF StarAt
  <2> QED BY <1>1, <2>1
<1>3. B \in Seq(T) /\ Len(B) = StarTails(host)
  <2>1. \A i \in 1 .. StarTails(host) : StarBefore(host, i) \in T
    <3>1. ASSUME NEW i \in 1 .. StarTails(host) PROVE StarBefore(host, i) \in T
      <4>1. SubSeq(host, i + 2, n) \in T
        <5>1. i + 2 \in 1 .. n
          BY <1>1 DEF StarTails
        <5> QED BY <1>1, <5>1
      <4>2. <<Star>> \in T
        OBVIOUS
      <4> QED BY <4>1, <4>2 DEF StarBefore
    <3> QED BY <3>1
  <2> QED BY <1>1, <2>1
<1>4. Probes(host) = (<<host>> \o A) \o B
  BY DEF Probes, StarAt, StarBefore, StarTails
<1>5. <<host>> \in Seq(T) /\ (Contains(<<host>>, t) <=> t = host)
  <2>1. Len(<<host>>) = 1 /\ <<host>>[1] = host /\ <<host>> \in Seq(T)
    BY <1>1
  <2> QED BY <2>1 DEF Contains
<1>6. Contains(A, t) <=> \E i \in 1 .. n : t = StarAt(host, i)
  BY <1>2 DEF Contains
<1>7. Contains(B, t) <=> \E i \in 1 .. StarTails(host) : t = StarBefore(host, i)
  BY <1>3 DEF Contains
<1> HIDE DEF A, B, T
<1>8. <<host>> \o A \in Seq(T) /\ Probes(host) \in Seq(T) /\ Probes(host) # <<>>
  <2>1. <<host>> \o A \in Seq(T) /\ (<<host>> \o A) \o B \in Seq(T)
    BY <1>2, <1>3, <1>5
  <2>2. Len(<<host>> \o A) = 1 + n
    BY <1>2, <1>5
  <2>3. Len((<<host>> \o A) \o B) = 1 + n + StarTails(host)
    BY <1>1, <1>3, <2>1, <2>2
  <2> QED BY <1>1, <1>4, <2>1, <2>3
<1>9. Contains(Probes(host), t) <=> Contains(<<host>>, t) \/ Contains(A, t) \/ Contains(B, t)
  <2>1. Contains(<<host>> \o A, t) <=> Contains(<<host>>, t) \/ Contains(A, t)
    BY <1>2, <1>5, ContainsConcat, Zenon
  <2>2. Contains((<<host>> \o A) \o B, t) <=> Contains(<<host>> \o A, t) \/ Contains(B, t)
    BY <1>3, <1>8, ContainsConcat, Zenon
  <2> QED BY <1>4, <2>1, <2>2
<1> QED BY <1>5, <1>6, <1>7, <1>8, <1>9 DEF T

LEMMA SuffixMeans ==
  ASSUME NEW S, NEW s \in Seq(S), NEW u \in Seq(S)
  PROVE  IsSuffix(s, u) <=>
           /\ Len(s) <= Len(u)
           /\ \A j \in 1 .. Len(s) : s[j] = u[Len(u) - Len(s) + j]
<1> DEFINE m == Len(s)
           n == Len(u)
           a == Reverse(s)
           b == Reverse(u)
<1>1. m \in Nat /\ n \in Nat
  OBVIOUS
<1>2. /\ a \in Seq(S) /\ Len(a) = m /\ \A i \in 1 .. m : a[i] = s[m - i + 1]
      /\ b \in Seq(S) /\ Len(b) = n /\ \A i \in 1 .. n : b[i] = u[n - i + 1]
  BY DEF Reverse
<1> HIDE DEF a, b, m, n
<1>3. CASE m <= n
  <2>1. /\ SubSeq(a, 1, m) = [i \in 1 .. m |-> a[i]]
        /\ SubSeq(b, 1, m) = [i \in 1 .. m |-> b[i]]
    BY <1>1, <1>2, <1>3
  <2>2. IsSuffix(s, u) <=> \A i \in 1 .. m : a[i] = b[i]
    <3>1. IsSuffix(s, u) <=> SubSeq(a, 1, m) = SubSeq(b, 1, m)
      BY <1>2, <1>3 DEF IsSuffix, IsPrefix, a, b
    <3> QED BY <2>1, <3>1
  <2>3. ASSUME \A i \in 1 .. m : a[i] = b[i], NEW j \in 1 .. m
        PROVE  s[j] = u[n - m + j]
    <3>1. m - j + 1 \in 1 .. m /\ m - j + 1 \in 1 .. n
          /\ m - (m - j + 1) + 1 = j /\ n - (m - j + 1) + 1 = n - m + j
      BY <1>1, <1>3
    <3>2. a[m - j + 1] = b[m - j + 1]
      BY <2>3, <3>1
    <3>3. a[m - j + 1] = s[m - (m - j + 1) + 1] /\ b[m - j + 1] = u[n - (m - j + 1) + 1]
      BY <1>2, <3>1
    <3> QED BY <3>1, <3>2, <3>3
  <2>4. ASSUME \A j \in 1 .. m : s[j] = u[n - m + j], NEW i \in 1 .. m
        PROVE  a[i] = b[i]
    <3>1. m - i + 1 \in 1 .. m /\ i \in 1 .. n /\ n - m + (m - i + 1) = n - i + 1
      BY <1>1, <1>3
    <3>2. s[m - i + 1] = u[n - m + (m - i + 1)]
      BY <2>4, <3>1
    <3>3. a[i] = s[m - i + 1] /\ b[i] = u[n - i + 1]
      BY <1>2, <3>1
    <3> QED BY <3>1, <3>2, <3>3
  <2> QED BY <1>3, <2>2, <2>3, <2>4 DEF m, n
<1>4. CASE ~(m <= n)
  BY <1>2, <1>4 DEF IsSuffix, IsPrefix, a, b, m, n
<1> QED BY <1>3, <1>4

(* What a target covers, position by position.                             *)
LEMMA CoversMeans ==
  ASSUME NEW Lab, NEW host \in Seq(Lab), NEW t \in Seq(Lab \cup {Star})
  PROVE  Covers(t, host) <=>
           IF Len(t) >= 3 /\ t[1] = Star
           THEN /\ Len(host) >= Len(t)
                /\ \A j \in 2 .. Len(t) : t[j] = host[Len(host) - Len(t) + j]
           ELSE /\ Len(host) = Len(t)
                /\ \A i \in 1 .. Len(host) : t[i] \in {host[i], Star}
<1> DEFINE k == Len(t)
           n == Len(host)
<1>1. k \in Nat /\ n \in Nat /\ DOMAIN host = 1 .. n
  OBVIOUS
<1>2. CASE k >= 3 /\ t[1] = Star
  <2> DEFINE s == Tail(t)
  <2>1. /\ s \in Seq(Lab \cup {Star}) /\ Len(s) = k - 1 /\ host \in Seq(Lab \cup {Star})
        /\ \A j \in 1 .. k - 1 : s[j] = t[j + 1]
    <3>1. t # <<>>
      BY <1>2
    <3> QED BY <3>1
  <2> HIDE DEF s, k, n
  <2>2. Covers(t, host) <=> n >= k /\ IsSuffix(s, host)
    BY <1>2 DEF Covers, LeftWildcard, s, k, n
  <2>3. IsSuffix(s, host) <=>
          k - 1 <= n /\ \A j \in 1 .. k - 1 : s[j] = host[n - (k - 1) + j]
    BY <2>1, SuffixMeans, SMTT(30) DEF n
  <2>4. ASSUME \A j \in 1 .. k - 1 : s[j] = host[n - (k - 1) + j], NEW j \in 2 .. k
        PROVE  t[j] = host[n - k + j]
    <3>1. j - 1 \in 1 .. k - 1 /\ (j - 1) + 1 = j /\ n - (k - 1) + (j - 1) = n - k + j
      BY <1>1
    <3>2. s[j - 1] = host[n - (k - 1) + (j - 1)] /\ s[j - 1] = t[(j - 1) + 1]
      BY <2>1, <2>4, <3>1
    <3> QED BY <3>1, <3>2
  <2>5. ASSUME \A j \in 2 .. k : t[j] = host[n - k + j], NEW j \in 1 .. k - 1
        PROVE  s[j] = host[n - (k - 1) + j]
    <3>1. j + 1 \in 2 .. k /\ n - k + (j + 1) = n - (k - 1) + j
      BY <1>1
    <3>2. t[j + 1] = host[n - k + (j + 1)] /\ s[j] = t[j + 1]
      BY <2>1, <2>5, <3>1
    <3> QED BY <3>1, <3>2
  <2>6. n >= k => k - 1 <= n
    BY <1>1
  <2> QED BY <1>2, <2>2, <2>3, <2>4, <2>5, <2>6 DEF k, n
<1>3. CASE ~(k >= 3 /\ t[1] = Star)
  BY <1>1, <1>3 DEF Covers, LeftWildcard
<1> QED BY <1>2, <1>3

LEMMA ProbesCover ==
  ASSUME NEW Lab, Star \notin Lab, NEW host \in Seq(Lab), host # <<>>,
         NEW t \in Seq(Lab \cup {Star}), Contains(Probes(host), t)
  PROVE  Covers(t, host)
<1> DEFINE n == Len(host)
<1>1. /\ n \in Nat /\ n # 0 /\ DOMAIN host = 1 .. n
      /\ \A i \in 1 .. n : host[i] \in Lab /\ host[i] # Star
  OBVIOUS
<1>2. CASE t = host
  <2>1. Len(t) = n /\ t[1] # Star /\ \A i \in 1 .. n : t[i] = host[i]
    BY <1>1, <1>2
  <2> QED BY <2>1, CoversMeans
<1>3. ASSUME NEW i \in 1 .. n, t = StarAt(host, i) PROVE Covers(t, host)
  <2>1. Len(t) = n /\ \A j \in 1 .. n : t[j] = IF j = i THEN Star ELSE host[j]
    BY <1>3 DEF StarAt
  <2>2. CASE n >= 3 /\ t[1] = Star
    <3>1. i = 1
      BY <1>1, <2>1, <2>2
    <3>2. \A j \in 2 .. n : t[j] = host[n - n + j]
      BY <1>1, <2>1, <3>1
    <3> QED BY <1>1, <2>1, <2>2, <3>2, CoversMeans
  <2>3. CASE ~(n >= 3 /\ t[1] = Star)
    BY <2>1, <2>3, CoversMeans
  <2> QED BY <2>2, <2>3
<1>4. ASSUME NEW i \in 1 .. StarTails(host), t = StarBefore(host, i) PROVE Covers(t, host)
  <2>1. n >= 4 /\ i \in 1 .. n - 3
    BY <1>1, <1>4 DEF StarTails
  <2> DEFINE s == SubSeq(host, i + 2, n)
  <2>2. /\ s \in Seq(Lab) /\ Len(s) = n - i - 1
        /\ \A j \in 1 .. n - i - 1 : s[j] = host[j + i + 1]
    <3>1. i + 2 \in 1 .. n + 1 /\ n \in 1 .. n
      BY <1>1, <2>1
    <3> QED BY <2>1, <3>1
  <2> HIDE DEF s
  <2>3. /\ Len(t) = n - i /\ t[1] = Star
        /\ \A j \in 2 .. n - i : t[j] = s[j - 1]
    <3>1. t = <<Star>> \o s
      BY <1>4 DEF StarBefore, s
    <3>2. Len(<<Star>>) = 1 /\ <<Star>>[1] = Star /\ <<Star>> \in Seq({Star})
      OBVIOUS
    <3> QED BY <2>1, <2>2, <3>1, <3>2
  <2>4. ASSUME NEW j \in 2 .. n - i PROVE t[j] = host[n - (n - i) + j]
    <3>1. j - 1 \in 1 .. n - i - 1 /\ (j - 1) + i + 1 = n - (n - i) + j
      BY <1>1, <2>1
    <3> QED BY <2>2, <2>3, <3>1
  <2>5. n - i >= 3 /\ n >= n - i
    BY <1>1, <2>1
  <2> HIDE DEF n
  <2>6. Len(t) >= 3 /\ t[1] = Star /\ n >= Len(t)
        /\ \A j \in 2 .. Len(t) : t[j] = host[n - Len(t) + j]
    BY <2>3, <2>4, <2>5
  <2> QED BY <2>6, CoversMeans DEF n
<1> QED BY <1>2, <1>3, <1>4, ProbesContain, ZenonT(40)

LEMMA CoversProbed ==
  ASSUME NEW Lab, Star \notin Lab, NEW host \in Seq(Lab), host # <<>>,
         NEW t \in Seq(Lab \cup {Star}), OneStar(t), Covers(t, host)
  PROVE  Contains(Probes(host), t)
<1> DEFINE n == Len(host)
           k == Len(t)
<1>1. /\ n \in Nat /\ n # 0 /\ DOMAIN host = 1 .. n /\ host = [i \in 1 .. n |-> host[i]]
      /\ k \in Nat /\ DOMAIN t = 1 .. k /\ t = [i \in 1 .. k |-> t[i]]
  OBVIOUS
<1>2. CASE k >= 3 /\ t[1] = Star
  <2>1. n >= k /\ \A j \in 2 .. k : t[j] = host[n - k + j]
    BY <1>2, CoversMeans
  <2>2. CASE n = k
    <3>1. ASSUME NEW j \in 1 .. n PROVE t[j] = IF j = 1 THEN Star ELSE host[j]
      <4>1. CASE j = 1
        BY <1>2, <4>1
      <4>2. CASE j # 1
        <5>1. j \in 2 .. k /\ n - k + j = j
          BY <1>1, <2>2, <4>2
        <5> QED BY <2>1, <4>2, <5>1
      <4> QED BY <4>1, <4>2
    <3>2. t = StarAt(host, 1) /\ 1 \in 1 .. n
      BY <1>1, <2>2, <3>1 DEF StarAt
    <3> QED BY <3>2, ProbesContain
  <2>3. CASE n # k
    <3> DEFINE i == n - k
               s == SubSeq(host, i + 2, n)
    <3>1. n >= 4 /\ i \in 1 .. n - 3 /\ i \in 1 .. StarTails(host)
      <4>0. n >= k
        BY <2>1
      <4>1. n > k /\ k >= 3
        <5> HIDE DEF n, k
        <5> QED BY <1>1, <1>2, <2>3, <4>0
      <4>2. n >= 4 /\ StarTails(host) = n - 3
        BY <1>1, <4>1 DEF StarTails
      <4> HIDE DEF n, k
      <4>3. n - k \in 1 .. n - 3
        BY <1>1, <4>1
      <4> QED BY <4>2, <4>3
    <3>2. /\ s \in Seq(Lab) /\ Len(s) = k - 1
          /\ \A j \in 1 .. k - 1 : s[j] = host[j + i + 1]
      <4>1. i + 2 \in 1 .. n + 1 /\ n \in 1 .. n /\ n - (i + 2) + 1 = k - 1
        BY <1>1, <3>1
      <4> QED BY <3>1, <4>1
    <3> HIDE DEF s
    <3>3. <<Star>> \o s = [j \in 1 .. k |-> IF j = 1 THEN Star ELSE s[j - 1]]
      <4>1. Len(<<Star>>) = 1 /\ <<Star>>[1] = Star /\ <<Star>> \in Seq({Star})
        OBVIOUS
      <4>2. 1 + (k - 1) = k
        BY <1>1
      <4> QED BY <3>2, <4>1, <4>2
    <3>4. ASSUME NEW j \in 2 .. k PROVE t[j] = s[j - 1]
      <4>1. j - 1 \in 1 .. k - 1 /\ (j - 1) + i + 1 = n - k + j
        BY <1>1
      <4>2. s[j - 1] = host[(j - 1) + i + 1]
        BY <3>2, <4>1
      <4> QED BY <2>1, <4>1, <4>2
    <3>5. t = <<Star>> \o s
      <4>1. \A j \in 1 .. k : t[j] = IF j = 1 THEN Star ELSE s[j - 1]
        BY <1>2, <3>4
      <4> HIDE DEF k
      <4> QED BY <1>1, <3>3, <4>1
    <3>6. t = StarBefore(host, i)
      BY <3>5 DEF StarBefore, s
    <3> HIDE DEF i
    <3> QED BY <3>1, <3>6, ProbesContain
  <2> QED BY <2>2, <2>3
<1>3. CASE ~(k >= 3 /\ t[1] = Star)
  <2>1. n = k /\ \A i \in 1 .. n : t[i] \in {host[i], Star}
    BY <1>3, CoversMeans
  <2>2. CASE \E i \in 1 .. n : t[i] = Star
    <3>1. PICK i \in 1 .. n : t[i] = Star
      BY <2>2
    <3>2. \A j \in 1 .. n : t[j] = IF j = i THEN Star ELSE host[j]
      BY <1>1, <2>1, <3>1 DEF OneStar
    <3>3. t = StarAt(host, i)
      BY <1>1, <2>1, <3>2 DEF StarAt
    <3> QED BY <3>3, ProbesContain
  <2>3. CASE ~\E i \in 1 .. n : t[i] = Star
    <3>1. \A i \in 1 .. n : t[i] = host[i]
      BY <2>1, <2>3
    <3>2. t = host
      <4> HIDE DEF n, k
      <4> QED BY <1>1, <2>1, <3>1
    <3> QED BY <3>2, ProbesContain
  <2> QED BY <2>2, <2>3
<1> QED BY <1>2, <1>3

(* For every alphabet of labels and every host name, the keys probed are   *)
(* exactly the targets with at most one wildcard that cover the host as    *)
(* docs/rulesets.html says (rules.js 276-290).                             *)
THEOREM ProbesAreCovers ==
  ASSUME NEW Lab, Star \notin Lab, NEW host \in Seq(Lab), host # <<>>,
         NEW t \in Seq(Lab \cup {Star}), OneStar(t)
  PROVE  Contains(Probes(host), t) <=> Covers(t, host)
BY ProbesCover, CoversProbed

-----------------------------------------------------------------------------
(* Declaring.                                                              *)

Pushed(list, r, t, declared) == IF t \in declared[r] THEN Append(list, r) ELSE list

(* The list under t after each ruleset is loaded.                          *)
DeclaringPasses(t, order, declared, h) ==
  /\ h[0] = <<>>
  /\ \A k \in 0 .. Len(order) : k < Len(order) => h[k + 1] = Pushed(h[k], order[k + 1], t, declared)
  /\ h[Len(order)] = Declaring(t, order, declared)

LEMMA DeclaringLoop ==
  ASSUME NEW R, NEW order \in Seq(R), NEW t, NEW declared
  PROVE  \E h : DeclaringPasses(t, order, declared, h)
<1> DEFINE n == Len(order)
           D == Seq(R)
           F == [p \in D \X (1 .. n) |-> Pushed(p[1], order[p[2]], t, declared)]
           Eqn(g) == g = [s \in SUBSET DOMAIN order |->
                            IF s = {} THEN <<>>
                            ELSE Pushed(g[s \ {Max(s)}], order[Max(s)], t, declared)]
           it == CHOOSE g : Eqn(g)
           h == [k \in 0 .. n |-> it[1 .. k]]
<1>1. F \in [D \X (1 .. n) -> D]
  <2>1. ASSUME NEW d \in D, NEW i \in 1 .. n PROVE Pushed(d, order[i], t, declared) \in D
    BY DEF Pushed
  <2> QED BY <2>1
<1>2. \E g : Eqn(g)
  <2> HIDE DEF F, D
  <2>1. PICK g : IsFoldTable(g, n, D, <<>>, F)
    <3>1. <<>> \in D /\ n \in Nat
      BY DEF D
    <3> HIDE DEF n
    <3> QED BY <1>1, <3>1, FoldTable, Zenon
  <2>2. ASSUME NEW s \in SUBSET (1 .. n), s # {}
        PROVE  g[s] = Pushed(g[s \ {Max(s)}], order[Max(s)], t, declared)
    <3>1. Max(s) \in 1 .. n /\ s \ {Max(s)} \in SUBSET (1 .. n)
      <4>1. n \in Nat
        OBVIOUS
      <4>2. Max(s) \in s
        BY <2>2, <4>1, MaxIsMember, Zenon
      <4> QED BY <4>2
    <3>2. g[s \ {Max(s)}] \in D
      BY <2>1, <3>1 DEF IsFoldTable
    <3>3. F[<<g[s \ {Max(s)}], Max(s)>>] = Pushed(g[s \ {Max(s)}], order[Max(s)], t, declared)
      BY <3>1, <3>2 DEF F
    <3> QED BY <2>1, <2>2, <3>3 DEF IsFoldTable
  <2>3. DOMAIN order = 1 .. n
    OBVIOUS
  <2>4. Eqn(g)
    BY <2>1, <2>2, <2>3 DEF IsFoldTable
  <2> QED BY <2>4
<1>3. Eqn(it)
  <2> HIDE DEF Eqn
  <2> QED BY <1>2
<1>4. Declaring(t, order, declared) = it[DOMAIN order]
  BY Zenon DEF Declaring, FoldLeft, MapThenFoldSet, Pushed
<1> HIDE DEF it
<1>5. DOMAIN order = 1 .. n /\ n \in Nat
  OBVIOUS
<1>6. h[0] = <<>>
  <2>1. 1 .. 0 = {} /\ 0 \in 0 .. n
    BY <1>5
  <2> QED BY <1>3, <2>1
<1>7. ASSUME NEW k \in 0 .. n, k < n
      PROVE  h[k + 1] = Pushed(h[k], order[k + 1], t, declared)
  <2>1. Max(1 .. k + 1) = k + 1
    BY <1>5, MaxOfInterval
  <2>2. /\ 1 .. k + 1 \in SUBSET DOMAIN order /\ 1 .. k + 1 # {}
        /\ (1 .. k + 1) \ {k + 1} = 1 .. k
    <3>1. 1 .. k + 1 \subseteq 1 .. n /\ k + 1 \in 1 .. k + 1
      BY <1>5, <1>7
    <3>2. (1 .. k + 1) \ {k + 1} = 1 .. k
      BY <1>5, <1>7
    <3> QED BY <1>5, <3>1, <3>2
  <2>3. it[1 .. k + 1] = Pushed(it[1 .. k], order[k + 1], t, declared)
    BY <1>3, <2>1, <2>2
  <2>4. k + 1 \in 0 .. n
    BY <1>5, <1>7
  <2> QED BY <2>3, <2>4
<1>8. h[n] = Declaring(t, order, declared)
  BY <1>4, <1>5
<1> HIDE DEF h
<1>9. DeclaringPasses(t, order, declared, h)
  BY <1>6, <1>7, <1>8 DEF DeclaringPasses
<1> QED BY <1>9

LEMMA AppendRange ==
  ASSUME NEW R, NEW list \in Seq(R), NEW x \in R
  PROVE  /\ Append(list, x) \in Seq(R) /\ Range(Append(list, x)) = Range(list) \cup {x}
         /\ IsInjective(list) /\ x \notin Range(list) => IsInjective(Append(list, x))
<1> DEFINE new == Append(list, x)
<1>1. /\ new \in Seq(R) /\ DOMAIN new = 1 .. Len(list) + 1 /\ DOMAIN list = 1 .. Len(list)
      /\ Len(list) \in Nat /\ new[Len(list) + 1] = x
      /\ \A i \in DOMAIN list : new[i] = list[i]
  OBVIOUS
<1> HIDE DEF new
<1>2. \A i \in DOMAIN new : i \in DOMAIN list \/ i = Len(list) + 1
  BY <1>1
<1>3. Range(new) = Range(list) \cup {x}
  <2>1. DOMAIN list \subseteq DOMAIN new /\ Len(list) + 1 \in DOMAIN new
    BY <1>1
  <2> QED BY <1>1, <1>2, <2>1 DEF Range
<1>4. ASSUME IsInjective(list), x \notin Range(list) PROVE IsInjective(new)
  <2>1. \A i \in DOMAIN list : list[i] # x
    BY <1>4 DEF Range
  <2> QED BY <1>1, <1>2, <1>4, <2>1 DEF IsInjective
<1> QED BY <1>1, <1>3, <1>4 DEF new

(* The index lists under t the rulesets that declare it.                   *)
LEMMA DeclaringLists ==
  ASSUME NEW R, NEW order \in Seq(R), NEW t, NEW declared
  PROVE  /\ Declaring(t, order, declared) \in Seq(R)
         /\ Range(Declaring(t, order, declared)) = {r \in Range(order) : t \in declared[r]}
         /\ IsInjective(order) => IsInjective(Declaring(t, order, declared))
<1> DEFINE n == Len(order)
<1>1. PICK h : DeclaringPasses(t, order, declared, h)
  BY DeclaringLoop
<1> DEFINE seen(k) == {r \in {order[i] : i \in 1 .. k} : t \in declared[r]}
           T == {k \in 0 .. n : /\ h[k] \in Seq(R) /\ Range(h[k]) = seen(k)
                                /\ IsInjective(order) => IsInjective(h[k])}
<1>2. n \in Nat /\ DOMAIN order = 1 .. n
  OBVIOUS
<1>3. 0 \in T
  <2>1. seen(0) = {}
    OBVIOUS
  <2>2. h[0] = <<>>
    BY <1>1 DEF DeclaringPasses
  <2>3. 0 \in 0 .. n /\ <<>> \in Seq(R)
    BY <1>2
  <2>4. Range(<<>>) = {} /\ IsInjective(<<>>)
    BY DEF Range, IsInjective
  <2> QED BY <2>1, <2>2, <2>3, <2>4
<1>4. ASSUME NEW k \in 0 .. n, k < n /\ k \in T PROVE k + 1 \in T
  <2> DEFINE r == order[k + 1]
  <2> HIDE DEF seen
  <2>1. h[k + 1] = Pushed(h[k], r, t, declared)
    BY <1>1, <1>4 DEF DeclaringPasses
  <2>2. k + 1 \in 1 .. n /\ k + 1 \in 0 .. n /\ r \in R
    BY <1>2, <1>4
  <2>3. /\ h[k] \in Seq(R) /\ Range(h[k]) = seen(k)
        /\ IsInjective(order) => IsInjective(h[k])
    BY <1>4
  <2>4. 1 .. k + 1 = (1 .. k) \cup {k + 1}
    BY <1>4
  <2>5. CASE t \in declared[r]
    <3>1. h[k + 1] = Append(h[k], r)
      BY <2>1, <2>5 DEF Pushed
    <3>2. IsInjective(order) => r \notin seen(k)
      BY <1>2, <1>4, <2>2 DEF IsInjective, seen
    <3>3. seen(k + 1) = seen(k) \cup {r}
      BY <2>4, <2>5 DEF seen
    <3> HIDE DEF r
    <3>4. /\ h[k + 1] \in Seq(R) /\ Range(h[k + 1]) = Range(h[k]) \cup {r}
          /\ IsInjective(h[k]) /\ r \notin Range(h[k]) => IsInjective(h[k + 1])
      <4>1. /\ Append(h[k], r) \in Seq(R) /\ Range(Append(h[k], r)) = Range(h[k]) \cup {r}
            /\ IsInjective(h[k]) /\ r \notin Range(h[k]) => IsInjective(Append(h[k], r))
        BY <2>2, <2>3, AppendRange
      <4> QED BY <3>1, <4>1
    <3> QED BY <2>2, <2>3, <3>2, <3>3, <3>4
  <2>6. CASE t \notin declared[r]
    <3>1. h[k + 1] = h[k]
      BY <2>1, <2>6 DEF Pushed
    <3>2. seen(k + 1) = seen(k)
      BY <2>4, <2>6 DEF seen
    <3> QED BY <2>2, <2>3, <3>1, <3>2
  <2> QED BY <2>5, <2>6
<1>5. n \in T
  <2>1. n \in 0 .. n
    BY <1>2
  <2> HIDE DEF T, n
  <2> QED BY <1>2, <1>3, <1>4, <2>1, Counting
<1>6. seen(n) = {r \in Range(order) : t \in declared[r]}
  BY <1>2 DEF Range
<1>7. h[n] = Declaring(t, order, declared)
  BY <1>1 DEF DeclaringPasses
<1> HIDE DEF seen
<1> QED BY <1>5, <1>6, <1>7

LEMMA FunctionIsSeq ==
  ASSUME NEW S, NEW n \in Nat, NEW f \in [1 .. n -> S]
  PROVE  f \in Seq(S) /\ Len(f) = n
<1>1. f \in Seq(S)
  OBVIOUS
<1>2. DOMAIN f = 1 .. n
  OBVIOUS
<1>3. Len(f) = n
  BY <1>1, <1>2
<1> QED BY <1>1, <1>3

AnswerFor(host, order, declared) ==
  Merge([i \in DOMAIN Probes(host) |-> Declaring(Probes(host)[i], order, declared)])

ValidTargets(R, declared, Lab) ==
  \A r \in R : \A t \in declared[r] : t \in Seq(Lab \cup {Star}) /\ OneStar(t)

IsAnswer(answer, R, host, order, declared) ==
  /\ answer \in Seq(R) /\ IsInjective(answer)
  /\ Range(answer) = {r \in Range(order) : \E t \in declared[r] : Covers(t, host)}
  /\ \A i, j \in DOMAIN answer :
       host \in declared[answer[j]] /\ i < j => host \in declared[answer[i]]

(* For every database of rulesets whose targets have at most one wildcard: *)
(* the answer lists each ruleset with a target that covers the host, once, *)
(* and those that name the host exactly come first (rules.js 260-300).     *)
THEOREM AnswersAreComplete ==
  ASSUME NEW Lab, Star \notin Lab, NEW host \in Seq(Lab), host # <<>>,
         NEW R, NEW order \in Seq(R), IsInjective(order), NEW declared,
         ValidTargets(R, declared, Lab),
         NEW answer, answer = AnswerFor(host, order, declared)
  PROVE  IsAnswer(answer, R, host, order, declared)
<1> USE DEF ValidTargets, IsAnswer
<1> DEFINE p == Probes(host)
           lists == [i \in DOMAIN p |-> Declaring(p[i], order, declared)]
<1>1. p \in Seq(Seq(Lab \cup {Star})) /\ p # <<>>
  BY ProbesContain
<1>2. p[1] = host
  BY DEF Probes
<1> HIDE DEF p
<1>3. /\ DOMAIN p = 1 .. Len(p) /\ Len(p) \in Nat /\ 1 \in DOMAIN p
      /\ \A i \in DOMAIN p : p[i] \in Seq(Lab \cup {Star})
  BY <1>1
<1>4. lists \in Seq(Seq(R)) /\ lists # <<>>
  <2>1. \A i \in DOMAIN p : Declaring(p[i], order, declared) \in Seq(R)
    BY DeclaringLists
  <2>2. lists \in [1 .. Len(p) -> Seq(R)]
    BY <1>3, <2>1
  <2>3. lists \in Seq(Seq(R)) /\ Len(lists) = Len(p)
    <3> HIDE DEF lists
    <3> QED BY <1>3, <2>2, FunctionIsSeq
  <2> QED BY <1>3, <2>3
<1>5. /\ answer \in Seq(R)
      /\ Gains(lists[1], answer, UNION {Range(lists[i]) : i \in DOMAIN lists})
  <2> HIDE DEF lists
  <2>1. answer = Merge(lists)
    BY DEF AnswerFor, lists, p
  <2> QED BY <1>4, <2>1, MergeGains
<1>6. \A i \in DOMAIN p : Range(lists[i]) = {r \in Range(order) : p[i] \in declared[r]}
  BY DeclaringLists
<1>7. /\ lists[1] \in Seq(R) /\ IsInjective(lists[1])
      /\ Range(lists[1]) = {r \in Range(order) : host \in declared[r]}
  BY <1>2, <1>3, DeclaringLists
<1>8. IsInjective(answer)
  BY <1>5, <1>7 DEF Gains
<1>9. DOMAIN lists = DOMAIN p
  OBVIOUS
<1> HIDE DEF lists
<1>10. Range(answer) = UNION {Range(lists[i]) : i \in DOMAIN p}
  <2>1. Range(answer) = Range(lists[1]) \cup UNION {Range(lists[i]) : i \in DOMAIN p}
    BY <1>5, <1>9 DEF Gains
  <2> QED BY <1>3, <2>1
<1>11. ASSUME NEW r \in R
       PROVE  (\E i \in DOMAIN p : p[i] \in declared[r]) <=> \E t \in declared[r] : Covers(t, host)
  <2>1. \A t \in declared[r] : Contains(p, t) <=> Covers(t, host)
    BY ProbesAreCovers DEF p
  <2>2. \A t : Contains(p, t) <=> \E i \in DOMAIN p : p[i] = t
    BY <1>3 DEF Contains
  <2> QED BY <2>1, <2>2
<1>12. Range(order) \subseteq R
  BY DEF Range
<1>13. Range(answer) = {r \in Range(order) : \E t \in declared[r] : Covers(t, host)}
  BY <1>6, <1>10, <1>11, <1>12
<1>14. ASSUME NEW i \in DOMAIN answer, NEW j \in DOMAIN answer,
              host \in declared[answer[j]], i < j
       PROVE  host \in declared[answer[i]]
  <2>1. answer[j] \in Range(lists[1])
    <3>1. answer[j] \in Range(order)
      BY <1>13 DEF Range
    <3> QED BY <1>7, <1>14, <3>1
  <2>2. PICK k \in DOMAIN lists[1] : lists[1][k] = answer[j]
    BY <2>1 DEF Range
  <2>3. k \in DOMAIN answer /\ answer[k] = answer[j]
    BY <1>5, <2>2 DEF Gains
  <2>4. j \in DOMAIN lists[1]
    BY <1>8, <2>2, <2>3 DEF IsInjective
  <2>5. i \in DOMAIN lists[1]
    <3>1. DOMAIN lists[1] = 1 .. Len(lists[1]) /\ DOMAIN answer = 1 .. Len(answer)
      BY <1>5, <1>7
    <3>2. Len(lists[1]) \in Nat /\ Len(answer) \in Nat
      BY <1>5, <1>7
    <3> QED BY <1>14, <2>4, <3>1, <3>2
  <2>6. answer[i] \in Range(lists[1])
    BY <1>5, <2>5 DEF Gains, Range
  <2> QED BY <1>7, <2>6
<1> QED BY <1>5, <1>8, <1>13, <1>14
=============================================================================
