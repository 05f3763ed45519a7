-------------------------- MODULE RuleStoreProofs --------------------------
(***************************************************************************)
(* Proofs about RuleStore: the rule cache never answers with anything but  *)
(* what the index of targets says now, what runs is what is stored, both   *)
(* caches are used as LRUContract allows, and a reload changes nothing.    *)
(*                                                                         *)
(* CacheInv needs only that the cache is a record with a `val` field whose *)
(* keys are hosts.  The one step that changes the index without emptying   *)
(* the cache is AddUserRule, and UserRuleHosts says that its host is       *)
(* probed for no host but itself, whose entry addUserRule purges.  How the *)
(* rulesets of the probed keys are merged plays no role there; for the     *)
(* types (TypeInv) it is HostTargetsProofs that says what they are.        *)
(* IndexInv says that the index is what loading in order makes of it.      *)
(***************************************************************************)
EXTENDS RuleStore, HostTargetsProofs, TLAPS

CacheOfHosts ==
  /\ "val" \in DOMAIN ruleCache
  /\ DOMAIN ruleCache.val \subseteq Host

CacheInv == CacheOfHosts /\ RuleCacheCoherent

(* What is memoized is what the index gives now; a hit changes no value.   *)
LEMMA CacheAfterCoherent ==
  ASSUME CacheInv, NEW h \in Host
  PROVE  /\ "val" \in DOMAIN CacheAfter(h)
         /\ DOMAIN CacheAfter(h).val \subseteq Host
         /\ \A x \in DOMAIN CacheAfter(h).val : CacheAfter(h).val[x] = ComputeApplicable(x)
<1>1. CASE RuleCache!Has(ruleCache, h)
  BY <1>1 DEF CacheAfter, RuleCache!Touch, CacheInv, CacheOfHosts, RuleCacheCoherent
<1>2. CASE ~RuleCache!Has(ruleCache, h)
  BY <1>2 DEF CacheAfter, RuleCache!Store, CacheInv, CacheOfHosts, RuleCacheCoherent
<1> QED BY <1>1, <1>2

(* Dropping a key leaves the other answers as they were.                   *)
LEMMA DropKeeps ==
  ASSUME NEW c, NEW k, "val" \in DOMAIN c
  PROVE  /\ "val" \in DOMAIN RuleCache!Drop(c, k)
         /\ DOMAIN RuleCache!Drop(c, k).val = DOMAIN c.val \ {k}
         /\ \A x \in DOMAIN c.val \ {k} : RuleCache!Drop(c, k).val[x] = c.val[x]
BY DEF RuleCache!Drop, RuleCache!Restrict

(* The rulesets of a host depend on the index only at the keys probed for  *)
(* it: a user rule for another host leaves them alone.                     *)
LEMMA ApplicableElsewhere ==
  ASSUME NEW params \in UserRuleParams, NEW r, NEW h \in Host,
         h # UserRule[params].host,
         targets' = Push(targets, UserRule[params].host, r)
  PROVE  ComputeApplicable(h)' = ComputeApplicable(h)
<1> DEFINE p == Probes(h)
<1>1. \A i \in DOMAIN p : p[i] # UserRule[params].host
  BY UserRuleHosts DEF Range
<1>2. \A i \in DOMAIN p : Indexed(p[i])' = Indexed(p[i])
  BY <1>1 DEF Indexed, Push
<1>3. [i \in DOMAIN p |-> Indexed(p[i])]' = [i \in DOMAIN p |-> Indexed(p[i])]
  BY <1>2
<1> QED BY <1>3 DEF ComputeApplicable

(* The background page starts with an empty cache.                         *)
LEMMA CacheInvInit == Init => CacheInv
BY DEF Init, CacheInv, CacheOfHosts, RuleCacheCoherent, RuleCache!EmptyCache

(* With the index and the rulesets unchanged, so are the answers.          *)
LEMMA SameIndex ==
  ASSUME UNCHANGED targets, NEW h
  PROVE  ComputeApplicable(h)' = ComputeApplicable(h)
BY DEF ComputeApplicable, Indexed

(* Every step keeps the cache coherent; addUserRule is the one that has to *)
(* do something for it.                                                    *)
LEMMA CacheInvNext == CacheInv /\ [Next]_vars => CacheInv'
<1> SUFFICES ASSUME CacheInv, [Next]_vars PROVE CacheInv'
  OBVIOUS
<1> USE DEF CacheInv, CacheOfHosts, RuleCacheCoherent
<1>1. ASSUME NEW h \in Host, Lookup(h) PROVE CacheInv'
  BY <1>1, CacheAfterCoherent, SameIndex DEF Lookup
<1>2. ASSUME NEW h \in Host, CheckCookieHost(h) PROVE CacheInv'
  <2>1. UNCHANGED targets
    BY <1>2 DEF CheckCookieHost
  <2>2. UNCHANGED ruleCache \/ ruleCache' = CacheAfter(h)
    BY <1>2 DEF CheckCookieHost, SecureEffect, SafeEffect
  <2> QED BY <2>1, <2>2, CacheAfterCoherent, SameIndex
<1>3. ASSUME NEW h \in Host, BlacklistDomain(h) PROVE CacheInv'
  BY <1>3, CacheAfterCoherent, SameIndex DEF BlacklistDomain
<1>4. ASSUME NEW params \in UserRuleParams, AddUserRule(params) PROVE CacheInv'
  <2> DEFINE host == UserRule[params].host
  <2>1. /\ ruleCache' = RuleCache!Drop(ruleCache, host)
        /\ targets' = Push(targets, host, Len(userSets) + 1)
    BY <1>4 DEF AddUserRule, Purged
  <2>2. CacheOfHosts'
    BY <2>1, DropKeeps
  <2>3. ASSUME NEW h \in DOMAIN ruleCache'.val
        PROVE  ruleCache'.val[h] = ComputeApplicable(h)'
    <3>1. h \in DOMAIN ruleCache.val \ {host} /\ ruleCache'.val[h] = ruleCache.val[h]
      BY <2>1, DropKeeps
    <3>2. ComputeApplicable(h)' = ComputeApplicable(h)
      BY <2>1, <3>1, ApplicableElsewhere
    <3> QED BY <3>1, <3>2
  <2> QED BY <2>2, <2>3
<1>5. ASSUME NEW r \in Live, Toggle(r) PROVE CacheInv'
  <2>1. UNCHANGED targets
    BY <1>5 DEF Toggle
  <2>2. UNCHANGED ruleCache \/ ruleCache' = RuleCache!Drop(ruleCache, RuleSet(r, userSets).name)
    BY <1>5 DEF Toggle
  <2>3. CASE UNCHANGED ruleCache
    BY <2>1, <2>3, SameIndex
  <2>4. CASE ruleCache' = RuleCache!Drop(ruleCache, RuleSet(r, userSets).name)
    BY <2>1, <2>4, DropKeeps, SameIndex
  <2> QED BY <2>2, <2>3, <2>4
<1>6. CASE Reload
  BY <1>6 DEF Reload, RuleCache!EmptyCache
<1>7. CASE UNCHANGED vars
  BY <1>7, SameIndex DEF vars, memory
<1> QED BY <1>1, <1>2, <1>3, <1>4, <1>5, <1>6, <1>7 DEF Next

(* Whatever is looked up, added, toggled or reloaded, an answer out of     *)
(* ruleCache is the one the index would give (rules.js 163-179, 260-300).  *)
THEOREM RuleCacheIsCoherent == Spec => []RuleCacheCoherent
<1>1. CacheInv => RuleCacheCoherent
  BY DEF CacheInv
<1> QED BY CacheInvInit, CacheInvNext, <1>1, PTL DEF Spec

-----------------------------------------------------------------------------
(* The user's choices.  `active` holds a state for every live ruleset,     *)
(* user rulesets are numbered in the order they were made, and unstored    *)
(* never names one yet to come.                                            *)

Numbered ==
  /\ userSets \in Seq(UserRuleParams) /\ userRules \in Seq(UserRuleParams)
  /\ DOMAIN active = Live /\ unstored \subseteq Live

ChoicesInv == Numbered /\ ChoicesStored

(* A ruleset that exists stays what it is when another is added.           *)
LEMMA AppendKeepsRuleSets ==
  ASSUME userSets \in Seq(UserRuleParams), NEW params \in UserRuleParams, NEW x \in Live
  PROVE  RuleSet(x, Append(userSets, params)) = RuleSet(x, userSets)
<1>1. CASE x \in Builtin
  BY <1>1 DEF RuleSet
<1>2. CASE x \notin Builtin
  <2>1. x \in DOMAIN userSets
    BY <1>2 DEF Live
  <2>2. Append(userSets, params)[x] = userSets[x]
    BY <2>1
  <2> QED BY <1>2, <2>2, Zenon DEF RuleSet
<1> QED BY <1>1, <1>2

(* At first start nothing is stored and every ruleset is in its default.   *)
LEMMA ChoicesInvInit == Init => ChoicesInv
<1> SUFFICES ASSUME Init PROVE ChoicesInv
  OBVIOUS
<1>1. /\ userSets = <<>> /\ userRules = <<>> /\ prefs = << >> /\ active = Loaded(<<>>, << >>)
      /\ unstored = {}
  BY DEF Init
<1>2. Numbered
  BY <1>1 DEF Numbered, Loaded, Live
<1>3. ChoicesStored
  BY <1>1 DEF ChoicesStored, Loaded, Live
<1> QED BY <1>2, <1>3 DEF ChoicesInv

(* Adding a user rule: its state comes from the choices stored under its   *)
(* name, and of the others nothing changes.                                *)
LEMMA AddKeepsChoices ==
  ASSUME ChoicesInv, NEW params \in UserRuleParams, AddUserRule(params)
  PROVE  ChoicesInv'
<1> DEFINE r == Len(userSets) + 1
           users == Append(userSets, params)
<1>1. /\ userSets' = users /\ UNCHANGED <<prefs, unstored>>
      /\ active' = [x \in Live \cup {r} |->
                      IF x = r THEN InitialState(RuleSet(r, users), prefs) ELSE active[x]]
      /\ userRules' \in {userRules, Append(userRules, params)}
  BY DEF AddUserRule
<1>2. Numbered
  BY DEF ChoicesInv
<1>3. DOMAIN users = DOMAIN userSets \cup {r} /\ r \in Nat /\ r \notin DOMAIN userSets
  BY <1>2 DEF Numbered
<1>4. Live' = Live \cup {r} /\ r \notin Live
  BY <1>1, <1>3, BuiltinNames DEF Live
<1>5. Numbered'
  <2>1. userSets \in Seq(UserRuleParams) /\ userRules \in Seq(UserRuleParams) /\ unstored \subseteq Live
    BY <1>2 DEF Numbered
  <2>2. users \in Seq(UserRuleParams) /\ Append(userRules, params) \in Seq(UserRuleParams)
    BY <2>1
  <2>3. userSets' \in Seq(UserRuleParams) /\ userRules' \in Seq(UserRuleParams)
    BY <1>1, <2>1, <2>2
  <2>4. DOMAIN active' = Live' /\ unstored' \subseteq Live'
    BY <1>1, <1>4, <2>1
  <2> QED BY <2>3, <2>4 DEF Numbered
<1>6. ASSUME NEW x \in Live', x \notin unstored'
      PROVE  active'[x] = InitialState(RuleSet(x, userSets)', prefs')
  <2>1. CASE x = r
    BY <1>1, <2>1
  <2>2. CASE x \in Live
    <3>1. active[x] = InitialState(RuleSet(x, userSets), prefs)
      BY <1>1, <1>6, <2>2 DEF ChoicesInv, ChoicesStored
    <3>2. RuleSet(x, userSets)' = RuleSet(x, userSets)
      BY <1>1, <1>2, <2>2, AppendKeepsRuleSets DEF Numbered
    <3> QED BY <1>1, <1>4, <2>2, <3>1, <3>2
  <2> QED BY <1>4, <2>1, <2>2
<1> QED BY <1>5, <1>6 DEF ChoicesInv, ChoicesStored

(* A click on a ruleset's line stores or forgets the choice of its name,   *)
(* or the store throws and the ruleset is itself unstored; of a ruleset of *)
(* another name neither says anything.                                     *)
LEMMA ToggleKeepsChoices ==
  ASSUME ChoicesInv, NEW r \in Live, Toggle(r)
  PROVE  ChoicesInv'
<1> DEFINE set == RuleSet(r, userSets)
           checked == ~active[r]
<1>1. /\ UNCHANGED <<userSets, userRules>>
      /\ active' = [active EXCEPT ![r] = checked]
      /\ \/ /\ unstored' = (unstored \ {r}) \cup Namesakes(r)
            /\ checked # set.default =>
                 prefs' = [n \in DOMAIN prefs \cup {set.name} |->
                             IF n = set.name THEN checked ELSE prefs[n]]
            /\ checked = set.default => prefs' = Restrict(prefs, DOMAIN prefs \ {set.name})
         \/ unstored' = unstored \cup {r} /\ prefs' = prefs
  BY DEF Toggle, StoredChoices
<1>2. Live' = Live /\ \A x : RuleSet(x, userSets)' = RuleSet(x, userSets) /\ Name(x)' = Name(x)
  BY <1>1 DEF Live, Name, RuleSet
<1>3. Numbered'
  BY <1>1, <1>2 DEF Numbered, ChoicesInv, Namesakes
<1>4. ASSUME NEW x \in Live, x \notin unstored'
      PROVE  active'[x] = InitialState(RuleSet(x, userSets), prefs')
  <2>1. CASE x = r
    <3>1. prefs' = IF checked # set.default
                   THEN [n \in DOMAIN prefs \cup {set.name} |->
                           IF n = set.name THEN checked ELSE prefs[n]]
                   ELSE Restrict(prefs, DOMAIN prefs \ {set.name})
      BY <1>1, <1>4, <2>1
    <3> QED BY <1>1, <2>1, <3>1 DEF InitialState, Restrict, ChoicesInv, Numbered
  <2>2. CASE x # r
    <3>1. x \notin unstored /\ (prefs' = prefs \/ RuleSet(x, userSets).name # set.name)
      BY <1>1, <1>4, <2>2 DEF Namesakes, Name
    <3>2. InitialState(RuleSet(x, userSets), prefs') = InitialState(RuleSet(x, userSets), prefs)
      BY <1>1, <3>1 DEF InitialState, Restrict
    <3>3. active'[x] = active[x]
      BY <1>1, <2>2 DEF ChoicesInv, Numbered
    <3> QED BY <1>4, <3>1, <3>2, <3>3 DEF ChoicesInv, ChoicesStored
  <2> QED BY <2>1, <2>2
<1>5. ChoicesStored'
  BY <1>2, <1>4 DEF ChoicesStored
<1> QED BY <1>3, <1>5 DEF ChoicesInv

(* Steps that touch neither the rulesets nor the choices.                  *)
LEMMA SameChoices ==
  ASSUME ChoicesInv, UNCHANGED <<userSets, userRules, active, prefs, unstored>>
  PROVE  ChoicesInv'
BY DEF ChoicesInv, Numbered, ChoicesStored, Live, RuleSet

(* Every step keeps stored choices and running states together.            *)
LEMMA ChoicesInvNext == ChoicesInv /\ [Next]_vars => ChoicesInv'
<1> SUFFICES ASSUME ChoicesInv, [Next]_vars PROVE ChoicesInv'
  OBVIOUS
<1>1. ASSUME NEW h \in Host, Lookup(h) PROVE ChoicesInv'
  BY <1>1, SameChoices DEF Lookup, storage
<1>2. ASSUME NEW h \in Host, CheckCookieHost(h) PROVE ChoicesInv'
  BY <1>2, SameChoices DEF CheckCookieHost, storage
<1>3. ASSUME NEW h \in Host, BlacklistDomain(h) PROVE ChoicesInv'
  BY <1>3, SameChoices DEF BlacklistDomain, storage
<1>4. ASSUME NEW params \in UserRuleParams, AddUserRule(params) PROVE ChoicesInv'
  BY <1>4, AddKeepsChoices
<1>5. ASSUME NEW r \in Live, Toggle(r) PROVE ChoicesInv'
  BY <1>5, ToggleKeepsChoices
<1>6. CASE Reload
  <2>1. /\ userSets' = userRules /\ active' = Loaded(userRules, prefs)
        /\ UNCHANGED <<prefs, userRules>> /\ unstored' = {}
    BY <1>6 DEF Reload, storage
  <2>2. Live' = Builtin \cup DOMAIN userRules
    BY <2>1 DEF Live
  <2>3. Numbered'
    BY <2>1, <2>2 DEF Numbered, ChoicesInv, Loaded
  <2>4. \A x \in Live' : active'[x] = InitialState(RuleSet(x, userSets)', prefs')
    BY <2>1, <2>2 DEF Loaded
  <2> QED BY <2>3, <2>4 DEF ChoicesInv, ChoicesStored
<1>7. CASE UNCHANGED vars
  BY <1>7, SameChoices DEF vars, memory, storage
<1> QED BY <1>1, <1>2, <1>3, <1>4, <1>5, <1>6, <1>7 DEF Next

(* localStorage and the running ruleset always agree on whether it is on,  *)
(* but where the ruleset's own last choice could not be stored or has been *)
(* overwritten by that of a namesake (popup.js 16-28, rules.js 163-179 and *)
(* 185-205).                                                               *)
THEOREM ChoicesAreStored == Spec => []ChoicesStored
<1>1. ChoicesInv => ChoicesStored
  BY DEF ChoicesInv
<1> QED BY ChoicesInvInit, ChoicesInvNext, <1>1, PTL DEF Spec

-----------------------------------------------------------------------------
(* The index of targets, built by one push per user rule.                  *)

Indexes(R) == UNION {[K -> Seq(R)] : K \in SUBSET Keys}

LEMMA IndexMeans ==
  ASSUME NEW R, NEW f
  PROVE  f \in Indexes(R) <=> DOMAIN f \subseteq Keys /\ f \in [DOMAIN f -> Seq(R)]
<1>1. ASSUME f \in Indexes(R) PROVE DOMAIN f \subseteq Keys /\ f \in [DOMAIN f -> Seq(R)]
  BY <1>1 DEF Indexes
<1>2. ASSUME DOMAIN f \subseteq Keys, f \in [DOMAIN f -> Seq(R)] PROVE f \in Indexes(R)
  BY <1>2 DEF Indexes
<1> QED BY <1>1, <1>2

LEMMA WiderSeq == ASSUME NEW R, NEW S, R \subseteq S PROVE Seq(R) \subseteq Seq(S)
<1>1. ASSUME NEW q \in Seq(R) PROVE q \in Seq(S)
  <2>1. q = [i \in 1 .. Len(q) |-> q[i]] /\ Len(q) \in Nat /\ \A i \in 1 .. Len(q) : q[i] \in S
    OBVIOUS
  <2> QED BY <2>1
<1> QED BY <1>1

LEMMA WiderIndexes == ASSUME NEW R, NEW S, R \subseteq S PROVE Indexes(R) \subseteq Indexes(S)
<1>1. Seq(R) \subseteq Seq(S)
  BY WiderSeq
<1>2. ASSUME NEW f \in Indexes(R) PROVE f \in Indexes(S)
  <2>1. DOMAIN f \subseteq Keys /\ f \in [DOMAIN f -> Seq(R)]
    BY IndexMeans
  <2>2. f \in [DOMAIN f -> Seq(S)]
    BY <1>1, <2>1
  <2> QED BY <2>1, <2>2, IndexMeans
<1> QED BY <1>2

LEMMA PushIndexes ==
  ASSUME NEW R, NEW index \in Indexes(R), NEW key \in Keys, NEW r \in R
  PROVE  Push(index, key, r) \in Indexes(R)
<1> DEFINE new == Push(index, key, r)
<1>1. DOMAIN index \subseteq Keys /\ index \in [DOMAIN index -> Seq(R)]
  BY IndexMeans
<1>2. new = [t \in DOMAIN index \cup {key} |->
               IF t # key THEN index[t] ELSE IF key \in DOMAIN index THEN Append(index[key], r) ELSE <<r>>]
  BY DEF Push
<1> HIDE DEF new
<1>3. ASSUME NEW t \in DOMAIN new PROVE new[t] \in Seq(R)
  <2>1. CASE t # key
    BY <1>1, <1>2, <2>1
  <2>2. CASE t = key /\ key \in DOMAIN index
    <3>1. index[key] \in Seq(R)
      BY <1>1, <2>2
    <3>2. Append(index[key], r) \in Seq(R)
      BY <3>1
    <3> QED BY <1>2, <2>2, <3>2
  <2>3. CASE t = key /\ key \notin DOMAIN index
    <3>1. <<r>> \in Seq(R)
      OBVIOUS
    <3> QED BY <1>2, <2>3, <3>1
  <2> QED BY <2>1, <2>2, <2>3
<1>4. DOMAIN new \subseteq Keys /\ new \in [DOMAIN new -> Seq(R)]
  BY <1>1, <1>2, <1>3
<1>5. new \in Indexes(R)
  BY <1>4, IndexMeans
<1> QED BY <1>5 DEF new

LEMMA BuiltinIndexes == BuiltinIndex \in Indexes(Builtin)
<1>1. DOMAIN BuiltinIndex \subseteq Keys
  BY DEF Keys
<1>2. \A t : Declaring(t, BuiltinOrder, [r \in Builtin |-> BuiltinRules[r].targets]) \in Seq(Builtin)
  BY BuiltinTypes, DeclaringLists
<1>3. BuiltinIndex \in [DOMAIN BuiltinIndex -> Seq(Builtin)]
  BY <1>2 DEF BuiltinIndex
<1> QED BY <1>1, <1>3, IndexMeans

(* The index after each user rule is loaded.                               *)
LoadPasses(stored, h) ==
  /\ h[0] = BuiltinIndex
  /\ \A k \in 0 .. Len(stored) :
       k < Len(stored) => h[k + 1] = Push(h[k], UserRule[stored[k + 1]].host, k + 1)
  /\ h[Len(stored)] = LoadedIndex(stored)

LEMMA LoadLoop ==
  ASSUME NEW stored \in Seq(UserRuleParams)
  PROVE  \E h : LoadPasses(stored, h)
<1> DEFINE n == Len(stored)
           D == Indexes(Builtin \cup 1 .. n)
           Host_(i) == UserRule[stored[i]].host
           F == [p \in D \X (1 .. n) |-> Push(p[1], Host_(p[2]), p[2])]
           ids == [i \in DOMAIN stored |-> i]
           Eqn(g) == g = [s \in SUBSET DOMAIN ids |->
                            IF s = {} THEN BuiltinIndex
                            ELSE Push(g[s \ {Max(s)}], Host_(ids[Max(s)]), ids[Max(s)])]
           it == CHOOSE g : Eqn(g)
           h == [k \in 0 .. n |-> it[1 .. k]]
<1>0. n \in Nat /\ DOMAIN stored = 1 .. n /\ \A i \in 1 .. n : stored[i] \in UserRuleParams
  OBVIOUS
<1>a. DOMAIN ids = 1 .. n /\ \A i \in 1 .. n : ids[i] = i
  BY <1>0
<1>1. F \in [D \X (1 .. n) -> D]
  <2>1. ASSUME NEW d \in D, NEW i \in 1 .. n PROVE Push(d, Host_(i), i) \in D
    <3>1. Host_(i) \in Keys
      BY <1>0 DEF Keys
    <3>2. i \in Builtin \cup 1 .. n
      OBVIOUS
    <3> HIDE DEF Host_
    <3> QED BY <3>1, <3>2, PushIndexes
  <2> QED BY <2>1
<1>2. \E g : Eqn(g)
  <2> HIDE DEF F, D, ids, Host_
  <2>1. PICK g : IsFoldTable(g, n, D, BuiltinIndex, F)
    <3>1. BuiltinIndex \in D
      BY BuiltinIndexes, WiderIndexes DEF D
    <3> HIDE DEF n
    <3> QED BY <1>0, <1>1, <3>1, FoldTable, Zenon
  <2>2. ASSUME NEW s \in SUBSET (1 .. n), s # {}
        PROVE  g[s] = Push(g[s \ {Max(s)}], Host_(ids[Max(s)]), ids[Max(s)])
    <3>1. Max(s) \in 1 .. n /\ s \ {Max(s)} \in SUBSET (1 .. n)
      <4>2. Max(s) \in s
        BY <1>0, <2>2, MaxIsMember, Zenon
      <4> QED BY <4>2
    <3>2. g[s \ {Max(s)}] \in D
      BY <2>1, <3>1 DEF IsFoldTable
    <3>3. F[<<g[s \ {Max(s)}], Max(s)>>] = Push(g[s \ {Max(s)}], Host_(Max(s)), Max(s))
      BY <3>1, <3>2 DEF F
    <3>4. ids[Max(s)] = Max(s)
      BY <1>a, <3>1
    <3> QED BY <2>1, <2>2, <3>3, <3>4 DEF IsFoldTable
  <2>4. Eqn(g)
    BY <1>a, <2>1, <2>2 DEF IsFoldTable
  <2> QED BY <2>4
<1>3. Eqn(it)
  <2> HIDE DEF Eqn
  <2> QED BY <1>2
<1>4. LoadedIndex(stored) = it[DOMAIN ids]
  BY Zenon DEF LoadedIndex, FoldLeftDomain, FoldLeft, MapThenFoldSet
<1> HIDE DEF it, ids
<1>6. h[0] = BuiltinIndex
  <2>1. 1 .. 0 = {} /\ 0 \in 0 .. n
    BY <1>0
  <2> QED BY <1>3, <2>1
<1>7. ASSUME NEW k \in 0 .. n, k < n
      PROVE  h[k + 1] = Push(h[k], Host_(k + 1), k + 1)
  <2>1. Max(1 .. k + 1) = k + 1
    BY <1>0, MaxOfInterval
  <2>2. /\ 1 .. k + 1 \in SUBSET DOMAIN ids /\ 1 .. k + 1 # {}
        /\ (1 .. k + 1) \ {k + 1} = 1 .. k
    <3>1. 1 .. k + 1 \subseteq 1 .. n /\ k + 1 \in 1 .. k + 1
      BY <1>0, <1>7
    <3>2. (1 .. k + 1) \ {k + 1} = 1 .. k
      BY <1>0, <1>7
    <3> QED BY <1>a, <3>1, <3>2
  <2>3. ids[k + 1] = k + 1
    BY <1>0, <1>a, <1>7
  <2> HIDE DEF Host_
  <2>4. it[1 .. k + 1] = Push(it[1 .. k], Host_(k + 1), k + 1)
    BY <1>3, <2>1, <2>2, <2>3
  <2>5. k + 1 \in 0 .. n
    BY <1>0, <1>7
  <2> QED BY <2>4, <2>5
<1>8. h[n] = LoadedIndex(stored)
  BY <1>0, <1>a, <1>4
<1> HIDE DEF h
<1>9. LoadPasses(stored, h)
  BY <1>6, <1>7, <1>8 DEF LoadPasses
<1> QED BY <1>9


(* Rulesets declared by the database and, behind them, the user rules.     *)
LEMMA LoadedIndexes ==
  ASSUME NEW stored \in Seq(UserRuleParams)
  PROVE  LoadedIndex(stored) \in Indexes(Builtin \cup DOMAIN stored)
<1> DEFINE n == Len(stored)
           R == Builtin \cup DOMAIN stored
<1>1. PICK h : LoadPasses(stored, h)
  BY LoadLoop
<1> DEFINE T == {k \in 0 .. n : h[k] \in Indexes(R)}
<1>2. n \in Nat /\ DOMAIN stored = 1 .. n /\ \A i \in 1 .. n : stored[i] \in UserRuleParams
  OBVIOUS
<1>3. 0 \in T
  BY <1>1, <1>2, BuiltinIndexes, WiderIndexes DEF LoadPasses
<1>4. ASSUME NEW k \in 0 .. n, k < n /\ k \in T PROVE k + 1 \in T
  <2>1. k + 1 \in 1 .. n /\ k + 1 \in 0 .. n
    BY <1>2, <1>4
  <2>2. h[k + 1] = Push(h[k], UserRule[stored[k + 1]].host, k + 1)
    BY <1>1, <1>4 DEF LoadPasses
  <2>3. UserRule[stored[k + 1]].host \in Keys /\ k + 1 \in R
    BY <1>2, <2>1 DEF Keys
  <2> QED BY <1>4, <2>1, <2>2, <2>3, PushIndexes
<1>5. n \in T
  <2>1. n \in 0 .. n
    BY <1>2
  <2> HIDE DEF T, n
  <2> QED BY <1>2, <1>3, <1>4, <2>1, Counting
<1> QED BY <1>1, <1>5 DEF LoadPasses

(* Loading one more user rule is one more push.                            *)
LEMMA LoadedOneMore ==
  ASSUME NEW stored \in Seq(UserRuleParams), NEW params \in UserRuleParams
  PROVE  LoadedIndex(Append(stored, params)) =
           Push(LoadedIndex(stored), UserRule[params].host, Len(stored) + 1)
<1> DEFINE n == Len(stored)
           longer == Append(stored, params)
<1>1. /\ longer \in Seq(UserRuleParams) /\ Len(longer) = n + 1 /\ n \in Nat
      /\ longer[n + 1] = params /\ \A i \in 1 .. n : longer[i] = stored[i]
  OBVIOUS
<1> HIDE DEF longer
<1>2. PICK g : LoadPasses(stored, g)
  BY LoadLoop
<1>3. PICK h : LoadPasses(longer, h)
  BY <1>1, LoadLoop
<1> DEFINE T == {k \in 0 .. n : h[k] = g[k]}
<1>4. 0 \in T
  BY <1>1, <1>2, <1>3 DEF LoadPasses
<1>5. ASSUME NEW k \in 0 .. n, k < n /\ k \in T PROVE k + 1 \in T
  <2>1. k + 1 \in 1 .. n /\ k + 1 \in 0 .. n /\ k \in 0 .. n + 1 /\ k < n + 1
    BY <1>1, <1>5
  <2>2. h[k + 1] = Push(h[k], UserRule[longer[k + 1]].host, k + 1)
    BY <1>1, <1>3, <2>1 DEF LoadPasses
  <2>3. g[k + 1] = Push(g[k], UserRule[stored[k + 1]].host, k + 1)
    BY <1>2, <1>5 DEF LoadPasses
  <2> QED BY <1>1, <1>5, <2>1, <2>2, <2>3
<1>6. n \in T
  <2>1. n \in 0 .. n
    BY <1>1
  <2> HIDE DEF T, n
  <2> QED BY <1>1, <1>4, <1>5, <2>1, Counting
<1>7. h[n] = LoadedIndex(stored)
  BY <1>2, <1>6 DEF LoadPasses
<1>8. h[n + 1] = Push(h[n], UserRule[params].host, n + 1)
  <2>1. n \in 0 .. n + 1 /\ n < n + 1
    BY <1>1
  <2> HIDE DEF n
  <2> QED BY <1>1, <1>3, <2>1 DEF LoadPasses
<1>9. h[n + 1] = LoadedIndex(longer)
  BY <1>1, <1>3 DEF LoadPasses
<1> QED BY <1>7, <1>8, <1>9 DEF longer

-----------------------------------------------------------------------------
(* Types.                                                                  *)

(* The rulesets of the probed keys, merged, are live rulesets.             *)
LEMMA ApplicableTyped ==
  ASSUME targets \in Indexes(Live), NEW h \in Host
  PROVE  ComputeApplicable(h) \in Seq(Live)
<1> DEFINE p == Probes(h)
           lists == [i \in DOMAIN p |-> Indexed(p[i])]
<1>1. p \in Seq(Seq(Range(h) \cup {Star})) /\ p # <<>>
  BY HostNames, ProbesContain
<1> HIDE DEF p
<1>2. DOMAIN p = 1 .. Len(p) /\ Len(p) \in Nat /\ 1 \in DOMAIN p
  BY <1>1
<1>3. \A i \in DOMAIN p : Indexed(p[i]) \in Seq(Live)
  <2>1. targets \in [DOMAIN targets -> Seq(Live)] /\ <<>> \in Seq(Live)
    BY IndexMeans
  <2> QED BY <2>1 DEF Indexed
<1>4. lists \in [1 .. Len(p) -> Seq(Live)]
  BY <1>2, <1>3
<1>5. lists \in Seq(Seq(Live)) /\ Len(lists) = Len(p)
  <2> HIDE DEF lists
  <2> QED BY <1>2, <1>4, FunctionIsSeq
<1>6. lists # <<>>
  BY <1>2
<1>7. Merge(lists) \in Seq(Live)
  <2> HIDE DEF lists
  <2> QED BY <1>5, <1>6, MergeGains
<1>8. ComputeApplicable(h) = Merge(lists)
  BY DEF ComputeApplicable, lists, p
<1> QED BY <1>7, <1>8

(* The fields of a cache.                                                  *)
Shape(c, limit) == DOMAIN c = {"limit", "order", "val"} /\ c.limit = limit

(* A map from hosts to values.                                             *)
Memo(m, V) == DOMAIN m \subseteq Host /\ m \in [DOMAIN m -> V]

TypeInv ==
  /\ targets \in Indexes(Live) /\ Numbered /\ active \in [Live -> BOOLEAN]
  /\ Shape(ruleCache, RuleCacheLimit) /\ Memo(ruleCache.val, Seq(Live))
  /\ Shape(cookieHostCache, CookieCacheLimit) /\ Memo(cookieHostCache.val, BOOLEAN)
  /\ domainBlacklist \subseteq Host
  /\ DOMAIN prefs \subseteq Names /\ prefs \in [DOMAIN prefs -> BOOLEAN]

(* What each use of a cache does to its fields.                            *)
LEMMA CacheUse ==
  ASSUME NEW c, NEW limit, NEW V, Shape(c, limit), Memo(c.val, V), NEW k, NEW v
  PROVE  /\ Shape(RuleCache!Touch(c, k), limit) /\ Memo(RuleCache!Touch(c, k).val, V)
         /\ Shape(RuleCache!Drop(c, k), limit) /\ Memo(RuleCache!Drop(c, k).val, V)
         /\ k \in Host /\ v \in V =>
              Shape(RuleCache!Store(c, k, v), limit) /\ Memo(RuleCache!Store(c, k, v).val, V)
<1> USE DEF Shape, Memo
<1>1. Shape(RuleCache!Touch(c, k), limit) /\ Memo(RuleCache!Touch(c, k).val, V)
  BY DEF RuleCache!Touch
<1>2. Shape(RuleCache!Drop(c, k), limit) /\ Memo(RuleCache!Drop(c, k).val, V)
  BY DEF RuleCache!Drop, RuleCache!Restrict
<1>3. ASSUME k \in Host, v \in V
      PROVE  Shape(RuleCache!Store(c, k, v), limit) /\ Memo(RuleCache!Store(c, k, v).val, V)
  BY <1>3 DEF RuleCache!Store
<1> QED BY <1>1, <1>2, <1>3

LEMMA CookieCacheUse ==
  ASSUME NEW c, NEW limit, NEW V, Shape(c, limit), Memo(c.val, V), NEW k, NEW v
  PROVE  /\ Shape(CookieHosts!Touch(c, k), limit) /\ Memo(CookieHosts!Touch(c, k).val, V)
         /\ k \in Host /\ v \in V =>
              Shape(CookieHosts!Store(c, k, v), limit) /\ Memo(CookieHosts!Store(c, k, v).val, V)
<1> USE DEF Shape, Memo
<1>1. Shape(CookieHosts!Touch(c, k), limit) /\ Memo(CookieHosts!Touch(c, k).val, V)
  BY DEF CookieHosts!Touch
<1>2. ASSUME k \in Host, v \in V
      PROVE  Shape(CookieHosts!Store(c, k, v), limit) /\ Memo(CookieHosts!Store(c, k, v).val, V)
  BY <1>2 DEF CookieHosts!Store
<1> QED BY <1>1, <1>2

(* A state computed from choices is on or off.                             *)
LEMMA InitialStateTyped ==
  ASSUME NEW users, NEW r \in Builtin \cup DOMAIN users,
         NEW choices, choices \in [DOMAIN choices -> BOOLEAN]
  PROVE  InitialState(RuleSet(r, users), choices) \in BOOLEAN
<1>1. CASE RuleSet(r, users).name \in DOMAIN choices
  BY <1>1 DEF InitialState
<1>2. CASE RuleSet(r, users).name \notin DOMAIN choices
  <2>1. InitialState(RuleSet(r, users), choices) = RuleSet(r, users).default
    BY <1>2 DEF InitialState
  <2>2. CASE r \in Builtin
    BY <2>1, <2>2, BuiltinTypes DEF RuleSet
  <2>3. CASE r \notin Builtin
    <3>1. RuleSet(r, users).default = TRUE
      BY <2>3 DEF RuleSet
    <3> QED BY <2>1, <3>1
  <2> QED BY <2>2, <2>3
<1> QED BY <1>1, <1>2

(* The name a choice is stored under is one of Names.                      *)
LEMMA LiveNames ==
  ASSUME userSets \in Seq(UserRuleParams), NEW r \in Live
  PROVE  RuleSet(r, userSets).name \in Names
<1>1. CASE r \in Builtin
  BY <1>1 DEF RuleSet, Names
<1>2. CASE r \notin Builtin
  <2>1. r \in DOMAIN userSets /\ userSets[r] \in UserRuleParams
    BY <1>2 DEF Live
  <2>2. RuleSet(r, userSets).name = UserRule[userSets[r]].host
    BY <1>2 DEF RuleSet
  <2> QED BY <2>1, <2>2 DEF Names
<1> QED BY <1>1, <1>2

(* The caches of a background page just started.                           *)
LEMMA EmptyCaches ==
  /\ Shape(RuleCache!EmptyCache(RuleCacheLimit), RuleCacheLimit)
  /\ \A V : Memo(RuleCache!EmptyCache(RuleCacheLimit).val, V)
  /\ Shape(CookieHosts!EmptyCache(CookieCacheLimit), CookieCacheLimit)
  /\ \A V : Memo(CookieHosts!EmptyCache(CookieCacheLimit).val, V)
BY DEF Shape, Memo, RuleCache!EmptyCache, CookieHosts!EmptyCache

LEMMA LoadedTyped ==
  ASSUME NEW users, NEW choices, choices \in [DOMAIN choices -> BOOLEAN]
  PROVE  Loaded(users, choices) \in [Builtin \cup DOMAIN users -> BOOLEAN]
BY InitialStateTyped DEF Loaded

LEMMA TypeInit == Init => TypeInv
<1> SUFFICES ASSUME Init PROVE TypeInv
  OBVIOUS
<1>1. /\ userSets = <<>> /\ prefs = << >> /\ active = Loaded(<<>>, << >>)
      /\ targets = BuiltinIndex /\ domainBlacklist = {}
      /\ ruleCache = RuleCache!EmptyCache(RuleCacheLimit)
      /\ cookieHostCache = CookieHosts!EmptyCache(CookieCacheLimit)
  BY DEF Init
<1>2. Numbered
  BY ChoicesInvInit DEF ChoicesInv
<1>3. Live = Builtin \cup DOMAIN <<>> /\ Builtin \subseteq Live
  BY <1>1 DEF Live
<1>4. targets \in Indexes(Live)
  BY <1>1, <1>3, BuiltinIndexes, WiderIndexes
<1>5. DOMAIN prefs \subseteq Names /\ prefs \in [DOMAIN prefs -> BOOLEAN]
  BY <1>1
<1>6. active \in [Live -> BOOLEAN]
  BY <1>1, <1>3, <1>5, LoadedTyped
<1> QED BY <1>1, <1>2, <1>4, <1>5, <1>6, EmptyCaches DEF TypeInv

(* A lookup.                                                               *)
LEMMA CacheAfterTyped ==
  ASSUME TypeInv, NEW h \in Host
  PROVE  Shape(CacheAfter(h), RuleCacheLimit) /\ Memo(CacheAfter(h).val, Seq(Live))
<1>1. ComputeApplicable(h) \in Seq(Live)
  BY ApplicableTyped DEF TypeInv
<1>2. Shape(ruleCache, RuleCacheLimit) /\ Memo(ruleCache.val, Seq(Live))
  BY DEF TypeInv
<1> QED BY <1>1, <1>2, CacheUse DEF CacheAfter

(* Deciding about a cookie's host.                                         *)
LEMMA SecureEffectTyped ==
  ASSUME TypeInv, NEW h \in Host, SecureEffect(h)
  PROVE  /\ Shape(ruleCache', RuleCacheLimit) /\ Memo(ruleCache'.val, Seq(Live))
         /\ Shape(cookieHostCache', CookieCacheLimit) /\ Memo(cookieHostCache'.val, BOOLEAN)
<1>1. ruleCache' = ruleCache \/ ruleCache' = CacheAfter(h)
  BY DEF SecureEffect, SafeEffect
<1>2. \/ cookieHostCache' = cookieHostCache
      \/ cookieHostCache' = CookieHosts!Touch(cookieHostCache, h)
      \/ cookieHostCache' = CookieHosts!Store(cookieHostCache, h, WouldRewrite(h))
  BY DEF SecureEffect, SafeEffect
<1>3. WouldRewrite(h) \in BOOLEAN
  BY DEF WouldRewrite
<1>4. /\ Shape(ruleCache, RuleCacheLimit) /\ Memo(ruleCache.val, Seq(Live))
      /\ Shape(cookieHostCache, CookieCacheLimit) /\ Memo(cookieHostCache.val, BOOLEAN)
  BY DEF TypeInv
<1>5. Shape(ruleCache', RuleCacheLimit) /\ Memo(ruleCache'.val, Seq(Live))
  BY <1>1, <1>4, CacheAfterTyped
<1>6. Shape(cookieHostCache', CookieCacheLimit) /\ Memo(cookieHostCache'.val, BOOLEAN)
  <2> HIDE DEF WouldRewrite
  <2>1. CASE cookieHostCache' = cookieHostCache
    BY <1>4, <2>1
  <2>2. CASE cookieHostCache' = CookieHosts!Touch(cookieHostCache, h)
    BY <1>4, <2>2, CookieCacheUse
  <2>3. CASE cookieHostCache' = CookieHosts!Store(cookieHostCache, h, WouldRewrite(h))
    BY <1>3, <1>4, <2>3, CookieCacheUse
  <2> QED BY <1>2, <2>1, <2>2, <2>3
<1> QED BY <1>5, <1>6

(* addUserRule makes one more ruleset live.                                *)
LEMMA AddTyped ==
  ASSUME TypeInv, NEW params \in UserRuleParams, AddUserRule(params)
  PROVE  TypeInv'
<1> DEFINE r == Len(userSets) + 1
           users == Append(userSets, params)
           host == UserRule[params].host
<1>1. /\ userSets' = users /\ UNCHANGED <<cookieHostCache, domainBlacklist, prefs, unstored>>
      /\ targets' = Push(targets, host, r)
      /\ ruleCache' = RuleCache!Drop(ruleCache, host)
      /\ active' = [x \in Live \cup {r} |->
                      IF x = r THEN InitialState(RuleSet(r, users), prefs) ELSE active[x]]
      /\ userRules' \in {userRules, Append(userRules, params)}
  BY DEF AddUserRule, Purged
<1>2. /\ targets \in Indexes(Live) /\ active \in [Live -> BOOLEAN]
      /\ Shape(ruleCache, RuleCacheLimit) /\ Memo(ruleCache.val, Seq(Live))
      /\ Shape(cookieHostCache, CookieCacheLimit) /\ Memo(cookieHostCache.val, BOOLEAN)
      /\ domainBlacklist \subseteq Host
      /\ DOMAIN prefs \subseteq Names /\ prefs \in [DOMAIN prefs -> BOOLEAN]
      /\ userSets \in Seq(UserRuleParams) /\ userRules \in Seq(UserRuleParams)
      /\ unstored \subseteq Live
  BY DEF TypeInv, Numbered
<1>3. /\ DOMAIN users = DOMAIN userSets \cup {r} /\ users \in Seq(UserRuleParams)
      /\ Append(userRules, params) \in Seq(UserRuleParams)
  BY <1>2
<1>4. Live' = Live \cup {r}
  BY <1>1, <1>3 DEF Live
<1> HIDE DEF r, users, host
<1>5. targets' \in Indexes(Live')
  <2>1. targets \in Indexes(Live') /\ r \in Live'
    BY <1>2, <1>4, WiderIndexes
  <2>2. host \in Keys
    BY DEF Keys, host
  <2> QED BY <1>1, <2>1, <2>2, PushIndexes
<1>6. active' \in [Live' -> BOOLEAN]
  <2>1. r \in Builtin \cup DOMAIN users
    BY <1>3
  <2>2. InitialState(RuleSet(r, users), prefs) \in BOOLEAN
    BY <1>2, <2>1, InitialStateTyped
  <2> QED BY <1>1, <1>2, <1>4, <2>2
<1>7. Shape(ruleCache', RuleCacheLimit) /\ Memo(ruleCache'.val, Seq(Live'))
  <2>1. Shape(ruleCache', RuleCacheLimit) /\ Memo(ruleCache'.val, Seq(Live))
    BY <1>1, <1>2, CacheUse
  <2>2. Seq(Live) \subseteq Seq(Live')
    BY <1>4, WiderSeq
  <2> QED BY <2>1, <2>2 DEF Memo
<1>8. Numbered'
  BY <1>1, <1>2, <1>3, <1>6 DEF Numbered
<1> QED BY <1>1, <1>2, <1>5, <1>6, <1>7, <1>8 DEF TypeInv

(* A click on a ruleset's line.                                            *)
LEMMA ToggleTyped ==
  ASSUME TypeInv, NEW r \in Live, Toggle(r)
  PROVE  TypeInv'
<1> DEFINE set == RuleSet(r, userSets)
           checked == ~active[r]
<1>1. /\ UNCHANGED <<targets, userSets, cookieHostCache, domainBlacklist, userRules>>
      /\ active' = [active EXCEPT ![r] = checked]
      /\ prefs' = StoredChoices(set, checked) \/ prefs' = prefs
      /\ unstored' \in {(unstored \ {r}) \cup Namesakes(r), unstored \cup {r}}
      /\ ruleCache' = ruleCache \/ ruleCache' = RuleCache!Drop(ruleCache, set.name)
  BY DEF Toggle
<1>2. Live' = Live
  BY <1>1 DEF Live
<1>3. /\ active \in [Live -> BOOLEAN]
      /\ Shape(ruleCache, RuleCacheLimit) /\ Memo(ruleCache.val, Seq(Live))
      /\ DOMAIN prefs \subseteq Names /\ prefs \in [DOMAIN prefs -> BOOLEAN]
      /\ userSets \in Seq(UserRuleParams) /\ userRules \in Seq(UserRuleParams)
      /\ targets \in Indexes(Live)
      /\ Shape(cookieHostCache, CookieCacheLimit) /\ Memo(cookieHostCache.val, BOOLEAN)
      /\ domainBlacklist \subseteq Host
  BY DEF TypeInv, Numbered
<1>4. checked \in BOOLEAN /\ active' \in [Live -> BOOLEAN]
  BY <1>1, <1>3
<1>5. set.name \in Names
  BY <1>3, LiveNames
<1> HIDE DEF set, checked
<1>6. DOMAIN prefs' \subseteq Names /\ prefs' \in [DOMAIN prefs' -> BOOLEAN]
  <2> DEFINE stored == StoredChoices(set, checked)
  <2>1. DOMAIN stored \subseteq Names /\ stored \in [DOMAIN stored -> BOOLEAN]
    BY <1>3, <1>4, <1>5 DEF StoredChoices, Restrict
  <2> HIDE DEF stored
  <2>2. prefs' = stored \/ prefs' = prefs
    BY <1>1 DEF stored
  <2> QED BY <1>3, <2>1, <2>2
<1>7. Shape(ruleCache', RuleCacheLimit) /\ Memo(ruleCache'.val, Seq(Live))
  <2> DEFINE dropped == RuleCache!Drop(ruleCache, set.name)
  <2>1. Shape(dropped, RuleCacheLimit) /\ Memo(dropped.val, Seq(Live))
    BY <1>3, CacheUse
  <2> HIDE DEF dropped
  <2>2. ruleCache' = ruleCache \/ ruleCache' = dropped
    BY <1>1 DEF dropped
  <2> QED BY <1>3, <2>1, <2>2
<1>8. Numbered'
  <2>1. unstored \subseteq Live
    BY DEF TypeInv, Numbered
  <2> QED BY <1>1, <1>2, <1>3, <1>4, <2>1 DEF Numbered, Namesakes
<1>9. targets' \in Indexes(Live') /\ active' \in [Live' -> BOOLEAN]
  BY <1>1, <1>2, <1>3, <1>4
<1> QED BY <1>1, <1>2, <1>3, <1>6, <1>7, <1>8, <1>9 DEF TypeInv

LEMMA TypeNext == TypeInv /\ [Next]_vars => TypeInv'
<1> SUFFICES ASSUME TypeInv, [Next]_vars PROVE TypeInv'
  OBVIOUS
<1>0. ASSUME UNCHANGED <<targets, userSets, active, storage, unstored>>, domainBlacklist' \subseteq Host,
             Shape(ruleCache', RuleCacheLimit), Memo(ruleCache'.val, Seq(Live)),
             Shape(cookieHostCache', CookieCacheLimit), Memo(cookieHostCache'.val, BOOLEAN)
      PROVE  TypeInv'
  <2>1. Live' = Live
    BY <1>0 DEF Live
  <2> QED BY <1>0, <2>1 DEF TypeInv, Numbered, storage
<1>a. /\ Shape(ruleCache, RuleCacheLimit) /\ Memo(ruleCache.val, Seq(Live))
      /\ Shape(cookieHostCache, CookieCacheLimit) /\ Memo(cookieHostCache.val, BOOLEAN)
      /\ domainBlacklist \subseteq Host
  BY DEF TypeInv
<1>1. ASSUME NEW h \in Host, Lookup(h) PROVE TypeInv'
  BY <1>0, <1>1, <1>a, CacheAfterTyped DEF Lookup
<1>2. ASSUME NEW h \in Host, CheckCookieHost(h) PROVE TypeInv'
  BY <1>0, <1>2, <1>a, SecureEffectTyped DEF CheckCookieHost
<1>3. ASSUME NEW h \in Host, BlacklistDomain(h) PROVE TypeInv'
  BY <1>0, <1>3, <1>a, CacheAfterTyped DEF BlacklistDomain
<1>4. ASSUME NEW params \in UserRuleParams, AddUserRule(params) PROVE TypeInv'
  BY <1>4, AddTyped
<1>5. ASSUME NEW r \in Live, Toggle(r) PROVE TypeInv'
  BY <1>5, ToggleTyped
<1>6. CASE Reload
  <2>1. /\ targets' = LoadedIndex(userRules) /\ userSets' = userRules
        /\ active' = Loaded(userRules, prefs) /\ domainBlacklist' = {}
        /\ ruleCache' = RuleCache!EmptyCache(RuleCacheLimit)
        /\ cookieHostCache' = CookieHosts!EmptyCache(CookieCacheLimit)
        /\ UNCHANGED <<prefs, userRules>> /\ unstored' = {}
    BY <1>6 DEF Reload, storage
  <2>2. /\ userRules \in Seq(UserRuleParams)
        /\ DOMAIN prefs \subseteq Names /\ prefs \in [DOMAIN prefs -> BOOLEAN]
    BY DEF TypeInv, Numbered
  <2>3. Live' = Builtin \cup DOMAIN userRules
    BY <2>1 DEF Live
  <2>4. targets' \in Indexes(Live')
    BY <2>1, <2>2, <2>3, LoadedIndexes
  <2>5. active' \in [Live' -> BOOLEAN]
    BY <2>1, <2>2, <2>3, LoadedTyped
  <2>6. Numbered'
    BY <2>1, <2>2, <2>5 DEF Numbered
  <2> QED BY <2>1, <2>2, <2>4, <2>5, <2>6, EmptyCaches DEF TypeInv
<1>7. CASE UNCHANGED vars
  BY <1>0, <1>7, <1>a DEF vars, memory, storage
<1> QED BY <1>1, <1>2, <1>3, <1>4, <1>5, <1>6, <1>7 DEF Next

(* The index holds lists of live rulesets under known keys, the caches     *)
(* answers about hosts, and localStorage choices under known names         *)
(* (rules.js 128-139, 185-217 and 260-300).                                *)
THEOREM RuleStoreTyped == Spec => []TypeOK
<1>1. TypeInv => TypeOK
  <2> SUFFICES ASSUME TypeInv PROVE TypeOK
    OBVIOUS
  <2>1. DOMAIN targets \subseteq Keys /\ targets \in [DOMAIN targets -> Seq(Live)]
    BY IndexMeans DEF TypeInv
  <2> QED BY <2>1 DEF TypeInv, TypeOK, Numbered, Memo
<1> QED BY TypeInit, TypeNext, <1>1, PTL DEF Spec

-----------------------------------------------------------------------------
(* Both caches implement LRUContract: an answer is stored only after a     *)
(* miss, a key dropped is one that may be cached, a reload empties them.   *)

LEMMA LookupUses ==
  ASSUME TypeInv, NEW h \in Host, ruleCache' = CacheAfter(h)
  PROVE  RuleCache!Next
<1>1. CASE RuleCache!Has(ruleCache, h)
  <2>1. RuleCache!Lookup(h)
    BY <1>1 DEF CacheAfter, RuleCache!Lookup
  <2> QED BY <2>1 DEF RuleCache!Next
<1>2. CASE ~RuleCache!Has(ruleCache, h)
  <2> DEFINE v == ComputeApplicable(h)
  <2>1. ruleCache' = RuleCache!Store(ruleCache, h, v)
    BY <1>2 DEF CacheAfter
  <2>2. v \in Seq(Builtin \cup Nat)
    <3>1. Live \subseteq Builtin \cup Nat
      BY DEF TypeInv, Numbered, Live
    <3> QED BY <3>1, ApplicableTyped, WiderSeq DEF TypeInv
  <2> HIDE DEF v
  <2>3. h \in DOMAIN ruleCache'.val /\ ruleCache'.val[h] = v
    BY <2>1 DEF RuleCache!Store, TypeInv, Shape
  <2>4. RuleCache!Memoize(h)
    BY <1>2, <2>1, <2>2, <2>3 DEF RuleCache!Memoize
  <2> QED BY <2>4 DEF RuleCache!Next
<1> QED BY <1>1, <1>2

LEMMA RuleCacheSteps == TypeInv /\ [Next]_vars => [RuleCache!Next]_ruleCache
<1> SUFFICES ASSUME TypeInv, [Next]_vars PROVE RuleCache!Next \/ ruleCache' = ruleCache
  OBVIOUS
<1>1. ASSUME NEW h \in Host, Lookup(h) \/ BlacklistDomain(h) PROVE RuleCache!Next
  BY <1>1, LookupUses DEF Lookup, BlacklistDomain
<1>2. ASSUME NEW h \in Host, CheckCookieHost(h) PROVE RuleCache!Next \/ ruleCache' = ruleCache
  <2>1. ruleCache' = ruleCache \/ ruleCache' = CacheAfter(h)
    BY <1>2 DEF CheckCookieHost, SecureEffect, SafeEffect
  <2> QED BY <2>1, LookupUses
<1>3. ASSUME NEW k \in Names, ruleCache' = RuleCache!Drop(ruleCache, k) PROVE RuleCache!Next
  BY <1>3 DEF RuleCache!Next, RuleCache!Purge
<1>4. ASSUME NEW params \in UserRuleParams, AddUserRule(params) PROVE RuleCache!Next
  <2>1. UserRule[params].host \in Names
    BY DEF Names
  <2> QED BY <1>3, <1>4, <2>1 DEF AddUserRule, Purged
<1>5. ASSUME NEW r \in Live, Toggle(r) PROVE RuleCache!Next \/ ruleCache' = ruleCache
  <2>1. \/ ruleCache' = ruleCache
        \/ ruleCache' = RuleCache!Drop(ruleCache, RuleSet(r, userSets).name)
    BY <1>5 DEF Toggle
  <2>2. RuleSet(r, userSets).name \in Names
    BY LiveNames DEF TypeInv, Numbered
  <2> QED BY <1>3, <2>1, <2>2
<1>6. CASE Reload
  <2>1. ruleCache' = RuleCache!EmptyCache(ruleCache.limit)
    BY <1>6 DEF Reload, TypeInv, Shape
  <2> QED BY <2>1 DEF RuleCache!Next, RuleCache!Clear
<1>7. CASE UNCHANGED vars
  BY <1>7 DEF vars, memory
<1> QED BY <1>1, <1>2, <1>4, <1>5, <1>6, <1>7 DEF Next

LEMMA CookieCacheSteps == TypeInv /\ [Next]_vars => [CookieHosts!Next]_cookieHostCache
<1> SUFFICES ASSUME TypeInv, [Next]_vars
             PROVE  CookieHosts!Next \/ cookieHostCache' = cookieHostCache
  OBVIOUS
<1>1. ASSUME NEW h \in Host, CheckCookieHost(h)
      PROVE  CookieHosts!Next \/ cookieHostCache' = cookieHostCache
  <2>1. \/ cookieHostCache' = cookieHostCache
        \/ cookieHostCache' = CookieHosts!Touch(cookieHostCache, h)
        \/ /\ ~CookieHosts!Has(cookieHostCache, h)
           /\ cookieHostCache' = CookieHosts!Store(cookieHostCache, h, WouldRewrite(h))
    BY <1>1 DEF CheckCookieHost, SecureEffect, SafeEffect
  <2>2. CASE cookieHostCache' = CookieHosts!Touch(cookieHostCache, h)
    BY <2>2 DEF CookieHosts!Next, CookieHosts!Lookup
  <2>3. CASE /\ ~CookieHosts!Has(cookieHostCache, h)
             /\ cookieHostCache' = CookieHosts!Store(cookieHostCache, h, WouldRewrite(h))
    <3> DEFINE v == WouldRewrite(h)
    <3>1. v \in BOOLEAN
      BY DEF WouldRewrite
    <3> HIDE DEF v
    <3>2. cookieHostCache' = CookieHosts!Store(cookieHostCache, h, v)
      BY <2>3 DEF v
    <3>3. h \in DOMAIN cookieHostCache'.val /\ cookieHostCache'.val[h] = v
      BY <3>2 DEF CookieHosts!Store, TypeInv, Shape
    <3>4. CookieHosts!Memoize(h)
      BY <2>3, <3>1, <3>2, <3>3 DEF CookieHosts!Memoize
    <3> QED BY <3>4 DEF CookieHosts!Next
  <2> QED BY <2>1, <2>2, <2>3
<1>2. ASSUME NEW h \in Host, Lookup(h) \/ BlacklistDomain(h)
      PROVE  cookieHostCache' = cookieHostCache
  BY <1>2 DEF Lookup, BlacklistDomain
<1>3. ASSUME NEW params \in UserRuleParams, AddUserRule(params)
      PROVE  cookieHostCache' = cookieHostCache
  BY <1>3 DEF AddUserRule
<1>4. ASSUME NEW r \in Live, Toggle(r) PROVE cookieHostCache' = cookieHostCache
  BY <1>4 DEF Toggle
<1>5. CASE Reload
  <2>1. cookieHostCache' = CookieHosts!EmptyCache(cookieHostCache.limit)
    BY <1>5 DEF Reload, TypeInv, Shape
  <2> QED BY <2>1 DEF CookieHosts!Next, CookieHosts!Clear
<1>6. CASE UNCHANGED vars
  BY <1>6 DEF vars, memory
<1> QED BY <1>1, <1>2, <1>3, <1>4, <1>5, <1>6 DEF Next

(* For every database of rulesets and every capacity, rules.js uses its    *)
(* two caches as LRUContract allows (rules.js 263-298 and 355-380).        *)
THEOREM CachesAreUsedAsLRU == Spec => CacheDiscipline
<1>1. Init => RuleCache!Init /\ CookieHosts!Init
  <2>1. RuleCacheLimit \in 1 .. RuleCacheLimit /\ CookieCacheLimit \in 1 .. CookieCacheLimit
    BY CacheLimits
  <2> QED BY <2>1 DEF Init, RuleCache!Init, CookieHosts!Init
<1> QED BY <1>1, TypeInit, TypeNext, RuleCacheSteps, CookieCacheSteps, PTL
        DEF Spec, CacheDiscipline, RuleCache!Spec, CookieHosts!Spec

-----------------------------------------------------------------------------
(* A reload builds the index again from the user rules that were saved: as *)
(* the running index is always what loading the user rules made so far     *)
(* would give, nothing changes if all of them were saved.                  *)

IndexInv == TypeInv /\ ChoicesStored /\ targets = LoadedIndex(userSets)

LEMMA IndexInvInit == Init => IndexInv
<1> SUFFICES ASSUME Init PROVE IndexInv
  OBVIOUS
<1>1. PICK h : LoadPasses(<<>>, h)
  <2>1. <<>> \in Seq(UserRuleParams)
    OBVIOUS
  <2> QED BY <2>1, LoadLoop
<1>2. LoadedIndex(<<>>) = BuiltinIndex
  BY <1>1 DEF LoadPasses
<1> QED BY <1>2, TypeInit, ChoicesInvInit DEF IndexInv, ChoicesInv, Init

LEMMA IndexInvNext == IndexInv /\ [Next]_vars => IndexInv'
<1> SUFFICES ASSUME IndexInv, [Next]_vars PROVE IndexInv'
  OBVIOUS
<1>1. TypeInv' /\ ChoicesStored'
  BY TypeNext, ChoicesInvNext DEF IndexInv, TypeInv, ChoicesInv
<1>2. userSets \in Seq(UserRuleParams) /\ targets = LoadedIndex(userSets)
  BY DEF IndexInv, TypeInv, Numbered
<1>3. targets' = LoadedIndex(userSets')
  <2>1. ASSUME NEW params \in UserRuleParams, AddUserRule(params)
        PROVE  targets' = LoadedIndex(userSets')
    <3>1. /\ userSets' = Append(userSets, params)
          /\ targets' = Push(targets, UserRule[params].host, Len(userSets) + 1)
      BY <2>1 DEF AddUserRule
    <3> QED BY <1>2, <3>1, LoadedOneMore
  <2>2. CASE Reload
    BY <2>2 DEF Reload
  <2>3. ASSUME UNCHANGED <<targets, userSets>> PROVE targets' = LoadedIndex(userSets')
    BY <1>2, <2>3
  <2>4. ASSUME NEW h \in Host, Lookup(h) \/ CheckCookieHost(h) \/ BlacklistDomain(h)
        PROVE  UNCHANGED <<targets, userSets>>
    BY <2>4 DEF Lookup, CheckCookieHost, BlacklistDomain
  <2>5. ASSUME NEW r \in Live, Toggle(r) PROVE UNCHANGED <<targets, userSets>>
    BY <2>5 DEF Toggle
  <2>6. UNCHANGED vars => UNCHANGED <<targets, userSets>>
    BY DEF vars, memory
  <2> QED BY <2>1, <2>2, <2>3, <2>4, <2>5, <2>6 DEF Next
<1>4. LoadedIndex(userSets)' = LoadedIndex(userSets')
  OBVIOUS
<1> QED BY <1>1, <1>3, <1>4 DEF IndexInv

(* If every user rule was saved and every ruleset's last choice is what is *)
(* stored, starting again changes neither the index nor which rulesets are *)
(* on (background.js 65-83, rules.js 128-217).                             *)
THEOREM ReloadsAreInvisible == Spec => ReloadIsInvisible
<1>1. IndexInv /\ [Next]_vars =>
        [Reload /\ userRules = userSets /\ unstored = {}
           => <<targets, userSets, active>>' = <<targets, userSets, active>>]_vars
  <2> SUFFICES ASSUME IndexInv, Reload, userRules = userSets, unstored = {}
               PROVE  /\ targets' = targets /\ userSets' = userSets
                      /\ active' = active
    OBVIOUS
  <2>1. /\ targets' = LoadedIndex(userSets) /\ userSets' = userSets
        /\ active' = Loaded(userSets, prefs)
    BY DEF Reload
  <2>2. targets' = targets
    BY <2>1 DEF IndexInv
  <2>3. active \in [Live -> BOOLEAN] /\ Live = Builtin \cup DOMAIN userSets
    BY DEF IndexInv, TypeInv, Live
  <2>4. \A r \in Live : active[r] = InitialState(RuleSet(r, userSets), prefs)
    BY DEF IndexInv, ChoicesStored
  <2>5. active' = active
    BY <2>1, <2>3, <2>4 DEF Loaded
  <2> QED BY <2>1, <2>2, <2>5
<1> QED BY <1>1, IndexInvInit, IndexInvNext, PTL DEF Spec, ReloadIsInvisible
=============================================================================
