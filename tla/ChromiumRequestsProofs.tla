----------------------- MODULE ChromiumRequestsProofs -----------------------
(***************************************************************************)
(* Proofs about ChromiumRequests, on top of those about RuleStore: what    *)
(* goes out is not rewritable, not plain under HTTP Nowhere and listed,    *)
(* and hosts that were given up keep their cookies.  Store is RuleStore    *)
(* with its theorems; Rules, which ChromiumRequests uses, is the same      *)
(* without them, and the first lemmas say so.  Each step is one of the     *)
(* store or leaves it alone, so that Inv is the store's types and coherent *)
(* cache, and the types of what a request adds.                            *)
(***************************************************************************)
EXTENDS ChromiumRequests, TLAPS

Store == INSTANCE RuleStoreProofs

-----------------------------------------------------------------------------
(* Store and Rules define the same operators.                              *)

LEMMA SameCaches ==
  ASSUME NEW c, NEW k, NEW v
  PROVE  /\ Store!RuleCache!Has(c, k) <=> Rules!RuleCache!Has(c, k)
         /\ Store!RuleCache!Touch(c, k) = Rules!RuleCache!Touch(c, k)
         /\ Store!RuleCache!Drop(c, k) = Rules!RuleCache!Drop(c, k)
         /\ Store!RuleCache!Store(c, k, v) = Rules!RuleCache!Store(c, k, v)
         /\ Store!RuleCache!EmptyCache(v) = Rules!RuleCache!EmptyCache(v)
         /\ Store!CookieHosts!Has(c, k) <=> Rules!CookieHosts!Has(c, k)
         /\ Store!CookieHosts!Touch(c, k) = Rules!CookieHosts!Touch(c, k)
         /\ Store!CookieHosts!Store(c, k, v) = Rules!CookieHosts!Store(c, k, v)
         /\ Store!CookieHosts!EmptyCache(v) = Rules!CookieHosts!EmptyCache(v)
<1>1. Store!RuleCache!Has(c, k) <=> Rules!RuleCache!Has(c, k)
  BY DEF Store!RuleCache!Has, Rules!RuleCache!Has
<1>2. Store!RuleCache!Touch(c, k) = Rules!RuleCache!Touch(c, k)
  BY <1>1 DEF Store!RuleCache!Touch, Rules!RuleCache!Touch, Store!RuleCache!Without, Rules!RuleCache!Without,
     Store!RuleCache!Range, Rules!RuleCache!Range, Store!RuleCache!RemoveAt, Rules!RuleCache!RemoveAt
<1>3. Store!RuleCache!Drop(c, k) = Rules!RuleCache!Drop(c, k)
  BY DEF Store!RuleCache!Drop, Rules!RuleCache!Drop, Store!RuleCache!Without, Rules!RuleCache!Without,
     Store!RuleCache!Range, Rules!RuleCache!Range, Store!RuleCache!RemoveAt, Rules!RuleCache!RemoveAt,
     Store!RuleCache!Restrict, Rules!RuleCache!Restrict
<1>4. Store!RuleCache!Store(c, k, v) = Rules!RuleCache!Store(c, k, v)
  BY DEF Store!RuleCache!Store, Rules!RuleCache!Store, Store!RuleCache!Victims, Rules!RuleCache!Victims,
     Store!RuleCache!Full, Rules!RuleCache!Full
<1>5. Store!RuleCache!EmptyCache(v) = Rules!RuleCache!EmptyCache(v)
  BY DEF Store!RuleCache!EmptyCache, Rules!RuleCache!EmptyCache
<1>6. Store!CookieHosts!Has(c, k) <=> Rules!CookieHosts!Has(c, k)
  BY DEF Store!CookieHosts!Has, Rules!CookieHosts!Has
<1>7. Store!CookieHosts!Touch(c, k) = Rules!CookieHosts!Touch(c, k)
  BY <1>6 DEF Store!CookieHosts!Touch, Rules!CookieHosts!Touch, Store!CookieHosts!Without, Rules!CookieHosts!Without,
     Store!CookieHosts!Range, Rules!CookieHosts!Range, Store!CookieHosts!RemoveAt, Rules!CookieHosts!RemoveAt
<1>8. Store!CookieHosts!Store(c, k, v) = Rules!CookieHosts!Store(c, k, v)
  BY DEF Store!CookieHosts!Store, Rules!CookieHosts!Store, Store!CookieHosts!Victims, Rules!CookieHosts!Victims,
     Store!CookieHosts!Full, Rules!CookieHosts!Full
<1>9. Store!CookieHosts!EmptyCache(v) = Rules!CookieHosts!EmptyCache(v)
  BY DEF Store!CookieHosts!EmptyCache, Rules!CookieHosts!EmptyCache
<1> QED BY <1>1, <1>2, <1>3, <1>4, <1>5, <1>6, <1>7, <1>8, <1>9

LEMMA SameRules ==
  ASSUME NEW r, NEW users, NEW set, NEW u, NEW choices
  PROVE  /\ Store!Live = Rules!Live
         /\ Store!RuleSet(r, users) = Rules!RuleSet(r, users)
         /\ Store!Name(r) = Rules!Name(r)
         /\ Store!Apply(set, u) = Rules!Apply(set, u)
         /\ Store!InitialState(set, choices) = Rules!InitialState(set, choices)
<1>1. Store!Live = Rules!Live
  BY DEF Store!Live, Rules!Live
<1>2. Store!URL = Rules!URL
  BY DEF Store!URL, Rules!URL
<1>3. \A x, y : Store!RuleSet(x, y) = Rules!RuleSet(x, y)
  BY <1>2 DEF Store!RuleSet, Rules!RuleSet
<1>4. Store!Name(r) = Rules!Name(r)
  BY <1>3 DEF Store!Name, Rules!Name
<1>5. Store!Apply(set, u) = Rules!Apply(set, u)
  BY DEF Store!Apply, Rules!Apply
<1>6. Store!InitialState(set, choices) = Rules!InitialState(set, choices)
  BY DEF Store!InitialState, Rules!InitialState
<1> QED BY <1>1, <1>3, <1>4, <1>5, <1>6

LEMMA SameLookups ==
  ASSUME NEW h, NEW rulesets, NEW u
  PROVE  /\ Store!ComputeApplicable(h) = Rules!ComputeApplicable(h)
         /\ Store!Applicable(h) = Rules!Applicable(h)
         /\ Store!CacheAfter(h) = Rules!CacheAfter(h)
         /\ Store!FirstRewrite(rulesets, u) = Rules!FirstRewrite(rulesets, u)
         /\ Store!Rewrite(u) = Rules!Rewrite(u)
<1>1. \A x : Store!ComputeApplicable(x) = Rules!ComputeApplicable(x)
  <2> TAKE x
  <2>1. Store!Probes(x) = Rules!Probes(x)
    BY DEF Store!Probes, Rules!Probes, Store!Star, Rules!Star
  <2>2. \A t : Store!Indexed(t) = Rules!Indexed(t)
    BY DEF Store!Indexed, Rules!Indexed
  <2>3. \A s : Store!Merge(s) = Rules!Merge(s)
    BY DEF Store!Merge, Rules!Merge, Store!setInsert, Rules!setInsert,
           Store!FoldLeft, Rules!FoldLeft, Store!MapThenFoldSet, Rules!MapThenFoldSet,
           Store!Contains, Rules!Contains, Store!Max, Rules!Max
  <2> QED BY <2>1, <2>2, <2>3 DEF Store!ComputeApplicable, Rules!ComputeApplicable
<1>2. \A x : Store!Applicable(x) = Rules!Applicable(x)
  BY <1>1, SameCaches DEF Store!Applicable, Rules!Applicable
<1>3. Store!CacheAfter(h) = Rules!CacheAfter(h)
  BY <1>1, SameCaches DEF Store!CacheAfter, Rules!CacheAfter
<1>4. \A s, v : Store!FirstRewrite(s, v) = Rules!FirstRewrite(s, v)
  <2> TAKE s, v
  <2> DEFINE there(x) == Store!Apply(Store!RuleSet(x, userSets), v)
             here(x)  == Rules!Apply(Rules!RuleSet(x, userSets), v)
             hits     == {i \in DOMAIN s : active[s[i]] /\ here(s[i]) # None}
             theirs   == {i \in DOMAIN s : active[s[i]] /\ there(s[i]) # None}
  <2>1. \A x : there(x) = here(x)
    BY SameRules
  <2>2. theirs = hits
    BY <2>1
  <2>3. Store!FirstRewrite(s, v) =
          IF theirs = {} THEN None ELSE there(s[CHOOSE i \in theirs : \A j \in theirs : i <= j])
    BY Zenon DEF Store!FirstRewrite
  <2>4. Rules!FirstRewrite(s, v) =
          IF hits = {} THEN None ELSE here(s[CHOOSE i \in hits : \A j \in hits : i <= j])
    BY Zenon DEF Rules!FirstRewrite
  <2> HIDE DEF there, here, hits, theirs
  <2> QED BY <2>1, <2>2, <2>3, <2>4, Zenon
<1>5. Store!Rewrite(u) = Rules!Rewrite(u)
  BY <1>2, <1>4 DEF Store!Rewrite, Rules!Rewrite
<1> QED BY <1>1, <1>2, <1>3, <1>4, <1>5

LEMMA SameCookieCheck ==
  ASSUME NEW h
  PROVE  /\ Store!Safe(h) <=> Rules!Safe(h)
         /\ Store!CheckCookieHost(h) <=> Rules!CheckCookieHost(h)
<1>1. Store!WouldRewrite(h) = Rules!WouldRewrite(h)
  BY SameLookups DEF Store!WouldRewrite, Rules!WouldRewrite, Store!TestURL, Rules!TestURL
<1>2. Store!Safe(h) <=> Rules!Safe(h)
  BY <1>1, SameCaches DEF Store!Safe, Rules!Safe
<1>3. Store!SafeEffect(h) <=> Rules!SafeEffect(h)
  BY <1>1, SameCaches, SameLookups DEF Store!SafeEffect, Rules!SafeEffect
<1>4. Store!SecureEffect(h) <=> Rules!SecureEffect(h)
  BY <1>2, <1>3, SameCaches, SameLookups DEF Store!SecureEffect, Rules!SecureEffect
<1> QED BY <1>2, <1>4 DEF Store!CheckCookieHost, Rules!CheckCookieHost, Store!storage, Rules!storage

LEMMA SameIndex ==
  ASSUME NEW index, NEW key, NEW r, NEW stored
  PROVE  /\ Store!Push(index, key, r) = Rules!Push(index, key, r)
         /\ Store!BuiltinIndex = Rules!BuiltinIndex
         /\ Store!LoadedIndex(stored) = Rules!LoadedIndex(stored)
<1>1. \A x, y, z : Store!Push(x, y, z) = Rules!Push(x, y, z)
  BY DEF Store!Push, Rules!Push
<1>2. Store!BuiltinIndex = Rules!BuiltinIndex
  BY DEF Store!BuiltinIndex, Rules!BuiltinIndex, Store!Declaring, Rules!Declaring,
         Store!FoldLeft, Rules!FoldLeft, Store!MapThenFoldSet, Rules!MapThenFoldSet,
         Store!Max, Rules!Max
<1>3. Store!LoadedIndex(stored) = Rules!LoadedIndex(stored)
  BY <1>2 DEF Store!LoadedIndex, Rules!LoadedIndex, Store!Push, Rules!Push,
         Store!FoldLeftDomain, Rules!FoldLeftDomain,
         Store!FoldLeft, Rules!FoldLeft, Store!MapThenFoldSet, Rules!MapThenFoldSet,
         Store!Max, Rules!Max
<1> QED BY <1>1, <1>2, <1>3

LEMMA SameLoading ==
  ASSUME NEW users, NEW choices
  PROVE  /\ Store!Loaded(users, choices) = Rules!Loaded(users, choices)
         /\ Store!Init <=> Rules!Init
         /\ Store!Reload <=> Rules!Reload
<1>1. \A x, y : Store!Loaded(x, y) = Rules!Loaded(x, y)
  <2>1. \A r, x, set, y : /\ Store!RuleSet(r, x) = Rules!RuleSet(r, x)
                          /\ Store!InitialState(set, y) = Rules!InitialState(set, y)
    BY SameRules
  <2> QED BY <2>1 DEF Store!Loaded, Rules!Loaded
<1>2. Store!Init <=> Rules!Init
  BY <1>1, SameIndex, SameCaches DEF Store!Init, Rules!Init
<1>3. Store!Reload <=> Rules!Reload
  BY <1>1, SameIndex, SameCaches DEF Store!Reload, Rules!Reload, Store!storage, Rules!storage
<1> QED BY <1>1, <1>2, <1>3

LEMMA SameUserSteps ==
  ASSUME NEW r, NEW params
  PROVE  /\ Store!Toggle(r) <=> Rules!Toggle(r)
         /\ Store!AddUserRule(params) <=> Rules!AddUserRule(params)
<1>1. \A set, b : Store!StoredChoices(set, b) = Rules!StoredChoices(set, b)
  BY DEF Store!StoredChoices, Rules!StoredChoices, Store!Restrict, Rules!Restrict
<1>2. Store!Toggle(r) <=> Rules!Toggle(r)
  <2>1. Store!Namesakes(r) = Rules!Namesakes(r)
    BY SameRules DEF Store!Namesakes, Rules!Namesakes, Store!Name, Rules!Name,
                     Store!Live, Rules!Live
  <2> QED BY <1>1, <2>1, SameRules, SameCaches DEF Store!Toggle, Rules!Toggle
<1>3. \A host : Store!Purged(host) = Rules!Purged(host)
  BY SameCaches DEF Store!Purged, Rules!Purged
<1>4. Store!AddUserRule(params) <=> Rules!AddUserRule(params)
  <2>1. \A x, y, z, users, set, choices :
          /\ Store!Live = Rules!Live
          /\ Store!Push(x, y, z) = Rules!Push(x, y, z)
          /\ Store!RuleSet(x, users) = Rules!RuleSet(x, users)
          /\ Store!InitialState(set, choices) = Rules!InitialState(set, choices)
    BY SameRules, SameIndex
  <2> QED BY <1>3, <2>1 DEF Store!AddUserRule, Rules!AddUserRule
<1> QED BY <1>2, <1>4

(* Store assumes no more of the constants than is assumed here.            *)
LEMMA StoreAssumptions ==
  /\ Store!UserRuleHosts /\ Store!BuiltinNames /\ Store!HostNames
  /\ Store!CacheLimits /\ Store!BuiltinTypes
<1>1. Store!UserRuleHosts
  BY RulesAssumptions DEF Store!UserRuleHosts, Rules!UserRuleHosts,
     Store!Probes, Rules!Probes, Store!Star, Rules!Star, Store!Range, Rules!Range
<1>2. Store!BuiltinNames /\ Store!CacheLimits /\ Store!BuiltinTypes
  BY RulesAssumptions DEF Store!BuiltinNames, Rules!BuiltinNames, Store!CacheLimits,
     Rules!CacheLimits, Store!BuiltinTypes, Rules!BuiltinTypes
<1>3. Store!HostNames
  BY RulesAssumptions DEF Store!HostNames, Rules!HostNames, Store!Range, Rules!Range
<1> QED BY <1>1, <1>2, <1>3

-----------------------------------------------------------------------------
(* What is known in every state: the store's invariants and the types.     *)

StoreInv == Store!TypeInv /\ Store!CacheInv
Inv == StoreInv /\ TypeOK

(* Steps of the store keep its invariants.                                 *)
LEMMA StoreSteps ==
  ASSUME StoreInv, Store!Next \/ UNCHANGED Store!vars
  PROVE  StoreInv'
<1>1. [Store!Next]_(Store!vars)
  OBVIOUS
<1>2. Store!TypeInv /\ Store!CacheInv
  BY DEF StoreInv
<1>3. Store!TypeInv'
  BY <1>1, <1>2, Store!TypeNext, StoreAssumptions
<1>4. Store!CacheInv'
  BY <1>1, <1>2, Store!CacheInvNext, StoreAssumptions
<1> QED BY <1>3, <1>4 DEF StoreInv

LEMMA StoreStays ==
  ASSUME StoreInv, UNCHANGED store
  PROVE  StoreInv'
<1>1. UNCHANGED Store!vars
  BY DEF store, Store!vars, Store!memory, Store!storage
<1> QED BY <1>1, StoreSteps

(* A cached answer is the current one, and lists live rulesets.            *)
LEMMA ApplicableIsCurrent ==
  ASSUME StoreInv, NEW h \in Host
  PROVE  /\ Rules!Applicable(h) = Rules!ComputeApplicable(h)
         /\ Rules!Applicable(h) \in Seq(Rules!Live)
<1>1. Store!ComputeApplicable(h) \in Seq(Store!Live)
  <2>1. targets \in Store!Indexes(Store!Live)
    BY DEF StoreInv, Store!TypeInv
  <2> QED BY <2>1, Store!ApplicableTyped, StoreAssumptions
<1>2. Store!Applicable(h) = Store!ComputeApplicable(h)
  BY DEF StoreInv, Store!CacheInv, Store!RuleCacheCoherent, Store!Applicable, Store!RuleCache!Has
<1> QED BY <1>1, <1>2, SameLookups, SameRules

(* A live ruleset rewrites a URL to a URL.                                 *)
LEMMA AppliedTyped ==
  ASSUME StoreInv, NEW r \in Rules!Live, NEW u,
         Rules!Apply(Rules!RuleSet(r, userSets), u) # None
  PROVE  Rules!Apply(Rules!RuleSet(r, userSets), u) \in Rules!URL
<1> DEFINE set == Rules!RuleSet(r, userSets)
           hits == {i \in DOMAIN set.rules : u \in DOMAIN set.rules[i]}
           i == CHOOSE i \in hits : \A j \in hits : i <= j
<1>1. userSets \in Seq(UserRuleParams) /\ Rules!Live = Builtin \cup DOMAIN userSets
  BY DEF StoreInv, Store!TypeInv, Store!Numbered, Rules!Live
<1>2. set.rules \in Seq(AllRules)
  <2>1. CASE r \in Builtin
    BY <2>1, UrlsKnown DEF Rules!RuleSet
  <2>2. CASE r \notin Builtin
    <3>1. userSets[r] \in UserRuleParams
      BY <1>1, <2>2
    <3>2. set.rules = <<UserRule[userSets[r]].rule>>
      BY <2>2 DEF Rules!RuleSet
    <3>3. ASSUME NEW p \in UserRuleParams PROVE UserRule[p].rule \in AllRules
      <4>1. UserRule[p].rule \in {UserRule[x].rule : x \in UserRuleParams}
        OBVIOUS
      <4> QED BY <4>1, Zenon DEF AllRules
    <3>4. \A rule \in AllRules : <<rule>> \in Seq(AllRules)
      OBVIOUS
    <3> QED BY <3>1, <3>2, <3>3, <3>4
  <2> QED BY <2>1, <2>2
<1> HIDE DEF set
<1>3. hits # {} /\ Rules!Apply(set, u) = set.rules[i][u]
  BY DEF Rules!Apply, set
<1>4. i \in hits
  <2>1. hits \in SUBSET Nat
    BY <1>2
  <2>2. \E m \in hits : \A j \in hits : m <= j
    <3> HIDE DEF hits
    <3> QED BY <1>3, <2>1, Store!Smallest, StoreAssumptions
  <2> QED BY <2>2
<1>5. set.rules[i] \in AllRules /\ u \in DOMAIN set.rules[i]
  <2> HIDE DEF i
  <2> QED BY <1>2, <1>4
<1> HIDE DEF i
<1>6. set.rules[i][u] \in Range(set.rules[i])
  BY <1>5 DEF Range
<1> QED BY <1>3, <1>5, <1>6, UrlsKnown DEF set

(* So does rewriteURI.                                                     *)
LEMMA RewriteTyped ==
  ASSUME StoreInv, NEW u \in Rules!URL, Rules!Rewrite(u) # None
  PROVE  Rules!Rewrite(u) \in Rules!URL
<1> DEFINE rulesets == Rules!Applicable(u.host)
           hits == {i \in DOMAIN rulesets :
                      /\ active[rulesets[i]]
                      /\ Rules!Apply(Rules!RuleSet(rulesets[i], userSets), u) # None}
           i == CHOOSE i \in hits : \A j \in hits : i <= j
<1>1. u.host \in Host
  BY DEF Rules!URL
<1>2. rulesets \in Seq(Rules!Live)
  BY <1>1, ApplicableIsCurrent
<1>3. Rules!Rewrite(u) = Rules!FirstRewrite(rulesets, u)
  BY DEF Rules!Rewrite
<1> HIDE DEF rulesets
<1>4. hits # {} /\ Rules!Rewrite(u) = Rules!Apply(Rules!RuleSet(rulesets[i], userSets), u)
  BY <1>3 DEF Rules!FirstRewrite
<1>5. i \in hits
  <2>1. hits \in SUBSET Nat
    BY <1>2
  <2>2. \E m \in hits : \A j \in hits : m <= j
    <3> HIDE DEF hits
    <3> QED BY <1>4, <2>1, Store!Smallest, StoreAssumptions
  <2> QED BY <2>2
<1>6. rulesets[i] \in Rules!Live /\ Rules!Apply(Rules!RuleSet(rulesets[i], userSets), u) # None
  <2> HIDE DEF i
  <2> QED BY <1>2, <1>5
<1> HIDE DEF i, hits
<1> QED BY <1>4, <1>6, AppliedTyped

-----------------------------------------------------------------------------
(* Every step is a step of the store, or leaves it alone.                  *)

LEMMA LookUpIsLookup ==
  ASSUME TypeOK, NEW r \in Request, LookUp(r)
  PROVE  /\ request[r].url \in Rules!URL /\ request[r].url.host \in Host
         /\ request[r].tab \in Tab /\ request[r].frame \in BOOLEAN
         /\ domainBlacklist' = domainBlacklist => Store!Lookup(request[r].url.host)
         /\ domainBlacklist' = domainBlacklist \cup {request[r].url.host} =>
              Store!BlacklistDomain(request[r].url.host)
<1> DEFINE h == request[r].url.host
<1>1. /\ request[r].url \in Rules!URL /\ request[r].tab \in Tab /\ request[r].frame \in BOOLEAN
  BY DEF LookUp, Asking, TypeOK
<1>2. h \in Host
  BY <1>1 DEF Rules!URL
<1> HIDE DEF h
<1>3. /\ ruleCache' = Store!CacheAfter(h)
      /\ UNCHANGED <<targets, userSets, active, cookieHostCache, prefs, userRules, unstored>>
  BY SameLookups DEF LookUp, h
<1>4. domainBlacklist' = domainBlacklist => Store!Lookup(h)
  BY <1>3 DEF Store!Lookup, Store!storage
<1>5. domainBlacklist' = domainBlacklist \cup {h} => Store!BlacklistDomain(h)
  BY <1>3 DEF Store!BlacklistDomain, Store!storage
<1> QED BY <1>1, <1>2, <1>4, <1>5 DEF h

LEMMA StoreNext ==
  ASSUME Inv, [Next]_vars
  PROVE  StoreInv'
<1>0. StoreInv /\ TypeOK
  BY DEF Inv
<1>1. ASSUME NEW h \in Host, Store!Lookup(h) \/ Store!BlacklistDomain(h) \/ Store!CheckCookieHost(h)
      PROVE  StoreInv'
  BY <1>0, <1>1, StoreSteps DEF Store!Next
<1>2. ASSUME NEW r \in Request, NEW t \in Tab, NEW u \in Page, NEW frame \in BOOLEAN,
             Start(r, t, u, frame)
      PROVE  StoreInv'
  BY <1>0, <1>2, StoreStays DEF Start
<1>3. ASSUME NEW r \in Request, PassBlacklisted(r) \/ onBeforeRedirect(r) \/ Answer(r)
      PROVE  StoreInv'
  BY <1>0, <1>3, StoreStays DEF PassBlacklisted, onBeforeRedirect, Answer
<1>4. ASSUME NEW r \in Request, PassUnlisted(r) \/ ApplyRulesets(r) PROVE StoreInv'
  <2>1. LookUp(r) /\ domainBlacklist' = domainBlacklist
    BY <1>4 DEF PassUnlisted, ApplyRulesets
  <2> QED BY <1>0, <1>1, <2>1, LookUpIsLookup
<1>5. ASSUME NEW r \in Request, GiveUp(r) PROVE StoreInv'
  <2>1. LookUp(r) /\ domainBlacklist' = domainBlacklist \cup {request[r].url.host}
    BY <1>5 DEF GiveUp, Blacklist
  <2> QED BY <1>0, <1>1, <2>1, LookUpIsLookup
<1>6. ASSUME NEW t \in Tab, CloseTab(t) PROVE StoreInv'
  BY <1>0, <1>6, StoreStays DEF CloseTab
<1>7. ASSUME NEW t \in Tab, PopupToggle(t) PROVE StoreInv'
  <2>1. PICK name \in DOMAIN listed[t] : Rules!Toggle(listed[t][name])
    BY <1>7 DEF PopupToggle
  <2>2. listed[t][name] \in Store!Live /\ Store!Toggle(listed[t][name])
    BY <1>0, <2>1, SameRules, SameUserSteps DEF TypeOK
  <2> QED BY <1>0, <2>2, StoreSteps DEF Store!Next
<1>8. ASSUME NEW t \in MayRecord, SwitchRecording(t) PROVE StoreInv'
  BY <1>0, <1>8, StoreStays DEF SwitchRecording
<1>9. CASE PopupAddRule
  <2>1. PICK params \in UserRuleParams : Store!AddUserRule(params)
    BY <1>9, SameUserSteps DEF PopupAddRule
  <2> QED BY <1>0, <2>1, StoreSteps DEF Store!Next
<1>10. CASE CookieSeen
  <2>1. PICK h \in Host : Store!CheckCookieHost(h)
    BY <1>10, SameCookieCheck DEF CookieSeen
  <2> QED BY <1>1, <2>1
<1>11. CASE PreferenceStep
  BY <1>0, <1>11, StoreStays DEF PreferenceStep
<1>12. CASE Restart
  <2>1. Store!Reload
    BY <1>12, SameLoading DEF Restart
  <2> QED BY <1>0, <2>1, StoreSteps DEF Store!Next
<1>13. CASE UNCHANGED vars
  BY <1>0, <1>13, StoreStays DEF vars
<1> QED BY <1>2, <1>3, <1>4, <1>5, <1>6, <1>7, <1>8, <1>9, <1>10, <1>11, <1>12, <1>13
        DEF Next, onBeforeRequest

-----------------------------------------------------------------------------
(* Requests and lists keep their types.                                    *)

InFlight(q) == q.url \in Rules!URL /\ q.tab \in Tab /\ q.frame \in BOOLEAN

RequestOK(q) ==
  /\ q.phase \in Phases
  /\ q.phase \in {"asking", "redirected", "wire"} => InFlight(q)
  /\ q.phase = "redirected" => q.to \in Rules!URL

RequestsTyped == DOMAIN request = Request /\ \A r \in Request : RequestOK(request[r])

ListOK(list) ==
  \A name \in DOMAIN list : list[name] \in Rules!Live /\ Rules!Name(list[name]) = name

ListsTyped == DOMAIN listed = Tab /\ \A t \in Tab : ListOK(listed[t])

OwnTyped ==
  /\ redirectCounter \in [Request -> Nat]
  /\ urlBlacklist \subseteq Rules!URL
  /\ enabledFor \subseteq MayRecord
  /\ server \in Sites

LEMMA TypeParts == TypeOK <=> RequestsTyped /\ ListsTyped /\ OwnTyped
BY DEF TypeOK, RequestsTyped, RequestOK, InFlight, ListsTyped, ListOK, OwnTyped

LEMMA TypePartsNext == RequestsTyped' /\ ListsTyped' /\ OwnTyped' => TypeOK'
BY DEF TypeOK, RequestsTyped, RequestOK, InFlight, ListsTyped, ListOK, OwnTyped

(* One request changes.                                                    *)
LEMMA RequestMoves ==
  ASSUME RequestsTyped, NEW r, NEW q, RequestOK(q), request' = [request EXCEPT ![r] = q]
  PROVE  RequestsTyped'
<1>1. DOMAIN request' = Request
  BY DEF RequestsTyped
<1>2. ASSUME NEW x \in Request PROVE RequestOK(request'[x])
  <2>1. request'[x] = q \/ request'[x] = request[x]
    BY DEF RequestsTyped
  <2> QED BY <2>1 DEF RequestsTyped
<1>3. \A x \in Request : RequestOK(request[x])'
  BY <1>2 DEF RequestOK, InFlight, Rules!URL
<1> QED BY <1>1, <1>3 DEF RequestsTyped

(* What the returns of the handler make of a request.                      *)
LEMMA PassTyped ==
  ASSUME RequestsTyped, NEW r \in Request, Asking(r), Pass(r)
  PROVE  RequestsTyped'
<1> DEFINE out == [phase |-> "wire", url |-> request[r].url, tab |-> request[r].tab,
                   frame |-> request[r].frame]
           off == [phase |-> "cancelled"]
<1>1. RequestOK(out) /\ RequestOK(off)
  BY DEF RequestsTyped, RequestOK, InFlight, Asking, Phases
<1>2. request' = [request EXCEPT ![r] = out] \/ request' = [request EXCEPT ![r] = off]
  BY DEF Pass, RequestsTyped
<1> HIDE DEF out, off
<1> QED BY <1>1, <1>2, RequestMoves

(* addRulesetToTab files live rulesets under their names.                  *)
LEMMA ListWithTyped ==
  ASSUME NEW list, ListOK(list), NEW rulesets \in Seq(Rules!Live)
  PROVE  /\ ListOK(ListWith(list, rulesets))
         /\ \A i \in DOMAIN rulesets : Rules!Name(rulesets[i]) \in DOMAIN ListWith(list, rulesets)
<1> DEFINE names   == {Rules!Name(rulesets[i]) : i \in DOMAIN rulesets}
           last(n) == CHOOSE i \in DOMAIN rulesets :
                        /\ Rules!Name(rulesets[i]) = n
                        /\ \A j \in DOMAIN rulesets : Rules!Name(rulesets[j]) = n => j <= i
           new     == ListWith(list, rulesets)
<1>1. new = [n \in DOMAIN list \cup names |-> IF n \in names THEN rulesets[last(n)] ELSE list[n]]
  BY DEF ListWith
<1>2. ASSUME NEW n \in names
      PROVE  rulesets[last(n)] \in Rules!Live /\ Rules!Name(rulesets[last(n)]) = n
  <2> DEFINE same == {i \in DOMAIN rulesets : Rules!Name(rulesets[i]) = n}
             k    == Len(rulesets)
  <2>1. k \in Nat /\ DOMAIN rulesets = 1 .. k /\ same # {} /\ same \in SUBSET (1 .. k)
    OBVIOUS
  <2> DEFINE T == {k - i : i \in same}
  <2>2. T \in SUBSET Nat /\ T # {}
    <3>1. \A i \in 1 .. k : k - i \in Nat
      BY <2>1
    <3> HIDE DEF same, k
    <3> QED BY <2>1, <3>1
  <2>3. PICK m \in T : \A j \in T : m <= j
    <3> HIDE DEF T
    <3> QED BY <2>2, Store!Smallest, StoreAssumptions
  <2>4. PICK i \in same : m = k - i
    BY <2>3
  <2>5. \A j \in same : j <= i
    <3> TAKE j \in same
    <3>1. k - j \in T
      OBVIOUS
    <3>2. m <= k - j
      BY <2>3, <3>1
    <3>3. i \in 1 .. k /\ j \in 1 .. k
      BY <2>1
    <3> HIDE DEF same, k, T
    <3> QED BY <2>1, <2>4, <3>2, <3>3
  <2>6. \E x \in DOMAIN rulesets :
          /\ Rules!Name(rulesets[x]) = n
          /\ \A j \in DOMAIN rulesets : Rules!Name(rulesets[j]) = n => j <= x
    BY <2>4, <2>5
  <2>7. last(n) \in DOMAIN rulesets /\ Rules!Name(rulesets[last(n)]) = n
    BY <2>6, Zenon
  <2> HIDE DEF last
  <2> QED BY <2>7
<1> HIDE DEF last, new
<1>3. ListOK(new)
  BY <1>1, <1>2 DEF ListOK
<1>4. \A i \in DOMAIN rulesets : Rules!Name(rulesets[i]) \in DOMAIN new
  BY <1>1
<1> QED BY <1>3, <1>4 DEF new

(* A live ruleset stays live and keeps its name until the page restarts.   *)
LEMMA SameSetsSameLists ==
  ASSUME UNCHANGED userSets, NEW list, ListOK(list)
  PROVE  ListOK(list)'
<1>1. Rules!Live' = Rules!Live /\ \A r : Rules!Name(r)' = Rules!Name(r)
  BY DEF Rules!Live, Rules!Name, Rules!RuleSet
<1> QED BY <1>1 DEF ListOK

LEMMA AddKeepsLists ==
  ASSUME StoreInv, NEW params \in UserRuleParams, Store!AddUserRule(params),
         NEW list, ListOK(list)
  PROVE  ListOK(list)'
<1>1. userSets \in Seq(UserRuleParams) /\ userSets' = Append(userSets, params)
  BY DEF StoreInv, Store!TypeInv, Store!Numbered, Store!AddUserRule
<1>2. DOMAIN userSets \subseteq DOMAIN userSets'
  BY <1>1
<1>3. Rules!Live \subseteq Rules!Live'
  BY <1>2 DEF Rules!Live
<1>4. ASSUME NEW r \in Rules!Live PROVE Rules!Name(r)' = Rules!Name(r)
  <2>1. Store!RuleSet(r, Append(userSets, params)) = Store!RuleSet(r, userSets)
    <3>1. r \in Store!Live
      BY SameRules
    <3> QED BY <1>1, <3>1, Store!AppendKeepsRuleSets, StoreAssumptions
  <2>2. Rules!RuleSet(r, userSets') = Rules!RuleSet(r, userSets)
    BY <1>1, <2>1, SameRules
  <2>3. Rules!Name(r)' = Rules!RuleSet(r, userSets').name
    BY DEF Rules!Name, Rules!RuleSet, Rules!URL
  <2> QED BY <2>2, <2>3 DEF Rules!Name
<1> QED BY <1>3, <1>4 DEF ListOK

(* A page that is loaded starts a new list.                                *)
LEMMA ListBeforeTyped ==
  ASSUME ListsTyped, NEW r \in Request, request[r].tab \in Tab
  PROVE  DOMAIN ListBefore(r) = Tab /\ \A t \in Tab : ListOK(ListBefore(r)[t])
<1>1. ListOK(<< >>)
  BY DEF ListOK
<1> QED BY <1>1 DEF ListBefore, ListsTyped

LEMMA ListsStay ==
  ASSUME UNCHANGED userSets, NEW new, DOMAIN new = Tab, \A t \in Tab : ListOK(new[t]),
         listed' = new
  PROVE  ListsTyped'
<1>1. ASSUME NEW t \in Tab PROVE ListOK(new[t])'
  BY SameSetsSameLists
<1> QED BY <1>1 DEF ListsTyped, ListOK

LEMMA OwnStays ==
  ASSUME OwnTyped, UNCHANGED <<redirectCounter, enabledFor, server>>, urlBlacklist' \subseteq Rules!URL
  PROVE  OwnTyped'
BY DEF OwnTyped, Rules!URL

LEMMA ListsSame == ASSUME ListsTyped, UNCHANGED <<userSets, listed>> PROVE ListsTyped'
BY ListsStay DEF ListsTyped

(* onBeforeRequest.                                                        *)
LEMMA HandlerTyped ==
  ASSUME Inv, NEW r \in Request, onBeforeRequest(r)
  PROVE  TypeOK'
<1>0. StoreInv /\ RequestsTyped /\ ListsTyped /\ OwnTyped
  BY TypeParts DEF Inv
<1> DEFINE u == request[r].url
           t == request[r].tab
           h == request[r].url.host
<1>1. Asking(r) /\ u \in Rules!URL /\ t \in Tab /\ request[r].frame \in BOOLEAN /\ h \in Host
  <2>1. Asking(r)
    BY DEF onBeforeRequest, PassBlacklisted, PassUnlisted, GiveUp, ApplyRulesets, LookUp
  <2>2. u \in Rules!URL /\ t \in Tab /\ request[r].frame \in BOOLEAN
    BY <1>0, <2>1 DEF Asking, RequestsTyped, RequestOK, InFlight
  <2> QED BY <2>1, <2>2 DEF Rules!URL
<1> HIDE DEF u, t, h
<1>2. CASE PassBlacklisted(r)
  <2>1. Pass(r) /\ UNCHANGED <<userSets, listed, redirectCounter, enabledFor, urlBlacklist, server>>
    BY <1>2 DEF PassBlacklisted, store, planner
  <2>2. RequestsTyped' /\ ListsTyped'
    BY <1>0, <1>1, <2>1, PassTyped, ListsSame
  <2>3. OwnTyped'
    BY <1>0, <2>1, OwnStays DEF OwnTyped
  <2> QED BY <2>2, <2>3, TypePartsNext
<1>3. CASE PassUnlisted(r) \/ GiveUp(r)
  <2>1. /\ Pass(r) /\ listed' = ListBefore(r)
        /\ UNCHANGED <<userSets, redirectCounter, enabledFor, server>>
        /\ urlBlacklist' \in {urlBlacklist, urlBlacklist \cup {u}}
    BY <1>3 DEF PassUnlisted, GiveUp, LookUp, Blacklist, planner, u
  <2>2. RequestsTyped'
    BY <1>0, <1>1, <2>1, PassTyped
  <2>3. ListsTyped'
    BY <1>0, <1>1, <2>1, ListBeforeTyped, ListsStay DEF t
  <2>4. OwnTyped'
    <3>1. urlBlacklist' \subseteq Rules!URL
      BY <1>0, <1>1, <2>1 DEF OwnTyped
    <3> QED BY <1>0, <2>1, <3>1, OwnStays
  <2> QED BY <2>2, <2>3, <2>4, TypePartsNext
<1>4. CASE ApplyRulesets(r)
  <2> DEFINE rulesets == Rules!Applicable(h)
             new == Rules!Rewrite(u)
             before == ListBefore(r)
             after == [before EXCEPT ![t] = ListWith(before[t], rulesets)]
             off == [phase |-> "cancelled"]
             on  == [phase |-> "redirected", url |-> u, tab |-> t,
                     frame |-> request[r].frame, to |-> new]
  <2>1. /\ listed' = after
        /\ UNCHANGED <<userSets, redirectCounter, enabledFor, urlBlacklist, server>>
    <3>1. UNCHANGED enabledFor
      BY <1>4 DEF ApplyRulesets, Planner!Record, planner
    <3> QED BY <1>4, <3>1 DEF ApplyRulesets, LookUp, u, t, h
  <2>2. \/ Pass(r)
        \/ new # None /\ request' = [request EXCEPT ![r] = off]
        \/ new # None /\ request' = [request EXCEPT ![r] = on]
    <3>1. CASE new = None
      BY <1>4, <3>1 DEF ApplyRulesets, u
    <3>2. CASE new # None
      BY <1>0, <1>4, <3>2 DEF ApplyRulesets, u, t, RequestsTyped
    <3> QED BY <3>1, <3>2
  <2>3. new # None => new \in Rules!URL
    BY <1>0, <1>1, RewriteTyped
  <2>4. rulesets \in Seq(Rules!Live)
    BY <1>0, <1>1, ApplicableIsCurrent
  <2> HIDE DEF new, rulesets
  <2>5. RequestOK(off) /\ (new # None => RequestOK(on))
    BY <1>1, <2>3 DEF RequestOK, InFlight, Phases
  <2> HIDE DEF off, on
  <2>6. RequestsTyped'
    BY <1>0, <1>1, <2>2, <2>5, PassTyped, RequestMoves
  <2>7. DOMAIN before = Tab /\ \A x \in Tab : ListOK(before[x])
    BY <1>0, <1>1, ListBeforeTyped DEF t
  <2>8. ListOK(ListWith(before[t], rulesets))
    BY <1>1, <2>4, <2>7, ListWithTyped
  <2> HIDE DEF before
  <2>9. DOMAIN after = Tab /\ \A x \in Tab : ListOK(after[x])
    BY <2>7, <2>8
  <2> HIDE DEF after
  <2>10. ListsTyped'
    BY <2>1, <2>9, ListsStay
  <2>11. OwnTyped'
    BY <1>0, <2>1, OwnStays DEF OwnTyped
  <2> QED BY <2>6, <2>10, <2>11, TypePartsNext
<1> QED BY <1>2, <1>3, <1>4 DEF onBeforeRequest

LEMMA TypeNext == Inv /\ [Next]_vars => TypeOK'
<1> SUFFICES ASSUME Inv, [Next]_vars PROVE TypeOK'
  OBVIOUS
<1>0. StoreInv /\ RequestsTyped /\ ListsTyped /\ OwnTyped
  BY TypeParts DEF Inv
<1>1. ASSUME NEW r \in Request, NEW t \in Tab, NEW u \in Page, NEW frame \in BOOLEAN,
             Start(r, t, u, frame)
      PROVE  TypeOK'
  <2> DEFINE q == [phase |-> "asking", url |-> u, tab |-> t, frame |-> frame]
  <2>1. RequestOK(q)
    BY UrlsKnown DEF RequestOK, InFlight, Phases
  <2> HIDE DEF q
  <2>2. /\ request' = [request EXCEPT ![r] = q]
        /\ UNCHANGED <<userSets, listed, redirectCounter, enabledFor, urlBlacklist, server>>
    BY <1>1 DEF Start, store, planner, q
  <2>3. RequestsTyped' /\ ListsTyped'
    BY <1>0, <2>1, <2>2, RequestMoves, ListsSame
  <2>4. OwnTyped'
    BY <1>0, <2>2, OwnStays DEF OwnTyped
  <2> QED BY <2>3, <2>4, TypePartsNext
<1>2. ASSUME NEW r \in Request, onBeforeRequest(r) PROVE TypeOK'
  BY <1>2, HandlerTyped
<1>3. ASSUME NEW r \in Request, onBeforeRedirect(r) PROVE TypeOK'
  <2> DEFINE q == [phase |-> "asking", url |-> request[r].to, tab |-> request[r].tab,
                   frame |-> request[r].frame]
  <2>1. RequestOK(q)
    BY <1>0, <1>3 DEF onBeforeRedirect, RequestsTyped, RequestOK, InFlight, Phases
  <2> HIDE DEF q
  <2>2. /\ request' = [request EXCEPT ![r] = q]
        /\ redirectCounter' \in {redirectCounter,
             [redirectCounter EXCEPT ![r] = redirectCounter[r] + 1]}
        /\ UNCHANGED <<userSets, listed, enabledFor, urlBlacklist, server>>
    BY <1>0, <1>3 DEF onBeforeRedirect, store, planner, q, RequestsTyped, OwnTyped, Count
  <2>3. RequestsTyped' /\ ListsTyped'
    BY <1>0, <2>1, <2>2, RequestMoves, ListsSame
  <2>4. OwnTyped'
    BY <1>0, <2>2 DEF OwnTyped, Rules!URL
  <2> QED BY <2>3, <2>4, TypePartsNext
<1>4. ASSUME NEW r \in Request, Answer(r) PROVE TypeOK'
  <2> DEFINE u    == request[r].url
             on   == [phase |-> "redirected", url |-> u, tab |-> request[r].tab,
                      frame |-> request[r].frame, to |-> server[u]]
             done == [phase |-> "done"]
  <2>1. RequestOK(done)
    BY DEF RequestOK, Phases
  <2>2. u \in DOMAIN server => RequestOK(on)
    <3>1. u \in DOMAIN server => server[u] \in Range(server)
      BY DEF Range
    <3>2. Range(server) \subseteq Rules!URL
      BY <1>0, UrlsKnown DEF OwnTyped
    <3> QED BY <1>0, <1>4, <3>1, <3>2 DEF Answer, RequestsTyped, RequestOK, InFlight, Phases
  <2>3. \/ u \in DOMAIN server /\ request' = [request EXCEPT ![r] = on]
        \/ request' = [request EXCEPT ![r] = done]
    BY <1>0, <1>4 DEF Answer, RequestsTyped
  <2> HIDE DEF on, done
  <2>4. UNCHANGED <<userSets, listed, redirectCounter, enabledFor, urlBlacklist, server>>
    BY <1>4 DEF Answer, store, planner
  <2>5. RequestsTyped' /\ ListsTyped'
    BY <1>0, <2>1, <2>2, <2>3, <2>4, RequestMoves, ListsSame
  <2>6. OwnTyped'
    BY <1>0, <2>4, OwnStays DEF OwnTyped
  <2> QED BY <2>5, <2>6, TypePartsNext
<1>5. ASSUME NEW t \in Tab, CloseTab(t) PROVE TypeOK'
  <2>1. /\ request' = [r \in Request |->
             IF request[r].phase \in {"asking", "redirected", "wire"} /\ request[r].tab = t
             THEN [phase |-> "cancelled"] ELSE request[r]]
        /\ listed' = [listed EXCEPT ![t] = << >>]
        /\ UNCHANGED <<userSets, redirectCounter, enabledFor, urlBlacklist, server>>
    BY <1>5 DEF CloseTab, store, planner
  <2>2. RequestsTyped'
    <3>1. RequestOK([phase |-> "cancelled"])
      BY DEF RequestOK, Phases
    <3>2. \A r \in Request : RequestOK(request'[r])
      BY <1>0, <2>1, <3>1 DEF RequestsTyped
    <3> QED BY <2>1, <3>2 DEF RequestsTyped, RequestOK, InFlight, Rules!URL
  <2>3. ListsTyped'
    <3> DEFINE new == [listed EXCEPT ![t] = << >>]
    <3>1. ListOK(<< >>)
      BY DEF ListOK
    <3>2. DOMAIN new = Tab /\ \A x \in Tab : ListOK(new[x])
      BY <1>0, <3>1 DEF ListsTyped
    <3> HIDE DEF new
    <3> QED BY <2>1, <3>2, ListsStay DEF new
  <2>4. OwnTyped'
    BY <1>0, <2>1, OwnStays DEF OwnTyped
  <2> QED BY <2>2, <2>3, <2>4, TypePartsNext
<1>6. ASSUME UNCHANGED <<own, server>>, enabledFor' \subseteq MayRecord, ListsTyped' PROVE TypeOK'
  <2>1. UNCHANGED <<request, redirectCounter, urlBlacklist, server>>
    BY <1>6 DEF own
  <2>2. RequestsTyped' /\ OwnTyped'
    BY <1>0, <1>6, <2>1 DEF RequestsTyped, RequestOK, InFlight, Rules!URL, OwnTyped
  <2> QED BY <1>6, <2>2, TypePartsNext
<1>7. ASSUME NEW t \in Tab, PopupToggle(t) PROVE TypeOK'
  <2>1. UNCHANGED <<own, server, enabledFor, userSets, listed>>
    BY <1>7 DEF PopupToggle, Rules!Toggle, own, planner
  <2> QED BY <1>0, <1>6, <2>1, ListsSame DEF OwnTyped
<1>8. ASSUME NEW t \in MayRecord, SwitchRecording(t) PROVE TypeOK'
  <2>1. UNCHANGED <<own, server, userSets, listed>> /\ enabledFor' \subseteq MayRecord
    BY <1>0, <1>8 DEF SwitchRecording, Planner!Enable, Planner!Disable, own, store, OwnTyped
  <2> QED BY <1>0, <1>6, <2>1, ListsSame
<1>9. CASE PopupAddRule
  <2>1. PICK params \in UserRuleParams : Store!AddUserRule(params)
    BY <1>9, SameUserSteps DEF PopupAddRule
  <2>2. UNCHANGED <<own, server, enabledFor, listed>>
    BY <1>9 DEF PopupAddRule, own, planner
  <2>3. ListsTyped'
    <3>1. \A t \in Tab : ListOK(listed[t])
      BY <1>0 DEF ListsTyped
    <3>2. ASSUME NEW list, ListOK(list) PROVE ListOK(list)'
      BY <1>0, <2>1, <3>2, AddKeepsLists
    <3> QED BY <1>0, <2>2, <3>1, <3>2 DEF ListsTyped, ListOK
  <2> QED BY <1>0, <1>6, <2>2, <2>3 DEF OwnTyped
<1>10. CASE CookieSeen
  <2>1. UNCHANGED <<own, server, enabledFor, userSets, listed>>
    BY <1>10 DEF CookieSeen, Rules!CheckCookieHost, own, planner
  <2> QED BY <1>0, <1>6, <2>1, ListsSame DEF OwnTyped
<1>11. CASE PreferenceStep
  <2>1. UNCHANGED <<own, server, enabledFor, userSets, listed>>
    BY <1>11 DEF PreferenceStep, own, planner, store
  <2> QED BY <1>0, <1>6, <2>1, ListsSame DEF OwnTyped
<1>12. CASE Restart
  <2>1. /\ listed' = [t \in Tab |-> << >>] /\ redirectCounter' = [r \in Request |-> 0]
        /\ urlBlacklist' = {} /\ enabledFor' = {} /\ UNCHANGED <<request, server>>
    BY <1>12 DEF Restart
  <2>2. RequestsTyped'
    BY <1>0, <2>1 DEF RequestsTyped, RequestOK, InFlight, Rules!URL
  <2>3. ListsTyped' /\ OwnTyped'
    BY <1>0, <2>1 DEF ListsTyped, ListOK, OwnTyped
  <2> QED BY <2>2, <2>3, TypePartsNext
<1>13. CASE UNCHANGED vars
  <2>1. UNCHANGED <<own, server, enabledFor, userSets, listed>>
    BY <1>13 DEF vars, own, planner, store
  <2> QED BY <1>0, <1>6, <2>1, ListsSame DEF OwnTyped
<1> QED BY <1>1, <1>2, <1>3, <1>4, <1>5, <1>7, <1>8, <1>9, <1>10, <1>11, <1>12, <1>13 DEF Next

(* The browser starts with no requests and the page with empty lists.      *)
LEMMA InvInit == Init => Inv
<1> SUFFICES ASSUME Init PROVE Inv
  OBVIOUS
<1>1. Store!Init
  BY SameLoading DEF Init
<1>2. StoreInv
  BY <1>1, Store!TypeInit, Store!CacheInvInit, StoreAssumptions DEF StoreInv
<1>3. /\ enabledFor = {} /\ request = [r \in Request |-> [phase |-> "none"]]
      /\ listed = [t \in Tab |-> << >>] /\ redirectCounter = [r \in Request |-> 0]
      /\ urlBlacklist = {} /\ server \in Sites
  BY DEF Init, NoRequest
<1>4. RequestsTyped
  <2>1. RequestOK([phase |-> "none"])
    BY DEF RequestOK, Phases
  <2> QED BY <1>3, <2>1 DEF RequestsTyped
<1>5. ListsTyped /\ OwnTyped
  BY <1>3 DEF ListsTyped, ListOK, OwnTyped
<1> QED BY <1>2, <1>4, <1>5, TypeParts DEF Inv

LEMMA InvNext == Inv /\ [Next]_vars => Inv'
BY StoreNext, TypeNext DEF Inv

(* Requests name URLs of the hosts in play, lists live rulesets under      *)
(* their own names (background.js 133-271, 496-525).                       *)
THEOREM RequestsAreTyped == Spec => []TypeOK
<1>1. Inv => TypeOK
  BY DEF Inv
<1> QED BY InvInit, InvNext, <1>1, PTL DEF Spec

-----------------------------------------------------------------------------
(* What goes out.                                                          *)

(* Only the handler's own returns let a request out, and never http while  *)
(* the mode is on.                                                         *)
LEMMA OnlyPassSends ==
  ASSUME Inv, [Next]_vars, NEW r \in Request, SentOut(r)
  PROVE  /\ onBeforeRequest(r) /\ Pass(r)
         /\ httpNowhereOn => request[r].url.scheme # "http"
<1>0. RequestsTyped /\ request[r].phase = "asking" /\ request'[r].phase = "wire"
  BY TypeParts DEF Inv, SentOut, Asking
<1>1. ASSUME NEW x \in Request, NEW t \in Tab, NEW u \in Page, NEW frame \in BOOLEAN,
             Start(x, t, u, frame)
      PROVE  FALSE
  BY <1>0, <1>1 DEF Start, NoRequest, RequestsTyped
<1>2. ASSUME NEW x \in Request, onBeforeRedirect(x) \/ Answer(x) PROVE FALSE
  BY <1>0, <1>2 DEF onBeforeRedirect, Answer, RequestsTyped
<1>3. ASSUME NEW t \in Tab, CloseTab(t) PROVE FALSE
  BY <1>0, <1>3 DEF CloseTab, RequestsTyped
<1>4. ASSUME request' = request PROVE FALSE
  BY <1>0, <1>4
<1>5. ASSUME NEW t \in Tab, PopupToggle(t) PROVE FALSE
  BY <1>4, <1>5 DEF PopupToggle, own
<1>6. ASSUME NEW t \in MayRecord, SwitchRecording(t) PROVE FALSE
  BY <1>4, <1>6 DEF SwitchRecording, own
<1>7. ~(PopupAddRule \/ CookieSeen \/ PreferenceStep \/ Restart \/ UNCHANGED vars)
  BY <1>4 DEF PopupAddRule, CookieSeen, PreferenceStep, Restart, vars, own
<1>8. PICK x \in Request : onBeforeRequest(x)
  BY <1>1, <1>2, <1>3, <1>5, <1>6, <1>7 DEF Next
<1>9. /\ Pass(x) \/ \E q : request' = [request EXCEPT ![x] = q] /\ q.phase # "wire"
      /\ Asking(x)
  <2>1. CASE PassBlacklisted(x) \/ PassUnlisted(x) \/ GiveUp(x)
    BY <2>1 DEF PassBlacklisted, PassUnlisted, GiveUp, LookUp
  <2>2. CASE ApplyRulesets(x)
    <3> DEFINE u  == request[x].url
               on == [phase |-> "redirected", url |-> u, tab |-> request[x].tab,
                      frame |-> request[x].frame, to |-> Rules!Rewrite(u)]
               off == [phase |-> "cancelled"]
    <3>1. \/ Pass(x)
          \/ request' = [request EXCEPT ![x] = off]
          \/ request' = [request EXCEPT ![x] = on]
      BY <1>0, <2>2 DEF ApplyRulesets, RequestsTyped
    <3>2. on.phase # "wire" /\ off.phase # "wire"
      OBVIOUS
    <3> HIDE DEF on, off
    <3>3. Asking(x)
      BY <2>2 DEF ApplyRulesets, LookUp
    <3> QED BY <3>1, <3>2, <3>3
  <2> QED BY <1>8, <2>1, <2>2 DEF onBeforeRequest
<1>10. x = r
  <2>1. CASE Pass(x)
    BY <1>0, <2>1 DEF Pass, RequestsTyped
  <2>2. CASE \E q : request' = [request EXCEPT ![x] = q] /\ q.phase # "wire"
    BY <1>0, <2>2 DEF RequestsTyped
  <2> QED BY <1>9, <2>1, <2>2
<1>11. Pass(r)
  BY <1>0, <1>9, <1>10 DEF RequestsTyped
<1>12. ~ShouldCancel(request[r].url)
  BY <1>0, <1>11 DEF Pass, RequestsTyped
<1> QED BY <1>8, <1>10, <1>11, <1>12 DEF ShouldCancel

(* A request goes out as it is only if no active ruleset would rewrite it  *)
(* now, whatever was cached before, or its URL was given up                *)
(* (background.js 196-258).                                                *)
THEOREM NothingSlips == Spec => NothingSlipsThrough
<1>1. ASSUME Inv, [Next]_vars, NEW r \in Request, SentOut(r)
      PROVE  Current(request[r].url) = None \/ request[r].url \in urlBlacklist'
  <2> DEFINE u == request[r].url
             h == request[r].url.host
  <2>1. onBeforeRequest(r) /\ Pass(r)
    BY <1>1, OnlyPassSends
  <2>2. h \in Host
    BY <1>1 DEF Inv, TypeOK, SentOut, Asking, Rules!URL
  <2>3. Rules!Applicable(h) = Rules!ComputeApplicable(h)
    BY <1>1, <2>2, ApplicableIsCurrent DEF Inv
  <2> HIDE DEF h
  <2>4. CASE PassBlacklisted(r) \/ GiveUp(r)
    BY <2>4 DEF PassBlacklisted, GiveUp, Blacklist
  <2>5. CASE PassUnlisted(r)
    <3>1. Rules!ComputeApplicable(h) = <<>>
      BY <2>3, <2>5 DEF PassUnlisted, h
    <3>2. Current(u) = Rules!FirstRewrite(<<>>, u)
      BY <3>1 DEF Current, h
    <3>3. Rules!FirstRewrite(<<>>, u) = None
      BY DEF Rules!FirstRewrite
    <3> QED BY <3>2, <3>3
  <2>6. CASE ApplyRulesets(r)
    <3>1. Rules!Rewrite(u) = Current(u)
      BY <2>3 DEF Rules!Rewrite, Current, h
    <3>2. CASE Rules!Rewrite(u) = None
      BY <3>1, <3>2
    <3>3. CASE Rules!Rewrite(u) # None
      <4>1. request'[r].phase # "wire"
        BY <1>1, <2>6, <3>3 DEF ApplyRulesets, Inv, TypeOK
      <4> QED BY <1>1, <4>1 DEF SentOut
    <3> QED BY <3>2, <3>3
  <2> QED BY <2>1, <2>4, <2>5, <2>6 DEF onBeforeRequest
<1>2. Inv /\ [Next]_vars =>
        [\A r \in Request : SentOut(r) =>
           Current(request[r].url) = None \/ request[r].url \in urlBlacklist']_vars
  BY <1>1
<1> QED BY <1>2, InvInit, InvNext, PTL DEF Spec, NothingSlipsThrough

(* With HTTP Nowhere on, none of the handler's returns lets http out       *)
(* (background.js 164, 181-258).                                           *)
THEOREM NowhereBlocks == Spec => NowhereHolds
<1>1. ASSUME Inv, [Next]_vars, NEW r \in Request, SentOut(r), httpNowhereOn
      PROVE  request[r].url.scheme = "https"
  <2>1. request[r].url.scheme # "http"
    BY <1>1, OnlyPassSends
  <2>2. request[r].url \in Rules!URL
    BY <1>1 DEF Inv, TypeOK, SentOut, Asking
  <2> QED BY <2>1, <2>2 DEF Rules!URL
<1>2. Inv /\ [Next]_vars =>
        [\A r \in Request : SentOut(r) /\ httpNowhereOn => request[r].url.scheme = "https"]_vars
  BY <1>1
<1> QED BY <1>2, InvInit, InvNext, PTL DEF Spec, NowhereHolds

(* The popup lists every ruleset that applies to the page a tab goes to    *)
(* (background.js 235-237, 99-110).                                        *)
THEOREM RulesetsAreListed == Spec => PageRulesetsListed
<1>1. ASSUME Inv, [Next]_vars, NEW r \in Request, SentOut(r), request[r].frame,
             request[r].url \notin urlBlacklist',
             NEW i \in DOMAIN Rules!ComputeApplicable(request[r].url.host)
      PROVE  Rules!Name(Rules!ComputeApplicable(request[r].url.host)[i])
               \in DOMAIN listed'[request[r].tab]
  <2> DEFINE t == request[r].tab
             h == request[r].url.host
             rulesets == Rules!Applicable(h)
             before == ListBefore(r)
  <2>1. onBeforeRequest(r)
    BY <1>1, OnlyPassSends
  <2>2. h \in Host /\ t \in Tab
    BY <1>1 DEF Inv, TypeOK, SentOut, Asking, Rules!URL
  <2>3. rulesets = Rules!ComputeApplicable(h) /\ rulesets \in Seq(Rules!Live)
    BY <1>1, <2>2, ApplicableIsCurrent DEF Inv
  <2>4. ~(PassBlacklisted(r) \/ GiveUp(r))
    BY <1>1 DEF PassBlacklisted, GiveUp, Blacklist
  <2>5. ~PassUnlisted(r)
    <3>1. rulesets # <<>>
      BY <1>1, <2>3
    <3> QED BY <3>1 DEF PassUnlisted
  <2>6. listed' = [before EXCEPT ![t] = ListWith(before[t], rulesets)]
    BY <2>1, <2>4, <2>5 DEF onBeforeRequest, ApplyRulesets
  <2>7. DOMAIN before = Tab /\ ListOK(before[t])
    BY <1>1, <2>2, TypeParts, ListBeforeTyped DEF Inv
  <2> HIDE DEF rulesets, before
  <2>8. Rules!Name(rulesets[i]) \in DOMAIN ListWith(before[t], rulesets)
    BY <1>1, <2>3, <2>7, ListWithTyped
  <2>9. listed'[t] = ListWith(before[t], rulesets)
    BY <2>2, <2>6, <2>7
  <2> QED BY <2>3, <2>8, <2>9
<1>2. Inv /\ [Next]_vars =>
        [\A r \in Request :
           SentOut(r) /\ request[r].frame /\ request[r].url \notin urlBlacklist' =>
             \A i \in DOMAIN Rules!ComputeApplicable(request[r].url.host) :
               Rules!Name(Rules!ComputeApplicable(request[r].url.host)[i])
                 \in DOMAIN listed'[request[r].tab]]_vars
  BY <1>1
<1> QED BY <1>2, InvInit, InvNext, PTL DEF Spec, PageRulesetsListed

-----------------------------------------------------------------------------
(* URLs given up.                                                          *)

(* onBeforeRequest blacklists the URL and its host together, and only a    *)
(* restart, which forgets both, takes any of them back.                    *)
HostsGivenUp == \A u \in urlBlacklist : u.host \in domainBlacklist

LEMMA HostsGivenUpNext == HostsGivenUp /\ [Next]_vars => HostsGivenUp'
<1> SUFFICES ASSUME HostsGivenUp, [Next]_vars PROVE HostsGivenUp'
  OBVIOUS
<1>0. ASSUME UNCHANGED urlBlacklist, domainBlacklist \subseteq domainBlacklist' PROVE HostsGivenUp'
  BY <1>0 DEF HostsGivenUp
<1>1. ASSUME NEW r \in Request, NEW t \in Tab, NEW u \in Page, NEW frame \in BOOLEAN,
             Start(r, t, u, frame)
      PROVE  HostsGivenUp'
  BY <1>0, <1>1 DEF Start, store
<1>2. ASSUME NEW r \in Request, onBeforeRedirect(r) \/ Answer(r) \/ PassBlacklisted(r)
      PROVE  HostsGivenUp'
  BY <1>0, <1>2 DEF onBeforeRedirect, Answer, PassBlacklisted, store
<1>3. ASSUME NEW r \in Request, PassUnlisted(r) \/ ApplyRulesets(r) PROVE HostsGivenUp'
  BY <1>0, <1>3 DEF PassUnlisted, ApplyRulesets
<1>4. ASSUME NEW r \in Request, GiveUp(r) PROVE HostsGivenUp'
  BY <1>4 DEF GiveUp, Blacklist, HostsGivenUp
<1>5. ASSUME NEW t \in Tab, CloseTab(t) PROVE HostsGivenUp'
  BY <1>0, <1>5 DEF CloseTab, store
<1>6. ASSUME NEW t \in Tab, PopupToggle(t) PROVE HostsGivenUp'
  BY <1>0, <1>6 DEF PopupToggle, Rules!Toggle, own
<1>7. ASSUME NEW t \in MayRecord, SwitchRecording(t) PROVE HostsGivenUp'
  BY <1>0, <1>7 DEF SwitchRecording, store, own
<1>8. CASE PopupAddRule
  BY <1>0, <1>8 DEF PopupAddRule, Rules!AddUserRule, own
<1>9. CASE CookieSeen
  BY <1>0, <1>9 DEF CookieSeen, Rules!CheckCookieHost, own
<1>10. CASE PreferenceStep
  BY <1>0, <1>10 DEF PreferenceStep, store, own
<1>11. CASE Restart
  BY <1>11 DEF Restart, HostsGivenUp
<1>12. CASE UNCHANGED vars
  BY <1>0, <1>12 DEF vars, store, own
<1> QED BY <1>1, <1>2, <1>3, <1>4, <1>5, <1>6, <1>7, <1>8, <1>9, <1>10, <1>11, <1>12
        DEF Next, onBeforeRequest

(* A host with a URL given up counts as served over http: no cookie of it  *)
(* is secured, whatever cookieHostCache holds (background.js 222-229,      *)
(* rules.js 344-358).                                                      *)
THEOREM GivenUpKeepCookies == Spec => []GivenUpHostsKeepCookies
<1>1. Init => HostsGivenUp
  BY DEF Init, HostsGivenUp
<1>2. HostsGivenUp => GivenUpHostsKeepCookies
  BY DEF HostsGivenUp, GivenUpHostsKeepCookies, Rules!Safe
<1> QED BY <1>1, <1>2, HostsGivenUpNext, PTL DEF Spec
=============================================================================
