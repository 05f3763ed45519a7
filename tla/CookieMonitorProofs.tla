------------------------ MODULE CookieMonitorProofs ------------------------
(***************************************************************************)
(* Proofs about CookieMonitor, on top of those about RuleStore: a cookie   *)
(* is only secured if it may be, and while the rulesets stay as they are   *)
(* no cookie that should be secured is forgotten.  Store is RuleStore with *)
(* its theorems; Rules, which CookieMonitor uses, is the same without      *)
(* them, and the first lemmas say so.                                      *)
(***************************************************************************)
EXTENDS CookieMonitor, TLAPS

Store == INSTANCE RuleStoreProofs

-----------------------------------------------------------------------------
(* Store and Rules define the same operators.                              *)

LEMMA SameCaches ==
  ASSUME NEW c, NEW k, NEW v
  PROVE  /\ Store!RuleCache!Has(c, k) <=> Rules!RuleCache!Has(c, k)
         /\ Store!RuleCache!Touch(c, k) = Rules!RuleCache!Touch(c, k)
         /\ Store!RuleCache!Drop(c, k) = Rules!RuleCache!Drop(c, k)
         /\ Store!RuleCache!Store(c, k, v) = Rules!RuleCache!Store(c, k, v)
         /\ Store!RuleCache!EmptyCache(v) = Rules!RuleCache!EmptyCache(v)
         /\ Store!CookieHosts!Has(c, k) <=> Rules!CookieHosts!Has(c, k)
         /\ Store!CookieHosts!Touch(c, k) = Rules!CookieHosts!Touch(c, k)
         /\ Store!CookieHosts!Store(c, k, v) = Rules!CookieHosts!Store(c, k, v)
         /\ Store!CookieHosts!EmptyCache(v) = Rules!CookieHosts!EmptyCache(v)
<1>1. Store!RuleCache!Has(c, k) <=> Rules!RuleCache!Has(c, k)
  BY DEF Store!RuleCache!Has, Rules!RuleCache!Has
<1>2. Store!RuleCache!Touch(c, k) = Rules!RuleCache!Touch(c, k)
  BY <1>1 DEF Store!RuleCache!Touch, Rules!RuleCache!Touch, Store!RuleCache!Without, Rules!RuleCache!Without,
     Store!RuleCache!Range, Rules!RuleCache!Range, Store!RuleCache!RemoveAt, Rules!RuleCache!RemoveAt
<1>3. Store!RuleCache!Drop(c, k) = Rules!RuleCache!Drop(c, k)
  BY DEF Store!RuleCache!Drop, Rules!RuleCache!Drop, Store!RuleCache!Without, Rules!RuleCache!Without,
     Store!RuleCache!Range, Rules!RuleCache!Range, Store!RuleCache!RemoveAt, Rules!RuleCache!RemoveAt,
     Store!RuleCache!Restrict, Rules!RuleCache!Restrict
<1>4. Store!RuleCache!Store(c, k, v) = Rules!RuleCache!Store(c, k, v)
  BY DEF Store!RuleCache!Store, Rules!RuleCache!Store, Store!RuleCache!Victims, Rules!RuleCache!Victims,
     Store!RuleCache!Full, Rules!RuleCache!Full
<1>5. Store!RuleCache!EmptyCache(v) = Rules!RuleCache!EmptyCache(v)
  BY DEF Store!RuleCache!EmptyCache, Rules!RuleCache!EmptyCache
<1>6. Store!CookieHosts!Has(c, k) <=> Rules!CookieHosts!Has(c, k)
  BY DEF Store!CookieHosts!Has, Rules!CookieHosts!Has
<1>7. Store!CookieHosts!Touch(c, k) = Rules!CookieHosts!Touch(c, k)
  BY <1>6 DEF Store!CookieHosts!Touch, Rules!CookieHosts!Touch, Store!CookieHosts!Without, Rules!CookieHosts!Without,
     Store!CookieHosts!Range, Rules!CookieHosts!Range, Store!CookieHosts!RemoveAt, Rules!CookieHosts!RemoveAt
<1>8. Store!CookieHosts!Store(c, k, v) = Rules!CookieHosts!Store(c, k, v)
  BY DEF Store!CookieHosts!Store, Rules!CookieHosts!Store, Store!CookieHosts!Victims, Rules!CookieHosts!Victims,
     Store!CookieHosts!Full, Rules!CookieHosts!Full
<1>9. Store!CookieHosts!EmptyCache(v) = Rules!CookieHosts!EmptyCache(v)
  BY DEF Store!CookieHosts!EmptyCache, Rules!CookieHosts!EmptyCache
<1> QED BY <1>1, <1>2, <1>3, <1>4, <1>5, <1>6, <1>7, <1>8, <1>9

LEMMA SameRules ==
  ASSUME NEW r, NEW users, NEW set, NEW u, NEW choices
  PROVE  /\ Store!Live = Rules!Live
         /\ Store!RuleSet(r, users) = Rules!RuleSet(r, users)
         /\ Store!Name(r) = Rules!Name(r)
         /\ Store!Apply(set, u) = Rules!Apply(set, u)
         /\ Store!InitialState(set, choices) = Rules!InitialState(set, choices)
<1>1. Store!Live = Rules!Live
  BY DEF Store!Live, Rules!Live
<1>2. Store!URL = Rules!URL
  BY DEF Store!URL, Rules!URL
<1>3. \A x, y : Store!RuleSet(x, y) = Rules!RuleSet(x, y)
  BY <1>2 DEF Store!RuleSet, Rules!RuleSet
<1>4. Store!Name(r) = Rules!Name(r)
  BY <1>3 DEF Store!Name, Rules!Name
<1>5. Store!Apply(set, u) = Rules!Apply(set, u)
  BY DEF Store!Apply, Rules!Apply
<1>6. Store!InitialState(set, choices) = Rules!InitialState(set, choices)
  BY DEF Store!InitialState, Rules!InitialState
<1> QED BY <1>1, <1>3, <1>4, <1>5, <1>6

LEMMA SameLookups ==
  ASSUME NEW h, NEW rulesets, NEW u
  PROVE  /\ Store!ComputeApplicable(h) = Rules!ComputeApplicable(h)
         /\ Store!Applicable(h) = Rules!Applicable(h)
         /\ Store!CacheAfter(h) = Rules!CacheAfter(h)
         /\ Store!FirstRewrite(rulesets, u) = Rules!FirstRewrite(rulesets, u)
         /\ Store!Rewrite(u) = Rules!Rewrite(u)
<1>1. \A x : Store!ComputeApplicable(x) = Rules!ComputeApplicable(x)
  <2> TAKE x
  <2>1. Store!Probes(x) = Rules!Probes(x)
    BY DEF Store!Probes, Rules!Probes, Store!Star, Rules!Star
  <2>2. \A t : Store!Indexed(t) = Rules!Indexed(t)
    BY DEF Store!Indexed, Rules!Indexed
  <2>3. \A s : Store!Merge(s) = Rules!Merge(s)
    BY DEF Store!Merge, Rules!Merge, Store!setInsert, Rules!setInsert,
           Store!FoldLeft, Rules!FoldLeft, Store!MapThenFoldSet, Rules!MapThenFoldSet,
           Store!Contains, Rules!Contains, Store!Max, Rules!Max
  <2> QED BY <2>1, <2>2, <2>3 DEF Store!ComputeApplicable, Rules!ComputeApplicable
<1>2. \A x : Store!Applicable(x) = Rules!Applicable(x)
  BY <1>1, SameCaches DEF Store!Applicable, Rules!Applicable
<1>3. Store!CacheAfter(h) = Rules!CacheAfter(h)
  BY <1>1, SameCaches DEF Store!CacheAfter, Rules!CacheAfter
<1>4. \A s, v : Store!FirstRewrite(s, v) = Rules!FirstRewrite(s, v)
  <2> TAKE s, v
  <2> DEFINE there(x) == Store!Apply(Store!RuleSet(x, userSets), v)
             here(x)  == Rules!Apply(Rules!RuleSet(x, userSets), v)
             hits     == {i \in DOMAIN s : active[s[i]] /\ here(s[i]) # None}
             theirs   == {i \in DOMAIN s : active[s[i]] /\ there(s[i]) # None}
  <2>1. \A x : there(x) = here(x)
    BY SameRules
  <2>2. theirs = hits
    BY <2>1
  <2>3. Store!FirstRewrite(s, v) =
          IF theirs = {} THEN None ELSE there(s[CHOOSE i \in theirs : \A j \in theirs : i <= j])
    BY Zenon DEF Store!FirstRewrite
  <2>4. Rules!FirstRewrite(s, v) =
          IF hits = {} THEN None ELSE here(s[CHOOSE i \in hits : \A j \in hits : i <= j])
    BY Zenon DEF Rules!FirstRewrite
  <2> HIDE DEF there, here, hits, theirs
  <2> QED BY <2>1, <2>2, <2>3, <2>4, Zenon
<1>5. Store!Rewrite(u) = Rules!Rewrite(u)
  BY <1>2, <1>4 DEF Store!Rewrite, Rules!Rewrite
<1> QED BY <1>1, <1>2, <1>3, <1>4, <1>5

LEMMA SameCookieCheck ==
  ASSUME NEW h
  PROVE  /\ Store!Safe(h) <=> Rules!Safe(h)
         /\ Store!CheckCookieHost(h) <=> Rules!CheckCookieHost(h)
<1>1. Store!WouldRewrite(h) = Rules!WouldRewrite(h)
  BY SameLookups DEF Store!WouldRewrite, Rules!WouldRewrite, Store!TestURL, Rules!TestURL
<1>2. Store!Safe(h) <=> Rules!Safe(h)
  BY <1>1, SameCaches DEF Store!Safe, Rules!Safe
<1>3. Store!SafeEffect(h) <=> Rules!SafeEffect(h)
  BY <1>1, SameCaches, SameLookups DEF Store!SafeEffect, Rules!SafeEffect
<1>4. Store!SecureEffect(h) <=> Rules!SecureEffect(h)
  BY <1>2, <1>3, SameCaches, SameLookups DEF Store!SecureEffect, Rules!SecureEffect
<1> QED BY <1>2, <1>4 DEF Store!CheckCookieHost, Rules!CheckCookieHost, Store!storage, Rules!storage

LEMMA SameIndex ==
  ASSUME NEW index, NEW key, NEW r, NEW stored
  PROVE  /\ Store!Push(index, key, r) = Rules!Push(index, key, r)
         /\ Store!BuiltinIndex = Rules!BuiltinIndex
         /\ Store!LoadedIndex(stored) = Rules!LoadedIndex(stored)
<1>1. \A x, y, z : Store!Push(x, y, z) = Rules!Push(x, y, z)
  BY DEF Store!Push, Rules!Push
<1>2. Store!BuiltinIndex = Rules!BuiltinIndex
  BY DEF Store!BuiltinIndex, Rules!BuiltinIndex, Store!Declaring, Rules!Declaring,
         Store!FoldLeft, Rules!FoldLeft, Store!MapThenFoldSet, Rules!MapThenFoldSet,
         Store!Max, Rules!Max
<1>3. Store!LoadedIndex(stored) = Rules!LoadedIndex(stored)
  BY <1>2 DEF Store!LoadedIndex, Rules!LoadedIndex, Store!Push, Rules!Push,
         Store!FoldLeftDomain, Rules!FoldLeftDomain,
         Store!FoldLeft, Rules!FoldLeft, Store!MapThenFoldSet, Rules!MapThenFoldSet,
         Store!Max, Rules!Max
<1> QED BY <1>1, <1>2, <1>3

LEMMA SameLoading ==
  ASSUME NEW users, NEW choices
  PROVE  /\ Store!Loaded(users, choices) = Rules!Loaded(users, choices)
         /\ Store!Init <=> Rules!Init
         /\ Store!Reload <=> Rules!Reload
<1>1. \A x, y : Store!Loaded(x, y) = Rules!Loaded(x, y)
  <2>1. \A r, x, set, y : /\ Store!RuleSet(r, x) = Rules!RuleSet(r, x)
                          /\ Store!InitialState(set, y) = Rules!InitialState(set, y)
    BY SameRules
  <2> QED BY <2>1 DEF Store!Loaded, Rules!Loaded
<1>2. Store!Init <=> Rules!Init
  BY <1>1, SameIndex, SameCaches DEF Store!Init, Rules!Init
<1>3. Store!Reload <=> Rules!Reload
  BY <1>1, SameIndex, SameCaches DEF Store!Reload, Rules!Reload, Store!storage, Rules!storage
<1> QED BY <1>1, <1>2, <1>3

LEMMA SameUserSteps ==
  ASSUME NEW r, NEW params
  PROVE  /\ Store!Toggle(r) <=> Rules!Toggle(r)
         /\ Store!AddUserRule(params) <=> Rules!AddUserRule(params)
<1>1. \A set, b : Store!StoredChoices(set, b) = Rules!StoredChoices(set, b)
  BY DEF Store!StoredChoices, Rules!StoredChoices, Store!Restrict, Rules!Restrict
<1>2. Store!Toggle(r) <=> Rules!Toggle(r)
  <2>1. Store!Namesakes(r) = Rules!Namesakes(r)
    BY SameRules DEF Store!Namesakes, Rules!Namesakes, Store!Name, Rules!Name,
                     Store!Live, Rules!Live
  <2> QED BY <1>1, <2>1, SameRules, SameCaches DEF Store!Toggle, Rules!Toggle
<1>3. \A host : Store!Purged(host) = Rules!Purged(host)
  BY SameCaches DEF Store!Purged, Rules!Purged
<1>4. Store!AddUserRule(params) <=> Rules!AddUserRule(params)
  <2>1. \A x, y, z, users, set, choices :
          /\ Store!Live = Rules!Live
          /\ Store!Push(x, y, z) = Rules!Push(x, y, z)
          /\ Store!RuleSet(x, users) = Rules!RuleSet(x, users)
          /\ Store!InitialState(set, choices) = Rules!InitialState(set, choices)
    BY SameRules, SameIndex
  <2> QED BY <1>3, <2>1 DEF Store!AddUserRule, Rules!AddUserRule
<1> QED BY <1>2, <1>4

(* Store assumes no more of the constants than is assumed here.            *)
LEMMA StoreAssumptions ==
  /\ Store!UserRuleHosts /\ Store!BuiltinNames /\ Store!HostNames
  /\ Store!CacheLimits /\ Store!BuiltinTypes
<1>1. Store!UserRuleHosts
  BY RulesAssumptions DEF Store!UserRuleHosts, Rules!UserRuleHosts,
     Store!Probes, Rules!Probes, Store!Star, Rules!Star, Store!Range, Rules!Range
<1>2. Store!BuiltinNames /\ Store!CacheLimits /\ Store!BuiltinTypes
  BY RulesAssumptions DEF Store!BuiltinNames, Rules!BuiltinNames, Store!CacheLimits,
     Rules!CacheLimits, Store!BuiltinTypes, Rules!BuiltinTypes
<1>3. Store!HostNames
  BY RulesAssumptions DEF Store!HostNames, Rules!HostNames, Store!Range, Rules!Range
<1> QED BY <1>1, <1>2, <1>3

-----------------------------------------------------------------------------
(* The store's invariants.                                                 *)

StoreInv == Store!TypeInv /\ Store!CacheInv

(* Steps of the store keep its invariants.                                 *)
LEMMA StoreSteps ==
  ASSUME StoreInv, Store!Next \/ UNCHANGED Store!vars
  PROVE  StoreInv'
<1>1. [Store!Next]_(Store!vars)
  OBVIOUS
<1>2. Store!TypeInv /\ Store!CacheInv
  BY DEF StoreInv
<1>3. Store!TypeInv'
  BY <1>1, <1>2, Store!TypeNext, StoreAssumptions
<1>4. Store!CacheInv'
  BY <1>1, <1>2, Store!CacheInvNext, StoreAssumptions
<1> QED BY <1>3, <1>4 DEF StoreInv

LEMMA StoreStays ==
  ASSUME StoreInv, UNCHANGED store
  PROVE  StoreInv'
<1>1. UNCHANGED Store!vars
  BY DEF store, Store!vars, Store!memory, Store!storage
<1> QED BY <1>1, StoreSteps

(* A cached answer is the current one, and lists live rulesets.            *)
LEMMA ApplicableIsCurrent ==
  ASSUME StoreInv, NEW h \in Host
  PROVE  /\ Rules!Applicable(h) = Rules!ComputeApplicable(h)
         /\ Rules!Applicable(h) \in Seq(Rules!Live)
<1>1. Store!ComputeApplicable(h) \in Seq(Store!Live)
  <2>1. targets \in Store!Indexes(Store!Live)
    BY DEF StoreInv, Store!TypeInv
  <2> QED BY <2>1, Store!ApplicableTyped, StoreAssumptions
<1>2. Store!Applicable(h) = Store!ComputeApplicable(h)
  BY DEF StoreInv, Store!CacheInv, Store!RuleCacheCoherent, Store!Applicable, Store!RuleCache!Has
<1> QED BY <1>1, <1>2, SameLookups, SameRules

-----------------------------------------------------------------------------
(* What is known in every state.                                           *)

(* What SettledSecured calls Covered, without the cache of the rulesets.   *)
Rewritten(h) == Rules!FirstRewrite(Rules!ComputeApplicable(h), Rules!TestURL(h)) # None

Wanted(c) ==
  LET rulesets == Rules!ComputeApplicable(Domain[c])
  IN /\ Domain[c] \notin domainBlacklist /\ Rewritten(Domain[c])
     /\ \E i \in DOMAIN rulesets :
          active[rulesets[i]] /\ c \in Rules!RuleSet(rulesets[i], userSets).cookies

(* As long as the rulesets stay as they are, so do these answers.          *)
CookieHostsRight ==
  \A h \in DOMAIN cookieHostCache.val : cookieHostCache.val[h] = Rewritten(h)

(* The handler has yet to hear of the cookie, or has made its call.        *)
Pending(c) ==
  \/ \E i \in DOMAIN events : ~Ignored(events[i]) /\ events[i].cookie = c
  \/ \E i \in DOMAIN calls : calls[i].cookie = c

NoneForgotten ==
  \A c \in Cookie : Wanted(c) /\ jar[c] # None => jar[c].secure \/ Pending(c)

SteadyInv == changes = 0 => CookieHostsRight /\ NoneForgotten

Inv == StoreInv /\ TypeOK /\ SteadyInv
-----------------------------------------------------------------------------
(* The store.                                                              *)

LEMMA CookieCheckIsStoreStep ==
  ASSUME TypeOK, onCookieChanged, ~Ignored(Head(events))
  PROVE  /\ Head(events).cookie \in Cookie /\ Domain[Head(events).cookie] \in Host
         /\ Head(events).value \in CookieValue
         /\ Store!CheckCookieHost(Domain[Head(events).cookie])
         /\ calls' = IF ShouldSecure(Head(events).cookie)
                     THEN Append(calls, SetCall(Head(events))) ELSE calls
<1> DEFINE change == Head(events)
<1>1. change \in Changes
  BY DEF TypeOK, onCookieChanged
<1>2. change.cookie \in Cookie /\ change.value \in CookieValue
  BY <1>1 DEF Changes, Ignored
<1>3. Domain[change.cookie] \in Host
  BY <1>2, CookieDomains
<1>4. /\ Rules!SecureEffect(Domain[change.cookie])
      /\ calls' = IF ShouldSecure(change.cookie) THEN Append(calls, SetCall(change)) ELSE calls
      /\ UNCHANGED <<targets, userSets, active, domainBlacklist, prefs, userRules, unstored>>
  BY DEF onCookieChanged
<1>5. Rules!CheckCookieHost(Domain[change.cookie])
  BY <1>4 DEF Rules!CheckCookieHost, Rules!storage
<1>6. Store!CheckCookieHost(Domain[change.cookie])
  BY <1>5, SameCookieCheck
<1> QED BY <1>2, <1>3, <1>4, <1>6

LEMMA StoreNext ==
  ASSUME StoreInv, TypeOK, [Next]_vars
  PROVE  StoreInv'
<1>1. ASSUME NEW h \in Host, Store!Lookup(h) \/ Store!BlacklistDomain(h) \/ Store!CheckCookieHost(h)
      PROVE  StoreInv'
  BY <1>1, StoreSteps DEF Store!Next
<1>2. ASSUME NEW c \in Cookie, NEW v \in CookieValue, NEW secure \in BOOLEAN, SiteSets(c, v, secure)
      PROVE  StoreInv'
  BY <1>2, StoreStays DEF SiteSets
<1>3. ASSUME NEW c \in Cookie, SiteDeletes(c) PROVE StoreInv'
  BY <1>3, StoreStays DEF SiteDeletes
<1>4. CASE ExecuteSet
  BY <1>4, StoreStays DEF ExecuteSet
<1>5. CASE onCookieChanged
  <2>1. CASE Ignored(Head(events))
    BY <1>5, <2>1, StoreStays DEF onCookieChanged, store
  <2>2. CASE ~Ignored(Head(events))
    BY <1>1, <1>5, <2>2, CookieCheckIsStoreStep
  <2> QED BY <2>1, <2>2
<1>6. CASE RulesChange
  <2>1. CASE \E r \in Rules!Live : Rules!Toggle(r)
    <3>1. PICK r \in Store!Live : Store!Toggle(r)
      BY <2>1, SameRules, SameUserSteps
    <3> QED BY <3>1, StoreSteps DEF Store!Next
  <2>2. CASE \E h \in Host : Rules!BlacklistDomain(h)
    <3>1. PICK h \in Host : Store!BlacklistDomain(h)
      BY <2>2, SameLookups DEF Rules!BlacklistDomain, Store!BlacklistDomain, Rules!storage, Store!storage
    <3> QED BY <1>1, <3>1
  <2>3. CASE \E params \in UserRuleParams : Rules!AddUserRule(params)
    <3>1. PICK params \in UserRuleParams : Store!AddUserRule(params)
      BY <2>3, SameUserSteps
    <3> QED BY <3>1, StoreSteps DEF Store!Next
  <2> QED BY <1>6, <2>1, <2>2, <2>3 DEF RulesChange
<1>7. CASE Restart
  <2>1. Store!Reload
    BY <1>7, SameLoading DEF Restart
  <2> QED BY <2>1, StoreSteps DEF Store!Next
<1>8. CASE RequestSeen
  <2>1. PICK h \in Host : Store!Lookup(h)
    BY <1>8, SameLookups DEF RequestSeen, Rules!Lookup, Store!Lookup, Rules!storage, Store!storage
  <2> QED BY <1>1, <2>1
<1>9. CASE UNCHANGED vars
  BY <1>9, StoreStays DEF vars
<1> QED BY <1>2, <1>3, <1>4, <1>5, <1>6, <1>7, <1>8, <1>9 DEF Next

-----------------------------------------------------------------------------
(* The jar and the two queues keep their types.                            *)

Jars == [Cookie -> [value : CookieValue, secure : BOOLEAN] \cup {None}]

LEMMA TypePartsNext ==
  /\ jar' \in Jars /\ events' \in Seq(Changes) /\ calls' \in Seq(Calls)
  /\ siteOps' \in Nat /\ changes' \in Nat
  => TypeOK'
BY DEF TypeOK, Jars, Changes, Calls

LEMMA PutTyped ==
  ASSUME TypeOK, NEW c \in Cookie, NEW v \in CookieValue, NEW secure \in BOOLEAN, Put(c, v, secure)
  PROVE  jar' \in Jars /\ events' \in Seq(Changes)
<1>1. Added(c, v, secure) \in Changes
  BY DEF Added, Changes
<1>2. [value |-> v, secure |-> secure] \in [value : CookieValue, secure : BOOLEAN]
  OBVIOUS
<1> QED BY <1>1, <1>2 DEF Put, TypeOK, Jars

LEMMA TypeNext ==
  ASSUME TypeOK, [Next]_vars
  PROVE  TypeOK'
<1>1. ASSUME NEW c \in Cookie, NEW v \in CookieValue, NEW secure \in BOOLEAN, SiteSets(c, v, secure)
      PROVE  TypeOK'
  <2>1. Put(c, v, secure) /\ UNCHANGED <<calls, changes>> /\ siteOps' = siteOps + 1
    BY <1>1 DEF SiteSets, SiteOp
  <2> QED BY <2>1, PutTyped, TypePartsNext DEF TypeOK
<1>2. ASSUME NEW c \in Cookie, SiteDeletes(c) PROVE TypeOK'
  <2>1. Removed(c) \in Changes
    BY DEF Removed, Changes
  <2>2. /\ jar' = [jar EXCEPT ![c] = None] /\ events' = Append(events, Removed(c))
        /\ UNCHANGED <<calls, changes>> /\ siteOps' = siteOps + 1
    BY <1>2 DEF SiteDeletes, SiteOp
  <2>3. events' \in Seq(Changes)
    BY <2>1, <2>2 DEF TypeOK
  <2> QED BY <2>2, <2>3, TypePartsNext DEF TypeOK, Jars
<1>3. CASE ExecuteSet
  <2>1. Head(calls) \in Calls /\ Tail(calls) \in Seq(Calls)
    BY <1>3 DEF ExecuteSet, TypeOK
  <2>2. Head(calls).cookie \in Cookie /\ Head(calls).value \in CookieValue
    BY <2>1 DEF Calls
  <2>3. /\ Put(Head(calls).cookie, Head(calls).value, TRUE) /\ calls' = Tail(calls)
        /\ UNCHANGED <<siteOps, changes>>
    BY <1>3 DEF ExecuteSet
  <2> QED BY <2>1, <2>2, <2>3, PutTyped, TypePartsNext DEF TypeOK
<1>4. CASE onCookieChanged
  <2>1. events # <<>> /\ events' = Tail(events) /\ UNCHANGED <<jar, siteOps, changes>>
    BY <1>4 DEF onCookieChanged
  <2>2. calls' \in Seq(Calls)
    <3>1. CASE Ignored(Head(events))
      BY <1>4, <3>1 DEF onCookieChanged, TypeOK
    <3>2. CASE ~Ignored(Head(events))
      <4>1. SetCall(Head(events)) \in Calls
        BY <1>4, <3>2, CookieCheckIsStoreStep DEF SetCall, Calls
      <4>2. calls' = Append(calls, SetCall(Head(events))) \/ calls' = calls
        BY <1>4, <3>2, CookieCheckIsStoreStep
      <4>3. calls \in Seq(Calls)
        BY DEF TypeOK
      <4> QED BY <4>1, <4>2, <4>3
    <3> QED BY <3>1, <3>2
  <2>3. events' \in Seq(Changes)
    BY <2>1 DEF TypeOK
  <2> QED BY <2>1, <2>2, <2>3, TypePartsNext DEF TypeOK, Jars
<1>5. CASE RulesChange
  <2>1. UNCHANGED <<jar, events, calls, siteOps>> /\ changes' = changes + 1
    BY <1>5 DEF RulesChange, Change
  <2> QED BY <2>1, TypePartsNext DEF TypeOK, Jars
<1>6. CASE Restart
  <2>1. events' = <<>> /\ UNCHANGED <<jar, calls, siteOps>> /\ changes' = changes + 1
    BY <1>6 DEF Restart, Change
  <2> QED BY <2>1, TypePartsNext DEF TypeOK, Jars
<1>7. CASE RequestSeen
  BY <1>7 DEF RequestSeen, TypeOK, Calls, Changes
<1>8. CASE UNCHANGED vars
  BY <1>8 DEF vars, TypeOK, Calls, Changes
<1> QED BY <1>1, <1>2, <1>3, <1>4, <1>5, <1>6, <1>7, <1>8 DEF Next

(* Nothing is in the jar at first, and the caches are empty.               *)
LEMMA StoreTypeInit == Init => StoreInv /\ TypeOK
<1> SUFFICES ASSUME Init PROVE StoreInv /\ TypeOK
  OBVIOUS
<1>1. Store!Init
  BY SameLoading DEF Init
<1>2. StoreInv
  BY <1>1, Store!TypeInit, Store!CacheInvInit, StoreAssumptions DEF StoreInv
<1>3. jar = [c \in Cookie |-> None] /\ events = <<>> /\ calls = <<>> /\ siteOps = 0 /\ changes = 0
  BY DEF Init
<1>4. TypeOK
  BY <1>3 DEF TypeOK
<1> QED BY <1>2, <1>4

-----------------------------------------------------------------------------
(* Securing a cookie.                                                      *)

(* The handler asks for the rulesets through the cache, which answers what *)
(* the index gives now.                                                    *)
LEMMA CookierulesAreCurrent ==
  ASSUME StoreInv, NEW c \in Cookie
  PROVE  HasCookierule(c) <=>
           LET rulesets == Rules!ComputeApplicable(Domain[c])
           IN \E i \in DOMAIN rulesets :
                active[rulesets[i]] /\ c \in Rules!RuleSet(rulesets[i], userSets).cookies
<1>1. Rules!Applicable(Domain[c]) = Rules!ComputeApplicable(Domain[c])
  BY CookieDomains, ApplicableIsCurrent
<1> QED BY <1>1 DEF HasCookierule

(* Only onCookieChanged makes calls.                                       *)
LEMMA OnlyHandlerCalls ==
  ASSUME TypeOK, [Next]_vars, Len(calls') > Len(calls)
  PROVE  /\ onCookieChanged /\ ~Ignored(Head(events))
         /\ ShouldSecure(Head(events).cookie)
         /\ calls' = Append(calls, SetCall(Head(events)))
<1>0. calls \in Seq(Calls)
  BY DEF TypeOK
<1>1. calls' # calls
  BY <1>0
<1>2. ~ExecuteSet
  <2>1. calls # <<>> => ~(Len(Tail(calls)) > Len(calls))
    BY <1>0
  <2> QED BY <2>1 DEF ExecuteSet
<1>3. onCookieChanged
  BY <1>1, <1>2 DEF Next, SiteSets, SiteDeletes, RulesChange, Restart, RequestSeen, vars
<1>4. ~Ignored(Head(events))
  BY <1>1, <1>3 DEF onCookieChanged
<1> QED BY <1>1, <1>3, <1>4, CookieCheckIsStoreStep

(* The handler asks for a cookie to be secured only for a ruleset that is  *)
(* on as it asks, and not on a host known by then to be served over http:  *)
(* rulesets switched since the answers were cached are seen as they are    *)
(* (rules.js 309-358).  When the browser carries the call out is no part   *)
(* of it.                                                                  *)
THEOREM AskedIfSafe == Spec => AskedOnlyIfSafe
<1>1. ASSUME StoreInv, TypeOK, [Next]_vars, Len(calls') > Len(calls)
      PROVE  LET c == calls'[Len(calls')].cookie
                 rulesets == Rules!ComputeApplicable(Domain[c])
             IN /\ Domain[c] \notin domainBlacklist
                /\ \E i \in DOMAIN rulesets :
                     active[rulesets[i]] /\ c \in Rules!RuleSet(rulesets[i], userSets).cookies
  <2> DEFINE c == Head(events).cookie
  <2>1. c \in Cookie /\ ShouldSecure(c) /\ calls' = Append(calls, SetCall(Head(events)))
    BY <1>1, OnlyHandlerCalls, CookieCheckIsStoreStep
  <2>2. calls'[Len(calls')].cookie = c
    <3>1. calls \in Seq(Calls)
      BY <1>1 DEF TypeOK
    <3>2. calls'[Len(calls')] = SetCall(Head(events))
      BY <2>1, <3>1
    <3> QED BY <3>2 DEF SetCall
  <2>3. Domain[c] \notin domainBlacklist /\ HasCookierule(c)
    BY <2>1 DEF ShouldSecure, Rules!Safe
  <2> HIDE DEF c
  <2> QED BY <1>1, <2>1, <2>2, <2>3, CookierulesAreCurrent
<1>2. StoreInv /\ TypeOK /\ [Next]_vars =>
        [Len(calls') > Len(calls) =>
           LET c == calls'[Len(calls')].cookie
               rulesets == Rules!ComputeApplicable(Domain[c])
           IN /\ Domain[c] \notin domainBlacklist
              /\ \E i \in DOMAIN rulesets :
                   active[rulesets[i]] /\ c \in Rules!RuleSet(rulesets[i], userSets).cookies]_vars
  BY <1>1
<1> QED BY <1>2, StoreTypeInit, StoreNext, TypeNext, PTL DEF Spec, AskedOnlyIfSafe

-----------------------------------------------------------------------------
(* Nothing is forgotten while the rulesets stay as they are.               *)

Steady == UNCHANGED <<targets, userSets, active, domainBlacklist>>

LEMMA SteadyAnswers ==
  ASSUME Steady
  PROVE  /\ \A h : Rewritten(h)' <=> Rewritten(h)
         /\ \A c : Wanted(c)' <=> Wanted(c)
<1>1. \A h : Rules!ComputeApplicable(h)' = Rules!ComputeApplicable(h)
  BY DEF Steady, Rules!ComputeApplicable, Rules!Indexed
<1>2. \A r, u : Rules!Apply(Rules!RuleSet(r, userSets), u)' = Rules!Apply(Rules!RuleSet(r, userSets), u)
  BY DEF Steady
<1>3. \A s, u : Rules!FirstRewrite(s, u)' = Rules!FirstRewrite(s, u)
  BY <1>2 DEF Steady, Rules!FirstRewrite
<1>4. \A h : Rewritten(h)' <=> Rewritten(h)
  BY <1>1, <1>3 DEF Rewritten, Rules!TestURL
<1>5. \A c : Wanted(c)' <=> Wanted(c)
  BY <1>1, <1>4 DEF Wanted, Steady
<1> QED BY <1>4, <1>5

(* What safeToSecureCookie finds out itself is right.                      *)
LEMMA FoundOutRight ==
  ASSUME StoreInv, NEW h \in Host
  PROVE  Rules!WouldRewrite(h) <=> Rewritten(h)
<1>1. Rules!Applicable(h) = Rules!ComputeApplicable(h)
  BY ApplicableIsCurrent
<1>2. Rules!TestURL(h).host = h
  BY DEF Rules!TestURL
<1> QED BY <1>1, <1>2 DEF Rules!WouldRewrite, Rules!Rewrite, Rewritten

(* So its cache stays right.                                               *)
LEMMA CookieHostsStayRight ==
  ASSUME StoreInv, CookieHostsRight, NEW h \in Host, Rules!SecureEffect(h), Steady
  PROVE  CookieHostsRight'
<1>1. \/ cookieHostCache' = cookieHostCache
      \/ cookieHostCache' = Rules!CookieHosts!Touch(cookieHostCache, h)
      \/ cookieHostCache' = Rules!CookieHosts!Store(cookieHostCache, h, Rules!WouldRewrite(h))
  BY DEF Rules!SecureEffect, Rules!SafeEffect
<1>2. ASSUME NEW x \in DOMAIN cookieHostCache'.val
      PROVE  cookieHostCache'.val[x] = Rewritten(x)
  <2>0. "val" \in DOMAIN cookieHostCache
    BY DEF StoreInv, Store!TypeInv, Store!Shape
  <2>1. CASE cookieHostCache' = cookieHostCache
    BY <1>2, <2>1 DEF CookieHostsRight
  <2>2. CASE cookieHostCache' = Rules!CookieHosts!Touch(cookieHostCache, h)
    <3>1. cookieHostCache'.val = cookieHostCache.val
      BY <2>2 DEF Rules!CookieHosts!Touch
    <3> QED BY <1>2, <3>1 DEF CookieHostsRight
  <2>3. CASE cookieHostCache' = Rules!CookieHosts!Store(cookieHostCache, h, Rules!WouldRewrite(h))
    <3> DEFINE kept == (DOMAIN cookieHostCache.val \ Rules!CookieHosts!Victims(cookieHostCache)) \cup {h}
    <3>1. cookieHostCache'.val =
            [k \in kept |-> IF k = h THEN Rules!WouldRewrite(h) ELSE cookieHostCache.val[k]]
      BY <2>0, <2>3 DEF Rules!CookieHosts!Store
    <3>2. cookieHostCache'.val[x] = IF x = h THEN Rules!WouldRewrite(h) ELSE cookieHostCache.val[x]
      BY <1>2, <3>1
    <3>3. x # h => x \in DOMAIN cookieHostCache.val
      BY <1>2, <3>1
    <3>4. CASE x = h
      <4>1. cookieHostCache'.val[x] = Rules!WouldRewrite(h)
        BY <3>2, <3>4
      <4>2. Rules!WouldRewrite(h) \in BOOLEAN /\ Rewritten(h) \in BOOLEAN
        BY DEF Rules!WouldRewrite, Rewritten
      <4> QED BY <3>4, <4>1, <4>2, FoundOutRight, Zenon
    <3>5. CASE x # h
      BY <3>2, <3>3, <3>5 DEF CookieHostsRight
    <3> QED BY <3>4, <3>5
  <2> QED BY <1>1, <2>1, <2>2, <2>3
<1>3. \A x : Rewritten(x)' = Rewritten(x)
  <2>1. \A x : Rewritten(x)' <=> Rewritten(x)
    BY SteadyAnswers
  <2> QED BY <2>1 DEF Rewritten
<1> QED BY <1>2, <1>3 DEF CookieHostsRight

(* A cookie that is wanted is secured when the handler hears of it.        *)
LEMMA WantedIsSecured ==
  ASSUME StoreInv, CookieHostsRight, NEW c \in Cookie, Wanted(c)
  PROVE  ShouldSecure(c)
<1>1. Domain[c] \in Host /\ Domain[c] \notin domainBlacklist /\ Rewritten(Domain[c])
  BY CookieDomains DEF Wanted
<1>2. Rules!Safe(Domain[c])
  BY <1>1, FoundOutRight DEF Rules!Safe, CookieHostsRight, Rules!CookieHosts!Has
<1>3. HasCookierule(c)
  BY CookierulesAreCurrent DEF Wanted
<1> QED BY <1>2, <1>3 DEF ShouldSecure

(* As long as nothing is changed about the rulesets.                       *)
LEMMA OnlyChangesDisturb ==
  ASSUME TypeOK, [Next]_vars, changes' = 0
  PROVE  changes = 0 /\ Steady /\ ~RulesChange /\ ~Restart
<1>1. ~RulesChange /\ ~Restart
  <2>1. ~Change
    BY DEF Change, TypeOK
  <2> QED BY <2>1 DEF RulesChange, Restart
<1>2. changes = 0
  BY <1>1 DEF Next, SiteSets, SiteDeletes, ExecuteSet, onCookieChanged, RequestSeen, vars
<1>3. ASSUME \E c \in Cookie, v \in CookieValue, secure \in BOOLEAN : SiteSets(c, v, secure)
      PROVE  Steady
  BY <1>3 DEF SiteSets, store, Steady
<1>4. ASSUME \E c \in Cookie : SiteDeletes(c) PROVE Steady
  BY <1>4 DEF SiteDeletes, store, Steady
<1>5. ASSUME ExecuteSet \/ UNCHANGED vars PROVE Steady
  BY <1>5 DEF ExecuteSet, vars, store, Steady
<1>6. ASSUME onCookieChanged PROVE Steady
  BY <1>6 DEF onCookieChanged, Steady
<1>7. ASSUME RequestSeen PROVE Steady
  BY <1>7 DEF RequestSeen, Rules!Lookup, Steady
<1> QED BY <1>1, <1>2, <1>3, <1>4, <1>5, <1>6, <1>7 DEF Next

(* The answers cached about hosts stay right.                              *)
LEMMA AnswersStayRight ==
  ASSUME StoreInv, TypeOK, CookieHostsRight, Steady, [Next]_vars, ~RulesChange, ~Restart
  PROVE  CookieHostsRight'
<1>1. ASSUME UNCHANGED cookieHostCache PROVE CookieHostsRight'
  <2>1. \A x : Rewritten(x)' = Rewritten(x)
    <3>1. \A x : Rewritten(x)' <=> Rewritten(x)
      BY SteadyAnswers
    <3> QED BY <3>1 DEF Rewritten
  <2> QED BY <1>1, <2>1 DEF CookieHostsRight
<1>2. CASE onCookieChanged /\ ~Ignored(Head(events))
  <2>1. Domain[Head(events).cookie] \in Host
    BY <1>2, CookieCheckIsStoreStep
  <2>2. Rules!SecureEffect(Domain[Head(events).cookie])
    BY <1>2 DEF onCookieChanged
  <2> QED BY <2>1, <2>2, CookieHostsStayRight
<1>3. CASE onCookieChanged /\ Ignored(Head(events))
  BY <1>1, <1>3 DEF onCookieChanged
<1>4. CASE ~onCookieChanged
  BY <1>1, <1>4 DEF Next, SiteSets, SiteDeletes, ExecuteSet, RequestSeen, Rules!Lookup, vars, store
<1> QED BY <1>2, <1>3, <1>4

(* What is queued stays queued when something is added, ...                *)
LEMMA AddedStaysPending ==
  ASSUME NEW S, NEW s \in Seq(S), NEW x \in S
  PROVE  \A i \in DOMAIN s : i \in DOMAIN Append(s, x) /\ Append(s, x)[i] = s[i]
OBVIOUS

(* ... and all but the first when that is taken off.                       *)
LEMMA RestStaysPending ==
  ASSUME NEW S, NEW s \in Seq(S), NEW i \in DOMAIN s, s[i] # Head(s)
  PROVE  \E j \in DOMAIN Tail(s) : Tail(s)[j] = s[i]
<1>1. i # 1 /\ s # <<>> /\ i \in 1 .. Len(s)
  OBVIOUS
<1>2. i - 1 \in DOMAIN Tail(s) /\ Tail(s)[i - 1] = s[i]
  BY <1>1
<1> QED BY <1>2

(* A cookie a site sets is heard of, a call of a cookie secures it, and    *)
(* hearing of a cookie that is wanted makes a call.                        *)
LEMMA NoneForgottenNext ==
  ASSUME StoreInv, TypeOK, CookieHostsRight, NoneForgotten, Steady, [Next]_vars,
         ~RulesChange, ~Restart
  PROVE  NoneForgotten'
<1>0. \A c : Wanted(c)' <=> Wanted(c)
  BY SteadyAnswers
<1> SUFFICES ASSUME NEW c \in Cookie, Wanted(c), jar'[c] # None, ~jar'[c].secure
             PROVE  Pending(c)'
  BY <1>0 DEF NoneForgotten
<1>1. events \in Seq(Changes) /\ calls \in Seq(Calls)
  BY DEF TypeOK
<1>2. ASSUME UNCHANGED <<jar, events, calls>> PROVE Pending(c)'
  BY <1>2 DEF NoneForgotten, Pending, Ignored
<1>3. ASSUME NEW x \in Cookie, NEW v \in CookieValue, NEW secure \in BOOLEAN, Put(x, v, secure),
             x = c => ~secure,
             \A i \in DOMAIN calls : calls[i].cookie = c => \E j \in DOMAIN calls' : calls'[j].cookie = c
      PROVE  Pending(c)'
  <2>1. Added(x, v, secure) \in Changes
    BY DEF Added, Changes
  <2>2. events' = Append(events, Added(x, v, secure))
    BY <1>3 DEF Put
  <2>3. CASE x = c
    <3>1. /\ Len(events) + 1 \in DOMAIN events'
          /\ events'[Len(events) + 1] = Added(c, v, secure)
      BY <1>1, <2>1, <2>2, <2>3
    <3>2. ~Ignored(Added(c, v, secure)) /\ Added(c, v, secure).cookie = c
      BY <1>3, <2>3 DEF Ignored, Added
    <3> QED BY <3>1, <3>2 DEF Pending, Ignored
  <2>4. CASE x # c
    <3>1. jar'[c] = jar[c]
      BY <1>3, <2>4 DEF Put, TypeOK
    <3>2. Pending(c)
      BY <3>1 DEF NoneForgotten
    <3>3. \A i \in DOMAIN events : i \in DOMAIN events' /\ events'[i] = events[i]
      BY <1>1, <2>1, <2>2, AddedStaysPending
    <3> QED BY <1>3, <3>2, <3>3 DEF Pending, Ignored
  <2> QED BY <2>3, <2>4
<1>4. ASSUME NEW x \in Cookie, NEW v \in CookieValue, NEW secure \in BOOLEAN, SiteSets(x, v, secure)
      PROVE  Pending(c)'
  <2>1. Put(x, v, secure) /\ calls' = calls
    BY <1>4 DEF SiteSets
  <2>2. x = c => ~secure
    BY <2>1 DEF Put, TypeOK
  <2> QED BY <1>3, <2>1, <2>2
<1>5. ASSUME NEW x \in Cookie, SiteDeletes(x) PROVE Pending(c)'
  <2>1. jar' = [jar EXCEPT ![x] = None] /\ events' = Append(events, Removed(x)) /\ calls' = calls
    BY <1>5 DEF SiteDeletes
  <2>2. x # c /\ jar'[c] = jar[c]
    BY <2>1 DEF TypeOK
  <2>3. Pending(c)
    BY <2>2 DEF NoneForgotten
  <2>4. Removed(x) \in Changes
    BY DEF Removed, Changes
  <2>5. \A i \in DOMAIN events : i \in DOMAIN events' /\ events'[i] = events[i]
    BY <1>1, <2>1, <2>4, AddedStaysPending
  <2> QED BY <2>1, <2>3, <2>5 DEF Pending, Ignored
<1>6. CASE ExecuteSet
  <2>1. /\ calls # <<>> /\ calls' = Tail(calls)
        /\ Put(Head(calls).cookie, Head(calls).value, TRUE)
    BY <1>6 DEF ExecuteSet
  <2>2. Head(calls).cookie \in Cookie /\ Head(calls).value \in CookieValue
    <3>1. Head(calls) \in Calls
      BY <1>1, <2>1
    <3> QED BY <3>1 DEF Calls
  <2>3. Head(calls).cookie # c
    BY <2>1, <2>2 DEF Put, TypeOK
  <2>4. ASSUME NEW i \in DOMAIN calls, calls[i].cookie = c
        PROVE  \E j \in DOMAIN calls' : calls'[j].cookie = c
    <3>1. \E j \in DOMAIN Tail(calls) : Tail(calls)[j] = calls[i]
      BY <1>1, <2>3, <2>4, RestStaysPending
    <3> QED BY <2>1, <2>4, <3>1
  <2> QED BY <1>3, <2>1, <2>2, <2>3, <2>4
<1>7. CASE onCookieChanged
  <2>1. events # <<>> /\ events' = Tail(events) /\ UNCHANGED jar
    BY <1>7 DEF onCookieChanged
  <2>2. Pending(c)
    BY <2>1 DEF NoneForgotten
  <2>3. CASE Ignored(Head(events))
    <3>1. calls' = calls
      BY <1>7, <2>3 DEF onCookieChanged
    <3>2. ASSUME NEW i \in DOMAIN events, ~Ignored(events[i]), events[i].cookie = c PROVE Pending(c)'
      <4>1. \E j \in DOMAIN Tail(events) : Tail(events)[j] = events[i]
        BY <1>1, <2>3, <3>2, RestStaysPending
      <4> QED BY <2>1, <3>2, <4>1 DEF Pending, Ignored
    <3> QED BY <2>2, <3>1, <3>2 DEF Pending
  <2>4. CASE ~Ignored(Head(events))
    <3> DEFINE x == Head(events).cookie
               call == SetCall(Head(events))
    <3>1. calls' = IF ShouldSecure(x) THEN Append(calls, call) ELSE calls
      BY <1>7, <2>4, CookieCheckIsStoreStep
    <3>2. call \in Calls /\ call.cookie = x
      BY <1>7, <2>4, CookieCheckIsStoreStep DEF SetCall, Calls
    <3> HIDE DEF call
    <3>3. CASE x = c
      <4>1. calls' = Append(calls, call)
        BY <3>1, <3>3, WantedIsSecured
      <4>2. Len(calls) + 1 \in DOMAIN calls' /\ calls'[Len(calls) + 1] = call
        BY <1>1, <3>2, <4>1
      <4> QED BY <3>2, <3>3, <4>2 DEF Pending
    <3>4. CASE x # c
      <4>1. ASSUME NEW i \in DOMAIN events, ~Ignored(events[i]), events[i].cookie = c PROVE Pending(c)'
        <5>1. \E j \in DOMAIN Tail(events) : Tail(events)[j] = events[i]
          BY <1>1, <3>4, <4>1, RestStaysPending
        <5> QED BY <2>1, <4>1, <5>1 DEF Pending, Ignored
      <4>2. \A i \in DOMAIN calls : i \in DOMAIN calls' /\ calls'[i] = calls[i]
        BY <1>1, <3>1, <3>2, AddedStaysPending
      <4> QED BY <2>2, <4>1, <4>2 DEF Pending
    <3> QED BY <3>3, <3>4
  <2> QED BY <2>3, <2>4
<1>8. CASE RequestSeen
  BY <1>2, <1>8 DEF RequestSeen
<1>9. CASE UNCHANGED vars
  BY <1>2, <1>9 DEF vars
<1> QED BY <1>4, <1>5, <1>6, <1>7, <1>8, <1>9 DEF Next

LEMMA InvInit == Init => Inv
<1> SUFFICES ASSUME Init PROVE Inv
  OBVIOUS
<1>1. CookieHostsRight
  BY DEF Init, Rules!Init, Rules!CookieHosts!EmptyCache, CookieHostsRight
<1>2. NoneForgotten
  BY DEF Init, NoneForgotten
<1> QED BY <1>1, <1>2, StoreTypeInit DEF Inv, SteadyInv

LEMMA InvNext == Inv /\ [Next]_vars => Inv'
<1> SUFFICES ASSUME Inv, [Next]_vars PROVE Inv'
  OBVIOUS
<1>0. StoreInv /\ TypeOK
  BY DEF Inv
<1>1. StoreInv' /\ TypeOK'
  BY <1>0, StoreNext, TypeNext
<1>2. ASSUME changes' = 0 PROVE CookieHostsRight' /\ NoneForgotten'
  <2>1. changes = 0 /\ Steady /\ ~RulesChange /\ ~Restart
    BY <1>0, <1>2, OnlyChangesDisturb
  <2>2. CookieHostsRight /\ NoneForgotten
    BY <2>1 DEF Inv, SteadyInv
  <2> QED BY <1>0, <2>1, <2>2, AnswersStayRight, NoneForgottenNext
<1> QED BY <1>1, <1>2 DEF Inv, SteadyInv

(* The jar, what the handler has yet to hear of and the calls under way    *)
(* are what the browser can hold (background.js 457-490).                  *)
THEOREM CookiesAreTyped == Spec => []TypeOK
<1>1. Inv => TypeOK
  BY DEF Inv
<1> QED BY InvInit, InvNext, <1>1, PTL DEF Spec

(* While the rulesets stay as they are, no order of setting, overwriting   *)
(* and deleting leaves a cookie insecure that a cookierule covers on a     *)
(* host that is rewritten, once the handler has caught up (background.js   *)
(* 457-490, rules.js 309-382).                                             *)
THEOREM CoveredEndSecure == Spec => []SettledSecured
<1>1. Inv => SettledSecured
  <2> SUFFICES ASSUME Inv, Settled, changes = 0, NEW c \in Cookie, Covered(c), jar[c] # None
               PROVE  jar[c].secure
    BY DEF SettledSecured
  <2>1. Wanted(c)
    BY CookierulesAreCurrent DEF Inv, Covered, Wanted, Rewritten
  <2>2. ~Pending(c)
    BY DEF Settled, Pending
  <2> QED BY <2>1, <2>2 DEF Inv, SteadyInv, NoneForgotten
<1> QED BY InvInit, InvNext, <1>1, PTL DEF Spec
=============================================================================
