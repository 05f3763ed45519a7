----------------------------- MODULE RuleStore -----------------------------
(***************************************************************************)
(* The Chromium extension's rulesets: the RuleSets object of               *)
(* chromium/rules.js with its two caches, the user rules and on/off        *)
(* choices kept in localStorage (background.js 61-83 and 113-128, popup.js *)
(* 16-28), and what a reload of the extension makes of them.               *)
(*                                                                         *)
(* Regular expressions are abstracted to what they match: an exclusion     *)
(* list or match_rule is a set of URLs, a rule is what String.replace makes *)
(* of the URLs it changes.  A cached or listed ruleset is a reference to the one RuleSet    *)
(* object, so only its identity is stored.                                 *)
(***************************************************************************)
EXTENDS HostTargets, FiniteSets, Functions

CONSTANTS
  Host,            \* host names that occur in requests and cookies
  Path,            \* URLs differ in scheme, host and path
  NoncePath,       \* the made-up path of safeToSecureCookie
  Builtin,         \* the rulesets of rules/default.rulesets, ...
  BuiltinOrder,    \* ... their order in that file, ...
  BuiltinRules,    \* ... and what each declares
  UserRuleParams,  \* what the popup's "Add new rule" can submit, ...
  UserRule,        \* ... and the host and the rule of each
  MaxUserRules,    \* bound on the user rules added
  StorageMayFill,  \* whether localStorage can run out of space
  RuleCacheLimit, CookieCacheLimit,
  None

(* The popup's host field is disabled, so a user rule names a host or, for *)
(* a tab with a port in its URL, a key no host name can be; never a        *)
(* wildcard (popup.html 22, popup.js 158-160).                             *)
ASSUME UserRuleHosts ==
  \A p \in UserRuleParams, h \in Host : UserRule[p].host \in Range(Probes(h)) => UserRule[p].host = h

(* The n-th user ruleset is identified by n.                               *)
ASSUME BuiltinNames == Builtin \cap Nat = {}

(* Host names are nonempty sequences of labels.                            *)
ASSUME HostNames == \A h \in Host : h \in Seq(Range(h)) /\ h # <<>>

ASSUME CacheLimits == RuleCacheLimit \in Nat \ {0} /\ CookieCacheLimit \in Nat \ {0}

ASSUME BuiltinTypes ==
  BuiltinOrder \in Seq(Builtin) /\ \A r \in Builtin : BuiltinRules[r].default \in BOOLEAN

URL == [scheme : {"http", "https"}, host : Host, path : Path]

VARIABLES
  targets,          \* this.targets: target key -> rulesets that declare it
  userSets,         \* the parameters of the user rulesets made so far
  active,           \* RuleSet.active of every live ruleset
  ruleCache,        \* this.ruleCache: host -> rulesets
  cookieHostCache,  \* this.cookieHostCache: host -> BOOLEAN
  domainBlacklist,  \* background.js 168
  prefs,            \* localStorage[<ruleset name>]
  userRules,        \* localStorage["userRules"]
  unstored          \* history: the live rulesets whose own last choice is not
                    \* what storage says, for it threw or was overwritten

memory  == <<targets, userSets, active, ruleCache, cookieHostCache, domainBlacklist>>
storage == <<prefs, userRules>>
vars    == <<memory, storage, unstored>>

(* addUserRule and the popup drop the entries of these.                    *)
Names == {BuiltinRules[r].name : r \in Builtin} \cup {UserRule[p].host : p \in UserRuleParams}

RuleCache  == INSTANCE LRUContract
                WITH Key <- Host \cup Names, Value <- Seq(Builtin \cup Nat),
                     MaxLimit <- RuleCacheLimit, cache <- ruleCache
CookieHosts == INSTANCE LRUContract
                WITH Key <- Host, Value <- BOOLEAN,
                     MaxLimit <- CookieCacheLimit, cache <- cookieHostCache

-----------------------------------------------------------------------------
(* Rulesets.                                                               *)

Live == Builtin \cup DOMAIN userSets

(* A user ruleset is named after its host and is on by default.            *)
RuleSet(r, users) ==
  IF r \in Builtin THEN BuiltinRules[r]
  ELSE LET params == UserRule[users[r]]
       IN [name |-> params.host, default |-> TRUE, targets |-> {params.host},
           exclusions |-> {}, match |-> URL, rules |-> <<params.rule>>, cookies |-> {}]

Name(r) == RuleSet(r, userSets).name

(* RuleSet.apply: the first rule that changes the URL, unless an exclusion *)
(* matches or match_rule does not.                                         *)
Apply(set, url) ==
  LET hits == {i \in DOMAIN set.rules : url \in DOMAIN set.rules[i]}
  IN IF url \in set.exclusions \/ url \notin set.match \/ hits = {} THEN None
     ELSE set.rules[CHOOSE i \in hits : \A j \in hits : i <= j][url]

(* The state of a ruleset just built, from the user's stored choice.       *)
InitialState(set, choices) ==
  IF set.name \in DOMAIN choices THEN choices[set.name] ELSE set.default

Push(index, key, r) ==
  [t \in DOMAIN index \cup {key} |->
     IF t # key THEN index[t] ELSE IF key \in DOMAIN index THEN Append(index[key], r) ELSE <<r>>]

(* this.targets after addFromXml and then loadStoredUserRules.             *)
BuiltinIndex ==
  [t \in UNION {BuiltinRules[r].targets : r \in Builtin} |->
     Declaring(t, BuiltinOrder, [r \in Builtin |-> BuiltinRules[r].targets])]
LoadedIndex(stored) ==
  FoldLeftDomain(LAMBDA index, i : Push(index, UserRule[stored[i]].host, i), BuiltinIndex, stored)

-----------------------------------------------------------------------------
(* potentiallyApplicableRulesets.                                          *)

Indexed(t) == IF t \in DOMAIN targets THEN targets[t] ELSE <<>>

ComputeApplicable(h) == LET p == Probes(h) IN Merge([i \in DOMAIN p |-> Indexed(p[i])])

Applicable(h) ==
  IF RuleCache!Has(ruleCache, h) THEN ruleCache.val[h] ELSE ComputeApplicable(h)

(* The cache after the call: a hit is freshened, a miss memoized.          *)
CacheAfter(h) ==
  IF RuleCache!Has(ruleCache, h) THEN RuleCache!Touch(ruleCache, h)
  ELSE RuleCache!Store(ruleCache, h, ComputeApplicable(h))

(* rewriteURI, and the loop of onBeforeRequest: the first active ruleset   *)
(* that rewrites the URL decides.                                          *)
FirstRewrite(rulesets, url) ==
  LET hits == {i \in DOMAIN rulesets :
                 /\ active[rulesets[i]]
                 /\ Apply(RuleSet(rulesets[i], userSets), url) # None}
  IN IF hits = {} THEN None
     ELSE Apply(RuleSet(rulesets[CHOOSE i \in hits : \A j \in hits : i <= j], userSets), url)

Rewrite(url) == FirstRewrite(Applicable(url.host), url)

-----------------------------------------------------------------------------
(* safeToSecureCookie: would a made-up http URL of this host be rewritten? *)

TestURL(h) == [scheme |-> "http", host |-> h, path |-> NoncePath]
WouldRewrite(h) == Rewrite(TestURL(h)) # None

(* Fault: the cache is asked before the blacklist.                         *)
SafeCacheFirst(h) ==
  IF CookieHosts!Has(cookieHostCache, h) THEN cookieHostCache.val[h]
  ELSE h \notin domainBlacklist /\ WouldRewrite(h)

Safe(h) ==
  /\ h \notin domainBlacklist
  /\ IF CookieHosts!Has(cookieHostCache, h) THEN cookieHostCache.val[h] ELSE WouldRewrite(h)

(* Fault: `false` is stored for hosts that are rewritten, too.             *)
SafeEffectNegative(h) ==
  IF h \in domainBlacklist THEN UNCHANGED <<ruleCache, cookieHostCache>>
  ELSE IF CookieHosts!Has(cookieHostCache, h)
       THEN /\ cookieHostCache' = CookieHosts!Touch(cookieHostCache, h)
            /\ UNCHANGED ruleCache
       ELSE /\ cookieHostCache' = CookieHosts!Store(cookieHostCache, h, FALSE)
            /\ ruleCache' = CacheAfter(h)

(* Fault: the answer is stored without asking the cache.                   *)
SafeEffectAnyway(h) ==
  IF h \in domainBlacklist THEN UNCHANGED <<ruleCache, cookieHostCache>>
  ELSE /\ cookieHostCache' = CookieHosts!Store(cookieHostCache, h, WouldRewrite(h))
       /\ ruleCache' = CacheAfter(h)

(* The two caches after the call.                                          *)
SafeEffect(h) ==
  IF h \in domainBlacklist THEN UNCHANGED <<ruleCache, cookieHostCache>>
  ELSE IF CookieHosts!Has(cookieHostCache, h)
       THEN /\ cookieHostCache' = CookieHosts!Touch(cookieHostCache, h)
            /\ UNCHANGED ruleCache
       ELSE /\ cookieHostCache' = CookieHosts!Store(cookieHostCache, h, WouldRewrite(h))
            /\ ruleCache' = CacheAfter(h)

(* shouldSecureCookie looks the rulesets up once more when it is safe,     *)
(* which matters if safeToSecureCookie's own cache answered.               *)
SecureEffect(h) ==
  IF Safe(h) /\ CookieHosts!Has(cookieHostCache, h)
  THEN /\ cookieHostCache' = CookieHosts!Touch(cookieHostCache, h)
       /\ ruleCache' = CacheAfter(h)
  ELSE SafeEffect(h)

-----------------------------------------------------------------------------
(* Starting the background page builds everything from localStorage.       *)

(* Fault: user rulesets ignore the choices made about them.                *)
LoadedUsersOn(users, choices) ==
  [r \in Builtin \cup DOMAIN users |->
     IF r \in Builtin THEN InitialState(RuleSet(r, users), choices) ELSE TRUE]

Loaded(users, choices) ==
  [r \in Builtin \cup DOMAIN users |-> InitialState(RuleSet(r, users), choices)]

Init ==
  /\ prefs = << >> /\ userRules = <<>>
  /\ targets = BuiltinIndex /\ userSets = <<>> /\ active = Loaded(<<>>, << >>)
  /\ ruleCache = RuleCache!EmptyCache(RuleCacheLimit)
  /\ cookieHostCache = CookieHosts!EmptyCache(CookieCacheLimit)
  /\ domainBlacklist = {} /\ unstored = {}

(* The browser or the extension is restarted.                              *)
Reload ==
  /\ targets' = LoadedIndex(userRules) /\ userSets' = userRules
  /\ active' = Loaded(userRules, prefs)
  /\ ruleCache' = RuleCache!EmptyCache(RuleCacheLimit)
  /\ cookieHostCache' = CookieHosts!EmptyCache(CookieCacheLimit)
  /\ domainBlacklist' = {} /\ unstored' = {}
  /\ UNCHANGED storage

(* A request to this host looks its rulesets up.                           *)
Lookup(h) ==
  /\ ruleCache' = CacheAfter(h)
  /\ UNCHANGED <<targets, userSets, active, cookieHostCache, domainBlacklist, storage, unstored>>

(* Whether to secure a cookie of this host is decided.                     *)
CheckCookieHost(h) ==
  /\ SecureEffect(h)
  /\ UNCHANGED <<targets, userSets, active, domainBlacklist, storage, unstored>>

(* Fault: addUserRule leaves the cache alone.                              *)
Unpurged(host) == ruleCache

(* addUserRule's purge of the host it is about.                            *)
Purged(host) == RuleCache!Drop(ruleCache, host)

(* addUserRule and addNewRule.  Writing the longer list to localStorage    *)
(* may throw for lack of space (the TODO of background.js 122): then the   *)
(* ruleset is in use but not saved.                                        *)
AddUserRule(params) ==
  LET r     == Len(userSets) + 1
      users == Append(userSets, params)
      host  == UserRule[params].host
  IN /\ r <= MaxUserRules
     /\ ruleCache' = Purged(host)
     /\ userSets' = users
     /\ targets' = Push(targets, host, r)
     /\ active' = [x \in Live \cup {r} |->
                     IF x = r THEN InitialState(RuleSet(r, users), prefs) ELSE active[x]]
     /\ \/ userRules' = Append(userRules, params)
        \/ StorageMayFill /\ userRules' = userRules
     /\ UNCHANGED <<cookieHostCache, domainBlacklist, prefs, unstored>>

(* Fault: a choice once stored is kept when it becomes the default again.  *)
KeptChoices(set, checked) ==
  IF checked # set.default
  THEN [n \in DOMAIN prefs \cup {set.name} |-> IF n = set.name THEN checked ELSE prefs[n]]
  ELSE prefs

(* The choice is stored only when it differs from the default; otherwise   *)
(* it is forgotten ...                                                     *)
StoredChoices(set, checked) ==
  IF checked # set.default
  THEN [n \in DOMAIN prefs \cup {set.name} |-> IF n = set.name THEN checked ELSE prefs[n]]
  ELSE Restrict(prefs, DOMAIN prefs \ {set.name})

(* ... and the cache entry of a HOST called like the ruleset is dropped    *)
(* (toggleRuleLine).  The ruleset is switched first: storing the choice    *)
(* may throw for lack of space, which ends the handler.                    *)
Namesakes(r) == {x \in Live \ {r} : Name(x) = Name(r)}

Toggle(r) ==
  LET set     == RuleSet(r, userSets)
      checked == ~active[r]
  IN /\ active' = [active EXCEPT ![r] = checked]
     /\ \/ /\ prefs' = StoredChoices(set, checked)
           /\ unstored' = (unstored \ {r}) \cup Namesakes(r)
           /\ IF checked # set.default THEN UNCHANGED ruleCache
              ELSE ruleCache' = RuleCache!Drop(ruleCache, set.name)
        \/ /\ StorageMayFill /\ checked # set.default
           /\ unstored' = unstored \cup {r}
           /\ UNCHANGED <<prefs, ruleCache>>
     /\ UNCHANGED <<targets, userSets, cookieHostCache, domainBlacklist, userRules>>

(* onBeforeRequest sees the eighth redirect of a request to this host,     *)
(* after looking its rulesets up.                                          *)
BlacklistDomain(h) ==
  /\ domainBlacklist' = domainBlacklist \cup {h}
  /\ ruleCache' = CacheAfter(h)
  /\ UNCHANGED <<targets, userSets, active, cookieHostCache, storage, unstored>>

Next ==
  \/ \E h \in Host : Lookup(h) \/ CheckCookieHost(h) \/ BlacklistDomain(h)
  \/ \E params \in UserRuleParams : AddUserRule(params)
  \/ \E r \in Live : Toggle(r)
  \/ Reload

Spec == Init /\ [][Next]_vars

-----------------------------------------------------------------------------
(* Properties.                                                             *)

Rulesets == Builtin \cup Nat
Keys == DOMAIN BuiltinIndex \cup {UserRule[p].host : p \in UserRuleParams}

(* The shape of the index, the caches and the stored choices.              *)
TypeOK ==
  /\ DOMAIN targets \subseteq Keys /\ targets \in [DOMAIN targets -> Seq(Live)]
  /\ userSets \in Seq(UserRuleParams) /\ userRules \in Seq(UserRuleParams)
  /\ active \in [Live -> BOOLEAN]
  /\ DOMAIN ruleCache.val \subseteq Host
  /\ ruleCache.val \in [DOMAIN ruleCache.val -> Seq(Live)]
  /\ DOMAIN cookieHostCache.val \subseteq Host
  /\ cookieHostCache.val \in [DOMAIN cookieHostCache.val -> BOOLEAN]
  /\ domainBlacklist \subseteq Host
  /\ DOMAIN prefs \subseteq Names /\ prefs \in [DOMAIN prefs -> BOOLEAN]
  /\ unstored \subseteq Live

(* Whatever was looked up, added, toggled or reloaded before, a cached     *)
(* answer is the one the index gives now: addUserRule purges all it must.  *)
RuleCacheCoherent ==
  \A h \in DOMAIN ruleCache.val : ruleCache.val[h] = ComputeApplicable(h)

(* At every moment, not only after a reload, a ruleset is what localStorage *)
(* says of it.  Names need not be unique (two user rules for a host share  *)
(* theirs, and a ruleset may be called like a host), and a choice may not  *)
(* fit in: but then only the ruleset switched when the store threw, and    *)
(* those whose namesake was switched after them, differ, and each only     *)
(* until its own next choice is stored (popup.js 16-28).                   *)
ChoicesStored ==
  \A r \in Live \ unstored : active[r] = InitialState(RuleSet(r, userSets), prefs)

(* A reload changes nothing that rewriting depends on, as long as every    *)
(* user rule and every choice was saved and none overwritten by that of a  *)
(* namesake: index, order of the user rules and choices all come back      *)
(* (background.js 65-83).                                                  *)
ReloadIsInvisible ==
  [][Reload /\ userRules = userSets /\ unstored = {}
       => <<targets, userSets, active>>' = <<targets, userSets, active>>]_vars

(* Both caches, the rule cache and the cookie host cache, are used the way *)
(* LRUCache is shown correct for: an answer is stored only after a miss,   *)
(* so no entry is ever orphaned (rules.js 263-298 and 355-380).            *)
CacheDiscipline == RuleCache!Spec /\ CookieHosts!Spec
=============================================================================
