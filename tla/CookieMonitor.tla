--------------------------- MODULE CookieMonitor ---------------------------
(***************************************************************************)
(* How the Chromium extension marks cookies secure: onCookieChanged        *)
(* (background.js 457-490) with shouldSecureCookie and safeToSecureCookie  *)
(* (rules.js 309-382), over the rulesets of RuleStore.                     *)
(*                                                                         *)
(* The browser is external: it keeps the jar, tells the background page of *)
(* each change in order, and carries out chrome.cookies.set calls in order, *)
(* neither at once.  The url and domain that the handler makes up for the  *)
(* call name the cookie it was told of, so a cookie (its name, path, store *)
(* and domain) is one model value.                                         *)
(***************************************************************************)
EXTENDS Naturals, Sequences, FiniteSets

CONSTANTS
  Host, Path, NoncePath, Builtin, BuiltinOrder, BuiltinRules, UserRuleParams,
  UserRule, MaxUserRules, StorageMayFill, RuleCacheLimit, CookieCacheLimit,
  None,        \* RuleStore's; cookies of a ruleset: those its cookierules match
  Cookie,
  Domain,      \* host that a cookie's domain names, leading dots dropped
  CookieValue,
  MaxSiteOps,  \* bound on what sites do to the jar
  MaxChanges   \* bound on changes of the rulesets, blacklistings and restarts

VARIABLES
  targets, userSets, active, ruleCache, cookieHostCache, domainBlacklist,
  prefs, userRules, unstored,   \* RuleStore's
  jar,                \* [value, secure] of each cookie, or None
  events,             \* cookie changes the background page has yet to hear of
  calls,              \* chrome.cookies.set calls under way
  siteOps, changes

Rules == INSTANCE RuleStore

(* What RuleStore assumes of its constants.                                *)
ASSUME RulesAssumptions ==
  /\ Rules!UserRuleHosts /\ Rules!BuiltinNames /\ Rules!HostNames
  /\ Rules!CacheLimits /\ Rules!BuiltinTypes

ASSUME CookieDomains == Domain \in [Cookie -> Host]

store == <<targets, userSets, active, ruleCache, cookieHostCache, domainBlacklist, prefs, userRules, unstored>>
vars  == <<store, jar, events, calls, siteOps, changes>>

Added(c, v, secure) == [removed |-> FALSE, cookie |-> c, value |-> v, secure |-> secure]
Removed(c)          == [removed |-> TRUE, cookie |-> c]

Init ==
  /\ Rules!Init
  /\ jar = [c \in Cookie |-> None]
  /\ events = <<>> /\ calls = <<>>
  /\ siteOps = 0 /\ changes = 0

-----------------------------------------------------------------------------
(* The browser.                                                            *)

Put(c, v, secure) ==
  /\ jar' = [jar EXCEPT ![c] = [value |-> v, secure |-> secure]]
  /\ events' = Append(events, Added(c, v, secure))

SiteOp == siteOps < MaxSiteOps /\ siteOps' = siteOps + 1

SiteSets(c, v, secure) ==
  /\ SiteOp /\ Put(c, v, secure)
  /\ UNCHANGED <<store, calls, changes>>

SiteDeletes(c) ==
  /\ SiteOp /\ jar[c] # None
  /\ jar' = [jar EXCEPT ![c] = None]
  /\ events' = Append(events, Removed(c))
  /\ UNCHANGED <<store, calls, changes>>

(* The cookie of a call is stored whatever became of it in the meantime.   *)
ExecuteSet ==
  /\ calls # <<>>
  /\ Put(Head(calls).cookie, Head(calls).value, TRUE)
  /\ calls' = Tail(calls)
  /\ UNCHANGED <<store, siteOps, changes>>

-----------------------------------------------------------------------------
(* The extension.                                                          *)

(* Fault: the cookierules of rulesets that are off count.                  *)
HasCookieruleOnOrOff(c) ==
  LET rulesets == Rules!Applicable(Domain[c])
  IN \E i \in DOMAIN rulesets : c \in Rules!RuleSet(rulesets[i], userSets).cookies

(* shouldSecureCookie, with the context not known to be https.             *)
HasCookierule(c) ==
  LET rulesets == Rules!Applicable(Domain[c])
  IN \E i \in DOMAIN rulesets :
       active[rulesets[i]] /\ c \in Rules!RuleSet(rulesets[i], userSets).cookies

ShouldSecure(c) == Rules!Safe(Domain[c]) /\ HasCookierule(c)

(* Fault: changes to secure cookies are handled like others.               *)
IgnoredRemoved(change) == change.removed

Ignored(change) == change.removed \/ change.secure

SetCall(change) == [cookie |-> change.cookie, value |-> change.value]

onCookieChanged ==
  LET change == Head(events)
  IN /\ events # <<>>
     /\ events' = Tail(events)
     /\ IF Ignored(change)
        THEN UNCHANGED <<calls, ruleCache, cookieHostCache>>
        ELSE /\ Rules!SecureEffect(Domain[change.cookie])
             /\ calls' = IF ShouldSecure(change.cookie)
                         THEN Append(calls, SetCall(change))
                         ELSE calls
     /\ UNCHANGED <<targets, userSets, active, domainBlacklist, prefs, userRules, unstored,
                    jar, siteOps, changes>>

Change == changes < MaxChanges /\ changes' = changes + 1

RulesChange ==
  /\ Change
  /\ \/ \E r \in Rules!Live : Rules!Toggle(r)
     \/ \E h \in Host : Rules!BlacklistDomain(h)
     \/ \E params \in UserRuleParams : Rules!AddUserRule(params)
  /\ UNCHANGED <<jar, events, calls, siteOps>>

(* Events for the old background page are lost, its calls are not.         *)
Restart ==
  /\ Change /\ Rules!Reload
  /\ events' = <<>>
  /\ UNCHANGED <<jar, calls, siteOps>>

RequestSeen ==
  /\ \E h \in Host : Rules!Lookup(h)
  /\ UNCHANGED <<jar, events, calls, siteOps, changes>>

Next ==
  \/ \E c \in Cookie, v \in CookieValue, secure \in BOOLEAN : SiteSets(c, v, secure)
  \/ \E c \in Cookie : SiteDeletes(c)
  \/ ExecuteSet \/ onCookieChanged
  \/ RulesChange \/ Restart \/ RequestSeen

(* The browser delivers events and carries out calls: weak fairness of the *)
(* two actions, spelled out because each is enabled by a queued item.      *)
Fairness ==
  /\ []<>(events = <<>>) \/ []<><<onCookieChanged>>_vars
  /\ []<>(calls = <<>>)  \/ []<><<ExecuteSet>>_vars

Spec == Init /\ [][Next]_vars /\ Fairness

-----------------------------------------------------------------------------
(* Properties.                                                             *)

Changes ==
  [removed : {FALSE}, cookie : Cookie, value : CookieValue, secure : BOOLEAN]
    \cup [removed : {TRUE}, cookie : Cookie]
Calls == [cookie : Cookie, value : CookieValue]

TypeOK ==
  /\ jar \in [Cookie -> [value : CookieValue, secure : BOOLEAN] \cup {None}]
  /\ events \in Seq(Changes) /\ calls \in Seq(Calls)
  /\ siteOps \in Nat /\ changes \in Nat

Settled == events = <<>> /\ calls = <<>>

(* Securing a cookie makes a change the handler hears of again: the two    *)
(* do not echo each other forever (background.js 462).                     *)
NoEcho == <>[]Settled

(* While the rulesets stay as they are, every cookie that a cookierule     *)
(* covers on a host that is rewritten ends up secure, in whatever order    *)
(* sites set, overwrite and delete it meanwhile.                           *)
Covered(c) ==
  /\ Domain[c] \notin domainBlacklist
  /\ Rules!FirstRewrite(Rules!ComputeApplicable(Domain[c]), Rules!TestURL(Domain[c])) # None
  /\ HasCookierule(c)

SettledSecured ==
  Settled /\ changes = 0 => \A c \in Cookie : Covered(c) /\ jar[c] # None => jar[c].secure

(* The handler asks for a cookie to be secured only for a ruleset that is  *)
(* on at that moment and whose cookierule covers it, and not once the host *)
(* is known to be served over http, though it may have cached the opposite *)
(* before: rules.js 319-331 and 344-354.  It promises nothing of when the  *)
(* browser carries the call out: by then a ruleset may be off again, the   *)
(* host blacklisted or the background page another.                        *)
AskedOnlyIfSafe ==
  [][Len(calls') > Len(calls) =>
       LET c == calls'[Len(calls')].cookie
           rulesets == Rules!ComputeApplicable(Domain[c])
       IN /\ Domain[c] \notin domainBlacklist
          /\ \E i \in DOMAIN rulesets :
               active[rulesets[i]] /\ c \in Rules!RuleSet(rulesets[i], userSets).cookies]_vars
=============================================================================
