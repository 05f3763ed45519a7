-------------------------- MODULE ChromiumRequests --------------------------
(***************************************************************************)
(* The life of web requests in the Chromium extension (background.js       *)
(* 133-271 and 496-525): onBeforeRequest redirects them to https, lets     *)
(* them pass or cancels them, onBeforeRedirect counts redirects, and a     *)
(* request redirected too often has its URL and host blacklisted.          *)
(*                                                                         *)
(* The rulesets are those of RuleStore, the preference to block http that  *)
(* of HttpNowhere, the recording that of SwitchPlanner: a step here is a   *)
(* step of theirs or leaves them alone.  The browser and the servers are   *)
(* external: `server` says which https and http URLs answer with a redirect. *)
(* A URL is the canonical one; credentials in it, which the code puts      *)
(* aside, and trailing dots of the host are left out.                      *)
(***************************************************************************)
EXTENDS Naturals, Sequences, FiniteSets, Functions

CONSTANTS
  Host, Path, NoncePath, Builtin, BuiltinOrder, BuiltinRules, UserRuleParams,
  UserRule, MaxUserRules, StorageMayFill, RuleCacheLimit, CookieCacheLimit,
  None,           \* RuleStore's
  MaxRemote, MaxRestarts,  \* HttpNowhere's bounds
  Request,        \* request ids; the browser uses none twice
  Tab,
  Page,           \* URLs that tabs ask for
  Sites,          \* what the servers may be like: functions URL -> URL
  RedirectLimit,  \* 8 in the code
  MayRecord       \* tabs whose developer tools may be open

VARIABLES
  targets, userSets, active, ruleCache, cookieHostCache, domainBlacklist,
  prefs, userRules, unstored,             \* RuleStore's
  pref, calls, inbox, httpNowhereOn, remote, restarts,  \* HttpNowhere's
  enabledFor, info,                       \* SwitchPlanner's
  request,          \* what became of each request
  listed,           \* activeRulesets.active_tab_rules
  redirectCounter,
  urlBlacklist,
  server

(* No popup touches the preference here, and no devtools panel comes in    *)
(* pieces: see the two modules themselves for that.                        *)
Rules   == INSTANCE RuleStore
Nowhere == INSTANCE HttpNowhere WITH MaxClicks <- 0, clicks <- 0,
             popup <- [open |-> FALSE, listening |-> FALSE, checked |-> FALSE]
Planner == INSTANCE SwitchPlanner
             WITH Resource <- Page, MaxPanels <- 0, NoPanel <- None, panel <- << >>,
                  recording <- {}, opened <- 0, inbox <- <<>>, listeners <- {},
                  onDisconnect <- << >>

(* A site that redirects in circles by itself is no concern of the         *)
(* extension, and rules from http to http would never be counted: only     *)
(* requests for https URLs are (background.js 521).  Of rulesets shipped   *)
(* only whitelisted ones may lead to http (utils/trivial-validate.py       *)
(* 97-117), and those that do begin at https.                              *)
ASSUME ServersEnd ==
  \A s \in Sites : \A urls \in SUBSET DOMAIN s : urls # {} => \E u \in urls : s[u] \notin urls
AllRules == (UNION {Range(BuiltinRules[r].rules) : r \in Builtin})
            \cup {UserRule[p].rule : p \in UserRuleParams}
ASSUME RulesSecure ==
  \A rule \in AllRules : \A u \in DOMAIN rule : u.scheme = "https" \/ rule[u].scheme = "https"

(* Pages, servers and the lists of rules name URLs of the hosts in play.   *)
ASSUME UrlsKnown ==
  /\ Page \subseteq Rules!URL
  /\ \A map \in Sites \cup AllRules : Range(map) \subseteq Rules!URL
  /\ \A r \in Builtin : BuiltinRules[r].rules \in Seq(AllRules)

(* What RuleStore assumes of its constants.                                *)
ASSUME RulesAssumptions ==
  /\ Rules!UserRuleHosts /\ Rules!BuiltinNames /\ Rules!HostNames
  /\ Rules!CacheLimits /\ Rules!BuiltinTypes

store   == <<targets, userSets, active, ruleCache, cookieHostCache, domainBlacklist, prefs, userRules, unstored>>
nowhere == <<pref, calls, inbox, httpNowhereOn, remote, restarts>>
planner == <<enabledFor, info>>
own     == <<request, listed, redirectCounter, urlBlacklist>>
vars    == <<store, nowhere, planner, own, server>>

NoRequest == [phase |-> "none"]

Init ==
  /\ Rules!Init /\ Nowhere!Init
  /\ enabledFor = {} /\ info = {}
  /\ request = [r \in Request |-> NoRequest]
  /\ listed = [t \in Tab |-> << >>]
  /\ redirectCounter = [r \in Request |-> 0]
  /\ urlBlacklist = {}
  /\ server \in Sites

-----------------------------------------------------------------------------
(* The browser.                                                            *)

(* A page asks for a URL; frame tells main_frame from other types.         *)
Start(r, t, u, frame) ==
  /\ request[r] = NoRequest
  /\ request' = [request EXCEPT ![r] = [phase |-> "asking", url |-> u, tab |-> t, frame |-> frame]]
  /\ UNCHANGED <<store, nowhere, planner, listed, redirectCounter, urlBlacklist, server>>

(* A request that went out is answered, maybe with a redirect.             *)
Answer(r) ==
  /\ request[r].phase = "wire"
  /\ request' = [request EXCEPT ![r] =
       IF @.url \in DOMAIN server
       THEN [phase |-> "redirected", url |-> @.url, tab |-> @.tab, frame |-> @.frame,
             to |-> server[@.url]]
       ELSE [phase |-> "done"]]
  /\ UNCHANGED <<store, nowhere, planner, listed, redirectCounter, urlBlacklist, server>>

(* Closing a tab aborts its requests; the extension drops its list.        *)
CloseTab(t) ==
  /\ request' = [r \in Request |->
       IF request[r].phase \in {"asking", "redirected", "wire"} /\ request[r].tab = t
       THEN [phase |-> "cancelled"] ELSE request[r]]
  /\ listed' = [listed EXCEPT ![t] = << >>]
  /\ UNCHANGED <<store, nowhere, planner, redirectCounter, urlBlacklist, server>>

-----------------------------------------------------------------------------
(* onBeforeRequest.                                                        *)

Asking(r) == request[r].phase = "asking"

(* Fault: hosts with rulesets are left to the rewriting.                   *)
ShouldCancelUnlisted(u) ==
  httpNowhereOn /\ u.scheme = "http" /\ Rules!Applicable(u.host) = <<>>

ShouldCancel(u) == httpNowhereOn /\ u.scheme = "http"

(* return {cancel: shouldCancel}                                           *)
Pass(r) ==
  request' = [request EXCEPT ![r] =
    IF ShouldCancel(@.url) THEN [phase |-> "cancelled"]
    ELSE [phase |-> "wire", url |-> @.url, tab |-> @.tab, frame |-> @.frame]]

(* A new page in the tab starts a new list.                                *)
ListBefore(r) ==
  IF request[r].frame THEN [listed EXCEPT ![request[r].tab] = << >>] ELSE listed

(* Fault: only active rulesets are listed.                                 *)
ListWithActive(list, rulesets) ==
  LET on == SelectSeq(rulesets, LAMBDA set : active[set])
  IN [n \in DOMAIN list \cup {Rules!Name(on[i]) : i \in DOMAIN on} |->
        IF \E i \in DOMAIN on : Rules!Name(on[i]) = n
        THEN CHOOSE set \in Range(on) : Rules!Name(set) = n ELSE list[n]]

(* addRulesetToTab, for each: a later ruleset replaces a namesake.         *)
ListWith(list, rulesets) ==
  LET names  == {Rules!Name(rulesets[i]) : i \in DOMAIN rulesets}
      last(n) == CHOOSE i \in DOMAIN rulesets :
                   /\ Rules!Name(rulesets[i]) = n
                   /\ \A j \in DOMAIN rulesets : Rules!Name(rulesets[j]) = n => j <= i
  IN [n \in DOMAIN list \cup names |-> IF n \in names THEN rulesets[last(n)] ELSE list[n]]

PassBlacklisted(r) ==
  /\ Asking(r) /\ request[r].url \in urlBlacklist
  /\ Pass(r)
  /\ UNCHANGED <<store, nowhere, planner, listed, redirectCounter, urlBlacklist, server>>

(* The rulesets of the host are looked up, which touches the cache.        *)
LookUp(r) ==
  /\ Asking(r) /\ request[r].url \notin urlBlacklist
  /\ ruleCache' = Rules!CacheAfter(request[r].url.host)
  /\ UNCHANGED <<targets, userSets, active, cookieHostCache, prefs, userRules, unstored,
                 nowhere, redirectCounter, server>>

PassUnlisted(r) ==
  /\ LookUp(r)
  /\ Rules!Applicable(request[r].url.host) = <<>>
  /\ Pass(r)
  /\ listed' = ListBefore(r)
  /\ UNCHANGED <<domainBlacklist, planner, urlBlacklist>>

(* Fault: only the host is blacklisted.                                    *)
BlacklistHost(u) ==
  /\ domainBlacklist' = domainBlacklist \cup {u.host}
  /\ UNCHANGED urlBlacklist

Blacklist(u) ==
  /\ urlBlacklist' = urlBlacklist \cup {u}
  /\ domainBlacklist' = domainBlacklist \cup {u.host}

(* Redirect counter hit.                                                   *)
GiveUp(r) ==
  LET u == request[r].url
  IN /\ LookUp(r)
     /\ Rules!Applicable(u.host) # <<>>
     /\ redirectCounter[r] >= RedirectLimit
     /\ Blacklist(u)
     /\ Pass(r)
     /\ listed' = ListBefore(r)
     /\ UNCHANGED planner

ApplyRulesets(r) ==
  LET u        == request[r].url
      t        == request[r].tab
      rulesets == Rules!Applicable(u.host)
      new      == Rules!Rewrite(u)
  IN /\ LookUp(r)
     /\ rulesets # <<>>
     /\ redirectCounter[r] < RedirectLimit
     /\ listed' = [ListBefore(r) EXCEPT ![t] = ListWith(@, rulesets)]
     /\ IF u.scheme # "https" THEN Planner!Record(t, u, new # None) ELSE UNCHANGED planner
     /\ IF new = None THEN Pass(r)
        ELSE request' = [request EXCEPT ![r] =
               IF httpNowhereOn /\ new.scheme = "http" THEN [phase |-> "cancelled"]
               ELSE [phase |-> "redirected", url |-> u, tab |-> t, frame |-> @.frame, to |-> new]]
     /\ UNCHANGED <<domainBlacklist, urlBlacklist>>

onBeforeRequest(r) ==
  PassBlacklisted(r) \/ PassUnlisted(r) \/ GiveUp(r) \/ ApplyRulesets(r)

(* Fault: the count starts over with every redirect.                       *)
CountAnew(r) == 1

Count(r) == redirectCounter[r] + 1

(* onBeforeRedirect hears of redirects of https URLs only; then the        *)
(* request asks again.                                                     *)
onBeforeRedirect(r) ==
  /\ request[r].phase = "redirected"
  /\ redirectCounter' = [redirectCounter EXCEPT ![r] =
                           IF request[r].url.scheme = "https" THEN Count(r) ELSE @]
  /\ request' = [request EXCEPT ![r] =
                   [phase |-> "asking", url |-> @.to, tab |-> @.tab, frame |-> @.frame]]
  /\ UNCHANGED <<store, nowhere, planner, listed, urlBlacklist, server>>

-----------------------------------------------------------------------------
(* The rest of the extension.                                              *)

(* The popup of a tab shows, and switches, the rulesets in its list.       *)
PopupToggle(t) ==
  /\ \E name \in DOMAIN listed[t] : Rules!Toggle(listed[t][name])
  /\ UNCHANGED <<nowhere, planner, own, server>>

PopupAddRule ==
  /\ \E params \in UserRuleParams : Rules!AddUserRule(params)
  /\ UNCHANGED <<nowhere, planner, own, server>>

CookieSeen ==
  /\ \E h \in Host : Rules!CheckCookieHost(h)
  /\ UNCHANGED <<nowhere, planner, own, server>>

PreferenceStep ==
  /\ Nowhere!ExecuteGet \/ Nowhere!LoadPref \/ Nowhere!OnChanged \/ Nowhere!RemoteChange
  /\ UNCHANGED <<store, planner, own, server>>

(* The developer tools of a tab start or stop recording.                   *)
SwitchRecording(t) ==
  /\ IF t \in enabledFor THEN Planner!Disable({t}) ELSE Planner!Enable({t})
  /\ UNCHANGED <<store, nowhere, own, server>>

(* The extension is reloaded under the requests in progress: a new         *)
(* background page has heard of none of them.                              *)
Restart ==
  /\ Nowhere!Restart /\ Rules!Reload
  /\ enabledFor' = {} /\ info' = {}
  /\ listed' = [t \in Tab |-> << >>]
  /\ redirectCounter' = [r \in Request |-> 0]
  /\ urlBlacklist' = {}
  /\ UNCHANGED <<request, server>>

Next ==
  \/ \E r \in Request, t \in Tab, u \in Page, frame \in BOOLEAN : Start(r, t, u, frame)
  \/ \E r \in Request : onBeforeRequest(r) \/ onBeforeRedirect(r) \/ Answer(r)
  \/ \E t \in Tab : CloseTab(t) \/ PopupToggle(t)
  \/ \E t \in MayRecord : SwitchRecording(t)
  \/ PopupAddRule \/ CookieSeen \/ PreferenceStep \/ Restart

(* The browser calls the handlers and servers answer; users, tools and the *)
(* sync service need do nothing.  This is weak fairness of the three       *)
(* actions, spelled out because each is enabled exactly in its phase.      *)
Fairness == \A r \in Request :
  /\ []<>(request[r].phase # "asking")     \/ []<><<onBeforeRequest(r)>>_vars
  /\ []<>(request[r].phase # "redirected") \/ []<><<onBeforeRedirect(r)>>_vars
  /\ []<>(request[r].phase # "wire")       \/ []<><<Answer(r)>>_vars

Spec == Init /\ [][Next]_vars /\ Fairness

-----------------------------------------------------------------------------
(* Properties.                                                             *)

Phases == {"none", "asking", "redirected", "wire", "done", "cancelled"}

(* The kinds of the request records, the lists and the counters; a list    *)
(* finds a live ruleset under its own name.                                *)
TypeOK ==
  /\ DOMAIN request = Request
  /\ \A r \in Request :
       /\ request[r].phase \in Phases
       /\ request[r].phase \in {"asking", "redirected", "wire"} =>
            /\ request[r].url \in Rules!URL /\ request[r].tab \in Tab
            /\ request[r].frame \in BOOLEAN
       /\ request[r].phase = "redirected" => request[r].to \in Rules!URL
  /\ DOMAIN listed = Tab
  /\ \A t \in Tab : \A name \in DOMAIN listed[t] :
       listed[t][name] \in Rules!Live /\ Rules!Name(listed[t][name]) = name
  /\ redirectCounter \in [Request -> Nat]
  /\ urlBlacklist \subseteq Rules!URL
  /\ enabledFor \subseteq MayRecord
  /\ server \in Sites

Current(u) == Rules!FirstRewrite(Rules!ComputeApplicable(u.host), u)

SentOut(r) == Asking(r) /\ request'[r].phase = "wire"

(* Whatever was toggled, added or cached before, a request goes out as it  *)
(* is only if no active ruleset would rewrite it or its URL was given up.  *)
NothingSlipsThrough ==
  [][\A r \in Request : SentOut(r) =>
       Current(request[r].url) = None \/ request[r].url \in urlBlacklist']_vars

(* With HTTP Nowhere on, none of the handler's returns lets http out: not  *)
(* for a blacklisted URL, nor a host without rulesets, nor a broken loop.  *)
NowhereHolds ==
  [][\A r \in Request : SentOut(r) /\ httpNowhereOn => request[r].url.scheme = "https"]_vars

(* Every host whose requests were given up is served over http as far as   *)
(* the extension knows: no cookie of it is secured, not even by an answer  *)
(* cached before (rules.js 344-358).                                       *)
GivenUpHostsKeepCookies == \A u \in urlBlacklist : ~Rules!Safe(u.host)

(* The popup lists every ruleset that applies to the page a tab goes to,   *)
(* so that it can be switched off, unless the page was given up.           *)
PageRulesetsListed ==
  [][\A r \in Request :
       SentOut(r) /\ request[r].frame /\ request[r].url \notin urlBlacklist' =>
         \A i \in DOMAIN Rules!ComputeApplicable(request[r].url.host) :
           Rules!Name(Rules!ComputeApplicable(request[r].url.host)[i])
             \in DOMAIN listed'[request[r].tab]]_vars

(* The loops that rulesets and servers make together are broken: every     *)
(* request is answered or cancelled (background.js 222-229 and 496-508).   *)
Terminates ==
  \A r \in Request : request[r].phase = "asking" ~> request[r].phase \in {"done", "cancelled"}

-----------------------------------------------------------------------------
(* What a comment promises and the code does not keep.                     *)

(* rules.js:345, "if there are any redirect loops on this domain": some    *)
(* URL of a blacklisted host can lead back to itself, by way of the servers *)
(* and of any rulesets, on or off.                                         *)
Leads(u) ==
  ({Rules!Apply(Rules!RuleSet(r, userSets), u) : r \in Rules!Live} \ {None})
  \cup (IF u \in DOMAIN server THEN {server[u]} ELSE {})

OnLoop(u) ==
  \A urls \in SUBSET Page :
    (\A v \in urls \cup {u} : Leads(v) \subseteq urls) => u \in urls

BlacklistedDomainsLoop ==
  \A h \in domainBlacklist : \E u \in Page : u.host = h /\ OnLoop(u)
=============================================================================
