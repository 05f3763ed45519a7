-------------------------- MODULE FirefoxChannels --------------------------
(***************************************************************************)
(* The life of a request in the Firefox extension (https-everywhere.js     *)
(* 414-519 and 645-687, HTTPS.js 41-101): a channel is looked at before it *)
(* goes out (http-on-modify-request) and, when it takes the place of       *)
(* another, already as a redirect (onChannelRedirect).  Rulesets redirect  *)
(* it, and one redirected too often goes out as it is.  What was found is  *)
(* kept for the menu in the list of the browser, which a new location      *)
(* empties; cookies are secured as responses and scripts set them.         *)
(*                                                                         *)
(* The rulesets are those of FirefoxRulesContract, by id.  The browser and *)
(* the servers are external.  The exception of redirectTo, which the code  *)
(* expects of open channels only, and credentials in URLs are left out.    *)
(***************************************************************************)
EXTENDS Naturals, Sequences, Functions

CONSTANTS
  Host, Path, NoncePath,  \* NoncePath: what safeToSecureCookie makes up
  Malformed,      \* hosts with an empty label
  Sts, Ocsp,      \* hosts with HSTS; URLs asked for with allowSTS = FALSE
  Ruleset,
  Applicable,     \* potentiallyApplicableRulesets: [host -> sequence]
  RulesOf,        \* of each: [rewrite: URL -> URL, cookies: set of cookies]
  Cookie, Domain, \* cookies and the host of each: its rawHost
  SetBy,          \* the hosts that may set it: subdomains too, if it says so
  Request, Browser,
  None,           \* no browser, no list, no ruleset, no URL
  Page,           \* URLs asked for
  Sites,          \* what the servers may be like: functions URL -> URL
  RedirectionLimit,  \* of a new channel: 20 in the browser
  GiveUpBelow,       \* 10 in the code
  MaxSwitches     \* bound on the user's switching

VARIABLES
  on,             \* is a ruleset on?
  httpNowhereEnabled,
  blacklist,      \* https_everywhere_blacklist: [URL -> ruleset]
  blacklistDomains,
  channel,        \* of each request
  list,           \* applicable_rules of each browser
  rewrote,        \* for AppliedListed: rulesets that redirected a request of
                  \* the browser since its list was new
  jar,            \* "none", "plain" or "secure"
  server,
  switches

rules == <<on, httpNowhereEnabled, switches>>
black == <<blacklist, blacklistDomains>>
lists == <<list, rewrote>>
vars  == <<rules, black, channel, lists, jar, server>>

Url == [scheme : {"http", "https"}, host : Host, path : Path \cup {NoncePath}]
Rewrites(set) == RulesOf[set].rewrite
HasRule(u, set) == u \in DOMAIN Rewrites(set)

(* applicable_rules: what a browser's list may hold. *)
PageLists ==
  [home : Url \cup {None}, active : SUBSET Ruleset, breaking : SUBSET Ruleset,
   inactive : SUBSET Ruleset, moot : SUBSET Ruleset]

(* The extension never makes more of a redirect than a redirect, and ten   *)
(* of twenty are left for servers: here at least one has to be.            *)
ASSUME LimitsAssumption ==
  /\ GiveUpBelow \in Nat \ {0} /\ RedirectionLimit \in Nat
  /\ GiveUpBelow < RedirectionLimit
(* A lookup answers null for a host with an empty label: no rulesets.      *)
ASSUME RulesAssumption ==
  /\ Applicable \in [Host -> Seq(Ruleset)] /\ \A h \in Host : IsInjective(Applicable[h])
  /\ \A h \in Host \cap Malformed : Applicable[h] = << >>
  /\ \A set \in Ruleset : /\ DOMAIN Rewrites(set) \subseteq Url
                          /\ RulesOf[set].rewrite \in [DOMAIN Rewrites(set) -> Url]
                          /\ RulesOf[set].cookies \subseteq Cookie
ASSUME SitesAssumption ==
  /\ Page \subseteq Url /\ Domain \in [Cookie -> Host] /\ SetBy \in [Cookie -> SUBSET Host]
  /\ \A s \in Sites : DOMAIN s \subseteq Url /\ s \in [DOMAIN s -> Url]
ASSUME NoneAssumption == None \notin Url \cup Browser \cup Cookie \cup PageLists

-----------------------------------------------------------------------------
(* rewrittenURI and the lists it writes to.                                *)

NewList(u) == [home |-> u, active |-> {}, breaking |-> {}, inactive |-> {}, moot |-> {}]

(* Fault: each request starts a new list.                                  *)
ListAnew(b) == NewList(None)

(* A browser that has not been to a location yet is at about:blank, which  *)
(* has no host to look up: None.                                           *)
ListOf(b) == IF list[b] = None THEN NewList(None) ELSE list[b]

All(l) == l.active \cup l.breaking \cup l.inactive \cup l.moot

(* The position of the first ruleset that changes u, past the end if none. *)
FirstAt(u) ==
  LET sets == Applicable[u.host]
      hits == {i \in DOMAIN sets : on[sets[i]] /\ HasRule(u, sets[i])}
  IN IF hits = {} THEN Len(sets) + 1 ELSE CHOOSE i \in hits : \A j \in hits : i <= j

IsRewritten(u) == FirstAt(u) \in DOMAIN Applicable[u.host]
Applied(u) == Applicable[u.host][FirstAt(u)]

WouldMatch(u, set) == HasRule([u EXCEPT !.scheme = "http"], set)

(* What rewrittenURI notes down: of the rulesets passed over those that    *)
(* would match and are not in the list, and the one that changes u.        *)
Noted(l, u) ==
  LET passed == {Applicable[u.host][i] : i \in 1 .. (FirstAt(u) - 1)}
      idle   == {set \in passed \ All(l) : WouldMatch(u, set)}
      hit    == IF IsRewritten(u) THEN {Applied(u)} ELSE {}
  IN [l EXCEPT !.inactive = @ \cup {set \in idle : ~on[set]},
               !.moot = @ \cup {set \in idle : on[set] /\ u.scheme = "https"},
               !.breaking = @ \cup (IF u \in DOMAIN blacklist THEN hit ELSE {}),
               !.active = @ \cup (IF u \in DOMAIN blacklist THEN {} ELSE hit)]

(* replaceChannel.                                                         *)

Plain(u) == u.scheme = "http"

(* Fault: the limit is looked at when nothing is left of it.               *)
GivesUpAtEnd(c) == IsRewritten(c.url) /\ c.limit = 0

GivesUp(c) == IsRewritten(c.url) /\ c.limit < GiveUpBelow

(* Fault: a downgrade is no reason.                                        *)
AbortsUnrewritten(c) ==
  /\ httpNowhereEnabled
  /\ Plain(c.url)
  /\ ~IsRewritten(c.url) /\ c.url.host \notin Sts

Aborts(c) ==
  /\ httpNowhereEnabled
  /\ IF IsRewritten(c.url)
     THEN \/ Plain(Rewrites(Applied(c.url))[c.url])
          \/ GivesUp(c) /\ Plain(c.url)
     ELSE Plain(c.url) /\ c.url.host \notin Sts

Replaced(c) ==
  [c EXCEPT !.aborted = @ \/ Aborts(c),
            !.to = IF IsRewritten(c.url) /\ ~GivesUp(c)
                   THEN Rewrites(Applied(c.url))[c.url] ELSE @]

(* Fault: the host is not remembered.                                      *)
BlacklistUrl(c) ==
  IF GivesUp(c)
  THEN /\ blacklist' = [u \in DOMAIN blacklist \cup {c.url} |->
                          IF u = c.url THEN Applied(u) ELSE blacklist[u]]
       /\ UNCHANGED blacklistDomains
  ELSE UNCHANGED black

Blacklist(c) ==
  IF GivesUp(c)
  THEN /\ blacklist' = [u \in DOMAIN blacklist \cup {c.url} |->
                          IF u = c.url THEN Applied(u) ELSE blacklist[u]]
       /\ blacklistDomains' = blacklistDomains \cup {c.url.host}
  ELSE UNCHANGED black

NoteRewrite(c) ==
  rewrote' = IF c.browser \in Browser /\ IsRewritten(c.url) /\ ~GivesUp(c)
             THEN [rewrote EXCEPT ![c.browser] = @ \cup {Applied(c.url)}] ELSE rewrote

(* Its whole effect but for the channel itself.                            *)
ReplaceEffect(c) ==
  /\ Blacklist(c) /\ NoteRewrite(c)
  /\ list' = IF c.browser \in Browser
             THEN [list EXCEPT ![c.browser] = Noted(ListOf(c.browser), c.url)]
             ELSE list

-----------------------------------------------------------------------------
(* Phases in which the browser has more to do. *)
UnderWay(r) == channel[r].phase \in {"open", "redirecting", "wire"}

NoChannel == [phase |-> "none"]

(* Fault: the new channel starts counting anew.                            *)
ChannelAnew(u, limit, b) ==
  [phase |-> "open", url |-> u, limit |-> RedirectionLimit, browser |-> b, to |-> None,
   aborted |-> FALSE]

Channel(u, limit, b) ==
  [phase |-> "open", url |-> u, limit |-> limit, browser |-> b, to |-> None, aborted |-> FALSE]

(* Where a channel goes when nobody has more to say: plainly tells a       *)
(* request that goes out over http though a ruleset is there for it.       *)
Sent(c) ==
  IF c.aborted THEN [phase |-> "aborted"]
  ELSE IF c.to # None
  THEN [phase |-> "redirecting", url |-> c.url, to |-> c.to, limit |-> c.limit, browser |-> c.browser]
  ELSE [phase |-> "wire", url |-> c.url, limit |-> c.limit, browser |-> c.browser,
        plainly |-> Plain(c.url) /\ IsRewritten(c.url) /\ c.url \notin Ocsp]

Init ==
  /\ on \in [Ruleset -> BOOLEAN] /\ httpNowhereEnabled \in BOOLEAN
  /\ blacklist = << >> /\ blacklistDomains = {}
  /\ channel = [r \in Request |-> NoChannel]
  /\ list = [b \in Browser |-> None] /\ rewrote = [b \in Browser |-> {}]
  /\ jar = [c \in Cookie |-> "none"]
  /\ server \in Sites
  /\ switches = 0

(* A page asks for a URL; some requests belong to no browser, checks of    *)
(* certificates among them.  The ids of requests that ended are used again. *)
Start(r, b, u) ==
  /\ u \in Ocsp => b = None
  /\ ~UnderWay(r)
  /\ channel' = [channel EXCEPT ![r] = Channel(u, RedirectionLimit, b)]
  /\ UNCHANGED <<rules, black, lists, jar, server>>

(* http-on-modify-request for a host whose lookup answers null: `rs.length` *)
(* throws, and the channel goes out as it is.                              *)
ModifyThrows(r, c) ==
  /\ c.url.host \in Malformed
  /\ list' = IF c.browser \in Browser
             THEN [list EXCEPT ![c.browser] = ListOf(c.browser)] ELSE list
  /\ channel' = [channel EXCEPT ![r] = Sent(c)]
  /\ UNCHANGED <<black, rewrote>>

(* shouldIgnoreURI: HTTP Nowhere ignores nothing.                          *)
Ignored(u) == ~httpNowhereEnabled /\ (u \in DOMAIN blacklist \/ u \in Ocsp)

ModifyIgnores(r, c) ==
  /\ c.url.host \notin Malformed /\ Ignored(c.url)
  /\ list' = IF c.browser \notin Browser THEN list
             ELSE [list EXCEPT ![c.browser] =
                     IF c.url \in DOMAIN blacklist
                     THEN [ListOf(c.browser) EXCEPT !.breaking = @ \cup {blacklist[c.url]}]
                     ELSE ListOf(c.browser)]
  /\ channel' = [channel EXCEPT ![r] = Sent(c)]
  /\ UNCHANGED <<black, rewrote>>

ModifyReplaces(r, c) ==
  /\ c.url.host \notin Malformed /\ ~Ignored(c.url)
  /\ ReplaceEffect(c)
  /\ channel' = [channel EXCEPT ![r] = Sent(Replaced(c))]

Modify(r) ==
  /\ channel[r].phase = "open"
  /\ ModifyThrows(r, channel[r]) \/ ModifyIgnores(r, channel[r]) \/ ModifyReplaces(r, channel[r])
  /\ UNCHANGED <<rules, jar, server>>

(* asyncOnChannelRedirect: the new channel is replaced like any other, not *)
(* asking shouldIgnoreURI.  An exception vetoes the redirect.              *)
Redirect(r) ==
  /\ channel[r].phase = "redirecting"
  /\ LET c == Channel(channel[r].to, channel[r].limit - 1, channel[r].browser)
     IN IF c.url.host \in Malformed
        THEN /\ channel' = [channel EXCEPT ![r] = [phase |-> "aborted"]]
             /\ UNCHANGED <<black, lists>>
        ELSE /\ ReplaceEffect(c)
             /\ channel' = [channel EXCEPT ![r] = Replaced(c)]
  /\ UNCHANGED <<rules, jar, server>>

-----------------------------------------------------------------------------
(* Cookies.                                                                *)

Covers(set, k) == on[set] /\ k \in RulesOf[set].cookies
Covered(k) == \E i \in DOMAIN Applicable[Domain[k]] : Covers(Applicable[Domain[k]][i], k)

safeToSecureCookie(h) ==
  /\ h \notin blacklistDomains
  /\ IsRewritten([scheme |-> "http", host |-> h, path |-> NoncePath])

(* shouldSecureCookie's notes: rulesets up to the one that covers k.       *)
NotedCookie(l, k) ==
  LET sets == Applicable[Domain[k]]
      seen == {i \in DOMAIN sets : /\ RulesOf[sets[i]].cookies # {}
                                   /\ \A j \in 1 .. (i - 1) : ~Covers(sets[j], k)}
  IN [l EXCEPT !.active = @ \cup {sets[i] : i \in {i \in seen : Covers(sets[i], k)}},
               !.moot = @ \cup {sets[i] : i \in {i \in seen : on[sets[i]] /\ ~Covers(sets[i], k)}},
               !.inactive = @ \cup {sets[i] : i \in {i \in seen : ~on[sets[i]]}}]

(* A plain cookie is stored: cookie-changed, at once.                      *)
Stored(k) == IF safeToSecureCookie(Domain[k]) /\ Covered(k) THEN "secure" ELSE "plain"

ScriptSets(k) ==
  /\ jar' = [jar EXCEPT ![k] = Stored(k)]
  /\ UNCHANGED <<rules, black, channel, lists, server>>

(* A response, with or without a cookie (None).  handleSecureCookies adds  *)
(* a secure copy to the header of an https response.                       *)
Answer(r, k) ==
  /\ channel[r].phase = "wire"
  /\ LET u == channel[r].url  b == channel[r].browser
     IN /\ k # None => u.host \in SetBy[k]
        /\ jar' = IF k = None THEN jar
                  ELSE [jar EXCEPT ![k] = IF ~Plain(u) /\ Covered(k) THEN "secure" ELSE Stored(k)]
        /\ list' = IF b \notin Browser THEN list
                   ELSE [list EXCEPT ![b] =
                           IF k # None /\ ~Plain(u) THEN NotedCookie(ListOf(b), k) ELSE ListOf(b)]
        /\ channel' = [channel EXCEPT ![r] =
             IF u \notin DOMAIN server
             THEN [phase |-> "done", url |-> u, plainly |-> @.plainly]
             ELSE IF @.limit = 0 THEN [phase |-> "failed"]
             ELSE [phase |-> "redirecting", url |-> u, to |-> server[u], limit |-> @.limit,
                   browser |-> b]]
  /\ UNCHANGED <<rules, black, rewrote, server>>

-----------------------------------------------------------------------------
(* The browser's windows.                                                  *)

(* onLocationChange: resetApplicableList.                                  *)
LocationChange(b, u) ==
  /\ list' = [list EXCEPT ![b] = NewList(u)]
  /\ rewrote' = [rewrote EXCEPT ![b] = {}]
  /\ UNCHANGED <<rules, black, channel, jar, server>>

(* updateRulesetsApplied and the menu first look at the page's own URL.    *)
Populated(l) == IF l.home = None THEN l ELSE Noted(l, l.home)

Populate(b) ==
  /\ list[b] # None
  /\ list' = [list EXCEPT ![b] = Populated(@)]
  /\ UNCHANGED <<rules, black, channel, rewrote, jar, server>>

(* The menu of an error page lists rulesets of the host in the urlbar.     *)
ErrorPageMenu(b, h) ==
  /\ list[b] # None /\ h \notin Malformed
  /\ list' = [list EXCEPT ![b] =
       LET l == Populated(@)
       IN [l EXCEPT !.active = @ \cup {set \in Range(Applicable[h]) : on[set]},
                    !.inactive = @ \cup {set \in Range(Applicable[h]) : ~on[set]}]]
  /\ UNCHANGED <<rules, black, channel, rewrote, jar, server>>

Switch == switches < MaxSwitches /\ switches' = switches + 1

ToggleRule(set) ==
  /\ Switch /\ on' = [on EXCEPT ![set] = ~@]
  /\ UNCHANGED <<httpNowhereEnabled, black, channel, lists, jar, server>>

ToggleHttpNowhere ==
  /\ Switch /\ httpNowhereEnabled' = ~httpNowhereEnabled
  /\ UNCHANGED <<on, black, channel, lists, jar, server>>

Next ==
  \/ \E r \in Request, b \in Browser \cup {None}, u \in Page : Start(r, b, u)
  \/ \E r \in Request : Modify(r) \/ Redirect(r) \/ \E k \in Cookie \cup {None} : Answer(r, k)
  \/ \E k \in Cookie : ScriptSets(k)
  \/ \E b \in Browser, u \in Page \ Ocsp : LocationChange(b, u)
  \/ \E b \in Browser : Populate(b) \/ \E h \in Host : ErrorPageMenu(b, h)
  \/ \E set \in Ruleset : ToggleRule(set)
  \/ ToggleHttpNowhere

(* Observers are called and servers answer: weak fairness of the steps of  *)
(* a request under way, each of which changes its channel.                 *)
Fairness ==
  \A r \in Request : []<>~UnderWay(r) \/ []<><<channel'[r] # channel[r]>>_vars

Spec == Init /\ [][Next]_vars /\ Fairness

-----------------------------------------------------------------------------
(* Properties.                                                             *)

(* While HTTP Nowhere is on nothing goes out over http, whichever of the   *)
(* ways out of the two hooks the request takes, except to hosts with HSTS, *)
(* which the browser takes to https itself, and to hosts with an empty     *)
(* label, for which the hook throws: HTTPS.js 45-80.                       *)
NowhereHolds ==
  [][\A r \in Request :
       channel[r].phase = "open" /\ channel'[r].phase = "wire" /\ httpNowhereEnabled =>
         \/ ~Plain(channel'[r].url)
         \/ channel'[r].url.host \in Sts \cup Malformed]_vars

(* Where servers do not redirect in circles by themselves, a request that  *)
(* rulesets and servers send to and fro goes out as it is before the       *)
(* browser has had enough of it, whatever is switched in the meantime:     *)
(* HTTPS.js 62-80.                                                         *)
LoopsFallBack == \A r \in Request : channel[r].phase # "failed"

(* And every request ends: each hook may redirect it, and redirects are    *)
(* all that is counted.                                                    *)
Terminates == \A r \in Request : []<>~UnderWay(r)

(* The menu and the counter know every ruleset that redirected a request   *)
(* of the browser since it shows its page, through redirects, blacklisting *)
(* and looks at the menu: https-everywhere.js 380-412 and 662-682.         *)
AppliedListed ==
  \A b \in Browser : rewrote[b] # {} =>
    list[b] # None /\ rewrote[b] \subseteq list[b].active \cup list[b].breaking

(* Once a host was asked over http though a ruleset is there for it, no    *)
(* cookie of that very domain is secured unless an https response sets it: *)
(* the two hooks, the blacklists and safeToSecureCookie agree (HTTPS.js    *)
(* 70-80, HTTPSRules.js 737-748).  A cookie of a parent domain, which the  *)
(* host gets too, may be secured: its own rawHost is what is tested.       *)
Plainly(h) ==
  \E r \in Request : channel[r].phase \in {"wire", "done"} /\ channel[r].url.host = h
                     /\ channel[r].plainly
GivenUpHostsKeepCookies ==
  [][\A k \in Cookie : Plainly(Domain[k]) /\ jar[k] # "secure" /\ jar'[k] = "secure" =>
       \E r \in Request : channel[r].phase = "wire" /\ channel[r] # channel'[r]
                          /\ ~Plain(channel[r].url) /\ channel[r].url.host \in SetBy[k]]_vars
=============================================================================
