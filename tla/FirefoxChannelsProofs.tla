------------------------ MODULE FirefoxChannelsProofs ------------------------
(***************************************************************************)
(* Proofs about FirefoxChannels, for all rulesets, servers, requests and   *)
(* browsers: what the two hooks, the lists and the blacklists owe to each  *)
(* other.  The invariant ChannelInv says that the list of a browser has    *)
(* what was applied, that a URL is blacklisted together with its host, and *)
(* that what went out plainly is of such a host; a channel that a ruleset  *)
(* redirects has redirects left.  That loops end needs Enough beside it.   *)
(***************************************************************************)
EXTENDS FirefoxChannels, TLAPS

Numbers == INSTANCE HostTargetsProofs

(* The shapes a request takes; one that failed was redirected too often.   *)
Gone        == [phase : {"none", "aborted", "failed"}]
Open        == [phase : {"open"}, url : Url, limit : Nat, browser : Browser \cup {None},
                to : Url \cup {None}, aborted : BOOLEAN]
Redirecting == [phase : {"redirecting"}, url : Url, to : Url, limit : Nat \ {0},
                browser : Browser \cup {None}]
OnWire      == [phase : {"wire"}, url : Url, limit : Nat, browser : Browser \cup {None},
                plainly : BOOLEAN]
Done        == [phase : {"done"}, url : Url, plainly : BOOLEAN]
Channels    == Gone \cup Open \cup Redirecting \cup OnWire \cup Done

(* Only a channel with enough left is redirected by a ruleset.             *)
Kept(c) == c.phase = "open" /\ c.to # None => c.limit >= GiveUpBelow

ChannelsTyped == channel \in [Request -> Channels] /\ \A r \in Request : Kept(channel[r])

(* A browser's list, and that it has what was applied.                     *)
ListInv ==
  /\ list \in [Browser -> PageLists \cup {None}]
  /\ rewrote \in [Browser -> SUBSET Ruleset]
  /\ AppliedListed

(* A URL is blacklisted together with its host.                            *)
BlackInv ==
  /\ blacklist \in [DOMAIN blacklist -> Ruleset] /\ DOMAIN blacklist \subseteq Url
  /\ blacklistDomains \subseteq Host
  /\ \A u \in DOMAIN blacklist : u.host \in blacklistDomains

OtherTyped ==
  /\ on \in [Ruleset -> BOOLEAN] /\ httpNowhereEnabled \in BOOLEAN
  /\ jar \in [Cookie -> {"none", "plain", "secure"}]
  /\ server \in Sites

(* What went out plainly is of a host that cookies are spared of.          *)
Spared(c, hosts) == c.phase \in {"wire", "done"} /\ c.plainly => c.url.host \in hosts

ChannelInv ==
  /\ ChannelsTyped /\ ListInv /\ BlackInv /\ OtherTyped
  /\ \A r \in Request : Spared(channel[r], blacklistDomains)

-----------------------------------------------------------------------------
(* Which ruleset changes a URL, and to what.                               *)

LEMMA UrlsHaveHosts == ASSUME NEW u \in Url PROVE u.host \in Host /\ u.scheme \in {"http", "https"}
BY DEF Url

(* Every ruleset passed over is one, and so is the one that changes u.     *)
LEMMA FirstApplies ==
  ASSUME NEW u \in Url
  PROVE  /\ FirstAt(u) \in Nat \ {0} /\ FirstAt(u) <= Len(Applicable[u.host]) + 1
         /\ \A i \in 1 .. (FirstAt(u) - 1) : Applicable[u.host][i] \in Ruleset
         /\ IsRewritten(u) => /\ Applied(u) \in Ruleset /\ HasRule(u, Applied(u))
                              /\ Rewrites(Applied(u))[u] \in Url
<1> DEFINE sets == Applicable[u.host]
           hits == {i \in DOMAIN sets : on[sets[i]] /\ HasRule(u, sets[i])}
<1>1. sets \in Seq(Ruleset) /\ Len(sets) \in Nat /\ DOMAIN sets = 1 .. Len(sets)
  BY UrlsHaveHosts, RulesAssumption
<1>2. \A i \in 1 .. Len(sets) : sets[i] \in Ruleset
  BY <1>1
<1>3. FirstAt(u) = IF hits = {} THEN Len(sets) + 1
                   ELSE CHOOSE i \in hits : \A j \in hits : i <= j
  BY DEF FirstAt
<1>4. CASE hits = {}
  <2>1. FirstAt(u) = Len(sets) + 1
    BY <1>3, <1>4
  <2>2. ~IsRewritten(u)
    BY <1>1, <2>1 DEF IsRewritten
  <2> QED BY <1>1, <1>2, <2>1, <2>2
<1>5. CASE hits # {}
  <2>1. hits \in SUBSET Nat
    BY <1>1
  <2>2. \E i \in hits : \A j \in hits : i <= j
    BY <1>5, <2>1, Numbers!Smallest
  <2>3. FirstAt(u) \in hits
    BY <1>3, <1>5, <2>2
  <2>4. FirstAt(u) \in 1 .. Len(sets) /\ HasRule(u, sets[FirstAt(u)])
    BY <1>1, <2>3
  <2>5. Applied(u) = sets[FirstAt(u)]
    BY DEF Applied
  <2>6. Applied(u) \in Ruleset /\ HasRule(u, Applied(u))
    BY <1>2, <2>4, <2>5
  <2>7. Rewrites(Applied(u))[u] \in Url
    BY <2>6, RulesAssumption DEF HasRule, Rewrites
  <2>8. \A i \in 1 .. (FirstAt(u) - 1) : i \in 1 .. Len(sets)
    BY <1>1, <2>4
  <2>9. FirstAt(u) \in Nat \ {0} /\ FirstAt(u) <= Len(sets) + 1
    BY <1>1, <2>4
  <2> QED BY <1>2, <2>6, <2>7, <2>8, <2>9
<1> QED BY <1>4, <1>5

(* A host with an empty label has nothing that applies.                    *)
LEMMA MalformedUntouched ==
  ASSUME NEW u \in Url, u.host \in Malformed
  PROVE  ~IsRewritten(u)
BY UrlsHaveHosts, RulesAssumption DEF IsRewritten, FirstAt

-----------------------------------------------------------------------------
(* What the hooks make of a channel.                                       *)

LEMMA ChannelIsOpen ==
  ASSUME NEW u \in Url, NEW n \in Nat, NEW b \in Browser \cup {None}
  PROVE  Channel(u, n, b) \in Open /\ Kept(Channel(u, n, b))
BY DEF Channel, Open, Kept

LEMMA ReplacedIsOpen ==
  ASSUME NEW c \in Open, Kept(c)
  PROVE  /\ Replaced(c) \in Open /\ Kept(Replaced(c))
         /\ Replaced(c).url = c.url /\ Replaced(c).limit = c.limit
         /\ Replaced(c).browser = c.browser
         /\ Replaced(c).to = IF IsRewritten(c.url) /\ ~GivesUp(c)
                             THEN Rewrites(Applied(c.url))[c.url] ELSE c.to
         /\ Replaced(c).aborted = (c.aborted \/ Aborts(c))
         /\ IsRewritten(c.url) /\ ~GivesUp(c) => Replaced(c).to # None
<1>1. c.url \in Url /\ c.limit \in Nat
  BY DEF Open
<1>2. IsRewritten(c.url) => Rewrites(Applied(c.url))[c.url] \in Url
  BY <1>1, FirstApplies
<1>3. Aborts(c) \in BOOLEAN
  BY DEF Aborts, Plain, GivesUp, IsRewritten
<1>4. IsRewritten(c.url) /\ ~GivesUp(c) => c.limit >= GiveUpBelow
  BY <1>1, LimitsAssumption DEF GivesUp
<1>5. /\ Replaced(c).url = c.url /\ Replaced(c).limit = c.limit
      /\ Replaced(c).browser = c.browser /\ Replaced(c).phase = "open"
      /\ Replaced(c).to = IF IsRewritten(c.url) /\ ~GivesUp(c)
                          THEN Rewrites(Applied(c.url))[c.url] ELSE c.to
      /\ Replaced(c).aborted = (c.aborted \/ Aborts(c))
  BY DEF Replaced, Open
<1>6. Replaced(c) \in Open
  BY <1>2, <1>3 DEF Replaced, Open
<1>7. Kept(Replaced(c))
  BY <1>4, <1>5 DEF Kept, Open
<1>8. IsRewritten(c.url) /\ ~GivesUp(c) => Replaced(c).to # None
  BY <1>2, <1>5, NoneAssumption
<1> QED BY <1>5, <1>6, <1>7, <1>8

LEMMA SentIsTyped ==
  ASSUME NEW c \in Open, Kept(c)
  PROVE  /\ Sent(c) \in Gone \cup Redirecting \cup OnWire
         /\ Sent(c).phase \in {"aborted", "redirecting", "wire"}
         /\ Sent(c).phase = "redirecting" => /\ Sent(c).to = c.to /\ Sent(c).limit = c.limit
                                             /\ c.limit >= GiveUpBelow
         /\ Sent(c).phase = "wire" =>
              /\ ~c.aborted /\ c.to = None
              /\ Sent(c).url = c.url /\ Sent(c).limit = c.limit
              /\ Sent(c).plainly => IsRewritten(c.url) /\ c.url \notin Ocsp
<1>1. CASE c.aborted
  BY <1>1 DEF Sent, Gone
<1>2. CASE ~c.aborted /\ c.to # None
  <2>1. c.to \in Url /\ c.limit \in Nat \ {0} /\ c.limit >= GiveUpBelow
    BY <1>2, LimitsAssumption DEF Open, Kept
  <2>2. Sent(c) = [phase |-> "redirecting", url |-> c.url, to |-> c.to, limit |-> c.limit,
                   browser |-> c.browser]
    BY <1>2 DEF Sent
  <2> QED BY <2>1, <2>2 DEF Redirecting, Open
<1>3. CASE ~c.aborted /\ c.to = None
  <2>1. Sent(c) = [phase |-> "wire", url |-> c.url, limit |-> c.limit, browser |-> c.browser,
                   plainly |-> Plain(c.url) /\ IsRewritten(c.url) /\ c.url \notin Ocsp]
    BY <1>3 DEF Sent
  <2>2. (Plain(c.url) /\ IsRewritten(c.url) /\ c.url \notin Ocsp) \in BOOLEAN
    BY DEF Plain, IsRewritten
  <2> QED BY <1>3, <2>1, <2>2 DEF OnWire, Open
<1> QED BY <1>1, <1>2, <1>3

-----------------------------------------------------------------------------
(* What is written into a list.                                            *)

Grown(l, m) == m \in PageLists /\ l.active \subseteq m.active /\ l.breaking \subseteq m.breaking

LEMMA NewIsList == ASSUME NEW u \in Url \cup {None} PROVE NewList(u) \in PageLists
BY DEF NewList, PageLists

LEMMA ListOfIsList == ASSUME ListInv, NEW b \in Browser PROVE ListOf(b) \in PageLists
<1>1. list[b] \in PageLists \cup {None}
  BY DEF ListInv
<1> QED BY <1>1, NewIsList DEF ListOf

(* rewrittenURI forgets nothing, and notes down what it applies.           *)
LEMMA NotedGrows ==
  ASSUME BlackInv, NEW l \in PageLists, NEW u \in Url
  PROVE  /\ Grown(l, Noted(l, u))
         /\ IsRewritten(u) => Applied(u) \in Noted(l, u).active \cup Noted(l, u).breaking
<1> DEFINE passed == {Applicable[u.host][i] : i \in 1 .. (FirstAt(u) - 1)}
           idle   == {set \in passed \ All(l) : WouldMatch(u, set)}
           hit    == IF IsRewritten(u) THEN {Applied(u)} ELSE {}
           off    == {set \in idle : ~on[set]}
           gone   == {set \in idle : on[set] /\ u.scheme = "https"}
           broke  == IF u \in DOMAIN blacklist THEN hit ELSE {}
           act    == IF u \in DOMAIN blacklist THEN {} ELSE hit
<1>1. passed \subseteq Ruleset /\ hit \subseteq Ruleset
  BY FirstApplies
<1>2. off \subseteq Ruleset /\ gone \subseteq Ruleset /\ broke \subseteq Ruleset /\ act \subseteq Ruleset
  BY <1>1
<1>3. IsRewritten(u) => Applied(u) \in act \cup broke
  OBVIOUS
<1>4. Noted(l, u) = [l EXCEPT !.inactive = @ \cup off, !.moot = @ \cup gone,
                              !.breaking = @ \cup broke, !.active = @ \cup act]
  BY DEF Noted
<1> HIDE DEF off, gone, broke, act
<1>5. /\ Noted(l, u) \in PageLists
      /\ Noted(l, u).active = l.active \cup act /\ Noted(l, u).breaking = l.breaking \cup broke
  BY <1>2, <1>4 DEF PageLists
<1> QED BY <1>3, <1>5 DEF Grown

(* Nor does shouldSecureCookie.                                            *)
LEMMA NotedCookieGrows ==
  ASSUME NEW l \in PageLists, NEW k \in Cookie
  PROVE  Grown(l, NotedCookie(l, k))
<1> DEFINE sets == Applicable[Domain[k]]
           seen == {i \in DOMAIN sets : /\ RulesOf[sets[i]].cookies # {}
                                        /\ \A j \in 1 .. (i - 1) : ~Covers(sets[j], k)}
           act  == {sets[i] : i \in {i \in seen : Covers(sets[i], k)}}
           gone == {sets[i] : i \in {i \in seen : on[sets[i]] /\ ~Covers(sets[i], k)}}
           off  == {sets[i] : i \in {i \in seen : ~on[sets[i]]}}
<1>1. sets \in Seq(Ruleset)
  BY RulesAssumption, SitesAssumption
<1>2. \A i \in DOMAIN sets : sets[i] \in Ruleset
  BY <1>1
<1>3. act \subseteq Ruleset /\ gone \subseteq Ruleset /\ off \subseteq Ruleset
  BY <1>2
<1>4. NotedCookie(l, k) = [l EXCEPT !.active = @ \cup act, !.moot = @ \cup gone,
                                    !.inactive = @ \cup off]
  BY DEF NotedCookie
<1> HIDE DEF act, gone, off
<1> QED BY <1>3, <1>4 DEF Grown, PageLists

(* A browser's list that only grows has what was applied, and more.        *)
LEMMA GrowingKeepsApplied ==
  ASSUME ListInv, NEW b \in Browser, NEW l, Grown(ListOf(b), l),
         list' = [list EXCEPT ![b] = l],
         rewrote' \in [Browser -> SUBSET Ruleset],
         \A x \in Browser \ {b} : rewrote'[x] = rewrote[x],
         rewrote'[b] \subseteq rewrote[b] \cup l.active \cup l.breaking
  PROVE  ListInv'
<1>1. l \in PageLists /\ l # None
  BY NoneAssumption DEF Grown
<1>2. list' \in [Browser -> PageLists \cup {None}] /\ list'[b] = l
      /\ \A x \in Browser \ {b} : list'[x] = list[x]
  BY <1>1 DEF ListInv
<1>3. rewrote[b] \subseteq ListOf(b).active \cup ListOf(b).breaking
  <2>1. CASE rewrote[b] = {}
    BY <2>1
  <2>2. CASE rewrote[b] # {}
    BY <2>2 DEF ListInv, AppliedListed, ListOf
  <2> QED BY <2>1, <2>2
<1>4. rewrote'[b] \subseteq l.active \cup l.breaking
  BY <1>3 DEF Grown
<1>5. AppliedListed'
  <2> SUFFICES ASSUME NEW x \in Browser, rewrote'[x] # {}
               PROVE  list'[x] # None /\ rewrote'[x] \subseteq list'[x].active \cup list'[x].breaking
    BY DEF AppliedListed
  <2>1. CASE x = b
    BY <1>1, <1>2, <1>4, <2>1
  <2>2. CASE x # b
    BY <1>2, <2>2 DEF ListInv, AppliedListed
  <2> QED BY <2>1, <2>2
<1> QED BY <1>2, <1>5 DEF ListInv

(* replaceChannel: what redirects the channel is noted, what is given up    *)
(* blacklisted with its host.                                              *)
LEMMA ReplaceKeeps ==
  ASSUME ListInv, BlackInv, NEW c \in Open, ReplaceEffect(c)
  PROVE  /\ ListInv' /\ BlackInv'
         /\ blacklistDomains \subseteq blacklistDomains'
         /\ GivesUp(c) => c.url.host \in blacklistDomains'
<1>1. c.url \in Url /\ c.url.host \in Host /\ c.browser \in Browser \cup {None}
  BY UrlsHaveHosts DEF Open
<1>2. /\ BlackInv' /\ blacklistDomains \subseteq blacklistDomains'
      /\ GivesUp(c) => c.url.host \in blacklistDomains'
  <2>1. CASE GivesUp(c)
    <3> DEFINE more == [u \in DOMAIN blacklist \cup {c.url} |->
                          IF u = c.url THEN Applied(u) ELSE blacklist[u]]
    <3>1. blacklist' = more /\ blacklistDomains' = blacklistDomains \cup {c.url.host}
      BY <2>1 DEF ReplaceEffect, Blacklist
    <3>2. Applied(c.url) \in Ruleset
      BY <1>1, <2>1, FirstApplies DEF GivesUp
    <3>3. \A u \in DOMAIN blacklist : blacklist[u] \in Ruleset
      BY DEF BlackInv
    <3>4. more \in [DOMAIN blacklist \cup {c.url} -> Ruleset]
      BY <3>2, <3>3
    <3>5. DOMAIN more = DOMAIN blacklist \cup {c.url}
      OBVIOUS
    <3> HIDE DEF more
    <3> QED BY <1>1, <3>1, <3>4, <3>5 DEF BlackInv
  <2>2. CASE ~GivesUp(c)
    BY <2>2 DEF ReplaceEffect, Blacklist, black, BlackInv
  <2> QED BY <2>1, <2>2
<1>3. CASE c.browser \in Browser
  <2> DEFINE l == Noted(ListOf(c.browser), c.url)
  <2>1. /\ Grown(ListOf(c.browser), l)
        /\ IsRewritten(c.url) => Applied(c.url) \in l.active \cup l.breaking
    BY <1>1, <1>3, ListOfIsList, NotedGrows
  <2>2. IsRewritten(c.url) => Applied(c.url) \in Ruleset
    BY <1>1, FirstApplies
  <2>3. list' = [list EXCEPT ![c.browser] = l]
    BY <1>3 DEF ReplaceEffect
  <2>4. \/ rewrote' = rewrote
        \/ IsRewritten(c.url) /\ rewrote' = [rewrote EXCEPT ![c.browser] = @ \cup {Applied(c.url)}]
    BY DEF ReplaceEffect, NoteRewrite
  <2>5. rewrote \in [Browser -> SUBSET Ruleset]
    BY DEF ListInv
  <2> HIDE DEF l
  <2>6. /\ rewrote' \in [Browser -> SUBSET Ruleset]
        /\ \A x \in Browser \ {c.browser} : rewrote'[x] = rewrote[x]
        /\ rewrote'[c.browser] \subseteq rewrote[c.browser] \cup l.active \cup l.breaking
    BY <1>3, <2>1, <2>2, <2>4, <2>5
  <2> QED BY <1>2, <1>3, <2>1, <2>3, <2>6, GrowingKeepsApplied
<1>4. CASE c.browser \notin Browser
  <2>1. list' = list /\ rewrote' = rewrote
    BY <1>4 DEF ReplaceEffect, NoteRewrite
  <2> QED BY <1>2, <2>1 DEF ListInv, AppliedListed
<1> QED BY <1>3, <1>4

-----------------------------------------------------------------------------
(* Steps.                                                                  *)

(* One request moves; blacklisted hosts stay so.                           *)
LEMMA OneMoves ==
  ASSUME ChannelInv, NEW r \in Request, NEW x \in Channels, Kept(x), Spared(x, blacklistDomains'),
         channel' = [channel EXCEPT ![r] = x],
         blacklistDomains \subseteq blacklistDomains'
  PROVE  ChannelsTyped' /\ \A q \in Request : Spared(channel'[q], blacklistDomains')
<1>1. channel' \in [Request -> Channels] /\ channel'[r] = x
      /\ \A q \in Request \ {r} : channel'[q] = channel[q]
  BY DEF ChannelInv, ChannelsTyped
<1>2. \A q \in Request : Kept(channel'[q])
  BY <1>1 DEF ChannelInv, ChannelsTyped
<1>3. ASSUME NEW q \in Request PROVE Spared(channel'[q], blacklistDomains')
  <2>1. CASE q = r
    BY <1>1, <2>1 DEF Spared
  <2>2. CASE q # r
    BY <1>1, <2>2 DEF ChannelInv, Spared
  <2> QED BY <2>1, <2>2
<1> QED BY <1>1, <1>2, <1>3 DEF ChannelsTyped

LEMMA OpenIsOpen ==
  ASSUME ChannelsTyped, NEW r \in Request
  PROVE  /\ channel[r].phase = "open" => channel[r] \in Open /\ Kept(channel[r])
         /\ channel[r].phase = "redirecting" => channel[r] \in Redirecting
         /\ channel[r].phase = "wire" => channel[r] \in OnWire
<1>1. channel[r] \in Channels /\ Kept(channel[r])
  BY DEF ChannelsTyped
<1> QED BY <1>1 DEF Channels, Gone, Open, Redirecting, OnWire, Done

LEMMA StartKeeps ==
  ASSUME ChannelInv, NEW r \in Request, NEW b \in Browser \cup {None}, NEW u \in Page,
         Start(r, b, u)
  PROVE  ChannelInv'
<1> DEFINE x == Channel(u, RedirectionLimit, b)
<1>1. x \in Open /\ Kept(x) /\ x.phase = "open"
  <2>1. u \in Url /\ RedirectionLimit \in Nat
    BY LimitsAssumption, SitesAssumption
  <2> QED BY <2>1, ChannelIsOpen DEF Channel
<1>2. UNCHANGED <<rules, black, lists, jar, server>> /\ channel' = [channel EXCEPT ![r] = x]
  BY DEF Start
<1> HIDE DEF x
<1>3. Spared(x, blacklistDomains')
  BY <1>1 DEF Spared
<1>4. ChannelsTyped' /\ \A q \in Request : Spared(channel'[q], blacklistDomains')
  BY <1>1, <1>2, <1>3, OneMoves DEF Channels, black
<1> QED BY <1>2, <1>4
    DEF ChannelInv, ListInv, AppliedListed, BlackInv, OtherTyped, rules, black, lists

(* The first hook, by each of its ways out.                                *)
LEMMA ModifyKeeps ==
  ASSUME ChannelInv, NEW r \in Request, Modify(r)
  PROVE  ChannelInv'
<1> DEFINE c == channel[r]
<1>1. c.phase = "open" /\ UNCHANGED <<rules, jar, server>>
  BY DEF Modify
<1>2. c \in Open /\ Kept(c)
  BY <1>1, OpenIsOpen DEF ChannelInv
<1>3. c.url \in Url /\ c.url.host \in Host /\ c.browser \in Browser \cup {None}
  BY <1>2, UrlsHaveHosts DEF Open
<1>4. OtherTyped'
  BY <1>1 DEF ChannelInv, OtherTyped, rules
<1> HIDE DEF c
<1>5. ASSUME NEW x, x \in Gone \cup Redirecting \cup OnWire
      PROVE  x \in Channels /\ Kept(x)
  BY <1>5 DEF Channels, Kept, Gone, Redirecting, OnWire
<1>6. ASSUME ListInv, NEW l, Grown(ListOf(c.browser), l), rewrote' = rewrote,
             list' = IF c.browser \in Browser THEN [list EXCEPT ![c.browser] = l] ELSE list
      PROVE  ListInv'
  <2>1. CASE c.browser \in Browser
    BY <1>6, <2>1, GrowingKeepsApplied DEF ListInv
  <2>2. CASE c.browser \notin Browser
    BY <1>6, <2>2 DEF ListInv, AppliedListed
  <2> QED BY <2>1, <2>2
<1>7. c.browser \in Browser => ListOf(c.browser) \in PageLists
  BY ListOfIsList DEF ChannelInv
<1>8. CASE ModifyThrows(r, c)
  <2>1. /\ c.url.host \in Malformed /\ UNCHANGED <<black, rewrote>>
        /\ list' = IF c.browser \in Browser
                   THEN [list EXCEPT ![c.browser] = ListOf(c.browser)] ELSE list
        /\ channel' = [channel EXCEPT ![r] = Sent(c)]
    BY <1>8 DEF ModifyThrows
  <2>2. ListInv'
    <3>1. CASE c.browser \in Browser
      BY <1>6, <1>7, <2>1, <3>1 DEF ChannelInv, Grown
    <3>2. CASE c.browser \notin Browser
      BY <2>1, <3>2 DEF ChannelInv, ListInv, AppliedListed
    <3> QED BY <3>1, <3>2
  <2>3. BlackInv' /\ blacklistDomains \subseteq blacklistDomains'
    BY <2>1 DEF ChannelInv, BlackInv, black
  <2>4. Spared(Sent(c), blacklistDomains')
    BY <1>2, <1>3, <2>1, SentIsTyped, MalformedUntouched DEF Spared, Gone, Redirecting, OnWire
  <2>5. ChannelsTyped' /\ \A q \in Request : Spared(channel'[q], blacklistDomains')
    BY <1>2, <1>5, <2>1, <2>3, <2>4, SentIsTyped, OneMoves
  <2> QED BY <1>4, <2>2, <2>3, <2>5 DEF ChannelInv
<1>9. CASE ModifyIgnores(r, c)
  <2> DEFINE l == IF c.url \in DOMAIN blacklist
                  THEN [ListOf(c.browser) EXCEPT !.breaking = @ \cup {blacklist[c.url]}]
                  ELSE ListOf(c.browser)
  <2>1. /\ Ignored(c.url) /\ UNCHANGED <<black, rewrote>>
        /\ list' = IF c.browser \in Browser THEN [list EXCEPT ![c.browser] = l] ELSE list
        /\ channel' = [channel EXCEPT ![r] = Sent(c)]
    BY <1>9 DEF ModifyIgnores
  <2>2. ASSUME c.browser \in Browser PROVE Grown(ListOf(c.browser), l)
    BY <1>7, <2>2 DEF Grown, PageLists, ChannelInv, BlackInv
  <2> HIDE DEF l
  <2>3. ListInv'
    <3>1. CASE c.browser \in Browser
      BY <1>6, <2>1, <2>2, <3>1 DEF ChannelInv
    <3>2. CASE c.browser \notin Browser
      BY <2>1, <3>2 DEF ChannelInv, ListInv, AppliedListed
    <3> QED BY <3>1, <3>2
  <2>4. BlackInv' /\ blacklistDomains \subseteq blacklistDomains'
    BY <2>1 DEF ChannelInv, BlackInv, black
  <2>5. Spared(Sent(c), blacklistDomains')
    <3>1. Sent(c).phase = "wire" /\ Sent(c).plainly => c.url \in DOMAIN blacklist /\ Sent(c).url = c.url
      BY <1>2, <2>1, SentIsTyped DEF Ignored
    <3>2. Sent(c).phase # "done"
      BY <1>2, SentIsTyped
    <3> QED BY <2>4, <3>1, <3>2 DEF Spared, ChannelInv, BlackInv
  <2>6. ChannelsTyped' /\ \A q \in Request : Spared(channel'[q], blacklistDomains')
    BY <1>2, <1>5, <2>1, <2>4, <2>5, SentIsTyped, OneMoves
  <2> QED BY <1>4, <2>3, <2>4, <2>6 DEF ChannelInv
<1>10. CASE ModifyReplaces(r, c)
  <2> DEFINE x == Sent(Replaced(c))
  <2>1. ReplaceEffect(c) /\ channel' = [channel EXCEPT ![r] = x]
    BY <1>10 DEF ModifyReplaces
  <2>2. /\ ListInv' /\ BlackInv' /\ blacklistDomains \subseteq blacklistDomains'
        /\ GivesUp(c) => c.url.host \in blacklistDomains'
    BY <1>2, <2>1, ReplaceKeeps DEF ChannelInv
  <2>3. Replaced(c) \in Open /\ Kept(Replaced(c)) /\ Replaced(c).url = c.url
        /\ (IsRewritten(c.url) /\ ~GivesUp(c) => Replaced(c).to # None)
    BY <1>2, ReplacedIsOpen
  <2>4. x \in Channels /\ Kept(x) /\ x.phase # "done"
    BY <1>5, <2>3, SentIsTyped
  <2>5. x.phase = "wire" /\ x.plainly => GivesUp(c) /\ x.url = c.url
    BY <2>3, SentIsTyped
  <2> HIDE DEF x
  <2>6. Spared(x, blacklistDomains')
    BY <2>2, <2>4, <2>5 DEF Spared
  <2>7. ChannelsTyped' /\ \A q \in Request : Spared(channel'[q], blacklistDomains')
    BY <2>1, <2>2, <2>4, <2>6, OneMoves
  <2> QED BY <1>4, <2>2, <2>7 DEF ChannelInv
<1> QED BY <1>8, <1>9, <1>10 DEF Modify, c

(* The second: the channel that takes the place of another.                *)
LEMMA RedirectKeeps ==
  ASSUME ChannelInv, NEW r \in Request, Redirect(r)
  PROVE  ChannelInv'
<1> DEFINE c == Channel(channel[r].to, channel[r].limit - 1, channel[r].browser)
           gone == [phase |-> "aborted"]
<1>1. channel[r].phase = "redirecting" /\ UNCHANGED <<rules, jar, server>>
      /\ IF c.url.host \in Malformed
         THEN channel' = [channel EXCEPT ![r] = gone] /\ UNCHANGED <<black, lists>>
         ELSE ReplaceEffect(c) /\ channel' = [channel EXCEPT ![r] = Replaced(c)]
  BY DEF Redirect
<1>2. channel[r] \in Redirecting
  BY <1>1, OpenIsOpen DEF ChannelInv
<1>3. c \in Open /\ Kept(c)
  BY <1>2, ChannelIsOpen DEF Redirecting
<1>4. OtherTyped'
  BY <1>1 DEF ChannelInv, OtherTyped, rules
<1> HIDE DEF c
<1>5. CASE c.url.host \in Malformed
  <2>1. gone \in Channels /\ Kept(gone) /\ Spared(gone, blacklistDomains')
    BY DEF Channels, Gone, Kept, Spared
  <2>2. ListInv' /\ BlackInv' /\ blacklistDomains \subseteq blacklistDomains'
    BY <1>1, <1>5 DEF ChannelInv, ListInv, AppliedListed, BlackInv, black, lists
  <2>3. ChannelsTyped' /\ \A q \in Request : Spared(channel'[q], blacklistDomains')
    BY <1>1, <1>5, <2>1, <2>2, OneMoves
  <2> QED BY <1>4, <2>2, <2>3 DEF ChannelInv
<1>6. CASE c.url.host \notin Malformed
  <2>1. ListInv' /\ BlackInv' /\ blacklistDomains \subseteq blacklistDomains'
    BY <1>1, <1>3, <1>6, ReplaceKeeps DEF ChannelInv
  <2>2. Replaced(c) \in Channels /\ Kept(Replaced(c)) /\ Spared(Replaced(c), blacklistDomains')
    BY <1>3, ReplacedIsOpen DEF Channels, Open, Spared
  <2>3. ChannelsTyped' /\ \A q \in Request : Spared(channel'[q], blacklistDomains')
    BY <1>1, <1>6, <2>1, <2>2, OneMoves
  <2> QED BY <1>4, <2>1, <2>3 DEF ChannelInv
<1> QED BY <1>5, <1>6

LEMMA AnswerKeeps ==
  ASSUME ChannelInv, NEW r \in Request, NEW k \in Cookie \cup {None}, Answer(r, k)
  PROVE  ChannelInv'
<1> DEFINE u == channel[r].url
           b == channel[r].browser
           x == IF u \notin DOMAIN server
                THEN [phase |-> "done", url |-> u, plainly |-> channel[r].plainly]
                ELSE IF channel[r].limit = 0 THEN [phase |-> "failed"]
                ELSE [phase |-> "redirecting", url |-> u, to |-> server[u],
                      limit |-> channel[r].limit, browser |-> b]
           l == IF k # None /\ ~Plain(u) THEN NotedCookie(ListOf(b), k) ELSE ListOf(b)
           j == IF ~Plain(u) /\ Covered(k) THEN "secure" ELSE Stored(k)
<1>1. channel[r] \in OnWire
  BY OpenIsOpen DEF ChannelInv, Answer
<1>2. u \in Url /\ b \in Browser \cup {None} /\ channel[r].limit \in Nat
      /\ channel[r].plainly \in BOOLEAN /\ channel[r].phase = "wire"
  BY <1>1 DEF OnWire
<1>3. channel' = [channel EXCEPT ![r] = x]
  BY <1>2 DEF Answer, ChannelInv, ChannelsTyped
<1>4. /\ jar' = IF k = None THEN jar ELSE [jar EXCEPT ![k] = j]
      /\ list' = IF b \in Browser THEN [list EXCEPT ![b] = l] ELSE list
      /\ UNCHANGED <<rules, black, rewrote, server>>
  BY DEF Answer
<1>5. x \in Channels /\ Kept(x) /\ Spared(x, blacklistDomains')
  <2>1. u \in DOMAIN server => server[u] \in Url
    BY SitesAssumption DEF ChannelInv, OtherTyped
  <2>2. x \in Gone \cup Redirecting \cup Done
    BY <1>2, <2>1 DEF Gone, Redirecting, Done
  <2>3. x.phase \notin {"open", "wire"}
    OBVIOUS
  <2>4. x.phase = "done" => x.url = u /\ x.plainly = channel[r].plainly
    OBVIOUS
  <2>5. Spared(channel[r], blacklistDomains) /\ blacklistDomains' = blacklistDomains
    BY <1>4 DEF ChannelInv, black
  <2> HIDE DEF x
  <2> QED BY <1>2, <2>2, <2>3, <2>4, <2>5 DEF Channels, Kept, Spared
<1>6. ListInv'
  <2>1. CASE b \in Browser
    <3>1. Grown(ListOf(b), l)
      <4>1. ListOf(b) \in PageLists
        BY <2>1, ListOfIsList DEF ChannelInv
      <4>2. CASE k # None /\ ~Plain(u)
        BY <4>1, <4>2, NotedCookieGrows
      <4>3. CASE ~(k # None /\ ~Plain(u))
        BY <4>1, <4>3 DEF Grown
      <4> QED BY <4>2, <4>3
    <3> HIDE DEF l, b
    <3> QED BY <1>4, <2>1, <3>1, GrowingKeepsApplied DEF ChannelInv, ListInv
  <2>2. CASE b \notin Browser
    BY <1>4, <2>2 DEF ChannelInv, ListInv, AppliedListed
  <2> QED BY <2>1, <2>2
<1>7. BlackInv' /\ blacklistDomains \subseteq blacklistDomains'
  BY <1>4 DEF ChannelInv, BlackInv, black
<1>8. j \in {"secure", "plain"}
  BY DEF Stored
<1> HIDE DEF x, l, j
<1>9. OtherTyped'
  BY <1>4, <1>8 DEF ChannelInv, OtherTyped, rules
<1>10. ChannelsTyped' /\ \A q \in Request : Spared(channel'[q], blacklistDomains')
  BY <1>3, <1>5, <1>7, OneMoves
<1> QED BY <1>6, <1>7, <1>9, <1>10 DEF ChannelInv

(* What the user does to pages and menus, and scripts to cookies.          *)
LEMMA WindowKeeps ==
  ASSUME ChannelInv, NEW b \in Browser,
         \/ \E u \in Page \ Ocsp : LocationChange(b, u)
         \/ Populate(b)
         \/ \E h \in Host : ErrorPageMenu(b, h)
  PROVE  ChannelInv'
<1>1. UNCHANGED <<rules, black, channel, jar, server>>
  BY DEF LocationChange, Populate, ErrorPageMenu
<1>2. /\ ChannelsTyped' /\ BlackInv' /\ OtherTyped'
      /\ \A r \in Request : Spared(channel'[r], blacklistDomains')
  BY <1>1 DEF ChannelInv, ChannelsTyped, BlackInv, OtherTyped, Spared, rules, black
<1>3. ASSUME list[b] # None
      PROVE  ListOf(b) = list[b] /\ Grown(list[b], Populated(list[b]))
  <2>1. ListOf(b) = list[b] /\ list[b] \in PageLists
    BY <1>3 DEF ChannelInv, ListInv, ListOf
  <2>2. CASE list[b].home = None
    BY <2>1, <2>2 DEF Populated, Grown
  <2>3. CASE list[b].home # None
    <3>1. list[b].home \in Url
      BY <2>1, <2>3 DEF PageLists
    <3> QED BY <2>1, <2>3, <3>1, NotedGrows DEF Populated, ChannelInv
  <2> QED BY <2>1, <2>2, <2>3
<1>4. CASE \E u \in Page \ Ocsp : LocationChange(b, u)
  <2>1. PICK u \in Page \ Ocsp : LocationChange(b, u)
    BY <1>4
  <2>2. NewList(u) \in PageLists
    BY NewIsList, SitesAssumption
  <2>3. list' = [list EXCEPT ![b] = NewList(u)] /\ rewrote' = [rewrote EXCEPT ![b] = {}]
    BY <2>1 DEF LocationChange
  <2>4. ListInv'
    BY <2>2, <2>3 DEF ChannelInv, ListInv, AppliedListed
  <2> QED BY <1>2, <2>4 DEF ChannelInv
<1>5. CASE Populate(b)
  <2>1. list[b] # None /\ list' = [list EXCEPT ![b] = Populated(list[b])] /\ rewrote' = rewrote
    BY <1>5 DEF Populate, ChannelInv, ListInv
  <2>2. ListInv'
    BY <1>3, <2>1, GrowingKeepsApplied DEF ChannelInv, ListInv
  <2> QED BY <1>2, <2>2 DEF ChannelInv
<1>6. CASE \E h \in Host : ErrorPageMenu(b, h)
  <2>1. PICK h \in Host : ErrorPageMenu(b, h)
    BY <1>6
  <2> DEFINE yes == {set \in Range(Applicable[h]) : on[set]}
             no  == {set \in Range(Applicable[h]) : ~on[set]}
             l   == [Populated(list[b]) EXCEPT !.active = @ \cup yes, !.inactive = @ \cup no]
  <2>2. list[b] # None /\ list' = [list EXCEPT ![b] = l] /\ rewrote' = rewrote
    BY <2>1 DEF ErrorPageMenu, ChannelInv, ListInv
  <2>3. yes \subseteq Ruleset /\ no \subseteq Ruleset
    BY RulesAssumption DEF Range
  <2>4. Grown(list[b], l)
    <3> HIDE DEF yes, no
    <3> QED BY <1>3, <2>2, <2>3 DEF Grown, PageLists
  <2> HIDE DEF l
  <2>5. ListInv'
    BY <1>3, <2>2, <2>4, GrowingKeepsApplied DEF ChannelInv, ListInv
  <2> QED BY <1>2, <2>5 DEF ChannelInv
<1> QED BY <1>4, <1>5, <1>6

LEMMA OtherStepsKeep ==
  ASSUME ChannelInv,
         \/ \E k \in Cookie : ScriptSets(k)
         \/ \E set \in Ruleset : ToggleRule(set)
         \/ ToggleHttpNowhere
         \/ UNCHANGED vars
  PROVE  ChannelInv'
<1>1. UNCHANGED <<black, channel, lists>>
  BY DEF ScriptSets, ToggleRule, ToggleHttpNowhere, vars
<1>2. OtherTyped'
  <2>1. \A k \in Cookie : Stored(k) \in {"secure", "plain"}
    BY DEF Stored
  <2> QED BY <2>1 DEF ChannelInv, OtherTyped, ScriptSets, ToggleRule, ToggleHttpNowhere, vars, rules
<1> QED BY <1>1, <1>2
    DEF ChannelInv, ChannelsTyped, ListInv, AppliedListed, BlackInv, Spared, black, lists

LEMMA ChannelInvInit == Init => ChannelInv
<1> SUFFICES ASSUME Init PROVE ChannelInv
  OBVIOUS
<1>1. ChannelsTyped /\ \A r \in Request : Spared(channel[r], blacklistDomains)
  BY DEF Init, ChannelsTyped, Channels, Gone, NoChannel, Kept, Spared
<1>2. ListInv
  BY DEF Init, ListInv, AppliedListed
<1>3. BlackInv
  BY DEF Init, BlackInv
<1>4. OtherTyped
  BY DEF Init, OtherTyped
<1> QED BY <1>1, <1>2, <1>3, <1>4 DEF ChannelInv

LEMMA ChannelInvNext == ChannelInv /\ [Next]_vars => ChannelInv'
<1> SUFFICES ASSUME ChannelInv, [Next]_vars PROVE ChannelInv'
  OBVIOUS
<1> QED BY StartKeeps, ModifyKeeps, RedirectKeeps, AnswerKeeps, WindowKeeps, OtherStepsKeep
    DEF Next

(* The menu and the counter know every ruleset that redirected a request   *)
(* of the browser since it shows its page, however requests, redirects,    *)
(* blacklisting and looks at the menu are interleaved.                     *)
THEOREM AppliedAreListed == Spec => []AppliedListed
<1>1. ChannelInv => AppliedListed
  BY DEF ChannelInv, ListInv
<1> QED BY ChannelInvInit, ChannelInvNext, <1>1, PTL DEF Spec

-----------------------------------------------------------------------------
(* HTTP Nowhere.                                                           *)

LEMMA NowhereStep ==
  ASSUME ChannelsTyped, [Next]_vars, httpNowhereEnabled, NEW r \in Request,
         channel[r].phase = "open", channel'[r].phase = "wire"
  PROVE  ~Plain(channel'[r].url) \/ channel'[r].url.host \in Sts \cup Malformed
<1> DEFINE c == channel[r]
<1>1. c \in Open /\ Kept(c)
  BY OpenIsOpen
<1>2. channel' # channel
  OBVIOUS
<1>3. PICK q \in Request : \/ \E b \in Browser \cup {None}, u \in Page : Start(q, b, u)
                           \/ Modify(q) \/ Redirect(q) \/ \E k \in Cookie \cup {None} : Answer(q, k)
  BY <1>2 DEF Next, ScriptSets, LocationChange, Populate, ErrorPageMenu, ToggleRule,
              ToggleHttpNowhere, vars
<1>4. \E x : channel' = [channel EXCEPT ![q] = x]
  BY <1>3 DEF Start, Modify, ModifyThrows, ModifyIgnores, ModifyReplaces, Redirect, Answer
<1>5. q = r
  BY <1>4 DEF ChannelsTyped
<1>6. Modify(r)
  BY <1>3, <1>5 DEF Start, UnderWay, Redirect, Answer
<1>7. ~Ignored(c.url)
  BY DEF Ignored
<1> HIDE DEF c
<1>8. CASE ModifyThrows(r, c)
  <2>1. c.url.host \in Malformed /\ channel'[r] = Sent(c)
    BY <1>8 DEF ModifyThrows, ChannelsTyped
  <2> QED BY <1>1, <2>1, SentIsTyped
<1>9. CASE ModifyReplaces(r, c)
  <2>1. channel'[r] = Sent(Replaced(c))
    BY <1>9 DEF ModifyReplaces, ChannelsTyped
  <2>2. /\ ~Replaced(c).aborted /\ Replaced(c).to = None /\ channel'[r].url = c.url
    BY <1>1, <2>1, SentIsTyped, ReplacedIsOpen
  <2>3. ~Aborts(c) /\ (IsRewritten(c.url) => GivesUp(c))
    BY <1>1, <2>2, ReplacedIsOpen
  <2>4. ~Plain(c.url) \/ c.url.host \in Sts
    BY <2>3 DEF Aborts
  <2> QED BY <2>2, <2>4
<1> QED BY <1>6, <1>7, <1>8, <1>9 DEF Modify, ModifyIgnores, c

(* While HTTP Nowhere is on no request leaves the first hook over http but *)
(* for hosts with HSTS and those the hook throws for, whatever rulesets,   *)
(* blacklists and redirects came before.                                   *)
THEOREM NothingPlainUnderHttpNowhere == Spec => NowhereHolds
<1>1. ChannelInv /\ [Next]_vars =>
        [\A r \in Request :
           channel[r].phase = "open" /\ channel'[r].phase = "wire" /\ httpNowhereEnabled =>
             \/ ~Plain(channel'[r].url)
             \/ channel'[r].url.host \in Sts \cup Malformed]_vars
  BY NowhereStep DEF ChannelInv
<1> QED BY ChannelInvInit, ChannelInvNext, <1>1, PTL DEF Spec, NowhereHolds

-----------------------------------------------------------------------------
(* Cookies of hosts that fell back.                                        *)

LEMMA CookieStep ==
  ASSUME ChannelInv, [Next]_vars, NEW k \in Cookie, Plainly(Domain[k]),
         jar[k] # "secure", jar'[k] = "secure"
  PROVE  \E r \in Request : /\ channel[r].phase = "wire" /\ channel[r] # channel'[r]
                            /\ ~Plain(channel[r].url) /\ channel[r].url.host \in SetBy[k]
<1>1. Domain[k] \in blacklistDomains
  BY DEF Plainly, ChannelInv, Spared
<1>2. Stored(k) # "secure"
  BY <1>1 DEF Stored, safeToSecureCookie
<1>3. jar' # jar /\ jar \in [Cookie -> {"none", "plain", "secure"}]
  BY DEF ChannelInv, OtherTyped
<1>4. ~ \E x \in Cookie : ScriptSets(x)
  <2> SUFFICES ASSUME NEW x \in Cookie, ScriptSets(x) PROVE FALSE
    OBVIOUS
  <2>1. jar' = [jar EXCEPT ![x] = Stored(x)]
    BY DEF ScriptSets
  <2>2. x = k
    BY <1>3, <2>1
  <2> QED BY <1>2, <1>3, <2>1, <2>2
<1>5. PICK r \in Request, x \in Cookie \cup {None} : Answer(r, x)
  BY <1>3, <1>4 DEF Next, Start, Modify, Redirect, LocationChange, Populate, ErrorPageMenu,
                    ToggleRule, ToggleHttpNowhere, vars
<1>6. x # None /\ x \in Cookie
      /\ jar' = [jar EXCEPT ![x] = IF ~Plain(channel[r].url) /\ Covered(x) THEN "secure" ELSE Stored(x)]
      /\ channel[r].url.host \in SetBy[x]
  BY <1>3, <1>5 DEF Answer
<1>7. x = k
  BY <1>3, <1>6
<1>8. ~Plain(channel[r].url)
  BY <1>2, <1>3, <1>6, <1>7
<1>9. channel[r].phase = "wire" /\ channel'[r].phase # "wire"
  BY <1>5 DEF Answer, ChannelInv, ChannelsTyped
<1> QED BY <1>6, <1>7, <1>8, <1>9

(* Once a host was asked over http though a ruleset is there for it, only  *)
(* an https response makes a cookie of it secure: whatever sends a request *)
(* out plainly blacklists its host first.                                  *)
THEOREM CookiesAreSpared == Spec => GivenUpHostsKeepCookies
<1>1. ChannelInv /\ [Next]_vars =>
        [\A k \in Cookie : Plainly(Domain[k]) /\ jar[k] # "secure" /\ jar'[k] = "secure" =>
           \E r \in Request : channel[r].phase = "wire" /\ channel[r] # channel'[r]
                              /\ ~Plain(channel[r].url) /\ channel[r].url.host \in SetBy[k]]_vars
  BY CookieStep
<1> QED BY ChannelInvInit, ChannelInvNext, <1>1, PTL DEF Spec, GivenUpHostsKeepCookies

-----------------------------------------------------------------------------
(* Loops.                                                                  *)

(* Servers do not circle by themselves: rank bounds how often they redirect *)
(* a URL in a row, and is less than what is left at a fall back.           *)
ServersEnd(rank) ==
  /\ rank \in [Url -> 0 .. (GiveUpBelow - 1)]
  /\ \A s \in Sites : \A u \in DOMAIN s : rank[s[u]] < rank[u]

(* Enough redirects are left for what servers may still do.                *)
Enough(c, rank) ==
  /\ c.phase \in {"open", "wire"} => c.limit >= rank[c.url]
  /\ c.phase = "redirecting" => c.limit > rank[c.to]
  /\ c.phase # "failed"

LEMMA SentIsEnough ==
  ASSUME NEW rank, ServersEnd(rank), NEW c \in Open, Kept(c), c.limit >= rank[c.url]
  PROVE  Enough(Sent(c), rank)
<1>1. /\ Sent(c) \in Gone \cup Redirecting \cup OnWire
      /\ Sent(c).phase \in {"aborted", "redirecting", "wire"}
      /\ Sent(c).phase = "redirecting" => /\ Sent(c).to = c.to /\ Sent(c).limit = c.limit
                                          /\ c.limit >= GiveUpBelow
      /\ Sent(c).phase = "wire" => Sent(c).url = c.url /\ Sent(c).limit = c.limit
  BY SentIsTyped
<1>2. c.limit \in Nat
  BY DEF Open
<1>3. Sent(c).phase = "redirecting" => Sent(c).to \in Url
  BY <1>1 DEF Gone, Redirecting, OnWire
<1>4. \A u \in Url : rank[u] \in Nat /\ rank[u] < GiveUpBelow
  BY LimitsAssumption DEF ServersEnd
<1> QED BY <1>1, <1>2, <1>3, <1>4, LimitsAssumption DEF Enough

LEMMA EnoughNext ==
  ASSUME NEW rank, ServersEnd(rank), ChannelInv, [Next]_vars,
         NEW r \in Request, Enough(channel[r], rank)
  PROVE  Enough(channel'[r], rank)
<1>1. channel \in [Request -> Channels]
  BY DEF ChannelInv, ChannelsTyped
<1>2. CASE channel'[r] = channel[r]
  BY <1>2
<1>3. CASE channel'[r] # channel[r]
  <2>1. PICK q \in Request : \/ \E b \in Browser \cup {None}, u \in Page : Start(q, b, u)
                             \/ Modify(q) \/ Redirect(q)
                             \/ \E k \in Cookie \cup {None} : Answer(q, k)
    BY <1>3 DEF Next, ScriptSets, LocationChange, Populate, ErrorPageMenu, ToggleRule,
                ToggleHttpNowhere, vars
  <2>2. \E x : channel' = [channel EXCEPT ![q] = x]
    BY <2>1 DEF Start, Modify, ModifyThrows, ModifyIgnores, ModifyReplaces, Redirect, Answer
  <2>3. q = r
    BY <1>1, <1>3, <2>2
  <2>4. ASSUME NEW b \in Browser \cup {None}, NEW u \in Page, Start(r, b, u)
        PROVE  Enough(channel'[r], rank)
    <3>1. channel'[r] = Channel(u, RedirectionLimit, b)
      BY <1>1, <2>4 DEF Start
    <3>2. u \in Url /\ rank[u] \in 0 .. (GiveUpBelow - 1)
      BY SitesAssumption DEF ServersEnd
    <3> QED BY <3>1, <3>2, LimitsAssumption DEF Channel, Enough
  <2>5. CASE Modify(r)
    <3>1. channel[r].phase = "open"
      BY <2>5 DEF Modify
    <3>2. channel[r] \in Open /\ Kept(channel[r]) /\ channel[r].limit >= rank[channel[r].url]
      BY <3>1, OpenIsOpen DEF ChannelInv, Enough
    <3>3. \/ channel'[r] = Sent(channel[r])
          \/ channel'[r] = Sent(Replaced(channel[r]))
      BY <1>1, <2>5 DEF Modify, ModifyThrows, ModifyIgnores, ModifyReplaces
    <3>4. Replaced(channel[r]) \in Open /\ Kept(Replaced(channel[r]))
          /\ Replaced(channel[r]).limit >= rank[Replaced(channel[r]).url]
      BY <3>2, ReplacedIsOpen
    <3> QED BY <3>2, <3>3, <3>4, SentIsEnough
  <2>6. CASE Redirect(r)
    <3> DEFINE c == Channel(channel[r].to, channel[r].limit - 1, channel[r].browser)
    <3>1. channel[r].phase = "redirecting"
          /\ (channel'[r] = [phase |-> "aborted"] \/ channel'[r] = Replaced(c))
      BY <1>1, <2>6 DEF Redirect
    <3>2. channel[r] \in Redirecting /\ channel[r].limit > rank[channel[r].to]
      BY <3>1, OpenIsOpen DEF ChannelInv, Enough
    <3>3. channel[r].to \in Url /\ channel[r].limit \in Nat \ {0}
          /\ channel[r].browser \in Browser \cup {None}
          /\ rank[channel[r].to] \in Nat
      BY <3>2, LimitsAssumption DEF Redirecting, ServersEnd
    <3>4. channel[r].limit - 1 \in Nat /\ channel[r].limit - 1 >= rank[channel[r].to]
      BY <3>2, <3>3
    <3>5. c \in Open /\ Kept(c) /\ c.url = channel[r].to /\ c.limit = channel[r].limit - 1
      BY <3>3, <3>4, ChannelIsOpen DEF Channel
    <3> HIDE DEF c
    <3>6. Replaced(c).phase = "open" /\ Replaced(c).limit = c.limit /\ Replaced(c).url = c.url
      BY <3>5, ReplacedIsOpen DEF Open
    <3> QED BY <3>1, <3>4, <3>5, <3>6 DEF Enough
  <2>7. ASSUME NEW k \in Cookie \cup {None}, Answer(r, k)
        PROVE  Enough(channel'[r], rank)
    <3> DEFINE u == channel[r].url
    <3>1. channel[r].phase = "wire"
          /\ channel'[r] = IF u \notin DOMAIN server
                           THEN [phase |-> "done", url |-> u, plainly |-> channel[r].plainly]
                           ELSE IF channel[r].limit = 0 THEN [phase |-> "failed"]
                           ELSE [phase |-> "redirecting", url |-> u, to |-> server[u],
                                 limit |-> channel[r].limit, browser |-> channel[r].browser]
      BY <1>1, <2>7 DEF Answer
    <3>2. channel[r] \in OnWire /\ channel[r].limit >= rank[u]
      BY <3>1, OpenIsOpen DEF ChannelInv, Enough
    <3>3. u \in Url /\ channel[r].limit \in Nat /\ rank[u] \in Nat
      BY <3>2, LimitsAssumption DEF OnWire, ServersEnd
    <3>4. u \in DOMAIN server =>
            server[u] \in Url /\ rank[server[u]] \in Nat /\ rank[server[u]] < rank[u]
      BY SitesAssumption, LimitsAssumption DEF ChannelInv, OtherTyped, ServersEnd
    <3> HIDE DEF u
    <3>5. CASE u \notin DOMAIN server
      BY <3>1, <3>5 DEF Enough
    <3>6. CASE u \in DOMAIN server
      BY <3>1, <3>2, <3>3, <3>4, <3>6 DEF Enough
    <3> QED BY <3>5, <3>6
  <2> QED BY <2>1, <2>3, <2>4, <2>5, <2>6, <2>7
<1> QED BY <1>2, <1>3

(* A request that rulesets and servers send to and fro is never redirected *)
(* more often than the browser stands: if servers by themselves redirect   *)
(* it less than ten times in a row, it goes out as it is in time.          *)
THEOREM LoopsEndInTime ==
  ASSUME NEW rank, ServersEnd(rank)
  PROVE  Spec => []LoopsFallBack
<1> DEFINE EnoughLeft == \A r \in Request : Enough(channel[r], rank)
<1>1. Init => EnoughLeft
  BY DEF Init, NoChannel, Enough
<1>2. ChannelInv /\ EnoughLeft /\ [Next]_vars => EnoughLeft'
  BY EnoughNext
<1>3. EnoughLeft => LoopsFallBack
  BY DEF LoopsFallBack, Enough
<1> HIDE DEF EnoughLeft
<1> QED BY ChannelInvInit, ChannelInvNext, <1>1, <1>2, <1>3, PTL DEF Spec
=============================================================================
