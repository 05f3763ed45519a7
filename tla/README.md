# HTTPS Everywhere in TLA+

HTTPS Everywhere rewrites the browser's http requests to https, by rulesets that
say which URLs of which hosts have a secure equivalent. The repository holds two
extensions over one collection of rulesets: the Chromium one (`chromium/`) and the
Firefox one (`src/`), the latter with the SSL Observatory, which submits
certificates it sees. This directory models the Chromium extension in full; of the
Firefox one the rulesets, the rewriting of requests and cookies, the lists behind the
menus, the switches, and the Observatory's queue and proxy test; and the tool that
rewrites a site's own sources.

## Inventory

| part | source | state | operations | hard behaviour | what makes it correct |
|---|---|---|---|---|---|
| LRU cache | `chromium/lru.js` | linked list, key map, size | get, put, set, find, remove, removeAll, shift, forEach | long sequences of calls on pointers; limit | list well formed; evicts the least recently used; a key finds its newest value |
| rulesets | `chromium/rules.js` | target index, two caches, on/off state | parse, addUserRule, lookup, apply, shouldSecureCookie, safeToSecureCookie | cached answers while rules change | lookup = documented wildcards; caches never stale |
| user data | `background.js`, `popup.js` | `localStorage` | addNewRule, toggle, load at start | restart, full storage, shared names | what is stored is what runs, and comes back |
| requests | `background.js` 133-271, 496-525 | redirect counters, URL and host blacklists, list of rulesets per tab | onBeforeRequest, onBeforeRedirect, tab closed | interleaved requests, redirect loops, restart | nothing rewritable goes out as http; loops end; HTTP Nowhere holds |
| cookies | `background.js` 461-490 | none of its own | onCookieChanged | events and calls delivered later; its own echo | covered cookies end up secure, others untouched |
| HTTP Nowhere | `background.js` 42-56, `popup.js` 115-123, 194-210 | `storage.sync` preference, background copy, checkbox | get, set, change event, toggle | every call is asynchronous; sync; restart | the copy becomes the preference |
| Switch Planner | `background.js` 297-323, 527-566, `devtools-panel.js` | tabs recorded, records | connect, enable, disable, disconnect, record | several panels share one message bus | records forgotten with the panel, not before |
| Firefox rulesets | `src/chrome/content/code/HTTPSRules.js` | rulesets loaded so far, index, a preference per ruleset name | init, load by id, lookup, toggle, reset | loading as hosts are visited, names taken, init() under lists that still hold old objects | a lookup answers, and a ruleset is on, as if all were loaded at start |
| Firefox requests | `HTTPS.js`, `https-everywhere.js` 302-578, 647-682 | blacklists, the redirection limit of each channel | modify-request, channel redirect, response, cookie-changed | two hooks that redirect the same request, four ways out of each | loops fall back before the browser gives up; HTTP Nowhere has no gap; cookies of hosts that fell back are spared |
| applicable lists, menus | `ApplicableList.js`, `toolbar_button.js`, `AndroidUI.jsm` | a list per browser | new list, populate, menu, toggle, reset | requests, redirects and menus fill one list | what was applied to the page is in it |
| Firefox switches | `src/components/https-everywhere.js` 118-172, 531-576, 759-835 | observers, sink, preferences | constructor, notifications, toggleEnabledState, toggleHttpNowhere | sessions that start off, early toggles, crashes | hooks match the switch; history leaves no ruleset; OCSP comes back |
| SSL Observatory | `src/components/ssl-observatory.js` | submitted hashes, outstanding and delayed submissions | observe, submitChain, answers | async requests, delays, reset in flight | each chain submitted once, at most MAX_OUTSTANDING at a time |
| proxy test and dialogs | `ssl-observatory.js` 747-819, `https-everywhere.js` 580-626, `observatory-xul.js` | test result, waiting callback, preferences | test, register, popup, preferences dialog | the test and the windows race | whoever waits is called |
| rewriter | `rewriter/rewriter.js` | files, backups | write, two renames per file | killed or failing between calls, run again | no text is lost |
| ruleset data, validators, build | `src/chrome/content/rules`, `utils/` | files | one-shot scripts | none | assumptions the models take from the validators |

Parts call each other in one process: the background page's handlers run to
completion one at a time, the popup and the panels run beside it and reach it by
direct calls (popup) or messages (panels). Whatever crosses the browser, a storage
call, a cookie call, a message, a redirect, is answered later.

## Modules

Each module says at its head which lines it models. One action is one handler,
callback or method, with everything it calls.

* `LRUContract` is the abstract specification of a cache: a bounded map with an
  order of use, no pointers.
* `LRUCache` is `lru.js` pointer by pointer. The methods are operators from the
  object before the call to the object after it, and the actions apply them. `Spec` is the
  client `rules.js` is; `ApiSpec` calls any method with any key, but leaves `shift` to `put`. `MCLRUCache`
  runs both kinds of client and states that the first sees an `LRUContract`
  (`Abstraction` is the refinement mapping: keys from head to tail, value of each).
* `HostTargets` is the index probing of `potentiallyApplicableRulesets` (the name,
  each label replaced by `*`, `*.` before shorter suffixes) with `setInsert`, and
  `Covers`, what `docs/rulesets.html` says of wildcards.
* `RuleStore` is the `RuleSets` object with both caches (used by the operators of
  `LRUContract`), user rules, choices, `localStorage` and reload. A regular
  expression is the set of URLs it matches, a rule the function from the URLs it
  changes. `unstored` is a history variable: rulesets whose last toggle storage refused, or whose
  namesake was toggled since.
* `HttpNowhere` is the preference with its asynchronous storage.
* `SwitchPlanner` is the planner with its panels.
* `ChromiumRequests` composes the last three by `INSTANCE`: the life of requests,
  one disjunct of `onBeforeRequest` per return of the code.
* `CookieMonitor` composes `RuleStore` with the browser's cookie jar.
* `Observatory` is the submission queue of `ssl-observatory.js`. The queue is a
  record of the marks, the delayed submissions in key order, the counter and the
  XHRs under way; `submitChain` and each way `onreadystatechange` ends are operators
  from the queue before to the queue after. A delayed submission is `bound` if its
  closure calls the Observatory and not the table it is kept in. A call gives a set of queues, as
  `send()` may throw. `accepted`, `disowned` and `thrown` are history variables.
* `FirefoxRulesContract` is the abstract store of rulesets: each is on or off from
  the start, with no databases and no loading. `FirefoxRules` is `HTTPSRules.js`
  with files, rows and targets given as what they hold, which shows it to implement
  the contract: a ruleset not loaded counts as what its constructor would make of it. Rows that share
  a name (`Shared`) are in the model and not in the contract, which promises nothing of them.
  `listed` and `stale` are the two kinds of object the page's list may hold.
* `FirefoxChannels` is a request through `http-on-modify-request`, `redirectTo`,
  the redirect hook and the response, with `rewrittenURI` (`Noted`), the lists, both
  blacklists and the cookie handlers. A channel that takes another's place is the
  next phase of the same request with one redirect less left. A cookie has its own host (`Domain`, the
  code's `rawHost`) and the hosts that may set it (`SetBy`): that host and, if it is said so, subdomains.
* `FirefoxSwitch` is which observers are registered, over sessions, the two switches, and what has rulesets
  loaded: requests, cookies and the lists of pages still open.
* `ProxyTest` is the race of the Tor test with the restored windows, and the dialogs.
* `Rewriter` is the disk under `processFile`, one call of `fs` at a time (the write,
  which may be cut short, as its beginning and its end).
* `MCHostTargets` looks up every host of one to five labels.
* `MCParts` runs `HttpNowhere`, `SwitchPlanner`, `Rewriter`, `FirefoxSwitch`,
  `ProxyTest` and `MCHostTargets`, which share nothing, in one run: a behaviour starts in one of them
  (`part`) and only that one moves. Each property is `part = "..." =>` the module's. Two of its variables are
  renamed in the instances (`preference` is `pref`, `loadedRulesets` is `loaded`), as two parts have one of the name.
* `LRUCacheProofs`, `HostTargetsProofs`, `RuleStoreProofs`, `ChromiumRequestsProofs`, `CookieMonitorProofs`,
  `ObservatoryProofs` and `FirefoxChannelsProofs` hold the theorems about the module they are named after,
  `PartsProofs` those about the parts of `MCParts` and about `FirefoxRules`. `MC*`: instances for TLC.

Operators under a comment that begins "Fault:" are not part of the specifications. Each is a
mutated form of the definition it precedes, a plausible slip in the code; replacing
the definition by it makes TLC refute the property named beside it in
`PROJECT.json`.

## Runs

| run | what it explores | what it shows |
|---|---|---|
| `lru` | 4 keys, limits 1-3, Boolean values, both clients | list well formed and iteration sound for any client that leaves `shift` to `put`; for `rules.js` no entry is orphaned and the list refines `LRUContract` |
| `rule_store` | 2 hosts, 2 shipped rulesets, up to 2 user rules of 2 kinds, one named like a shipped ruleset, caches of 2 and 1, storage that may refuse rules and toggles | coherence of the rule cache, agreement of stored and running choices but for refused toggles and namesakes, reload invisible if all was stored, both caches used within their contract |
| `parts` | HTTP Nowhere with 3 clicks, 2 synced changes, 1 restart; the planner with 2 tabs, 3 panels; 2 files, backed up at most twice each; the switches with 2 sites, desktop and Android; the proxy test; all hosts of 1-5 labels | the preference's copy is right whenever all is settled, and becomes right; what was recorded goes with the panel; no text is lost; hooks match the switch, no ruleset loaded before the history was cleared is left after, OCSP comes back; the test's callback comes; probes are exactly the targets the documentation says apply, the answer complete without repetition |
| `planner_two_tabs` | the planner as above | **violation**: closing one tab's tools clears another's records |
| `requests` | 1 request to 3 hosts (one without rulesets), a server that redirects to http and on to the other host, an upgrading and a downgrading ruleset, 1 user rule, 1 synced change, limit 2 | rewritable requests do not slip through, HTTP Nowhere holds, page rulesets are listed, every request ends |
| `requests_pair` | 2 requests of a tab, restart, planner, limit 1 | what one request gives up holds for the other and for cookies |
| `requests_loop` | 1 request, limit 8 as in the code | **violation**: a host without a loop is blacklisted |
| `cookies` | 2 cookies (domain-wide, host-only), 2 values, 2 operations of sites, 2 changes of rulesets or restarts | covered cookies end up secure, the handler asks for none but covered cookies of hosts not given up, no endless echo |
| `observatory` | 4 chains, one private, 2 requests at a time, 2 delayed, preferences, clears and throws of `send()` at any time | the counter is too high by the throws only and, but for these, leaves the limit again, no chain is sent twice without a clear, consent is asked anew for each retry |
| `firefox_rules` | 3 files of the user (one replacing a row, one half-broken, one with a name taken), 4 rows, two of them of one name, 3 hosts, one malformed | loading late changes neither answers nor what is on |
| `firefox_channels` | 1 request, 1 browser, a site and its subdomain (with HSTS), a ruleset up to https and one down, 3 kinds of server, one switch of HTTP Nowhere or a ruleset, a cookie of the site that both hosts set, the limits of the code: 20 and 10 | loops fall back in time, every request ends, HTTP Nowhere holds, applied rulesets stay listed, a host that fell back keeps its own cookies plain |
| `observatory_retries` | the Observatory as above | **violation**: a success does not retry what was delayed |

Bounds. The caches have room for one entry (the rule cache for two in `rule_store` and `cookies`) where the code has
1000 and 100, so that with two hosts eviction happens at every turn; `lru` covers
limits to 3 with one key more than fits, which gives heads, tails and middles. The
redirect limit is a constant because the code never looks at it but in one
comparison; `requests_loop` uses 8, where the path to the error needs it. Host
names go to five labels because the probes first have three suffixes to walk
there. In `Observatory` the limits are 1 and 2 where the code
has 20 and 32: two requests under way and two delayed are what the two retries of one
success, the second of which meets the limit, need. `FirefoxChannels` runs with the browser's 20 redirects and the code's 10, since a fall back in time is what it is about. Every ruleset
that matters to a channel is in one of three kinds (up, down, none), every server in
three (plain, sending https visitors to the http pages of the other host, sending them to a malformed one). Counters (`MaxClicks`, `MaxRemote`, `MaxRestarts`, `MaxPanels`,
`MaxUserRules`, `MaxSiteOps`, `MaxChanges`, `MaxSwitches`, `MaxBackups`) bound what the environment does, never what the
extension does; `MaxListed` (2) bounds how many rulesets match what a page of `FirefoxRules` asks for, `MaxLabels`
how long a host name is. Deadlock is checked in all runs.

Symmetry is used only in `requests_pair` (request identities), which has no
liveness property.

Fairness. `HttpNowhere` and `SwitchPlanner` assume that the browser carries out
queued calls and delivers queued callbacks, messages and events, which are event-loop turns. `ChromiumRequests` assumes that a handler due for a request is run
and that servers answer; `FirefoxChannels` the same of observers and servers; `CookieMonitor` that events are delivered and calls
carried out; `Observatory` that some request under way is answered in the end, as `submitChain` gives its XHRs a
timeout (653). `ProxyTest` assumes nothing: its XHR has none, and its property is about tests that are over. Weak fairness is mostly written out as "the waiting condition is left
infinitely often, or the action is taken infinitely often", since each action is enabled exactly while its
condition lasts, and TLC evaluates the condition faster than `ENABLED`. No user, site or sync action is fair.

Assumptions on constants. Of the environment: servers of the Chromium run do not circle by themselves
(`ServersEnd`), no rule leads from http to http (`RulesSecure`:
`utils/trivial-validate.py` 97-117 refuses rules to http but of whitelisted rulesets, and the 31 these have begin at https), a user rule's key is a host name or never
probed (`UserRuleHosts`: the popup's host field is disabled), user rulesets
are named apart from shipped ones (`BuiltinNames`: numbers, not names), a malformed host has no
rulesets (`RulesAssumption`: the lookup answers null), and of the Firefox limits at least one redirect is left when
the code gives up (`LimitsAssumption`: 10 of 20). In `FirefoxRules` no target has an empty label,
in `MCParts` the targets of a database have at most one wildcard (`LookupAssumption`).
Of shape only: host names are nonempty sequences (`HostNames`), capacities and bounds are numbers (`CacheLimits`,
`PanelBound`, `ObservatoryConstants`), rulesets have the fields they have and URLs are of the hosts in play (`BuiltinTypes`,
`UrlsKnown`, `SitesAssumption`, `CookieDomains`), and model values differ (`LRUAssumption`, `NoneAssumption`).

## Findings

1. `ssl-observatory.js` 587: the retry of a delayed submission calls `this.submitChain`
   with the wrong `this` when it is run (672). It throws and stays, as the first of
   its table, so that no later success retries anything.
2. `background.js` 546-566: with the tools of two tabs open, closing one clears the
   other's recording.
3. `background.js` 222-229: the counter of a request that was given up is not
   reset, so the next host it is redirected to is blacklisted without a loop.

Read in the code while modelling and covered by no run:

* `lru.js` 99, 137-147: `set` on the newest entry of the cache adds a second entry or
  loses the value; `rules.js` never does so (`CacheDiscipline`). 69-86: the exported `shift`, called by
  itself, does not count the entry out, which `put` does for it, and leaves `tail` at the last one; the cache may then
  outgrow the "Maximum number of items" (22). Only `put` calls it (`ShiftAloneMiscounts`).
* `popup.js` 17-20: a toggle switches the ruleset first and stores the choice then; if `localStorage` is full
  this throws, the page is not reloaded, and the next restart undoes the toggle.
* `rules.js` 355-380: the answers of `cookieHostCache` outlive toggles, so a cookie may be secured on a host that
  is no longer rewritten; and a call to secure one is carried out even if its ruleset was switched off or its
  host blacklisted meanwhile.
* `ssl-observatory.js` 697: a failed submission is planned again only if it is
  already delayed, against the comment above it; retries do not ask whether the
  Observatory is still switched on. 706-713: if `send()` throws, the chain stays marked and the counter raised for good;
  once it has happened MAX_OUTSTANDING + 1 times nothing is sent any more. In the loop of 670 the entry
  stays delayed and the second retry is not made.
* `popup.js` 159 against `background.js` 218: a user rule made on a page with a port
  never applies. `background.js` 122-123: one whose `setItem` throws is lost with the next restart.
* `background.js` 42-46: requests made before the start-up `get` is answered are handled
  with HTTP Nowhere off. 487: a cookie deleted while its `cookies.set` is under way comes
  back. 210-216: the tab list keeps the old page's rulesets when the new page's URL is blacklisted.
* `HTTPSRules.js` 319: of two rows with one name the first met is loaded, the other
  refused; `rules/Coop.ch.xml` and `Coop.ch-falsemixed.xml` are such, so that a lookup does not always
  "return a list of rulesets that declare targets matching a given hostname" (620).
* `HTTPS.js` 76 blacklists the host that fell back, `HTTPSRules.js` 744 asks for the cookie's own host: once
  `www.example.com` fell back, cookies of `.example.com` may still be secured, and then do not reach it over http.
* `HTTPSRules.js` 467: reset clears the choices of loaded rulesets only, where
  `toolbar_button.js` 268 says "Resets all rules to their default state".
* `HTTPSRules.js` 643: the lookup answers null for a host with an empty label, and every caller
  but `rewrittenURI`'s `try` (which ends before) dereferences it: the hook throws and the
  request goes out as it is, also under HTTP Nowhere.
* `ApplicableList.js` 198 "break once break everywhere": `moot` is not compared with `breaking`,
  so a ruleset may be listed as both. 214-229: the ids of commands are quoted, those the items refer to are not, so the menu's
  items of the user's own rulesets do nothing.
* `AndroidUI.jsm` 159: the popup toggles the objects of the page's list, which after an
  init() are not those in use: the choice is stored, and followed after the next init().
* `https-everywhere.js` 150-160: a session that starts switched off does not hear of a cleared
  history, even once it is switched on (571 says the list has to be cleared then). Where it is heard, a page
  still open brings its rulesets back with its next menu, counter or cookie, and its own list keeps the
  objects it had, so that what is loaded still tells of a page that the history forgot. 553: switched off
  before the windows are restored, it never sets `browser_initialised` and ignores the
  mixed-content preferences for the session. 817: OCSP edits made while HTTP Nowhere
  is on are lost, as its TODO suspects.
* `ssl-observatory.js` 779: an answer of status 200 without XML returns before the callback, and the
  popup does not come in that session; nor does it while a proxy keeps silent, as the test has no timeout
  (766-807). `observatory-xul.js` 45: opening the preferences
  before the test is over takes `null` for "no Tor" and sets `use_custom_proxy`.
* `rewriter.js` 94-96: a second run replaces the backup of the original by a backup of
  the rewritten text; after a crash between the renames the file is not listed any more.

## Proofs

Every invariant and action property that a passing run checks is also a theorem, for all
values of the constants; what the runs check besides is liveness. A line per theorem, then
why the property is not inductive as it stands and what the invariant adds.

**`LRUCacheProofs`**, every set of keys, values and entries, every limit.

* `CacheIsTyped`: `Spec => []TypeOK`; `CacheIsWellFormed`: `ApiSpec => []WellFormed`
* `ShiftAloneMiscounts`: why `ApiSpec` leaves `shift` to `put`
* `EveryEntryIsVisited`: `ApiSpec => []IterationSound`
* `NoEntryIsOrphaned`: `MCSpec => []NoOrphansAsUsed`
* `ListIsBoundedMap`: `MCSpec => ImplementsContract`, the refinement of `LRUContract`

`WellFormed` speaks of neighbours only and is not inductive: with neighbours that
agree, the list might still be two rings, and `remove` at an end of one would break
the count. The invariant `LRUInv` names the order instead: there is a `q` that lists
the heap's entries from head to tail without repetition, the links are its
successors and predecessors, the key map is faithful, and `size` is its length. Each
method then has a lemma that gives the new `q`: appended (`LinkedSound`), a
position taken out (`GapClosed`, used by `RemoveSound`, `ShiftSound` and, with an append,
`MovedSound`), or empty. `Walk` says that `forEach`, a recursive function, goes along
`q`: by counting steps, as below. As `rules.js` calls the cache, entries are also the ones their
keys find (`Found`); then the keys in the order `q` are the contract's `order`, and for each method a
lemma carries `Shows`, the relation of an object to the cache it holds, over to the
contract's operator of that name.

**`HostTargetsProofs`**, any alphabet, names and lists of any length.

* `MergeGains`: what the loop over the probes makes of any lists
* `ProbesAreCovers`: the probes are the targets that cover the host
* `AnswersAreComplete`: a lookup finds each ruleset with a covering target once,
  those that name the host first

`setInsert`, `Merge` and `Declaring` are loops, written as folds. The induction theorems of
the library are out of reach, so the induction over passes comes from a fact about sets: finite sets of
numbers are well founded under inclusion, hence `Smallest` and `Counting`, hence `FoldTable`, that
a fold's table exists, and `InsertLoop`, `MergeLoop` and `DeclaringLoop`, its value after each pass.

**`RuleStoreProofs`**, all rulesets, hosts, user rules and capacities.

* `RuleStoreTyped`: `Spec => []TypeOK`
* `RuleCacheIsCoherent`: `Spec => []RuleCacheCoherent`. The induction needs that
  only hosts are cached, and `UserRuleHosts`: a new user rule's key is probed by no
  host but its own, so the one purge is enough.
* `ChoicesAreStored`: `Spec => []ChoicesStored`, with the numbering of user
  rulesets as strengthening. A ruleset is excepted while `unstored`: the one whose toggle threw, or a namesake
  of one toggled since.
* `CachesAreUsedAsLRU`: `Spec => CacheDiscipline`, each step one that `LRUContract`
  allows on both caches; with `ListIsBoundedMap`, the store over the linked list
  behaves as the store over the contract.
* `ReloadsAreInvisible`: `Spec => ReloadIsInvisible`. `IndexInv` says that the index is at
  any time what loading the rulesets in their order makes of it.

**`ChromiumRequestsProofs`**, on top of it.

* `RequestsAreTyped`: `Spec => []TypeOK`
* `NothingSlips`: `Spec => NothingSlipsThrough`; `NowhereBlocks`: `Spec => NowhereHolds`
* `RulesetsAreListed`: `Spec => PageRulesetsListed`
* `GivenUpKeepCookies`: `Spec => []GivenUpHostsKeepCookies`

Every step is shown to be one of the store or to leave it alone (`StoreSteps`), so the store's
invariants carry over: `RuleCacheCoherent` is what makes a cached answer good enough for
the first two. `OnlyPassSends` says that a request goes out through four of the returns only. A theorem of
`RuleStoreProofs` speaks of its own instance of `RuleStore`; the first lemmas say
that it defines the same operators as the one the module uses.

**`CookieMonitorProofs`**, likewise.

* `CookiesAreTyped`: `Spec => []TypeOK`
* `AskedIfSafe`: `Spec => AskedOnlyIfSafe`, of the handler's calls, not of when they are carried out
* `CoveredEndSecure`: `Spec => []SettledSecured`. The invariant `SteadyInv` says, while
  the rulesets were not touched, that what `cookieHostCache` remembers is right, and that for
  each insecure covered cookie in the jar a change or a call is still to come.

**`ObservatoryProofs`**, every set of chains, any two limits.

* `ObservatoryIsTyped`: `Spec => []TypeOK`; `OutstandingIsExact`: `Spec => []OutstandingExact`
* `OneRequestEach`: `Spec => []OneRequestPerChain`; `AcceptedIsFinal`: `Spec => []AcceptedStaysAccepted`
* `ConsentIsAsked`: `Spec => ConsentAskedAnew`

The first two follow from `Sound`, which each operator on the queue is shown to preserve, so
that the retries inside an answer need no induction of their own: `submitChain`
raises the counter only from at most the limit, whether or not `send()` throws then, and a retried entry is still among
the delayed ones while it is called, so the call adds none. `Once` relates the queue to what
was accepted and disowned: a chain in flight is marked and in flight once, unless a clear disowned it; an accepted chain is
marked and not in flight.

**`FirefoxChannelsProofs`**, all rulesets, servers, requests, browsers and limits.

* `AppliedAreListed`: `Spec => []AppliedListed`
* `NothingPlainUnderHttpNowhere`: `Spec => NowhereHolds`
* `CookiesAreSpared`: `Spec => GivenUpHostsKeepCookies`, of cookies whose own host fell back
* `LoopsEndInTime`: `Spec => []LoopsFallBack` for every `rank` with `ServersEnd(rank)`:
  servers by themselves redirect a URL fewer times in a row than the redirects that are left
  when rewriting is given up, which is what the run's kinds of server do. More, and the browser does fail the request: the
  limit is shared.

`ChannelInv` says that a list holds what was applied, that a URL is blacklisted with its host,
that what went out plainly is of such a host, and that a ruleset only redirects a channel with redirects
left. `Enough` adds for loops that a channel has as many as servers may still take.

**`PartsProofs`**, any tabs, panels, files, sites, clicks and crashes. A behaviour of `MCParts` stays in
its part, so a part's invariant is shown for the part's own steps.

* `RewriterOriginalKept`: `[]OriginalKept`. `Safe` says what is whole by how far a file's edit has come.
* `SwitchHooksMatch`, `SwitchNothingOutlivesClearing`, `SwitchOcspGivenBack`: `[]HooksMatchSwitch`,
  `[]NothingOutlivesClearing`, `[]OcspGivenBack`. `Observing` gives how often each topic is
  registered as a function of the preference, of how the session began and of its phase, what stays registered by mistake included.
* `PlannerForgetsWhenClosed`: `[]ForgottenWhenClosed`. `WillForget` says that for a tab that is not
  ticked a message is on its way after which nothing enables it again, `WillHang` that
  the port of a recorded tab has its `onDisconnect` or will get it before it breaks.
* `NowhereCopyCorrect`: `[]CopyCorrectWhenSettled`. `NowhereInv`: the last thing on its way to the background page says what
  the preference is, and if nothing is and the start-up `get` is answered, the copy does.
  A popup that closes takes its calls and callbacks out of both queues (`Without`, a loop as above), and what
  is for the background page keeps its order (`Dropped`).
* `LookupProbesMatchDocs`, `LookupAnswerComplete`: `[]ProbesMatchDocs`, `[]AnswerComplete`, from
  `HostTargetsProofs`: `Label`, `MaxLabels` and `Database` are constants of `MCParts`, so for every alphabet,
  bound and database of valid targets.
* `ProxyCallbackComes`: `[]CallbackComes`.

It also holds the theorems of `FirefoxRules`, for all files, rows and targets, names shared by rows included
(see Findings), about the rulesets whose name is their own (`Own`):

* `LookupsAnswerAsIfAllLoaded`: `Spec => []AnswersAsIfAllLoaded`
* `LateReadingIsInvisible`: `Spec => LazyIsInvisible`, the refinement of
  `FirefoxRulesContract`

`LoadInv` says how far loading can be: `KeptCustoms \subseteq loaded \subseteq Stored`,
and the page's list holds only objects of such rulesets. From it, what is not loaded
and has a name of its own shares none with what is (`NamesApart`), so a lookup refuses nothing but rows that share one
(`LoadsAllMet`), and no preference written for a loaded ruleset changes what another will
be once loaded. Each operation then is one of the contract's: a toggle `Switch`, one of
an old object `Switch` or, if the ruleset was read again, `SwitchUnheard`, `init()`
`ReadAnew`, a reset `Reset` of what is loaded, and a visit a stutter.

Only model-checked: liveness, which is out of the prover's reach like `ENABLED`: `Terminates` of both
extensions, `CopyEventuallyCorrect`, `EventuallyForgotten`, `NoEcho` and `OverLimitEnds`.

The proofs rest on the assumptions on constants named above and no others; `LoopsEndInTime` states its own
as a hypothesis.

## Plan

1. (done) The Chromium extension and the Observatory's queue, with proofs about the
   cache, the rule store, the queue and the Firefox rulesets.
2. (done) The Firefox extension: rulesets against an eager contract, channels,
   switches; the proxy test and its dialogs; the rewriter.
3. (done) Proofs of every invariant and action property the runs check.
4. Proofs of what the types of the parts are, which no property needed; `ServersEnd` of
   `FirefoxChannels` from the kinds of server instead of a rank.

## Not modelled

* XML parsing and regular expressions: given as what they declare and match. Credentials in
  URLs and trailing dots of hosts (`sanitiseURI`), the parsing of `Set-Cookie` headers (`Cookie.js`).
* Code that nothing calls any more: `handleCrossSiteCookies`, `cookiesCleanup` and
  `sanitizeCrossSiteCookies` of `HTTPS.js` (169-318), most of `IOUtil.js`, the experimental cohort.
* The Observatory's choice of proxy, its ASN watcher and the X.509 whitelists: lookups in
  preferences and tables. `NSS.js`, `sha256.js`, `Root-CAs.js`, `X509ChainWhitelist.js`: declarations, a hash
  function and tables, more than a fifth of the lines.
* Rendering and wording of popups, panels, toolbars and dialogs; the state other
  windows' toolbars show; the migration of preferences.
* A channel whose redirect moves to another browser (`juggleApplicableListsDuringRedirection`
  then hands the list on) and exceptions of `redirectTo`, which the code expects of open channels only.
* Packaging and validation scripts, vendored code and certificates.
