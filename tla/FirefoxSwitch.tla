--------------------------- MODULE FirefoxSwitch ---------------------------
(***************************************************************************)
(* Switching the Firefox extension: which observers https-everywhere.js    *)
(* has registered as sessions start, as the whole extension is switched    *)
(* off and on (toggleEnabledState), and what it then hears; and the "Block *)
(* all HTTP requests" switch (toggleHttpNowhere), which parks the user's   *)
(* OCSP setting in a preference of its own.                                *)
(*                                                                         *)
(* External: the observer service, which keeps one entry per addObserver   *)
(* and throws at a removal that finds none; the preferences, which reach   *)
(* the disk now and then and at a clean exit; a crash loses the rest.      *)
(***************************************************************************)
EXTENDS Naturals, SequencesExt

CONSTANT Site   \* sites with a ruleset of their own

VARIABLES
  isMobile,
  prefs,      \* [globalEnabled, nowhere, ocsp, origOcsp, chosen], see Pref
  saved,      \* prefs as on disk
  phase,      \* how far the session has come: "started", "profile", "restored"
  observers,  \* topic -> number of registrations
  sink,       \* the entry in the category net-channel-event-sinks
  browser_initialised,
  initialised,  \* HTTPSRules.init() has run in this session
  loaded,     \* sites whose ruleset HTTPSRules holds
  asked,      \* history: sites looked up since the user last cleared the history
  startedOn   \* history: the session started with the extension on

session == <<phase, observers, sink, browser_initialised, initialised, loaded, startedOn>>
vars == <<isMobile, prefs, saved, asked, session>>

Network == <<"cookie-changed", "http-on-modify-request",
             "http-on-examine-merged-response", "http-on-examine-response">>
Lifecycle == <<"profile-before-change", "profile-after-change",
               "sessionstore-windows-restored">>
Purge == "browser:purge-session-history"
Topic == ToSet(Network \o Lifecycle) \cup {Purge}

(* chosen is not a preference: what the user last set security.OCSP.require *)
(* to while HTTP Nowhere was off, as the disk would know it.               *)
Pref == {"globalEnabled", "nowhere", "ocsp", "origOcsp", "chosen"}

With(topics) == [t \in Topic |-> observers[t] + IF Contains(topics, t) THEN 1 ELSE 0]
Without(topics) == [t \in Topic |-> observers[t] - IF Contains(topics, t) THEN 1 ELSE 0]

(* The topics the constructor registers for.                               *)
ConstructorTopics(on) ==
  CASE on -> Lifecycle \o <<Purge>>
    [] ~on /\ isMobile -> <<"sessionstore-windows-restored">>
    [] OTHER -> <<>>

Constructed(on) ==
  [t \in Topic |-> IF Contains(ConstructorTopics(on), t) THEN 1 ELSE 0]

Init ==
  /\ isMobile \in BOOLEAN
  /\ prefs \in [Pref -> BOOLEAN]
  /\ ~prefs.nowhere /\ ~prefs.origOcsp /\ prefs.chosen = prefs.ocsp
  /\ saved = prefs
  /\ phase = "started" /\ observers = Constructed(prefs.globalEnabled)
  /\ sink = FALSE /\ browser_initialised = FALSE
  /\ initialised = FALSE /\ loaded = {} /\ asked = {} /\ startedOn = prefs.globalEnabled

-----------------------------------------------------------------------------
(* Notifications.                                                          *)

(* HTTPSRules.init(): the rulesets are read from the start again.          *)
InitRules == initialised' = TRUE /\ loaded' = {}

(* profile-after-change reaches the component through its category, on or  *)
(* off.                                                                    *)
ProfileAfterChange ==
  /\ phase = "started" /\ phase' = "profile"
  /\ IF prefs.globalEnabled
     THEN observers' = With(Network) /\ sink' = TRUE /\ InitRules
     ELSE UNCHANGED <<observers, sink, initialised, loaded>>
  /\ UNCHANGED <<isMobile, prefs, saved, asked, browser_initialised, startedOn>>

(* The Observatory popup (ProxyTest) or the Android UI, then the flag.     *)
SessionRestored ==
  /\ phase = "profile" /\ phase' = "restored"
  /\ browser_initialised' = (observers["sessionstore-windows-restored"] > 0)
  /\ UNCHANGED <<isMobile, prefs, saved, observers, sink, initialised, loaded, asked,
                 startedOn>>

(* A lookup loads the rulesets of the host; before any init() it throws.   *)
LookUp(s) ==
  /\ asked' = asked \cup {s}
  /\ loaded' = IF initialised THEN loaded \cup {s} ELSE loaded
  /\ UNCHANGED <<isMobile, prefs, saved, phase, observers, sink, browser_initialised,
                 initialised, startedOn>>

(* http-on-modify-request: a request to s.                                 *)
Visit(s) == observers["http-on-modify-request"] > 0 /\ LookUp(s)

(* cookie-changed: an insecure cookie of s, from a response, a page that   *)
(* has been open for long, or anywhere else.                               *)
CookieChanged(s) == observers["cookie-changed"] > 0 /\ LookUp(s)

(* The menu, or if the extension is on the counter, of a tab that shows a  *)
(* page of s brings its list up to date, since whenever it is open; the    *)
(* Android popup shows the list as it is.                                  *)
ShowList(s) == phase # "started" /\ ~isMobile /\ LookUp(s)

(* browser:purge-session-history: the user clears the history.             *)
ClearHistory ==
  /\ phase # "started"
  /\ asked' = {}
  /\ IF observers[Purge] > 0 THEN InitRules ELSE UNCHANGED <<initialised, loaded>>
  /\ UNCHANGED <<isMobile, prefs, saved, phase, observers, sink, browser_initialised,
                 startedOn>>

(* nsPref:changed of a mixed-content preference; earlier ones are ignored. *)
MixedContentChanged ==
  /\ browser_initialised
  /\ InitRules
  /\ UNCHANGED <<isMobile, prefs, saved, asked, phase, observers, sink,
                 browser_initialised, startedOn>>

-----------------------------------------------------------------------------
(* toggleEnabledState, from the toolbar or, on Android, from the menu that *)
(* the UI adds once the session is restored.                               *)

SetPref(p, b) == prefs' = [prefs EXCEPT ![p] = b]

(* Fault: switching off takes the purge observer along.                    *)
TogglesPurgeToo == Lifecycle \o Network \o <<Purge>>

(* Fault: one of the four network observers is forgotten.                  *)
TogglesThreeHooks == Lifecycle \o Tail(Network)

ToggledOff == Lifecycle \o Network

(* Observers are removed one by one until a removal throws.                *)
SwitchOff ==
  LET present == SelectInSeq(ToggledOff, LAMBDA t : observers[t] = 0)
      removed == IF present = 0 THEN ToggledOff ELSE SubSeq(ToggledOff, 1, present - 1)
  IN /\ prefs.globalEnabled
     /\ observers' = Without(removed)
     /\ IF removed = ToggledOff
        THEN sink' = FALSE /\ SetPref("globalEnabled", FALSE)
        ELSE UNCHANGED <<sink, prefs>>
     /\ UNCHANGED <<initialised, loaded>>

SwitchOn ==
  /\ ~prefs.globalEnabled
  /\ observers' = With(Lifecycle \o Network)
  /\ sink' = TRUE /\ InitRules
  /\ SetPref("globalEnabled", TRUE)

ToggleEnabledState ==
  /\ phase = "restored" \/ (phase = "profile" /\ ~isMobile)
  /\ SwitchOff \/ SwitchOn
  /\ UNCHANGED <<isMobile, saved, asked, phase, browser_initialised, startedOn>>

-----------------------------------------------------------------------------
(* toggleHttpNowhere.                                                      *)

Unswitched == UNCHANGED <<isMobile, saved, asked, session>>

(* Fault: the setting is saved after it has been switched off.             *)
NowhereOnSavingLate ==
  prefs' = [prefs EXCEPT !.ocsp = FALSE, !.origOcsp = FALSE, !.nowhere = TRUE]

NowhereOn ==
  prefs' = [prefs EXCEPT !.origOcsp = prefs.ocsp, !.ocsp = FALSE, !.nowhere = TRUE]

NowhereOff ==
  prefs' = [prefs EXCEPT !.ocsp = prefs.origOcsp, !.nowhere = FALSE]

ToggleHttpNowhere ==
  /\ phase # "started" /\ ~isMobile
  /\ IF prefs.nowhere THEN NowhereOff ELSE NowhereOn
  /\ Unswitched

(* The user edits the OCSP setting.  While HTTP Nowhere is on the edit     *)
(* does not last: the TODO at 817.                                         *)
EditOcsp ==
  /\ phase # "started"
  /\ prefs' = [prefs EXCEPT !.ocsp = ~@,
                            !.chosen = IF prefs.nowhere THEN @ ELSE ~prefs.ocsp]
  /\ Unswitched

-----------------------------------------------------------------------------

SavePrefs ==
  /\ saved' = prefs
  /\ UNCHANGED <<isMobile, prefs, asked, session>>

(* A new session, after an exit or a crash.                                *)
Restart ==
  /\ prefs' = saved
  /\ phase' = "started" /\ observers' = Constructed(saved.globalEnabled)
  /\ sink' = FALSE /\ browser_initialised' = FALSE
  /\ initialised' = FALSE /\ loaded' = {} /\ startedOn' = saved.globalEnabled
  /\ UNCHANGED <<isMobile, saved, asked>>

Next ==
  \/ ProfileAfterChange \/ SessionRestored
  \/ \E s \in Site : Visit(s) \/ CookieChanged(s) \/ ShowList(s)
  \/ ClearHistory \/ MixedContentChanged
  \/ ToggleEnabledState \/ ToggleHttpNowhere \/ EditOcsp
  \/ SavePrefs \/ Restart

Spec == Init /\ [][Next]_vars

-----------------------------------------------------------------------------
(* Properties.                                                             *)

TypeOK ==
  /\ isMobile \in BOOLEAN /\ prefs \in [Pref -> BOOLEAN] /\ saved \in [Pref -> BOOLEAN]
  /\ phase \in {"started", "profile", "restored"}
  /\ observers \in [Topic -> 0 .. 2] /\ sink \in BOOLEAN /\ browser_initialised \in BOOLEAN
  /\ initialised \in BOOLEAN /\ startedOn \in BOOLEAN
  /\ loaded \subseteq Site /\ asked \subseteq Site

(* Once the profile is there, the four network observers are registered    *)
(* once each and redirects are heard if the preference says the extension  *)
(* is on, and nothing is heard if it is off: no sequence of starts, of     *)
(* switching before or after the windows are restored, and of crashes      *)
(* leaves a hook twice, or none, or stops in the middle (122-163, 531-546, *)
(* 759-800).                                                               *)
HooksMatchSwitch ==
  phase # "started" =>
    /\ \A t \in ToSet(Network) : observers[t] = IF prefs.globalEnabled THEN 1 ELSE 0
    /\ sink = prefs.globalEnabled

(* "The list of rulesets that have been loaded from the sqlite DB          *)
(* constitutes a parallel history store, so we have to clear it" (571): in *)
(* a session that started with the extension on, no ruleset loaded before  *)
(* the user cleared the history is still loaded after it, also if it was   *)
(* cleared while the extension was off.  What is looked up afterwards      *)
(* counts anew, be it for a page that was open before.                     *)
NothingOutlivesClearing == startedOn => loaded \subseteq asked

(* While HTTP Nowhere is off security.OCSP.require is what the user last   *)
(* chose, however often it was switched on and off, whatever was edited    *)
(* meanwhile, and across crashes that lose unsaved preferences (815-834).  *)
OcspGivenBack == ~prefs.nowhere => prefs.ocsp = prefs.chosen
=============================================================================
