------------------------------ MODULE MCParts ------------------------------
(* Six parts too small for a run each: a behaviour begins in one of them  *)
(* and stays there, while the variables of the others keep the values of   *)
(* Absent below, in which nothing fair can happen.                         *)
EXTENDS Naturals, Sequences

CONSTANTS
  MaxClicks, MaxRemote, MaxRestarts,  \* HttpNowhere's bounds
  Tab, Resource, MaxPanels, NoPanel,  \* SwitchPlanner's
  File, MaxBackups,                   \* Rewriter's
  Site,                               \* FirefoxSwitch's
  None,                               \* ProxyTest's
  Label, MaxLabels, Database          \* MCHostTargets'

ASSUME PanelBound == MaxPanels \in Nat

(* Targets are valid: at most one wildcard, which is no label.             *)
ASSUME LookupAssumption ==
  /\ "*" \notin Label /\ MaxLabels \in Nat
  /\ Database \in Seq(SUBSET Seq(Label \cup {"*"}))
  /\ \A r \in DOMAIN Database : \A t \in Database[r] :
       \A i, j \in DOMAIN t : t[i] = "*" /\ t[j] = "*" => i = j

(* Four rulesets that share targets.                                       *)
MCDatabase == << {<<"a", "b">>, <<"*", "a", "b">>},
                 {<<"*", "b">>, <<"a", "*", "b">>, <<"*", "a", "b">>},
                 {<<"c", "a", "b">>, <<"c", "a", "*">>},
                 {<<"*", "b", "a">>, <<"a">>, <<"a", "b", "b", "*">>} >>

VARIABLES
  part,
  preference, calls, inbox, httpNowhereOn, popup, clicks, remote, restarts,
  panel, recording, opened, messages, listeners, onDisconnect, enabledFor, info,
  disk, queue, at, backups,
  isMobile, prefs, saved, phase, observers, sink, browser_initialised, loadedRulesets,
  initialised, asked, startedOn,
  proxy_test_successful, request, proxy_test_callback, restored, invitation,
  obsprefs, due, called, dropped,
  host

nowhereVars == <<preference, calls, inbox, httpNowhereOn, popup, clicks, remote, restarts>>
plannerVars ==
  <<panel, recording, opened, messages, listeners, onDisconnect, enabledFor, info>>
rewriterVars == <<disk, queue, at, backups>>
switchVars ==
  <<isMobile, prefs, saved, phase, observers, sink, browser_initialised, loadedRulesets,
    initialised, asked, startedOn>>
proxyVars ==
  <<proxy_test_successful, request, proxy_test_callback, restored, invitation,
    obsprefs, due, called, dropped>>
partsVars == <<part, nowhereVars, plannerVars, rewriterVars, switchVars, proxyVars, host>>

Nowhere == INSTANCE HttpNowhere WITH pref <- preference
Planner == INSTANCE SwitchPlanner WITH inbox <- messages
Rewriting == INSTANCE Rewriter
Switch == INSTANCE FirefoxSwitch WITH loaded <- loadedRulesets
Proxy == INSTANCE ProxyTest WITH popup <- invitation, pref <- obsprefs
Lookup == INSTANCE MCHostTargets

NoNowhere == calls = <<>> /\ inbox = <<>> /\ httpNowhereOn = FALSE /\ preference = FALSE
  /\ popup = Nowhere!Closed /\ clicks = 0 /\ remote = 0 /\ restarts = 0
NoPlanner == messages = <<>> /\ panel = [t \in Tab |-> NoPanel] /\ recording = {}
  /\ opened = 0 /\ listeners = {} /\ onDisconnect = <<>> /\ enabledFor = {} /\ info = {}
NoRewriting == disk = <<>> /\ queue = {} /\ at = Rewriting!Idle /\ backups = <<>>
NoSwitch == isMobile = FALSE /\ prefs = <<>> /\ saved = <<>> /\ phase = "started"
  /\ observers = <<>> /\ sink = FALSE /\ browser_initialised = FALSE /\ loadedRulesets = {}
  /\ initialised = FALSE /\ asked = {} /\ startedOn = FALSE
NoProxy == proxy_test_successful = "no" /\ request = "over" /\ proxy_test_callback = None
  /\ restored = FALSE /\ invitation = FALSE /\ obsprefs = <<>> /\ due = None
  /\ called = {} /\ dropped = FALSE
NoLookup == host = <<>>

PartsInit ==
  \/ part = "nowhere" /\ Nowhere!Init /\ NoPlanner /\ NoRewriting
     /\ NoSwitch /\ NoProxy /\ NoLookup
  \/ part = "planner" /\ NoNowhere /\ Planner!Init /\ NoRewriting
     /\ NoSwitch /\ NoProxy /\ NoLookup
  \/ part = "rewriter" /\ NoNowhere /\ NoPlanner /\ Rewriting!Init
     /\ NoSwitch /\ NoProxy /\ NoLookup
  \/ part = "switch" /\ NoNowhere /\ NoPlanner /\ NoRewriting
     /\ Switch!Init /\ NoProxy /\ NoLookup
  \/ part = "proxy" /\ NoNowhere /\ NoPlanner /\ NoRewriting
     /\ NoSwitch /\ Proxy!Init /\ NoLookup
  \/ part = "lookup" /\ NoNowhere /\ NoPlanner /\ NoRewriting
     /\ NoSwitch /\ NoProxy /\ Lookup!Init

PartsNext ==
  \/ /\ part = "nowhere" /\ Nowhere!Next
     /\ UNCHANGED <<part, plannerVars, rewriterVars, switchVars, proxyVars, host>>
  \/ /\ part = "planner" /\ Planner!Next
     /\ UNCHANGED <<part, nowhereVars, rewriterVars, switchVars, proxyVars, host>>
  \/ /\ part = "rewriter" /\ Rewriting!Next
     /\ UNCHANGED <<part, nowhereVars, plannerVars, switchVars, proxyVars, host>>
  \/ /\ part = "switch" /\ Switch!Next
     /\ UNCHANGED <<part, nowhereVars, plannerVars, rewriterVars, proxyVars, host>>
  \/ /\ part = "proxy" /\ Proxy!Next
     /\ UNCHANGED <<part, nowhereVars, plannerVars, rewriterVars, switchVars, host>>
  \/ /\ part = "lookup" /\ Lookup!Next
     /\ UNCHANGED <<part, nowhereVars, plannerVars, rewriterVars, switchVars, proxyVars>>

PartsSpec ==
  PartsInit /\ [][PartsNext]_partsVars /\ Nowhere!Fairness /\ Planner!Fairness

-----------------------------------------------------------------------------
(* The parts' properties, each about behaviours of its part; their own     *)
(* modules say what they mean.                                             *)

(* background.js 42-56: a settled copy of the preference is not stale.     *)
CopyCorrectWhenSettled == part = "nowhere" => Nowhere!CopyCorrectWhenSettled

(* background.js 42-56: with no more changes the copy becomes correct.     *)
CopyEventuallyCorrect == part = "nowhere" => Nowhere!CopyEventuallyCorrect

(* background.js 531-535, 551-554: closed tools leave nothing recorded.    *)
ForgottenWhenClosed == part = "planner" => Planner!ForgottenWhenClosed

(* background.js 531-554: a tab never ticked again is not kept recorded.   *)
EventuallyForgotten == part = "planner" => Planner!EventuallyForgotten

(* rewriter.js 94-96: killed runs and failing calls lose no text.          *)
OriginalKept == part = "rewriter" => Rewriting!OriginalKept

(* https-everywhere.js 759-800: what is hooked is what is switched on.     *)
HooksMatchSwitch == part = "switch" => Switch!HooksMatchSwitch

(* https-everywhere.js 571-576: no loaded ruleset outlives a clearing.     *)
NothingOutlivesClearing == part = "switch" => Switch!NothingOutlivesClearing

(* https-everywhere.js 815-834: the user's OCSP setting comes back.        *)
OcspGivenBack == part = "switch" => Switch!OcspGivenBack

(* ssl-observatory.js 747-817: no callback is left to an ended proxy test. *)
CallbackComes == part = "proxy" => Proxy!CallbackComes

(* HTTPSRules.js 639-661: the documented wildcards are probed, no more.    *)
ProbesMatchDocs == part = "lookup" => Lookup!ProbesMatchDocs

(* HTTPSRules.js 569-577: each ruleset is found once, exact names first.   *)
AnswerComplete == part = "lookup" => Lookup!AnswerComplete
=============================================================================
