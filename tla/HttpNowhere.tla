---------------------------- MODULE HttpNowhere ----------------------------
(***************************************************************************)
(* The "Block all HTTP requests" preference of the Chromium extension:     *)
(* chrome.storage.sync holds it, the background page keeps a copy          *)
(* (background.js 42-56) and the checkbox of a popup flips it (popup.js    *)
(* 115-123 and 194-210).                                                   *)
(*                                                                         *)
(* The storage API is asynchronous: calls are executed in the order they   *)
(* were made and their callbacks and change events arrive in the order     *)
(* they were produced (external: the browser runs one queue per area).     *)
(***************************************************************************)
EXTENDS Naturals, Sequences, SequencesExt

CONSTANTS
  MaxClicks,   \* bound on the clicks of one popup
  MaxRemote,   \* bound on changes synced from another device
  MaxRestarts  \* bound on restarts of the extension

VARIABLES
  pref,           \* storage.sync's httpNowhere
  calls,          \* storage calls not executed yet
  inbox,          \* callbacks and events not run yet
  httpNowhereOn,  \* the background page's copy
  popup,          \* [open, listening, checked] of the popup
  clicks, remote, restarts

counters == <<clicks, remote, restarts>>
vars == <<pref, calls, inbox, httpNowhereOn, popup, counters>>

(* Whoever asks for the preference; the calls made, and what comes back.   *)
Asking == {"background", "popup", "toggle"}
Gets(askers) == [op : {"get"}, who : askers]
Sets == [op : {"set"}, value : BOOLEAN]
Events(hearers) == [for : hearers, value : BOOLEAN]

Get(who) == [op |-> "get", who |-> who]
SetTo(b) == [op |-> "set", value |-> b]
Closed == [open |-> FALSE, listening |-> FALSE, checked |-> FALSE]

(* The background page starts with the mode off and asks for the           *)
(* preference; storage keeps what an earlier session left.                 *)
Init ==
  /\ pref \in BOOLEAN
  /\ calls = <<Get("background")>> /\ inbox = <<>>
  /\ httpNowhereOn = FALSE
  /\ popup = Closed
  /\ clicks = 0 /\ remote = 0 /\ restarts = 0

(* storage.set, here or on a synced device, tells the background page when *)
(* the value differs.                                                      *)
Written(b) ==
  /\ pref' = b
  /\ inbox' = IF b = pref THEN inbox ELSE Append(inbox, [for |-> "changed", value |-> b])

ExecuteGet ==
  /\ calls # <<>> /\ Head(calls).op = "get"
  /\ calls' = Tail(calls)
  /\ inbox' = Append(inbox, [for |-> Head(calls).who, value |-> pref])
  /\ UNCHANGED <<pref, httpNowhereOn, popup, counters>>

ExecuteSet ==
  /\ calls # <<>> /\ Head(calls).op = "set"
  /\ calls' = Tail(calls)
  /\ Written(Head(calls).value)
  /\ UNCHANGED <<httpNowhereOn, popup, counters>>

Deliver(who) ==
  /\ inbox # <<>> /\ Head(inbox).for = who
  /\ inbox' = Tail(inbox)

(* Fault: what the startup get answers is not kept.                        *)
LoadNothing ==
  /\ Deliver("background")
  /\ UNCHANGED <<pref, calls, httpNowhereOn, popup, counters>>

(* Fault: the old value of the change is taken for the new one.            *)
OnChangedOld ==
  /\ Deliver("changed")
  /\ httpNowhereOn' = ~Head(inbox).value
  /\ UNCHANGED <<pref, calls, popup, counters>>

(* The callback of the get at startup, and storage.onChanged.              *)
LoadPref ==
  /\ Deliver("background")
  /\ httpNowhereOn' = Head(inbox).value
  /\ UNCHANGED <<pref, calls, popup, counters>>

OnChanged ==
  /\ Deliver("changed")
  /\ httpNowhereOn' = Head(inbox).value
  /\ UNCHANGED <<pref, calls, popup, counters>>

(* The popup opens: the click listener and the tick come with the callback. *)
OpenPopup ==
  /\ ~popup.open
  /\ popup' = [Closed EXCEPT !.open = TRUE]
  /\ calls' = Append(calls, Get("popup"))
  /\ UNCHANGED <<pref, inbox, httpNowhereOn, counters>>

PopupReady ==
  /\ Deliver("popup")
  /\ popup' = [popup EXCEPT !.listening = TRUE, !.checked = Head(inbox).value]
  /\ UNCHANGED <<pref, calls, httpNowhereOn, counters>>

(* toggleHttpNowhere: the box flips at once; the new value is the opposite *)
(* of the one a get finds.                                                 *)
Click ==
  /\ popup.listening /\ clicks < MaxClicks
  /\ clicks' = clicks + 1
  /\ popup' = [popup EXCEPT !.checked = ~popup.checked]
  /\ calls' = Append(calls, Get("toggle"))
  /\ UNCHANGED <<pref, inbox, httpNowhereOn, remote, restarts>>

ToggleFound ==
  /\ Deliver("toggle")
  /\ calls' = Append(calls, SetTo(~Head(inbox).value))
  /\ UNCHANGED <<pref, httpNowhereOn, popup, counters>>

(* A closed popup runs no more callbacks; what it already asked to be      *)
(* stored is stored.  Without is SelectSeq written as a loop.              *)
Without(queue, gone) ==
  FoldLeft(LAMBDA rest, x : IF x \in gone THEN rest ELSE Append(rest, x), <<>>, queue)

ClosePopup ==
  /\ popup.open
  /\ popup' = Closed
  /\ calls' = Without(calls, Gets({"popup", "toggle"}))
  /\ inbox' = Without(inbox, Events({"popup", "toggle"}))
  /\ UNCHANGED <<pref, httpNowhereOn, counters>>

RemoteChange ==
  /\ remote < MaxRemote /\ remote' = remote + 1
  /\ Written(~pref)
  /\ UNCHANGED <<calls, httpNowhereOn, popup, clicks, restarts>>

(* The extension restarts: its pages and their callbacks are gone.         *)
Restart ==
  /\ restarts < MaxRestarts /\ restarts' = restarts + 1
  /\ httpNowhereOn' = FALSE /\ popup' = Closed /\ inbox' = <<>>
  /\ calls' = Append(Without(calls, Gets(Asking)), Get("background"))
  /\ UNCHANGED <<pref, clicks, remote>>

Storage == ExecuteGet \/ ExecuteSet
Pages == LoadPref \/ OnChanged \/ PopupReady \/ ToggleFound

Next ==
  \/ Storage \/ Pages
  \/ OpenPopup \/ Click \/ ClosePopup \/ RemoteChange \/ Restart

(* The browser executes storage calls and runs callbacks; users need not   *)
(* do anything.                                                            *)
Fairness ==
  /\ []<>(calls = <<>>) \/ []<><<Storage>>_vars
  /\ []<>(inbox = <<>>) \/ []<><<Pages>>_vars
Spec == Init /\ [][Next]_vars /\ Fairness

-----------------------------------------------------------------------------
(* Properties.                                                             *)

TypeOK ==
  /\ pref \in BOOLEAN /\ httpNowhereOn \in BOOLEAN
  /\ popup \in [open : BOOLEAN, listening : BOOLEAN, checked : BOOLEAN]
  /\ calls \in Seq(Gets(Asking) \cup Sets)
  /\ inbox \in Seq(Events(Asking \cup {"changed"}))

(* Once nothing is under way the background page blocks exactly if the     *)
(* preference says so: no order of the start-up get, clicks, synced        *)
(* changes and restarts leaves a stale copy behind (background.js 42-56).  *)
Settled == calls = <<>> /\ inbox = <<>>
CopyCorrectWhenSettled == Settled => httpNowhereOn = pref

(* With no more clicks and changes, the copy becomes and stays the         *)
(* preference.                                                             *)
CopyEventuallyCorrect == <>[](httpNowhereOn = pref)
=============================================================================
