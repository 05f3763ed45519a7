--------------------------- MODULE SwitchPlanner ---------------------------
(***************************************************************************)
(* The HTTPS Switch Planner: panels of the developer tools switch the      *)
(* recording of a tab's http resources on and off (devtools-panel.js); the *)
(* background page keeps what it recorded until it is switched off or the  *)
(* tools of that tab close (background.js 297-323 and 527-566).            *)
(*                                                                         *)
(* Every message to the background page is seen by every listener that     *)
(* any panel's connection ever added.  Messages and disconnections arrive  *)
(* in the order they were sent (external: one channel between two          *)
(* processes).                                                             *)
(***************************************************************************)
EXTENDS Naturals, Sequences, FiniteSets

CONSTANTS
  Tab,
  Resource,   \* the http resources tabs load, as the planner tells them apart
  MaxPanels,  \* bound on the panels opened, reloads included
  NoPanel

VARIABLES
  panel,        \* the panel open for each tab (the number of its connection)
  recording,    \* tabs whose panel has its box ticked
  opened,       \* number of panels opened
  inbox,        \* messages and disconnections under way
  listeners,    \* connections whose onMessage listener is registered
  onDisconnect, \* tabs to disable when a connection breaks
  enabledFor,   \* switchPlannerEnabledFor
  info          \* switchPlannerInfo: [tab, rw, resource]

pages   == <<panel, recording, opened>>
planner == <<enabledFor, info>>
vars    == <<pages, inbox, listeners, onDisconnect, planner>>

Connect(p)   == [what |-> "connect", port |-> p]
Message(t, type) == [what |-> type, tab |-> t]
Gone(p)      == [what |-> "disconnect", port |-> p]

Init ==
  /\ panel = [t \in Tab |-> NoPanel] /\ recording = {} /\ opened = 0
  /\ inbox = <<>>
  /\ listeners = {} /\ onDisconnect = [p \in 1 .. MaxPanels |-> {}]
  /\ enabledFor = {} /\ info = {}

-----------------------------------------------------------------------------
(* The panel of a tab's developer tools.                                   *)

OpenPanel(t) ==
  /\ panel[t] = NoPanel /\ opened < MaxPanels
  /\ opened' = opened + 1
  /\ panel' = [panel EXCEPT ![t] = opened + 1]
  /\ inbox' = Append(inbox, Connect(opened + 1))
  /\ UNCHANGED <<recording, listeners, onDisconnect, planner>>

Tick(t) ==
  /\ panel[t] # NoPanel /\ t \notin recording
  /\ recording' = recording \cup {t}
  /\ inbox' = Append(inbox, Message(t, "enable"))
  /\ UNCHANGED <<panel, opened, listeners, onDisconnect, planner>>

(* disableSwitchPlanner sends the message and reloads the panel, which     *)
(* breaks its connection and makes a new one.                              *)
Untick(t) ==
  /\ t \in recording /\ opened < MaxPanels
  /\ recording' = recording \ {t}
  /\ opened' = opened + 1
  /\ panel' = [panel EXCEPT ![t] = opened + 1]
  /\ inbox' = inbox \o <<Message(t, "disable"), Gone(panel[t]), Connect(opened + 1)>>
  /\ UNCHANGED <<listeners, onDisconnect, planner>>

ClosePanel(t) ==
  /\ panel[t] # NoPanel
  /\ panel' = [panel EXCEPT ![t] = NoPanel]
  /\ recording' = recording \ {t}
  /\ inbox' = Append(inbox, Gone(panel[t]))
  /\ UNCHANGED <<opened, listeners, onDisconnect, planner>>

-----------------------------------------------------------------------------
(* The background page.                                                    *)

Receive(what) ==
  /\ inbox # <<>> /\ Head(inbox).what = what
  /\ inbox' = Tail(inbox)
  /\ UNCHANGED pages

Enable(tabs) ==
  /\ enabledFor' = enabledFor \cup tabs
  /\ UNCHANGED info

(* Fault: what was recorded is not cleared.                                *)
DisableKeepingInfo(tabs) ==
  /\ enabledFor' = enabledFor \ tabs
  /\ UNCHANGED info

Disable(tabs) ==
  /\ enabledFor' = enabledFor \ tabs
  /\ info' = {i \in info : i.tab \notin tabs}

OnConnect ==
  /\ Receive("connect")
  /\ listeners' = listeners \cup {Head(inbox).port}
  /\ UNCHANGED <<onDisconnect, planner>>

(* Each listener enables the tab and hangs "disable this tab" on its OWN   *)
(* connection, whichever tab that connection belongs to.                   *)
OnEnable ==
  /\ Receive("enable")
  /\ listeners # {}
  /\ Enable({Head(inbox).tab})
  /\ onDisconnect' = [p \in DOMAIN onDisconnect |->
       IF p \in listeners THEN onDisconnect[p] \cup {Head(inbox).tab} ELSE onDisconnect[p]]
  /\ UNCHANGED listeners

OnDisable ==
  /\ Receive("disable")
  /\ Disable({Head(inbox).tab})
  /\ UNCHANGED <<listeners, onDisconnect>>

(* Fault: nothing is hung on the connection.                               *)
OnGoneUnheard ==
  /\ Receive("disconnect")
  /\ UNCHANGED <<planner, onDisconnect, listeners>>

(* disableOnCloseCallback, once per callback.  The connection's message    *)
(* listener stays, but its disconnection has had its only effect.          *)
OnGone ==
  /\ Receive("disconnect")
  /\ Disable(onDisconnect[Head(inbox).port])
  /\ onDisconnect' = [onDisconnect EXCEPT ![Head(inbox).port] = {}]
  /\ UNCHANGED listeners

(* writeToSwitchPlanner, called by onBeforeRequest for a resource that is  *)
(* not https; rewritten tells the "rw" from the "nrw" records.             *)
Record(t, resource, rewritten) ==
  /\ info' = IF t \in enabledFor
             THEN info \cup {[tab |-> t, rw |-> rewritten, resource |-> resource]} ELSE info
  /\ UNCHANGED enabledFor

Load(t) ==
  /\ \E resource \in Resource, rewritten \in BOOLEAN : Record(t, resource, rewritten)
  /\ UNCHANGED <<pages, inbox, listeners, onDisconnect>>

Background == OnConnect \/ OnEnable \/ OnDisable \/ OnGone

Next ==
  \/ \E t \in Tab : OpenPanel(t) \/ Tick(t) \/ Untick(t) \/ ClosePanel(t) \/ Load(t)
  \/ Background

(* The browser delivers messages and disconnections.                       *)
Fairness == []<>(inbox = <<>>) \/ []<><<Background>>_vars
Spec == Init /\ [][Next]_vars /\ Fairness

-----------------------------------------------------------------------------
(* Properties.                                                             *)

TypeOK ==
  /\ panel \in [Tab -> 1 .. MaxPanels \cup {NoPanel}] /\ recording \subseteq Tab
  /\ listeners \subseteq 1 .. MaxPanels
  /\ onDisconnect \in [1 .. MaxPanels -> SUBSET Tab]
  /\ enabledFor \subseteq Tab
  /\ info \subseteq [tab : Tab, rw : BOOLEAN, resource : Resource]

(* Nothing is recorded for a tab whose developer tools are closed or have  *)
(* the box unticked, once the background page has heard of it, and what    *)
(* was recorded is forgotten: no connection left behind keeps a tab on     *)
(* (background.js 531-535 and 551-554).                                    *)
ForgottenWhenClosed ==
  inbox = <<>> => enabledFor \subseteq recording /\ {i.tab : i \in info} \subseteq recording

(* Even if panels come and go forever, a tab that is never ticked again    *)
(* does not stay recorded.                                                 *)
EventuallyForgotten ==
  \A t \in Tab : (t \notin recording) ~> (t \notin enabledFor \/ t \in recording)

(* background.js:552, "Devtools window for tab <tabId> closed, clearing    *)
(* data.": only closing the tools of that tab clears its data.             *)
RecordsWhileTicked == inbox = <<>> => recording \subseteq enabledFor
=============================================================================
