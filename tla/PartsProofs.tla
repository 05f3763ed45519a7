---------------------------- MODULE PartsProofs ----------------------------
(***************************************************************************)
(* Proofs about the parts that MCParts runs side by side, for every value  *)
(* of their constants, and about FirefoxRules.                             *)
(*                                                                         *)
(* A behaviour of MCParts stays in the part it begins in, so that what a   *)
(* part's own steps keep, its behaviours keep.                             *)
(*                                                                         *)
(* FirefoxRules, for all files, rows and targets: reading rulesets late    *)
(* shows in no answer, and in nothing that is on, rows that share a name   *)
(* left aside.  The invariant says how far loading can be: the user's own  *)
(* rulesets are always loaded, nothing is that would not be if everything  *)
(* was, and the page's list holds objects of such rulesets only.  What is  *)
(* not loaded and has a name of its own therefore shares it with nothing   *)
(* that is (NamesApart), so that no choice about a loaded ruleset can      *)
(* change what another will be once loaded.                                *)
(***************************************************************************)
EXTENDS MCParts, FirefoxRules, HostTargetsProofs, TLAPS

-----------------------------------------------------------------------------
(* The rewriter.                                                           *)

Whole == {"original", "rewritten"}

(* What is known of a file by how far its edit has come.  A file is a      *)
(* whole text from when it is read until it is its own backup; from then   *)
(* on the backup is whole, and the text that will take the name too.       *)
Safe(name, new, bak, waiting, call, count) ==
  /\ waiting => name # "absent" /\ call = "none"
  /\ call \in {"write", "back up"} => name \in Whole
  /\ call \in {"back up", "replace"} => new = "rewritten"
  /\ call = "replace" => name = "absent" /\ bak \in Whole
  /\ count = 0 => name = "original"
  /\ name \in Whole \cup {"absent"}
  /\ name \in Whole \/ bak \in Whole
  /\ count <= 1 => "original" \in {name, bak}

CallOn(f) == IF at.file = f THEN at.call ELSE "none"
FileInv(f) ==
  Safe(disk[f].name, disk[f].new, disk[f].bak, f \in queue, CallOn(f), backups[f])

Texts == [name : Rewriting!Text, new : Rewriting!Text, bak : Rewriting!Text]

RewriterInv ==
  /\ disk \in [File -> Texts]
  /\ queue \subseteq File
  /\ backups \in [File -> Nat]
  /\ \A f \in File : FileInv(f)

(* Nothing is edited and nothing backed up when the first run starts.      *)
LEMMA RewriterInit == Rewriting!Init => RewriterInv
<1> SUFFICES ASSUME Rewriting!Init PROVE RewriterInv
  OBVIOUS
<1>1. disk \in [File -> Texts] /\ backups \in [File -> Nat]
  BY DEF Rewriting!Init, Texts, Rewriting!Text
<1>2. ASSUME NEW f \in File PROVE FileInv(f)
  <2>1. disk[f] = [name |-> "original", new |-> "absent", bak |-> "absent"]
        /\ CallOn(f) = "none" /\ backups[f] = 0 /\ f \notin queue
    BY DEF Rewriting!Init, CallOn, Rewriting!Idle
  <2> QED BY <2>1 DEF FileInv, Safe, Whole
<1> QED BY <1>1, <1>2 DEF Rewriting!Init, RewriterInv

(* A file's record with its new text replaced.                             *)
LEMMA WithNewText ==
  ASSUME NEW d \in Texts, NEW t
  PROVE  [d EXCEPT !.new = t] = [name |-> d.name, new |-> t, bak |-> d.bak]
BY DEF Texts

(* The file and the call being edited, as CallOn sees them.                *)
LEMMA Calls ==
  /\ at = Rewriting!Idle => \A f : CallOn(f) = "none"
  /\ at' = Rewriting!Idle => \A f : CallOn(f)' = "none"
  /\ \A f, call : at = [file |-> f, call |-> call] => CallOn(f) = call
  /\ \A f, call : at' = [file |-> f, call |-> call] =>
       CallOn(f)' = call /\ \A g : g # f => CallOn(g)' = "none"
BY DEF CallOn, Rewriting!Idle

(* A step that edits one file leaves the others as they were.              *)
LEMMA OthersKept ==
  ASSUME RewriterInv, NEW f \in File,
         NEW name \in Rewriting!Text, NEW new \in Rewriting!Text, NEW bak \in Rewriting!Text,
         disk' = [disk EXCEPT ![f] = [name |-> name, new |-> new, bak |-> bak]],
         queue' \subseteq queue,
         backups' \in [File -> Nat], \A g \in File \ {f} : backups'[g] = backups[g],
         \A g \in File \ {f} : CallOn(g)' \in {CallOn(g), "none"},
         Safe(name, new, bak, f \in queue', CallOn(f)', backups'[f])
  PROVE  RewriterInv'
<1> DEFINE d == [name |-> name, new |-> new, bak |-> bak]
<1>1. d \in Texts /\ d.name = name /\ d.new = new /\ d.bak = bak
  BY DEF Texts
<1> HIDE DEF d
<1>2. disk' \in [File -> Texts] /\ disk'[f] = d /\ \A g \in File \ {f} : disk'[g] = disk[g]
  BY <1>1 DEF RewriterInv, d
<1>3. FileInv(f)'
  BY <1>1, <1>2 DEF FileInv
<1>4. ASSUME NEW g \in File \ {f} PROVE FileInv(g)'
  BY <1>2 DEF RewriterInv, FileInv, Safe
<1> QED BY <1>2, <1>3, <1>4 DEF RewriterInv

(* Each step touches the file it is about, and leaves the rest idle.       *)
LEMMA RewriterStep == RewriterInv /\ Rewriting!Next => RewriterInv'
<1> SUFFICES ASSUME RewriterInv, Rewriting!Next PROVE RewriterInv'
  OBVIOUS
<1>1. CASE Rewriting!processDir
  BY <1>1 DEF Rewriting!processDir, FileInv, Safe, CallOn, Rewriting!Idle, RewriterInv
<1>2. CASE Rewriting!CallFails
  BY <1>2 DEF Rewriting!CallFails, FileInv, Safe, CallOn, Rewriting!Idle, RewriterInv
<1>3. CASE Rewriting!Killed
  BY <1>3 DEF Rewriting!Killed, FileInv, Safe, CallOn, Rewriting!Idle, RewriterInv
<1> SUFFICES ASSUME NEW f \in File,
                    \/ Rewriting!BeginFile(f) \/ Rewriting!FinishWrite(f)
                    \/ Rewriting!BackUp(f) \/ Rewriting!Replace(f) \/ Rewriting!Restore(f)
             PROVE  RewriterInv'
  BY <1>1, <1>2, <1>3 DEF Rewriting!Next
<1> DEFINE name == disk[f].name
           new  == disk[f].new
           bak  == disk[f].bak
<1>t. disk[f] \in Texts /\ name \in Rewriting!Text /\ new \in Rewriting!Text
      /\ bak \in Rewriting!Text
  BY DEF RewriterInv, Texts
<1>p. "part" \in Rewriting!Text /\ "absent" \in Rewriting!Text
      /\ Rewriting!Rewritten(name) \in Rewriting!Text
  BY <1>t DEF Rewriting!Text, Rewriting!Rewritten
<1>b. backups \in [File -> Nat] /\ backups[f] \in Nat
  BY DEF RewriterInv
<1>s. Safe(name, new, bak, f \in queue, CallOn(f), backups[f])
  BY DEF RewriterInv, FileInv
<1>w. \A t : [disk EXCEPT ![f].new = t]
              = [disk EXCEPT ![f] = [name |-> name, new |-> t, bak |-> bak]]
  BY <1>t, WithNewText
<1>4. CASE Rewriting!BeginFile(f)
  <2>1. disk' = [disk EXCEPT ![f] = [name |-> name, new |-> "part", bak |-> bak]]
    BY <1>4, <1>w DEF Rewriting!BeginFile
  <2>2. /\ CallOn(f)' = "write" /\ \A g \in File \ {f} : CallOn(g)' = "none"
        /\ f \in queue /\ queue' = queue \ {f} /\ backups' = backups
    BY <1>4, Calls DEF Rewriting!BeginFile, Rewriting!Goto
  <2> HIDE DEF name, new, bak
  <2>3. Safe(name, "part", bak, f \in queue', CallOn(f)', backups'[f])
    BY <1>s, <2>2 DEF Safe
  <2> QED BY <1>t, <1>p, <1>b, <2>1, <2>2, <2>3, OthersKept
<1>5. CASE Rewriting!FinishWrite(f)
  <2>1. disk' = [disk EXCEPT ![f] =
                   [name |-> name, new |-> Rewriting!Rewritten(name), bak |-> bak]]
    BY <1>5, <1>w DEF Rewriting!FinishWrite
  <2>2. /\ CallOn(f) = "write"
        /\ CallOn(f)' = "back up" /\ \A g \in File \ {f} : CallOn(g)' = "none"
        /\ queue' = queue /\ backups' = backups
    BY <1>5, Calls DEF Rewriting!FinishWrite, Rewriting!Goto
  <2> HIDE DEF name, new, bak
  <2>3. Safe(name, Rewriting!Rewritten(name), bak, f \in queue', CallOn(f)', backups'[f])
    BY <1>s, <2>2 DEF Safe, Whole, Rewriting!Rewritten
  <2> QED BY <1>t, <1>p, <1>b, <2>1, <2>2, <2>3, OthersKept
<1>6. CASE Rewriting!BackUp(f)
  <2>1. disk' = [disk EXCEPT ![f] = [name |-> "absent", new |-> new, bak |-> name]]
    BY <1>6 DEF Rewriting!BackUp
  <2>2. /\ CallOn(f) = "back up"
        /\ CallOn(f)' = "replace" /\ \A g \in File \ {f} : CallOn(g)' = "none"
        /\ queue' = queue
    BY <1>6, Calls DEF Rewriting!BackUp, Rewriting!Goto
  <2>b. backups' = [backups EXCEPT ![f] = backups[f] + 1]
    BY <1>6 DEF Rewriting!BackUp
  <2>c. /\ backups' \in [File -> Nat] /\ backups'[f] = backups[f] + 1
        /\ \A g \in File \ {f} : backups'[g] = backups[g]
    BY <1>b, <2>b
  <2> HIDE DEF name, new, bak
  <2>3. Safe("absent", new, name, f \in queue', CallOn(f)', backups'[f])
    <3>1. /\ name \in Whole /\ new = "rewritten" /\ f \notin queue'
          /\ backups[f] = 0 => name = "original"
      BY <1>s, <2>2 DEF Safe
    <3>2. backups'[f] # 0 /\ (backups'[f] <= 1 => backups[f] = 0)
      BY <1>b, <2>c
    <3> QED BY <2>2, <3>1, <3>2 DEF Safe
  <2> QED BY <1>t, <1>p, <2>1, <2>2, <2>c, <2>3, OthersKept
<1>7. CASE Rewriting!Replace(f)
  <2>1. disk' = [disk EXCEPT ![f] = [name |-> new, new |-> "absent", bak |-> bak]]
    BY <1>7 DEF Rewriting!Replace
  <2>2. /\ CallOn(f) = "replace" /\ \A g \in File : CallOn(g)' = "none"
        /\ queue' = queue /\ backups' = backups
    BY <1>7, Calls DEF Rewriting!Replace
  <2> HIDE DEF name, new, bak
  <2>3. Safe(new, "absent", bak, f \in queue', CallOn(f)', backups'[f])
    BY <1>b, <1>s, <2>2 DEF Safe, Whole
  <2> QED BY <1>t, <1>p, <1>b, <2>1, <2>2, <2>3, OthersKept
<1>8. CASE Rewriting!Restore(f)
  <2>1. disk' = [disk EXCEPT ![f] = [name |-> bak, new |-> new, bak |-> "absent"]]
    BY <1>8 DEF Rewriting!Restore
  <2>2. /\ name = "absent" /\ CallOn(f)' = "none" /\ \A g \in File : CallOn(g)' = CallOn(g)
        /\ queue' = queue /\ backups' = backups
    BY <1>8 DEF Rewriting!Restore, CallOn
  <2> HIDE DEF name, new, bak
  <2>3. Safe(bak, new, "absent", f \in queue', CallOn(f)', backups'[f])
    BY <1>b, <1>s, <2>2 DEF Safe, Whole
  <2> QED BY <1>t, <1>p, <1>b, <2>1, <2>2, <2>3, OthersKept
<1> QED BY <1>4, <1>5, <1>6, <1>7, <1>8

LEMMA RewriterKeeps == RewriterInv => Rewriting!OriginalKept
BY DEF RewriterInv, FileInv, Safe, Whole, Rewriting!OriginalKept

(* rewriter.js 94-96: wherever runs are killed or a call fails, for every  *)
(* set of files: a file or its backup is whole, and the original is there  *)
(* until the second backup.                                                *)
THEOREM RewriterOriginalKept == PartsSpec => []OriginalKept
<1> DEFINE Inv == part = "rewriter" => RewriterInv
<1>1. PartsInit => Inv
  BY RewriterInit DEF PartsInit
<1>2. Inv /\ [PartsNext]_partsVars => Inv'
  <2> SUFFICES ASSUME part' = "rewriter", Inv, [PartsNext]_partsVars PROVE RewriterInv'
    OBVIOUS
  <2>1. CASE part = "rewriter" /\ Rewriting!Next
    BY <2>1, RewriterStep
  <2>2. CASE UNCHANGED partsVars
    BY <2>2 DEF partsVars, rewriterVars, RewriterInv, FileInv, Safe, CallOn
  <2> QED BY <2>1, <2>2 DEF PartsNext
<1>3. Inv => OriginalKept
  BY RewriterKeeps DEF OriginalKept
<1> QED BY <1>1, <1>2, <1>3, PTL DEF PartsSpec

-----------------------------------------------------------------------------
(* The Firefox switch.                                                     *)

NetworkTopics ==
  {"cookie-changed", "http-on-modify-request", "http-on-examine-merged-response",
   "http-on-examine-response"}
ProfileTopics == {"profile-before-change", "profile-after-change"}
Restored == "sessionstore-windows-restored"

One(b) == IF b THEN 1 ELSE 0

(* How often each topic is registered is a function of the preference, of  *)
(* how the session started and of how far it has come.  What the mobile    *)
(* constructor registers with the extension off stays, whatever is         *)
(* switched later.                                                         *)
Observing(on, t) ==
  CASE t \in NetworkTopics -> One(on /\ phase # "started")
    [] t \in ProfileTopics -> One(on)
    [] t = Restored -> One(on) + One(isMobile /\ ~startedOn)
    [] OTHER -> One(startedOn)

ObserversInv(on) == \A t \in Switch!Topic : observers[t] = Observing(on, t)

(* The user's choice is in the setting, or in the preference that keeps it *)
(* while HTTP Nowhere is on.                                               *)
OcspKept(p) == p.chosen = IF p.nowhere THEN p.origOcsp ELSE p.ocsp

Prefs == [Switch!Pref -> BOOLEAN]

SwitchInv ==
  /\ isMobile \in BOOLEAN /\ prefs \in Prefs /\ saved \in Prefs
  /\ startedOn \in BOOLEAN /\ sink \in BOOLEAN
  /\ ObserversInv(prefs.globalEnabled)
  /\ phase = "started" => startedOn = prefs.globalEnabled
  /\ sink = IF phase = "started" THEN FALSE ELSE prefs.globalEnabled
  /\ startedOn => loadedRulesets \subseteq asked
  /\ OcspKept(prefs) /\ OcspKept(saved)

(* The topics, and the lists that are registered and removed together.     *)
LEMMA Topics ==
  /\ Switch!Topic = NetworkTopics \cup ProfileTopics \cup {Restored, Switch!Purge}
  /\ Switch!ToSet(Switch!Network) = NetworkTopics
  /\ \A t : Switch!Contains(Switch!Network, t) <=> t \in NetworkTopics
  /\ \A t : Switch!Contains(Switch!Lifecycle \o Switch!Network, t)
            <=> t \in NetworkTopics \cup ProfileTopics \cup {Restored}
  /\ \A t : Switch!Contains(Switch!Lifecycle \o <<Switch!Purge>>, t)
            <=> t \in ProfileTopics \cup {Restored, Switch!Purge}
  /\ \A t : Switch!Contains(<<Restored>>, t) <=> t = Restored
  /\ \A t : ~Switch!Contains(<<>>, t)
<1> USE DEF Switch!Network, Switch!Lifecycle, NetworkTopics, ProfileTopics, Restored
<1>1. Switch!Topic = NetworkTopics \cup ProfileTopics \cup {Restored, Switch!Purge}
  BY DEF Switch!Topic, Switch!ToSet
<1>2. Switch!ToSet(Switch!Network) = NetworkTopics
  BY DEF Switch!ToSet
<1> USE DEF Switch!Contains
<1>3. \A t : Switch!Contains(Switch!Network, t) <=> t \in NetworkTopics
  OBVIOUS
<1>4. \A t : Switch!Contains(Switch!Lifecycle \o Switch!Network, t)
             <=> t \in NetworkTopics \cup ProfileTopics \cup {Restored}
  OBVIOUS
<1>5. \A t : Switch!Contains(Switch!Lifecycle \o <<Switch!Purge>>, t)
             <=> t \in ProfileTopics \cup {Restored, Switch!Purge}
  OBVIOUS
<1>6. /\ \A t : Switch!Contains(<<Restored>>, t) <=> t = Restored
      /\ \A t : ~Switch!Contains(<<>>, t)
  OBVIOUS
<1> QED BY <1>1, <1>2, <1>3, <1>4, <1>5, <1>6

(* What the constructor registers is what the invariant says of a session  *)
(* that has just started.                                                  *)
LEMMA ConstructedRegistered ==
  ASSUME isMobile \in BOOLEAN, NEW on \in BOOLEAN
  PROVE  Switch!Constructed(on) =
           [t \in Switch!Topic |->
             CASE t \in NetworkTopics -> 0
               [] t \in ProfileTopics -> One(on)
               [] t = Restored -> One(on) + One(isMobile /\ ~on)
               [] OTHER -> One(on)]
<1>1. CASE on
  <2>1. Switch!ConstructorTopics(on) = Switch!Lifecycle \o <<Switch!Purge>>
    BY <1>1 DEF Switch!ConstructorTopics
  <2>2. One(on) = 1 /\ One(isMobile /\ ~on) = 0
    BY <1>1 DEF One
  <2>3. \A t \in Switch!Topic : t \notin NetworkTopics
          <=> t \in ProfileTopics \cup {Restored, Switch!Purge}
    BY Topics DEF NetworkTopics, ProfileTopics, Restored, Switch!Purge
  <2> QED BY <2>1, <2>2, <2>3, Topics DEF Switch!Constructed
<1>2. CASE ~on /\ isMobile
  <2>1. Switch!ConstructorTopics(on) = <<Restored>>
    BY <1>2 DEF Switch!ConstructorTopics, Restored
  <2> QED BY <1>2, <2>1, Topics DEF Switch!Constructed, One, NetworkTopics, ProfileTopics,
                                    Restored, Switch!Purge
<1>3. CASE ~on /\ ~isMobile
  <2>1. Switch!ConstructorTopics(on) = <<>>
    BY <1>3 DEF Switch!ConstructorTopics
  <2> QED BY <1>3, <2>1, Topics DEF Switch!Constructed, One
<1> QED BY <1>1, <1>2, <1>3

LEMMA SwitchInit == Switch!Init => SwitchInv
<1> SUFFICES ASSUME Switch!Init PROVE SwitchInv
  OBVIOUS
<1>1. prefs \in Prefs /\ prefs.globalEnabled \in BOOLEAN
  BY DEF Switch!Init, Prefs, Switch!Pref
<1>2. ObserversInv(prefs.globalEnabled)
  BY <1>1, ConstructedRegistered DEF Switch!Init, ObserversInv, Observing, One
<1> QED BY <1>1, <1>2 DEF Switch!Init, SwitchInv, OcspKept

(* Registering or removing the network hooks and the lifecycle ones.       *)
LEMMA HooksToggled ==
  ASSUME SwitchInv, phase # "started", phase' = phase, isMobile' = isMobile,
         startedOn' = startedOn
  PROVE  /\ prefs.globalEnabled
            /\ observers' = Switch!Without(Switch!Lifecycle \o Switch!Network)
              => ObserversInv(FALSE)'
         /\ ~prefs.globalEnabled
            /\ observers' = Switch!With(Switch!Lifecycle \o Switch!Network)
              => ObserversInv(TRUE)'
BY Topics DEF SwitchInv, ObserversInv, Observing, One, Switch!Without, Switch!With,
              NetworkTopics, ProfileTopics, Restored, Switch!Purge

(* No removal throws: whatever is to be removed is registered.             *)
LEMMA RemovalsFind ==
  ASSUME SwitchInv, phase # "started", prefs.globalEnabled
  PROVE  Switch!SelectInSeq(Switch!ToggledOff, LAMBDA t : observers[t] = 0) = 0
<1>1. ASSUME NEW i \in 1 .. Len(Switch!ToggledOff) PROVE observers[Switch!ToggledOff[i]] # 0
  <2>1. Switch!Contains(Switch!ToggledOff, Switch!ToggledOff[i])
    BY DEF Switch!Contains
  <2>2. Switch!ToggledOff[i] \in NetworkTopics \cup ProfileTopics \cup {Restored}
    BY <2>1, Topics DEF Switch!ToggledOff
  <2> HIDE DEF Switch!ToggledOff
  <2> QED BY <2>2, Topics DEF SwitchInv, ObserversInv, Observing, One
<1> QED BY <1>1 DEF Switch!SelectInSeq

(* The preferences a step writes.                                          *)
LEMMA PrefsWritten ==
  ASSUME NEW p \in Prefs, OcspKept(p)
  PROVE  /\ \A on \in BOOLEAN :
              LET q == [p EXCEPT !["globalEnabled"] = on]
              IN q \in Prefs /\ OcspKept(q) /\ q.globalEnabled = on
         /\ ~p.nowhere =>
              LET q == [p EXCEPT !.origOcsp = p.ocsp, !.ocsp = FALSE, !.nowhere = TRUE]
              IN q \in Prefs /\ OcspKept(q) /\ q.globalEnabled = p.globalEnabled
         /\ p.nowhere =>
              LET q == [p EXCEPT !.ocsp = p.origOcsp, !.nowhere = FALSE]
              IN q \in Prefs /\ OcspKept(q) /\ q.globalEnabled = p.globalEnabled
         /\ LET q == [p EXCEPT !.ocsp = ~@, !.chosen = IF p.nowhere THEN @ ELSE ~p.ocsp]
            IN q \in Prefs /\ OcspKept(q) /\ q.globalEnabled = p.globalEnabled
BY DEF Prefs, OcspKept, Switch!Pref

(* A step that leaves the session as it is, or only the preferences that   *)
(* do not switch the extension.                                            *)
LEMMA SameSession ==
  ASSUME SwitchInv, prefs' \in Prefs, saved' \in Prefs, OcspKept(prefs'), OcspKept(saved'),
         prefs'.globalEnabled = prefs.globalEnabled,
         UNCHANGED <<isMobile, phase, observers, sink, startedOn>>,
         startedOn => loadedRulesets' \subseteq asked'
  PROVE  SwitchInv'
<1>1. \A t : Observing(prefs.globalEnabled, t)' = Observing(prefs.globalEnabled, t)
  BY DEF Observing
<1>2. ObserversInv(prefs.globalEnabled)'
  BY <1>1 DEF SwitchInv, ObserversInv
<1> QED BY <1>2 DEF SwitchInv

LEMMA SwitchStep == SwitchInv /\ Switch!Next => SwitchInv'
<1> SUFFICES ASSUME SwitchInv, Switch!Next PROVE SwitchInv'
  OBVIOUS
<1>0. prefs \in Prefs /\ saved \in Prefs /\ OcspKept(prefs) /\ OcspKept(saved)
      /\ prefs.globalEnabled \in BOOLEAN /\ saved.globalEnabled \in BOOLEAN
  BY DEF SwitchInv, Prefs, Switch!Pref
<1>1. CASE Switch!ProfileAfterChange
  <2> USE <1>1 DEF Switch!ProfileAfterChange, Switch!InitRules
  <2>1. ObserversInv(prefs.globalEnabled)'
    <3> SUFFICES ASSUME NEW t \in Switch!Topic
                 PROVE  observers'[t] = Observing(prefs.globalEnabled, t)'
      BY DEF ObserversInv
    <3>1. observers[t] = Observing(prefs.globalEnabled, t)
      BY DEF SwitchInv, ObserversInv
    <3>2. CASE prefs.globalEnabled
      <4>1. observers'[t] = observers[t] + IF t \in NetworkTopics THEN 1 ELSE 0
        BY <3>2, Topics DEF Switch!With
      <4> QED BY <3>1, <3>2, <4>1 DEF Observing, One, NetworkTopics, ProfileTopics, Restored
    <3>3. CASE ~prefs.globalEnabled
      BY <3>1, <3>3 DEF Observing, One
    <3> QED BY <3>2, <3>3
  <2> QED BY <2>1 DEF SwitchInv
<1>2. CASE Switch!SessionRestored
  BY <1>2 DEF Switch!SessionRestored, SwitchInv, ObserversInv, Observing, One
<1>3. ASSUME NEW s \in Site, Switch!Visit(s) \/ Switch!CookieChanged(s) \/ Switch!ShowList(s)
      PROVE  SwitchInv'
  <2>1. Switch!LookUp(s)
    BY <1>3 DEF Switch!Visit, Switch!CookieChanged, Switch!ShowList
  <2> QED BY <1>0, <2>1, SameSession DEF Switch!LookUp, SwitchInv
<1>4. CASE Switch!ClearHistory
  <2>1. startedOn => observers[Switch!Purge] > 0
    BY Topics DEF SwitchInv, ObserversInv, Observing, One, NetworkTopics, ProfileTopics,
                  Restored, Switch!Purge
  <2> QED BY <1>0, <1>4, <2>1, SameSession DEF Switch!ClearHistory, Switch!InitRules
<1>5. CASE Switch!MixedContentChanged
  BY <1>0, <1>5, SameSession DEF Switch!MixedContentChanged, Switch!InitRules
<1>6. CASE Switch!ToggleEnabledState
  <2> USE <1>6 DEF Switch!ToggleEnabledState
  <2>1. phase # "started"
    OBVIOUS
  <2>2. CASE Switch!SwitchOff
    <3>1. prefs.globalEnabled /\ observers' = Switch!Without(Switch!ToggledOff)
          /\ sink' = FALSE /\ Switch!SetPref("globalEnabled", FALSE) /\ loadedRulesets' = loadedRulesets
      BY <2>1, <2>2, RemovalsFind DEF Switch!SwitchOff
    <3>2. ObserversInv(FALSE)'
      BY <2>1, <3>1, HooksToggled DEF Switch!ToggledOff
    <3>3. prefs' \in Prefs /\ OcspKept(prefs') /\ prefs'.globalEnabled = FALSE
      BY <1>0, <3>1, PrefsWritten DEF Switch!SetPref
    <3> QED BY <2>1, <3>1, <3>2, <3>3 DEF SwitchInv
  <2>3. CASE Switch!SwitchOn
    <3>1. ObserversInv(TRUE)'
      BY <2>1, <2>3, HooksToggled DEF Switch!SwitchOn
    <3>2. prefs' \in Prefs /\ OcspKept(prefs') /\ prefs'.globalEnabled = TRUE
      BY <1>0, <2>3, PrefsWritten DEF Switch!SwitchOn, Switch!SetPref
    <3> QED BY <2>1, <2>3, <3>1, <3>2 DEF Switch!SwitchOn, Switch!InitRules, SwitchInv
  <2> QED BY <2>2, <2>3
<1>7. CASE Switch!ToggleHttpNowhere
  <2>1. prefs' \in Prefs /\ OcspKept(prefs') /\ prefs'.globalEnabled = prefs.globalEnabled
    <3>1. CASE prefs.nowhere
      <4>1. prefs' = [prefs EXCEPT !.ocsp = prefs.origOcsp, !.nowhere = FALSE]
        BY <1>7, <3>1 DEF Switch!ToggleHttpNowhere, Switch!NowhereOff
      <4> QED BY <1>0, <3>1, <4>1, PrefsWritten
    <3>2. CASE ~prefs.nowhere
      <4>1. prefs' = [prefs EXCEPT !.origOcsp = prefs.ocsp, !.ocsp = FALSE, !.nowhere = TRUE]
        BY <1>7, <3>2 DEF Switch!ToggleHttpNowhere, Switch!NowhereOn
      <4> QED BY <1>0, <3>2, <4>1, PrefsWritten
    <3> QED BY <3>1, <3>2
  <2>2. UNCHANGED <<isMobile, saved, asked, Switch!session>>
    BY <1>7 DEF Switch!ToggleHttpNowhere, Switch!Unswitched
  <2> QED BY <1>0, <2>1, <2>2, SameSession DEF Switch!session, SwitchInv
<1>8. CASE Switch!EditOcsp
  <2>1. prefs' \in Prefs /\ OcspKept(prefs') /\ prefs'.globalEnabled = prefs.globalEnabled
    BY <1>0, <1>8, PrefsWritten DEF Switch!EditOcsp
  <2>2. UNCHANGED <<isMobile, saved, asked, Switch!session>>
    BY <1>8 DEF Switch!EditOcsp, Switch!Unswitched
  <2> QED BY <1>0, <2>1, <2>2, SameSession DEF Switch!session, SwitchInv
<1>9. CASE Switch!SavePrefs
  BY <1>0, <1>9, SameSession DEF Switch!SavePrefs, Switch!session, SwitchInv
<1>10. CASE Switch!Restart
  <2> USE <1>10 DEF Switch!Restart
  <2>1. ObserversInv(prefs.globalEnabled)'
    BY <1>0, ConstructedRegistered DEF SwitchInv, ObserversInv, Observing, One
  <2> QED BY <1>0, <2>1 DEF SwitchInv
<1> QED BY <1>1, <1>2, <1>3, <1>4, <1>5, <1>6, <1>7, <1>8, <1>9, <1>10 DEF Switch!Next

(* Part "switch" keeps its invariant.                                      *)
LEMMA SwitchInvariant == PartsSpec => [](part = "switch" => SwitchInv)
<1> DEFINE Inv == part = "switch" => SwitchInv
<1>1. PartsInit => Inv
  BY SwitchInit DEF PartsInit
<1>2. Inv /\ [PartsNext]_partsVars => Inv'
  <2> SUFFICES ASSUME part' = "switch", Inv, [PartsNext]_partsVars PROVE SwitchInv'
    OBVIOUS
  <2>1. CASE part = "switch" /\ Switch!Next
    BY <2>1, SwitchStep
  <2>2. CASE UNCHANGED partsVars
    BY <2>2 DEF partsVars, switchVars, SwitchInv, ObserversInv, Observing
  <2> QED BY <2>1, <2>2 DEF PartsNext
<1> QED BY <1>1, <1>2, PTL DEF PartsSpec

(* https-everywhere.js 122-163, 531-546, 759-800: for every set of sites   *)
(* and every order of starts, switching and crashes, each hook is there    *)
(* once if the extension is on and not at all if it is off.                *)
THEOREM SwitchHooksMatch == PartsSpec => []HooksMatchSwitch
<1>1. (part = "switch" => SwitchInv) => HooksMatchSwitch
  <2> SUFFICES ASSUME SwitchInv, phase # "started", part = "switch"
               PROVE  Switch!HooksMatchSwitch
    BY DEF HooksMatchSwitch, Switch!HooksMatchSwitch
  <2>1. ASSUME NEW t \in NetworkTopics
        PROVE  observers[t] = IF prefs.globalEnabled THEN 1 ELSE 0
    <3>1. t \in Switch!Topic
      BY Topics
    <3>2. observers[t] = Observing(prefs.globalEnabled, t)
      BY <3>1 DEF SwitchInv, ObserversInv
    <3> QED BY <3>2 DEF Observing, One, NetworkTopics, ProfileTopics, Restored
  <2> QED BY <2>1, Topics DEF SwitchInv, Switch!HooksMatchSwitch
<1> QED BY <1>1, SwitchInvariant, PTL

(* https-everywhere.js 569-575: in a session that started with the         *)
(* extension on, however it is switched off and on, whatever ruleset is    *)
(* loaded was looked up after the history was last cleared.                *)
THEOREM SwitchNothingOutlivesClearing == PartsSpec => []NothingOutlivesClearing
<1>1. (part = "switch" => SwitchInv) => NothingOutlivesClearing
  BY DEF SwitchInv, NothingOutlivesClearing, Switch!NothingOutlivesClearing
<1> QED BY <1>1, SwitchInvariant, PTL

(* https-everywhere.js 815-834: the OCSP setting is the user's own again   *)
(* whenever HTTP Nowhere is off.                                           *)
THEOREM SwitchOcspGivenBack == PartsSpec => []OcspGivenBack
<1>1. (part = "switch" => SwitchInv) => OcspGivenBack
  BY DEF SwitchInv, OcspKept, OcspGivenBack, Switch!OcspGivenBack
<1> QED BY <1>1, SwitchInvariant, PTL

-----------------------------------------------------------------------------
(* The proxy test.                                                         *)

(* The result is there once the test has ended; until then whoever was     *)
(* registered waits.                                                       *)
ProxyInv ==
  /\ request \in {"sent", "over"}
  /\ request = "sent" => proxy_test_successful = "unknown"
  /\ request = "over" => proxy_test_successful # "unknown"
  /\ due # None => IF request = "sent" THEN proxy_test_callback = due
                   ELSE due \in called \/ dropped

LEMMA ProxyStep == ProxyInv /\ Proxy!Next => ProxyInv'
<1> SUFFICES ASSUME ProxyInv, Proxy!Next PROVE ProxyInv'
  OBVIOUS
<1>1. CASE Proxy!WindowsRestored
  <2> USE <1>1 DEF Proxy!WindowsRestored
  <2>1. CASE Proxy!Wanted = None
    BY <2>1 DEF ProxyInv
  <2>2. CASE Proxy!Wanted # None
    <3>1. Proxy!registerProxyTestNotification(due') /\ due' # None /\ UNCHANGED request
          /\ UNCHANGED proxy_test_successful
      BY <2>2
    <3> QED BY <3>1 DEF Proxy!registerProxyTestNotification, Proxy!Call, ProxyInv
  <2> QED BY <2>1, <2>2
<1>2. ASSUME NEW answer, Proxy!TestAnswered(answer) PROVE ProxyInv'
  <2>1. request = "sent" /\ request' = "over" /\ proxy_test_successful' # "unknown" /\ due' = due
    BY <1>2 DEF Proxy!TestAnswered
  <2>2. due # None => proxy_test_callback = due
    BY <2>1 DEF ProxyInv
  <2>3. due # None => due \in called' \/ dropped'
    BY <1>2, <2>2 DEF Proxy!TestAnswered, Proxy!Call
  <2> QED BY <2>1, <2>3 DEF ProxyInv
<1>3. CASE Proxy!AnswerPopup \/ Proxy!OpenPreferences \/ Proxy!ChangePreference
  <2>1. UNCHANGED Proxy!session
    BY <1>3 DEF Proxy!AnswerPopup, Proxy!OpenPreferences, Proxy!ChangePreference
  <2> QED BY <2>1 DEF Proxy!session, ProxyInv
<1>4. CASE Proxy!Restart
  BY <1>4 DEF Proxy!Restart, Proxy!Sent, Proxy!Threw, ProxyInv
<1> QED BY <1>1, <1>2, <1>3, <1>4 DEF Proxy!Next, Proxy!Answer

(* ssl-observatory.js 747-817: whether the test ends before or after the   *)
(* windows are restored, and however long it takes, a callback that wants  *)
(* its result is called by the time it has ended.                          *)
THEOREM ProxyCallbackComes == PartsSpec => []CallbackComes
<1> DEFINE Inv == part = "proxy" => ProxyInv
<1>1. PartsInit => Inv
  BY DEF PartsInit, Proxy!Init, Proxy!Sent, Proxy!Threw, ProxyInv
<1>2. Inv /\ [PartsNext]_partsVars => Inv'
  <2> SUFFICES ASSUME part' = "proxy", Inv, [PartsNext]_partsVars PROVE ProxyInv'
    OBVIOUS
  <2>1. CASE part = "proxy" /\ Proxy!Next
    BY <2>1, ProxyStep
  <2>2. CASE UNCHANGED partsVars
    BY <2>2 DEF partsVars, proxyVars, ProxyInv
  <2> QED BY <2>1, <2>2 DEF PartsNext
<1>3. Inv => CallbackComes
  BY DEF ProxyInv, CallbackComes, Proxy!CallbackComes
<1> QED BY <1>1, <1>2, <1>3, PTL DEF PartsSpec

-----------------------------------------------------------------------------
(* The switch planner.  m stands for what is under way to the background   *)
(* page, ls for the connections it listens to, od for the tabs hung on     *)
(* each connection.                                                        *)

Panels == 1 .. MaxPanels
Msg ==
  [what : {"connect", "disconnect"}, port : Panels]
    \cup [what : {"enable", "disable"}, tab : Tab]

PortAt(m, k, what, p) == k \in 1 .. Len(m) /\ m[k].what = what /\ m[k].port = p
TabAt(m, k, what, t) == k \in 1 .. Len(m) /\ m[k].what = what /\ m[k].tab = t

(* The k-th message will be heard on connection p.                         *)
HeardOn(m, ls, p, k) == p \in ls \/ \E i \in 1 .. k - 1 : PortAt(m, i, "connect", p)

(* When the j-th message comes, t will be hung on connection p.            *)
HungOn(m, ls, od, t, p, j) ==
  t \in od[p] \/ \E k \in 1 .. j - 1 : TabAt(m, k, "enable", t) /\ HeardOn(m, ls, p, k)

(* The j-th message ends t's recording and forgets what was recorded.      *)
Stops(m, ls, od, t, j) ==
  \/ TabAt(m, j, "disable", t)
  \/ \E p \in Panels : PortAt(m, j, "disconnect", p) /\ HungOn(m, ls, od, t, p, j)

StopsAfter(m, ls, od, t, i) == \E j \in i + 1 .. Len(m) : Stops(m, ls, od, t, j)

(* Whatever still records an unticked tab, or will, is going to be stopped. *)
WillForget(t) ==
  t \notin recording =>
    /\ t \in enabledFor \/ (\E i \in info : i.tab = t)
         => StopsAfter(messages, listeners, onDisconnect, t, 0)
    /\ \A i \in 1 .. Len(messages) : TabAt(messages, i, "enable", t)
         => StopsAfter(messages, listeners, onDisconnect, t, i)

(* A ticked tab's own connection will have the tab hung on it.             *)
WillHang(t) ==
  t \in recording =>
    /\ panel[t] # NoPanel
    /\ HungOn(messages, listeners, onDisconnect, t, panel[t], Len(messages) + 1)

(* An open panel's connection is not broken, and heard or about to be.     *)
Connected(t) ==
  panel[t] # NoPanel =>
    /\ panel[t] \in 1 .. opened
    /\ HeardOn(messages, listeners, panel[t], Len(messages) + 1)
    /\ \A k \in 1 .. Len(messages) : ~PortAt(messages, k, "disconnect", panel[t])

(* A connection breaks once.                                               *)
BrokenOnce ==
  \A p \in Panels : \A j, k \in 1 .. Len(messages) :
    PortAt(messages, j, "disconnect", p) /\ PortAt(messages, k, "disconnect", p) => j = k

PlannerInv ==
  /\ messages \in Seq(Msg) /\ opened \in 0 .. MaxPanels
  /\ panel \in [Tab -> Panels \cup {NoPanel}] /\ recording \subseteq Tab
  /\ onDisconnect \in [Panels -> SUBSET Tab] /\ enabledFor \subseteq Tab
  /\ \A i \in info : i.tab \in Tab
  /\ \A k \in 1 .. Len(messages) :
       messages[k].what \in {"connect", "disconnect"} => messages[k].port \in 1 .. opened
  /\ \A t, u \in Tab : panel[t] = panel[u] /\ panel[t] # NoPanel => t = u
  /\ \A t \in Tab : Connected(t) /\ WillHang(t) /\ WillForget(t)
  /\ BrokenOnce

LEMMA PlannerInit == Planner!Init => PlannerInv
BY PanelBound DEF Planner!Init, PlannerInv, Connected, WillHang, WillForget, BrokenOnce, Panels

(* What is sent later changes nothing for what was sent before.            *)
LEMMA SentLater ==
  ASSUME NEW t \in Tab, messages \in Seq(Msg), messages' \in Seq(Msg),
         Len(messages) <= Len(messages'),
         \A k \in 1 .. Len(messages) : messages'[k] = messages[k],
         UNCHANGED <<listeners, onDisconnect>>
  PROVE  /\ \A what, p : \A k \in 1 .. Len(messages) :
              PortAt(messages, k, what, p) <=> PortAt(messages', k, what, p)
         /\ \A what, u : \A k \in 1 .. Len(messages) :
              TabAt(messages, k, what, u) <=> TabAt(messages', k, what, u)
         /\ \A p : \A k \in Nat : k <= Len(messages) + 1 /\ HeardOn(messages, listeners, p, k)
              => HeardOn(messages', listeners', p, k)
         /\ \A p : \A j \in Nat :
              j <= Len(messages) + 1 /\ HungOn(messages, listeners, onDisconnect, t, p, j)
                => HungOn(messages', listeners', onDisconnect', t, p, j)
         /\ \A i \in Nat : StopsAfter(messages, listeners, onDisconnect, t, i)
              => StopsAfter(messages', listeners', onDisconnect', t, i)
<1>0. Len(messages) \in Nat /\ Len(messages') \in Nat
  OBVIOUS
<1>1. /\ \A what, p : \A k \in 1 .. Len(messages) :
           PortAt(messages, k, what, p) <=> PortAt(messages', k, what, p)
      /\ \A what, u : \A k \in 1 .. Len(messages) :
           TabAt(messages, k, what, u) <=> TabAt(messages', k, what, u)
  BY <1>0 DEF PortAt, TabAt
<1>2. \A p : \A k \in Nat : k <= Len(messages) + 1 /\ HeardOn(messages, listeners, p, k)
        => HeardOn(messages', listeners', p, k)
  BY <1>0, <1>1 DEF HeardOn
<1>3. \A p : \A j \in Nat :
        j <= Len(messages) + 1 /\ HungOn(messages, listeners, onDisconnect, t, p, j)
          => HungOn(messages', listeners', onDisconnect', t, p, j)
  BY <1>0, <1>1, <1>2 DEF HungOn
<1>4. \A i \in Nat : StopsAfter(messages, listeners, onDisconnect, t, i)
        => StopsAfter(messages', listeners', onDisconnect', t, i)
  BY <1>0, <1>1, <1>3 DEF StopsAfter, Stops
<1> QED BY <1>1, <1>2, <1>3, <1>4

(* When the first message has been heard the others are one place nearer.  *)
LEMMA HeadTaken ==
  ASSUME NEW t \in Tab, messages \in Seq(Msg), messages # <<>>, messages' = Tail(messages),
         listeners \subseteq listeners',
         \A p : PortAt(messages, 1, "connect", p) => p \in listeners',
         \A p \in Panels : ~PortAt(messages, 1, "disconnect", p) =>
           /\ t \in onDisconnect[p] => t \in onDisconnect'[p]
           /\ TabAt(messages, 1, "enable", t) /\ p \in listeners => t \in onDisconnect'[p],
         \A p \in Panels : \A j \in 2 .. Len(messages) :
           PortAt(messages, j, "disconnect", p) => ~PortAt(messages, 1, "disconnect", p)
  PROVE  /\ \A p : \A k \in Nat \ {0} :
              HeardOn(messages, listeners, p, k) => HeardOn(messages', listeners', p, k - 1)
         /\ \A p \in Panels : \A j \in Nat \ {0} :
              (~PortAt(messages, 1, "disconnect", p)
               /\ HungOn(messages, listeners, onDisconnect, t, p, j))
                => HungOn(messages', listeners', onDisconnect', t, p, j - 1)
         /\ \A j \in 2 .. Len(messages) :
              Stops(messages, listeners, onDisconnect, t, j)
                => Stops(messages', listeners', onDisconnect', t, j - 1)
<1>0. Len(messages) \in Nat \ {0} /\ messages' \in Seq(Msg) /\ Len(messages') = Len(messages) - 1
      /\ \A k \in 1 .. Len(messages') : messages'[k] = messages[k + 1]
  OBVIOUS
<1>1. /\ \A what, p : \A k \in 2 .. Len(messages) :
           PortAt(messages, k, what, p) => PortAt(messages', k - 1, what, p)
      /\ \A what, u : \A k \in 2 .. Len(messages) :
           TabAt(messages, k, what, u) => TabAt(messages', k - 1, what, u)
  BY <1>0 DEF PortAt, TabAt
<1>2. ASSUME NEW p, NEW k \in Nat \ {0}, HeardOn(messages, listeners, p, k)
      PROVE  HeardOn(messages', listeners', p, k - 1)
  <2>1. CASE p \in listeners
    BY <2>1 DEF HeardOn
  <2>2. CASE p \notin listeners
    <3> PICK i \in 1 .. k - 1 : PortAt(messages, i, "connect", p)
      BY <1>2, <2>2 DEF HeardOn
    <3>1. CASE i = 1
      BY <3>1 DEF HeardOn
    <3>2. CASE i # 1
      <4>1. i \in 2 .. Len(messages)
        BY <1>0, <3>2 DEF PortAt
      <4>2. PortAt(messages', i - 1, "connect", p) /\ i - 1 \in 1 .. (k - 1) - 1
        BY <1>1, <4>1
      <4> QED BY <4>2 DEF HeardOn
    <3> QED BY <3>1, <3>2
  <2> QED BY <2>1, <2>2
<1>3. ASSUME NEW p \in Panels, NEW j \in Nat \ {0}, ~PortAt(messages, 1, "disconnect", p),
             HungOn(messages, listeners, onDisconnect, t, p, j)
      PROVE  HungOn(messages', listeners', onDisconnect', t, p, j - 1)
  <2>1. CASE t \in onDisconnect[p]
    BY <1>3, <2>1 DEF HungOn
  <2>2. CASE t \notin onDisconnect[p]
    <3> PICK k \in 1 .. j - 1 : TabAt(messages, k, "enable", t) /\ HeardOn(messages, listeners, p, k)
      BY <1>3, <2>2 DEF HungOn
    <3>1. CASE k = 1
      <4>1. p \in listeners
        BY <3>1 DEF HeardOn
      <4> QED BY <1>3, <3>1, <4>1 DEF HungOn
    <3>2. CASE k # 1
      <4>1. k \in 2 .. Len(messages)
        BY <1>0, <3>2 DEF TabAt
      <4>2. TabAt(messages', k - 1, "enable", t) /\ k - 1 \in 1 .. (j - 1) - 1
            /\ HeardOn(messages', listeners', p, k - 1)
        BY <1>1, <1>2, <4>1
      <4> QED BY <4>2 DEF HungOn
    <3> QED BY <3>1, <3>2
  <2> QED BY <2>1, <2>2
<1>4. ASSUME NEW j \in 2 .. Len(messages), Stops(messages, listeners, onDisconnect, t, j)
      PROVE  Stops(messages', listeners', onDisconnect', t, j - 1)
  <2>1. CASE TabAt(messages, j, "disable", t)
    BY <1>1, <2>1 DEF Stops
  <2>2. ASSUME NEW p \in Panels, PortAt(messages, j, "disconnect", p),
               HungOn(messages, listeners, onDisconnect, t, p, j)
        PROVE  Stops(messages', listeners', onDisconnect', t, j - 1)
    <3>1. HungOn(messages', listeners', onDisconnect', t, p, j - 1)
      BY <1>3, <2>2
    <3> QED BY <1>1, <2>2, <3>1 DEF Stops
  <2> QED BY <1>4, <2>1, <2>2 DEF Stops
<1> QED BY <1>2, <1>3, <1>4

(* A step of the background page keeps the invariant if it hangs what it   *)
(* has to, and records nothing that the message stops.                     *)
LEMMA BackgroundKeeps ==
  ASSUME PlannerInv, messages # <<>>, messages' = Tail(messages),
         UNCHANGED <<panel, recording, opened>>,
         listeners \subseteq listeners',
         \A p : PortAt(messages, 1, "connect", p) => p \in listeners',
         onDisconnect' \in [Panels -> SUBSET Tab], enabledFor' \subseteq Tab,
         info' \subseteq info,
         \A t \in Tab, p \in Panels : ~PortAt(messages, 1, "disconnect", p) =>
           /\ t \in onDisconnect[p] => t \in onDisconnect'[p]
           /\ TabAt(messages, 1, "enable", t) /\ p \in listeners => t \in onDisconnect'[p],
         \A t \in Tab : t \in enabledFor' =>
           t \in enabledFor \/ TabAt(messages, 1, "enable", t),
         \A t \in Tab : t \in enabledFor' \/ (\E i \in info' : i.tab = t) =>
           ~Stops(messages, listeners, onDisconnect, t, 1)
  PROVE  PlannerInv'
<1> USE DEF PlannerInv
<1>0. /\ messages \in Seq(Msg) /\ Len(messages) \in Nat \ {0} /\ messages' \in Seq(Msg)
      /\ Len(messages') = Len(messages) - 1
      /\ \A k \in 1 .. Len(messages') : messages'[k] = messages[k + 1]
  OBVIOUS
<1>1. /\ \A what, p : \A k \in 1 .. Len(messages') :
           PortAt(messages', k, what, p) => PortAt(messages, k + 1, what, p)
      /\ \A what, t : \A k \in 1 .. Len(messages') :
           TabAt(messages', k, what, t) => TabAt(messages, k + 1, what, t)
  BY <1>0 DEF PortAt, TabAt
<1>2. \A p \in Panels : \A j \in 2 .. Len(messages) :
        PortAt(messages, j, "disconnect", p) => ~PortAt(messages, 1, "disconnect", p)
  BY <1>0 DEF BrokenOnce
<1>3. ASSUME NEW t \in Tab
      PROVE  /\ \A p : \A k \in Nat \ {0} : HeardOn(messages, listeners, p, k)
                  => HeardOn(messages', listeners', p, k - 1)
             /\ \A p \in Panels : \A j \in Nat \ {0} :
                  ~PortAt(messages, 1, "disconnect", p)
                  /\ HungOn(messages, listeners, onDisconnect, t, p, j)
                    => HungOn(messages', listeners', onDisconnect', t, p, j - 1)
             /\ \A j \in 2 .. Len(messages) : Stops(messages, listeners, onDisconnect, t, j)
                  => Stops(messages', listeners', onDisconnect', t, j - 1)
  BY <1>2, HeadTaken
<1>4. ASSUME NEW t \in Tab, NEW i \in Nat,
             \E j \in i + 1 .. Len(messages) :
               j # 1 /\ Stops(messages, listeners, onDisconnect, t, j)
      PROVE  StopsAfter(messages', listeners', onDisconnect', t, IF i = 0 THEN 0 ELSE i - 1)
  <2> PICK j \in i + 1 .. Len(messages) :
        j # 1 /\ Stops(messages, listeners, onDisconnect, t, j)
    BY <1>4
  <2>1. j \in 2 .. Len(messages)
    BY <1>0
  <2>2. Stops(messages', listeners', onDisconnect', t, j - 1)
    BY <1>3, <2>1
  <2>3. j - 1 \in (IF i = 0 THEN 0 ELSE i - 1) + 1 .. Len(messages')
    BY <1>0, <2>1
  <2> QED BY <2>2, <2>3 DEF StopsAfter
<1>5. ASSUME NEW t \in Tab PROVE Connected(t)'
  <2> SUFFICES ASSUME panel[t] # NoPanel PROVE Connected(t)'
    BY DEF Connected
  <2>1. Connected(t)
    OBVIOUS
  <2>2. HeardOn(messages', listeners', panel[t], (Len(messages) + 1) - 1)
    BY <1>0, <1>3, <2>1 DEF Connected
  <2>3. HeardOn(messages', listeners', panel[t], Len(messages') + 1)
    BY <1>0, <2>2
  <2>4. \A k \in 1 .. Len(messages') : ~PortAt(messages', k, "disconnect", panel[t])
    BY <1>0, <1>1, <2>1 DEF Connected
  <2> QED BY <2>1, <2>3, <2>4 DEF Connected
<1>6. ASSUME NEW t \in Tab PROVE WillHang(t)'
  <2> SUFFICES ASSUME t \in recording PROVE WillHang(t)'
    BY DEF WillHang
  <2>1. panel[t] # NoPanel /\ panel[t] \in Panels
        /\ HungOn(messages, listeners, onDisconnect, t, panel[t], Len(messages) + 1)
    BY DEF WillHang
  <2>2. ~PortAt(messages, 1, "disconnect", panel[t])
    BY <1>0, <2>1 DEF Connected
  <2>3. HungOn(messages', listeners', onDisconnect', t, panel[t], (Len(messages) + 1) - 1)
    BY <1>0, <1>3, <2>1, <2>2
  <2> QED BY <1>0, <2>1, <2>3 DEF WillHang
<1>7. ASSUME NEW t \in Tab PROVE WillForget(t)'
  <2> SUFFICES ASSUME t \notin recording PROVE WillForget(t)'
    BY DEF WillForget
  <2>0. WillForget(t)
    OBVIOUS
  <2>1. ASSUME t \in enabledFor' \/ (\E i \in info' : i.tab = t)
        PROVE  StopsAfter(messages', listeners', onDisconnect', t, 0)
    <3>1. ~Stops(messages, listeners, onDisconnect, t, 1)
      BY <2>1
    <3>2. StopsAfter(messages, listeners, onDisconnect, t, 0)
          \/ StopsAfter(messages, listeners, onDisconnect, t, 1)
      <4>1. CASE TabAt(messages, 1, "enable", t)
        BY <1>0, <2>0, <4>1 DEF WillForget
      <4>2. CASE ~TabAt(messages, 1, "enable", t)
        <5>1. t \in enabledFor \/ (\E i \in info : i.tab = t)
          BY <2>1, <4>2
        <5> QED BY <2>0, <5>1 DEF WillForget
      <4> QED BY <4>1, <4>2
    <3>3. \E j \in 0 + 1 .. Len(messages) :
            j # 1 /\ Stops(messages, listeners, onDisconnect, t, j)
      BY <1>0, <3>1, <3>2 DEF StopsAfter
    <3> QED BY <1>4, <3>3
  <2>2. ASSUME NEW i \in 1 .. Len(messages'), TabAt(messages', i, "enable", t)
        PROVE  StopsAfter(messages', listeners', onDisconnect', t, i)
    <3>1. i + 1 \in 1 .. Len(messages) /\ i + 1 \in Nat /\ i + 1 # 0 /\ (i + 1) - 1 = i
      BY <1>0
    <3>2. StopsAfter(messages, listeners, onDisconnect, t, i + 1)
      BY <1>1, <2>0, <2>2, <3>1 DEF WillForget
    <3>3. \E j \in (i + 1) + 1 .. Len(messages) :
            j # 1 /\ Stops(messages, listeners, onDisconnect, t, j)
      BY <1>0, <3>2 DEF StopsAfter
    <3> HIDE DEF PlannerInv
    <3> QED BY <1>4, <3>1, <3>3
  <2> QED BY <2>1, <2>2 DEF WillForget
<1>8. BrokenOnce'
  <2> SUFFICES ASSUME NEW p \in Panels, NEW j \in 1 .. Len(messages'), NEW k \in 1 .. Len(messages'),
                      PortAt(messages', j, "disconnect", p), PortAt(messages', k, "disconnect", p)
               PROVE  j = k
    BY DEF BrokenOnce
  <2>1. PortAt(messages, j + 1, "disconnect", p) /\ PortAt(messages, k + 1, "disconnect", p)
        /\ j + 1 \in 1 .. Len(messages) /\ k + 1 \in 1 .. Len(messages)
    BY <1>0, <1>1
  <2>2. j + 1 = k + 1
    BY <2>1 DEF BrokenOnce
  <2> QED BY <2>2
<1>9. \A k \in 1 .. Len(messages') :
        messages'[k].what \in {"connect", "disconnect"} => messages'[k].port \in 1 .. opened
  BY <1>0
<1> QED BY <1>0, <1>5, <1>6, <1>7, <1>8, <1>9

(* A step of one tab's panel keeps the invariant if it keeps it for that   *)
(* tab: the others' connections do not break, and nothing enables them.    *)
LEMMA PageKeeps ==
  ASSUME PlannerInv, UNCHANGED <<listeners, onDisconnect, enabledFor, info>>,
         messages' \in Seq(Msg), Len(messages) <= Len(messages'),
         \A k \in 1 .. Len(messages) : messages'[k] = messages[k],
         opened' \in opened .. MaxPanels,
         NEW t \in Tab, NEW p \in Panels \cup {NoPanel}, panel' = [panel EXCEPT ![t] = p],
         p \in {NoPanel, panel[t]} \/ opened < p,
         recording' \subseteq Tab, recording' \ {t} = recording \ {t},
         NEW gone \in Nat,
         \A k \in Len(messages) + 1 .. Len(messages') :
           /\ messages'[k].what = "connect" => messages'[k].port \in 1 .. opened'
           /\ messages'[k].what = "disconnect" =>
                panel[t] # NoPanel /\ messages'[k].port = panel[t] /\ k = gone
           /\ messages'[k].what = "enable" => messages'[k].tab = t,
         Connected(t)', WillHang(t)', WillForget(t)'
  PROVE  PlannerInv'
<1> DEFINE new == Len(messages) + 1 .. Len(messages')
<1>0. /\ messages \in Seq(Msg) /\ Len(messages) \in Nat /\ Len(messages') \in Nat
      /\ opened \in 0 .. MaxPanels /\ panel \in [Tab -> Panels \cup {NoPanel}]
  BY DEF PlannerInv
<1>1. panel' \in [Tab -> Panels \cup {NoPanel}] /\ panel'[t] = p
      /\ \A u \in Tab \ {t} : panel'[u] = panel[u]
  BY <1>0
<1>2. \A u \in Tab : panel[u] # NoPanel => panel[u] \in 1 .. opened
  BY DEF PlannerInv, Connected
<1>3. \A u, v \in Tab : panel[u] = panel[v] /\ panel[u] # NoPanel => u = v
  BY DEF PlannerInv
<1>4. \A u, v \in Tab : panel'[u] = panel'[v] /\ panel'[u] # NoPanel => u = v
  BY <1>0, <1>1, <1>2, <1>3 DEF Panels
<1>5. ASSUME NEW u \in Tab \ {t} PROVE Connected(u)' /\ WillHang(u)' /\ WillForget(u)'
  <2>1. panel'[u] = panel[u] /\ (u \in recording' <=> u \in recording)
    BY <1>1
  <2>2. Connected(u) /\ WillHang(u) /\ WillForget(u)
    BY DEF PlannerInv
  <2>3. Connected(u)'
    <3> SUFFICES ASSUME panel[u] # NoPanel PROVE Connected(u)'
      BY <2>1 DEF Connected
    <3>1. \A k \in 1 .. Len(messages') : ~PortAt(messages', k, "disconnect", panel[u])
      <4> SUFFICES ASSUME NEW k \in 1 .. Len(messages'),
                          PortAt(messages', k, "disconnect", panel[u])
                   PROVE  FALSE
        OBVIOUS
      <4>1. CASE k \in 1 .. Len(messages)
        BY <1>0, <2>2, <4>1, SentLater DEF Connected
      <4>2. CASE k \in new
        <5>1. panel[t] # NoPanel /\ panel[u] = panel[t]
          BY <4>2 DEF PortAt
        <5> QED BY <1>3, <5>1
      <4> QED BY <1>0, <4>1, <4>2
    <3>2. HeardOn(messages', listeners', panel[u], Len(messages) + 1)
      <4>1. HeardOn(messages, listeners, panel[u], Len(messages) + 1)
        BY <2>2 DEF Connected
      <4>2. Len(messages) + 1 \in Nat /\ Len(messages) + 1 <= Len(messages) + 1
        BY <1>0
      <4>3. \A q : \A k \in Nat :
              k <= Len(messages) + 1 /\ HeardOn(messages, listeners, q, k)
                => HeardOn(messages', listeners', q, k)
        BY <1>0, SentLater
      <4> QED BY <4>1, <4>2, <4>3
    <3>3. HeardOn(messages', listeners', panel[u], Len(messages') + 1)
      BY <1>0, <3>2 DEF HeardOn
    <3>4. panel[u] \in 1 .. opened'
      BY <1>0, <1>2
    <3> QED BY <2>1, <3>1, <3>3, <3>4 DEF Connected
  <2>4. WillHang(u)'
    <3> SUFFICES ASSUME u \in recording PROVE WillHang(u)'
      BY <2>1 DEF WillHang
    <3>1. panel[u] # NoPanel
          /\ HungOn(messages', listeners', onDisconnect', u, panel[u], Len(messages) + 1)
      BY <1>0, <2>2, SentLater DEF WillHang
    <3>2. HungOn(messages', listeners', onDisconnect', u, panel[u], Len(messages') + 1)
      BY <1>0, <3>1 DEF HungOn
    <3> QED BY <2>1, <3>1, <3>2 DEF WillHang
  <2>5. WillForget(u)'
    <3> SUFFICES ASSUME u \notin recording PROVE WillForget(u)'
      BY <2>1 DEF WillForget
    <3>1. ASSUME NEW k \in 1 .. Len(messages'), TabAt(messages', k, "enable", u)
          PROVE  k \in 1 .. Len(messages) /\ TabAt(messages, k, "enable", u)
      <4>1. k \notin new
        BY <3>1 DEF TabAt
      <4> QED BY <1>0, <3>1, <4>1, SentLater
    <3> QED BY <1>0, <2>2, <3>1, SentLater DEF WillForget
  <2> QED BY <2>3, <2>4, <2>5
<1>6. BrokenOnce'
  <2> SUFFICES ASSUME NEW q \in Panels, NEW j \in 1 .. Len(messages'), NEW k \in 1 .. Len(messages'),
                      PortAt(messages', j, "disconnect", q), PortAt(messages', k, "disconnect", q)
               PROVE  j = k
    BY DEF BrokenOnce
  <2>1. ASSUME NEW i \in 1 .. Len(messages'), PortAt(messages', i, "disconnect", q)
        PROVE  \/ i \in 1 .. Len(messages) /\ PortAt(messages, i, "disconnect", q) /\ q # panel[t]
               \/ panel[t] # NoPanel /\ q = panel[t] /\ i = gone
               \/ panel[t] = NoPanel /\ i \in 1 .. Len(messages)
                  /\ PortAt(messages, i, "disconnect", q)
    <3>1. CASE i \in new
      BY <2>1, <3>1 DEF PortAt
    <3>2. CASE i \in 1 .. Len(messages)
      <4>1. PortAt(messages, i, "disconnect", q)
        BY <1>0, <2>1, <3>2, SentLater
      <4>2. panel[t] # NoPanel => q # panel[t]
        BY <3>2, <4>1 DEF PlannerInv, Connected
      <4> QED BY <3>2, <4>1, <4>2
    <3> QED BY <1>0, <3>1, <3>2
  <2> QED BY <2>1 DEF PlannerInv, BrokenOnce
<1>7. \A k \in 1 .. Len(messages') :
        messages'[k].what \in {"connect", "disconnect"} => messages'[k].port \in 1 .. opened'
  <2> SUFFICES ASSUME NEW k \in 1 .. Len(messages'),
                      messages'[k].what \in {"connect", "disconnect"}
               PROVE  messages'[k].port \in 1 .. opened'
    OBVIOUS
  <2>1. CASE k \in 1 .. Len(messages)
    BY <1>0, <2>1 DEF PlannerInv
  <2>2. CASE k \in new
    BY <1>0, <1>2, <2>2
  <2> QED BY <1>0, <2>1, <2>2
<1> QED BY <1>0, <1>1, <1>4, <1>5, <1>6, <1>7 DEF PlannerInv

(* The messages, told apart by what they are about.                        *)
LEMMA Messages ==
  /\ \A p \in Panels : /\ Planner!Connect(p) \in Msg /\ Planner!Gone(p) \in Msg
                       /\ Planner!Connect(p).what = "connect" /\ Planner!Connect(p).port = p
                       /\ Planner!Gone(p).what = "disconnect" /\ Planner!Gone(p).port = p
  /\ \A t \in Tab : \A type \in {"enable", "disable"} :
       /\ Planner!Message(t, type) \in Msg
       /\ Planner!Message(t, type).what = type /\ Planner!Message(t, type).tab = t
BY DEF Planner!Connect, Planner!Gone, Planner!Message, Msg

LEMMA SentOne ==
  ASSUME messages \in Seq(Msg), NEW x \in Msg, messages' = Append(messages, x)
  PROVE  /\ messages' \in Seq(Msg) /\ Len(messages') = Len(messages) + 1
         /\ Len(messages) \in Nat /\ messages'[Len(messages) + 1] = x
         /\ \A k \in 1 .. Len(messages) : messages'[k] = messages[k]
OBVIOUS

LEMMA OpenPanelKeeps ==
  ASSUME PlannerInv, NEW t \in Tab, Planner!OpenPanel(t)
  PROVE  PlannerInv'
<1> DEFINE p == opened + 1
           n == Len(messages)
<1>0. /\ messages \in Seq(Msg) /\ opened \in Nat /\ p \in Panels /\ panel[t] = NoPanel
      /\ panel \in [Tab -> Panels \cup {NoPanel}]
      /\ t \notin recording /\ recording \subseteq Tab /\ WillForget(t)
  BY PanelBound DEF PlannerInv, WillHang, Planner!OpenPanel, Panels
<1>1. /\ messages' = Append(messages, Planner!Connect(p)) /\ panel' = [panel EXCEPT ![t] = p]
      /\ opened' = p /\ opened' \in opened .. MaxPanels
      /\ UNCHANGED <<recording, listeners, onDisconnect, enabledFor, info>>
  BY <1>0, PanelBound DEF Planner!OpenPanel, Planner!planner, Panels
<1>2. /\ messages' \in Seq(Msg) /\ Len(messages') = n + 1 /\ n \in Nat
      /\ messages'[n + 1].what = "connect" /\ messages'[n + 1].port = p
      /\ \A k \in 1 .. n : messages'[k] = messages[k]
  BY <1>0, <1>1, Messages, SentOne
<1>3. panel'[t] = p
  BY <1>0, <1>1
<1> HIDE DEF p, n
<1>4. Connected(t)'
  <2>1. PortAt(messages', n + 1, "connect", p)
    BY <1>2 DEF PortAt
  <2>2. HeardOn(messages', listeners', p, Len(messages') + 1)
    BY <1>2, <2>1 DEF HeardOn
  <2>3. \A k \in 1 .. Len(messages') : ~PortAt(messages', k, "disconnect", p)
    <3> SUFFICES ASSUME NEW k \in 1 .. n, messages[k].what = "disconnect",
                        messages[k].port = p
                 PROVE  FALSE
      BY <1>2 DEF PortAt
    <3>1. messages[k].port \in 1 .. opened
      BY DEF PlannerInv, n
    <3> QED BY <1>0, <3>1 DEF p
  <2> QED BY <1>0, <1>1, <1>3, <2>2, <2>3 DEF Connected, Panels
<1>5. WillHang(t)'
  BY <1>0, <1>1 DEF WillHang
<1>6. WillForget(t)'
  <2>1. \A k \in 1 .. Len(messages') : TabAt(messages', k, "enable", t)
          => k \in 1 .. n /\ TabAt(messages, k, "enable", t)
    BY <1>2 DEF TabAt, n
  <2>2. \A i \in Nat : StopsAfter(messages, listeners, onDisconnect, t, i)
          => StopsAfter(messages', listeners', onDisconnect', t, i)
    BY <1>0, <1>1, <1>2, SentLater DEF n
  <2> QED BY <1>0, <1>1, <1>2, <2>1, <2>2 DEF WillForget, n
<1>7. \A k \in n + 1 .. Len(messages') : k = n + 1
  BY <1>2
<1>8. \A k \in n + 1 .. Len(messages') :
           /\ messages'[k].what = "connect" => messages'[k].port \in 1 .. opened'
           /\ messages'[k].what = "disconnect" =>
                panel[t] # NoPanel /\ messages'[k].port = panel[t] /\ k = n + 1
           /\ messages'[k].what = "enable" => messages'[k].tab = t
  BY <1>0, <1>1, <1>2, <1>7 DEF p, Panels
<1>9. n + 1 \in Nat /\ n <= Len(messages') /\ opened < p
  BY <1>0, <1>1, <1>2 DEF p
<1> QED BY <1>0, <1>1, <1>2, <1>4, <1>5, <1>6, <1>8, <1>9, PageKeeps DEF n

LEMMA TickKeeps ==
  ASSUME PlannerInv, NEW t \in Tab, Planner!Tick(t)
  PROVE  PlannerInv'
<1> DEFINE p == panel[t]
           n == Len(messages)
<1>0. /\ messages \in Seq(Msg) /\ opened \in 0 .. MaxPanels /\ p # NoPanel /\ p \in Panels
      /\ panel \in [Tab -> Panels \cup {NoPanel}] /\ recording \subseteq Tab /\ Connected(t)
  BY DEF PlannerInv, Planner!Tick
<1>1. /\ messages' = Append(messages, Planner!Message(t, "enable"))
      /\ panel' = [panel EXCEPT ![t] = p] /\ panel' = panel
      /\ recording' = recording \cup {t}
      /\ UNCHANGED <<opened, listeners, onDisconnect, enabledFor, info>>
  BY <1>0 DEF Planner!Tick, Planner!planner
<1>2. /\ messages' \in Seq(Msg) /\ Len(messages') = n + 1 /\ n \in Nat
      /\ messages'[n + 1].what = "enable" /\ messages'[n + 1].tab = t
      /\ \A k \in 1 .. n : messages'[k] = messages[k]
  BY <1>0, <1>1, Messages, SentOne
<1> HIDE DEF p, n
<1>3. HeardOn(messages', listeners', p, n + 1)
  BY <1>0, <1>1, <1>2, SentLater DEF Connected, n, p
<1>4. Connected(t)'
  <2>1. HeardOn(messages', listeners', p, Len(messages') + 1)
    BY <1>2, <1>3 DEF HeardOn
  <2>2. \A k \in 1 .. Len(messages') : ~PortAt(messages', k, "disconnect", p)
    BY <1>0, <1>2 DEF Connected, PortAt, n, p
  <2> QED BY <1>0, <1>1, <2>1, <2>2 DEF Connected, p
<1>5. WillHang(t)'
  <2>1. TabAt(messages', n + 1, "enable", t)
    BY <1>2 DEF TabAt
  <2>2. HungOn(messages', listeners', onDisconnect', t, p, Len(messages') + 1)
    BY <1>2, <1>3, <2>1 DEF HungOn
  <2> QED BY <1>0, <1>1, <2>2 DEF WillHang, p
<1>6. WillForget(t)'
  BY <1>1 DEF WillForget
<1>7. \A k \in n + 1 .. Len(messages') : k = n + 1
  BY <1>2
<1>8. \A k \in n + 1 .. Len(messages') :
           /\ messages'[k].what = "connect" => messages'[k].port \in 1 .. opened'
           /\ messages'[k].what = "disconnect" =>
                panel[t] # NoPanel /\ messages'[k].port = panel[t] /\ k = n + 1
           /\ messages'[k].what = "enable" => messages'[k].tab = t
  BY <1>0, <1>1, <1>2, <1>7 DEF p, Panels
<1>9. n + 1 \in Nat /\ n <= Len(messages') /\ opened' \in opened .. MaxPanels
  BY <1>0, <1>1, <1>2 DEF p
<1> QED BY <1>0, <1>1, <1>2, <1>4, <1>5, <1>6, <1>8, <1>9, PageKeeps DEF n

LEMMA ClosePanelKeeps ==
  ASSUME PlannerInv, NEW t \in Tab, Planner!ClosePanel(t)
  PROVE  PlannerInv'
<1> DEFINE p == panel[t]
           n == Len(messages)
<1>0. /\ messages \in Seq(Msg) /\ opened \in 0 .. MaxPanels /\ p # NoPanel /\ p \in Panels
      /\ recording \subseteq Tab /\ WillHang(t) /\ WillForget(t)
      /\ panel \in [Tab -> Panels \cup {NoPanel}]
  BY DEF PlannerInv, Planner!ClosePanel
<1>1. /\ messages' = Append(messages, Planner!Gone(p))
      /\ panel' = [panel EXCEPT ![t] = NoPanel] /\ recording' = recording \ {t}
      /\ UNCHANGED <<opened, listeners, onDisconnect, enabledFor, info>>
  BY DEF Planner!ClosePanel, Planner!planner
<1>2. /\ messages' \in Seq(Msg) /\ Len(messages') = n + 1 /\ n \in Nat
      /\ messages'[n + 1].what = "disconnect" /\ messages'[n + 1].port = p
      /\ \A k \in 1 .. n : messages'[k] = messages[k]
  BY <1>0, <1>1, Messages, SentOne
<1>3. panel'[t] = NoPanel
  BY <1>0, <1>1
<1> HIDE DEF p, n
<1>4. Connected(t)' /\ WillHang(t)'
  BY <1>1, <1>3 DEF Connected, WillHang
<1>5. WillForget(t)'
  <2>1. \A k \in 1 .. Len(messages') : TabAt(messages', k, "enable", t)
          => k \in 1 .. n /\ TabAt(messages, k, "enable", t)
    BY <1>2 DEF TabAt, n
  <2>2. CASE t \in recording
    <3>1. HungOn(messages', listeners', onDisconnect', t, p, n + 1)
      BY <1>0, <1>1, <1>2, <2>2, SentLater DEF WillHang, n, p
    <3>2. Stops(messages', listeners', onDisconnect', t, n + 1)
      BY <1>0, <1>2, <3>1 DEF Stops, PortAt
    <3>3. \A i \in 0 .. n : StopsAfter(messages', listeners', onDisconnect', t, i)
      BY <1>2, <3>2 DEF StopsAfter
    <3> QED BY <1>2, <2>1, <3>3 DEF WillForget
  <2>3. CASE t \notin recording
    <3>1. \A i \in Nat : StopsAfter(messages, listeners, onDisconnect, t, i)
            => StopsAfter(messages', listeners', onDisconnect', t, i)
      BY <1>0, <1>1, <1>2, SentLater DEF n
    <3> QED BY <1>0, <1>1, <1>2, <2>1, <2>3, <3>1 DEF WillForget, n
  <2> QED BY <2>2, <2>3
<1>6. \A k \in n + 1 .. Len(messages') : k = n + 1
  BY <1>2
<1>8. \A k \in n + 1 .. Len(messages') :
           /\ messages'[k].what = "connect" => messages'[k].port \in 1 .. opened'
           /\ messages'[k].what = "disconnect" =>
                panel[t] # NoPanel /\ messages'[k].port = panel[t] /\ k = n + 1
           /\ messages'[k].what = "enable" => messages'[k].tab = t
  BY <1>0, <1>1, <1>2, <1>6 DEF p, Panels
<1>9. n + 1 \in Nat /\ n <= Len(messages') /\ opened' \in opened .. MaxPanels
  BY <1>0, <1>1, <1>2 DEF p
<1> QED BY <1>0, <1>1, <1>2, <1>4, <1>5, <1>8, <1>9, PageKeeps DEF n

LEMMA UntickKeeps ==
  ASSUME PlannerInv, NEW t \in Tab, Planner!Untick(t)
  PROVE  PlannerInv'
<1> DEFINE p == panel[t]
           q == opened + 1
           n == Len(messages)
           off == Planner!Message(t, "disable")
           gone == Planner!Gone(p)
           new == Planner!Connect(q)
<1>0. /\ messages \in Seq(Msg) /\ opened \in 0 .. MaxPanels /\ p # NoPanel /\ p \in Panels
      /\ recording \subseteq Tab /\ q \in Panels /\ p \in 1 .. opened
      /\ panel \in [Tab -> Panels \cup {NoPanel}]
  BY PanelBound DEF PlannerInv, WillHang, Connected, Planner!Untick, Panels
<1>1. /\ messages' = messages \o <<off, gone, new>>
      /\ panel' = [panel EXCEPT ![t] = q] /\ recording' = recording \ {t}
      /\ opened' = q /\ opened' \in opened .. MaxPanels
      /\ UNCHANGED <<listeners, onDisconnect, enabledFor, info>>
  BY <1>0, PanelBound DEF Planner!Untick, Planner!planner, Panels
<1>m. /\ off \in Msg /\ off.what = "disable" /\ off.tab = t
      /\ gone \in Msg /\ gone.what = "disconnect" /\ gone.port = p
      /\ new \in Msg /\ new.what = "connect" /\ new.port = q
  BY <1>0, Messages
<1> HIDE DEF p, q, n, off, gone, new
<1>2. /\ messages' \in Seq(Msg) /\ Len(messages') = n + 3 /\ n \in Nat
      /\ messages'[n + 1] = off /\ messages'[n + 2] = gone /\ messages'[n + 3] = new
      /\ \A k \in 1 .. n : messages'[k] = messages[k]
  BY <1>0, <1>1, <1>m DEF n
<1>3. panel'[t] = q
  BY <1>0, <1>1
<1>k. \A k \in 1 .. Len(messages') : k \in 1 .. n \/ k = n + 1 \/ k = n + 2 \/ k = n + 3
  BY <1>2
<1>4. Connected(t)'
  <2>1. PortAt(messages', n + 3, "connect", q)
    BY <1>2, <1>m DEF PortAt
  <2>2. HeardOn(messages', listeners', q, Len(messages') + 1)
    BY <1>2, <2>1 DEF HeardOn
  <2>3. \A k \in 1 .. n : messages[k].what = "disconnect" => messages[k].port \in 1 .. opened
    BY DEF PlannerInv, n
  <2>4. q \notin 1 .. opened
    BY <1>0 DEF q
  <2>5. \A k \in 1 .. Len(messages') : ~PortAt(messages', k, "disconnect", q)
    BY <1>0, <1>2, <1>m, <1>k, <2>3, <2>4 DEF PortAt
  <2>6. q \in 1 .. opened'
    BY <1>0, <1>1 DEF Panels
  <2> QED BY <1>3, <2>2, <2>5, <2>6 DEF Connected
<1>5. WillHang(t)'
  BY <1>1 DEF WillHang
<1>6. WillForget(t)'
  <2>1. Stops(messages', listeners', onDisconnect', t, n + 1)
    BY <1>2, <1>m DEF Stops, TabAt
  <2>2. \A i \in 0 .. n : StopsAfter(messages', listeners', onDisconnect', t, i)
    BY <1>2, <2>1 DEF StopsAfter
  <2>3. \A k \in 1 .. Len(messages') : TabAt(messages', k, "enable", t) => k \in 0 .. n
    BY <1>2, <1>m, <1>k DEF TabAt
  <2> QED BY <1>2, <2>2, <2>3 DEF WillForget
<1>7. \A k \in n + 1 .. Len(messages') : k = n + 1 \/ k = n + 2 \/ k = n + 3
  BY <1>2
<1>8. /\ \A k \in n + 1 .. Len(messages') :
           /\ messages'[k].what = "connect" => messages'[k].port \in 1 .. opened'
           /\ messages'[k].what = "disconnect" =>
                panel[t] # NoPanel /\ messages'[k].port = panel[t] /\ k = n + 2
           /\ messages'[k].what = "enable" => messages'[k].tab = t
  BY <1>0, <1>1, <1>2, <1>7, <1>m, SMTT(30) DEF p, Panels
<1>9. opened < q /\ n + 2 \in Nat /\ n <= Len(messages')
  BY <1>0, <1>2 DEF q
<1> QED BY <1>0, <1>1, <1>2, <1>4, <1>5, <1>6, <1>8, <1>9, PageKeeps DEF n

(* What is received, and whom it stops.                                    *)
LEMMA Received ==
  ASSUME PlannerInv, NEW what, Planner!Receive(what)
  PROVE  /\ messages # <<>> /\ messages' = Tail(messages) /\ Head(messages) = messages[1]
         /\ UNCHANGED <<panel, recording, opened>>
         /\ messages[1] \in Msg /\ messages[1].what = what
         /\ \A w, p : PortAt(messages, 1, w, p) <=> w = what /\ messages[1].port = p
         /\ \A w, t : TabAt(messages, 1, w, t) <=> w = what /\ messages[1].tab = t
         /\ what = "connect" \/ what = "disconnect" => messages[1].port \in Panels
         /\ what = "enable" \/ what = "disable" => messages[1].tab \in Tab
         /\ \A t : Stops(messages, listeners, onDisconnect, t, 1) =>
              \/ what = "disable" /\ t = messages[1].tab
              \/ what = "disconnect" /\ t \in onDisconnect[messages[1].port]
<1>1. /\ messages \in Seq(Msg) /\ messages # <<>> /\ messages' = Tail(messages)
      /\ Head(messages) = messages[1] /\ 1 \in 1 .. Len(messages) /\ messages[1] \in Msg
      /\ messages[1].what = what /\ UNCHANGED <<panel, recording, opened>>
  BY DEF PlannerInv, Planner!Receive, Planner!pages
<1>2. /\ \A w, p : PortAt(messages, 1, w, p) <=> w = what /\ messages[1].port = p
      /\ \A w, t : TabAt(messages, 1, w, t) <=> w = what /\ messages[1].tab = t
  BY <1>1 DEF PortAt, TabAt
<1>3. /\ what = "connect" \/ what = "disconnect" => messages[1].port \in Panels
      /\ what = "enable" \/ what = "disable" => messages[1].tab \in Tab
  BY <1>1 DEF Msg
<1>4. \A t : Stops(messages, listeners, onDisconnect, t, 1) =>
        \/ what = "disable" /\ t = messages[1].tab
        \/ what = "disconnect" /\ t \in onDisconnect[messages[1].port]
  BY <1>2 DEF Stops, HungOn
<1> QED BY <1>1, <1>2, <1>3, <1>4

LEMMA PlannerStep == PlannerInv /\ Planner!Next => PlannerInv'
<1> SUFFICES ASSUME PlannerInv, Planner!Next PROVE PlannerInv'
  OBVIOUS
<1>0. onDisconnect \in [Panels -> SUBSET Tab] /\ enabledFor \subseteq Tab
  BY DEF PlannerInv
<1>1. ASSUME NEW t \in Tab, Planner!Load(t) PROVE PlannerInv'
  <2>1. \A i \in info' : i \in info \/ (i.tab = t /\ t \in enabledFor)
    BY <1>1 DEF Planner!Load, Planner!Record
  <2>2. UNCHANGED <<panel, recording, opened, messages, listeners, onDisconnect, enabledFor>>
    BY <1>1 DEF Planner!Load, Planner!Record, Planner!pages
  <2>3. BrokenOnce'
    BY <2>2 DEF PlannerInv, BrokenOnce
  <2>4. ASSUME NEW u \in Tab PROVE Connected(u)' /\ WillHang(u)' /\ WillForget(u)'
    BY <2>1, <2>2 DEF PlannerInv, Connected, WillHang, WillForget
  <2> QED BY <2>1, <2>2, <2>3, <2>4 DEF PlannerInv
<1>2. CASE Planner!OnConnect
  <2>1. Planner!Receive("connect") /\ listeners' = listeners \cup {Head(messages).port}
        /\ UNCHANGED <<onDisconnect, enabledFor, info>>
    BY <1>2 DEF Planner!OnConnect, Planner!planner
  <2> QED BY <1>0, <2>1, Received, BackgroundKeeps
<1>3. CASE Planner!OnEnable
  <2>1. Planner!Receive("enable") /\ enabledFor' = enabledFor \cup {Head(messages).tab}
        /\ onDisconnect' = [p \in Panels |->
             IF p \in listeners THEN onDisconnect[p] \cup {Head(messages).tab}
             ELSE onDisconnect[p]]
        /\ UNCHANGED <<listeners, info>>
    BY <1>0, <1>3 DEF Planner!OnEnable, Planner!Enable
  <2>2. Head(messages) = messages[1] /\ messages[1].tab \in Tab
    BY <2>1, Received
  <2>3. /\ onDisconnect' \in [Panels -> SUBSET Tab] /\ enabledFor' \subseteq Tab
        /\ \A p \in Panels : onDisconnect'[p] =
             IF p \in listeners THEN onDisconnect[p] \cup {messages[1].tab} ELSE onDisconnect[p]
    BY <1>0, <2>1, <2>2
  <2>4. \A t \in Tab, p \in Panels :
          /\ t \in onDisconnect[p] => t \in onDisconnect'[p]
          /\ TabAt(messages, 1, "enable", t) /\ p \in listeners => t \in onDisconnect'[p]
    BY <2>1, <2>3, Received
  <2> QED BY <2>1, <2>3, <2>4, Received, BackgroundKeeps
<1>4. CASE Planner!OnDisable
  <2>1. Planner!Receive("disable") /\ enabledFor' = enabledFor \ {Head(messages).tab}
        /\ info' = {i \in info : i.tab \notin {Head(messages).tab}}
        /\ UNCHANGED <<listeners, onDisconnect>>
    BY <1>4 DEF Planner!OnDisable, Planner!Disable
  <2> QED BY <1>0, <2>1, Received, BackgroundKeeps
<1>5. CASE Planner!OnGone
  <2> DEFINE p == messages[1].port
  <2>1. /\ Planner!Receive("disconnect") /\ Head(messages) = messages[1] /\ p \in Panels
        /\ UNCHANGED listeners
    BY <1>5, Received DEF Planner!OnGone
  <2>2. enabledFor' = enabledFor \ onDisconnect[p]
        /\ info' = {i \in info : i.tab \notin onDisconnect[p]}
        /\ onDisconnect' = [onDisconnect EXCEPT ![p] = {}]
    BY <1>5, <2>1 DEF Planner!OnGone, Planner!Disable
  <2>3. /\ onDisconnect' \in [Panels -> SUBSET Tab] /\ enabledFor' \subseteq Tab
        /\ info' \subseteq info
        /\ \A q \in Panels : q # p => onDisconnect'[q] = onDisconnect[q]
    BY <1>0, <2>1, <2>2
  <2>4. \A t \in Tab, q \in Panels : ~PortAt(messages, 1, "disconnect", q) =>
          /\ t \in onDisconnect[q] => t \in onDisconnect'[q]
          /\ TabAt(messages, 1, "enable", t) /\ q \in listeners => t \in onDisconnect'[q]
    BY <2>1, <2>3, Received
  <2>5. \A t \in Tab : t \in enabledFor' \/ (\E i \in info' : i.tab = t) =>
          ~Stops(messages, listeners, onDisconnect, t, 1)
    BY <2>1, <2>2, Received
  <2> QED BY <2>1, <2>2, <2>3, <2>4, <2>5, Received, BackgroundKeeps
<1> QED BY <1>1, <1>2, <1>3, <1>4, <1>5, OpenPanelKeeps, TickKeeps, UntickKeeps,
           ClosePanelKeeps DEF Planner!Next, Planner!Background

(* background.js 531-535, 551-554: for every number of tabs and panels,    *)
(* once the background page has heard everything it records only ticked    *)
(* tabs, and has forgotten the others.                                     *)
THEOREM PlannerForgetsWhenClosed == PartsSpec => []ForgottenWhenClosed
<1> DEFINE Inv == part = "planner" => PlannerInv
<1>1. PartsInit => Inv
  BY PlannerInit DEF PartsInit
<1>2. Inv /\ [PartsNext]_partsVars => Inv'
  <2> SUFFICES ASSUME part' = "planner", Inv, [PartsNext]_partsVars PROVE PlannerInv'
    OBVIOUS
  <2>1. CASE part = "planner" /\ Planner!Next
    BY <2>1, PlannerStep
  <2>2. CASE UNCHANGED partsVars
    BY <2>2 DEF partsVars, plannerVars, PlannerInv, Connected, WillHang, WillForget, BrokenOnce
  <2> QED BY <2>1, <2>2 DEF PartsNext
<1>3. Inv => ForgottenWhenClosed
  <2> SUFFICES ASSUME PlannerInv, messages = <<>>
               PROVE  enabledFor \subseteq recording /\ {i.tab : i \in info} \subseteq recording
    BY DEF ForgottenWhenClosed, Planner!ForgottenWhenClosed
  <2>1. \A t \in Tab : ~StopsAfter(messages, listeners, onDisconnect, t, 0)
    BY DEF StopsAfter
  <2> QED BY <2>1 DEF PlannerInv, WillForget
<1> QED BY <1>1, <1>2, <1>3, PTL DEF PartsSpec

-----------------------------------------------------------------------------
(* The copy of the HTTP Nowhere preference.                                *)

(* Without is a loop like Declaring's.                                     *)
Kept(R, gone) == [x \in R |-> IF x \in gone THEN {} ELSE {"kept"}]

(* The two folds are the same function's value.                            *)
LEMMA WithoutIsDeclaring ==
  ASSUME NEW R, NEW list \in Seq(R), NEW gone
  PROVE  Nowhere!Without(list, gone) = Declaring("kept", list, Kept(R, gone))
<1> DEFINE LeftAt(g, s) == IF s = {} THEN <<>>
              ELSE IF list[Nowhere!Max(s)] \in gone THEN g[s \ {Nowhere!Max(s)}]
                   ELSE Append(g[s \ {Nowhere!Max(s)}], list[Nowhere!Max(s)])
           RightAt(g, s) == IF s = {} THEN <<>>
              ELSE IF "kept" \in Kept(R, gone)[list[Max(s)]]
                   THEN Append(g[s \ {Max(s)}], list[Max(s)])
                   ELSE g[s \ {Max(s)}]
           Left(g)  == g = [s \in SUBSET DOMAIN list |-> LeftAt(g, s)]
           Right(g) == g = [s \in SUBSET DOMAIN list |-> RightAt(g, s)]
<1>1. Nowhere!Without(list, gone) = (CHOOSE g : Left(g))[DOMAIN list]
  BY Zenon DEF Nowhere!Without, Nowhere!FoldLeft, Nowhere!MapThenFoldSet
<1>2. Declaring("kept", list, Kept(R, gone)) = (CHOOSE g : Right(g))[DOMAIN list]
  BY Zenon DEF Declaring, FoldLeft, MapThenFoldSet
<1>3. ASSUME NEW g PROVE Left(g) <=> Right(g)
  <2>1. ASSUME NEW s \in SUBSET DOMAIN list, s # {}
        PROVE  Nowhere!Max(s) = Max(s) /\ Max(s) \in DOMAIN list /\ list[Max(s)] \in R
    <3>1. Nowhere!Max(s) = Max(s)
      BY Zenon DEF Max, Nowhere!Max
    <3>2. Len(list) \in Nat /\ DOMAIN list = 1 .. Len(list)
      OBVIOUS
    <3>3. Max(s) \in s
      BY <2>1, <3>2, MaxIsMember
    <3> QED BY <3>1, <3>2, <3>3
  <2>2. \A x \in R : "kept" \in Kept(R, gone)[x] <=> x \notin gone
    BY DEF Kept
  <2>3. ASSUME NEW s \in SUBSET DOMAIN list PROVE LeftAt(g, s) = RightAt(g, s)
    BY <2>1, <2>2
  <2> QED BY <2>3, Zenon
<1> HIDE DEF Left, Right
<1>4. (CHOOSE g : Left(g)) = (CHOOSE g : Right(g))
  BY <1>3, Zenon
<1> QED BY <1>1, <1>2, <1>4

(* The last of a queue's first k entries that is in H is v, and none is.   *)
LastTo(list, k, H, v) ==
  \E i \in 1 .. k : list[i] = v /\ v \in H /\ \A j \in i + 1 .. k : list[j] \notin H
NoneTo(list, k, H) == \A i \in 1 .. k : list[i] \notin H

LastIn(list, H, v) == LastTo(list, Len(list), H, v)
NoneIn(list, H) == NoneTo(list, Len(list), H)

(* One entry more.                                                         *)
LEMMA OneMore ==
  ASSUME NEW list, NEW k \in Nat, NEW H
  PROVE  /\ NoneTo(list, k + 1, H) <=> NoneTo(list, k, H) /\ list[k + 1] \notin H
         /\ \A v : LastTo(list, k + 1, H, v) <=>
              IF list[k + 1] \in H THEN v = list[k + 1] ELSE LastTo(list, k, H, v)
<1>1. 1 .. k + 1 = (1 .. k) \cup {k + 1} /\ k + 1 \notin 1 .. k
  OBVIOUS
<1>2. NoneTo(list, k + 1, H) <=> NoneTo(list, k, H) /\ list[k + 1] \notin H
  BY <1>1 DEF NoneTo
<1>3. ASSUME NEW v, list[k + 1] \in H
      PROVE  LastTo(list, k + 1, H, v) <=> v = list[k + 1]
  <2>1. \A i \in 1 .. k : k + 1 \in i + 1 .. k + 1
    OBVIOUS
  <2>2. (k + 1) + 1 .. k + 1 = {}
    OBVIOUS
  <2> QED BY <1>1, <1>3, <2>1, <2>2 DEF LastTo
<1>4. ASSUME NEW v, list[k + 1] \notin H
      PROVE  LastTo(list, k + 1, H, v) <=> LastTo(list, k, H, v)
  <2>1. ASSUME NEW i \in 1 .. k
        PROVE  (\A j \in i + 1 .. k + 1 : list[j] \notin H)
                 <=> (\A j \in i + 1 .. k : list[j] \notin H)
    <3>1. i + 1 .. k + 1 = (i + 1 .. k) \cup {k + 1}
      OBVIOUS
    <3> QED BY <1>4, <3>1
  <2>2. \A i \in 1 .. k + 1 : list[i] = v /\ v \in H => i \in 1 .. k
    BY <1>1, <1>4
  <2> QED BY <1>1, <1>4, <2>1, <2>2 DEF LastTo
<1> QED BY <1>2, <1>3, <1>4

(* What is queued last counts.                                             *)
LEMMA Queued ==
  ASSUME NEW R, NEW list \in Seq(R), NEW x \in R, NEW H
  PROVE  /\ Append(list, x) \in Seq(R)
         /\ NoneIn(Append(list, x), H) <=> NoneIn(list, H) /\ x \notin H
         /\ \A v : LastIn(Append(list, x), H, v) <=>
              IF x \in H THEN v = x ELSE LastIn(list, H, v)
<1> DEFINE n == Len(list)
           new == Append(list, x)
<1>1. /\ n \in Nat /\ new \in Seq(R) /\ Len(new) = n + 1 /\ new[n + 1] = x
      /\ \A i \in 1 .. n : new[i] = list[i]
  OBVIOUS
<1> HIDE DEF n, new
<1>2. NoneTo(new, n, H) <=> NoneTo(list, n, H)
  BY <1>1 DEF NoneTo
<1>3. \A v : LastTo(new, n, H, v) <=> LastTo(list, n, H, v)
  <2>1. \A i \in 1 .. n : \A j \in i + 1 .. n : j \in 1 .. n
    BY <1>1
  <2> QED BY <1>1, <2>1 DEF LastTo
<1>4. /\ NoneTo(new, n + 1, H) <=> NoneTo(new, n, H) /\ new[n + 1] \notin H
      /\ \A v : LastTo(new, n + 1, H, v) <=>
           IF new[n + 1] \in H THEN v = new[n + 1] ELSE LastTo(new, n, H, v)
  BY <1>1, OneMore
<1> QED BY <1>1, <1>2, <1>3, <1>4 DEF LastIn, NoneIn, n, new

(* What is taken from the front counts only if nothing follows.            *)
LEMMA Dequeued ==
  ASSUME NEW R, NEW list \in Seq(R), list # <<>>, NEW H
  PROVE  /\ Tail(list) \in Seq(R) /\ Head(list) \in R
         /\ NoneIn(list, H) <=> NoneIn(Tail(list), H) /\ Head(list) \notin H
         /\ \A v : LastIn(Tail(list), H, v) => LastIn(list, H, v)
         /\ Head(list) \in H /\ NoneIn(Tail(list), H) => LastIn(list, H, Head(list))
<1> DEFINE n == Len(list)
           rest == Tail(list)
<1>1. /\ n \in Nat \ {0} /\ rest \in Seq(R) /\ Len(rest) = n - 1 /\ Head(list) = list[1]
      /\ Head(list) \in R /\ \A i \in 1 .. n - 1 : rest[i] = list[i + 1]
  OBVIOUS
<1> HIDE DEF n, rest
<1>2. \A j \in 2 .. n : j - 1 \in 1 .. n - 1 /\ list[j] = rest[j - 1]
  <2>1. ASSUME NEW j \in 2 .. n PROVE j - 1 \in 1 .. n - 1 /\ (j - 1) + 1 = j
    BY <1>1
  <2> QED BY <1>1, <2>1
<1>3. 1 .. n = {1} \cup (2 .. n)
  BY <1>1
<1>4. NoneTo(list, n, H) <=> NoneTo(rest, n - 1, H) /\ list[1] \notin H
  <2>1. \A i \in 1 .. n - 1 : i + 1 \in 1 .. n
    BY <1>1
  <2> QED BY <1>1, <1>2, <1>3, <2>1 DEF NoneTo
<1>5. ASSUME NEW v, LastTo(rest, n - 1, H, v) PROVE LastTo(list, n, H, v)
  <2>1. PICK i \in 1 .. n - 1 : rest[i] = v /\ v \in H
                                /\ \A j \in i + 1 .. n - 1 : rest[j] \notin H
    BY <1>5 DEF LastTo
  <2>2. i + 1 \in 1 .. n /\ list[i + 1] = v
    BY <1>1, <2>1
  <2>3. ASSUME NEW j \in (i + 1) + 1 .. n PROVE list[j] \notin H
    <3>1. j \in 2 .. n /\ j - 1 \in i + 1 .. n - 1
      BY <1>1
    <3> QED BY <1>2, <2>1, <3>1
  <2> QED BY <2>1, <2>2, <2>3 DEF LastTo
<1>6. ASSUME list[1] \in H, NoneTo(rest, n - 1, H) PROVE LastTo(list, n, H, list[1])
  <2>1. \A j \in 1 + 1 .. n : list[j] \notin H
    BY <1>2, <1>6 DEF NoneTo
  <2>2. 1 \in 1 .. n
    BY <1>1
  <2> QED BY <1>6, <2>1, <2>2 DEF LastTo
<1> QED BY <1>1, <1>4, <1>5, <1>6 DEF LastIn, NoneIn, n, rest

(* What is dropped is gone, and the rest counts as it did.                 *)
LEMMA Dropped ==
  ASSUME NEW R, NEW list \in Seq(R), NEW gone, NEW H, H \cap gone = {}
  PROVE  /\ Nowhere!Without(list, gone) \in Seq(R)
         /\ NoneIn(Nowhere!Without(list, gone), H) <=> NoneIn(list, H)
         /\ \A v : LastIn(Nowhere!Without(list, gone), H, v) <=> LastIn(list, H, v)
<1> DEFINE n == Len(list)
           d == Kept(R, gone)
<1>1. n \in Nat /\ \A i \in 1 .. n : list[i] \in R
  OBVIOUS
<1>d. \A x \in R : "kept" \in d[x] <=> x \notin gone
  BY DEF Kept
<1> HIDE DEF n, d
<1>2. PICK h : DeclaringPasses("kept", list, d, h)
  BY DeclaringLoop
<1> DEFINE T == {k \in 0 .. n :
                   /\ h[k] \in Seq(R)
                   /\ NoneIn(h[k], H) <=> NoneTo(list, k, H)
                   /\ \A v : LastIn(h[k], H, v) <=> LastTo(list, k, H, v)}
<1>3. 0 \in T
  <2>1. h[0] = <<>> /\ Len(<<>>) = 0 /\ <<>> \in Seq(R) /\ 0 \in 0 .. n
    BY <1>1, <1>2 DEF DeclaringPasses
  <2>2. 1 .. 0 = {}
    OBVIOUS
  <2> QED BY <2>1, <2>2 DEF NoneIn, LastIn, NoneTo, LastTo
<1>4. ASSUME NEW k \in 0 .. n, k < n /\ k \in T PROVE k + 1 \in T
  <2> DEFINE x == list[k + 1]
             old == h[k]
  <2>1. h[k + 1] = Pushed(old, x, "kept", d)
    BY <1>2, <1>4 DEF DeclaringPasses, n
  <2>2. k + 1 \in 1 .. n /\ k + 1 \in 0 .. n /\ k \in Nat
    BY <1>1, <1>4
  <2>3. x \in R
    BY <1>1, <2>2
  <2>4. /\ old \in Seq(R)
        /\ NoneIn(old, H) <=> NoneTo(list, k, H)
        /\ \A v : LastIn(old, H, v) <=> LastTo(list, k, H, v)
    BY <1>4
  <2>5. /\ NoneTo(list, k + 1, H) <=> NoneTo(list, k, H) /\ x \notin H
        /\ \A v : LastTo(list, k + 1, H, v) <=> IF x \in H THEN v = x ELSE LastTo(list, k, H, v)
    BY <2>2, OneMore
  <2> DEFINE new == h[k + 1]
  <2> SUFFICES /\ new \in Seq(R)
               /\ NoneIn(new, H) <=> NoneTo(list, k + 1, H)
               /\ \A v : LastIn(new, H, v) <=> LastTo(list, k + 1, H, v)
    BY <2>2
  <2> HIDE DEF x, old, new, T
  <2>6. CASE x \in gone
    <3>1. new = old /\ x \notin H
      BY <1>d, <2>1, <2>3, <2>6 DEF Pushed, new
    <3> QED BY <2>4, <2>5, <3>1
  <2>7. CASE x \notin gone
    <3>1. new = Append(old, x)
      BY <1>d, <2>1, <2>3, <2>7 DEF Pushed, new
    <3>2. /\ Append(old, x) \in Seq(R)
          /\ NoneIn(Append(old, x), H) <=> NoneIn(old, H) /\ x \notin H
          /\ \A v : LastIn(Append(old, x), H, v) <=>
               IF x \in H THEN v = x ELSE LastIn(old, H, v)
      BY <2>3, <2>4, Queued
    <3> QED BY <2>4, <2>5, <3>1, <3>2
  <2> QED BY <2>6, <2>7
<1>5. n \in T
  <2>1. n \in 0 .. n
    BY <1>1
  <2> HIDE DEF T
  <2> QED BY <1>1, <1>3, <1>4, <2>1, Counting
<1>6. h[n] = Nowhere!Without(list, gone)
  BY <1>2, WithoutIsDeclaring DEF DeclaringPasses, n, d
<1> QED BY <1>5, <1>6 DEF LastIn, NoneIn, n

(* What the background page hears of the preference, and its start-up get. *)
Heard == Nowhere!Events({"background", "changed"})
Startup == {Nowhere!Get("background")}

StorageCalls == Nowhere!Gets(Nowhere!Asking) \cup Nowhere!Sets
Notices == Nowhere!Events(Nowhere!Asking \cup {"changed"})

(* The last thing on its way to the background page is what the preference *)
(* is; if nothing is, and nothing will be from the start-up get, the copy  *)
(* is.                                                                     *)
NowhereInv ==
  /\ preference \in BOOLEAN
  /\ calls \in Seq(StorageCalls) /\ inbox \in Seq(Notices)
  /\ \A v : LastIn(inbox, Heard, v) => v.value = preference
  /\ NoneIn(inbox, Heard) /\ NoneIn(calls, Startup) => httpNowhereOn = preference

(* Notices and calls by their fields.                                      *)
LEMMA NoticesMean ==
  /\ \A who \in Nowhere!Asking \cup {"changed"}, b \in BOOLEAN :
       LET e == [for |-> who, value |-> b]
       IN  e \in Notices /\ e.value = b /\ (e \in Heard <=> who \in {"background", "changed"})
  /\ \A e \in Notices : /\ e.for \in Nowhere!Asking \cup {"changed"} /\ e.value \in BOOLEAN
                        /\ e \in Heard <=> e.for \in {"background", "changed"}
BY DEF Notices, Heard, Nowhere!Events, Nowhere!Asking

LEMMA CallsMean ==
  /\ \A who \in Nowhere!Asking :
       /\ Nowhere!Get(who) \in StorageCalls
       /\ Nowhere!Get(who) \in Startup <=> who = "background"
  /\ \A b \in BOOLEAN : Nowhere!SetTo(b) \in StorageCalls /\ Nowhere!SetTo(b) \notin Startup
  /\ \A c \in StorageCalls :
       /\ c.op = "get" => c.who \in Nowhere!Asking /\ (c \in Startup <=> c.who = "background")
       /\ c.op = "set" => c.value \in BOOLEAN /\ c \notin Startup
<1>1. ASSUME NEW who \in Nowhere!Asking
      PROVE  /\ Nowhere!Get(who) \in StorageCalls
             /\ Nowhere!Get(who) \in Startup <=> who = "background"
  BY DEF StorageCalls, Startup, Nowhere!Get, Nowhere!Gets
<1>2. ASSUME NEW b \in BOOLEAN
      PROVE  Nowhere!SetTo(b) \in StorageCalls /\ Nowhere!SetTo(b) \notin Startup
  <2>1. Nowhere!SetTo(b).op = "set" /\ Nowhere!Get("background").op = "get"
    BY DEF Nowhere!SetTo, Nowhere!Get
  <2> QED BY <2>1 DEF StorageCalls, Startup, Nowhere!SetTo, Nowhere!Sets
<1>3. ASSUME NEW c \in StorageCalls
      PROVE  /\ c.op = "get" => c.who \in Nowhere!Asking
                                /\ (c \in Startup <=> c.who = "background")
             /\ c.op = "set" => c.value \in BOOLEAN /\ c \notin Startup
  BY DEF StorageCalls, Startup, Nowhere!Get, Nowhere!Gets, Nowhere!Sets
<1> QED BY <1>1, <1>2, <1>3

(* The start-up get is made at once.                                       *)
LEMMA NowhereStarts == Nowhere!Init => NowhereInv
<1> SUFFICES ASSUME Nowhere!Init PROVE NowhereInv
  OBVIOUS
<1> DEFINE get == Nowhere!Get("background")
<1>1. calls = <<get>> /\ inbox = <<>> /\ preference \in BOOLEAN
  BY DEF Nowhere!Init
<1>2. get \in StorageCalls /\ get \in Startup
  BY CallsMean DEF Nowhere!Asking
<1> HIDE DEF get
<1>3. calls \in Seq(StorageCalls) /\ inbox \in Seq(Notices)
  BY <1>1, <1>2
<1>4. ~NoneIn(calls, Startup)
  BY <1>1, <1>2 DEF NoneIn, NoneTo
<1>5. \A v : ~LastIn(inbox, Heard, v)
  BY <1>1 DEF LastIn, LastTo
<1> QED BY <1>1, <1>3, <1>4, <1>5 DEF NowhereInv

(* A value written is heard of, unless it is the old one.                  *)
LEMMA WrittenIsHeard ==
  ASSUME NowhereInv, NEW b \in BOOLEAN, Nowhere!Written(b)
  PROVE  /\ preference' \in BOOLEAN /\ inbox' \in Seq(Notices)
         /\ \A v : LastIn(inbox', Heard, v) => v.value = preference'
         /\ NoneIn(inbox', Heard) => NoneIn(inbox, Heard) /\ preference' = preference
<1> DEFINE e == [for |-> "changed", value |-> b]
<1>1. e \in Notices /\ e \in Heard /\ e.value = b
  BY NoticesMean
<1>2. preference' = b /\ inbox' = IF b = preference THEN inbox ELSE Append(inbox, e)
  BY DEF Nowhere!Written
<1> HIDE DEF e
<1>3. CASE b = preference
  BY <1>2, <1>3 DEF NowhereInv
<1>4. CASE b # preference
  <2>1. inbox' = Append(inbox, e) /\ inbox \in Seq(Notices)
    BY <1>2, <1>4 DEF NowhereInv
  <2>2. /\ inbox' \in Seq(Notices)
        /\ NoneIn(inbox', Heard) <=> NoneIn(inbox, Heard) /\ e \notin Heard
        /\ \A v : LastIn(inbox', Heard, v) <=>
             IF e \in Heard THEN v = e ELSE LastIn(inbox, Heard, v)
    BY <1>1, <2>1, Queued
  <2> QED BY <1>1, <1>2, <2>2
<1> QED BY <1>3, <1>4

(* Every step keeps the invariant.                                         *)
LEMMA NowhereStep == NowhereInv /\ Nowhere!Next => NowhereInv'
<1> SUFFICES ASSUME NowhereInv, Nowhere!Next PROVE NowhereInv'
  OBVIOUS
<1>t. preference \in BOOLEAN /\ calls \in Seq(StorageCalls) /\ inbox \in Seq(Notices)
  BY DEF NowhereInv
<1>c. ASSUME calls # <<>>
      PROVE  /\ Tail(calls) \in Seq(StorageCalls) /\ Head(calls) \in StorageCalls
             /\ NoneIn(calls, Startup) <=> NoneIn(Tail(calls), Startup) /\ Head(calls) \notin Startup
  BY <1>t, <1>c, Dequeued
<1>i. ASSUME inbox # <<>>
      PROVE  /\ Tail(inbox) \in Seq(Notices) /\ Head(inbox) \in Notices
             /\ NoneIn(inbox, Heard) <=> NoneIn(Tail(inbox), Heard) /\ Head(inbox) \notin Heard
             /\ \A v : LastIn(Tail(inbox), Heard, v) => LastIn(inbox, Heard, v)
             /\ Head(inbox) \in Heard /\ NoneIn(Tail(inbox), Heard)
                  => LastIn(inbox, Heard, Head(inbox))
  BY <1>t, <1>i, Dequeued
<1>a. ASSUME NEW c \in StorageCalls, calls' = Append(calls, c)
      PROVE  /\ calls' \in Seq(StorageCalls)
             /\ NoneIn(calls', Startup) => NoneIn(calls, Startup) /\ c \notin Startup
  <2>1. /\ Append(calls, c) \in Seq(StorageCalls)
        /\ NoneIn(Append(calls, c), Startup) <=> NoneIn(calls, Startup) /\ c \notin Startup
    BY <1>t, Queued
  <2> QED BY <1>a, <2>1
<1>1. CASE Nowhere!ExecuteGet
  <2> DEFINE e == [for |-> Head(calls).who, value |-> preference]
  <2>1. /\ calls # <<>> /\ Head(calls).op = "get" /\ calls' = Tail(calls)
        /\ inbox' = Append(inbox, e)
        /\ preference' = preference /\ httpNowhereOn' = httpNowhereOn
    BY <1>1 DEF Nowhere!ExecuteGet
  <2>2. Head(calls).who \in Nowhere!Asking
        /\ (Head(calls) \in Startup <=> Head(calls).who = "background")
    BY <1>c, <2>1, CallsMean
  <2>3. e \in Notices /\ e.value = preference /\ (Head(calls) \in Startup => e \in Heard)
    BY <1>t, <2>2, NoticesMean
  <2> HIDE DEF e
  <2>4. /\ Append(inbox, e) \in Seq(Notices)
        /\ NoneIn(Append(inbox, e), Heard) <=> NoneIn(inbox, Heard) /\ e \notin Heard
        /\ \A v : LastIn(Append(inbox, e), Heard, v) <=>
             IF e \in Heard THEN v = e ELSE LastIn(inbox, Heard, v)
    BY <1>t, <2>3, Queued
  <2>5. NoneIn(inbox', Heard) /\ NoneIn(calls', Startup)
          => NoneIn(inbox, Heard) /\ NoneIn(calls, Startup)
    BY <1>c, <2>1, <2>3, <2>4
  <2>6. \A v : LastIn(inbox', Heard, v) => v.value = preference'
    BY <2>1, <2>3, <2>4 DEF NowhereInv
  <2>7. calls' \in Seq(StorageCalls) /\ inbox' \in Seq(Notices)
    BY <1>c, <2>1, <2>4
  <2> QED BY <2>1, <2>5, <2>6, <2>7 DEF NowhereInv
<1>2. CASE Nowhere!ExecuteSet
  <2>1. /\ calls # <<>> /\ Head(calls).op = "set" /\ calls' = Tail(calls)
        /\ Nowhere!Written(Head(calls).value) /\ httpNowhereOn' = httpNowhereOn
    BY <1>2 DEF Nowhere!ExecuteSet
  <2>2. Head(calls).value \in BOOLEAN /\ Head(calls) \notin Startup
    BY <1>c, <2>1, CallsMean
  <2>3. calls' \in Seq(StorageCalls)
        /\ (NoneIn(calls', Startup) => NoneIn(calls, Startup))
    BY <1>c, <2>1, <2>2
  <2> QED BY <2>1, <2>2, <2>3, WrittenIsHeard DEF NowhereInv
<1>3. CASE Nowhere!RemoteChange
  <2>1. Nowhere!Written(~preference) /\ calls' = calls /\ httpNowhereOn' = httpNowhereOn
    BY <1>3 DEF Nowhere!RemoteChange
  <2>2. (~preference) \in BOOLEAN
    BY <1>t
  <2> QED BY <2>1, <2>2, WrittenIsHeard DEF NowhereInv
<1>4. CASE Nowhere!LoadPref \/ Nowhere!OnChanged
  <2>1. /\ inbox # <<>> /\ Head(inbox).for \in {"background", "changed"}
        /\ inbox' = Tail(inbox) /\ httpNowhereOn' = Head(inbox).value
        /\ preference' = preference /\ calls' = calls
    BY <1>4 DEF Nowhere!LoadPref, Nowhere!OnChanged, Nowhere!Deliver
  <2>2. Head(inbox) \in Heard
    BY <1>i, <2>1, NoticesMean
  <2> QED BY <1>i, <2>1, <2>2 DEF NowhereInv
<1>5. CASE Nowhere!PopupReady \/ Nowhere!ToggleFound
  <2>1. /\ inbox # <<>> /\ Head(inbox).for \notin {"background", "changed"}
        /\ inbox' = Tail(inbox) /\ httpNowhereOn' = httpNowhereOn /\ preference' = preference
        /\ calls' = calls \/ calls' = Append(calls, Nowhere!SetTo(~Head(inbox).value))
    BY <1>5 DEF Nowhere!PopupReady, Nowhere!ToggleFound, Nowhere!Deliver
  <2>2. Head(inbox) \notin Heard /\ Head(inbox).value \in BOOLEAN
    BY <1>i, <2>1, NoticesMean
  <2>3. Nowhere!SetTo(~Head(inbox).value) \in StorageCalls
        /\ Nowhere!SetTo(~Head(inbox).value) \notin Startup
    <3>1. (~Head(inbox).value) \in BOOLEAN
      BY <2>2
    <3> QED BY <3>1, CallsMean
  <2>4. calls' \in Seq(StorageCalls) /\ (NoneIn(calls', Startup) => NoneIn(calls, Startup))
    BY <1>t, <1>a, <2>1, <2>3
  <2> QED BY <1>i, <2>1, <2>2, <2>4 DEF NowhereInv
<1>6. CASE Nowhere!OpenPopup \/ Nowhere!Click
  <2>1. /\ inbox' = inbox /\ httpNowhereOn' = httpNowhereOn /\ preference' = preference
        /\ \E who \in {"popup", "toggle"} : calls' = Append(calls, Nowhere!Get(who))
    BY <1>6 DEF Nowhere!OpenPopup, Nowhere!Click
  <2>2. PICK who \in {"popup", "toggle"} : calls' = Append(calls, Nowhere!Get(who))
    BY <2>1
  <2>3. Nowhere!Get(who) \in StorageCalls /\ Nowhere!Get(who) \notin Startup
    BY CallsMean DEF Nowhere!Asking
  <2>4. calls' \in Seq(StorageCalls) /\ (NoneIn(calls', Startup) => NoneIn(calls, Startup))
    BY <1>t, <1>a, <2>2, <2>3
  <2> QED BY <2>1, <2>4 DEF NowhereInv
<1>7. CASE Nowhere!ClosePopup
  <2> DEFINE goneCalls == Nowhere!Gets({"popup", "toggle"})
             goneNotices == Nowhere!Events({"popup", "toggle"})
  <2>1. /\ calls' = Nowhere!Without(calls, goneCalls)
        /\ inbox' = Nowhere!Without(inbox, goneNotices)
        /\ httpNowhereOn' = httpNowhereOn /\ preference' = preference
    BY <1>7 DEF Nowhere!ClosePopup
  <2>2. Startup \cap goneCalls = {}
    BY DEF Startup, Nowhere!Get, Nowhere!Gets
  <2>3. Heard \cap goneNotices = {}
    BY DEF Heard, Nowhere!Events
  <2> HIDE DEF goneCalls, goneNotices
  <2>4. /\ Nowhere!Without(calls, goneCalls) \in Seq(StorageCalls)
        /\ NoneIn(Nowhere!Without(calls, goneCalls), Startup) <=> NoneIn(calls, Startup)
    BY <1>t, <2>2, Dropped
  <2>5. /\ Nowhere!Without(inbox, goneNotices) \in Seq(Notices)
        /\ NoneIn(Nowhere!Without(inbox, goneNotices), Heard) <=> NoneIn(inbox, Heard)
        /\ \A v : LastIn(Nowhere!Without(inbox, goneNotices), Heard, v) <=> LastIn(inbox, Heard, v)
    BY <1>t, <2>3, Dropped
  <2> QED BY <2>1, <2>4, <2>5 DEF NowhereInv
<1>8. CASE Nowhere!Restart
  <2> DEFINE rest == Nowhere!Without(calls, Nowhere!Gets(Nowhere!Asking))
             get == Nowhere!Get("background")
  <2>1. inbox' = <<>> /\ calls' = Append(rest, get) /\ preference' = preference
    BY <1>8 DEF Nowhere!Restart
  <2>2. rest \in Seq(StorageCalls)
    <3>1. {} \cap Nowhere!Gets(Nowhere!Asking) = {}
      OBVIOUS
    <3> QED BY <1>t, <3>1, Dropped
  <2>3. get \in StorageCalls /\ get \in Startup
    BY CallsMean DEF Nowhere!Asking
  <2> HIDE DEF rest, get
  <2>4. /\ Append(rest, get) \in Seq(StorageCalls)
        /\ NoneIn(Append(rest, get), Startup) <=> NoneIn(rest, Startup) /\ get \notin Startup
    BY <2>2, <2>3, Queued
  <2>5. inbox' \in Seq(Notices) /\ \A v : ~LastIn(inbox', Heard, v)
    BY <2>1 DEF LastIn, LastTo
  <2> QED BY <1>t, <2>1, <2>3, <2>4, <2>5 DEF NowhereInv
<1> QED BY <1>1, <1>2, <1>3, <1>4, <1>5, <1>6, <1>7, <1>8
     DEF Nowhere!Next, Nowhere!Storage, Nowhere!Pages

(* It says what is claimed.                                                *)
LEMMA NowhereSettles == NowhereInv => Nowhere!CopyCorrectWhenSettled
BY DEF NowhereInv, NoneIn, NoneTo, Nowhere!CopyCorrectWhenSettled, Nowhere!Settled

(* background.js 42-56: whatever order the start-up get, clicks, synced    *)
(* changes and restarts come in, and however many: once nothing is under   *)
(* way, the background page's copy is the preference.                      *)
THEOREM NowhereCopyCorrect == PartsSpec => []CopyCorrectWhenSettled
<1> DEFINE Inv == part = "nowhere" => NowhereInv
<1>1. PartsInit => Inv
  BY NowhereStarts DEF PartsInit
<1>2. Inv /\ [PartsNext]_partsVars => Inv'
  <2> SUFFICES ASSUME part' = "nowhere", Inv, [PartsNext]_partsVars PROVE NowhereInv'
    OBVIOUS
  <2>1. CASE part = "nowhere" /\ Nowhere!Next
    BY <2>1, NowhereStep
  <2>2. CASE UNCHANGED partsVars
    BY <2>2 DEF partsVars, nowhereVars, NowhereInv
  <2> QED BY <2>1, <2>2 DEF PartsNext
<1>3. Inv => CopyCorrectWhenSettled
  BY NowhereSettles DEF CopyCorrectWhenSettled
<1> QED BY <1>1, <1>2, <1>3, PTL DEF PartsSpec

-----------------------------------------------------------------------------
(* The lookup of a host's rulesets.                                        *)

LookupInv == host \in Seq(Label) /\ host # <<>>

LEMMA OneLabel ==
  ASSUME NEW S, NEW s \in [1 .. 1 -> S]
  PROVE  s \in Seq(S) /\ s # <<>>
<1>1. ASSUME NEW n \in Nat, NEW u \in [1 .. n -> S] PROVE u \in Seq(S)
  OBVIOUS
<1>2. s \in Seq(S)
  BY <1>1
<1>3. 1 \in DOMAIN s
  OBVIOUS
<1>4. 1 \notin DOMAIN << >>
  OBVIOUS
<1>5. s # << >>
  BY <1>3, <1>4, Zenon
<1> QED BY <1>2, <1>5

(* At most one wildcard, counted or compared.                              *)
LEMMA CountedStars ==
  ASSUME NEW t \in Lookup!TargetKeys
  PROVE  t \in Seq(Label \cup {Star}) /\ OneStar(t)
<1> DEFINE stars == {i \in DOMAIN t : t[i] = Star}
<1>1. PICK n \in 1 .. MaxLabels : t \in [1 .. n -> Label \cup {Star}]
  BY DEF Lookup!TargetKeys, Lookup!Names, Lookup!Star, Star
<1>2. IsFiniteSet(stars)
  <2>1. n \in Nat /\ stars \subseteq 1 .. n
    BY <1>1, LookupAssumption
  <2>2. IsFiniteSet(1 .. n)
    BY <2>1, FS_Interval
  <2> QED BY <2>1, <2>2, FS_Subset
<1>3. Cardinality(stars) <= 1
  BY DEF Lookup!TargetKeys, Lookup!Stars, Lookup!Star, Star, Lookup!Cardinality, Cardinality,
         Lookup!IsFiniteSet, IsFiniteSet
<1>4. ASSUME NEW i \in stars, NEW j \in stars, i # j PROVE FALSE
  <2>1. {i, j} \subseteq stars
    OBVIOUS
  <2>2. Cardinality({i, j}) = 2
    <3>1. Cardinality({i}) = 1 /\ IsFiniteSet({i})
      BY FS_Singleton
    <3>2. Cardinality({i} \cup {j}) = Cardinality({i}) + 1
      BY <1>4, <3>1, FS_AddElement
    <3>3. {i} \cup {j} = {i, j}
      OBVIOUS
    <3> QED BY <3>1, <3>2, <3>3
  <2>3. Cardinality({i, j}) <= Cardinality(stars)
    BY <1>2, <2>1, FS_Subset
  <2>4. Cardinality(stars) \in Nat
    BY <1>2, FS_CardinalityType
  <2> QED BY <1>3, <2>2, <2>3, <2>4
<1>5. OneStar(t)
  BY <1>4 DEF OneStar
<1>6. t \in Seq(Label \cup {Star})
  BY <1>1, LookupAssumption
<1> QED BY <1>5, <1>6

LEMMA LookupInit == host \in [{1} -> Label] => LookupInv
<1> SUFFICES ASSUME host \in [{1} -> Label] PROVE LookupInv
  OBVIOUS
<1>1. host \in [1 .. 1 -> Label]
  OBVIOUS
<1> QED BY <1>1, OneLabel DEF LookupInv

(* A longer or a new host name is looked up.                               *)
LEMMA LookupStep ==
  (part = "lookup" => LookupInv) /\ [PartsNext]_partsVars => (part = "lookup" => LookupInv)'
<1> SUFFICES ASSUME part' = "lookup", part = "lookup" => LookupInv, [PartsNext]_partsVars
             PROVE  LookupInv'
  OBVIOUS
<1>1. CASE part = "lookup" /\ Lookup!Next
  BY <1>1 DEF LookupInv, Lookup!Next
<1>2. CASE UNCHANGED partsVars
  BY <1>2 DEF partsVars, LookupInv
<1> QED BY <1>1, <1>2 DEF PartsNext

(* HTTPSRules.js 639-661: for every set of labels and however many of      *)
(* them a host name has.                                                   *)
THEOREM LookupProbesMatchDocs == PartsSpec => []ProbesMatchDocs
<1> DEFINE Inv == part = "lookup" => LookupInv
<1>1. PartsInit => Inv
  BY LookupInit DEF PartsInit, Lookup!Init
<1>2. Inv /\ [PartsNext]_partsVars => Inv'
  BY LookupStep
<1>3. Inv => ProbesMatchDocs
  <2> SUFFICES ASSUME LookupInv, NEW t \in Lookup!TargetKeys
               PROVE  Lookup!Contains(Lookup!Probes(host), t) <=> Lookup!Covers(t, host)
    BY DEF ProbesMatchDocs, Lookup!ProbesMatchDocs
  <2>1. Star \notin Label
    BY LookupAssumption DEF Star
  <2>2. Contains(Probes(host), t) <=> Covers(t, host)
    BY <2>1, CountedStars, ProbesAreCovers DEF LookupInv
  <2>3. Lookup!Probes(host) = Probes(host)
    BY DEF Lookup!Probes, Probes, Lookup!Star, Star
  <2>4. Lookup!Contains(Lookup!Probes(host), t) <=> Contains(Probes(host), t)
    BY <2>3 DEF Lookup!Contains, Contains
  <2>5. Lookup!Covers(t, host) <=> Covers(t, host)
    BY DEF Lookup!Covers, Covers, Lookup!LeftWildcard, LeftWildcard, Lookup!Star, Star,
           Lookup!IsSuffix, IsSuffix, Lookup!IsPrefix, IsPrefix, Lookup!Reverse, Reverse
  <2> QED BY <2>2, <2>4, <2>5
<1> QED BY <1>1, <1>2, <1>3, PTL DEF PartsSpec

(* HTTPSRules.js 569-577: for every database whose targets have at most    *)
(* one wildcard, every set of labels and however long a host name is.      *)
THEOREM LookupAnswerComplete == PartsSpec => []AnswerComplete
<1> DEFINE Inv == part = "lookup" => LookupInv
<1>1. PartsInit => Inv
  BY LookupInit DEF PartsInit, Lookup!Init
<1>2. Inv /\ [PartsNext]_partsVars => Inv'
  BY LookupStep
<1>3. Inv => AnswerComplete
  <2> SUFFICES ASSUME LookupInv PROVE Lookup!AnswerComplete
    BY DEF AnswerComplete
  <2> DEFINE order == [r \in DOMAIN Database |-> r]
             answer == Lookup!Applicable
             ids == DOMAIN Database
  <2>1. order \in Seq(ids) /\ IsInjective(order) /\ Range(order) = ids
    <3>1. ids = 1 .. Len(Database) /\ Len(Database) \in Nat
      BY LookupAssumption
    <3> QED BY <3>1 DEF IsInjective, Range
  <2>2. Star \notin Label
    BY LookupAssumption DEF Star
  <2>3. answer = AnswerFor(host, order, Database)
    <3>1. Lookup!Probes(host) = Probes(host)
      BY DEF Lookup!Probes, Probes, Lookup!Star, Star
    <3>2. ASSUME NEW s PROVE Lookup!Merge(s) = Merge(s)
      BY DEF Lookup!Merge, Merge, Lookup!setInsert, setInsert, Lookup!FoldLeft, FoldLeft,
             Lookup!MapThenFoldSet, MapThenFoldSet, Lookup!Contains, Contains, Lookup!Max, Max
    <3>3. ASSUME NEW t PROVE Lookup!RulesetsByTarget(t) = Declaring(t, order, Database)
      BY DEF Lookup!RulesetsByTarget, Lookup!Declaring, Declaring, Lookup!FoldLeft, FoldLeft,
             Lookup!MapThenFoldSet, MapThenFoldSet, Lookup!Max, Max
    <3> HIDE DEF order
    <3>4. [i \in DOMAIN Probes(host) |-> Lookup!RulesetsByTarget(Probes(host)[i])]
            = [i \in DOMAIN Probes(host) |-> Declaring(Probes(host)[i], order, Database)]
      BY <3>3
    <3> QED BY <3>1, <3>2, <3>4 DEF Lookup!Applicable, AnswerFor
  <2> HIDE DEF order, answer
  <2>4. IsAnswer(answer, ids, host, order, Database)
    <3>1. host \in Seq(Label) /\ host # <<>>
      BY DEF LookupInv
    <3>2. ValidTargets(ids, Database, Label)
      BY LookupAssumption DEF ValidTargets, OneStar, Star
    <3> QED BY <2>1, <2>2, <2>3, <3>1, <3>2, AnswersAreComplete, Zenon
  <2>5. \A t : Lookup!Covers(t, host) <=> Covers(t, host)
    BY DEF Lookup!Covers, Covers, Lookup!LeftWildcard, LeftWildcard, Lookup!Star, Star,
           Lookup!IsSuffix, IsSuffix, Lookup!IsPrefix, IsPrefix, Lookup!Reverse, Reverse
  <2>6. \A r : Lookup!Contains(answer, r) <=> r \in Range(answer)
    <3>1. DOMAIN answer = 1 .. Len(answer)
      BY <2>4 DEF IsAnswer
    <3> QED BY <3>1 DEF Lookup!Contains, Range
  <2>8. Lookup!IsInjective(answer)
    BY <2>4 DEF IsAnswer, Lookup!IsInjective, IsInjective
  <2> QED BY <2>1, <2>4, <2>5, <2>6, <2>8 DEF IsAnswer, Lookup!AnswerComplete, answer
<1> QED BY <1>1, <1>2, <1>3, PTL DEF PartsSpec

-----------------------------------------------------------------------------
(* FirefoxRules: how far loading can be.                                   *)

LoadInv ==
  /\ TypeOK
  /\ KeptCustoms \subseteq loaded /\ loaded \subseteq Stored
  /\ \A id \in Id : stale[id] # "none" => id \in Stored

-----------------------------------------------------------------------------
(* What a lookup loads.                                                    *)

(* The user's rulesets are ids like any other.                             *)
LEMMA StoredAreIds == KeptCustoms \subseteq Stored /\ Stored \subseteq Id
BY DEF KeptCustoms, Registered, Stored, Id, Customs, Range

(* It loads nothing whose name a ruleset of the user has.                  *)
LEMMA LoadsStored ==
  ASSUME NEW ids, NEW l, KeptCustoms \subseteq l, l \subseteq Stored
  PROVE  LoadedBy(ids, l) \subseteq Stored
<1> SUFFICES ASSUME NEW k \in DOMAIN ids, Reads(ids, k, l)
             PROVE  ids[k] \in Stored
  BY DEF LoadedBy
<1>1. NamesOf(KeptCustoms) \subseteq NamesOf(l)
  BY DEF NamesOf
<1> QED BY <1>1 DEF Reads, Stored

(* A ruleset with a name of its own that is not loaded is one of the       *)
(* database, and no loaded ruleset has the name.                           *)
LEMMA NamesApart ==
  ASSUME NEW l, KeptCustoms \subseteq l, l \subseteq Stored,
         NEW id \in Own \ l
  PROVE  /\ id \in DbIds /\ Content[id].form = "ok" /\ NameOf[id] \notin NamesOf(KeptCustoms)
         /\ \A other \in l : NameOf[other] # NameOf[id]
<1>1. id \in DbIds /\ Content[id].form = "ok" /\ NameOf[id] \notin NamesOf(KeptCustoms)
  BY DEF Own, Stored
<1>2. \A other \in l : NameOf[other] # NameOf[id]
  BY DEF Own, Shared
<1> QED BY <1>1, <1>2

(* And everything with a name of its own that it meets.                    *)
LEMMA LoadsAllMet ==
  ASSUME NEW ids, NEW l, KeptCustoms \subseteq l, l \subseteq Stored,
         NEW k \in DOMAIN ids, ids[k] \in Own
  PROVE  ids[k] \in LoadedBy(ids, l)
<1> SUFFICES ASSUME ids[k] \notin l PROVE Reads(ids, k, l)
  BY DEF LoadedBy
<1>1. /\ ids[k] \in DbIds /\ Content[ids[k]].form = "ok"
      /\ NameOf[ids[k]] \notin NamesOf(KeptCustoms)
      /\ \A other \in l : NameOf[other] # NameOf[ids[k]]
  BY NamesApart
<1>2. NameOf[ids[k]] \notin NamesOf(l)
  BY <1>1 DEF NamesOf
<1>3. \A j \in 1 .. (k - 1) :
        /\ ids[j] \in DbIds /\ Content[ids[j]].form = "ok" /\ ids[j] # ids[k]
        => NameOf[ids[j]] # NameOf[ids[k]]
  BY <1>1 DEF Own, Shared, Stored
<1> QED BY <1>1, <1>2, <1>3 DEF Reads

-----------------------------------------------------------------------------
(* The invariant.                                                          *)

(* Flags, chosen or by default, are Booleans.                              *)
LEMMA ChosenIsBoolean ==
  ASSUME NEW p, NEW m \in BOOLEAN, NEW id \in Id
  PROVE  Default[m][id] \in BOOLEAN /\ Chosen(p, m, id) \in BOOLEAN
BY DEF Default, Chosen

LEMMA LoadInvInit == Init => LoadInv
BY StoredAreIds, ChosenIsBoolean DEF Init, LoadInv, TypeOK

LEMMA LoadInvNext == LoadInv /\ [Next]_vars => LoadInv'
<1> SUFFICES ASSUME LoadInv, [Next]_vars PROVE LoadInv'
  OBVIOUS
<1> USE DEF LoadInv, TypeOK
<1>1. ASSUME NEW h \in Host, NEW matching \in SUBSET FoundFor(h), Visit(h, matching)
      PROVE  LoadInv'
  <2>1. /\ loaded \subseteq LoadedAfter(h) /\ LoadedAfter(h) \subseteq Stored
        /\ matching \subseteq LoadedAfter(h)
    BY LoadsStored DEF LoadedAfter, LoadedBy, FoundFor
  <2>2. loaded' \subseteq Id /\ active' \in [Id -> BOOLEAN]
    BY <1>1, <2>1, StoredAreIds, ChosenIsBoolean DEF Visit
  <2> QED BY <1>1, <2>1, <2>2 DEF Visit
<1>2. ASSUME NEW id \in Id, Toggle(id)
      PROVE  LoadInv'
  BY <1>2 DEF Toggle, lists
<1>3. ASSUME NEW id \in Id, StaleToggle(id)
      PROVE  LoadInv'
  BY <1>3 DEF StaleToggle
<1>4. CASE NewPage
  BY <1>4 DEF NewPage, rules
<1>5. CASE Reset
  <2>1. pref' \in [Name -> {"on", "off", "unset"}] /\ active' \in [Id -> BOOLEAN]
    BY <1>5, ChosenIsBoolean DEF Reset
  <2> QED BY <1>5, <2>1 DEF Reset, lists
<1>6. CASE SessionRestored
  BY <1>6 DEF SessionRestored, rules, lists
<1>7. ASSUME NEW m \in BOOLEAN, ReadFiles(m)
      PROVE  /\ pref' \in [Name -> {"on", "off", "unset"}] /\ mixed' \in BOOLEAN
             /\ active' \in [Id -> BOOLEAN]
             /\ loaded' = KeptCustoms /\ loaded' \subseteq Stored /\ loaded' \subseteq Id
  BY <1>7, StoredAreIds, ChosenIsBoolean DEF ReadFiles
<1>8. ASSUME KeepObjects
      PROVE  /\ listed' = {} /\ stale' \in [Id -> {"on", "off", "none"}]
             /\ \A id \in Id : stale'[id] # "none" => id \in Stored
  BY <1>8 DEF KeepObjects
<1>9. CASE MixedPrefChanged
  <2>1. CASE ready
    BY <1>7, <1>8, <1>9, <2>1 DEF MixedPrefChanged
  <2>2. CASE ~ready
    BY <1>9, <2>2 DEF MixedPrefChanged, rules, lists
  <2> QED BY <2>1, <2>2
<1>10. CASE PurgeHistory
  BY <1>7, <1>8, <1>10 DEF PurgeHistory
<1>11. CASE Restart
  BY <1>7, <1>11 DEF Restart
<1>12. CASE UNCHANGED vars
  BY <1>12 DEF vars, rules, lists
<1> QED
  BY <1>1, <1>2, <1>3, <1>4, <1>5, <1>6, <1>9, <1>10, <1>11, <1>12
  DEF Next, MenuToggle, PopupToggle

-----------------------------------------------------------------------------
(* Answers.                                                                *)

LEMMA AnswersFromInv ==
  ASSUME LoadInv
  PROVE  AnswersAsIfAllLoaded
<1> SUFFICES ASSUME NEW h \in Host, ~Malformed(h)
             PROVE  Answer(h, LoadedAfter(h) \ Shared) = Answer(h, Own)
  BY DEF AnswersAsIfAllLoaded
<1> DEFINE ids == Met[h]
<1>1. LoadedAfter(h) = LoadedBy(ids, loaded)
  BY DEF LoadedAfter
<1>2. LoadedBy(ids, loaded) \subseteq Stored
  BY LoadsStored DEF LoadInv
<1>3. Own \cap Range(ids) \subseteq LoadedBy(ids, loaded)
  BY LoadsAllMet DEF LoadInv, Range
<1>4. (LoadedAfter(h) \ Shared) \cap Range(ids) = Own \cap Range(ids)
  BY <1>1, <1>2, <1>3 DEF Own
<1> QED BY <1>4 DEF Answer

(* Of the rulesets that have their name to themselves, every lookup        *)
(* answers what it would had every ruleset been read at start-up:          *)
(* HTTPSRules.js 307-322 and 583-660.                                      *)
THEOREM LookupsAnswerAsIfAllLoaded == Spec => []AnswersAsIfAllLoaded
<1>1. LoadInv => AnswersAsIfAllLoaded
  BY AnswersFromInv
<1> QED BY <1>1, LoadInvInit, LoadInvNext, PTL DEF Spec

-----------------------------------------------------------------------------
(* The contract.                                                           *)

(* What the contract sees of the state: the flag of an object, or what its *)
(* constructor would make of the preferences.                              *)
On == [id \in Own |-> IF id \in loaded THEN active[id] ELSE Chosen(pref, mixed, id)]
ChosenOwn == [n \in NamesOf(Own) |-> pref[n]]

(* Names of its own are a ruleset's own.                                   *)
LEMMA OwnNames ==
  /\ Own \subseteq Stored
  /\ \A id \in Own : NameOf[id] \in Name /\ NameOf[id] \in NamesOf(Own)
  /\ \A id \in Own, other \in Stored : NameOf[other] = NameOf[id] => other = id
  /\ \A other \in Stored \ Own : NameOf[other] \notin NamesOf(Own)
<1>1. Own \subseteq Stored /\ \A id \in Own, other \in Stored : NameOf[other] = NameOf[id] => other = id
  BY DEF Own, Shared
<1>2. \A id \in Own : NameOf[id] \in Name /\ NameOf[id] \in NamesOf(Own)
  BY <1>1, StoredAreIds, ContentAssumption DEF NameOf, NamesOf
<1>3. \A other \in Stored \ Own : NameOf[other] \notin NamesOf(Own)
  BY <1>1 DEF NamesOf
<1> QED BY <1>1, <1>2, <1>3

(* Own rulesets' defaults are read from their own preferences.             *)
LEMMA ChosenByOwn ==
  ASSUME NEW m, NEW id \in Own
  PROVE  Chosen(pref, m, id) = IF ChosenOwn[NameOf[id]] = "unset" THEN Default[m][id]
                               ELSE ChosenOwn[NameOf[id]] = "on"
BY OwnNames DEF ChosenOwn, Chosen

(* A choice stored for one ruleset is no other's choice.                   *)
LEMMA Recorded ==
  ASSUME TypeOK, NEW id \in Stored, NEW state, mixed' = mixed,
         pref' = [pref EXCEPT ![NameOf[id]] = state]
  PROVE  /\ ChosenOwn' = IF id \in Own THEN [ChosenOwn EXCEPT ![NameOf[id]] = state]
                         ELSE ChosenOwn
         /\ \A other \in Own : other # id
              => Chosen(pref', mixed', other) = Chosen(pref, mixed, other)
<1>1. \A n \in Name : pref'[n] = IF n = NameOf[id] THEN state ELSE pref[n]
  BY DEF TypeOK
<1>2. NamesOf(Own) \subseteq Name
  BY OwnNames DEF NamesOf
<1>3. ChosenOwn' = [n \in NamesOf(Own) |-> IF n = NameOf[id] THEN state ELSE pref[n]]
  BY <1>1, <1>2 DEF ChosenOwn
<1>4. id \in Own => ChosenOwn' = [ChosenOwn EXCEPT ![NameOf[id]] = state]
  BY <1>3 DEF ChosenOwn
<1>5. id \notin Own => ChosenOwn' = ChosenOwn
  BY <1>3, OwnNames DEF ChosenOwn
<1>6. \A other \in Own : other # id => pref'[NameOf[other]] = pref[NameOf[other]]
  BY <1>1, OwnNames
<1> QED BY <1>4, <1>5, <1>6 DEF Chosen

LEMMA InitImplements == Init => Contract!Init
<1> SUFFICES ASSUME Init PROVE Contract!Init
  OBVIOUS
<1>1. \A id \in KeptCustoms : active[id] = Chosen(pref, mixed, id)
  BY StoredAreIds, ChosenIsBoolean DEF Init
<1>2. loaded = KeptCustoms
  BY DEF Init
<1>3. On = [id \in Own |-> Chosen(pref, mixed, id)]
  BY <1>1, <1>2 DEF On
<1>4. On = [id \in Own |-> IF ChosenOwn[NameOf[id]] = "unset" THEN Default[mixed][id]
                           ELSE ChosenOwn[NameOf[id]] = "on"]
  BY <1>3, ChosenByOwn
<1>5. ChosenOwn \in [NamesOf(Own) -> {"on", "off", "unset"}]
  BY OwnNames DEF Init, ChosenOwn, NamesOf
<1> QED BY <1>4, <1>5 DEF Init, Contract!Init, On, ChosenOwn

(* init() reads the user's files and forgets the rest.                     *)
LEMMA ReadFilesImplements ==
  ASSUME NEW m \in BOOLEAN, ReadFiles(m)
  PROVE  Contract!ReadAnew(m)
<1>1. \A id \in KeptCustoms : active'[id] = Chosen(pref, m, id)
  BY StoredAreIds, ChosenIsBoolean DEF ReadFiles
<1>2. loaded' = KeptCustoms /\ pref' = pref /\ mixed' = m
  BY DEF ReadFiles
<1>3. \A id \in Own : Chosen(pref', mixed', id) = Chosen(pref, m, id)
  BY <1>2
<1>4. On' = [id \in Own |-> Chosen(pref, m, id)]
  BY <1>1, <1>2, <1>3 DEF On
<1>5. On' = [id \in Own |-> IF ChosenOwn[NameOf[id]] = "unset" THEN Default[m][id]
                            ELSE ChosenOwn[NameOf[id]] = "on"]
  BY <1>4, ChosenByOwn
<1>6. ChosenOwn' = ChosenOwn
  BY <1>2 DEF ChosenOwn
<1> QED BY <1>2, <1>5, <1>6 DEF Contract!ReadAnew, On, ChosenOwn

(* What is toggled is in use; nothing is heard of it if it shares a name.  *)
LEMMA ToggleImplements ==
  ASSUME LoadInv, NEW id \in loaded, Toggle(id)
  PROVE  \/ id \in Own /\ \E b \in BOOLEAN : Contract!Switch(id, b)
         \/ UNCHANGED Contract!vars
<1> DEFINE b == active[id] = FALSE
<1>1. id \in Stored /\ id \in Id /\ active[id] \in BOOLEAN
  BY DEF LoadInv, TypeOK
<1>2. /\ pref' = [pref EXCEPT ![NameOf[id]] = Contract!State(b)] /\ mixed' = mixed
      /\ loaded' = loaded /\ active' = [active EXCEPT ![id] = b]
  BY <1>1 DEF Toggle, Contract!State
<1>3. /\ ChosenOwn' = IF id \in Own THEN [ChosenOwn EXCEPT ![NameOf[id]] = Contract!State(b)]
                      ELSE ChosenOwn
      /\ \A other \in Own : other # id
           => Chosen(pref', mixed', other) = Chosen(pref, mixed, other)
  BY <1>1, <1>2, Recorded DEF LoadInv
<1>4. \A other \in Own : On'[other] = IF other = id THEN b ELSE On[other]
  <2> SUFFICES ASSUME NEW other \in Own PROVE On'[other] = IF other = id THEN b ELSE On[other]
    OBVIOUS
  <2>1. other \in Id
    BY OwnNames, StoredAreIds
  <2> HIDE DEF b
  <2> QED BY <1>1, <1>2, <1>3, <2>1 DEF On, LoadInv, TypeOK
<1>5. On' = IF id \in Own THEN [On EXCEPT ![id] = b] ELSE On
  <2>1. On' = [other \in Own |-> On'[other]] /\ On = [other \in Own |-> On[other]]
    BY DEF On
  <2> HIDE DEF b
  <2> QED BY <1>4, <2>1
<1>6. CASE id \in Own
  BY <1>2, <1>3, <1>5, <1>6 DEF Contract!Switch, On, ChosenOwn
<1>7. CASE id \notin Own
  BY <1>2, <1>3, <1>5, <1>7 DEF Contract!vars, On, ChosenOwn
<1> QED BY <1>6, <1>7

(* What an object of before an init() stores is heard of at once if the    *)
(* ruleset is not loaded, and else the next time that it is read.          *)
LEMMA StaleToggleImplements ==
  ASSUME LoadInv, NEW id \in Id, StaleToggle(id)
  PROVE  \/ /\ id \in Own
            /\ \E b \in BOOLEAN : Contract!Switch(id, b) \/ Contract!SwitchUnheard(id, b)
         \/ UNCHANGED Contract!vars
<1> DEFINE b == stale[id] # "on"
<1>1. id \in Stored /\ NameOf[id] \in Name
  BY ContentAssumption DEF LoadInv, StaleToggle, NameOf
<1>2. pref' = [pref EXCEPT ![NameOf[id]] = Contract!State(b)] /\ UNCHANGED <<mixed, loaded, active>>
  BY DEF StaleToggle, Contract!State
<1>3. /\ ChosenOwn' = IF id \in Own THEN [ChosenOwn EXCEPT ![NameOf[id]] = Contract!State(b)]
                      ELSE ChosenOwn
      /\ \A other \in Own : other # id
           => Chosen(pref', mixed', other) = Chosen(pref, mixed, other)
  BY <1>1, <1>2, Recorded DEF LoadInv
<1>4. CASE id \in Own /\ id \in loaded
  <2>1. On' = On
    BY <1>2, <1>3, <1>4 DEF On
  <2> QED BY <1>2, <1>3, <1>4, <2>1 DEF Contract!SwitchUnheard, On, ChosenOwn
<1>5. CASE id \in Own /\ id \notin loaded
  <2>1. Chosen(pref', mixed', id) = b
    BY <1>1, <1>2 DEF Chosen, Contract!State, LoadInv, TypeOK
  <2>2. On' = [On EXCEPT ![id] = b]
    BY <1>1, <1>2, <1>3, <1>5, <2>1 DEF On
  <2> QED BY <1>2, <1>3, <1>5, <2>2 DEF Contract!Switch, On, ChosenOwn
<1>6. CASE id \notin Own
  <2>1. On' = On
    BY <1>2, <1>3, <1>6 DEF On
  <2> QED BY <1>2, <1>3, <1>6, <2>1 DEF Contract!vars, On, ChosenOwn
<1> QED BY <1>4, <1>5, <1>6

(* A reset clears the names of what is loaded, and an own name is cleared  *)
(* only if its ruleset is.                                                 *)
LEMMA ResetImplements ==
  ASSUME LoadInv, Reset
  PROVE  \E ids \in SUBSET Own : Contract!Reset(ids)
<1> DEFINE ids == loaded \cap Own
<1>1. \A id \in Own : NameOf[id] \in NamesOf(loaded) <=> id \in ids
  BY OwnNames DEF NamesOf, LoadInv
<1>2. /\ mixed' = mixed /\ loaded' = loaded
      /\ pref' = [n \in Name |-> IF n \in NamesOf(loaded) THEN "unset" ELSE pref[n]]
      /\ active' = [id \in Id |-> IF id \in loaded THEN Default[mixed][id] ELSE active[id]]
  BY DEF Reset
<1>3. \A id \in Own : id \notin ids => pref'[NameOf[id]] = pref[NameOf[id]]
  BY <1>1, <1>2, OwnNames
<1>4. On' = [id \in Own |-> IF id \in ids THEN Default[mixed][id] ELSE On[id]]
  BY <1>2, <1>3, OwnNames, StoredAreIds DEF On, Chosen
<1>5. \A n \in NamesOf(Own) : n \in NamesOf(loaded) <=> \E id \in ids : NameOf[id] = n
  <2> SUFFICES ASSUME NEW id \in Own
               PROVE  NameOf[id] \in NamesOf(loaded) <=> \E i \in ids : NameOf[i] = NameOf[id]
    BY DEF NamesOf
  <2>1. (\E i \in ids : NameOf[i] = NameOf[id]) => id \in ids
    BY OwnNames
  <2> QED BY <1>1, <2>1
<1>6. ChosenOwn' = [n \in NamesOf(Own) |->
                      IF \E id \in ids : NameOf[id] = n THEN "unset" ELSE ChosenOwn[n]]
  <2>1. NamesOf(Own) \subseteq Name
    BY OwnNames DEF NamesOf
  <2> QED BY <1>2, <1>5, <2>1 DEF ChosenOwn
<1>7. ids \in SUBSET Own
  OBVIOUS
<1> HIDE DEF ids
<1>8. \E s \in SUBSET Own :
        /\ ChosenOwn' = [n \in NamesOf(Own) |->
                           IF \E id \in s : NameOf[id] = n THEN "unset" ELSE ChosenOwn[n]]
        /\ On' = [id \in Own |-> IF id \in s THEN Default[mixed][id] ELSE On[id]]
        /\ mixed' = mixed
  BY <1>2, <1>4, <1>6, <1>7, Zenon
<1> QED BY <1>8, Zenon DEF Contract!Reset, On, ChosenOwn

(* Reading a ruleset finds it as it would have been.                       *)
LEMMA VisitStutters ==
  ASSUME LoadInv, NEW h \in Host, NEW matching, Visit(h, matching)
  PROVE  UNCHANGED Contract!vars
<1>1. loaded \subseteq loaded'
  BY DEF Visit, LoadedAfter, LoadedBy
<1>2. On' = On
  BY <1>1, OwnNames, StoredAreIds DEF Visit, On, Chosen
<1>3. ChosenOwn' = ChosenOwn /\ mixed' = mixed
  BY DEF Visit, ChosenOwn
<1> QED BY <1>2, <1>3 DEF Contract!vars, On, ChosenOwn

LEMMA NextImplements ==
  ASSUME LoadInv, [Next]_vars
  PROVE  [Contract!Next]_(Contract!vars)
<1>1. ASSUME NEW h \in Host, NEW matching \in SUBSET FoundFor(h), Visit(h, matching)
      PROVE  UNCHANGED Contract!vars
  BY <1>1, VisitStutters
<1>2. ASSUME NEW id \in Id, MenuToggle(id) \/ PopupToggle(id)
      PROVE  Contract!Next \/ UNCHANGED Contract!vars
  <2>1. id \in loaded /\ Toggle(id)
    BY <1>2 DEF MenuToggle, PopupToggle, LoadInv, TypeOK
  <2> QED BY <2>1, ToggleImplements DEF Contract!Next
<1>3. ASSUME NEW id \in Id, StaleToggle(id)
      PROVE  Contract!Next \/ UNCHANGED Contract!vars
  BY <1>3, StaleToggleImplements DEF Contract!Next
<1>4. CASE Reset
  BY <1>4, ResetImplements DEF Contract!Next
<1>5. ASSUME NEW m \in BOOLEAN, ReadFiles(m)
      PROVE  Contract!Next
  BY <1>5, ReadFilesImplements DEF Contract!Next
<1>6. ASSUME UNCHANGED rules
      PROVE  UNCHANGED Contract!vars
  BY <1>6 DEF rules, Contract!vars, Chosen
<1>7. MixedPrefChanged => Contract!Next \/ UNCHANGED Contract!vars
  BY <1>5, <1>6 DEF MixedPrefChanged, LoadInv, TypeOK
<1>8. PurgeHistory \/ Restart => Contract!Next
  BY <1>5 DEF PurgeHistory, Restart, LoadInv, TypeOK
<1>9. NewPage \/ SessionRestored \/ UNCHANGED vars => UNCHANGED Contract!vars
  BY <1>6 DEF NewPage, SessionRestored, vars
<1> QED BY <1>1, <1>2, <1>3, <1>4, <1>7, <1>8, <1>9 DEF Next

(* Rulesets with a name of their own that are read when they are needed    *)
(* cannot be told from rulesets that are all there from the start,         *)
(* whatever is switched, reset, forgotten or restarted in between:         *)
(* HTTPSRules.js 29-40, 74-99, 247-322 and 467-474.                        *)
THEOREM LateReadingIsInvisible == Spec => LazyIsInvisible
<1>1. LoadInv /\ [Next]_vars => [Contract!Next]_(Contract!vars)
  BY NextImplements
<1> QED
  BY <1>1, InitImplements, LoadInvInit, LoadInvNext, PTL DEF Spec, LazyIsInvisible, Contract!Spec
=============================================================================
