---------------------------- MODULE FirefoxRules ----------------------------
(***************************************************************************)
(* The rulesets of the Firefox extension (HTTPSRules.js).  The user's own  *)
(* files are read at once; a ruleset of the database is read when a host   *)
(* with one of its targets is looked up for the first time.  init() forgets *)
(* everything read: at start-up, when the history is cleared and when the  *)
(* preferences about mixed content change.  Whether a ruleset is on is     *)
(* kept twice, in a preference under its NAME and in the object made for   *)
(* it; the list of a page's rulesets keeps objects of before an init().    *)
(*                                                                         *)
(* Files and database are given as what they hold.                         *)
(***************************************************************************)
EXTENDS HostTargets, Functions

CONSTANTS
  CustomIds,   \* ids of the user's files, in the order of the directory
  DbIds,       \* ids of rulesets in the database
  Name,        \* names of rulesets
  Content,     \* what an id stands for: [name, form, off, platform, targets]
  DbTargets,   \* the table of targets: [target -> sequence of ids]
  Host,        \* hosts looked up
  MaxListed    \* bound on the length of a page's list

VARIABLES
  pref,        \* the rule_toggle preferences: "on", "off" or "unset"
  allowMixed,  \* what the preferences say of mixed content
  ready,       \* browser_initialised
  mixed,       \* localPlatformRegexp matches "mixedcontent"
  loaded,      \* ids in rulesetsByID; rulesetsByName has their names
  active,      \* the flags of their objects
  listed,      \* ids whose loaded object is in the page's list
  stale        \* flag of the older object in that list, or "none"

rules == <<pref, mixed, loaded, active>>
lists == <<listed, stale>>
vars  == <<rules, allowMixed, ready, lists>>

Customs == Range(CustomIds)
Id == Customs \cup DbIds

(* form: "ok"; "nohost", with a <target> without host after `targets`;     *)
(* "broken", no XML or no name.  Targets of database rows are in DbTargets. *)
ASSUME ContentAssumption ==
  /\ \A id \in Id : /\ Content[id].name \in Name
                    /\ Content[id].form \in {"ok", "nohost", "broken"}
                    /\ Content[id].off \in BOOLEAN
  /\ CustomIds \in Seq(Customs) /\ IsInjective(CustomIds)
  /\ Customs \cap DbIds = {}

NameOf == [id \in Id |-> Content[id].name]
NamesOf(ids) == {NameOf[id] : id \in ids}

(* on_by_default of a RuleSet, as localPlatformRegexp is.                  *)
Default == [m \in BOOLEAN |-> [id \in Id |->
  /\ ~Content[id].off
  /\ Content[id].platform # "other"
  /\ Content[id].platform = "mixedcontent" => m]]

(* Fault: the constructor does not look for the preference.                *)
Unasked(p, m, id) == Default[m][id]

(* `active`, as the constructor RuleSet sets it.                           *)
Chosen(p, m, id) ==
  IF p[NameOf[id]] = "unset" THEN Default[m][id] ELSE p[NameOf[id]] = "on"

-----------------------------------------------------------------------------
(* The user's files are parsed in order; the first of a name wins.         *)

Refused(k) ==
  \E j \in 1 .. (k - 1) : /\ Content[CustomIds[j]].form = "ok"
                          /\ NameOf[CustomIds[j]] = NameOf[CustomIds[k]]

(* Files whose targets are registered, and those whose rulesets are kept.  *)
Registered == {CustomIds[k] : k \in {k \in DOMAIN CustomIds :
                 Content[CustomIds[k]].form # "broken" /\ ~Refused(k)}}
KeptCustoms == {id \in Registered : Content[id].form = "ok"}

(* this.targets[t] once init() is done: ids of files before those of rows. *)
TargetIds(t) ==
  SelectSeq(CustomIds, LAMBDA id : id \in Registered /\ t \in Content[id].targets)
  \o (IF t \in DOMAIN DbTargets THEN DbTargets[t] ELSE <<>>)

(* potentiallyApplicableRulesets gives up on a host with an empty label; no *)
(* target has one, so that what it probed before found nothing.            *)
Malformed(h) == "" \in Range(h)

(* The ids found under each target probed for a host, and in one list.     *)
Found == [h \in Host |-> [i \in DOMAIN Probes(h) |-> TargetIds(Probes(h)[i])]]
Met == [h \in Host |-> FlattenSeq(Found[h])]

(* Fault: a ruleset is read whatever its name.                             *)
ReadAnyName(ids, k, l) == ids[k] \in DbIds /\ Content[ids[k]].form = "ok"

(* loadRulesetById: the row is parsed, and refused if a ruleset of its     *)
(* name is loaded, be it from an earlier id of the same lookup.            *)
Reads(ids, k, l) ==
  /\ ids[k] \in DbIds /\ Content[ids[k]].form = "ok"
  /\ NameOf[ids[k]] \notin NamesOf(l)
  /\ \A j \in 1 .. (k - 1) :
       /\ ids[j] \in DbIds /\ Content[ids[j]].form = "ok" /\ ids[j] # ids[k]
       => NameOf[ids[j]] # NameOf[ids[k]]

LoadedBy(ids, l) == l \cup {ids[k] : k \in {k \in DOMAIN ids : Reads(ids, k, l)}}

LoadedAfter(h) == IF Malformed(h) THEN loaded ELSE LoadedBy(Met[h], loaded)

(* The rulesets a lookup returns if, of those it meets, these are loaded.  *)
Returned(h, usable) ==
  Merge([i \in DOMAIN Found[h] |-> SelectSeq(Found[h][i], LAMBDA id : id \in usable)])

(* potentiallyApplicableRulesets, once what it meets is loaded.            *)
Answer(h, l) == Returned(h, l \cap Range(Met[h]))

-----------------------------------------------------------------------------
(* HTTPSRules.init(), with the platform as the preferences have it.        *)
ReadFiles(m) ==
  /\ mixed' = m
  /\ loaded' = KeptCustoms
  /\ active' = [id \in Id |-> id \in KeptCustoms /\ Chosen(pref, m, id)]
  /\ UNCHANGED pref

(* Objects in the list outlive the table they were in.                     *)
KeepObjects ==
  /\ listed' = {}
  /\ stale' = [id \in Id |-> IF id \in listed THEN IF active[id] THEN "on" ELSE "off"
                             ELSE stale[id]]

Init ==
  /\ pref \in [Name -> {"on", "off", "unset"}]
  /\ allowMixed \in BOOLEAN /\ mixed = allowMixed
  /\ ready = FALSE
  /\ loaded = KeptCustoms
  /\ active = [id \in Id |-> id \in KeptCustoms /\ Chosen(pref, mixed, id)]
  /\ listed = {} /\ stale = [id \in Id |-> "none"]

(* Firefox restarts: preferences are all that is left.                     *)
Restart ==
  /\ ReadFiles(allowMixed)
  /\ ready' = FALSE
  /\ listed' = {} /\ stale' = [id \in Id |-> "none"]
  /\ UNCHANGED allowMixed

SessionRestored ==
  /\ ~ready /\ ready' = TRUE
  /\ UNCHANGED <<rules, allowMixed, lists>>

PurgeHistory ==
  /\ ReadFiles(allowMixed) /\ KeepObjects
  /\ UNCHANGED <<allowMixed, ready>>

(* nsPref:changed, not heard before the session is restored.               *)
MixedPrefChanged ==
  /\ allowMixed' = ~allowMixed
  /\ IF ready THEN ReadFiles(allowMixed') /\ KeepObjects ELSE UNCHANGED <<rules, lists>>
  /\ UNCHANGED ready

(* A URL or a cookie of the page has its host looked up; some of the       *)
(* rulesets found match it and enter the page's list.                      *)
FoundFor(h) == IF Malformed(h) THEN {} ELSE LoadedAfter(h) \cap Range(Met[h])

InList == listed \cup {id \in Id : stale[id] # "none"}

Visit(h, matching) ==
  /\ loaded' = LoadedAfter(h)
  /\ active' = [id \in Id |-> IF id \in loaded' \ loaded THEN Chosen(pref, mixed, id)
                              ELSE active[id]]
  /\ Cardinality(InList \cup matching) <= MaxListed
  /\ listed' = listed \cup matching
  /\ UNCHANGED <<pref, mixed, stale, allowMixed, ready>>

(* resetApplicableList.                                                    *)
NewPage ==
  /\ listed' = {} /\ stale' = [id \in Id |-> "none"]
  /\ UNCHANGED <<rules, allowMixed, ready>>

(* toggle() of the object in use.                                          *)
Toggle(id) ==
  /\ active' = [active EXCEPT ![id] = ~@]
  /\ pref' = [pref EXCEPT ![NameOf[id]] = IF active[id] THEN "off" ELSE "on"]
  /\ UNCHANGED <<mixed, loaded, allowMixed, ready, lists>>

(* The toolbar's menu hands toggle_rule an id: it throws unless the ruleset *)
(* is loaded.  The items of the user's own rulesets find no command, whose *)
(* ids have quotes around them (ApplicableList.js 214 and 226).            *)
MenuToggle(id) ==
  /\ id \in listed \/ stale[id] # "none"
  /\ id \in loaded \cap DbIds
  /\ Toggle(id)

(* The popup on Android hands out the objects of the list themselves.      *)
PopupToggle(id) == id \in listed /\ Toggle(id)

StaleToggle(id) ==
  /\ stale[id] # "none"
  /\ LET flipped == IF stale[id] = "on" THEN "off" ELSE "on"
     IN /\ stale' = [stale EXCEPT ![id] = flipped]
        /\ pref' = [pref EXCEPT ![NameOf[id]] = flipped]
  /\ UNCHANGED <<mixed, loaded, active, allowMixed, ready, listed>>

(* resetRulesetsToDefaults: clear() of what is loaded.                     *)
Reset ==
  /\ pref' = [n \in Name |-> IF n \in NamesOf(loaded) THEN "unset" ELSE pref[n]]
  /\ active' = [id \in Id |-> IF id \in loaded THEN Default[mixed][id] ELSE active[id]]
  /\ UNCHANGED <<mixed, loaded, allowMixed, ready, lists>>

Next ==
  \/ \E h \in Host : \E matching \in SUBSET FoundFor(h) : Visit(h, matching)
  \/ \E id \in Id : MenuToggle(id) \/ PopupToggle(id) \/ StaleToggle(id)
  \/ NewPage \/ Reset
  \/ SessionRestored \/ MixedPrefChanged \/ PurgeHistory \/ Restart

Spec == Init /\ [][Next]_vars

-----------------------------------------------------------------------------
(* Properties.                                                             *)

TypeOK ==
  /\ pref \in [Name -> {"on", "off", "unset"}]
  /\ allowMixed \in BOOLEAN /\ mixed \in BOOLEAN /\ ready \in BOOLEAN
  /\ loaded \subseteq Id /\ active \in [Id -> BOOLEAN]
  /\ listed \subseteq loaded /\ stale \in [Id -> {"on", "off", "none"}]

(* The rulesets in use if everything was read at once: the user's, and     *)
(* those of the database that the user did not replace.                    *)
Stored == KeptCustoms \cup {id \in DbIds : Content[id].form = "ok"
                                           /\ NameOf[id] \notin NamesOf(KeptCustoms)}

(* Of two rows with one name, as rules/Coop.ch.xml and                     *)
(* Coop.ch-falsemixed.xml are, the one that is met first keeps the other   *)
(* out until the next init(): no promise is made of them.                  *)
Shared == {id \in Stored : \E other \in Stored \ {id} : NameOf[other] = NameOf[id]}
Own == Stored \ Shared

(* Rows that share a name left aside, a lookup answers at every moment     *)
(* what it would if every ruleset had been read at start-up, whatever was  *)
(* looked up, refused or forgotten before: HTTPSRules.js 307-312, 585-620. *)
AnswersAsIfAllLoaded ==
  \A h \in Host : ~Malformed(h) => Answer(h, LoadedAfter(h) \ Shared) = Answer(h, Own)

(* And reading late changes nothing in which of the others are on: the     *)
(* store implements the one that has them all from the start.              *)
Contract == INSTANCE FirefoxRulesContract WITH
  Stored <- Own,
  Name   <- NamesOf(Own),
  pref   <- [n \in NamesOf(Own) |-> pref[n]],
  on     <- [id \in Own |-> IF id \in loaded THEN active[id] ELSE Chosen(pref, mixed, id)]

LazyIsInvisible == Contract!Spec
=============================================================================
