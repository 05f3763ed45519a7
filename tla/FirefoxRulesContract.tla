------------------------ MODULE FirefoxRulesContract ------------------------
(***************************************************************************)
(* What the rulesets of the Firefox extension owe their users: each is on  *)
(* or off from the start, as the user chose or else by default, until it   *)
(* is switched, reset or everything is read anew.  There are no databases, *)
(* no loading and no lookups here: FirefoxRules has to hide them.          *)
(***************************************************************************)
CONSTANTS
  Stored,      \* ids of the rulesets that are in use
  Name,
  NameOf,      \* the name of each
  Default      \* Default[mixed][id]: on by default?

VARIABLES
  pref,        \* the choice stored under a name: "on", "off" or "unset"
  mixed,       \* are rulesets that cause mixed content welcome?
  on           \* is a ruleset on?

vars == <<pref, mixed, on>>

State(b) == IF b THEN "on" ELSE "off"

Init ==
  /\ pref \in [Name -> {"on", "off", "unset"}]
  /\ mixed \in BOOLEAN
  /\ on = [id \in Stored |->
             IF pref[NameOf[id]] = "unset" THEN Default[mixed][id] ELSE pref[NameOf[id]] = "on"]

(* The user switches a ruleset.                                            *)
Switch(id, b) ==
  /\ pref' = [pref EXCEPT ![NameOf[id]] = State(b)]
  /\ on' = [on EXCEPT ![id] = b]
  /\ UNCHANGED mixed

(* The same, from a list made before everything was read anew: the choice  *)
(* is stored, and heard of when rulesets are read the next time.           *)
SwitchUnheard(id, b) ==
  /\ pref' = [pref EXCEPT ![NameOf[id]] = State(b)]
  /\ UNCHANGED <<on, mixed>>

(* Some rulesets go back to their defaults.                                *)
Reset(ids) ==
  /\ pref' = [n \in Name |-> IF \E id \in ids : NameOf[id] = n THEN "unset" ELSE pref[n]]
  /\ on' = [id \in Stored |-> IF id \in ids THEN Default[mixed][id] ELSE on[id]]
  /\ UNCHANGED mixed

(* Everything is read anew.                                                *)
ReadAnew(m) ==
  /\ mixed' = m
  /\ on' = [id \in Stored |->
              IF pref[NameOf[id]] = "unset" THEN Default[m][id] ELSE pref[NameOf[id]] = "on"]
  /\ UNCHANGED pref

Next ==
  \/ \E id \in Stored, b \in BOOLEAN : Switch(id, b) \/ SwitchUnheard(id, b)
  \/ \E ids \in SUBSET Stored : Reset(ids)
  \/ \E m \in BOOLEAN : ReadAnew(m)

Spec == Init /\ [][Next]_vars
=============================================================================
