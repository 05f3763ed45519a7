--------------------------- MODULE MCHostTargets ---------------------------
(* HostTargets for every host name of one to MaxLabels labels, against     *)
(* every target of as many labels with at most one wildcard.               *)
EXTENDS HostTargets, FiniteSets

CONSTANTS
  Label,      \* labels of host names
  MaxLabels,
  Database    \* the targets of each ruleset, in the order of the rulesets

Names(alphabet) == UNION {[1 .. n -> alphabet] : n \in 1 .. MaxLabels}
Stars(t) == Cardinality({i \in DOMAIN t : t[i] = Star})
TargetKeys == {t \in Names(Label \cup {Star}) : Stars(t) <= 1}

VARIABLE host  \* what is looked up

Init == host \in [{1} -> Label]
Next == \E l \in Label :
  host' = IF Len(host) < MaxLabels THEN Append(host, l) ELSE <<l>>

RulesetsByTarget(t) == Declaring(t, [r \in DOMAIN Database |-> r], Database)

(* potentiallyApplicableRulesets(host) *)
Applicable ==
  LET p == Probes(host) IN Merge([i \in DOMAIN p |-> RulesetsByTarget(p[i])])

(* The keys probed for a host are exactly the valid targets that cover it  *)
(* as docs/rulesets.html defines wildcards: rules.js 276-290 and           *)
(* HTTPSRules.js 639-661.                                                  *)
ProbesMatchDocs ==
  LET keys == Probes(host)
  IN \A t \in TargetKeys : Contains(keys, t) <=> Covers(t, host)

(* The answer lists each ruleset with a covering target exactly once, and  *)
(* those that name the host exactly come first: rules.js 270-290 and       *)
(* HTTPSRules.js 569-577, 631-661.                                         *)
AnswerComplete ==
  LET answer == Applicable
  IN /\ \A r \in DOMAIN Database :
          Contains(answer, r) <=> \E t \in Database[r] : Covers(t, host)
     /\ IsInjective(answer)
     /\ \A i, j \in DOMAIN answer :
          host \in Database[answer[j]] /\ i < j => host \in Database[answer[i]]
=============================================================================
