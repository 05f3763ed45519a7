---------------------------- MODULE HostTargets ----------------------------
(***************************************************************************)
(* Which <target host=...> keys apply to a host name: the index probes of  *)
(* potentiallyApplicableRulesets (chromium/rules.js 260-300).              *)
(*                                                                         *)
(* A host name is the sequence of its labels, <<"www", "example", "org">>; *)
(* a target may have "*" for one label (utils/trivial-validate.py rejects  *)
(* more than one).                                                         *)
(***************************************************************************)
EXTENDS Naturals, Sequences, SequencesExt

Star == "*"

(* Fault: the loop over suffixes stops one short.                          *)
ProbesOneShort(host) ==
  LET n == Len(host)
  IN <<host>>
     \o [i \in 1 .. n |-> [host EXCEPT ![i] = Star]]
     \o [i \in 1 .. (IF n >= 5 THEN n - 4 ELSE 0) |-> <<Star>> \o SubSeq(host, i + 2, n)]

(* Every target key looked up for host, in the order the code tries them:  *)
(* the name itself, each label replaced by "*" in turn, then "*" in front  *)
(* of ever shorter suffixes of at least two labels.                        *)
Probes(host) ==
  LET n == Len(host)
  IN <<host>>
     \o [i \in 1 .. n |-> [host EXCEPT ![i] = Star]]
     \o [i \in 1 .. (IF n >= 4 THEN n - 3 ELSE 0) |-> <<Star>> \o SubSeq(host, i + 2, n)]

(* Fault: what is there already is appended too.                           *)
InsertAll(into, from) == into \o from

(* setInsert: append what is not there yet.                                *)
setInsert(into, from) ==
  FoldLeft(LAMBDA list, x : IF Contains(list, x) THEN list ELSE Append(list, x), into, from)

(* The rulesets of the probed keys, in probe order, each once.  The first  *)
(* list is copied as it is (`slice`).                                      *)
Merge(lists) == FoldLeft(setInsert, Head(lists), Tail(lists))

(* What loading the rulesets in this order pushes under the target t.      *)
Declaring(t, order, declared) ==
  FoldLeft(LAMBDA list, r : IF t \in declared[r] THEN Append(list, r) ELSE list, <<>>, order)

-----------------------------------------------------------------------------
(* docs/rulesets.html, "Wildcard Targets": a left-side wildcard stands for *)
(* one or more labels, any other wildcard for exactly one.  A left-side    *)
(* wildcard in front of a single label ("*.local") is only one level deep. *)
LeftWildcard(target) == Len(target) >= 3 /\ target[1] = Star

Covers(target, host) ==
  IF LeftWildcard(target)
  THEN Len(host) >= Len(target) /\ IsSuffix(Tail(target), host)
  ELSE /\ Len(host) = Len(target)
       /\ \A i \in DOMAIN host : target[i] \in {host[i], Star}
=============================================================================
