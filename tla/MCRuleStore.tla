---------------------------- MODULE MCRuleStore ----------------------------
(* RuleStore for a site with two host names.  Site is on by default and    *)
(* rewrites one page of both hosts; Strict is off by default, is called    *)
(* like a host, as many of the shipped rulesets are, and rewrites all of   *)
(* that host.                                                              *)
EXTENDS RuleStore, TLC

CONSTANTS Site, Strict, ForBare, ForWww

Bare == <<"a", "com">>
Www  == <<"www", "a", "com">>

MCHost         == {Bare, Www}
MCPath         == {"/page", "/nonce"}
MCBuiltin      == {Site, Strict}
MCBuiltinOrder == <<Site, Strict>>

Upgrade(hosts, paths) ==
  [u \in [scheme : {"http"}, host : hosts, path : paths] |-> [u EXCEPT !.scheme = "https"]]

MCBuiltinRules ==
  (Site :> [name |-> <<"Site">>, default |-> TRUE,
            targets |-> {Bare, <<"*", "a", "com">>},
            exclusions |-> {}, match |-> URL,
            rules |-> <<Upgrade({Bare, Www}, {"/page"})>>,
            cookies |-> {}])
  @@
  (Strict :> [name |-> Www, default |-> FALSE,
              targets |-> {Www},
              exclusions |-> {}, match |-> URL,
              rules |-> <<Upgrade({Www}, MCPath)>>,
              cookies |-> {}])

(* User rules as the popup proposes them; Strict has the name of one.      *)
MCUserRuleParams == {ForBare, ForWww}
MCUserRule ==
  (ForBare :> [host |-> Bare, rule |-> Upgrade({Bare}, MCPath)])
  @@ (ForWww :> [host |-> Www, rule |-> Upgrade({Www}, MCPath)])
=============================================================================
