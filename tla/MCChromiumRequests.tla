------------------------- MODULE MCChromiumRequests -------------------------
(* ChromiumRequests for a site of two hosts.  Site upgrades both; Down, of *)
(* the second host, is off by default and downgrades it again.             *)
EXTENDS ChromiumRequests, TLC

CONSTANTS Site, Down, UseWww

Bare == <<"a", "com">>
Www  == <<"www", "a", "com">>
Else == <<"b", "org">>

MCHost == {Bare, Www}
Url(scheme, host) == [scheme |-> scheme, host |-> host, path |-> "/"]

MCPage == {Url(scheme, host) : scheme \in {"http", "https"}, host \in MCHost}

Upgrade(hosts) ==
  [u \in {Url("http", host) : host \in hosts} |-> [u EXCEPT !.scheme = "https"]]

MCBuiltinRules ==
  (Site :> [name |-> <<"Site">>, default |-> TRUE, targets |-> {Bare, <<"*", "a", "com">>},
            exclusions |-> {}, match |-> MCPage,
            rules |-> <<Upgrade(MCHost)>>, cookies |-> {}])
  @@ (Down :> [name |-> <<"Down">>, default |-> FALSE, targets |-> {Www},
            exclusions |-> {}, match |-> MCPage,
            rules |-> <<Url("https", Www) :> Url("http", Www)>>, cookies |-> {}])
MCBuiltin == {Site, Down}
MCBuiltinOrder == <<Site, Down>>
OnlySite == {Site}
OnlySiteOrder == <<Site>>

(* Where requests start in the larger runs: redirects lead to the other    *)
(* pages of the site; no ruleset knows the third host.                     *)
AllHosts == MCHost \cup {Else}
Starts   == {Url("http", Bare), Url("https", Www), Url("http", Else)}

(* A user rule that sends the bare host to the other one.                  *)
MCUserRuleParams == {UseWww}
MCUserRule == UseWww :> [host |-> Bare,
                         rule |-> Url("http", Bare) :> Url("https", Www)]

(* Servers of a site whose first host insists on http and sends http       *)
(* clients to the other.                                                   *)
MovedAway == (Url("https", Bare) :> Url("http", Bare)) @@ (Url("http", Bare) :> Url("http", Www))
OneSite   == {MovedAway}

NoUserRules == {}
Symmetric == Permutations(Request)
=============================================================================
