--------------------------- MODULE MCCookieMonitor ---------------------------
(* CookieMonitor for a site of two hosts whose rulesets are on by default: *)
(* Site rewrites both hosts and secures the cookie of the domain, Extra    *)
(* rewrites nothing but secures the other host's own cookie.               *)
EXTENDS CookieMonitor, TLC

CONSTANTS Site, Extra, DomainWide, HostOnly, ForWww

Bare == <<"a", "com">>
Www  == <<"www", "a", "com">>
MCHost == {Bare, Www}

Upgrade(hosts) ==
  [u \in [scheme : {"http"}, host : hosts, path : {"/nonce"}] |-> [u EXCEPT !.scheme = "https"]]

MCBuiltin == {Site, Extra}
MCBuiltinOrder == <<Site, Extra>>
MCBuiltinRules ==
  (Site :> [name |-> <<"Site">>, default |-> TRUE, targets |-> {Bare, Www},
            exclusions |-> {}, match |-> DOMAIN Upgrade(MCHost),
            rules |-> <<Upgrade(MCHost)>>, cookies |-> {DomainWide}])
  @@ (Extra :> [name |-> <<"Extra">>, default |-> TRUE, targets |-> {Www},
            exclusions |-> {}, match |-> DOMAIN Upgrade(MCHost),
            rules |-> <<>>, cookies |-> {HostOnly}])

MCUserRuleParams == {ForWww}
MCUserRule == ForWww :> [host |-> Www, rule |-> Upgrade({Www})]
MCDomain == (DomainWide :> Bare) @@ (HostOnly :> Www)
=============================================================================
