------------------------- MODULE MCFirefoxChannels -------------------------
(* FirefoxChannels for two rulesets of one site.  up takes it to https,    *)
(* down takes one page back; the site may send its https visitors to the   *)
(* http pages of its subdomain www and www back again, or to a host with   *)
(* an empty label.  Either host may set the cookie, which is the site's.   *)
(* One URL is asked for to check certificates.                             *)
EXTENDS FirefoxChannels, TLC

CONSTANTS site, www, dots, up, down, root, ocsp, nonce, session

MCHost == {site, www, dots}
MCApplicable == (site :> <<down, up>>) @@ (www :> <<up>>) @@ (dots :> <<>>)

U(scheme, host, path) == [scheme |-> scheme, host |-> host, path |-> path]
Http(host) == U("http", host, root)
Https(host) == U("https", host, root)
Responder == U("http", site, ocsp)

MCRulesOf ==
  (up :> [rewrite |-> [u \in {Http(site), Http(www), Responder, U("http", site, nonce)} |->
                         [u EXCEPT !.scheme = "https"]],
          cookies |-> {session}])
  @@ (down :> [rewrite |-> Https(site) :> Http(site), cookies |-> {}])

MCDomain == session :> site
MCSetBy == session :> {site, www}
MCPage == {Http(site), Http(dots), Responder}
MCOcsp == {Responder}
MCSites ==
  { << >>, Https(site) :> Http(dots),
    (Https(site) :> Http(www)) @@ (Https(www) :> Http(site)) @@ (Http(dots) :> Http(site)) }
=============================================================================
