SPECIFICATION Spec
CONSTANTS
  site = site
  www = www
  dots = dots
  up = up
  down = down
  root = root
  ocsp = ocsp
  nonce = nonce
  session = session
  None = None
  Host <- MCHost
  Path = {root, ocsp}
  NoncePath = nonce
  Malformed = {dots}
  Sts = {www}
  Ocsp <- MCOcsp
  Ruleset = {up, down}
  Applicable <- MCApplicable
  RulesOf <- MCRulesOf
  Cookie = {session}
  Domain <- MCDomain
  SetBy <- MCSetBy
  Request = {r1}
  Browser = {b1}
  Page <- MCPage
  Sites <- MCSites
  RedirectionLimit = 20
  GiveUpBelow = 10
  MaxSwitches = 1
INVARIANTS LoopsFallBack AppliedListed
PROPERTIES NowhereHolds Terminates GivenUpHostsKeepCookies
