SPECIFICATION Spec
CONSTANTS
  Site = Site
  Extra = Extra
  ForWww = ForWww
  DomainWide = DomainWide
  HostOnly = HostOnly
  None = None
  Host <- MCHost
  Path = {"/nonce"}
  NoncePath = "/nonce"
  Builtin <- MCBuiltin
  BuiltinOrder <- MCBuiltinOrder
  BuiltinRules <- MCBuiltinRules
  UserRuleParams <- MCUserRuleParams
  UserRule <- MCUserRule
  MaxUserRules = 1
  StorageMayFill = FALSE
  RuleCacheLimit = 2
  CookieCacheLimit = 1
  Cookie = {DomainWide, HostOnly}
  Domain <- MCDomain
  CookieValue = {"old", "new"}
  MaxSiteOps = 2
  MaxChanges = 2
INVARIANT SettledSecured
PROPERTIES AskedOnlyIfSafe NoEcho
