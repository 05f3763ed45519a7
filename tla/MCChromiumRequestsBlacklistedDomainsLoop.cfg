SPECIFICATION Spec
CONSTANTS
  Site = Site
  Down = Down
  UseWww = UseWww
  None = None
  Host <- MCHost
  Path = {"/"}
  NoncePath = "/"
  Builtin <- OnlySite
  BuiltinOrder <- OnlySiteOrder
  BuiltinRules <- MCBuiltinRules
  StorageMayFill = FALSE
  RuleCacheLimit = 1
  CookieCacheLimit = 1
  Page <- MCPage
  UserRuleParams <- NoUserRules
  UserRule <- MCUserRule
  MaxUserRules = 0
  MaxRemote = 0
  MaxRestarts = 0
  Request = {r1}
  Tab = {t1}
  Sites <- OneSite
  RedirectLimit = 8
  MayRecord = {}
INVARIANT BlacklistedDomainsLoop
