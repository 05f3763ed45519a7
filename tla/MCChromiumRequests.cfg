SPECIFICATION Spec
CONSTANTS
  Site = Site
  Down = Down
  UseWww = UseWww
  None = None
  Host <- AllHosts
  Path = {"/"}
  NoncePath = "/"
  Builtin <- MCBuiltin
  BuiltinOrder <- MCBuiltinOrder
  BuiltinRules <- MCBuiltinRules
  StorageMayFill = FALSE
  RuleCacheLimit = 1
  CookieCacheLimit = 1
  Page <- Starts
  UserRuleParams <- MCUserRuleParams
  UserRule <- MCUserRule
  MaxUserRules = 1
  MaxRemote = 1
  MaxRestarts = 0
  Request = {r1}
  Tab = {t1}
  Sites <- OneSite
  RedirectLimit = 2
  MayRecord = {}
PROPERTIES NothingSlipsThrough NowhereHolds PageRulesetsListed Terminates
