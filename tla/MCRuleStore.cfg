SPECIFICATION Spec
CONSTANTS
  Site = Site
  Strict = Strict
  ForBare = ForBare
  ForWww = ForWww
  None = None
  Host <- MCHost
  Path <- MCPath
  NoncePath = "/nonce"
  Builtin <- MCBuiltin
  BuiltinOrder <- MCBuiltinOrder
  BuiltinRules <- MCBuiltinRules
  UserRuleParams <- MCUserRuleParams
  UserRule <- MCUserRule
  MaxUserRules = 2
  StorageMayFill = TRUE
  RuleCacheLimit = 2
  CookieCacheLimit = 1
INVARIANTS RuleCacheCoherent ChoicesStored
PROPERTIES ReloadIsInvisible CacheDiscipline
