CONSTANTS
  None = None
  Root = "root"
  Children = {"kid", "other"}
  Calls = {"c1", "c2", "c3"}
  MaxIds = 9
  Tokens <- MCTokens
  Providers <- MCProviders
  provide <- MCProvide
  scope <- MCScope
  inject <- MCInject
  useExisting <- MCUseExisting
  Initial = {}
  Registers <- NoPairs
  Overrides <- NoPairs
  Asks <- NoPairs
  Disposes = {}
  Throws <- MCProviders
  DestroyThrows = {}
  Scenarios = {"share", "alias", "replace", "usurp", "override", "scopes", "dispose", "teardown"}
SPECIFICATION MCSpec
INVARIANTS TypeOK OneLiveInstance FailuresAreSound FreshDependencies RequestIsolation RootDestroyedOnce DisposalReachesCached
PROPERTIES SharesCreationsWhenAsked FirstDependencyOutlives CallsAndDisposalsSettle
CHECK_DEADLOCK FALSE
