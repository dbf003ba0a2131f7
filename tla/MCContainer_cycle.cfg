CONSTANTS
  None = None
  Root = "root"
  Children = {"kid"}
  Calls = {"c1", "c2", "c3"}
  MaxIds = 8
  Tokens <- MCTokens
  Providers <- MCProviders
  provide <- MCProvide
  scope <- MCScope
  inject <- MCInject
  useExisting <- MCUseExisting
  Initial = {}
  Registers <- NoPairs
  Overrides <- NoPairs
  Asks <- NoPairs
  Disposes = {}
  Throws <- MCProviders
  DestroyThrows = {}
  Scenarios = {"cycle"}
SPECIFICATION MCSpec
PROPERTIES ResolveSettles
CHECK_DEADLOCK FALSE
