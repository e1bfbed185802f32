\* A daily or a total budget of an API key over two days; a batch takes two calls.
SPECIFICATION SpendSpec
CONSTANTS
  Calls <- MCCalls
  Models <- MCModels
  ModelOf <- MCModelOf
  Scoped <- MCScoped
  WithTokens <- MCTokens
  PriceRows <- MCPrices
  ScopeType = "api_key"
  Amounts = {1}
  Limit = 2
  BatchLimit = 2
  Enrichers = {e1}
  Syncs = {y1}
  LastDay = 1
  MaxReplays = 1
  Null = Null
INVARIANTS
  SpendTypeOK
  CounterNeverAhead
  DeniedOnlyIfSpent
PROPERTIES
  CounterReconciles
  EnrichmentReachesAll
