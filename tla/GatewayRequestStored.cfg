\* The instance of GatewayRequest.
SPECIFICATION Spec
CONSTANTS
  Requests = {"long", "short"}
  Caching = {"long", "short"}
  Prompts = {"verbose", "terse"}
  PromptOf <- MCPromptOf
  PreparedAs <- MCPreparedAs
  Routes <- MCRoutes
  Queues <- MCQueues
  Retries <- MCRetries
  Cools = {"primary"}
  Limit <- MCLimit
  MirrorOf <- MCMirrorOf
  Null = Null
PROPERTIES
  StoringNeverFails
CHECK_DEADLOCK FALSE
