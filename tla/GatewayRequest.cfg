\* Two requests whose prompts are prepared to the same one, over three routes.
SPECIFICATION Spec
CONSTANTS
  Requests = {"long", "short"}
  Caching = {"long", "short"}
  Prompts = {"verbose", "terse"}
  PromptOf <- MCPromptOf
  PreparedAs <- MCPreparedAs
  Routes <- MCRoutes
  Queues <- MCQueues
  Retries <- MCRetries
  Cools = {"primary"}
  Limit <- MCLimit
  MirrorOf <- MCMirrorOf
  Null = Null
INVARIANTS
  TypeOK
  AnsweredIsRecorded
  RecordedWasBilled
  RoutesAreExhaustedInOrder
  CachedAnswersPassed
PROPERTIES
  EveryRequestIsAnswered
CHECK_DEADLOCK FALSE
