SPECIFICATION Spec
CONSTANTS
  MaxTurns = 2
  TailTurns = 1
  MaxRuns = 3
  MaxPrimed = 1
  MaxTexts = 2
  MaxCalls = 3
  Prompts <- MCPrompts
  McpPrompts <- MCMcpPrompts
  Replies <- MCReplies
INVARIANTS
  SentIsWellFormed
  WorkIsTold
  OpenPlanGatesWork
PROPERTIES
  AnswerFollowsPlan
  FollowUpKeepsCalls
CHECK_DEADLOCK FALSE
