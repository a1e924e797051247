SPECIFICATION FairSpec
CONSTANTS
  N = 3
INVARIANTS UnsafeRunsAlone AnsweredOnce PlainTurnKeepsAll
PROPERTIES TurnEnds
CHECK_DEADLOCK FALSE
