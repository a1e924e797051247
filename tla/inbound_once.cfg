SPECIFICATION InboundSpec
CONSTANTS
  Handlers = {h1, h2, h3}
  e1 = e1
  e2 = e2
  e3 = e3
  m1 = m1
  m2 = m2
  Messages = {m1, m2}
  EventIds = {e1, e2, e3}
  MsgOf <- MCMsgOf
  OccurredAt <- MCOccurredAt
  ProcessingLease = 1
  None = None
SYMMETRY Symmetry
INVARIANTS OneHandlerPerMessage
PROPERTIES AnsweredOnce
