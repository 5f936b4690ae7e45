SPECIFICATION FairSpec
CONSTANTS
  f1 = f1
  f2 = f2
  f3 = f3
  h1 = h1
  h2 = h2
  Files = {f1, f2, f3}
  Handlers = {h1, h2}
  HandlerOf <- MCHandlerOf
  SlowHandlers = FALSE
  AckLoss = FALSE
INVARIANTS
  NoDanglingAttachment
  CreatedHasFiles
PROPERTIES
  NoOrphanForever
