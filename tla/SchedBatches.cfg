SPECIFICATION FairSpec
CONSTANTS
  r1 = r1
  r2 = r2
  c1 = c1
  c2 = c2
  c3 = c3
  None = None
  Requests = {r1, r2}
  Calls = {c1, c2, c3}
  CallsOf <- TwoThenOne
  SignalOf <- OneSignal
  Turns = 2
  Interactive = TRUE
  Ide = FALSE
  SlowConfirm = FALSE
  Overlap = FALSE
  Abortable = {1}
  Escapable = {}
  MayThrow = {"confirm", "modify"}
  MaxAnswers = 2
CHECK_DEADLOCK FALSE
INVARIANTS
  TypeOK
  NothingStranded
PROPERTIES
  DeliversBatchesFairly
  
  EveryRequestSettles
