SPECIFICATION Spec
CONSTANTS
  r1 = r1
  r2 = r2
  c1 = c1
  c2 = c2
  c3 = c3
  None = None
  Requests = {r1, r2}
  Calls = {c1, c2}
  CallsOf <- OneEach
  SignalOf <- OwnSignal
  Turns = 2
  Interactive = TRUE
  Ide = TRUE
  SlowConfirm = FALSE
  Overlap = FALSE
  Abortable = {}
  Escapable = {}
  MayThrow = {}
  MaxAnswers = 1
CHECK_DEADLOCK FALSE
INVARIANTS
  OneToolAtATime
