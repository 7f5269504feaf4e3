SPECIFICATION Spec
CONSTANTS
  r1 = r1
  r2 = r2
  c1 = c1
  c2 = c2
  c3 = c3
  None = None
  Requests = {r1, r2}
  Calls = {c1, c2, c3}
  CallsOf <- OneThenTwo
  SignalOf <- OwnSignal
  Turns = 2
  Interactive = TRUE
  Ide = FALSE
  SlowConfirm = FALSE
  Overlap = FALSE
  Abortable = {}
  Escapable = {1, 2}
  MayThrow = {"handler", "confirm", "modify", "rebuild"}
  MaxAnswers = 2
CHECK_DEADLOCK FALSE
INVARIANTS
  OneToolAtATime
  RejectedMeansAborted
  RunsWhatWasApproved
PROPERTIES
  TerminalStays
  CancelsOwnBatch
