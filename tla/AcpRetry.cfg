SPECIFICATION AcpSpec
CONSTANTS
  Senders = {1, 2}
  StreamAttempts = 2
  ToolRounds = 1
INVARIANTS
  BrokenDiscarded
CHECK_DEADLOCK FALSE
