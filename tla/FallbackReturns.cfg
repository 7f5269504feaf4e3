SPECIFICATION Spec
CONSTANTS
  pro = pro
  flash = flash
  lite = lite
  AutoModel = AutoModel
  None = None
  Chain <- DEFAULT_CHAIN
  UtilityModel = lite
  Transitions <- DEFAULT_STATE
  MaxAttempts = 2
  Sends = 2
  Utilities = 0
  Settings = 0
  Patience = 1
CHECK_DEADLOCK FALSE
INVARIANTS
  StaysWithFallback
