SPECIFICATION FairSpec
CONSTANTS
  pro = pro
  flash = flash
  lite = lite
  AutoModel = AutoModel
  None = None
  Chain <- DEFAULT_CHAIN
  UtilityModel = lite
  Transitions <- DEFAULT_STATE
  MaxAttempts = 2
  Sends = 2
  Utilities = 1
  Settings = 1
  Patience = 2
CHECK_DEADLOCK FALSE
INVARIANTS
  TypeOK
  NoDialogLost
PROPERTIES
  MarksShownModel
  HonoursChoice
  RequestsEnd
