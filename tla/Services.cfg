SPECIFICATION ServicesSpec
CONSTANTS
  Senders = {1, 2}
  StreamAttempts = 2
  ToolRounds = 1
  Diffs = {1, 2}
  DiffFiles = {1, 2}
  MaxDrops = 1
  MaxTurns = 2
  AgentAttempts = 2
  Executions = {1, 2}
  A2ACalls = {1, 2}
  Approvals = {1, 2}
  Programs = {"ls", "tee", "rm"}
  Denied = {"rm"}
  Asked <- AskedCommands
  HistoryLimit = 2
  MaxText = 3
  MaxCount = 2
  MAX_EVENTS = 3
  MAX_RETRY_EVENTS = 2
  MaxLogged = 6
  Discoveries = {1, 2}
  MaxToolChanges = 2
  Queries = {1, 2}
  MAX_TURNS = 2
  TOOL_CALL_LOOP_THRESHOLD = 2
  CallKeys = {"a", "b"}
  FilePaths = {"f", "g"}
  Places = {"x", "y"}
  MAX_FILES = 2
INVARIANTS
  ServicesTypeOK
  LockHeldByReader
  OneDiffPending
  AgentReasonTrue
  AnswersKept
  OneLoop
  ResultsWhole
  LeftAtRest
  RunsAsGranted
  HandlersWait
  CursorInText
  RecentEventsKept
  CompletedMeansDone
  TurnsBounded
  LoopsFound
  ContextTold
PROPERTIES
  PromptsEnd
  DiffsSettle
  AgentEnds
  LoopsEnd
  ApprovalsSettle
  ChangesCanBeUndone
  ToolsUpToDate
  HooksOnce
CHECK_DEADLOCK FALSE
