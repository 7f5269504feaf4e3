SPECIFICATION ApprovalSpec
CONSTANTS
  Approvals = {1, 2}
  Programs = {"ls", "rm"}
  Denied = {"rm"}
  Asked <- Commands
CHECK_DEADLOCK FALSE
INVARIANTS
  DenyBlocks
