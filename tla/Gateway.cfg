CONSTANTS
  Runs = {r1}
  Sessions = {}
  Pagelets = {chat}
  IntentIds = {}
  ApprovalIds = {}
  CommandIds = {}
  Statuses = {"running", "completed"}
  None = None
  HistoryLimit = 3
  MaxRunCursor = 4
  MaxTime = 2
  MaxFaults = 1
  MaxCursor = 0
  Clients = {c1}
  Run = r1
  Pagelet = chat
  ReplayLimit = 2
SPECIFICATION GatewaySpec
CHECK_DEADLOCK FALSE
INVARIANTS GatewayTypeOK NothingMissed FreshSeesPresent
