CONSTANTS
  Clients = {h1, h2}
  Users = {u1}
  MaxTokens = 3
  MaxErrors = 1
  Requests = {h1, h2}
  Bodies = {1, 2}
  MaxIssues = 7
  MaxBulk = 2
  Attempts = 3
  Workers = {h1, h2}
  CommentIds = {p1, p2}
  MaxVersion = 4
  MaxClock = 1
  RowKeys = {1, 2, 3}
  Columns = {1, 2}
  PageSizes = {1, 2}
  MaxEdits = 2
  SeqMax = 1
  MaxNow = 3
  MaxIds = 6
  Projects = {"open", "closed"}
  OpenProjects = {"open"}
  Statuses = {"todo", "done"}
  Assignees = {"ann", "bob"}
  Labels = {"red"}
  Handlers = {h1, h2}
  People = {p1, p2}
  OrgRoles = {1, 2, 3}
  ProjRoles = {1, 3}
  MaxRequests = 3
  Callers = {h1, h2, h3}
  HookIds = {hook}
  LockedRows = {p1, p2}
  IdemKeys = {key}
  Pool = 2
  MaxChanges = 2
SPECIFICATION MCSpec
SYMMETRY Symmetry
CHECK_DEADLOCK FALSE
INVARIANTS
  HasOwner
  RemovalComplete
  SameDecisions
  CacheSound
  StarvedOnlyByLookups
  ChainsSound
  DeadStaysDead
  NumberingSound
  TwiceOnlyByPurge
  RowSound
  OnlyKnownDeadlock
  WalkSound
  FiltersAgree
  IdsRise
PROPERTIES
  PatchKeepsOthers
  UpdatedMovesOn
