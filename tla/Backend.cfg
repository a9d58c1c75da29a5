SPECIFICATION BackendSpec
CONSTANTS
  Procs = {p1, p2}
  MaxRequests = 4
  MaxDisturbed = 4
  MaxCounted = 8
  Passwords = {"pass", "long"}
  LongPasswords = {"long"}
  maxAttempts = 2
  Paths = {"/auth"}
  AuthPaths = {"/auth"}
  globalLimit = 7
  authLimit = 6
  MAX_REQUESTS = 2
  WINDOW_SIZE = 2
  MaxTime = 4
  Users = {"u1", "u2"}
  Entries = {"get"}
  MaxLogged = 4
  Requested = {{"email", "in-app"}, {"push", "in-app"}}
  maxRetries = 2
  Attempts = 2
  Kinds = {"escrow_created", "funds_released", "escrow_funded", "dispute_raised"}
  MaxLong = 3
  MaxLongDisturbed = 2
  MetricHour = 1
  MaxMetricClock = 2
  Recorders = {"revenue", "escrow"}
  Posted = {"revenue_total"}
  strategy = "header"
  Hour = 2
  Day = 3
  Kept = 2
  MaxClock = 3
  maxMetrics = 2
  maxAlerts = 1
  Endpoints = {"add", "deprecate", "overview", "metrics", "other"}
  Headers = {"v1", "v3"}
  Given = {"empty", "v3"}
  Keys = {"userId", "user_id", "password", "$key", "metadata", "pagination"}
  Texts = {"plain", "padded", "markup", "empty", "date"}
  Chains = {3, 4, 5}
  Widths = {4, 5}
  maxDepth = 3
  maxProperties = 4
  pageLimit = 1
  MaxRows = 2
  MaxWrites = 2
  MaxEscrowWrites = 1
  Values = {0, 1, 9, 11}
  Targets = {0, 1, 10}
  MaxLimit = 2
  MaxRead = 3
SYMMETRY Symmetry
INVARIANTS TypeOK RowsAgree PasswordStands SignedOutStays FewerThanThrice TrailIsChain LiveIsNewest ReportCoversPeriod BodiesAccounted 
CHECK_DEADLOCK FALSE
