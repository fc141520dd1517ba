SPECIFICATION Spec
CONSTANTS
  Alerts = {a1, a2}
  Types = {y1, y2}
  Thresholds = {h1}
  Counts = {0, 1}
  Jobs = {j1, j2}
  MaxClock = 2
  MaxStarts = 3
  MaxFaults = 1
  Enrolled = {"e1", "e2"}
  Found = {"e2"}
  Amounts = {0, 1}
  MaxCount = 1
  MaxChanges = 1
  Callers = {1, 2}
  Earlier = {0, 1, 2}
  MaxId = 4
  Sources = {"earnings", "benefits"}
  Ages = {30, 200}
  FreshMinutes = 120
  AlertTypes = {v1}
  Depths = {0, 1, 20}
  Waits = {0, 30}
  MaxFails = 1
  Procs = {p1, p2}
  Olds = {"fresh", "earlier", "partial", "scripted"}
  SchemaStarts = 3
  MaxWrites = 1
  Users = {u1}
  Starters = {u1}
  Seeds = {p1, p2}
  MaxSeeds = 2
  MaxCalls = 2
  MaxLoads = 2
  MaxBegun = 4
  MaxErrors = 1
  Keys = {k1, k2}
  Window = 3
  Limit = 2
  Cleanup = 4
  Second = 2
  MaxTime = 6
  MaxRequests = 6
  Choices = {f1, f2, f3}
  Searches = {s1, s2}
  NoSearch = s1
  Pages = {1, 2}
  Sizes = {20, 1000}
  Heavy = {f1, f2}
  Long = {f2}
  Minimum = {f3}
  Flights = {1, 2, 3}
  MaxViewClicks = 4
  YearsShown = {1, 2}
  Departments = {d1, d2}
  MaxChoices = 4
  Known = {e1, e2}
  Later = {e3}
  OnFirst = {e1, e3}
  Nobody = Nobody
  MaxFlights = 3
  EditorActs = 3
  EditorLost = 1
  NoAlert = NoAlert
  AlertActs = 4
  MaxFetches = 3
  MaxNotes = 2
  MaxReloads = 2
  AlertLost = 1
  Staff = {e1, e2}
  NoRecord = NoRecord
  Slots = {1, 2}
  MaxIssues = 4
  ConsoleActs = 2
  MaxMishaps = 1
  NoValue = NoValue
  Forms = {g1}
  Client = Client
  MaxEdits = 2
  MaxSent = 2
  Kinds = {q1, q2}
  Monthly = {q2}
  MaxRules = 3
  MaxSteps = 3
  MaxWrongs = 1
SYMMETRY Alike
INVARIANTS
  OneActivePerType AlertsAreFollowed DatesAreInOrder  ReadyIsReady
  SchemaIsSound AccountsAgree LimitIsFair PagesFollowChoice
PROPERTIES FreshIds WordsReachTheirTarget
CHECK_DEADLOCK FALSE
