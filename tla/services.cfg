SPECIFICATION Spec
CONSTANTS
  r1 = r1
  r2 = r2
  r3 = r3
  r4 = r4
  r5 = r5
  t1 = t1
  t2 = t2
  t3 = t3
  w1 = w1
  w2 = w2
  Rivals = {r1, r2, r3, r4, r5}
  NameOf <- MCNameOf
  IdOf <- MCIdOf
  Ascii = {"acme", "r1", "r2", "r3"}
  Dossier = {"pricing"}
  Battlecard = {"landmines"}
  Rows <- MCRows
  Owners = {w1, w2}
  OwnerOf <- MCOwnerOf
  Targets = {t1, t2, t3}
  TargetOf <- MCTargetOf
  Settings <- MCSettings
  Direct = {t2, t3}
  Starts <- MCStarts
  Joining = {r2}
  Drafts <- MCDrafts
  MaxRows = 2
  MaxMishaps = 1
  Tenants = {"w1", "w2"}
  Callers = {"p", "q"}
  Seeded <- MCSeeded
  Candidates <- MCCandidates
  Logins <- MCLogins
  MaxCalls = 2
  Browsers = {"x", "y"}
  Rooms = {"w1", "w2"}
  Profiles <- MCProfiles
  Provisioned <- MCProvisioned
  Unlinked = "none"
  NoRoom = "nowhere"
  MaxGrants = 1
  Pages <- MCPages
  Urls <- MCUrls
  Names = {"acme", "g2"}
  Prohibited = {"g2"}
  Internal = {"10.0.0.1"}
  External = {"8.8.8.8"}
  MaxRedirects = 3
  Statuses = {200, 302, 304, 404}
  Payloads <- MCPayloads
  Lines = {"", "a", "bb"}
  WidthOf <- MCWidthOf
  BlankLines = {""}
  MaxLines = 3
  PageKinds = {"overview", "landmines"}
  MaxVersions = 3
  Absent = Absent
  Jobs <- MCJobs
  Usages <- MCUsages
  Cap = 10000000
  Spent = {0, 9948999, 9949000, 9998419, 9998420}
  MaxExact = 20000000
  MaxRuns = 3
  MaxScripts = 4
INVARIANTS
  ServicesTypeOK
  NothingIsLeftBehind
  RollbackIsWhole
  RequestsAreEarned
  DiffsTellTheTruth
  SpendFollowsTheCalls
  RerunsCompleteTheSetup
PROPERTIES
  ImplementsMirror
  TargetsCatchUp
  TickIsCovered
CHECK_DEADLOCK FALSE
