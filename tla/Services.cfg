SPECIFICATION MCSpec
CONSTANTS
  Every = 6
  LockTtl = 6
  Renewal = 2
  Grace = 2
  Threads = 2
  BeatEvery = 1
  BeatTtl = 4
  BeatGrace = 2
  Jobs = {j1, j2, j3, j4}
  Workers = 2
  KeepLast = 2
  Slots = 4
  Overlap = 1
  Churn = 2
  MaxRows = 12
  Objects = {o1, o2}
  Keep = 2
  Window = 1
  LastDay = 4
  Fabs = {f1, f2}
  Known = {f1}
  Hours = 2
  TermSize = 1
  LastHour = 3
  Scripts = {s1, s2, s3}
  Events = {e1}
  RollDocs = 1
  LastIndex = 3
  Members = {p1}
  Refreshes = {u1, u2}
  MinRows = 1
  StaleAfter = 2
  Flight = 1
  LastTime = 4
  Matches = 4
  Ranks = 2
  Batches = {2}
  Limits = {0, 3}
  Hosts = {h1, h2}
  Images = {i1, i2}
  FleetSize = 2
  LastWrite = 2
  Codes = {c1, c2}
  Urls = {l1, l2}
  Requests = {r1, r2}
  MaxRetries = 2
  Docs = {d1, d2, d3}
  ChunkSize = 2
  Edits = 2
  LastHead = 2
INVARIANTS
  OneSkipPerCrash
  HealthHonest
  PollsAreTrue
  RowVisited
  WindowServed
  PurgeExact
  GapsReported
  FamilySound
  PagedOnce
  SourceStored
  CodeKeepsUrl
  CopiedOrCounted
PROPERTIES
  MemberKept
CHECK_DEADLOCK FALSE
