\* The components of the web client, their safety: two tabs or pages, two
\* accounts, with a failed write, a lapsed lease or a lost answer.
SPECIFICATION ClientSpec
CONSTANTS
    m1 = m1  m2 = m2  s1 = s1  s2 = s2  g1 = g1  g2 = g2  o1 = o1
    k1 = k1  k2 = k2  k3 = k3  t1 = t1  t2 = t2
    Parts = {"canvas", "effects", "sync"}
    \* CliArbiter
    Service = {s1, s2}
    Call = {m1, m2}
    ServiceOf <- TwoServices
    PatientCall = {m1}
    Account = {a1}
    Tried = {"credit", "headless", "check", "logout", "query"}
    LeaseMayLapse = TRUE
    MaxTickets = 2
    MaxCrashes = 1
    \* StateFile
    Process = {p1, p2, p3}
    Removal = {}
    RenameDenied = TRUE
    MaxWrites = 3
    MaxProcessCrashes = 1
    \* DreaminaJournal
    Runtime = {m1, m2}
    Task = {t1, t2}
    MaxActive = 1
    AccountSession = {m1, m2}
    LeaseMayExpire = TRUE
    UsersDelete = TRUE
    MaxQueued = 2
    MaxFaults = 1
    MaxRestarts = 1
    MaxSwitches = 1
    \* TaskProjection
    Projector = {j1, j2}
    ProductTask = {t1}
    IntentsFail = TRUE
    MaxVersion = 3
    \* TaskEffects
    StoreTask = {t1, t2}
    EffectKey = {k1, k2, k3}
    TaskOf <- TwoTasks
    Client = {c1, c2}
    MaxTasks = 1
    MaxEffects = 3
    MaxProjections = 3
    MaxClaims = 3
    \* CanvasDocument
    Tab = {b1, b2}
    Node = {n1}
    Field = {"content"}
    Effect = {1}
    Target <- SoleTarget
    UsersRestore = FALSE
    MaxEdits = 2
    MaxWriteFaults = 1
    MaxReloads = 1
    \* GenerationEffects
    Page = {g1, g2}
    Consumer = {m1, m2}
    PageOf <- TwoPages
    Outcome = {o1}
    OutcomeOf <- SameOutcome
    User = {u1, u2}
    u1 = u1  u2 = u2
    FirstUser = u1
    MaxLapses = 1
    MaxStorageFaults = 1
    MaxCalls = 2
    MaxPageEvents = 3
    \* RemoteSync
    Member = {u1, u2}
    Entity = {e1, e2}
    MaxVersions = 2
    MaxOtherEdits = 1
    MaxNetFaults = 1
    MaxSessions = 2
INVARIANTS WebTypesOK StampsAreCommitted CompletedIsDelivered AccountsStayApart
PROPERTIES PublishingKeepsEdits DoneStaysDone NoStaleUpload
\* The components stop: what is bounded is used up, or every call has ended.
CHECK_DEADLOCK FALSE
