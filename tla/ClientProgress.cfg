\* The components of the agent and the web client with what keeps them going:
\* that each comes to an end or catches up.
SPECIFICATION LiveClientSpec
CONSTANTS
    m1 = m1  m2 = m2  s1 = s1  s2 = s2  g1 = g1  g2 = g2  o1 = o1
    k1 = k1  k2 = k2  k3 = k3  t1 = t1  t2 = t2
    Parts = {"arbiter", "file", "journal", "projection", "canvas", "effects", "sync"}
    \* CliArbiter
    Service = {s1, s2}
    Call = {m1, m2}
    ServiceOf <- TwoServices
    PatientCall = {m1}
    Account = {}
    Tried = {"credit"}
    LeaseMayLapse = FALSE
    MaxTickets = 2
    MaxCrashes = 1
    \* StateFile
    Process = {p1, p2}
    Removal = {2}
    RenameDenied = FALSE
    MaxWrites = 2
    MaxProcessCrashes = 1
    \* DreaminaJournal
    Runtime = {m1, m2}
    Task = {t1}
    MaxActive = 1
    AccountSession = {m1}
    LeaseMayExpire = FALSE
    UsersDelete = FALSE
    MaxQueued = 1
    MaxFaults = 0
    MaxRestarts = 1
    MaxSwitches = 0
    \* TaskProjection
    Projector = {j1, j2}
    ProductTask = {t1}
    IntentsFail = FALSE
    MaxVersion = 2
    \* TaskEffects
    StoreTask = {t1, t2}
    EffectKey = {k1, k2, k3}
    TaskOf <- TwoTasks
    Client = {c1, c2}
    MaxTasks = 1
    MaxEffects = 3
    MaxProjections = 3
    MaxClaims = 3
    \* CanvasDocument
    Tab = {b1}
    Node = {n1}
    Field = {"content"}
    Effect = {1}
    Target <- SoleTarget
    UsersRestore = TRUE
    MaxEdits = 2
    MaxWriteFaults = 0
    MaxReloads = 1
    \* GenerationEffects
    Page = {g1, g2}
    Consumer = {m1, m2}
    PageOf <- TwoPages
    Outcome = {o1}
    OutcomeOf <- SameOutcome
    User = {u1, u2}
    u1 = u1  u2 = u2
    FirstUser = u1
    MaxLapses = 0
    MaxStorageFaults = 0
    MaxCalls = 1
    MaxPageEvents = 2
    \* RemoteSync
    Member = {u1}
    Entity = {e1}
    MaxVersions = 3
    MaxOtherEdits = 0
    MaxNetFaults = 0
    MaxSessions = 2
PROPERTIES WaitsEnd JournalSettles WorkIsSaved
\* The components stop: what is bounded is used up, or every call has ended.
CHECK_DEADLOCK FALSE
