SPECIFICATION FairSpec
CONSTANTS
    Job = {1, 2}
    Hash = {h1}
    NoDownload = NoDownload
    BatchLimit = 1
    Key = {flat}
    Item = {i1}
    Scanner = {r1, r2}
    Tagger = {t1}
    TTL = 1
    NoItem = NoItem
    NoEntry = NoEntry
    Client = {c1, c2, c3}
    Request = {q1, q2}
    Token = {k1}
    NoClient = NoClient
    MaxEntries = 2
    Backoff <- ShortBackoff
    Retention = 0
    MaxFailures = 2
    MaxAccounts = 2
    Issue = {s1, s2}
    Prober = {p0, p1}
    Ticker = p0
    Encode = {e1, e2}
    Channel = {ch1, ch2}
    Cap = 1
    Legacy = {"encoder", "webhook_secret"}
    Dropped = "webhook_secret"
    Added <- Additions
    Defaults = 2
    Unversioned = Unversioned
    LibraryTime = 3
    LoginTime = 1
    MaxFaults = 1
INVARIANTS
    AnswerIsRecent
    SessionsAreOwned
    SchemaIsComplete
PROPERTIES
    ReleaseIsJustified
    GatesKeepStatus
    GatesOpen
    LockoutIsKept
    NoticesAlternate
    LastingIsTold
    BroadcastEnds
