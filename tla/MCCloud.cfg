SPECIFICATION CloudSpec
CONSTANTS
    c1 = c1
    c2 = c2
    k1 = k1
    Calls = {c1, c2}
    CloudTasks = {k1}
    CallTask <- MCCallTask
    Estimate <- MCEstimate
    Unpriced = {}
    TaskTokenCeiling = 3
    DailyBudget = 2
    MonthlyBudget = 3
    DowngradeAt = 1
    Alarm80At = 2
    MinCacheCalls = 1
    MaxInline = 2
    Keychain = TRUE
    DaysPerMonth = 1
    MaxDay = 1
    MaxBoots = 1
    e1 = e1
    e2 = e2
    s1 = s1
    api = api
    box = box
    other = other
    NoHost = NoHost
    NoSession = NoSession
    Conns = {e1, e2}
    Sessions = {s1}
    Spellings <- MCSpellings
    Hosts = {api, box, other}
    ConnSession <- MCConnSession
    Canonical <- MCCanonical
    Allowed = {api, box}
    Literal = {box}
    ByteBudget = 1
    MaxBytes = 1
    LastDay = 1
    MaxDaemons = 1
    t1 = t1
    w1 = w1
    w2 = w2
    r1 = r1
    v1 = v1
    v2 = v2
    LaneTasks = {t1}
    Escalations = {w1, w2}
    Reads = {r1}
    DefaultModel = "sonnet"
    Speakers = {v1, v2}
    TtsEnabled = TRUE
    SpeakSecretLane = FALSE
    Nobody = Nobody
INVARIANTS
    EgressIsAccounted
PROPERTIES
    SpendIsAccounted
    SecretsKeepTheirLane
    SpeechTakesTurns
CHECK_DEADLOCK FALSE
