SPECIFICATION MCJobsSpec
CONSTANTS
    Triggers = {1, 2, 3}
    JobOf <- MCJobOf
    JobConfig <- MCJobConfig
    Registered = {"morning-briefing", "memory-push"}
    BriefingHandler = "morning-briefing"
    Files = {"s"}
    SecretFiles = {"s"}
    DayLength = 2
    MaxClock = 3
    MaxDaemonCrashes = 1
    SyncJobs = {"nightly", "weekly"}
    MaxSchedule = 2
    MaxSyncs = 3
    MaxDay = 4
    Retention = 2
    MaxBackupRuns = 2
    RitualFacts = {1, 2, 3, 4}
    Provenance <- MCProvenance
    Distance <- MCDistance
    Quarantined = {3}
    MaxQuestions = 1
    Window = 1
    Taps = {1, 2}
    MaxRitualTime = 3
    MaxRitualRuns = 2
    MaxEvents = 2
    MaxGitFailures = 1
    MaxAnchorCrashes = 1
    MaxVerifies = 1
    MayRewrite = TRUE
    Cards = {1, 2}
    ClassOf <- MCClassOf
    SecretCards = {2}
    CardTaps = {1, 2}
    MaxBotRestarts = 1
    Daemons = {d1, d2}
    NoDaemon = NoDaemon

    
PROPERTIES
    JobsRunOnce
    HousekeepingIsSafe
    LedgerIsAnchored
    CardsAreFaithful
    OneDaemonAtATime
CHECK_DEADLOCK FALSE
