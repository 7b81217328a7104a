INIT MemoryInit
NEXT MemoryNext
CONSTANTS
    note = note
    line = line
    page = page
    fileA = fileA
    fileB = fileB
    entA = entA
    entB = entB
    entC = entC
    Clients = {p, q}
    ChatSessions = {s1, s2}
    NoChat = NoChat
    TaintedChats = {s2}
    Episodes = {1}
    MaxFacts = 2
    MaxUses = 2
    MaxDeaths = 1
    Entities = {entA, entB, entC}
    Absent = Absent
    NameOf <- MCNameOf
    MaxTries = 3
    Passages = {line, note}
    Files = {page}
    FileOf <- MCFileOf
    NoteOf <- MCNoteOf
    NoBranch = NoBranch
    NoBase = NoBase
    AutoCommit = TRUE
    NotesOnDirty = FALSE
    MaxDays = 2
    MaxRuns = 2
    MaxEdits = 1
    MaxNotes = 1
    MaxCrashes = 1
    LineTexts = {1, 2}
    ProposedTexts = {1, 2, 3}
    MaxLines = 3
    MdFiles = {fileA, fileB}
    MdTexts = {1, 2}
    NoText = 0
    Fillers = {1}
    MaxChanges = 3
    MaxWalks = 1
    MaxFills = 1
    MaxRunes = 5
    OverlapRunes = 2
    MaxDocLines = 5
    ChunkIds = {1, 2, 3}
    TopK = 3
    NoHit = NoHit
    Scan = Scan
INVARIANTS
    ConfidenceIsEarned
    UserLinesWin
    ChunkingIsLossless
    RankingIsSound
PROPERTIES
    MergesAreReversible
    
    IndexFollowsDisk
CHECK_DEADLOCK FALSE
