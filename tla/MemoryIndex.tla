---------------------------- MODULE MemoryIndex ----------------------------
(***************************************************************************)
(* The search index over the markdown files (indexer/indexer.go,           *)
(* search/ftswrite.go) and the vectors behind it (embed/backfill.go).      *)
(* Files change at any time.  A walk holds the indexer's lock from its     *)
(* listing to its removals, one transaction per file; a single file waits  *)
(* for the lock; a vector backfill takes no lock at all.  A file is one    *)
(* chunk here, so chunk and row of chunks_fts go together; who wrote the   *)
(* file (the episode's tier) is left out.                                  *)
(***************************************************************************)
EXTENDS Naturals, FiniteSets, FiniteSetsExt

CONSTANTS MdFiles, MdTexts, NoText, Fillers, MaxChanges, MaxWalks, MaxFills

ASSUME IndexAssumption ==
    NoText \notin MdTexts /\ {MaxChanges, MaxWalks, MaxFills} \subseteq Nat

VARIABLES
    disk,      \* the text of every file, NoText for none
    episode,   \* episodes of source memory_file
    chunks,    \* rows of chunks, and of both FTS tables
    vectors,   \* rows of chunk_vec of the active model version
    walk,      \* the indexer, its lock held unless idle
    filler,    \* backfills under way
    changes, walks, fills,
    changed,   \* history: files that changed since the walk began
    missing    \* history: files that were absent at some time since then

indexVars == <<disk, episode, chunks, vectors, walk, filler, changes, walks, fills, changed, missing>>

IdleWalk == [pc |-> "idle", full |-> FALSE, todo |-> {}, seen |-> {}, file |-> "none", text |-> NoText]
IdleFill == [pc |-> "idle", rows |-> {}]

IndexInit ==
    /\ disk = [f \in MdFiles |-> NoText]
    /\ episode = [f \in MdFiles |-> [status |-> "none", hash |-> NoText]]
    /\ chunks = {} /\ vectors = {}
    /\ walk = IdleWalk
    /\ filler = [b \in Fillers |-> IdleFill]
    /\ changes = 0 /\ walks = 0 /\ fills = 0
    /\ changed = {} /\ missing = {}

\* Somebody writes or deletes a file: the user, a memory tool, a
\* merge of the consolidation.
ChangeFile(f, text) ==
    /\ changes < MaxChanges
    /\ disk[f] # text
    /\ changes' = changes + 1
    /\ disk' = [disk EXCEPT ![f] = text]
    /\ changed' = changed \cup {f}
    /\ missing' = IF text = NoText THEN missing \cup {f} ELSE missing
    /\ UNCHANGED <<episode, chunks, vectors, walk, filler, walks, fills>>

-----------------------------------------------------------------------------
(* The rows of one file. *)

ChunksOf(f) == {c \in chunks : c.file = f}

\* Ids are not AUTOINCREMENT: the largest one in use plus one.
NextId(rows) == IF rows = {} THEN 1 ELSE Max({c.id : c \in rows}) + 1

\* deleteChunksForEpisode and DeleteChunk, in the caller's transaction.
WithoutChunks(f) ==
    /\ chunks' = chunks \ ChunksOf(f)
    /\ vectors' = {v \in vectors : \A c \in ChunksOf(f) : v.id # c.id}

\* removeEpisode.
RemoveEpisode(f) ==
    /\ WithoutChunks(f)
    /\ episode' = [episode EXCEPT ![f].status = "deleted"]

\* Defect: a deleted episode with the hash of the file counts as unchanged.
BugUnchanged(f, text, full) == ~full /\ episode[f].status # "none" /\ episode[f].hash = text

Unchanged(f, text, full) ==
    ~full /\ episode[f].status = "active" /\ episode[f].hash = text

\* Defect: the chunks of the episode's old text stay.
BugReplaceChunks(f, text) == chunks \cup {[id |-> NextId(chunks), file |-> f, text |-> text]}

\* The old chunks of the file go before the new ones are inserted.
ReplaceChunks(f, text) ==
    LET rest == chunks \ ChunksOf(f)
    IN rest \cup {[id |-> NextId(rest), file |-> f, text |-> text]}

\* The second half of processFile, with the text read in the first half.
IndexText(f, text, full) ==
    IF Unchanged(f, text, full) THEN UNCHANGED <<episode, chunks, vectors>>
    ELSE /\ episode' = [episode EXCEPT ![f] =
                          [status |-> "active", hash |-> text]]
         /\ chunks' = ReplaceChunks(f, text)
         /\ vectors' = {v \in vectors : \A c \in ChunksOf(f) : v.id # c.id}

-----------------------------------------------------------------------------
(* Reindex. *)

WalkTo(pc) == walk' = [walk EXCEPT !.pc = pc]

\* TryLock and walkFiles.
StartReindex(full) ==
    /\ walk.pc = "idle"
    /\ walks < MaxWalks
    /\ walks' = walks + 1
    /\ LET here == {f \in MdFiles : disk[f] # NoText}
       IN walk' = [IdleWalk EXCEPT !.pc = "next", !.full = full, !.todo = here]
    /\ changed' = {}
    /\ missing' = {f \in MdFiles : disk[f] = NoText}
    /\ UNCHANGED <<disk, episode, chunks, vectors, filler, changes, fills>>

\* Defect: a file is not marked as seen.
BugReadFile(f) ==
    /\ walk.pc = "next"
    /\ f \in walk.todo
    /\ walk' = [walk EXCEPT !.todo = @ \ {f}, !.pc = IF disk[f] = NoText THEN "next" ELSE "index",
                            !.file = f, !.text = disk[f]]
    /\ UNCHANGED <<disk, episode, chunks, vectors, filler, changes, walks, fills, changed, missing>>

\* The first half of processFile: a file that vanished is an error, and seen.
ReadFile(f) ==
    /\ walk.pc = "next"
    /\ f \in walk.todo
    /\ walk' = [walk EXCEPT !.todo = @ \ {f}, !.seen = @ \cup {f},
                            !.pc = IF disk[f] = NoText THEN "next" ELSE "index",
                            !.file = f, !.text = disk[f]]
    /\ UNCHANGED <<disk, episode, chunks, vectors, filler, changes, walks, fills, changed, missing>>

\* The transaction may fail, which leaves the rows as they were.
ProcessFile ==
    /\ walk.pc = "index"
    /\ \/ IndexText(walk.file, walk.text, walk.full) /\ UNCHANGED changed
       \/ UNCHANGED <<episode, chunks, vectors>> /\ changed' = changed \cup {walk.file}
    /\ WalkTo("next")
    /\ UNCHANGED <<disk, filler, changes, walks, fills, missing>>

RemovalPass ==
    /\ walk.pc = "next"
    /\ walk.todo = {}
    /\ WalkTo("remove")
    /\ UNCHANGED <<disk, episode, chunks, vectors, filler, changes, walks, fills, changed, missing>>

\* The context is cancelled: the walk stops, without the removals.
CancelReindex ==
    /\ walk.pc \in {"next", "remove"}
    /\ walk' = IdleWalk
    /\ UNCHANGED <<disk, episode, chunks, vectors, filler, changes, walks, fills, changed, missing>>

Gone == {f \in MdFiles : episode[f].status = "active" /\ f \notin walk.seen}

RemoveGone(f) ==
    /\ walk.pc = "remove"
    /\ f \in Gone
    /\ RemoveEpisode(f)
    /\ UNCHANGED <<disk, walk, filler, changes, walks, fills, changed, missing>>

FinishReindex ==
    /\ walk.pc = "remove"
    /\ Gone = {}
    /\ walk' = IdleWalk
    /\ UNCHANGED <<disk, episode, chunks, vectors, filler, changes, walks, fills, changed, missing>>

\* ReindexFile, when the lock is free.
ReindexFile(f) ==
    /\ walk.pc = "idle"
    /\ IF disk[f] # NoText THEN IndexText(f, disk[f], FALSE)
       ELSE /\ episode[f].status = "active"
            /\ RemoveEpisode(f)
    /\ UNCHANGED <<disk, walk, filler, changes, walks, fills, changed, missing>>

-----------------------------------------------------------------------------
(* Backfill. *)

\* selectTargets: the chunks without a vector, or all of them.
SelectTargets(b, full) ==
    /\ filler[b].pc = "idle"
    /\ fills < MaxFills
    /\ fills' = fills + 1
    /\ filler' = [filler EXCEPT ![b] = [pc |-> "embed", rows |->
          {c \in chunks : full \/ \A v \in vectors : v.id # c.id}]]
    /\ UNCHANGED <<disk, episode, chunks, vectors, walk, changes, walks, changed, missing>>

\* upsertVector with the embedding of the text read before; an error of the
\* embedder or the database leaves the chunk without a vector.
UpsertVector(b, c) ==
    /\ c \in filler[b].rows
    /\ filler' = [filler EXCEPT ![b].rows = @ \ {c}]
    /\ LET others == {v \in vectors : v.id # c.id}
       IN vectors' \in {vectors, others, others \cup {[id |-> c.id, text |-> c.text]}}
    /\ UNCHANGED <<disk, episode, chunks, walk, changes, walks, fills, changed, missing>>

BackfillDone(b) ==
    /\ filler[b].pc = "embed"
    /\ filler[b].rows = {}
    /\ filler' = [filler EXCEPT ![b] = IdleFill]
    /\ UNCHANGED <<disk, episode, chunks, vectors, walk, changes, walks, fills, changed, missing>>

IndexNext ==
    \/ \E f \in MdFiles, text \in MdTexts \cup {NoText} : ChangeFile(f, text)
    \/ \E full \in BOOLEAN : StartReindex(full)
    \/ \E f \in MdFiles : ReadFile(f) \/ RemoveGone(f) \/ ReindexFile(f)
    \/ ProcessFile \/ RemovalPass \/ CancelReindex \/ FinishReindex
    \/ \E b \in Fillers :
          \/ \E full \in BOOLEAN : SelectTargets(b, full)
          \/ \E c \in filler[b].rows : UpsertVector(b, c)
          \/ BackfillDone(b)

-----------------------------------------------------------------------------
IndexTypeOK ==
    /\ \A f \in MdFiles : /\ episode[f].status \in {"none", "active", "deleted"}
                          /\ Cardinality(ChunksOf(f)) = IF episode[f].status = "active" THEN 1 ELSE 0
    /\ \A c1, c2 \in chunks : c1.id = c2.id => c1 = c2
    /\ \A v1, v2 \in vectors : v1.id = v2.id => v1 = v2

\* A walk that ran to its end leaves the index equal to the disk for every
\* file that nobody touched meanwhile and whose transaction went through:
\* the text is searchable, a deleted file is not.
ReindexSettles ==
    FinishReindex =>
       \A f \in MdFiles \ changed :
          {c.text : c \in ChunksOf(f)} = {disk[f]} \ {NoText}

\* A file that has been there all the time does not fall out of the search,
\* whoever cancels a walk and at whatever moment.
NoLiveFileDropped ==
    \A f \in MdFiles :
       episode[f].status = "active" /\ episode'[f].status = "deleted" /\ walk.pc # "idle"
          => f \in missing

\* The index follows the files: a finished walk leaves what is on disk, and a
\* file that never went away is never dropped.
IndexFollowsDisk ==
    []IndexTypeOK /\ [][NoLiveFileDropped /\ ReindexSettles]_indexVars
=============================================================================
