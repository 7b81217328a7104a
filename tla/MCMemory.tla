------------------------------ MODULE MCMemory ------------------------------
(***************************************************************************)
(* What Kahya remembers, for TLC: the facts, the entities they are about,  *)
(* the nightly rewrite of the markdown files with the filter that protects *)
(* the user's lines, the index over the files with its chunker, and the    *)
(* ranking of a search.  The parts meet only in the files and rows that    *)
(* each models for itself, so a behaviour is one of a single part.         *)
(***************************************************************************)
EXTENDS Facts, EntityMerge, Consolidation, UserEditWins, MemoryIndex, Chunker, HybridSearch, TLC

CONSTANTS note, line, page, fileA, fileB, entA, entB, entC

MCFileOf == (line :> page @@ note :> page)
MCNoteOf == (page :> note)
MCNameOf == (entA :> "a" @@ entB :> "a" @@ entC :> "b")

VARIABLE part

MemoryInit ==
    /\ part \in {"facts", "entities", "consolidation", "diff", "index", "chunker", "search"}
    /\ FactsInit /\ EntityInit /\ ConsInit /\ IndexInit
    /\ IF part = "diff" THEN DiffInit
       ELSE orig = <<>> /\ proposed = <<>> /\ touched = {} /\ result = <<>> /\ filtered = FALSE
    /\ IF part = "chunker" THEN ChunkInit
       ELSE docLines = <<>> /\ chunkList = <<>> /\ chunked = FALSE
    /\ IF part = "search" THEN SearchInit
       ELSE tri = NoHit /\ uni = NoHit /\ vec = NoHit /\ embedOk = FALSE /\ hits = <<>> /\ searched = FALSE

MemoryNext ==
    /\ UNCHANGED part
    /\ \/ part = "facts" /\ FactsNext /\ UNCHANGED <<entityVars, consVars, diffVars, indexVars, chunkVars, searchVars>>
       \/ part = "entities" /\ EntityNext /\ UNCHANGED <<factVars, consVars, diffVars, indexVars, chunkVars, searchVars>>
       \/ part = "consolidation" /\ ConsNext /\ UNCHANGED <<factVars, entityVars, diffVars, indexVars, chunkVars, searchVars>>
       \/ part = "diff" /\ Filter /\ UNCHANGED <<factVars, entityVars, consVars, indexVars, chunkVars, searchVars>>
       \/ part = "index" /\ IndexNext /\ UNCHANGED <<factVars, entityVars, consVars, diffVars, chunkVars, searchVars>>
       \/ part = "chunker" /\ ChunkFile /\ UNCHANGED <<factVars, entityVars, consVars, diffVars, indexVars, searchVars>>
       \/ part = "search" /\ HandleSearch /\ UNCHANGED <<factVars, entityVars, consVars, diffVars, indexVars, chunkVars>>
=============================================================================
