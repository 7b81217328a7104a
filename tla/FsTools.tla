------------------------------ MODULE FsTools ------------------------------
(***************************************************************************)
(* The file tools (mcp/fs/server.go, paths.go) and their undo recipes      *)
(* (undo.go).  A call resolves its path, waits for the policy engine, and  *)
(* only then touches the file, while the user and other calls go on        *)
(* working in the same directories.  One directory, sub, may appear after  *)
(* the path was resolved, as a directory or as a symbolic link to another  *)
(* place; the directories that were there at resolution stay.              *)
(***************************************************************************)
EXTENDS Naturals, Sequences, FiniteSets

CONSTANTS FsCalls,
          FsTrace,   \* [FsCalls -> trace ids]: the undo registry is keyed by them
          FsTask,    \* [FsCalls -> task ids]: the directory of the copies
          InGit,     \* is the file in a git repository
          MaxUserWrites, MaxTrash

\* Places where the file can be: top/x, top/sub/x, elsewhere/x.
Places == {"top", "sub", "elsewhere"}
DenyGlobs == {"elsewhere"}
SecretLaneGlobs == {"sub"}
Traces == {FsTrace[c] : c \in FsCalls}
NoFile == 0
UserText == 1
TextOf == CHOOSE t \in [FsCalls -> 3..(2 + Cardinality(FsCalls))] :
             \A c, d \in FsCalls : t[c] = t[d] => c = d
AllTexts == {UserText, 2} \cup {TextOf[c] : c \in FsCalls}

ASSUME FsAssumption ==
    /\ InGit \in BOOLEAN
    /\ MaxUserWrites \in Nat /\ MaxTrash \in Nat

VARIABLES
    fsFiles,    \* the text at each place
    sub,        \* what top/sub is: "none", "dir", "link" (to elsewhere)
    fsCall,     \* each call
    copies,     \* UndoDir: a text per task and place
    trash,      \* the entries of ~/.Trash with this base name, numbered
    registry,   \* undoRegistry, per trace
    sensitive,  \* traces marked as having read a secret
    userWrites, wrote  \* bound; history: places a tool changed, and on behalf of which
fsVars == <<fsFiles, sub, fsCall, copies, trash, registry, sensitive, userWrites, wrote>>

NoRecord == [tool |-> "none", at |-> "top", missing |-> FALSE, had |-> FALSE, hash |-> NoFile,
             blob |-> NoFile, copy |-> FALSE, task |-> 0, dest |-> 0]
IdleCall == [pc |-> "idle", tool |-> "none", path |-> "top", rec |-> NoRecord]

FsInit ==
    /\ fsFiles = [p \in Places |-> IF p = "sub" THEN NoFile ELSE 2]
    /\ sub = "none"
    /\ fsCall = [c \in FsCalls |-> IdleCall]
    /\ copies = [k \in {FsTask[c] : c \in FsCalls} \X Places |-> NoFile]
    /\ trash = [n \in 1..MaxTrash |-> NoFile]
    /\ registry = [t \in Traces |-> NoRecord]
    /\ sensitive = {}
    /\ userWrites = 0
    /\ wrote = {}

CallAt(c, pc) == fsCall[c].pc = pc
CallTo(c, pc) == fsCall' = [fsCall EXCEPT ![c].pc = pc]
CallEnds(c) == fsCall' = [fsCall EXCEPT ![c] = [IdleCall EXCEPT !.pc = "ended"]]
Rec(c) == fsCall[c].rec
undoVars == <<copies, trash, registry, sensitive>>

-----------------------------------------------------------------------------
(* Paths. *)

\* Canonicalize: links are resolved as far as the path exists.
Canonicalize(path) == IF path = "sub" /\ sub = "link" THEN "elsewhere" ELSE path

\* Defect: the glob is matched against the path as the caller wrote it.
BugDenied(path) == path \in DenyGlobs

Denied(path) == Canonicalize(path) \in DenyGlobs

\* Defect: a component that became a link is followed.
BugRefused(rec) == FALSE

\* descendOneLevel: a component that was not there at resolution and is a link
\* by now is refused.
Refused(rec) == rec.missing /\ sub = "link"

\* Where an operation below AncestorDir ends up.
Reached(rec) == IF rec.missing /\ sub = "link" THEN "elsewhere" ELSE rec.at

\* Reading: a missing directory is a missing file.
TextThere(rec) == fsFiles[Reached(rec)]

\* collisionSafePath; 0 where the bound of the model is reached.
CollisionSafe == LET free == {n \in 1..MaxTrash : trash[n] = NoFile}
                 IN IF free = {} THEN 0 ELSE CHOOSE n \in free : \A k \in free : n <= k

-----------------------------------------------------------------------------
(* A call up to the policy engine's answer. *)

StartCall(c, tool, path) ==
    /\ CallAt(c, "idle")
    /\ IF tool # "read" /\ Denied(path) THEN CallEnds(c)
       ELSE fsCall' = [fsCall EXCEPT ![c] =
              [pc |-> "check", tool |-> tool, path |-> path,
               rec |-> [NoRecord EXCEPT !.at = Canonicalize(path), !.task = FsTask[c],
                                        !.missing = (path = "sub" /\ sub = "none")]]]
    /\ UNCHANGED <<fsFiles, sub, undoVars, userWrites, wrote>>

\* Check and ConsumeToken, which may take as long as the user likes.
PolicyAnswers(c) ==
    /\ CallAt(c, "check")
    /\ \/ CallTo(c, fsCall[c].tool)
       \/ CallEnds(c)
    /\ UNCHANGED <<fsFiles, sub, undoVars, userWrites, wrote>>

\* HandleRead: what is read from the secret lane marks the session.
HandleRead(c) ==
    /\ CallAt(c, "read")
    /\ CallEnds(c)
    /\ sensitive' = IF Canonicalize(fsCall[c].path) \in SecretLaneGlobs /\ fsFiles[Canonicalize(fsCall[c].path)] # NoFile
                    THEN sensitive \cup {FsTrace[c]} ELSE sensitive
    /\ UNCHANGED <<fsFiles, sub, copies, trash, registry, userWrites, wrote>>

-----------------------------------------------------------------------------
(* HandleWrite. *)

\* checkpointPreImage, first the confined read and its hash.
CheckpointPreImage(c) ==
    /\ CallAt(c, "write")
    /\ IF Refused(Rec(c)) THEN CallEnds(c)
       ELSE LET text == TextThere(Rec(c))
            IN fsCall' = [fsCall EXCEPT ![c].pc = IF text = NoFile THEN "rename" ELSE "keep",
                                        ![c].rec = [Rec(c) EXCEPT !.tool = "fs_write", !.had = (text # NoFile),
                                                             !.hash = text]]
    /\ UNCHANGED <<fsFiles, sub, undoVars, userWrites, wrote>>

\* then either git reads the file once more, or the bytes just read are copied.
KeepPreImage(c) ==
    /\ CallAt(c, "keep")
    /\ \/ /\ InGit /\ fsFiles[Rec(c).at] # NoFile
          /\ fsCall' = [fsCall EXCEPT ![c].pc = "rename", ![c].rec.blob = fsFiles[Rec(c).at]]
          /\ UNCHANGED copies
       \/ /\ fsCall' = [fsCall EXCEPT ![c].pc = "rename", ![c].rec.copy = TRUE]
          /\ copies' = [copies EXCEPT ![<<FsTask[c], Rec(c).at>>] = Rec(c).hash]
       \/ CallEnds(c) /\ UNCHANGED copies
    /\ UNCHANGED <<fsFiles, sub, trash, registry, sensitive, userWrites, wrote>>

\* Defect: the file is put into a directory that was never made.
BugPutText(rec, text) ==
    /\ fsFiles' = [fsFiles EXCEPT ![Reached(rec)] = text]
    /\ wrote' = wrote \cup {[at |-> Reached(rec), for |-> rec.at]}
    /\ UNCHANGED sub

\* The rename of a confined write: directories are made on the way down.
PutText(rec, text) ==
    /\ fsFiles' = [fsFiles EXCEPT ![Reached(rec)] = text]
    /\ sub' = IF rec.missing /\ sub = "none" THEN "dir" ELSE sub
    /\ wrote' = wrote \cup {[at |-> Reached(rec), for |-> rec.at]}

\* rootedWrite; any step of it may fail before the rename.
RootedWrite(c) ==
    /\ CallAt(c, "rename")
    /\ \/ ~Refused(Rec(c)) /\ PutText(Rec(c), TextOf[c]) /\ CallTo(c, "put")
       \/ CallEnds(c) /\ UNCHANGED <<fsFiles, sub, wrote>>
    /\ UNCHANGED <<undoVars, userWrites>>

\* registry.Put: one record per trace, the last one.
PutRecord(c) ==
    /\ CallAt(c, "put")
    /\ registry' = [registry EXCEPT ![FsTrace[c]] = Rec(c)]
    /\ CallEnds(c)
    /\ UNCHANGED <<fsFiles, sub, copies, trash, sensitive, userWrites, wrote>>

-----------------------------------------------------------------------------
(* HandleDelete. *)

\* moveToTrashConfined: a name is looked for,
PickTrashName(c) ==
    /\ CallAt(c, "delete")
    /\ IF Refused(Rec(c)) \/ TextThere(Rec(c)) = NoFile \/ CollisionSafe = 0 THEN CallEnds(c)
       ELSE fsCall' = [fsCall EXCEPT ![c].pc = "copy",
                                     ![c].rec = [Rec(c) EXCEPT !.tool = "fs_delete", !.dest = CollisionSafe]]
    /\ UNCHANGED <<fsFiles, sub, undoVars, userWrites, wrote>>

\* Defect: the entry is opened without O_EXCL.
BugTrashFree(n) == TRUE

TrashFree(n) == trash[n] = NoFile

\* the entry is created, which fails if somebody else was faster, and filled,
CopyToTrash(c) ==
    /\ CallAt(c, "copy")
    /\ IF TrashFree(Rec(c).dest) /\ ~Refused(Rec(c)) /\ TextThere(Rec(c)) # NoFile
       THEN /\ trash' = [trash EXCEPT ![Rec(c).dest] = TextThere(Rec(c))]
            /\ fsCall' = [fsCall EXCEPT ![c].pc = "remove", ![c].rec.hash = TextThere(Rec(c))]
       ELSE UNCHANGED trash /\ CallEnds(c)
    /\ UNCHANGED <<fsFiles, sub, copies, registry, sensitive, userWrites, wrote>>

\* and the file is removed.
RemoveSource(c) ==
    /\ CallAt(c, "remove")
    /\ IF TextThere(Rec(c)) # NoFile
       THEN /\ fsFiles' = [fsFiles EXCEPT ![Reached(Rec(c))] = NoFile]
            /\ wrote' = wrote \cup {[at |-> Reached(Rec(c)), for |-> Rec(c).at]}
            /\ CallTo(c, "put")
       ELSE CallEnds(c) /\ UNCHANGED <<fsFiles, wrote>>
    /\ UNCHANGED <<sub, undoVars, userWrites>>

-----------------------------------------------------------------------------
(* Undo. *)

Kept(rec) == IF rec.blob # NoFile THEN rec.blob ELSE copies[<<rec.task, rec.at>>]

\* Defect: the kept bytes are written back unverified.
BugVerified(rec) == Kept(rec) # NoFile

\* The hash of what was kept is the hash recorded at the write.
Verified(rec) == Kept(rec) = rec.hash

\* UndoWrite of a file that was there before.
UndoWrite(t) ==
    LET rec == registry[t]
    IN /\ rec.tool = "fs_write" /\ rec.had
       /\ Verified(rec) /\ ~Refused(rec)
       /\ PutText(rec, Kept(rec))
       /\ copies' = IF rec.copy THEN [copies EXCEPT ![<<rec.task, rec.at>>] = NoFile] ELSE copies
       /\ registry' = [registry EXCEPT ![t] = NoRecord]
       /\ UNCHANGED <<fsCall, trash, sensitive, userWrites>>

\* UndoWrite of a file the write created: it goes to the trash.
UndoCreate(t) ==
    LET rec == registry[t]
    IN /\ rec.tool = "fs_write" /\ ~rec.had
       /\ ~Refused(rec) /\ TextThere(rec) # NoFile /\ CollisionSafe # 0
       /\ trash' = [trash EXCEPT ![CollisionSafe] = TextThere(rec)]
       /\ fsFiles' = [fsFiles EXCEPT ![Reached(rec)] = NoFile]
       /\ wrote' = wrote \cup {[at |-> Reached(rec), for |-> rec.at]}
       /\ registry' = [registry EXCEPT ![t] = NoRecord]
       /\ UNCHANGED <<sub, fsCall, copies, sensitive, userWrites>>

\* UndoDelete: never over a file that is there by now.
UndoDelete(t) ==
    LET rec == registry[t]
    IN /\ rec.tool = "fs_delete" /\ trash[rec.dest] # NoFile
       /\ ~Refused(rec) /\ TextThere(rec) = NoFile
       /\ PutText(rec, trash[rec.dest])
       /\ trash' = [trash EXCEPT ![rec.dest] = NoFile]
       /\ registry' = [registry EXCEPT ![t] = NoRecord]
       /\ UNCHANGED <<fsCall, copies, sensitive, userWrites>>

\* The window of some call of the trace expires: PurgeExpired.
PurgeExpired(t) ==
    /\ registry[t] # NoRecord
    /\ copies' = IF registry[t].copy THEN [copies EXCEPT ![<<registry[t].task, registry[t].at>>] = NoFile]
                 ELSE copies
    /\ registry' = [registry EXCEPT ![t] = NoRecord]
    /\ UNCHANGED <<fsFiles, sub, fsCall, trash, sensitive, userWrites, wrote>>

-----------------------------------------------------------------------------
(* The user, and the end of the daemon. *)

UserWrite(p, text) ==
    /\ userWrites < MaxUserWrites
    /\ p = "sub" => sub = "dir"
    /\ text # fsFiles[p]
    /\ userWrites' = userWrites + 1
    /\ fsFiles' = [fsFiles EXCEPT ![p] = text]
    /\ UNCHANGED <<sub, fsCall, undoVars, wrote>>

UserMakesSub(kind) ==
    /\ sub = "none"
    /\ sub' = kind
    /\ UNCHANGED <<fsFiles, fsCall, undoVars, userWrites, wrote>>

\* A restart forgets the registry; copies stay behind.
FsRestart ==
    /\ fsCall' = [c \in FsCalls |-> [IdleCall EXCEPT !.pc = "ended"]]
    /\ registry' = [t \in Traces |-> NoRecord]
    /\ sensitive' = {}
    /\ UNCHANGED <<fsFiles, sub, copies, trash, userWrites, wrote>>

FsNext ==
    \/ \E c \in FsCalls :
          \/ \E tool \in {"read", "write", "delete"}, path \in Places : StartCall(c, tool, path)
          \/ PolicyAnswers(c) \/ HandleRead(c)
          \/ CheckpointPreImage(c) \/ KeepPreImage(c) \/ RootedWrite(c)
          \/ PickTrashName(c) \/ CopyToTrash(c) \/ RemoveSource(c) \/ PutRecord(c)
    \/ \E t \in Traces : UndoWrite(t) \/ UndoCreate(t) \/ UndoDelete(t) \/ PurgeExpired(t)
    \/ \E p \in Places, text \in {NoFile, UserText} : UserWrite(p, text)
    \/ \E kind \in {"dir", "link"} : UserMakesSub(kind)
    \/ FsRestart

-----------------------------------------------------------------------------
FsTypeOK ==
    /\ fsFiles \in [Places -> AllTexts \cup {NoFile}]
    /\ fsFiles["sub"] # NoFile => sub = "dir"
    /\ \A t \in Traces : registry[t].tool \in {"none", "fs_write", "fs_delete"}

\* However long the approval took and whatever became of the directories
\* meanwhile, a call and its undo change the place that was checked, and no
\* place the deny globs name.
ChangesWhereChecked ==
    \A w \in wrote : w.at = w.for /\ w.at \notin DenyGlobs

\* An undo gives back the text that the write found, also when the file
\* changed between the two reads of the checkpoint or another call of the
\* task kept its own copy since: then it gives back nothing.
UndoGivesBackWhatWas ==
    [][\A t \in Traces : UndoWrite(t) => fsFiles'[registry[t].at] = registry[t].hash]_fsVars

\* A deleted file stays in the trash under the name the undo will look for,
\* whoever moves files of the same name there at the same time.
DeletedIsInTrash ==
    \A t \in Traces : registry[t].tool = "fs_delete" => trash[registry[t].dest] = registry[t].hash

\* The file tools' promise: they change what was checked and nothing else, what
\* they delete is in the trash, and an undo gives back what was there.
FilesAreRecoverable ==
    /\ [](FsTypeOK /\ ChangesWhereChecked /\ DeletedIsInTrash)
    /\ UndoGivesBackWhatWas
=============================================================================
