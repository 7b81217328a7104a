----------------------------- MODULE EntityMerge -----------------------------
(***************************************************************************)
(* Entities and their aliases (factengine/entity.go): a name is never      *)
(* joined to an existing entity by itself, a merge needs a fact as         *)
(* evidence and keeps a snapshot, and a split puts the snapshot back.      *)
(* The statements run without a transaction: an error of the database or   *)
(* a crash keeps a prefix of them.  Every entity is created with one alias *)
(* row, so the row is known by the entity it was created for.              *)
(***************************************************************************)
EXTENDS Naturals, Sequences, FiniteSets

CONSTANTS Entities, Absent, NameOf, MaxTries

ASSUME EntityAssumption == Absent \notin Entities /\ MaxTries \in Nat

VARIABLES
    entity,      \* [status, provisional]
    owner,       \* entity_aliases.entity_id of the alias created with an entity
    mergeLedger, \* merge_ledger; was and had are the state before the merge
    evidenceFact,\* the status of the fact cited as evidence
    tries        \* merges and splits begun

entityVars == <<entity, owner, mergeLedger, evidenceFact, tries>>

EntityInit ==
    /\ entity = [x \in Entities |-> [status |-> "none", provisional |-> FALSE]]
    /\ owner = [x \in Entities |-> Absent]
    /\ mergeLedger = <<>>
    /\ evidenceFact = "active"
    /\ tries = 0

OwnedBy(x) == {al \in Entities : owner[al] = x}

\* Defect: a name that is already an alias of somebody joins that entity.
BugJoinByName(x) ==
    /\ entity[x].status = "none"
    /\ LET known == {al \in Entities : owner[al] # Absent /\ NameOf[al] = NameOf[x]}
       IN /\ entity' = [entity EXCEPT ![x] = [status |-> "active", provisional |-> FALSE]]
          /\ owner' = [owner EXCEPT ![x] = IF known = {} THEN x ELSE owner[CHOOSE al \in known : TRUE]]
    /\ UNCHANGED <<mergeLedger, evidenceFact, tries>>

\* ResolveOrCreateEntity: a new entity every time, provisional when the name
\* is taken; the alias row may be missing after an error.
ResolveOrCreateEntity(x) ==
    /\ entity[x].status = "none"
    /\ entity' = [entity EXCEPT ![x] =
          [status |-> "active",
           provisional |-> \E al \in Entities : owner[al] # Absent /\ NameOf[al] = NameOf[x]]]
    /\ owner' \in {owner, [owner EXCEPT ![x] = x]}
    /\ UNCHANGED <<mergeLedger, evidenceFact, tries>>

\* entityNames and factReferencesAnyName: the cited fact speaks of an entity
\* that has a name at all; every entity here does, its canonical one.
Mentioned(dst, src) == entity[dst].status # "none" /\ entity[src].status # "none"

\* MergeEntities: the alias rows one by one, then the status, then the ledger
\* row with the snapshot.
MergeEntities(dst, src) ==
    /\ dst # src
    /\ evidenceFact = "active"
    /\ Mentioned(dst, src)
    /\ tries < MaxTries
    /\ tries' = tries + 1
    /\ \E moved \in SUBSET OwnedBy(src) :
          /\ owner' = [al \in Entities |-> IF al \in moved THEN dst ELSE owner[al]]
          /\ \/ UNCHANGED <<entity, mergeLedger>>
             \/ /\ moved = OwnedBy(src)
                /\ entity' = [entity EXCEPT ![src].status = "merged"]
                /\ mergeLedger' \in {mergeLedger, Append(mergeLedger,
                      [op |-> "merge", src |-> src, dst |-> dst, moved |-> moved,
                       was |-> owner, had |-> entity[src].status])}
    /\ UNCHANGED evidenceFact

\* Defect: the source entity is not made active again.
BugSplitLeavesMerged(n) ==
    /\ mergeLedger[n].op = "merge"
    /\ tries < MaxTries
    /\ tries' = tries + 1
    /\ owner' = [al \in Entities |->
          IF al \in mergeLedger[n].moved THEN mergeLedger[n].src ELSE owner[al]]
    /\ mergeLedger' = Append(mergeLedger, [mergeLedger[n] EXCEPT !.op = "split"])
    /\ UNCHANGED <<entity, evidenceFact>>

\* SplitEntities puts back what the snapshot of a merge names.
SplitEntities(n) ==
    /\ mergeLedger[n].op = "merge"
    /\ tries < MaxTries
    /\ tries' = tries + 1
    /\ \E back \in SUBSET mergeLedger[n].moved :
          /\ owner' = [al \in Entities |-> IF al \in back THEN mergeLedger[n].src ELSE owner[al]]
          /\ \/ UNCHANGED <<entity, mergeLedger>>
             \/ /\ back = mergeLedger[n].moved
                /\ entity' = [entity EXCEPT ![mergeLedger[n].src].status = "active"]
                /\ mergeLedger' \in {mergeLedger,
                      Append(mergeLedger, [mergeLedger[n] EXCEPT !.op = "split"])}
    /\ UNCHANGED evidenceFact

\* The cited fact is retracted meanwhile.
RetractEvidence ==
    /\ evidenceFact = "active"
    /\ evidenceFact' = "retracted"
    /\ UNCHANGED <<entity, owner, mergeLedger, tries>>

EntityNext ==
    \/ \E x \in Entities : ResolveOrCreateEntity(x)
    \/ \E dst, src \in Entities : MergeEntities(dst, src)
    \/ \E n \in 1..Len(mergeLedger) : SplitEntities(n)
    \/ RetractEvidence

-----------------------------------------------------------------------------
\* Nobody becomes somebody else by having the same name: an alias belongs to
\* another entity than its own only through a merge of that entity, finished
\* or interrupted, and a namesake that nobody merged stays provisional.
NeverJoinedByName ==
    \A x \in Entities :
       entity[x].status = "none" /\ entity'[x].status # "none" =>
          /\ owner'[x] \in {Absent, x}
          /\ \A y \in Entities \ {x} : NameOf[y] = NameOf[x] /\ owner[y] # Absent
                => entity'[x].provisional /\ owner'[y] = owner[y]

\* Splitting a merge brings back the owners and the status from before it,
\* if nothing moved since then, however often the merge or the split itself
\* was interrupted and repeated.
SplitUndoesMerge ==
    \A n \in 1..Len(mergeLedger) :
       LET m == mergeLedger[n]
       IN /\ m.op = "merge" /\ m.had = "active"
          /\ mergeLedger' = Append(mergeLedger, [m EXCEPT !.op = "split"])
          /\ \A al \in Entities : owner[al] = m.was[al] \/ al \in m.moved
          => owner' = m.was /\ entity'[m.src].status = "active"

\* Entities are joined by a merge and by nothing else, and a split puts back
\* what its merge found, also when merges overlap or stop half way.
MergesAreReversible == [][NeverJoinedByName /\ SplitUndoesMerge]_entityVars
=============================================================================
