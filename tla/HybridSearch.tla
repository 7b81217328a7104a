---------------------------- MODULE HybridSearch ----------------------------
(***************************************************************************)
(* The ranking of a memory search (search/search.go): three legs, each     *)
(* normalised for itself, fused by weights, cut to k.  Pure; the raw       *)
(* scores of the legs are enumerated in the initial states.  Scores are in *)
(* twentieths, weights in tenths.                                          *)
(***************************************************************************)
EXTENDS Integers, FiniteSets, FiniteSetsExt, Sequences

CONSTANTS ChunkIds,  \* chunks.id
          TopK,
          NoHit, Scan  \* not in a leg; found by the substring scan only

ASSUME SearchAssumption ==
    /\ ChunkIds \subseteq Nat /\ IsFiniteSet(ChunkIds)
    /\ TopK \in Nat
    /\ NoHit # Scan /\ {NoHit, Scan} \cap {1, 2} = {}

\* Raw scores, larger is better; their differences divide 20.
TriRaw == {NoHit, Scan, 1, 2}
LegRaw == {NoHit, 1, 2}

VARIABLES tri, uni, vec, embedOk, hits, searched
searchVars == <<tri, uni, vec, embedOk, hits, searched>>

Weights == IF embedOk THEN [tri |-> 3, uni |-> 2, vec |-> 5] ELSE [tri |-> 6, uni |-> 4, vec |-> 0]
ScanFloorScore == 2
MatchFloorScore == 2 * ScanFloorScore

Hit(leg) == {c \in ChunkIds : leg[c] \notin {NoHit, Scan}}

\* minMaxNormalize: from 0 to 1, and 1 for all when they are the same.
MinMaxNormalize(leg, c) ==
    LET lo == Min({leg[x] : x \in Hit(leg)})
        hi == Max({leg[x] : x \in Hit(leg)})
    IN IF c \notin Hit(leg) THEN 0 ELSE IF hi = lo THEN 20 ELSE (20 * (leg[c] - lo)) \div (hi - lo)

\* Defect: matches are normalised like the other legs.
BugTriScore(c) == IF tri[c] = Scan THEN ScanFloorScore ELSE MinMaxNormalize(tri, c)

\* triLeg: a match is lifted above the floor of the scan.
TriScore(c) ==
    IF tri[c] = Scan THEN ScanFloorScore
    ELSE IF tri[c] = NoHit THEN 0
    ELSE MatchFloorScore + ((20 - MatchFloorScore) * MinMaxNormalize(tri, c)) \div 20

\* Defect: the vector leg keeps its weight when there is no query vector.
BugFuse(c) == 3 * TriScore(c) + 2 * MinMaxNormalize(uni, c)

\* fuse.
Fused(c) ==
    Weights.tri * TriScore(c) + Weights.uni * MinMaxNormalize(uni, c)
      + (IF embedOk THEN Weights.vec * MinMaxNormalize(vec, c) ELSE 0)

Found == {c \in ChunkIds : tri[c] # NoHit \/ uni[c] # NoHit \/ (embedOk /\ vec[c] # NoHit)}

Before(c, d) == Fused(c) > Fused(d) \/ (Fused(c) = Fused(d) /\ c > d)

\* Search: by score, newer chunks first on a tie, the best k.
Search ==
    LET ranked == [n \in 1..Cardinality(Found) |->
                     CHOOSE c \in Found : Cardinality({d \in Found : Before(d, c)}) = n - 1]
    IN SubSeq(ranked, 1, IF Len(ranked) > TopK THEN TopK ELSE Len(ranked))

SearchInit ==
    /\ embedOk \in BOOLEAN
    /\ tri \in [ChunkIds -> TriRaw] /\ uni \in [ChunkIds -> LegRaw]
    /\ vec \in IF embedOk THEN [ChunkIds -> LegRaw] ELSE {[c \in ChunkIds |-> NoHit]}
    /\ hits = <<>>
    /\ searched = FALSE

HandleSearch ==
    /\ ~searched
    /\ searched' = TRUE
    /\ hits' = Search
    /\ UNCHANGED <<tri, uni, vec, embedOk>>

-----------------------------------------------------------------------------
Place(c) == IF \E n \in 1..Len(hits) : hits[n] = c THEN CHOOSE n \in 1..Len(hits) : hits[n] = c ELSE TopK + 1
Strength(x) == IF x = NoHit THEN -1 ELSE IF x = Scan THEN 0 ELSE x

\* What is better in one leg and nowhere worse is never ranked below: legs
\* are scaled each on its own, which must not turn two chunks around.
RankingRespectsLegs ==
    searched => \A c, d \in ChunkIds :
       /\ Strength(tri[c]) > Strength(tri[d])
       /\ Strength(uni[c]) >= Strength(uni[d])
       /\ (embedOk => Strength(vec[c]) >= Strength(vec[d]))
       => Place(c) <= Place(d)

\* Without the embedder the search is as good as its text legs: the weight of
\* the missing leg goes to the others, so that the scores keep their scale.
DegradedKeepsScale ==
    searched /\ ~embedOk => \A c \in ChunkIds :
       Strength(tri[c]) = 2 /\ Strength(uni[c]) = 2 => Fused(c) = 200

\* The fused ranking agrees with its legs and keeps its scale without vectors.
RankingIsSound == RankingRespectsLegs /\ DegradedKeepsScale
=============================================================================
