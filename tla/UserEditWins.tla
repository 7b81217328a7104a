---------------------------- MODULE UserEditWins ----------------------------
(***************************************************************************)
(* The line filter of the nightly consolidation (consolidation/diff.go):   *)
(* a line diff between a file and the rewrite a session proposes, from     *)
(* which every hunk that would replace a line the user touched today is    *)
(* dropped.  Pure; the inputs are enumerated in the initial states.        *)
(***************************************************************************)
EXTENDS Naturals, Sequences, FiniteSets, SequencesExt

CONSTANTS LineTexts, ProposedTexts, MaxLines

ASSUME UserEditWinsAssumption == LineTexts \subseteq ProposedTexts /\ MaxLines \in Nat

VARIABLES orig, proposed, touched, result, filtered
diffVars == <<orig, proposed, touched, result, filtered>>

\* The table of longest common subsequences of the suffixes.
LcsTable(a, b) ==
    LET lcs[i \in 1..Len(a) + 1, j \in 1..Len(b) + 1] ==
          IF i > Len(a) \/ j > Len(b) THEN 0
          ELSE IF a[i] = b[j] THEN 1 + lcs[i + 1, j + 1]
          ELSE IF lcs[i + 1, j] >= lcs[i, j + 1] THEN lcs[i + 1, j] ELSE lcs[i, j + 1]
    IN lcs

Op(kind, text, line) == [kind |-> kind, text |-> text, line |-> line]

\* diffLines: the walk through the table, deletes before inserts on a tie.
DiffLines(a, b) ==
    LET lcs == LcsTable(a, b)
        walk[at \in (1..Len(a) + 1) \X (1..Len(b) + 1)] ==
          LET i == at[1]
              j == at[2]
          IN IF i > Len(a) /\ j > Len(b) THEN <<>>
             ELSE IF i <= Len(a) /\ j <= Len(b) /\ a[i] = b[j]
                  THEN <<Op("equal", a[i], i)>> \o walk[<<i + 1, j + 1>>]
             ELSE IF j > Len(b) \/ (i <= Len(a) /\ lcs[i + 1, j] >= lcs[i, j + 1])
                  THEN <<Op("delete", a[i], i)>> \o walk[<<i + 1, j>>]
             ELSE <<Op("insert", b[j], 0)>> \o walk[<<i, j + 1>>]
    IN walk[<<1, 1>>]

\* Defect: no guard for lines that occur more than once.
BugAmbiguous(a, lines) == {}

\* Contents of touched lines that occur more than once in the file.
AmbiguousUserContents(a, lines) ==
    {a[n] : n \in {k \in lines \cap 1..Len(a) :
                     Cardinality({m \in 1..Len(a) : a[m] = a[k]}) > 1}}

\* The operations of the hunk that operation k belongs to.
HunkOf(ops, k) ==
    {m \in 1..Len(ops) : \A x \in 1..Len(ops) :
        (m <= x /\ x <= k) \/ (k <= x /\ x <= m) => ops[x].kind # "equal"}

\* Defect: every hunk that deletes something is reverted.
BugReverted(ops, k, a, lines) == \E m \in HunkOf(ops, k) : ops[m].kind = "delete"

\* A hunk is reverted when it deletes a touched line or a copy of one.
Reverted(ops, k, a, lines) ==
    \E m \in HunkOf(ops, k) :
       ops[m].kind = "delete" /\ (ops[m].line \in lines \/ ops[m].text \in AmbiguousUserContents(a, lines))

\* ApplyUserEditWins.
ApplyUserEditWins(a, b, lines) ==
    LET ops == DiffLines(a, b)
        stays(k) == \/ ops[k].kind = "equal"
                    \/ ops[k].kind = "delete" /\ Reverted(ops, k, a, lines)
                    \/ ops[k].kind = "insert" /\ ~Reverted(ops, k, a, lines)
    IN FoldLeft(LAMBDA out, k : IF stays(k) THEN Append(out, ops[k].text) ELSE out,
                <<>>, [k \in 1..Len(ops) |-> k])

DiffInit ==
    /\ orig \in UNION {[1..n -> LineTexts] : n \in 0..MaxLines}
    /\ proposed \in UNION {[1..n -> ProposedTexts] : n \in 0..MaxLines}
    /\ touched \in SUBSET (1..Len(orig))
    /\ result = <<>>
    /\ filtered = FALSE

Filter ==
    /\ ~filtered
    /\ filtered' = TRUE
    /\ result' = ApplyUserEditWins(orig, proposed, touched)
    /\ UNCHANGED <<orig, proposed, touched>>

-----------------------------------------------------------------------------
\* The elements of s at the given places are in t too, in the same order.
FoundIn(s, places, t) ==
    \E at \in [places -> 1..Len(t)] :
       /\ \A n \in places : t[at[n]] = s[n]
       /\ \A m, n \in places : m < n => at[m] < at[n]

Copies(text, s) == Cardinality({n \in 1..Len(s) : s[n] = text})

\* Whatever a session proposes, every line the user touched today is still in
\* the file, in the order the user left them; and where a touched line occurs
\* more than once, so that the diff may pair the copies as it likes, no copy
\* is lost.
TouchedLinesSurvive ==
    filtered =>
       /\ FoundIn(orig, touched, result)
       /\ \A n \in touched : Copies(orig[n], result) >= Copies(orig[n], orig)

\* The filter takes nothing else away: without touched lines the proposal is
\* the result, and a result never has a line that neither side has.
FilterIsMinimal ==
    filtered =>
       /\ touched = {} => result = proposed
       /\ proposed = orig => result = orig
       /\ Range(result) \subseteq Range(orig) \cup Range(proposed)

\* The line filter of the nightly run keeps every line the user touched and
\* drops no other change of the rewrite, for all small files and rewrites.
UserLinesWin == TouchedLinesSurvive /\ FilterIsMinimal
=============================================================================
