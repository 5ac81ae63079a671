----------------------------- MODULE Levenshtein -----------------------------
(***************************************************************************)
(* utils::levenshteinDistance (src/yuca/utils.hpp): the distance of two    *)
(* strings, computed in one column that every character of target updates  *)
(* in place, one cell per step.                                            *)
(***************************************************************************)
EXTENDS Integers, SequencesExt, Orders

CONSTANTS
    Alphabet,  \* characters
    MaxLength  \* bound: the length of the strings

ASSUME LengthAssumption == MaxLength \in Nat

Strings == UNION {[1..n -> Alphabet] : n \in 0..MaxLength}

VARIABLES
    source,
    target,
    column,        \* cell j: the distance of the first j characters of source
    x,             \* the characters of target begun
    y,             \* the cells filled for the last of them
    lastDiagonal   \* the cell above-left of the next one

vars == <<source, target, column, x, y, lastDiagonal>>

Init ==
    /\ source \in Strings
    /\ target \in Strings
    /\ column = [j \in 0..Len(source) |-> j]
    /\ x = 0
    /\ y = Len(source)
    /\ lastDiagonal = 0

BeginCharacter ==
    /\ y = Len(source)
    /\ x < Len(target)
    /\ x' = x + 1
    /\ y' = 0
    /\ column' = [column EXCEPT ![0] = x + 1]
    /\ lastDiagonal' = x
    /\ UNCHANGED <<source, target>>

\* Mutant: the diagonal is read after its cell was overwritten.
Overwritten(j) == column'[j]

\* old_diagonal: the cell before it is overwritten.
OldDiagonal(j) == column[j]

FillCell ==
    LET cost == IF source[y + 1] = target[x] THEN 0 ELSE 1
    IN /\ y < Len(source)
       /\ y' = y + 1
       /\ column' = [column EXCEPT ![y + 1] =
                        Min({@ + 1, column[y] + 1, lastDiagonal + cost})]
       /\ lastDiagonal' = OldDiagonal(y + 1)
       /\ UNCHANGED <<source, target, x>>

Next == BeginCharacter \/ FillCell

Spec == Init /\ [][Next]_vars

-----------------------------------------------------------------------------
(* Reference: some characters of s stay or are replaced, in their order, by *)
(* as many of t; the others are deleted from s or inserted from t.         *)

Cost(s, t, from, to) ==
    LET f == Ascending(from)
        g == Ascending(to)
        replaced == {i \in DOMAIN f : s[f[i]] # t[g[i]]}
    IN Cardinality(replaced) + Len(s) + Len(t) - 2 * Len(f)

Pairings(s, t) ==
    {p \in (SUBSET DOMAIN s) \X (SUBSET DOMAIN t) : Cardinality(p[1]) = Cardinality(p[2])}

\* The fewest characters to delete, insert or replace.
Edits == [s \in Strings |-> [t \in Strings |-> Min({Cost(s, t, p[1], p[2]) : p \in Pairings(s, t)})]]

Prefix(s, n) == SubSeq(s, 1, n)

\* At every step each cell is the fewest edits between prefixes: of target up
\* to its last character for the filled cells, and up to the one before it for
\* the others and the saved diagonal.  The last cell is the result.
ColumnIsExact ==
    /\ \A j \in 0..Len(source) :
        column[j] = Edits[Prefix(source, j)][Prefix(target, IF j <= y THEN x ELSE x - 1)]
    /\ y < Len(source) => lastDiagonal = Edits[Prefix(source, y)][Prefix(target, x - 1)]
=============================================================================
