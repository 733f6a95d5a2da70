------------------------------ MODULE CodeGraph ------------------------------
(* The graph the tools of the server, the diagram and the web view read, and    *)
(* the queries they are made of. Qualified names are numbers, so that ORDER BY  *)
(* has an order; an edge is a row of the table of its type, with both ends, a   *)
(* confidence and its place in the table. A caller has one row for each place   *)
(* it calls from, and rows of one pair may agree in all but the place.          *)
EXTENDS Integers, FiniteSets, Sequences, SequencesExt

CONSTANTS Symbols,      \* qualified names of symbols, a set of numbers
          MaxMatches,   \* LIMIT of a name lookup, 25 in the code
          MaxRows       \* LIMIT of callers, callees and members, 50 in the code

ASSUME GraphAssumption ==
    /\ Symbols \subseteq Nat /\ IsFiniteSet(Symbols)
    /\ MaxMatches \in Nat \ {0} /\ MaxRows \in Nat

Confidence == {"EXTRACTED", "INFERRED", "AMBIGUOUS"}

Rank(c) == CASE c = "EXTRACTED" -> 3
             [] c = "INFERRED"  -> 2
             [] c = "AMBIGUOUS" -> 1

Passes(c, minimum) == Rank(c) >= Rank(minimum)

Surest(C) == CHOOSE c \in C : \A d \in C : Rank(c) >= Rank(d)

Edges(A, B) == [from : A, to : B, conf : Confidence, row : Nat]

Numbered(table) == \A e, f \in table : e.row = f.row => e = f

\* A set in an order, and its first n members.
Sorted(S, Before(_, _)) ==
    [i \in 1..Cardinality(S) |-> CHOOSE x \in S : Cardinality({y \in S : Before(y, x)}) = i - 1]

FirstOf(S, Before(_, _), n) == {x \in S : Cardinality({y \in S : Before(y, x)}) < n}

\* ORDER BY a name: rows of one name come in the order of the table.
OrderBy(rows, Name(_)) ==
    Sorted(rows, LAMBDA a, b : \/ Name(a) < Name(b)
                               \/ Name(a) = Name(b) /\ a.row < b.row)

Limit(s, n) == SubSeq(s, 1, IF n < Len(s) THEN n ELSE Len(s))

First(rows) == CHOOSE r \in rows : \A q \in rows : r.row <= q.row

\* What a text matches: the symbol with exactly this name, those of this bare
\* name, those that contain it. The first kind that has any is the answer, any
\* MaxMatches of it.
Texts == [exact : SUBSET Symbols, bare : SUBSET Symbols, within : SUBSET Symbols]

Matched(text) == IF text.exact # {} THEN text.exact
                 ELSE IF text.bare # {} THEN text.bare
                 ELSE text.within

Resolutions(text) ==
    LET all == Matched(text)
    IN IF Cardinality(all) <= MaxMatches THEN {all}
       ELSE {S \in SUBSET all : Cardinality(S) = MaxMatches}

\* One row for each symbol at the far end, with the surest of its edges. The
\* limit is applied to the rows, before.
DedupeBy(rows, Name(_)) ==
    {[symbol |-> n, conf |-> Surest({r.conf : r \in {q \in rows : Name(q) = n}})]
        : n \in {Name(q) : q \in rows}}
=============================================================================
