------------------------------ MODULE Ranking ------------------------------
(* The natural language query: a lexical and a structural list of symbols are   *)
(* fused by reciprocal ranks, name hits get a bonus, and the sum is weighed by  *)
(* the role of the file and the kind of the symbol. Scores are in millionths.   *)
EXTENDS CodeGraph

CONSTANTS RoleOf,   \* the role of a symbol's file
          KindOf,   \* its kind
          Pool,     \* hits taken from each list, 200 in the code
          RrfK,     \* 60 in the code
          Hits      \* results returned, 25 in the code

\* With less than 6 for the constant of the ranks, first places would outweigh a name.
ASSUME RankingAssumption == Pool \in Nat /\ Hits \in Nat /\ RrfK \in Nat /\ RrfK >= 6

\* Symbols whose name contains a word of the query, and is not one.
Named(q) == {s \in DOMAIN q.words : q.words[s] > 0} \ q.exact

\* What the lexical index finds, tier by tier: symbols named like a word of the
\* query, symbols whose name contains one (those with more words first), symbols
\* some token of which starts with one, best first.
Lexical(q) ==
    LET place(s) == CHOOSE i \in DOMAIN q.prefixed : q.prefixed[i] = s
        exact == Sorted(q.exact, <)
        named == Sorted(Named(q), LAMBDA a, b : \/ q.words[a] > q.words[b]
                                                \/ q.words[a] = q.words[b] /\ a < b)
        rest  == Sorted(ToSet(q.prefixed) \ (q.exact \union Named(q)), LAMBDA a, b : place(a) < place(b))
    IN Limit(exact \o named \o rest, Pool)

\* Exact hits and what they call, are called by, or belong with; exact ones first,
\* then by the number of calls a symbol gets.
Structural(g, exact) ==
    LET links     == g.CALLS \union g.MEMBER_OF
        around    == exact \union {e.to : e \in {x \in links : x.from \in exact}}
                           \union {e.from : e \in {x \in links : x.to \in exact}}
        degree(s) == Cardinality({e \in g.CALLS : e.to = s})
    IN Sorted(around, LAMBDA a, b :
            \/ a \in exact /\ b \notin exact
            \/ /\ a \in exact <=> b \in exact
               /\ \/ degree(a) > degree(b)
                  \/ degree(a) = degree(b) /\ a < b)

\* Mutant: ranks count without the constant.
ReciprocalBare(list, s) ==
    IF s \in ToSet(list) THEN 1000000 \div (CHOOSE i \in DOMAIN list : list[i] = s) ELSE 0

Reciprocal(list, s) ==
    IF s \in ToSet(list)
    THEN 1000000 \div (RrfK + (CHOOSE i \in DOMAIN list : list[i] = s)) ELSE 0

\* What an exact hit, another name hit and anything else gets on top.
Boost(q, s) == CASE s \in q.exact   -> 2000000
                 [] s \in Named(q)  -> 1000000
                 [] OTHER           -> 0

Roles == {"source", "test", "fixture", "vendored", "generated", "example"}

RoleFactor(r) == CASE r = "source" -> 10
                   [] r \in {"test", "fixture"} -> 5
                   [] r \in {"vendored", "generated", "example"} -> 4
KindFactor(k) == CASE k \in {"function", "method"} -> 21
                   [] k = "module" -> 16
                   [] OTHER -> 20

Ranked(g, q) ==
    LET lexical    == Lexical(q)
        hits       == ToSet(lexical)
        structural == Structural(g, q.exact \intersect hits)
        found      == hits \union ToSet(structural)
        fused(s)   == Reciprocal(lexical, s) + Reciprocal(structural, s)
                      + (IF s \in hits THEN Boost(q, s) ELSE 0)
        shaped     == [s \in found |-> fused(s) * RoleFactor(RoleOf[s]) * KindFactor(KindOf[s])]
    IN Limit(Sorted(found, LAMBDA a, b : \/ shaped[a] > shaped[b]
                                         \/ shaped[a] = shaped[b] /\ a < b), Hits)
=============================================================================
