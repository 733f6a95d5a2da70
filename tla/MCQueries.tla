----------------------------- MODULE MCQueries -----------------------------
(* Small graphs and the questions asked about them, family by family.            *)
EXTENDS Queries

S3 == 1..3
S4 == 1..4
E == "EXTRACTED"
A == "AMBIGUOUS"

EdgeTypes == {"CALLS", "INJECTS", "MEMBER_OF", "PERSISTS_TO", "EXTENDS", "IMPLEMENTS",
              "CALLS_ENDPOINT", "HANDLES", "ROUTES_TO", "CO_CHANGES_WITH"}

Empty == [t \in EdgeTypes |-> {}]

\* Rows of a table: those that are unsure are stored first, second places last.
Rows(pairs, confidence, part) ==
    {[from |-> p[1], to |-> p[2], conf |-> confidence, row |-> 100 * part + 10 * p[1] + p[2]] : p \in pairs}
Unsure(pairs) == Rows(pairs, A, 1)
Sure(pairs)   == Rows(pairs, E, 2)
Again(pairs)  == Rows(pairs, E, 3)

Apart(S) == {p \in S \X S : p[1] # p[2]}

\* Calls among three symbols: none, sure, unsure or both between any two.
Shaded == {[Empty EXCEPT !.CALLS = Sure(P) \union Unsure(Q)] : P, Q \in SUBSET Apart(S3)}
\* Calls among four symbols, all sure, also such that the last calls the first only; and
\* among three with calls to themselves.
Plain  == {[Empty EXCEPT !.CALLS = Sure(P)] : P \in SUBSET Apart(S4)}
Ahead  == {[Empty EXCEPT !.CALLS = Sure(P)] : P \in SUBSET {p \in Apart(S4) : p[1] = 4 => p[2] = 1}}
Looped == {[Empty EXCEPT !.CALLS = Sure(P) \union Unsure(Q)]
             : P \in SUBSET (S3 \X S3), Q \in SUBSET {<<1, 2>>}}
\* Calls made from one place, from two, or from two of which one is unsure.
Repeated == {[Empty EXCEPT !.CALLS = Sure(P) \union Again(P \intersect Q) \union Unsure(P \intersect Q \intersect {<<1, 2>>})]
               : P \in SUBSET Apart(S3), Q \in SUBSET {<<1, 2>>, <<2, 3>>, <<2, 1>>, <<3, 2>>}}

On(graphs, asks) == [graph : graphs, ask : asks]

Text(S) == [exact |-> {}, bare |-> S, within |-> Symbols]
One     == [exact |-> {1}, bare |-> {}, within |-> {1}]
Nobody  == [exact |-> {}, bare |-> {}, within |-> {}]
Many    == [exact |-> {}, bare |-> {}, within |-> Symbols]

Impact(text, depth, direction, minimum) ==
    [tool |-> "impact", text |-> text, depth |-> depth, direction |-> direction, min |-> minimum]
Flow(text, depth) == [tool |-> "flow", text |-> text, depth |-> depth]
Trace(depth, direction) == [tool |-> "trace", text |-> One, depth |-> depth, direction |-> direction]

\* A caller (1), an endpoint, its handlers (2, 3) and what lies behind them.
Sliced ==
    {[Empty EXCEPT !.CALLS = Sure(P) \union Unsure(P \intersect {<<2, 3>>}), !.INJECTS = Sure(Q),
                   !.PERSISTS_TO = Sure({<<4, 1>>, <<3, 1>>}), !.CALLS_ENDPOINT = Sure({<<1, 1>>, <<1, 2>>}),
                   !.HANDLES = Sure(H)]
        : P \in SUBSET {<<2, 3>>, <<2, 4>>, <<3, 4>>, <<4, 1>>, <<3, 2>>, <<1, 3>>},
          Q \in SUBSET {<<2, 4>>, <<3, 1>>, <<4, 3>>}, H \in SUBSET {<<2, 1>>, <<3, 1>>}}

Walks ==
    On(Shaded, {Impact(One, 2, d, m) : d \in Directions, m \in {E, A}})
    \union On(Plain, {Impact(Text({1, 2}), 3, "downstream", A), Impact(Text({1}), 3, "upstream", A)})
    \union On(Ahead, {Flow(One, 3)})
    \union On({Empty}, {Impact(Many, 1, "downstream", A), Impact(Nobody, 1, "upstream", A),
                        Impact(One, 1, "sideways", A), Flow(One, -1)})
    \union On(Repeated, {Flow(Text({1, 2}), 2), Flow(One, 3), Impact(One, 2, "downstream", A),
                         [tool |-> "context", text |-> One]})
    \union On(Looped, {Flow(Text({1, 2}), 2), [tool |-> "context", text |-> One]})
    \union On(Sliced, {Trace(d, "downstream") : d \in 1..3} \union {Trace(1, "upstream")})

\* Symbols 1 and 2 are in one file, 3 and 4 in another.
MCFileOf == <<1, 1, 2, 2>>
MCLanguageOf == <<"python", "go">>
MCDirectoryOf == <<<<"api">>, <<"api", "v1">>>>

Pictures ==
    {[Empty EXCEPT !.CALLS = Sure(P) \union Unsure(P \intersect {<<1, 2>>}), !.ROUTES_TO = Sure(R) \union Unsure(R),
                   !["EXTENDS"] = Sure({<<4, 3>>}), !.HANDLES = Sure({<<r[2], 1>> : r \in R}),
                   !.CALLS_ENDPOINT = Sure({<<r[1], 1>> : r \in R}),
                   !.CO_CHANGES_WITH = {[from |-> 1, to |-> 2, conf |-> "INFERRED", frequency |-> 3, row |-> 1]}]
        : P \in SUBSET {<<1, 2>>, <<2, 1>>, <<1, 3>>, <<3, 2>>, <<4, 2>>},
          R \in {{}, {<<1, 4>>}, {<<3, 1>>}, {<<3, 4>>, <<3, 2>>}}}

Views ==
    [tool : {"payload"}, types : {{}, {"CALLS", "ROUTES_TO"}, AllTypes}, min : {E, A},
     language : {"any", "go"}, directory : {<<>>, <<"api", "v1">>},
     maxNodes : {0, 2, 4, 9}, maxEdges : {0, 2, 9}, focus : {0, 3}]

Drawings ==
    [tool : {"diagram"}, kind : {"flowchart"}, root : {1, 3}, depth : -1..2,
     direction : {"in", "out", "both"}, maxNodes : 2..4]
    \union [tool : {"diagram"}, kind : {"central", "class"}, root : {1}, maxNodes : 2..3]
    \union [tool : {"diagram"}, kind : {"file"}, modules : {<<>>, <<1>>, <<1, 2>>, <<1, 1, 2>>, <<1, 1, 1>>},
            maxNodes : 2..4]

Families ==
    {[Empty EXCEPT !.CALLS = Sure(P), !.MEMBER_OF = Sure(M), !["EXTENDS"] = Sure(M)]
        : P \in SUBSET {<<1, 2>>, <<2, 3>>, <<3, 1>>, <<3, 4>>, <<4, 1>>}, M \in SUBSET {<<2, 1>>, <<3, 1>>}}

MCRoleOf == <<"source", "test", "vendored", "source">>
MCKindOf == <<"function", "module", "class", "method">>

Questions ==
    [tool : {"search"}, exact : SUBSET {2, 3}, words : {<<0, 0, 0, 0>>, <<0, 2, 1, 0>>, <<1, 0, 1, 2>>, <<1, 1, 0, 1>>},
     prefixed : {<<>>, <<4, 1>>, <<1, 2, 3, 4>>}]

MCCases == Walks \union On(Pictures, Views) \union On(Families, Drawings)
           \union On({[Empty EXCEPT !.MEMBER_OF = Sure({2, 3, 4} \X {1})]}, Drawings)
           \union On(Families, Questions \union {[tool |-> "context", text |-> Text({s})] : s \in {1, 2}})
=============================================================================
