---------------------------- MODULE GraphPayload ----------------------------
(* What the web view gets: a part of the graph cut to size. Candidate edges are  *)
(* collected around a seed of symbols, their ends become nodes, nodes are        *)
(* filtered and cut, and edges are cut to the nodes that are left. A key is a    *)
(* pair of the kind of a node and its name.                                      *)
EXTENDS CodeGraph

CONSTANTS FileOf,        \* the file of a symbol
          LanguageOf,    \* the language of a file
          DirectoryOf,   \* its directory, a sequence of names
          FocusLimit,    \* neighbours of the focus that join the seed, 50 in the code
          CoChangeCap    \* co-change edges, 200 in the code

SymbolSymbol   == {"CALLS", "EXTENDS", "IMPLEMENTS", "ROUTES_TO"}
SymbolEndpoint == {"HANDLES", "CALLS_ENDPOINT"}
DefaultTypes   == SymbolSymbol \union SymbolEndpoint
AllTypes       == DefaultTypes \union {"CO_CHANGES_WITH"}

Priority(t) == CASE t = "ROUTES_TO" -> 0
                 [] t \in SymbolEndpoint -> 1
                 [] t \in {"EXTENDS", "IMPLEMENTS"} -> 2
                 [] t = "CALLS" -> 3
                 [] t = "CO_CHANGES_WITH" -> 4

\* Unknown types are dropped; none left means the default.
Requested(types) ==
    IF types \intersect AllTypes = {} THEN DefaultTypes ELSE types \intersect AllTypes

AtLeast(n, m) == IF n < m THEN m ELSE n
Nodes(r) == AtLeast(r.maxNodes, 1)
EdgesMost(r) == AtLeast(r.maxEdges, 0)

\* How many calls a symbol gets: edges, not callers.
Centrality(g, s) == Cardinality({e \in g.CALLS : e.to = s})

\* Mutant: symbols nobody calls are left out.
SeedCalled(g, r) == {s \in Symbols : Centrality(g, s) > 0} \union {r.focus}

\* The most called symbols, topped up in the order of names, then the focus with
\* the first of its neighbours.
Seed(g, r) ==
    LET called == {s \in Symbols : Centrality(g, s) > 0}
        top    == FirstOf(called, LAMBDA a, b :
                            \/ Centrality(g, a) > Centrality(g, b)
                            \/ Centrality(g, a) = Centrality(g, b) /\ a < b, Nodes(r))
        listed == FirstOf(Symbols, <, Nodes(r) * 2)
        fill   == FirstOf(listed \ top, <, Nodes(r) - Cardinality(top))
        near   == {<<e.to, e>> : e \in {x \in g.CALLS : x.from = r.focus}}
                  \union {<<e.from, e>> : e \in {x \in g.CALLS : x.to = r.focus}}
        beside == {n[1] : n \in FirstOf(near, LAMBDA a, b : a[1] < b[1], FocusLimit)}
    IN top \union fill \union (IF r.focus = 0 THEN {} ELSE {r.focus} \union beside)

Sym(s) == <<"sym", s>>
Ep(e)  == <<"ep", e>>
File(f) == <<"file", f>>

\* Keys sort by their prefix first.
KindOrder(k) == CASE k = "ep" -> 1 [] k = "file" -> 2 [] k = "sym" -> 3
KeyBefore(a, b) == \/ KindOrder(a[1]) < KindOrder(b[1])
                   \/ a[1] = b[1] /\ a[2] < b[2]

Edge(t, a, b, e) == [etype |-> t, source |-> a, target |-> b, conf |-> e.conf, row |-> e.row]

\* Routes are never held to the seed.
SymbolEdges(g, t, seed) ==
    {Edge(t, Sym(e.from), Sym(e.to), e)
        : e \in {x \in g[t] : t = "ROUTES_TO" \/ (x.from \in seed /\ x.to \in seed)}}

EndpointEdges(g, t, seed) ==
    {Edge(t, Sym(e.from), Ep(e.to), e) : e \in {x \in g[t] : x.from \in seed}}

CoChangeEdges(g, minimum) ==
    LET often(a, b) == \/ a.frequency > b.frequency
                       \/ a.frequency = b.frequency /\ a.from < b.from
                       \/ a.frequency = b.frequency /\ a.from = b.from /\ a.to < b.to
        rows == FirstOf(g["CO_CHANGES_WITH"], often, CoChangeCap * 2)
        sure == {e \in rows : Passes(e.conf, minimum)}
    IN {Edge("CO_CHANGES_WITH", File(e.from), File(e.to), e)
            : e \in FirstOf(sure, often, CoChangeCap)}

Candidates(g, r) ==
    LET seed == Seed(g, r)
        types == Requested(r.types)
        all  == (UNION {SymbolEdges(g, t, seed) : t \in types \intersect SymbolSymbol})
                \union (UNION {EndpointEdges(g, t, seed) : t \in types \intersect SymbolEndpoint})
    IN {e \in all : Passes(e.conf, r.min)}
       \union (IF "CO_CHANGES_WITH" \in types THEN CoChangeEdges(g, r.min) ELSE {})

Ends(E) == {e.source : e \in E} \union {e.target : e \in E}

\* Mutant: the ends of a route are ordinary symbols.
HeadlineEndpoints(E, N) == {k \in N : k[1] = "ep"}

\* Endpoints and both ends of a route come first.
Headline(E, N) == {k \in N : k[1] = "ep" \/ k \in Ends({e \in E : e.etype = "ROUTES_TO"})}

NodeFile(k) == IF k[1] = "sym" THEN FileOf[k[2]] ELSE k[2]

\* Endpoints have no language and no directory, and are exempt.
Admitted(r, k) ==
    \/ k[1] = "ep"
    \/ /\ r.language # "any" => LanguageOf[NodeFile(k)] = r.language
       /\ r.directory # <<>> => IsPrefix(r.directory, DirectoryOf[NodeFile(k)])

CapNodes(g, E, N, most) ==
    LET weight(k) == IF k[1] = "sym" THEN Centrality(g, k[2]) ELSE 0
        heads == Headline(E, N)
        before(a, b) ==
            \/ a \in heads /\ b \notin heads
            \/ /\ a \in heads <=> b \in heads
               /\ \/ weight(a) > weight(b)
                  \/ weight(a) = weight(b) /\ KeyBefore(a, b)
    IN FirstOf(N, before, most)

\* Of edges with the same type and ends the first one stored is kept.
Eligible(g, E, kept) ==
    LET inside == {e \in E : e.source \in kept /\ e.target \in kept}
        same(e) == {x \in inside : x.etype = e.etype /\ x.source = e.source /\ x.target = e.target}
    IN {First(same(e)) : e \in inside}

TypeName(t) == CASE t = "CALLS" -> 1 [] t = "CALLS_ENDPOINT" -> 2 [] t = "CO_CHANGES_WITH" -> 3
                 [] t = "EXTENDS" -> 4 [] t = "HANDLES" -> 5 [] t = "IMPLEMENTS" -> 6
                 [] t = "ROUTES_TO" -> 7

CapEdges(E, most) ==
    FirstOf(E, LAMBDA a, b :
        \/ Priority(a.etype) < Priority(b.etype)
        \/ /\ Priority(a.etype) = Priority(b.etype)
           /\ \/ TypeName(a.etype) < TypeName(b.etype)
              \/ /\ a.etype = b.etype
                 /\ \/ KeyBefore(a.source, b.source)
                    \/ a.source = b.source /\ KeyBefore(a.target, b.target), most)

Payload(g, r) ==
    LET E    == Candidates(g, r)
        N    == {k \in Ends(E) : Admitted(r, k)}
        kept == CapNodes(g, E, N, Nodes(r))
        some == Eligible(g, E, kept)
        cut  == CapEdges(some, EdgesMost(r))
    IN [nodes |-> kept, edges |-> cut,
        truncated |-> Cardinality(kept) < Cardinality(N) \/ Cardinality(some) > Cardinality(cut)]
=============================================================================
