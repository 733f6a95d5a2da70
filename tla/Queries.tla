------------------------------ MODULE Queries ------------------------------
(* One question about one graph, whoever asks it: a tool of the server, the web  *)
(* view, a diagram or a search in natural language. What walks the graph is a    *)
(* sequence of steps (Traversals), the rest is computed from rows at once.       *)
EXTENDS Traversals, GraphPayload, Diagram, Ranking

\* A graph is finite, and the sizes of a view are integers of any sign.
ASSUME ViewsAssumption ==
    /\ CoChangeCap \in Nat
    /\ \A c \in Cases :
        /\ \A t \in SymbolSymbol   : c.graph[t] \subseteq Edges(Symbols, Symbols)
        /\ \A t \in SymbolEndpoint : c.graph[t] \subseteq Edges(Symbols, Nat)
        /\ \A e \in c.graph["CO_CHANGES_WITH"] :
             e.from \in Nat /\ e.to \in Nat /\ e.frequency \in Nat /\ e.conf \in Confidence
             /\ e.row \in Nat
        /\ \A t \in AllTypes : IsFiniteSet(c.graph[t])
        /\ c.graph.MEMBER_OF \subseteq Edges(Symbols, Symbols)
        /\ c.ask.tool = "payload" => c.ask.maxNodes \in Int /\ c.ask.maxEdges \in Int
        /\ c.ask.tool = "diagram" =>
            /\ c.ask.kind \in {"flowchart", "central", "file", "class"} /\ c.ask.maxNodes \in Int
            /\ c.ask.kind = "flowchart" => c.ask.root \in Symbols /\ c.ask.depth \in Int
            /\ c.ask.kind = "file" => c.ask.modules \in Seq(Nat)
        /\ c.ask.tool = "search" =>
            /\ c.ask.exact \subseteq Symbols /\ c.ask.prefixed \in Seq(Symbols)
            /\ DOMAIN c.ask.words \subseteq Symbols
            /\ \A s \in DOMAIN c.ask.words : c.ask.words[s] \in Nat
    /\ \A s \in Symbols : RoleOf[s] \in Roles

Answer(tool, value) ==
    /\ pc = "called" /\ ask.tool = tool
    /\ answer' = {value} /\ pc' = "done"
    /\ UNCHANGED <<graph, ask, roots, walk, flowVars, todo>>

View   == Answer("payload", Payload(graph, ask))
Find   == Answer("search", Ranked(graph, ask))
Draw   == Answer("diagram", CASE ask.kind = "flowchart" -> Flowchart(graph, ask)
                              [] ask.kind = "central"   -> Central(graph, ask)
                              [] ask.kind = "file"      -> FileFlow(ask.modules, ask)
                              [] ask.kind = "class"     -> ClassBox(graph, ask))

NextQuery == Next \/ View \/ Draw \/ Find

\* A walk that is under way goes on; the others answer in one step.
SpecQuery == Init /\ [][NextQuery]_vars /\ WF_vars(Next)

(***************************** properties ***********************************)

\* The web view's payload stays within its caps, names only nodes it has, tells one
\* edge of a type between two nodes, holds to the filters, and shows an ordinary
\* node only when both ends of every route that passes them are shown.
PayloadIsSound ==
    Answered("payload") => \A p \in answer :
        LET routes == {e \in graph.ROUTES_TO : Passes(e.conf, ask.min)}
            heads  == {k \in UNION {{Sym(e.from), Sym(e.to)} : e \in routes} : Admitted(ask, k)}
        IN /\ Cardinality(p.nodes) <= Nodes(ask) /\ Cardinality(p.edges) <= EdgesMost(ask)
           /\ \A k \in p.nodes : Admitted(ask, k)
           /\ \A e \in p.edges :
                /\ e.source \in p.nodes /\ e.target \in p.nodes
                /\ e.etype \in Requested(ask.types) /\ Passes(e.conf, ask.min)
                /\ \A f \in p.edges :
                    e.etype = f.etype /\ e.source = f.source /\ e.target = f.target => e = f
           /\ "ROUTES_TO" \in Requested(ask.types) =>
                heads \subseteq p.nodes \/ \A k \in p.nodes : k[1] = "ep" \/ k \in heads

\* A view that is not marked as cut, of a graph with no more symbols than it may
\* have nodes and no more co-changes than it takes, has every edge that passes the
\* filters.
UncutIsComplete ==
    Answered("payload") /\ (\A p \in answer : ~p.truncated) /\ Cardinality(Symbols) <= Nodes(ask)
      /\ Cardinality(graph["CO_CHANGES_WITH"]) <= CoChangeCap =>
        \A t \in Requested(ask.types) : \A e \in graph[t] :
            LET key(x, there) == IF t = "CO_CHANGES_WITH" THEN File(x)
                                 ELSE IF there /\ t \in SymbolEndpoint THEN Ep(x) ELSE Sym(x)
                a == key(e.from, FALSE)
                b == key(e.to, TRUE)
            IN Passes(e.conf, ask.min) /\ Admitted(ask, a) /\ Admitted(ask, b)
                => \E p \in answer : \E f \in p.edges : f.etype = t /\ f.source = a /\ f.target = b

\* A diagram asked for with two nodes or more has the node it is about, edges among
\* its nodes only, and no more nodes than asked for, apart from a class, whose own
\* node comes on top of its members. Around a symbol, a file or a class it is marked
\* as cut exactly when something was left out; that of the most called symbols never
\* is, but has as many as were asked for if any is missing, and none called less.
DiagramIsHonest ==
    Answered("diagram") /\ ask.maxNodes >= 2 => \A d \in answer :
        /\ d.count <= ask.maxNodes + (IF ask.kind = "class" THEN 1 ELSE 0)
        /\ ask.kind \in {"flowchart", "class"} => ask.root \in d.nodes
        /\ ask.kind \in {"flowchart", "central"} =>
            \A e \in d.edges : e.from \in d.nodes /\ e.to \in d.nodes
        /\ ask.kind = "central" =>
            LET degree(n) == Cardinality({e \in graph.CALLS : e.to = n})
            IN \A n \in Symbols \ d.nodes : degree(n) > 0 =>
                d.count = ask.maxNodes /\ \A k \in d.nodes : degree(k) >= degree(n)
        /\ ask.kind = "file" =>
            /\ d.truncated <=> d.count < Len(ask.modules) + 1
            /\ d.nodes # ToSet(ask.modules) => d.truncated
        /\ ask.kind = "class" =>
            (d.truncated <=> ~ {e.from : e \in {x \in graph.MEMBER_OF : x.to = ask.root}} \subseteq d.nodes)
        /\ ask.kind = "flowchart" =>
            LET R == {<<e.from, e.to>> : e \in {x \in graph.CALLS : ask.direction \in {"out", "both"}}}
                     \union {<<e.to, e.from>> : e \in {x \in graph.CALLS : ask.direction \in {"in", "both"}}}
                near == UNION {ReachedBy({ask.root}, R, k) : k \in {0} \union 1..ask.depth}
            IN /\ d.nodes \subseteq near
               /\ d.truncated <=> d.nodes # near

\* Not checked, it does not hold: cli/app.py:523 calls max_nodes a "Node cap", and
\* :572 says "Diagram truncated" of one that was. A class box with as many members
\* has one node more, and of the most called symbols some are left out unsaid.
CapIsKeptAndTold ==
    Answered("diagram") /\ ask.maxNodes >= 2 => \A d \in answer :
        /\ d.count <= ask.maxNodes
        /\ ask.kind = "central" =>
            (d.truncated <=> \E n \in Symbols \ d.nodes : \E e \in graph.CALLS : e.to = n)

\* A symbol whose name has a word of the query is ranked above every one that was
\* found otherwise, whatever its file is for and however often it is called (DEC-084),
\* as long as the pool holds all that are named so: one that is cut from it and is
\* found beside an exact hit again has lost its bonus.
NamesFirst ==
    Answered("search") /\ Cardinality(ask.exact \union Named(ask)) <= Pool => \A found \in answer :
        \A i, j \in DOMAIN found : i < j /\ Boost(ask, found[j]) > 0 => Boost(ask, found[i]) > 0

\* query/nl.py:112-116: "a name hit never sinks below a non-name hit on shaping alone,
\* while exact > name_match ... still orders everything within each tier".
ExactFirst ==
    Answered("search") => \A found \in answer :
        \A i, j \in DOMAIN found : i < j => Boost(ask, found[i]) >= Boost(ask, found[j])
=============================================================================
