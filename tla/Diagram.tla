------------------------------ MODULE Diagram ------------------------------
(* The Mermaid diagram around a symbol, a file or the most called symbols: a    *)
(* breadth-first search over calls, cut to a number of nodes with one node that *)
(* stands for the rest. Python slices with a negative end count from the back.  *)
EXTENDS CodeGraph

\* Mutant: no room for the node that stands for the rest.
SliceOver(s, n) == Limit(s, n + 1)

\* s[:n] of Python.
Slice(s, n) == IF n >= 0 THEN Limit(s, n)
               ELSE Limit(s, IF Len(s) + n < 0 THEN 0 ELSE Len(s) + n)

Incident(g, s, direction) ==
    {e \in g.CALLS : \/ direction \in {"out", "both"} /\ e.from = s
                     \/ direction \in {"in", "both"} /\ e.to = s}

\* What is drawn of a row: those that agree in it are one line.
Arrows(rows) == {[from |-> e.from, to |-> e.to, conf |-> e.conf] : e \in rows}

Other(e, s) == IF e.from = s THEN e.to ELSE e.from

\* One level more: what was discovered, in its order, and the frontier.
Deeper(g, r, was) ==
    LET out  == UNION {Incident(g, s, r.direction) : s \in was.frontier}
        next == (UNION {{Other(e, s) : e \in Incident(g, s, r.direction)} : s \in was.frontier})
                \ ToSet(was.discovered)
    IN [discovered |-> was.discovered \o Sorted(next, <), frontier |-> next, edges |-> was.edges \union out]

Levels(g, r) ==
    LET root == [discovered |-> <<r.root>>, frontier |-> {r.root}, edges |-> {}]
        level[k \in {0} \union 1..r.depth] == IF k = 0 THEN root ELSE Deeper(g, r, level[k - 1])
    IN level

Search(g, r) == Levels(g, r)[IF r.depth > 0 THEN r.depth ELSE 0]

\* node_count, what is drawn, and whether a node stands for the rest.
Flowchart(g, r) ==
    LET found == Search(g, r)
        cut   == Len(found.discovered) > r.maxNodes
        kept  == IF cut THEN Slice(found.discovered, r.maxNodes - 1) ELSE found.discovered
    IN [nodes |-> ToSet(kept), count |-> Len(kept) + (IF cut THEN 1 ELSE 0), truncated |-> cut,
        edges |-> Arrows({e \in found.edges : e.from \in ToSet(kept) /\ e.to \in ToSet(kept)})]

\* The most called symbols and the calls among them; never marked as cut.
Central(g, r) ==
    LET degree(s) == Cardinality({e \in g.CALLS : e.to = s})
        called == {s \in Symbols : degree(s) > 0}
        order  == Sorted(called, LAMBDA a, b : \/ degree(a) > degree(b)
                                               \/ degree(a) = degree(b) /\ a < b)
        kept   == ToSet(Limit(order, IF r.maxNodes < 1 THEN 1 ELSE r.maxNodes))
    IN [nodes |-> kept, count |-> Cardinality(kept), truncated |-> FALSE,
        edges |-> Arrows({e \in g.CALLS : e.from \in kept /\ e.to \in kept})]

\* The modules a file imports, as often as it imports them: one node for the file,
\* and two are kept free.
FileFlow(modules, r) ==
    LET cut  == Len(modules) > r.maxNodes - 1
        kept == IF cut THEN Slice(modules, r.maxNodes - 2) ELSE modules
    IN [nodes |-> ToSet(kept), count |-> Len(kept) + 1 + (IF cut THEN 1 ELSE 0),
        truncated |-> cut, edges |-> {}]

\* A type with its members, which are lines of its box and not counted as cut.
ClassBox(g, r) ==
    LET members == Sorted({e.from : e \in {x \in g.MEMBER_OF : x.to = r.root}}, <)
        cut     == Len(members) > r.maxNodes
        shown   == IF cut THEN Slice(members, r.maxNodes - 1) ELSE members
    IN [nodes |-> ToSet(shown) \union {r.root}, count |-> 1 + Len(shown), truncated |-> cut,
        edges |-> Arrows({e \in g["EXTENDS"] \union g.IMPLEMENTS : e.from = r.root})]
=============================================================================
