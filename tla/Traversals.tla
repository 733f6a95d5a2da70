----------------------------- MODULE Traversals -----------------------------
(* The tools of the server that walk the graph: impact (breadth first over      *)
(* calls), context (one symbol), flow (all paths, depth first) and trace (over  *)
(* an endpoint to its handlers, then breadth first over calls and injections).  *)
(* One call of one tool; each turn of a loop is a step. A call opens its own    *)
(* store, so the graph does not change under it.                                *)
EXTENDS CodeGraph

CONSTANTS MaxSiblings,  \* siblings context lists, 20 in the code
          MaxCallees,   \* callees flow follows from one symbol, 5 in the code
          MaxPaths,     \* paths flow returns, 25 in the code
          TailBound,    \* trace stops after the hop that reaches it, 50 in the code
          Cases         \* graphs, each with a call on it

Walkers == {"impact", "context", "flow", "trace"}

ASSUME CapsAssumption == MaxCallees \in Nat /\ MaxPaths \in Nat

\* What ends an edge is a node of its type, a depth is an integer of any sign.
ASSUME CasesAssumption ==
    \A c \in Cases :
        /\ c.graph.CALLS \subseteq Edges(Symbols, Symbols)
        /\ c.graph.INJECTS \subseteq Edges(Symbols, Symbols)
        /\ c.graph.PERSISTS_TO \subseteq Edges(Symbols, Nat)
        /\ c.graph.HANDLES \subseteq Edges(Symbols, Nat)
        /\ Numbered(c.graph.CALLS)
        /\ c.ask.tool \in Walkers =>
            /\ c.ask.text \in Texts
            /\ c.ask.tool # "context" => c.ask.depth \in Int

VARIABLES graph,
          ask,          \* the tool and its arguments
          pc,
          roots,        \* the symbols the text resolved to
          walk,         \* breadth first: what was seen, the frontier, hops, what was found
          stack,        \* depth first: paths to extend,
          results,      \* those of this entry that have ended,
          paths,        \* and those of the entries before
          todo,         \* entries of flow, chains of trace still to follow
          answer

flowVars == <<stack, results, paths>>
vars == <<graph, ask, pc, roots, walk, flowVars, todo, answer>>

Directions == {"upstream", "downstream"}
None == 0

NoWalk == [of |-> {}, seen |-> {}, frontier |-> {}, hop |-> 0, found |-> {}]

Init ==
    /\ \E c \in Cases : graph = c.graph /\ ask = c.ask
    /\ pc = "called" /\ roots = {} /\ walk = NoWalk
    /\ stack = <<>> /\ results = <<>> /\ paths = <<>>
    /\ todo = {} /\ answer = {}

Stops == {"refused", "unresolved", "done"}

\* impact and trace look at the direction before they open the store.
Refuse ==
    /\ pc = "called" /\ ask.tool \in {"impact", "trace"} /\ ask.direction \notin Directions
    /\ pc' = "refused"
    /\ UNCHANGED <<graph, ask, roots, walk, flowVars, todo, answer>>

ChainsFrom(S) ==
    UNION {{[consumer |-> c.from, endpoint |-> c.to, handler |-> h]
                : h \in LET H == {e.from : e \in {x \in graph.HANDLES : x.to = c.to}}
                        IN IF H = {} THEN {None} ELSE H}
            : c \in {x \in graph.CALLS_ENDPOINT : x.from \in S}}

Resolve ==
    /\ pc = "called" /\ ask.tool \in Walkers
    /\ ask.tool \in {"impact", "trace"} => ask.direction \in Directions
    /\ \E S \in Resolutions(ask.text) :
        /\ roots' = S
        /\ pc' = IF S = {} THEN "unresolved" ELSE ask.tool
        /\ walk' = IF ask.tool = "impact" THEN [NoWalk EXCEPT !.seen = S, !.frontier = S] ELSE NoWalk
        /\ todo' = CASE ask.tool = "flow"  -> S
                     [] ask.tool = "trace" -> IF ask.direction = "downstream" THEN ChainsFrom(S) ELSE S
                     [] OTHER              -> {}
    /\ UNCHANGED <<graph, ask, flowVars, answer>>

(***************************** impact ***************************************)

Near(e) == IF ask.direction = "downstream" THEN e.from ELSE e.to
Far(e)  == IF ask.direction = "downstream" THEN e.to ELSE e.from

\* Mutant: what was seen before the frontier is found again.
ImpactRowsAgain ==
    {e \in graph.CALLS : /\ Near(e) \in walk.frontier /\ Passes(e.conf, ask.min)
                         /\ Far(e) \notin walk.frontier}

ImpactRows ==
    {e \in graph.CALLS : /\ Near(e) \in walk.frontier /\ Passes(e.conf, ask.min)
                         /\ Far(e) \notin walk.seen}

ImpactHop ==
    /\ pc = "impact" /\ walk.hop < ask.depth /\ walk.frontier # {}
    /\ LET rows == ImpactRows
           next == {Far(e) : e \in rows}
           bucket == {[symbol |-> r.symbol, hop |-> walk.hop + 1, conf |-> r.conf]
                        : r \in DedupeBy(rows, Far)}
       IN walk' = [walk EXCEPT !.seen = @ \union next, !.frontier = next, !.hop = @ + 1,
                                !.found = @ \union bucket]
    /\ UNCHANGED <<graph, ask, pc, roots, flowVars, todo, answer>>

ImpactDone ==
    /\ pc = "impact" /\ (walk.hop >= ask.depth \/ walk.frontier = {})
    /\ answer' = walk.found /\ pc' = "done"
    /\ UNCHANGED <<graph, ask, roots, walk, flowVars, todo>>

(***************************** context **************************************)

To(e) == e.to
From(e) == e.from

\* The first match only. Callers and callees are cut to MaxRows rows and then
\* deduplicated; the parent is any one of the types the symbol is a member of.
\* Commits and insights of the file, which are looked up too, are not in the graph.
Context ==
    /\ pc = "context"
    /\ \E s \in roots :
        LET callers == Limit(OrderBy({e \in graph.CALLS : e.to = s}, From), MaxRows)
            callees == Limit(OrderBy({e \in graph.CALLS : e.from = s}, To), MaxRows)
            of(t)   == {e.from : e \in {x \in graph.MEMBER_OF : x.to = t}}
            parents == {e.to : e \in {x \in graph.MEMBER_OF : x.from = s}}
        IN \E p \in IF parents = {} THEN {None} ELSE parents :
            answer' = {[symbol   |-> s,
                        callers  |-> DedupeBy(ToSet(callers), From),
                        callees  |-> DedupeBy(ToSet(callees), To),
                        parent   |-> p,
                        siblings |-> IF p = None THEN {} ELSE FirstOf(of(p) \ {s}, <, MaxSiblings),
                        members  |-> FirstOf(of(s), <, MaxRows),
                        bases    |-> {e.to : e \in {x \in graph["EXTENDS"] \union graph.IMPLEMENTS : x.from = s}}]}
    /\ pc' = "done"
    /\ UNCHANGED <<graph, ask, roots, walk, flowVars, todo>>

(***************************** flow *****************************************)

Callees(s) ==
    Limit(OrderBy({e \in graph.CALLS : e.from = s /\ e.to # s}, To), MaxCallees)

Names(path) == {path[i].symbol : i \in DOMAIN path}

\* Mutant: one call too many.
TooDeepLate(path) == Len(path) > ask.depth + 1

TooDeep(path) == Len(path) - 1 >= ask.depth

\* The paths one call further: over the callees that are on the path already, or
\* over the others. A callee has a path for each of its rows: the answer tells them
\* alike, and the model keeps the row to tell them apart.
Onward(path, cyclic) ==
    LET some == OrderBy({e \in ToSet(Callees(Last(path).symbol)) : e.to \in Names(path) <=> cyclic},
                        To)
    IN [i \in DOMAIN some |->
           Append(path, [symbol |-> some[i].to, conf |-> some[i].conf, cycle |-> cyclic,
                         row |-> some[i].row])]

\* The next entry starts with an empty list of its own; its paths join the answer
\* only when the walk from it is over.
FlowEnter ==
    /\ pc = "flow" /\ Len(paths) < MaxPaths
    /\ \E s \in todo :
        /\ stack' = <<<<[symbol |-> s, conf |-> "EXTRACTED", cycle |-> FALSE, row |-> 0]>>>>
        /\ todo' = todo \ {s}
    /\ pc' = "flowing"
    /\ UNCHANGED <<graph, ask, roots, walk, results, paths, answer>>

FlowPop ==
    /\ pc = "flowing" /\ stack # <<>>
    /\ LET path == Last(stack)
       IN IF TooDeep(path) \/ Callees(Last(path).symbol) = <<>>
          THEN results' = Append(results, path) /\ stack' = Front(stack)
          ELSE results' = results \o Onward(path, TRUE) /\ stack' = Front(stack) \o Onward(path, FALSE)
    /\ UNCHANGED <<graph, ask, pc, roots, walk, paths, todo, answer>>

FlowLeave ==
    /\ pc = "flowing" /\ stack = <<>>
    /\ paths' = Limit(paths \o results, MaxPaths) /\ results' = <<>>
    /\ pc' = "flow"
    /\ UNCHANGED <<graph, ask, roots, walk, stack, todo, answer>>

FlowDone ==
    /\ pc = "flow" /\ (todo = {} \/ Len(paths) >= MaxPaths)
    /\ pc' = "done"
    /\ UNCHANGED <<graph, ask, roots, walk, flowVars, todo, answer>>

(***************************** trace ****************************************)

\* Downstream: each chain goes over one endpoint to one handler and follows the
\* handler's tail, or ends at an endpoint that nobody handles.
TraceChain ==
    /\ pc = "trace" /\ ask.direction = "downstream"
    /\ \E c \in todo :
        IF c.handler = None
        THEN /\ answer' = answer \union {[chain |-> c, tail |-> {}]}
             /\ todo' = todo \ {c}
             /\ UNCHANGED <<pc, walk>>
        ELSE /\ walk' = [NoWalk EXCEPT !.of = {c}, !.seen = {c.handler}, !.frontier = {c.handler}]
             /\ pc' = "tail"
             /\ UNCHANGED <<todo, answer>>
    /\ UNCHANGED <<graph, ask, roots, flowVars>>

\* Mutant: one row too many.
BoundedLate == Cardinality(walk.found) > TailBound

Bounded == Cardinality(walk.found) >= TailBound

\* One hop: the tables of the frontier, then what it calls, then what is injected
\* into it. A symbol is listed with the confidence of the first row that reaches it.
TailHop ==
    /\ pc = "tail" /\ walk.hop < ask.depth /\ walk.frontier # {} /\ ~Bounded
    /\ LET new(rows, seen) == {e \in rows : e.from \in walk.frontier /\ e.to \notin seen}
           listed(rows, via) ==
               {[to |-> n, hop |-> walk.hop + 1, via |-> via,
                 conf |-> First({e \in rows : e.to = n}).conf]
                   : n \in {e.to : e \in rows}}
           tables   == new(graph.PERSISTS_TO, {f.to : f \in {x \in walk.found : x.via = "persists_to"}})
           calls    == new(graph.CALLS, walk.seen)
           called   == {e.to : e \in calls}
           injects  == new(graph.INJECTS, walk.seen \union called)
           next     == called \union {e.to : e \in injects}
       IN walk' = [walk EXCEPT !.seen = @ \union next, !.frontier = next, !.hop = @ + 1,
                    !.found = @ \union listed(tables, "persists_to")
                                \union listed(calls, "calls") \union listed(injects, "injects")]
    /\ UNCHANGED <<graph, ask, pc, roots, flowVars, todo, answer>>

\* Mutant: a chain that was told is told again.
TailDoneAgain ==
    /\ pc = "tail" /\ (walk.hop >= ask.depth \/ walk.frontier = {} \/ Bounded)
    /\ answer' = answer \union {[chain |-> c, tail |-> walk.found] : c \in walk.of}
    /\ pc' = "trace" /\ walk' = NoWalk
    /\ UNCHANGED <<graph, ask, roots, flowVars, todo>>

TailDone ==
    /\ pc = "tail" /\ (walk.hop >= ask.depth \/ walk.frontier = {} \/ Bounded)
    /\ answer' = answer \union {[chain |-> c, tail |-> walk.found] : c \in walk.of}
    /\ todo' = todo \ walk.of
    /\ pc' = "trace" /\ walk' = NoWalk
    /\ UNCHANGED <<graph, ask, roots, flowVars>>

\* Upstream: who calls the endpoints this symbol handles.
TraceUpstream ==
    /\ pc = "trace" /\ ask.direction = "upstream" /\ todo # {}
    /\ answer' = {[handler |-> h.from, endpoint |-> h.to,
                   callers |-> {[symbol |-> c.from, conf |-> c.conf]
                                    : c \in {x \in graph.CALLS_ENDPOINT : x.to = h.to}}]
                    : h \in {x \in graph.HANDLES : x.from \in roots}}
    /\ todo' = {}
    /\ UNCHANGED <<graph, ask, pc, roots, walk, flowVars>>

TraceDone ==
    /\ pc = "trace" /\ todo = {}
    /\ pc' = "done"
    /\ UNCHANGED <<graph, ask, roots, walk, flowVars, todo, answer>>

Next ==
    \/ Refuse \/ Resolve
    \/ ImpactHop \/ ImpactDone
    \/ Context
    \/ FlowEnter \/ FlowPop \/ FlowLeave \/ FlowDone
    \/ TraceChain \/ TailHop \/ TailDone \/ TraceUpstream \/ TraceDone

\* One thread, and every query returns.
Spec == Init /\ [][Next]_vars /\ WF_vars(Next)

(***************************** properties ***********************************)

\* Symbols reached from S in exactly k steps of R, and those reached no sooner.
ReachedBy(S, R, k) ==
    {p[k + 1] : p \in {q \in [1..k + 1 -> Symbols] :
                          q[1] \in S /\ \A i \in 1..k : <<q[i], q[i + 1]>> \in R}}
FirstReached(S, R, k) == ReachedBy(S, R, k) \ UNION {ReachedBy(S, R, j) : j \in 0..k - 1}

Answered(tool) == pc = "done" /\ ask.tool = tool

\* impact lists each symbol once, at its distance over the edges that are sure
\* enough and with the surest edge that reaches it from one step nearer, and it
\* misses none within the depth (DEC-085: no symbol four times).
ImpactIsReach ==
    Answered("impact") =>
        LET calls == {e \in graph.CALLS : Passes(e.conf, ask.min)}
            R     == {<<Near(e), Far(e)>> : e \in calls}
            at(k) == FirstReached(roots, R, k)
        IN answer = UNION {{[symbol |-> s, hop |-> k,
                             conf |-> Surest({e.conf : e \in {x \in calls : /\ Far(x) = s
                                                                            /\ Near(x) \in at(k - 1)}})]
                                : s \in at(k)} : k \in 1..ask.depth}

\* The paths of flow are calls one after the other from an entry, end for a reason
\* (depth, nothing to call, back on themselves and marked so), and one is told as
\* often as its calls can be chosen among the places they are made from, no more;
\* if no cap was met, and the caps count places and not callees, it is told for
\* every choice, and no path is missing (_walk_flow does not deduplicate).
FlowIsFaithful ==
    Answered("flow") =>
        LET simple(p) == \A i, j \in DOMAIN p : p[i] = p[j] => i = j
            ended(p)  == Len(p) - 1 >= ask.depth \/ Callees(Last(p)) = <<>>
            R         == {<<e.from, e.to>> : e \in graph.CALLS}
            walks     == {p \in UNION {[1..k + 1 -> Symbols] : k \in {0} \union 0..ask.depth} :
                            /\ p[1] \in roots
                            /\ \A i \in 1..Len(p) - 1 : p[i] # p[i + 1] /\ <<p[i], p[i + 1]>> \in R}
            choices(p) == {c \in [1..Len(p) - 1 -> graph.CALLS] :
                             \A k \in 1..Len(p) - 1 : c[k].from = p[k] /\ c[k].to = p[k + 1]}
            names(p)  == [i \in DOMAIN p |-> p[i].symbol]
        IN /\ Len(paths) <= MaxPaths
           /\ \A i, j \in DOMAIN paths : paths[i] = paths[j] => i = j
           /\ \A i \in DOMAIN paths :
                LET p == paths[i]
                IN /\ names(p) \in walks
                   /\ \A k \in 2..Len(p) : [from |-> p[k - 1].symbol, to |-> p[k].symbol,
                                            conf |-> p[k].conf, row |-> p[k].row] \in graph.CALLS
                   /\ simple(names(Front(p))) /\ \A k \in 1..Len(p) - 1 : ~p[k].cycle
                   /\ Last(p).cycle <=> ~simple(names(p))
                   /\ Last(p).cycle \/ ended(names(p))
           /\ (/\ Len(paths) < MaxPaths
               /\ \A s \in Symbols : Cardinality({e \in graph.CALLS : e.from = s}) <= MaxCallees)
              => \A p \in walks : (Len(p) > 1 => simple(Front(p))) /\ (simple(p) => ended(p)) =>
                   \A c \in choices(p) : \E i \in DOMAIN paths :
                     names(paths[i]) = p /\ \A k \in 1..Len(p) - 1 : paths[i][k + 1].row = c[k].row

\* Not checked, it does not hold: what flow tells, it tells once. A function that
\* calls another at two places has every path through the two told twice.
PathsAreToldOnce ==
    Answered("flow") => \A i, j \in DOMAIN paths :
        [k \in DOMAIN paths[i] |-> [paths[i][k] EXCEPT !.row = 0]]
            = [k \in DOMAIN paths[j] |-> [paths[j][k] EXCEPT !.row = 0]] => i = j

\* trace lists what a handler reaches over calls and injections once, at its
\* distance, and the tables of what it reaches one step further; what it leaves
\* out is deeper than the hop at which the answer passed its bound.
TailIsReach ==
    Answered("trace") /\ ask.direction = "downstream" =>
        \A a \in answer :
            LET R     == {<<e.from, e.to>> : e \in graph.CALLS \union graph.INJECTS}
                at(k) == FirstReached({a.chain.handler}, R, k)
                full(k) == Cardinality({f \in a.tail : f.hop < k}) >= TailBound
                due(k)  == k \in 1..ask.depth /\ ~full(k)
                rows(v) == CASE v = "calls" -> graph.CALLS [] v = "injects" -> graph.INJECTS
                             [] v = "persists_to" -> graph.PERSISTS_TO
            IN a.chain.handler # None =>
                /\ \A k \in 1..ask.depth :
                    /\ {f.to : f \in {x \in a.tail : x.hop = k /\ x.via # "persists_to"}}
                        = IF due(k) THEN at(k) ELSE {}
                    /\ {f.to : f \in {x \in a.tail : x.hop <= k /\ x.via = "persists_to"}}
                        = {e.to : e \in {x \in graph.PERSISTS_TO :
                              \E j \in 1..k : due(j) /\ x.from \in at(j - 1)}}
                /\ \A f, g \in a.tail : f.to = g.to /\ (f.via = "persists_to" <=> g.via = "persists_to") => f = g
                /\ \A f \in a.tail : \E e \in rows(f.via) : /\ e.to = f.to /\ e.conf = f.conf
                                                            /\ e.from \in at(f.hop - 1)

\* Every call of a tool that walks returns, whatever cycles the graph has.
Returns == ask.tool \in Walkers => <>(pc \in Stops)
=============================================================================
