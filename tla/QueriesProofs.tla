---------------------------- MODULE QueriesProofs ----------------------------
(* What the tools that read the graph answer, whatever the graph, the question and *)
(* the caps: walks find what is reachable, views and diagrams say what they leave  *)
(* out, and names come before everything else.                                     *)
EXTENDS Queries, FiniteSetTheorems, SequenceTheorems, WellFoundedInduction, TLAPS

(* What is reached in k steps.                                                *)

LEMMA ReachedBase ==
  ASSUME NEW S \in SUBSET Symbols, NEW R
  PROVE  ReachedBy(S, R, 0) = S
<1>1. ASSUME NEW s \in S
      PROVE  s \in ReachedBy(S, R, 0)
  <2> DEFINE p == [i \in 1..1 |-> s]
  <2>1. p \in [1..0 + 1 -> Symbols] /\ p[1] = s /\ p[0 + 1] = s
    OBVIOUS
  <2>2. \A i \in 1..0 : <<p[i], p[i + 1]>> \in R
    OBVIOUS
  <2> QED
    BY <2>1, <2>2 DEF ReachedBy
<1>2. ASSUME NEW s \in ReachedBy(S, R, 0)
      PROVE  s \in S
  BY <1>2 DEF ReachedBy
<1> QED
  BY <1>1, <1>2

LEMMA ReachedSymbols ==
  ASSUME NEW S, NEW R, NEW k \in Nat
  PROVE  ReachedBy(S, R, k) \subseteq Symbols
BY DEF ReachedBy

\* What is reached in one step more is what is one step from what is reached.
LEMMA ReachedFurther ==
  ASSUME NEW S, NEW R, NEW k \in Nat, NEW s
  PROVE  s \in ReachedBy(S, R, k + 1)
           <=> s \in Symbols /\ \E u \in ReachedBy(S, R, k) : <<u, s>> \in R
<1>1. ASSUME s \in ReachedBy(S, R, k + 1)
      PROVE  s \in Symbols /\ \E u \in ReachedBy(S, R, k) : <<u, s>> \in R
  <2>1. PICK p \in [1..(k + 1) + 1 -> Symbols] :
           /\ s = p[(k + 1) + 1]
           /\ p[1] \in S
           /\ \A i \in 1..(k + 1) : <<p[i], p[i + 1]>> \in R
    BY <1>1 DEF ReachedBy
  <2> DEFINE q == [i \in 1..k + 1 |-> p[i]]
  <2>2. q \in [1..k + 1 -> Symbols] /\ q[1] \in S
    BY <2>1
  <2>3. \A i \in 1..k : <<q[i], q[i + 1]>> \in R
    BY <2>1
  <2>4. q[k + 1] \in ReachedBy(S, R, k)
    BY <2>2, <2>3 DEF ReachedBy
  <2>5. <<q[k + 1], s>> \in R /\ s \in Symbols
    BY <2>1
  <2> QED
    BY <2>4, <2>5
<1>2. ASSUME s \in Symbols, NEW u \in ReachedBy(S, R, k), <<u, s>> \in R
      PROVE  s \in ReachedBy(S, R, k + 1)
  <2>1. PICK p \in [1..k + 1 -> Symbols] :
           /\ u = p[k + 1]
           /\ p[1] \in S
           /\ \A i \in 1..k : <<p[i], p[i + 1]>> \in R
    BY <1>2 DEF ReachedBy
  <2> DEFINE q == [i \in 1..(k + 1) + 1 |-> IF i = (k + 1) + 1 THEN s ELSE p[i]]
  <2>2. q \in [1..(k + 1) + 1 -> Symbols] /\ q[1] \in S /\ q[(k + 1) + 1] = s
    BY <1>2, <2>1
  <2>3. \A i \in 1..(k + 1) : <<q[i], q[i + 1]>> \in R
    BY <1>2, <2>1
  <2> QED
    BY <2>2, <2>3 DEF ReachedBy
<1> QED
  BY <1>1, <1>2

SoFar(S, R, k) == UNION {ReachedBy(S, R, j) : j \in 0..k}

LEMMA FirstIsNew ==
  ASSUME NEW S, NEW R, NEW k \in Nat
  PROVE  FirstReached(S, R, k + 1) = ReachedBy(S, R, k + 1) \ SoFar(S, R, k)
<1>1. 0..(k + 1) - 1 = 0..k
  OBVIOUS
<1> QED
  BY <1>1, Zenon DEF FirstReached, SoFar

LEMMA SoFarGrows ==
  ASSUME NEW S, NEW R, NEW k \in Nat
  PROVE  SoFar(S, R, k + 1) = SoFar(S, R, k) \union FirstReached(S, R, k + 1)
<1>1. SoFar(S, R, k + 1) = SoFar(S, R, k) \union ReachedBy(S, R, k + 1)
  <2>1. 0..k + 1 = (0..k) \union {k + 1}
    OBVIOUS
  <2> QED
    BY <2>1, Zenon DEF SoFar
<1> QED
  BY <1>1, FirstIsNew

\* What is first reached at the next step is one step from what was first reached
\* at this one, and new.
LEMMA FirstFurther ==
  ASSUME NEW S, NEW R, NEW k \in Nat, NEW s
  PROVE  s \in FirstReached(S, R, k + 1)
           <=> /\ s \in Symbols /\ s \notin SoFar(S, R, k)
               /\ \E u \in FirstReached(S, R, k) : <<u, s>> \in R
<1>1. ASSUME NEW u \in FirstReached(S, R, k)
      PROVE  u \in ReachedBy(S, R, k)
  BY DEF FirstReached
<1>2. ASSUME NEW u \in ReachedBy(S, R, k), <<u, s>> \in R, s \in Symbols, s \notin SoFar(S, R, k)
      PROVE  u \in FirstReached(S, R, k)
  <2>1. ASSUME NEW j \in 0..k - 1, u \in ReachedBy(S, R, j)
        PROVE  FALSE
    <3>1. s \in ReachedBy(S, R, j + 1)
      BY <1>2, <2>1, ReachedFurther
    <3>2. j + 1 \in 0..k
      OBVIOUS
    <3> QED
      BY <3>1, <3>2, <1>2 DEF SoFar
  <2> QED
    BY <2>1 DEF FirstReached
<1>3. s \in ReachedBy(S, R, k + 1)
        <=> s \in Symbols /\ \E u \in ReachedBy(S, R, k) : <<u, s>> \in R
  BY ReachedFurther
<1>4. s \in FirstReached(S, R, k + 1) <=> s \in ReachedBy(S, R, k + 1) /\ s \notin SoFar(S, R, k)
  BY FirstIsNew
<1> QED
  BY <1>1, <1>2, <1>3, <1>4, Zenon

LEMMA Least ==
  ASSUME NEW T \in SUBSET Nat, T # {}
  PROVE  \E n \in T : \A m \in T : n <= m
<1>1. PICK n \in T : \A m \in T : ~(<<m, n>> \in OpToRel(<, Nat))
  BY NatLessThanWellFounded, WFMin, Zenon
<1>2. \A m \in T : ~(m < n)
  BY <1>1 DEF OpToRel
<1> QED
  BY <1>2

\* A walk that finds nothing new never will.
LEMMA NoneFurther ==
  ASSUME NEW S, NEW R, NEW k \in Nat, FirstReached(S, R, k) = {},
         NEW j \in Nat, k <= j
  PROVE  FirstReached(S, R, j) = {}
<1> DEFINE Later == {i \in Nat : k <= i /\ FirstReached(S, R, i) # {}}
<1>1. ASSUME Later # {}
      PROVE  FALSE
  <2>1. PICK n \in Later : \A m \in Later : n <= m
    BY <1>1, Least
  <2>2. n # k /\ n - 1 \in Nat /\ k <= n - 1 /\ n = (n - 1) + 1
    OBVIOUS
  <2>3. PICK s : s \in FirstReached(S, R, (n - 1) + 1)
    BY <2>2
  <2>4. \E u \in FirstReached(S, R, n - 1) : TRUE
    BY <2>2, <2>3, FirstFurther
  <2>5. n - 1 \in Later
    BY <2>2, <2>4
  <2> QED
    BY <2>1, <2>5
<1> QED
  BY <1>1
-----------------------------------------------------------------------------
(* impact. *)

\* What every state keeps of the question, and where a tool can be.
Asked ==
  /\ \E c \in Cases : graph = c.graph /\ ask = c.ask
  /\ pc \in Stops \union {"called", "impact", "context", "flow", "flowing", "trace", "tail"}
  /\ pc \in {"impact", "context", "flow", "trace"} => ask.tool = pc
  /\ pc = "flowing" => ask.tool = "flow"
  /\ pc = "tail" => ask.tool = "trace"
  /\ roots \subseteq Symbols
  /\ walk = [of |-> walk.of, seen |-> walk.seen, frontier |-> walk.frontier,
             hop |-> walk.hop, found |-> walk.found]

Passing(g, q) == {e \in g.CALLS : Passes(e.conf, q.min)}
NearEnd(q, e) == IF q.direction = "downstream" THEN e.from ELSE e.to
FarEnd(q, e)  == IF q.direction = "downstream" THEN e.to ELSE e.from
Pairs(g, q)   == {<<NearEnd(q, e), FarEnd(q, e)>> : e \in Passing(g, q)}

\* The symbols at distance k of the question, and how impact lists them.
AtDistance(g, q, S, k) == FirstReached(S, Pairs(g, q), k)
Surely(g, q, S, s, k) ==
  Surest({e.conf : e \in {x \in Passing(g, q) : FarEnd(q, x) = s /\ NearEnd(q, x) \in AtDistance(g, q, S, k - 1)}})
Listed(g, q, S, k) ==
  {[symbol |-> s, hop |-> k, conf |-> Surely(g, q, S, s, k)] : s \in AtDistance(g, q, S, k)}
ListedTo(g, q, S, k) == UNION {Listed(g, q, S, j) : j \in 1..k}

ImpactWalk ==
  pc = "impact" =>
    /\ walk.hop \in Nat
    /\ walk.hop = 0 \/ walk.hop <= ask.depth
    /\ walk.seen = SoFar(roots, Pairs(graph, ask), walk.hop)
    /\ walk.frontier = AtDistance(graph, ask, roots, walk.hop)
    /\ walk.found = ListedTo(graph, ask, roots, walk.hop)

LEMMA ResolutionsAreSymbols ==
  ASSUME NEW text \in Texts, NEW S \in Resolutions(text)
  PROVE  S \subseteq Symbols
<1>1. Matched(text) \subseteq Symbols
  BY DEF Matched, Texts
<1> QED
  BY <1>1 DEF Resolutions

LEMMA AskedAlways == SpecQuery => []Asked
<1>1. Init => Asked
  BY DEF Init, Asked, NoWalk, Stops
<1>2. ASSUME Asked, NextQuery PROVE Asked'
  <2> USE DEF Asked
  <2>1. CASE Refuse
    BY <1>2, <2>1, Zenon DEF Refuse, Stops
  <2>2. CASE Resolve
    <3>1. PICK S \in Resolutions(ask.text) :
            /\ roots' = S
            /\ pc' = IF S = {} THEN "unresolved" ELSE ask.tool
            /\ walk' = IF ask.tool = "impact" THEN [NoWalk EXCEPT !.seen = S, !.frontier = S] ELSE NoWalk
      BY <2>2 DEF Resolve
    <3>2. ask.tool \in Walkers /\ graph' = graph /\ ask' = ask
      BY <2>2 DEF Resolve
    <3>3. ask.text \in Texts
      BY <1>2, <3>2, CasesAssumption, Zenon
    <3>4. S \subseteq Symbols
      BY <3>3, ResolutionsAreSymbols
    <3> QED
      BY <1>2, <3>1, <3>2, <3>4 DEF NoWalk, Stops, Walkers
  <2>3. CASE ImpactHop
    BY <1>2, <2>3 DEF ImpactHop, Stops
  <2>4. CASE ImpactDone
    BY <1>2, <2>4, Zenon DEF ImpactDone, Stops
  <2>5. CASE Context
    BY <1>2, <2>5, Zenon DEF Context, Stops
  <2>6. CASE FlowEnter
    BY <1>2, <2>6, Zenon DEF FlowEnter, Stops
  <2>7. CASE FlowPop
    BY <1>2, <2>7, Zenon DEF FlowPop, Stops
  <2>8. CASE FlowLeave
    BY <1>2, <2>8, Zenon DEF FlowLeave, Stops
  <2>9. CASE FlowDone
    BY <1>2, <2>9, Zenon DEF FlowDone, Stops
  <2>10. CASE TraceChain
    BY <1>2, <2>10 DEF TraceChain, Stops, NoWalk
  <2>11. CASE TailHop
    BY <1>2, <2>11 DEF TailHop, Stops
  <2>12. CASE TailDone
    BY <1>2, <2>12 DEF TailDone, Stops, NoWalk
  <2>13. CASE TraceUpstream
    BY <1>2, <2>13, Zenon DEF TraceUpstream, Stops
  <2>14. CASE TraceDone
    BY <1>2, <2>14, Zenon DEF TraceDone, Stops
  <2>15. CASE View \/ Find \/ Draw
    BY <1>2, <2>15, Zenon DEF View, Find, Draw, Answer, Stops
  <2> QED
    BY <1>2, <2>1, <2>2, <2>3, <2>4, <2>5, <2>6, <2>7, <2>8, <2>9, <2>10, <2>11, <2>12, <2>13, <2>14,
       <2>15 DEF NextQuery, Next
<1>3. Asked /\ UNCHANGED vars => Asked'
  BY DEF Asked, vars
<1> QED
  BY <1>1, <1>2, <1>3, PTL DEF SpecQuery

\* The steps that are not of impact's loop keep its invariant: they do not lead into it.
LEMMA ImpactStays ==
  ASSUME Asked, ImpactWalk, NextQuery \/ UNCHANGED vars, ~Resolve, ~ImpactHop
  PROVE  ImpactWalk'
<1>1. CASE UNCHANGED vars
  BY <1>1, Zenon DEF vars, ImpactWalk
<1>2. CASE NextQuery
  <2>1. CASE pc = "impact"
    <3>1. pc' # "impact"
      BY <1>2, <2>1, Zenon DEF NextQuery, Next, Refuse, ImpactDone, Context, FlowEnter, FlowPop, FlowLeave,
         FlowDone, TraceChain, TailHop, TailDone, TraceUpstream, TraceDone, View, Find, Draw, Answer
    <3> QED
      BY <3>1 DEF ImpactWalk
  <2>2. CASE pc # "impact"
    <3>1. pc' # "impact"
      BY <1>2, <2>2, Zenon DEF NextQuery, Next, Refuse, ImpactDone, Context, FlowEnter, FlowPop, FlowLeave,
         FlowDone, TraceChain, TailHop, TailDone, TraceUpstream, TraceDone, View, Find, Draw, Answer
    <3> QED
      BY <3>1 DEF ImpactWalk
  <2> QED
    BY <2>1, <2>2
<1> QED
  BY <1>1, <1>2

\* The far ends of the rows of a hop are the symbols first reached by it.
LEMMA HopFinds ==
  ASSUME Asked, ImpactWalk, pc = "impact"
  PROVE  {Far(e) : e \in ImpactRows} = AtDistance(graph, ask, roots, walk.hop + 1)
<1> DEFINE R == Pairs(graph, ask)
<1>1. \A e \in graph.CALLS : Far(e) \in Symbols
  <2>1. graph.CALLS \subseteq Edges(Symbols, Symbols)
    BY CasesAssumption, Zenon DEF Asked
  <2> QED
    BY <2>1 DEF Edges, Far
<1>2. /\ walk.hop \in Nat
      /\ walk.seen = SoFar(roots, R, walk.hop)
      /\ walk.frontier = FirstReached(roots, R, walk.hop)
  BY DEF ImpactWalk, AtDistance
<1>3. \A s : s \in FirstReached(roots, R, walk.hop + 1)
               <=> /\ s \in Symbols /\ s \notin walk.seen
                   /\ \E u \in walk.frontier : <<u, s>> \in R
  <2> HIDE DEF R
  <2>1. \A s : s \in FirstReached(roots, R, walk.hop + 1)
                 <=> /\ s \in Symbols /\ s \notin SoFar(roots, R, walk.hop)
                     /\ \E u \in FirstReached(roots, R, walk.hop) : <<u, s>> \in R
    BY <1>2, FirstFurther
  <2> QED
    BY <1>2, <2>1, Zenon
<1> HIDE DEF R
<1>4. ASSUME NEW e \in ImpactRows
      PROVE  Far(e) \in FirstReached(roots, R, walk.hop + 1)
  <2>1. e \in Passing(graph, ask) /\ Near(e) \in walk.frontier /\ Far(e) \notin walk.seen
        /\ Far(e) \in Symbols
    BY <1>1 DEF ImpactRows, Passing
  <2>2. <<Near(e), Far(e)>> \in R
    BY <2>1, Zenon DEF R, Pairs, Near, Far, NearEnd, FarEnd
  <2> QED
    BY <1>3, <2>1, <2>2, Zenon
<1>5. ASSUME NEW s \in FirstReached(roots, R, walk.hop + 1)
      PROVE  \E e \in ImpactRows : Far(e) = s
  <2>1. s \notin walk.seen
    BY <1>3
  <2>2. PICK u \in walk.frontier : <<u, s>> \in R
    BY <1>3
  <2>3. PICK e \in Passing(graph, ask) : <<u, s>> = <<Near(e), Far(e)>>
    BY <2>2, Zenon DEF R, Pairs, Near, Far, NearEnd, FarEnd
  <2>4. u = Near(e) /\ s = Far(e)
    BY <2>3
  <2>5. e \in ImpactRows
    BY <2>1, <2>2, <2>4 DEF ImpactRows, Passing
  <2> QED
    BY <2>4, <2>5
<1> QED
  BY <1>4, <1>5, Zenon DEF AtDistance, R

\* A hop lists each of them with the surest edge from one step nearer.
LEMMA HopLists ==
  ASSUME Asked, ImpactWalk, pc = "impact"
  PROVE  {[symbol |-> r.symbol, hop |-> walk.hop + 1, conf |-> r.conf] : r \in DedupeBy(ImpactRows, Far)}
           = Listed(graph, ask, roots, walk.hop + 1)
<1> DEFINE C(s) == {r.conf : r \in {q \in ImpactRows : Far(q) = s}}
           New == AtDistance(graph, ask, roots, walk.hop + 1)
           In(s) == [symbol |-> s, conf |-> Surest(C(s))]
           Out(r) == [symbol |-> r.symbol, hop |-> walk.hop + 1, conf |-> r.conf]
           Row(s) == [symbol |-> s, hop |-> walk.hop + 1, conf |-> Surely(graph, ask, roots, s, walk.hop + 1)]
<1>1. {Far(e) : e \in ImpactRows} = New
  BY HopFinds
<1>2. /\ (walk.hop + 1) - 1 = walk.hop /\ walk.hop \in Nat
      /\ walk.frontier = AtDistance(graph, ask, roots, walk.hop)
      /\ walk.seen = SoFar(roots, Pairs(graph, ask), walk.hop)
  BY DEF ImpactWalk
<1>3. ASSUME NEW s \in New
      PROVE  Surest(C(s)) = Surely(graph, ask, roots, s, walk.hop + 1)
  <2>1. s \notin walk.seen
    BY <1>2, FirstFurther DEF AtDistance
  <2>2. {q \in ImpactRows : Far(q) = s}
          = {x \in Passing(graph, ask) :
               FarEnd(ask, x) = s /\ NearEnd(ask, x) \in AtDistance(graph, ask, roots, (walk.hop + 1) - 1)}
    BY <1>2, <2>1 DEF ImpactRows, Passing, Near, Far, NearEnd, FarEnd
  <2> QED
    BY <2>2, Zenon DEF Surely
<1>4. DedupeBy(ImpactRows, Far) = {In(s) : s \in New}
  BY <1>1, Zenon DEF DedupeBy
<1>5. \A s \in New : Out(In(s)) = Row(s)
  BY <1>3
<1>6. Listed(graph, ask, roots, walk.hop + 1) = {Row(s) : s \in New}
  BY Zenon DEF Listed
<1> HIDE DEF New, In, Row
<1>7. {Out(r) : r \in {In(s) : s \in New}} = {Row(s) : s \in New}
  BY <1>5, Zenon DEF Out
<1> QED
  BY <1>4, <1>6, <1>7, Zenon

LEMMA ListedMore ==
  ASSUME NEW g, NEW q, NEW S, NEW k \in Nat
  PROVE  ListedTo(g, q, S, k + 1) = ListedTo(g, q, S, k) \union Listed(g, q, S, k + 1)
<1>1. 1..k + 1 = (1..k) \union {k + 1}
  OBVIOUS
<1> QED
  BY <1>1, Zenon DEF ListedTo

LEMMA ImpactHops ==
  ASSUME Asked, ImpactWalk, ImpactHop
  PROVE  ImpactWalk'
<1> DEFINE R == Pairs(graph, ask)
           k == walk.hop
<1>1. /\ pc = "impact" /\ pc' = pc /\ graph' = graph /\ ask' = ask /\ roots' = roots
      /\ walk.hop < ask.depth
  BY DEF ImpactHop
<1>2. ask.depth \in Int
  <2>1. ask.tool = "impact"
    BY <1>1 DEF Asked
  <2> QED
    BY <2>1, CasesAssumption DEF Asked, Walkers
<1>3. /\ k \in Nat
      /\ walk.seen = SoFar(roots, R, k)
      /\ walk.frontier = AtDistance(graph, ask, roots, k)
      /\ walk.found = ListedTo(graph, ask, roots, k)
  BY <1>1 DEF ImpactWalk
<1>4. /\ walk'.hop = k + 1
      /\ walk'.seen = walk.seen \union AtDistance(graph, ask, roots, k + 1)
      /\ walk'.frontier = AtDistance(graph, ask, roots, k + 1)
      /\ walk'.found = walk.found \union Listed(graph, ask, roots, k + 1)
  <2> DEFINE rows == ImpactRows
             bucket == {[symbol |-> r.symbol, hop |-> walk.hop + 1, conf |-> r.conf]
                          : r \in DedupeBy(rows, Far)}
             next == {Far(e) : e \in rows}
  <2>1. walk' = [walk EXCEPT !.seen = @ \union next, !.frontier = next, !.hop = @ + 1,
                             !.found = @ \union bucket]
    BY Zenon DEF ImpactHop
  <2>2. next = AtDistance(graph, ask, roots, k + 1) /\ bucket = Listed(graph, ask, roots, k + 1)
    BY <1>1, HopFinds, HopLists, Zenon
  <2> HIDE DEF bucket, next
  <2>3. walk' = [of |-> walk.of, seen |-> walk.seen \union next, frontier |-> next,
                 hop |-> walk.hop + 1, found |-> walk.found \union bucket]
    BY <2>1 DEF Asked
  <2>4. /\ walk'.hop = walk.hop + 1 /\ walk'.seen = walk.seen \union next
        /\ walk'.frontier = next /\ walk'.found = walk.found \union bucket
    BY <2>3
  <2> QED
    BY <2>2, <2>4, Zenon
<1> HIDE DEF R, k
<1>5. walk'.seen = SoFar(roots, R, k + 1)
  <2>1. SoFar(roots, R, k + 1) = SoFar(roots, R, k) \union AtDistance(graph, ask, roots, k + 1)
    BY <1>3, SoFarGrows, Zenon DEF AtDistance, R
  <2> QED
    BY <1>3, <1>4, <2>1, Zenon
<1>6. walk'.found = ListedTo(graph, ask, roots, k + 1)
  <2>1. ListedTo(graph, ask, roots, k + 1)
          = ListedTo(graph, ask, roots, k) \union Listed(graph, ask, roots, k + 1)
    BY <1>3, ListedMore
  <2> QED
    BY <1>3, <1>4, <2>1, Zenon
<1>7. walk'.hop \in Nat /\ (walk'.hop = 0 \/ walk'.hop <= ask.depth)
  BY <1>1, <1>2, <1>3, <1>4 DEF k
<1> QED
  BY <1>1, <1>4, <1>5, <1>6, <1>7, Zenon DEF ImpactWalk, R

LEMMA ImpactStarts ==
  ASSUME Asked, Asked', Resolve
  PROVE  ImpactWalk'
<1> SUFFICES ASSUME pc' = "impact" PROVE ImpactWalk'
  BY DEF ImpactWalk
<1>1. ask.tool = "impact" /\ graph' = graph /\ ask' = ask
  BY DEF Resolve, Asked
<1>2. walk' = [NoWalk EXCEPT !.seen = roots', !.frontier = roots']
  BY <1>1 DEF Resolve
<1>3. walk'.hop = 0 /\ walk'.seen = roots' /\ walk'.frontier = roots' /\ walk'.found = {}
  BY <1>2 DEF NoWalk
<1>4. ReachedBy(roots', Pairs(graph, ask), 0) = roots'
  BY ReachedBase DEF Asked
<1>5. SoFar(roots', Pairs(graph, ask), 0) = roots' /\ AtDistance(graph, ask, roots', 0) = roots'
  BY <1>4 DEF SoFar, AtDistance, FirstReached
<1>6. ListedTo(graph, ask, roots', 0) = {}
  BY DEF ListedTo
<1> QED
  BY <1>1, <1>3, <1>5, <1>6 DEF ImpactWalk

LEMMA ImpactWalkAlways == SpecQuery => []ImpactWalk
<1>1. Init => ImpactWalk
  BY DEF Init, ImpactWalk
<1>2. Asked /\ Asked' /\ ImpactWalk /\ [NextQuery]_vars => ImpactWalk'
  BY ImpactStays, ImpactHops, ImpactStarts
<1> QED
  BY <1>1, <1>2, AskedAlways, PTL DEF SpecQuery

\* impact lists each symbol within the depth once, at its distance over the edges
\* that are sure enough, with the surest edge that reaches it from one step nearer.
THEOREM ImpactIsExact == SpecQuery => []ImpactIsReach
<1> DEFINE Kept == Answered("impact") => answer = ListedTo(graph, ask, roots, ask.depth)
<1>1. Init => Kept
  BY DEF Init, Answered
<1>2. ASSUME Asked, ImpactWalk, Kept, [NextQuery]_vars
      PROVE  Kept'
  <2>1. CASE ImpactDone
    <3>1. /\ pc = "impact" /\ graph' = graph /\ ask' = ask /\ roots' = roots /\ answer' = walk.found
          /\ walk.hop >= ask.depth \/ walk.frontier = {}
      BY <2>1, Zenon DEF ImpactDone
    <3>2. ask.depth \in Int
      <4>1. ask.tool = "impact"
        BY <1>2, <3>1 DEF Asked
      <4> QED
        BY <1>2, <4>1, CasesAssumption DEF Asked, Walkers
    <3>3. /\ walk.hop \in Nat
          /\ walk.hop = 0 \/ walk.hop <= ask.depth
          /\ walk.frontier = AtDistance(graph, ask, roots, walk.hop)
          /\ walk.found = ListedTo(graph, ask, roots, walk.hop)
      BY <1>2, <3>1 DEF ImpactWalk
    <3>4. CASE walk.hop >= ask.depth
      <4>1. 1..walk.hop = 1..ask.depth
        BY <3>2, <3>3, <3>4
      <4> QED
        BY <3>1, <3>3, <4>1, Zenon DEF ListedTo
    <3>5. CASE walk.frontier = {} /\ ~(walk.hop >= ask.depth)
      <4>1. ASSUME NEW j \in 1..ask.depth, j \notin 1..walk.hop
            PROVE  Listed(graph, ask, roots, j) = {}
        <5>1. FirstReached(roots, Pairs(graph, ask), walk.hop) = {}
          BY <3>3, <3>5 DEF AtDistance
        <5>2. j \in Nat /\ walk.hop <= j
          BY <3>2, <3>3, <4>1
        <5>3. AtDistance(graph, ask, roots, j) = {}
          BY <3>3, <5>1, <5>2, NoneFurther, Zenon DEF AtDistance
        <5> QED
          BY <5>3 DEF Listed
      <4>2. 1..walk.hop \subseteq 1..ask.depth
        BY <3>2, <3>3, <3>5
      <4> HIDE DEF Kept
      <4>3. ListedTo(graph, ask, roots, walk.hop) = ListedTo(graph, ask, roots, ask.depth)
        BY <4>1, <4>2, Zenon DEF ListedTo
      <4> QED
        BY <3>1, <3>3, <4>3, Zenon DEF Kept
    <3> QED
      BY <3>1, <3>4, <3>5
  <2>2. CASE UNCHANGED vars
    BY <1>2, <2>2, Zenon DEF vars, Answered
  <2>3. CASE NextQuery /\ ~ImpactDone
    <3>1. ~Answered("impact")'
      BY <1>2, <2>3, Zenon DEF NextQuery, Next, Refuse, Resolve, ImpactHop, Context, FlowEnter, FlowPop, FlowLeave,
         FlowDone, TraceChain, TailHop, TailDone, TraceUpstream, TraceDone, View, Find, Draw, Answer,
         Answered, Asked
    <3> QED
      BY <3>1
  <2> QED
    BY <1>2, <2>1, <2>2, <2>3
<1>3. Kept => ImpactIsReach
  BY Zenon DEF ImpactIsReach, ListedTo, Listed, Surely, AtDistance, Pairs, Passing, NearEnd, FarEnd, Near, Far
<1> QED
  BY <1>1, <1>2, <1>3, AskedAlways, ImpactWalkAlways, PTL DEF SpecQuery
-----------------------------------------------------------------------------
(* trace. *)

Steps(g) == {<<e.from, e.to>> : e \in g.CALLS \union g.INJECTS}
TailAt(g, h, k) == FirstReached({h}, Steps(g), k)
RowsOf(g, v) == CASE v = "calls" -> g.CALLS [] v = "injects" -> g.INJECTS
                  [] v = "persists_to" -> g.PERSISTS_TO

\* Of what a tail lists: whether it was full before hop k, the symbols of hop k, the
\* tables up to it; and the tables one step from what is reached before the hops J.
Full(T, k)   == Cardinality({f \in T : f.hop < k}) >= TailBound
SymbolsAt(T, k) == {f.to : f \in {x \in T : x.hop = k /\ x.via # "persists_to"}}
TablesTo(T, k)  == {f.to : f \in {x \in T : x.hop <= k /\ x.via = "persists_to"}}
TablesOf(g, h, J) ==
  {e.to : e \in {x \in g.PERSISTS_TO : \E j \in J : x.from \in TailAt(g, h, j - 1)}}

Once(T) == \A f, i \in T : f.to = i.to /\ (f.via = "persists_to" <=> i.via = "persists_to") => f = i
Backed(g, h, T) ==
  \A f \in T : \E e \in RowsOf(g, f.via) : /\ e.to = f.to /\ e.conf = f.conf
                                           /\ e.from \in TailAt(g, h, f.hop - 1)

\* A walk from a handler h after some of its hops.
Walked(g, q, h, w) ==
  /\ w.hop \in Nat /\ (w.hop = 0 \/ w.hop <= q.depth)
  /\ w.seen = SoFar({h}, Steps(g), w.hop)
  /\ w.frontier = TailAt(g, h, w.hop)
  /\ \A f \in w.found : f.hop \in 1..w.hop
  /\ \A k \in 1..w.hop : /\ ~Full(w.found, k)
                         /\ SymbolsAt(w.found, k) = TailAt(g, h, k)
                         /\ TablesTo(w.found, k) = TablesOf(g, h, 1..k)
  /\ Once(w.found)
  /\ Backed(g, h, w.found)

\* What the property says of a tail that was told.
DueOf(q, T, k) == k \in 1..q.depth /\ ~Full(T, k)
Told(g, q, h, T) ==
  /\ \A k \in 1..q.depth :
       /\ SymbolsAt(T, k) = IF DueOf(q, T, k) THEN TailAt(g, h, k) ELSE {}
       /\ TablesTo(T, k) = TablesOf(g, h, {j \in 1..k : DueOf(q, T, j)})
  /\ Once(T)
  /\ Backed(g, h, T)

\* The rows of one hop and one kind, as trace lists them.
TailRows(rows, via, hop) ==
  {[to |-> n, hop |-> hop, via |-> via, conf |-> First({e \in rows : e.to = n}).conf]
     : n \in {e.to : e \in rows}}

\* The first row stored is a row.
LEMMA FirstIsOne ==
  ASSUME NEW rows, rows # {}, \A r \in rows : r.row \in Nat
  PROVE  First(rows) \in rows
<1> DEFINE places == {r.row : r \in rows}
<1>2. places \in SUBSET Nat /\ places # {}
  OBVIOUS
<1>3. PICK n \in places : \A m \in places : n <= m
  BY <1>2, Least
<1>4. PICK r \in rows : n = r.row
  BY <1>3
<1>5. \A q \in rows : r.row <= q.row
  BY <1>3, <1>4
<1> QED
  BY <1>4, <1>5, Zenon DEF First

LEMMA TailRowsFacts ==
  ASSUME NEW rows, NEW via, NEW hop, \A e \in rows : e.row \in Nat
  PROVE  /\ \A f \in TailRows(rows, via, hop) :
              /\ f.hop = hop /\ f.via = via
              /\ \E e \in rows : e.to = f.to /\ e.conf = f.conf
              /\ \A i \in TailRows(rows, via, hop) : f.to = i.to => f = i
         /\ {f.to : f \in TailRows(rows, via, hop)} = {e.to : e \in rows}
<1> DEFINE conf(n) == First({e \in rows : e.to = n}).conf
           Row(n) == [to |-> n, hop |-> hop, via |-> via, conf |-> conf(n)]
           D == {e.to : e \in rows}
<1>1. ASSUME NEW n \in D
      PROVE  \E e \in rows : e.to = n /\ e.conf = conf(n)
  <2>1. {e \in rows : e.to = n} # {}
    OBVIOUS
  <2>2. First({e \in rows : e.to = n}) \in {e \in rows : e.to = n}
    BY <2>1, FirstIsOne
  <2> QED
    BY <2>2
<1>2. TailRows(rows, via, hop) = {Row(n) : n \in D}
  BY Zenon DEF TailRows
<1> HIDE DEF conf, D
<1>3. \A n \in D : Row(n).to = n /\ Row(n).hop = hop /\ Row(n).via = via /\ Row(n).conf = conf(n)
  OBVIOUS
<1> HIDE DEF Row
<1>4. ASSUME NEW f \in TailRows(rows, via, hop)
      PROVE  \E n \in D : f = Row(n) /\ f.to = n
  BY <1>2, <1>3, <1>4
<1>5. ASSUME NEW f \in TailRows(rows, via, hop)
      PROVE  /\ f.hop = hop /\ f.via = via
             /\ \E e \in rows : e.to = f.to /\ e.conf = f.conf
             /\ \A i \in TailRows(rows, via, hop) : f.to = i.to => f = i
  BY <1>1, <1>3, <1>4
<1>6. {f.to : f \in TailRows(rows, via, hop)} = D
  <2>1. \A n \in D : Row(n) \in TailRows(rows, via, hop)
    BY <1>2, Zenon
  <2>2. \A n \in D : \E f \in TailRows(rows, via, hop) : n = f.to
    BY <1>3, <2>1
  <2>3. \A f \in TailRows(rows, via, hop) : f.to \in D
    BY <1>4
  <2> QED
    BY <2>2, <2>3, Zenon
<1> QED
  BY <1>5, <1>6 DEF D

\* A hop: the tables of the frontier not listed yet, and the symbols first reached.
LEMMA TailHopFacts ==
  ASSUME Asked, TailHop, NEW h,
         walk.hop \in Nat,
         walk.seen = SoFar({h}, Steps(graph), walk.hop),
         walk.frontier = TailAt(graph, h, walk.hop)
  PROVE  \E N :
    LET k == walk.hop + 1
        listed == {f.to : f \in {x \in walk.found : x.via = "persists_to"}}
    IN /\ walk' = [walk EXCEPT !.seen = @ \union TailAt(graph, h, k), !.frontier = TailAt(graph, h, k),
                               !.hop = k, !.found = walk.found \union N]
       /\ \A f \in N : f.hop = k
       /\ {f.to : f \in {x \in N : x.via # "persists_to"}} = TailAt(graph, h, k)
       /\ {f.to : f \in {x \in N : x.via = "persists_to"}}
            = {e.to : e \in {x \in graph.PERSISTS_TO : x.from \in TailAt(graph, h, walk.hop)}} \ listed
       /\ Once(N)
       /\ Backed(graph, h, N)
<1> DEFINE k == walk.hop + 1
           listed == {f.to : f \in {x \in walk.found : x.via = "persists_to"}}
           tables == {e \in graph.PERSISTS_TO : e.from \in walk.frontier /\ e.to \notin listed}
           calls  == {e \in graph.CALLS : e.from \in walk.frontier /\ e.to \notin walk.seen}
           called == {e.to : e \in calls}
           injects == {e \in graph.INJECTS : e.from \in walk.frontier /\ e.to \notin walk.seen \union called}
           next == called \union {e.to : e \in injects}
           A == TailRows(tables, "persists_to", k)
           B == TailRows(calls, "calls", k)
           C == TailRows(injects, "injects", k)
<1>1. /\ graph.CALLS \subseteq Edges(Symbols, Symbols) /\ graph.INJECTS \subseteq Edges(Symbols, Symbols)
      /\ graph.PERSISTS_TO \subseteq Edges(Symbols, Nat)
  BY CasesAssumption, Zenon DEF Asked
<1>2. walk' = [walk EXCEPT !.seen = @ \union next, !.frontier = next, !.hop = @ + 1,
                           !.found = @ \union A \union B \union C]
  BY Zenon DEF TailHop, TailRows
<1>3. next = TailAt(graph, h, k)
  <2>1. \A s : s \in TailAt(graph, h, k)
                 <=> /\ s \in Symbols /\ s \notin walk.seen
                     /\ \E u \in walk.frontier : <<u, s>> \in Steps(graph)
    <3>1. \A s : s \in FirstReached({h}, Steps(graph), walk.hop + 1)
                   <=> /\ s \in Symbols /\ s \notin SoFar({h}, Steps(graph), walk.hop)
                       /\ \E u \in FirstReached({h}, Steps(graph), walk.hop) : <<u, s>> \in Steps(graph)
      BY FirstFurther
    <3> QED
      BY <3>1, Zenon DEF TailAt
  <2>2. \A u, s : <<u, s>> \in Steps(graph)
                    <=> \E e \in graph.CALLS \union graph.INJECTS : e.from = u /\ e.to = s
    BY DEF Steps
  <2>3. \A e \in graph.CALLS \union graph.INJECTS : e.to \in Symbols
    BY <1>1 DEF Edges
  <2>4. \A s : s \in next <=> /\ s \notin walk.seen
                              /\ \E e \in graph.CALLS \union graph.INJECTS : e.from \in walk.frontier /\ e.to = s
    OBVIOUS
  <2> HIDE DEF next
  <2>5. ASSUME NEW s \in next PROVE s \in TailAt(graph, h, k)
    <3>1. s \notin walk.seen
      BY <2>4
    <3>2. PICK e \in graph.CALLS \union graph.INJECTS : e.from \in walk.frontier /\ e.to = s
      BY <2>4
    <3>3. <<e.from, s>> \in Steps(graph) /\ s \in Symbols
      BY <2>2, <2>3, <3>2
    <3> QED
      BY <2>1, <3>1, <3>2, <3>3
  <2>6. ASSUME NEW s \in TailAt(graph, h, k) PROVE s \in next
    <3>1. PICK u \in walk.frontier : <<u, s>> \in Steps(graph)
      BY <2>1
    <3>2. PICK e \in graph.CALLS \union graph.INJECTS : e.from = u /\ e.to = s
      BY <2>2, <3>1
    <3> QED
      BY <2>1, <2>4, <3>1, <3>2
  <2> QED
    BY <2>5, <2>6, Zenon
<1>4. /\ \A e \in tables : e.row \in Nat
      /\ \A e \in calls : e.row \in Nat
      /\ \A e \in injects : e.row \in Nat
  BY <1>1 DEF Edges
<1>5. /\ \A e \in tables : e \in graph.PERSISTS_TO /\ e.from \in walk.frontier
      /\ \A e \in calls : e \in graph.CALLS /\ e.from \in walk.frontier
      /\ \A e \in injects : e \in graph.INJECTS /\ e.from \in walk.frontier /\ e.to \notin called
  OBVIOUS
<1>6. {e.to : e \in tables}
        = {e.to : e \in {x \in graph.PERSISTS_TO : x.from \in TailAt(graph, h, walk.hop)}} \ listed
  OBVIOUS
<1>7. called = {e.to : e \in calls} /\ next = called \union {e.to : e \in injects}
  OBVIOUS
<1> HIDE DEF tables, calls, called, injects, next, listed
<1>8. /\ \A f \in A : /\ f.hop = k /\ f.via = "persists_to"
                      /\ \E e \in tables : e.to = f.to /\ e.conf = f.conf
                      /\ \A i \in A : f.to = i.to => f = i
      /\ {f.to : f \in A} = {e.to : e \in tables}
  BY <1>1, <1>4, TailRowsFacts
<1>9. /\ \A f \in B : /\ f.hop = k /\ f.via = "calls"
                      /\ \E e \in calls : e.to = f.to /\ e.conf = f.conf
                      /\ \A i \in B : f.to = i.to => f = i
      /\ {f.to : f \in B} = {e.to : e \in calls}
  BY <1>1, <1>4, TailRowsFacts
<1>10. /\ \A f \in C : /\ f.hop = k /\ f.via = "injects"
                       /\ \E e \in injects : e.to = f.to /\ e.conf = f.conf
                       /\ \A i \in C : f.to = i.to => f = i
       /\ {f.to : f \in C} = {e.to : e \in injects}
  BY <1>1, <1>4, TailRowsFacts
<1> HIDE DEF A, B, C
<1> DEFINE N == A \union B \union C
<1>11. walk' = [walk EXCEPT !.seen = @ \union TailAt(graph, h, k), !.frontier = TailAt(graph, h, k),
                            !.hop = k, !.found = walk.found \union N]
  <2>1. walk.found \union A \union B \union C = walk.found \union N
    OBVIOUS
  <2> QED
    BY <1>2, <1>3, <2>1, Zenon
<1>12. \A f \in N : f.hop = k
  BY <1>8, <1>9, <1>10
<1>13. {f.to : f \in {x \in N : x.via # "persists_to"}} = TailAt(graph, h, k)
  <2>1. {x \in N : x.via # "persists_to"} = B \union C
    BY <1>8, <1>9, <1>10
  <2>2. {f.to : f \in B \union C} = {f.to : f \in B} \union {f.to : f \in C}
    OBVIOUS
  <2> QED
    BY <1>3, <1>7, <1>9, <1>10, <2>1, <2>2, Zenon
<1>14. {f.to : f \in {x \in N : x.via = "persists_to"}} = {e.to : e \in tables}
  <2>1. {x \in N : x.via = "persists_to"} = A
    BY <1>8, <1>9, <1>10
  <2> QED
    BY <1>8, <2>1, Zenon
<1>15. Once(N)
  <2>1. \A f \in B : f.to \in called
    BY <1>7, <1>9
  <2>2. \A f \in C : f.to \notin called
    BY <1>5, <1>10
  <2> QED
    BY <1>8, <1>9, <1>10, <2>1, <2>2 DEF Once
<1>16. Backed(graph, h, N)
  <2>1. k - 1 = walk.hop
    OBVIOUS
  <2> HIDE DEF k
  <2>2. ASSUME NEW f \in N
        PROVE  \E e \in RowsOf(graph, f.via) : /\ e.to = f.to /\ e.conf = f.conf
                                               /\ e.from \in TailAt(graph, h, f.hop - 1)
    <3>1. f.hop - 1 = walk.hop
      BY <1>12, <2>1
    <3>2. CASE f \in A
      <4>1. RowsOf(graph, f.via) = graph.PERSISTS_TO
        BY <1>8, <3>2 DEF RowsOf
      <4> QED
        BY <1>5, <1>8, <3>1, <3>2, <4>1
    <3>3. CASE f \in B
      <4>1. RowsOf(graph, f.via) = graph.CALLS
        BY <1>9, <3>3 DEF RowsOf
      <4> QED
        BY <1>5, <1>9, <3>1, <3>3, <4>1
    <3>4. CASE f \in C
      <4>1. RowsOf(graph, f.via) = graph.INJECTS
        BY <1>10, <3>4 DEF RowsOf
      <4> QED
        BY <1>5, <1>10, <3>1, <3>4, <4>1
    <3> QED
      BY <3>2, <3>3, <3>4
  <2> QED
    BY <2>2 DEF Backed
<1> QED
  BY <1>6, <1>11, <1>12, <1>13, <1>14, <1>15, <1>16 DEF listed

\* The set T is cut before hop k by the rows of hop k or later that join it.
LEMMA JoinedLater ==
  ASSUME NEW T, NEW N, NEW m \in Nat, \A f \in T : f.hop \in 1..m, \A f \in N : f.hop = m + 1
  PROVE  /\ \A k \in 1..m : /\ Full(T \union N, k) = Full(T, k)
                            /\ SymbolsAt(T \union N, k) = SymbolsAt(T, k)
                            /\ TablesTo(T \union N, k) = TablesTo(T, k)
         /\ Full(T \union N, m + 1) = (Cardinality(T) >= TailBound)
         /\ SymbolsAt(T \union N, m + 1) = {f.to : f \in {x \in N : x.via # "persists_to"}}
         /\ TablesTo(T \union N, m + 1) = {f.to : f \in {x \in T : x.via = "persists_to"}}
                                          \union {f.to : f \in {x \in N : x.via = "persists_to"}}
<1>1. ASSUME NEW k \in 1..m + 1
      PROVE  {f \in T \union N : f.hop < k} = {f \in T : f.hop < k}
  OBVIOUS
<1>2. ASSUME NEW k \in 1..m
      PROVE  /\ {x \in T \union N : x.hop = k /\ x.via # "persists_to"} = {x \in T : x.hop = k /\ x.via # "persists_to"}
             /\ {x \in T \union N : x.hop <= k /\ x.via = "persists_to"} = {x \in T : x.hop <= k /\ x.via = "persists_to"}
  OBVIOUS
<1>3. /\ {f \in T : f.hop < m + 1} = T
      /\ {x \in T \union N : x.hop = m + 1 /\ x.via # "persists_to"} = {x \in N : x.via # "persists_to"}
      /\ {x \in T \union N : x.hop <= m + 1 /\ x.via = "persists_to"}
           = {x \in T : x.via = "persists_to"} \union {x \in N : x.via = "persists_to"}
  OBVIOUS
<1>4. m + 1 \in 1..m + 1 /\ \A k \in 1..m : k \in 1..m + 1
  OBVIOUS
<1>5. \A k \in 1..m : /\ Full(T \union N, k) = Full(T, k)
                      /\ SymbolsAt(T \union N, k) = SymbolsAt(T, k)
                      /\ TablesTo(T \union N, k) = TablesTo(T, k)
  BY <1>1, <1>2, <1>4, Zenon DEF Full, SymbolsAt, TablesTo
<1>6. Full(T \union N, m + 1) = (Cardinality(T) >= TailBound)
  <2>1. {f \in T \union N : f.hop < m + 1} = T
    BY <1>1, <1>3, <1>4, Zenon
  <2> QED
    BY <2>1, Zenon DEF Full
<1>7. SymbolsAt(T \union N, m + 1) = {f.to : f \in {x \in N : x.via # "persists_to"}}
  BY <1>3, Zenon DEF SymbolsAt
<1>8. TablesTo(T \union N, m + 1) = {f.to : f \in {x \in T : x.via = "persists_to"}}
                                    \union {f.to : f \in {x \in N : x.via = "persists_to"}}
  BY <1>3, Zenon DEF TablesTo
<1> QED
  BY <1>5, <1>6, <1>7, <1>8

LEMMA TablesMore ==
  ASSUME NEW g, NEW h, NEW m \in Nat
  PROVE  TablesOf(g, h, 1..m + 1) = TablesOf(g, h, 1..m)
           \union {e.to : e \in {x \in g.PERSISTS_TO : x.from \in TailAt(g, h, m)}}
<1>1. 1..m + 1 = (1..m) \union {m + 1} /\ (m + 1) - 1 = m
  OBVIOUS
<1>2. {x \in g.PERSISTS_TO : \E j \in 1..m + 1 : x.from \in TailAt(g, h, j - 1)}
        = {x \in g.PERSISTS_TO : \E j \in 1..m : x.from \in TailAt(g, h, j - 1)}
          \union {x \in g.PERSISTS_TO : x.from \in TailAt(g, h, m)}
  BY <1>1, Zenon
<1> QED
  BY <1>2, Zenon DEF TablesOf

LEMMA TailHops ==
  ASSUME Asked, TailHop, NEW h, Walked(graph, ask, h, walk)
  PROVE  Walked(graph, ask, h, walk')
<1> DEFINE m == walk.hop
           T == walk.found
           listed == {f.to : f \in {x \in T : x.via = "persists_to"}}
           more == {e.to : e \in {x \in graph.PERSISTS_TO : x.from \in TailAt(graph, h, m)}}
<1>1. /\ m \in Nat /\ m < ask.depth /\ ~(Cardinality(T) >= TailBound)
      /\ walk.seen = SoFar({h}, Steps(graph), m)
      /\ walk.frontier = TailAt(graph, h, m)
      /\ \A f \in T : f.hop \in 1..m
      /\ \A k \in 1..m : /\ ~Full(T, k)
                         /\ SymbolsAt(T, k) = TailAt(graph, h, k)
                         /\ TablesTo(T, k) = TablesOf(graph, h, 1..k)
      /\ Once(T) /\ Backed(graph, h, T)
  BY Zenon DEF Walked, TailHop, Bounded
<1>2. ask.depth \in Int
  <2>1. ask.tool = "trace"
    BY DEF Asked, TailHop
  <2> QED
    BY <2>1, CasesAssumption DEF Asked, Walkers
<1>3. PICK N :
        /\ walk' = [walk EXCEPT !.seen = @ \union TailAt(graph, h, m + 1), !.frontier = TailAt(graph, h, m + 1),
                                !.hop = m + 1, !.found = T \union N]
        /\ \A f \in N : f.hop = m + 1
        /\ {f.to : f \in {x \in N : x.via # "persists_to"}} = TailAt(graph, h, m + 1)
        /\ {f.to : f \in {x \in N : x.via = "persists_to"}} = more \ listed
        /\ Once(N)
        /\ Backed(graph, h, N)
  BY <1>1, TailHopFacts
<1>4. /\ walk'.hop = m + 1 /\ walk'.found = T \union N
      /\ walk'.frontier = TailAt(graph, h, m + 1)
      /\ walk'.seen = walk.seen \union TailAt(graph, h, m + 1)
  <2>1. walk' = [of |-> walk.of, seen |-> walk.seen \union TailAt(graph, h, m + 1),
                 frontier |-> TailAt(graph, h, m + 1), hop |-> m + 1, found |-> T \union N]
    BY <1>3 DEF Asked
  <2> QED
    BY <2>1
<1> HIDE DEF m, T
<1>5. SoFar({h}, Steps(graph), m + 1) = SoFar({h}, Steps(graph), m) \union TailAt(graph, h, m + 1)
  BY <1>1, SoFarGrows, Zenon DEF TailAt
<1>6. /\ \A k \in 1..m : /\ Full(T \union N, k) = Full(T, k)
                         /\ SymbolsAt(T \union N, k) = SymbolsAt(T, k)
                         /\ TablesTo(T \union N, k) = TablesTo(T, k)
      /\ Full(T \union N, m + 1) = (Cardinality(T) >= TailBound)
      /\ SymbolsAt(T \union N, m + 1) = {f.to : f \in {x \in N : x.via # "persists_to"}}
      /\ TablesTo(T \union N, m + 1) = listed \union {f.to : f \in {x \in N : x.via = "persists_to"}}
  BY <1>1, <1>3, JoinedLater
<1>7. listed = TablesOf(graph, h, 1..m)
  <2>1. CASE m = 0
    <3>1. T = {}
      BY <1>1, <2>1
    <3> QED
      BY <2>1, <3>1 DEF TablesOf
  <2>2. CASE m # 0
    <3>1. m \in 1..m
      BY <1>1, <2>2
    <3>2. {x \in T : x.hop <= m /\ x.via = "persists_to"} = {x \in T : x.via = "persists_to"}
      BY <1>1
    <3>3. TablesTo(T, m) = listed
      BY <3>2, Zenon DEF TablesTo
    <3> QED
      BY <1>1, <3>1, <3>3
  <2> QED
    BY <2>1, <2>2
<1>8. TablesTo(T \union N, m + 1) = TablesOf(graph, h, 1..m + 1)
  <2>1. TablesOf(graph, h, 1..m + 1) = TablesOf(graph, h, 1..m) \union more
    BY <1>1, TablesMore
  <2> HIDE DEF more, listed
  <2> QED
    BY <1>3, <1>6, <1>7, <2>1
<1>9. ASSUME NEW k \in 1..m + 1
      PROVE  /\ ~Full(T \union N, k)
             /\ SymbolsAt(T \union N, k) = TailAt(graph, h, k)
             /\ TablesTo(T \union N, k) = TablesOf(graph, h, 1..k)
  <2>1. CASE k = m + 1
    BY <1>1, <1>3, <1>6, <1>8, <2>1, Zenon
  <2>2. CASE k # m + 1
    <3>1. k \in 1..m
      BY <1>1, <2>2
    <3> QED
      BY <1>1, <1>6, <3>1, Zenon
  <2> QED
    BY <2>1, <2>2
<1>10. Once(T \union N)
  <2>1. ASSUME NEW f \in T, NEW i \in N, f.to = i.to, f.via = "persists_to" <=> i.via = "persists_to"
        PROVE  FALSE
    <3>1. CASE f.via = "persists_to"
      <4>1. i.to \in more \ listed
        BY <1>3, <2>1, <3>1
      <4>2. f.to \in listed
        BY <3>1
      <4> QED
        BY <2>1, <4>1, <4>2
    <3>2. CASE f.via # "persists_to"
      <4>1. i.to \in TailAt(graph, h, m + 1)
        BY <1>3, <2>1, <3>2
      <4>2. f.to \in TailAt(graph, h, f.hop) /\ f.hop \in 1..m
        <5>1. f.hop \in 1..m
          BY <1>1
        <5>2. f.to \in SymbolsAt(T, f.hop)
          BY <3>2 DEF SymbolsAt
        <5> QED
          BY <1>1, <5>1, <5>2
      <4>3. i.to \notin SoFar({h}, Steps(graph), m)
        BY <1>1, <4>1, FirstFurther DEF TailAt
      <4>4. f.to \in SoFar({h}, Steps(graph), m)
        <5>1. f.to \in ReachedBy({h}, Steps(graph), f.hop)
          BY <4>2, Zenon DEF TailAt, FirstReached
        <5>2. f.hop \in 0..m
          BY <1>1, <4>2
        <5> QED
          BY <5>1, <5>2, Zenon DEF SoFar
      <4> QED
        BY <2>1, <4>3, <4>4
    <3> QED
      BY <3>1, <3>2
  <2> QED
    BY <1>1, <1>3, <2>1, Zenon DEF Once
<1>11. Backed(graph, h, T \union N)
  BY <1>1, <1>3, Zenon DEF Backed
<1>12. \A f \in T \union N : f.hop \in 1..m + 1
  BY <1>1, <1>3
<1>13. m + 1 \in Nat /\ (m + 1 = 0 \/ m + 1 <= ask.depth)
  BY <1>1, <1>2
<1> QED
  BY <1>1, <1>4, <1>5, <1>9, <1>10, <1>11, <1>12, <1>13, Zenon DEF Walked

\* A tail whose walk ended is what the property says: it was as deep as asked, or
\* nothing was left to follow, or it was full.
LEMMA WalkedIsTold ==
  ASSUME NEW g, NEW q, NEW h, NEW w, q.depth \in Int, Walked(g, q, h, w),
         w.hop >= q.depth \/ w.frontier = {} \/ Cardinality(w.found) >= TailBound
  PROVE  Told(g, q, h, w.found)
<1> DEFINE m == w.hop
           T == w.found
<1>1. /\ m \in Nat /\ (m = 0 \/ m <= q.depth)
      /\ w.frontier = TailAt(g, h, m)
      /\ \A f \in T : f.hop \in 1..m
      /\ \A k \in 1..m : /\ ~Full(T, k)
                         /\ SymbolsAt(T, k) = TailAt(g, h, k)
                         /\ TablesTo(T, k) = TablesOf(g, h, 1..k)
      /\ Once(T) /\ Backed(g, h, T)
  BY Zenon DEF Walked
<1>2. m >= q.depth \/ TailAt(g, h, m) = {} \/ Cardinality(T) >= TailBound
  BY <1>1
<1> HIDE DEF m, T
<1>3. ASSUME NEW k \in 1..q.depth, k \notin 1..m
      PROVE  /\ SymbolsAt(T, k) = {} /\ TablesTo(T, k) = {f.to : f \in {x \in T : x.via = "persists_to"}}
             /\ m <= k - 1 /\ k - 1 \in Nat
             /\ DueOf(q, T, k) => TailAt(g, h, m) = {}
  <2>1. k > m /\ ~(m >= q.depth) /\ k - 1 \in Nat /\ m <= k - 1
    BY <1>1, <1>3
  <2>2. {f \in T : f.hop < k} = T /\ {x \in T : x.hop <= k /\ x.via = "persists_to"} = {x \in T : x.via = "persists_to"}
        /\ {x \in T : x.hop = k /\ x.via # "persists_to"} = {}
    BY <1>1, <2>1
  <2>3. Full(T, k) <=> Cardinality(T) >= TailBound
    BY <2>2, Zenon DEF Full
  <2>4. SymbolsAt(T, k) = {}
    BY <2>2 DEF SymbolsAt
  <2>5. TablesTo(T, k) = {f.to : f \in {x \in T : x.via = "persists_to"}}
    BY <2>2, Zenon DEF TablesTo
  <2> QED
    BY <1>2, <2>1, <2>3, <2>4, <2>5, Zenon DEF DueOf
<1>4. ASSUME NEW k \in 1..q.depth, k \notin 1..m, DueOf(q, T, k)
      PROVE  TailAt(g, h, k) = {} /\ TailAt(g, h, k - 1) = {}
  <2>1. TailAt(g, h, m) = {} /\ m <= k - 1 /\ k - 1 \in Nat
    BY <1>3, <1>4, Zenon
  <2>2. k \in Nat /\ m <= k
    BY <1>1, <2>1
  <2> QED
    BY <1>1, <2>1, <2>2, NoneFurther, Zenon DEF TailAt
<1>5. \A k \in 1..m : k \in 1..q.depth /\ DueOf(q, T, k)
  <2>1. 1..m \subseteq 1..q.depth
    BY <1>1
  <2> QED
    BY <1>1, <2>1, Zenon DEF DueOf
<1>6. ASSUME NEW k \in 1..q.depth
      PROVE  SymbolsAt(T, k) = IF DueOf(q, T, k) THEN TailAt(g, h, k) ELSE {}
  BY <1>1, <1>3, <1>4, <1>5, Zenon
<1>7. {f.to : f \in {x \in T : x.via = "persists_to"}} = TablesOf(g, h, 1..m)
  <2>1. CASE m = 0
    <3>1. T = {}
      BY <1>1, <2>1
    <3> QED
      BY <2>1, <3>1 DEF TablesOf
  <2>2. CASE m # 0
    <3>1. m \in 1..m
      BY <1>1, <2>2
    <3>2. {x \in T : x.hop <= m /\ x.via = "persists_to"} = {x \in T : x.via = "persists_to"}
      BY <1>1
    <3> QED
      BY <1>1, <3>1, <3>2, Zenon DEF TablesTo
  <2> QED
    BY <2>1, <2>2
<1>8. ASSUME NEW k \in 1..q.depth
      PROVE  TablesTo(T, k) = TablesOf(g, h, {j \in 1..k : DueOf(q, T, j)})
  <2>1. CASE k \in 1..m
    <3>1. 1..k \subseteq 1..m
      BY <1>1, <2>1
    <3>2. {j \in 1..k : DueOf(q, T, j)} = 1..k
      BY <1>5, <3>1
    <3> QED
      BY <1>1, <2>1, <3>2, Zenon
  <2>2. CASE k \notin 1..m
    <3>1. 1..m \subseteq 1..k /\ 1..k \subseteq 1..q.depth
      BY <1>1, <2>2
    <3>2. \A j \in 1..k : DueOf(q, T, j) /\ j \notin 1..m => TailAt(g, h, j - 1) = {}
      BY <1>4, <3>1
    <3>3. \A x : (\E j \in {i \in 1..k : DueOf(q, T, i)} : x \in TailAt(g, h, j - 1))
                  <=> \E j \in 1..m : x \in TailAt(g, h, j - 1)
      BY <1>5, <3>1, <3>2
    <3>4. TablesOf(g, h, {j \in 1..k : DueOf(q, T, j)}) = TablesOf(g, h, 1..m)
      <4>1. {x \in g.PERSISTS_TO : \E j \in {i \in 1..k : DueOf(q, T, i)} : x.from \in TailAt(g, h, j - 1)}
              = {x \in g.PERSISTS_TO : \E j \in 1..m : x.from \in TailAt(g, h, j - 1)}
        BY <3>3, Zenon
      <4> QED
        BY <4>1, Zenon DEF TablesOf
    <3> QED
      BY <1>3, <1>7, <2>2, <3>4, Zenon
  <2> QED
    BY <2>1, <2>2
<1> QED
  BY <1>1, <1>6, <1>8, Zenon DEF Told, T

\* A chain in hand comes from the question, and its tail is walked from its handler.
TailWalk ==
  /\ ask.tool = "trace" /\ ask.direction = "downstream" => \A c \in todo : c.handler \in Symbols \union {None}
  /\ pc = "tail" =>
       /\ ask.direction = "downstream"
       /\ \E c \in todo : /\ walk.of = {c} /\ c.handler # None
                          /\ Walked(graph, ask, c.handler, walk)

AllTold ==
  ask.tool = "trace" /\ ask.direction = "downstream" =>
    \A a \in answer : a.chain.handler # None => Told(graph, ask, a.chain.handler, a.tail)

LEMMA WalkStarts ==
  ASSUME NEW g, NEW q, NEW h \in Symbols, NEW w,
         w.hop = 0, w.seen = {h}, w.frontier = {h}, w.found = {}
  PROVE  Walked(g, q, h, w)
<1>1. ReachedBy({h}, Steps(g), 0) = {h}
  BY ReachedBase
<1>2. SoFar({h}, Steps(g), 0) = {h} /\ TailAt(g, h, 0) = {h}
  BY <1>1 DEF SoFar, TailAt, FirstReached
<1> QED
  BY <1>2 DEF Walked, Once, Backed

LEMMA TailStays ==
  ASSUME Asked, TailWalk, NextQuery \/ UNCHANGED vars, ~Resolve, ~TraceChain, ~TailHop, ~TailDone
  PROVE  TailWalk'
<1>1. CASE UNCHANGED vars
  BY <1>1, Zenon DEF vars, TailWalk
<1>2. CASE NextQuery
  <2>1. graph' = graph /\ ask' = ask /\ todo' \subseteq todo
    BY <1>2 DEF NextQuery, Next, Refuse, ImpactHop, ImpactDone, Context, FlowEnter, FlowPop, FlowLeave,
       FlowDone, TraceUpstream, TraceDone, View, Find, Draw, Answer
  <2>2. pc' # "tail"
    BY <1>2, Zenon DEF NextQuery, Next, Refuse, ImpactHop, ImpactDone, Context, FlowEnter, FlowPop, FlowLeave,
       FlowDone, TraceUpstream, TraceDone, View, Find, Draw, Answer
  <2> QED
    BY <2>1, <2>2, Zenon DEF TailWalk
<1> QED
  BY <1>1, <1>2

LEMMA ChainsHaveHandlers ==
  ASSUME Asked, NEW S, NEW c \in ChainsFrom(S)
  PROVE  c.handler \in Symbols \union {None}
<1>1. graph.HANDLES \subseteq Edges(Symbols, Nat)
  BY CasesAssumption, Zenon DEF Asked
<1>2. \A e \in graph.HANDLES : e.from \in Symbols
  BY <1>1 DEF Edges
<1>3. PICK d \in {x \in graph.CALLS_ENDPOINT : x.from \in S} :
        \E h \in LET H == {e.from : e \in {x \in graph.HANDLES : x.to = d.to}}
                 IN IF H = {} THEN {None} ELSE H :
           c = [consumer |-> d.from, endpoint |-> d.to, handler |-> h]
  BY DEF ChainsFrom
<1> QED
  BY <1>2, <1>3

LEMMA TailWalkAlways == SpecQuery => []TailWalk
<1>1. Init => TailWalk
  BY DEF Init, TailWalk
<1>2. ASSUME Asked, TailWalk, [NextQuery]_vars
      PROVE  TailWalk'
  <2>1. CASE Resolve
    <3>1. graph' = graph /\ ask' = ask /\ pc' # "tail"
      BY <2>1 DEF Resolve, Walkers
    <3>2. CASE ask.tool = "trace" /\ ask.direction = "downstream"
      <4>1. \E S : todo' = ChainsFrom(S)
        BY <2>1, <3>2 DEF Resolve
      <4> QED
        BY <1>2, <3>1, <4>1, ChainsHaveHandlers, Zenon DEF TailWalk
    <3> QED
      BY <3>1, <3>2, Zenon DEF TailWalk
  <2>2. CASE TraceChain
    <3>1. PICK c \in todo :
            IF c.handler = None
            THEN /\ todo' = todo \ {c}
                 /\ UNCHANGED pc
            ELSE /\ walk' = [NoWalk EXCEPT !.of = {c}, !.seen = {c.handler}, !.frontier = {c.handler}]
                 /\ pc' = "tail"
                 /\ todo' = todo
      BY <2>2, Zenon DEF TraceChain
    <3>2. /\ pc = "trace" /\ ask.direction = "downstream" /\ ask.tool = "trace"
          /\ graph' = graph /\ ask' = ask
      BY <1>2, <2>2, Zenon DEF TraceChain, Asked
    <3>3. CASE c.handler = None
      BY <1>2, <3>1, <3>2, <3>3 DEF TailWalk
    <3>4. CASE c.handler # None
      <4>1. c.handler \in Symbols
        BY <1>2, <3>2, <3>4 DEF TailWalk
      <4>2. /\ walk'.of = {c} /\ walk'.hop = 0 /\ walk'.found = {}
            /\ walk'.seen = {c.handler} /\ walk'.frontier = {c.handler}
        BY <3>1, <3>4 DEF NoWalk
      <4>3. Walked(graph, ask, c.handler, walk')
        BY <4>1, <4>2, WalkStarts
      <4>4. c \in todo' /\ todo' = todo
        BY <3>1, <3>4
      <4> QED
        BY <1>2, <3>2, <3>4, <4>2, <4>3, <4>4, Zenon DEF TailWalk
    <3> QED
      BY <3>3, <3>4
  <2>3. CASE TailHop
    <3>1. /\ pc = "tail" /\ pc' = pc /\ graph' = graph /\ ask' = ask /\ todo' = todo
      BY <2>3, Zenon DEF TailHop
    <3>2. PICK c \in todo : /\ walk.of = {c} /\ c.handler # None
                            /\ Walked(graph, ask, c.handler, walk)
      BY <1>2, <3>1, Zenon DEF TailWalk
    <3>3. Walked(graph, ask, c.handler, walk')
      BY <1>2, <2>3, <3>2, TailHops
    <3>4. walk'.of = walk.of
      BY <1>2, <2>3 DEF TailHop, Asked
    <3> QED
      BY <1>2, <3>1, <3>2, <3>3, <3>4, Zenon DEF TailWalk
  <2>4. CASE TailDone
    <3>1. pc' = "trace" /\ graph' = graph /\ ask' = ask /\ todo' \subseteq todo
      BY <2>4 DEF TailDone
    <3> QED
      BY <1>2, <3>1 DEF TailWalk
  <2> QED
    BY <1>2, <2>1, <2>2, <2>3, <2>4, TailStays
<1> QED
  BY <1>1, <1>2, AskedAlways, PTL DEF SpecQuery

\* trace lists what a handler reaches over calls and injections once, at its distance,
\* and the tables one step further, up to the hop at which the tail passed its bound.
THEOREM TailIsExact == SpecQuery => []TailIsReach
<1>1. Init => AllTold
  BY DEF Init, AllTold
<1>2. ASSUME Asked, TailWalk, AllTold, [NextQuery]_vars
      PROVE  AllTold'
  <2>1. SUFFICES ASSUME ask'.tool = "trace", ask'.direction = "downstream",
                        NEW a \in answer', a.chain.handler # None
                 PROVE  Told(graph', ask', a.chain.handler, a.tail)
    BY DEF AllTold
  <2>2. graph' = graph /\ ask' = ask
    BY <1>2 DEF NextQuery, Next, Refuse, Resolve, ImpactHop, ImpactDone, Context, FlowEnter, FlowPop, FlowLeave,
       FlowDone, TraceChain, TailHop, TailDone, TraceUpstream, TraceDone, View, Find, Draw, Answer, vars
  <2>3. CASE a \in answer
    BY <1>2, <2>1, <2>2, <2>3, Zenon DEF AllTold
  <2>4. CASE TraceChain /\ a \notin answer
    <3>1. \E c \in todo : c.handler = None /\ a = [chain |-> c, tail |-> {}]
      BY <2>1, <2>4 DEF TraceChain
    <3> QED
      BY <2>1, <3>1
  <2>5. CASE TailDone /\ a \notin answer
    <3>1. PICK c \in walk.of : a = [chain |-> c, tail |-> walk.found]
      BY <2>1, <2>5 DEF TailDone
    <3>2. pc = "tail" /\ (walk.hop >= ask.depth \/ walk.frontier = {} \/ Cardinality(walk.found) >= TailBound)
      BY <2>5, Zenon DEF TailDone, Bounded
    <3>3. Walked(graph, ask, c.handler, walk)
      BY <1>2, <3>1, <3>2 DEF TailWalk
    <3>4. ask.depth \in Int
      BY <1>2, <2>1, <2>2, CasesAssumption DEF Asked, Walkers
    <3>5. Told(graph, ask, c.handler, walk.found)
      BY <3>2, <3>3, <3>4, WalkedIsTold
    <3>6. a.chain = c /\ a.tail = walk.found
      BY <3>1
    <3> QED
      BY <2>2, <3>5, <3>6, Zenon
  <2>6. CASE ~TraceChain /\ ~TailDone /\ a \notin answer
    BY <1>2, <2>1, <2>2, <2>6, Zenon DEF NextQuery, Next, Refuse, Resolve, ImpactHop, ImpactDone, Context, FlowEnter, FlowPop, FlowLeave,
       FlowDone, TailHop, TraceUpstream, TraceDone, View, Find, Draw, Answer, vars, Asked
  <2> QED
    BY <2>3, <2>4, <2>5, <2>6
<1>3. AllTold => TailIsReach
  <2> DEFINE Tables(h, T, k) == {e.to : e \in {x \in graph.PERSISTS_TO :
                                   \E j \in 1..k : DueOf(ask, T, j) /\ x.from \in TailAt(graph, h, j - 1)}}
             Said(h, T) ==
               /\ \A k \in 1..ask.depth :
                    /\ SymbolsAt(T, k) = IF DueOf(ask, T, k) THEN TailAt(graph, h, k) ELSE {}
                    /\ TablesTo(T, k) = Tables(h, T, k)
               /\ Once(T)
               /\ Backed(graph, h, T)
  <2>1. ASSUME NEW h, NEW T, Told(graph, ask, h, T)
        PROVE  Said(h, T)
    <3>1. ASSUME NEW k
          PROVE  TablesOf(graph, h, {j \in 1..k : DueOf(ask, T, j)}) = Tables(h, T, k)
      <4>1. {x \in graph.PERSISTS_TO : \E j \in {i \in 1..k : DueOf(ask, T, i)} : x.from \in TailAt(graph, h, j - 1)}
              = {x \in graph.PERSISTS_TO : \E j \in 1..k : DueOf(ask, T, j) /\ x.from \in TailAt(graph, h, j - 1)}
        BY Zenon
      <4> QED
        BY <4>1, Zenon DEF TablesOf
    <3> HIDE DEF Tables
    <3> QED
      BY <2>1, <3>1, Zenon DEF Told
  <2>2. AllTold /\ Answered("trace") /\ ask.direction = "downstream" =>
          \A a \in answer : a.chain.handler # None => Said(a.chain.handler, a.tail)
    <3> HIDE DEF Said
    <3> QED
      BY <2>1, Zenon DEF AllTold, Answered
  <2> QED
    BY <2>2, Zenon DEF TailIsReach, TablesTo, SymbolsAt, DueOf, Full, TailAt, Once, Backed, RowsOf, Steps
<1> QED
  BY <1>1, <1>2, <1>3, AskedAlways, TailWalkAlways, PTL DEF SpecQuery
-----------------------------------------------------------------------------
(* The first members of an ordered set.  The order is a set of pairs here, so  *)
(* that the facts can be stated once.                                          *)

Below(S, B, x) == {y \in S : <<y, x>> \in B}
Firsts(S, B, n) == {x \in S : Cardinality(Below(S, B, x)) < n}
Strict(S, B) ==
  /\ \A x \in S : <<x, x>> \notin B
  /\ \A x, y, z \in S : <<x, y>> \in B /\ <<y, z>> \in B => <<x, z>> \in B
Total(S, B) == \A x, y \in S : x = y \/ <<x, y>> \in B \/ <<y, x>> \in B

LEMMA BelowFacts ==
  ASSUME NEW S, IsFiniteSet(S), NEW B
  PROVE  \A x \in S : IsFiniteSet(Below(S, B, x)) /\ Cardinality(Below(S, B, x)) \in Nat
<1> SUFFICES ASSUME NEW x \in S
             PROVE  IsFiniteSet(Below(S, B, x)) /\ Cardinality(Below(S, B, x)) \in Nat
  OBVIOUS
<1>1. Below(S, B, x) \in SUBSET S
  BY DEF Below
<1>2. IsFiniteSet(Below(S, B, x))
  BY <1>1, FS_Subset, Zenon
<1> QED
  BY <1>2, FS_CardinalityType, Zenon

\* What comes earlier has fewer before it.
LEMMA FewerBelow ==
  ASSUME NEW S, IsFiniteSet(S), NEW B, Strict(S, B), NEW x \in S, NEW z \in S, <<x, z>> \in B
  PROVE  Cardinality(Below(S, B, x)) < Cardinality(Below(S, B, z))
<1> DEFINE X == Below(S, B, x)
           Z == Below(S, B, z)
<1>1. X \subseteq Z /\ x \in Z /\ x \notin X
  BY DEF Below, Strict
<1>2. IsFiniteSet(X) /\ IsFiniteSet(Z) /\ Cardinality(X) \in Nat /\ Cardinality(Z) \in Nat
  BY BelowFacts, Zenon
<1> HIDE DEF X, Z
<1>3. Cardinality(X) <= Cardinality(Z) /\ (Cardinality(Z) = Cardinality(X) => Z = X)
  BY <1>1, <1>2, FS_Subset
<1> QED
  BY <1>1, <1>2, <1>3 DEF X, Z

\* There are no more of them than asked for, and all if there are no more to take.
LEMMA FirstsAreFew ==
  ASSUME NEW S, IsFiniteSet(S), NEW B, Strict(S, B), Total(S, B), NEW n \in Nat
  PROVE  Cardinality(Firsts(S, B, n)) <= n
<1> DEFINE F == Firsts(S, B, n)
           f == [x \in F |-> Cardinality(Below(S, B, x)) + 1]
<1>1. \A x \in F : x \in S /\ Cardinality(Below(S, B, x)) \in Nat /\ Cardinality(Below(S, B, x)) < n
  BY BelowFacts DEF Firsts
<1>2. ASSUME NEW x \in F, NEW z \in F, x # z
      PROVE  f[x] # f[z]
  <2>1. x \in S /\ z \in S
    BY <1>1
  <2>2. CASE <<x, z>> \in B
    BY <1>1, <2>1, <2>2, FewerBelow
  <2>3. CASE <<z, x>> \in B
    BY <1>1, <2>1, <2>3, FewerBelow
  <2> QED
    BY <1>2, <2>1, <2>2, <2>3 DEF Total
<1>3. f \in [F -> 1..n]
  BY <1>1
<1> HIDE DEF f, F
<1>4. f \in Injection(F, 1..n)
  BY <1>2, <1>3 DEF Injection, IsInjective
<1>5. IsFiniteSet(1..n) /\ Cardinality(1..n) = n
  BY FS_Interval
<1>6. Cardinality(F) <= Cardinality(1..n)
  BY <1>4, <1>5, FS_Injection, Zenon
<1> QED
  BY <1>5, <1>6 DEF F

LEMMA FirstsAreAll ==
  ASSUME NEW S, IsFiniteSet(S), NEW B, \A x \in S : <<x, x>> \notin B, NEW n \in Nat, Cardinality(S) <= n
  PROVE  Firsts(S, B, n) = S
<1>1. ASSUME NEW x \in S
      PROVE  Cardinality(Below(S, B, x)) < n
  <2>1. Below(S, B, x) \subseteq S /\ x \notin Below(S, B, x)
    BY DEF Below
  <2>2. /\ Cardinality(Below(S, B, x)) <= Cardinality(S)
        /\ Cardinality(S) = Cardinality(Below(S, B, x)) => S = Below(S, B, x)
    BY <2>1, FS_Subset
  <2>3. Cardinality(S) \in Nat /\ Cardinality(Below(S, B, x)) \in Nat
    BY BelowFacts, FS_CardinalityType, Zenon
  <2> QED
    BY <2>1, <2>2, <2>3
<1> QED
  BY <1>1 DEF Firsts
-----------------------------------------------------------------------------
(* The view of the web. *)

\* An edge of the graph as the view draws it.
SourceKey(t, x) == IF t = "CO_CHANGES_WITH" THEN File(x) ELSE Sym(x)
TargetKey(t, x) == IF t = "CO_CHANGES_WITH" THEN File(x) ELSE IF t \in SymbolEndpoint THEN Ep(x) ELSE Sym(x)
Drawn(t, x) == Edge(t, SourceKey(t, x.from), TargetKey(t, x.to), x)

Keys == {"sym", "ep", "file"} \X Nat
DrawnEdge(e) == /\ e.etype \in AllTypes /\ e.source \in Keys /\ e.target \in Keys /\ e.conf \in Confidence
                /\ e.row \in Nat

\* A graph of a case.
GraphOK(g) ==
  /\ \A t \in SymbolSymbol   : g[t] \subseteq Edges(Symbols, Symbols)
  /\ \A t \in SymbolEndpoint : g[t] \subseteq Edges(Symbols, Nat)
  /\ \A e \in g["CO_CHANGES_WITH"] :
       e.from \in Nat /\ e.to \in Nat /\ e.frequency \in Nat /\ e.conf \in Confidence
       /\ e.row \in Nat
  /\ \A t \in AllTypes : IsFiniteSet(g[t])

LEMMA CandidatesFrom ==
  ASSUME NEW g, NEW r, NEW e \in Candidates(g, r)
  PROVE  \E t \in Requested(r.types) : \E x \in g[t] : e = Drawn(t, x) /\ Passes(x.conf, r.min)
<1> DEFINE seed == Seed(g, r)
           types == Requested(r.types)
           all  == (UNION {SymbolEdges(g, t, seed) : t \in types \intersect SymbolSymbol})
                   \union (UNION {EndpointEdges(g, t, seed) : t \in types \intersect SymbolEndpoint})
<1>1. \/ e \in all /\ Passes(e.conf, r.min)
      \/ "CO_CHANGES_WITH" \in types /\ e \in CoChangeEdges(g, r.min)
  BY Zenon DEF Candidates
<1>2. ASSUME NEW t \in types \intersect SymbolSymbol, e \in SymbolEdges(g, t, seed), Passes(e.conf, r.min)
      PROVE  \E x \in g[t] : e = Drawn(t, x) /\ Passes(x.conf, r.min)
  <2>1. PICK x \in g[t] : e = Edge(t, Sym(x.from), Sym(x.to), x)
    BY <1>2 DEF SymbolEdges
  <2>2. t # "CO_CHANGES_WITH" /\ t \notin SymbolEndpoint
    BY DEF SymbolSymbol, SymbolEndpoint
  <2>3. e = Drawn(t, x)
    BY <2>1, <2>2 DEF Drawn, SourceKey, TargetKey
  <2>4. e.conf = x.conf
    BY <2>1 DEF Edge
  <2> QED
    BY <1>2, <2>3, <2>4
<1>3. ASSUME NEW t \in types \intersect SymbolEndpoint, e \in EndpointEdges(g, t, seed), Passes(e.conf, r.min)
      PROVE  \E x \in g[t] : e = Drawn(t, x) /\ Passes(x.conf, r.min)
  <2>1. PICK x \in g[t] : e = Edge(t, Sym(x.from), Ep(x.to), x)
    BY <1>3 DEF EndpointEdges
  <2>2. t # "CO_CHANGES_WITH" /\ t \in SymbolEndpoint
    BY DEF SymbolEndpoint
  <2>3. e = Drawn(t, x)
    BY <2>1, <2>2 DEF Drawn, SourceKey, TargetKey
  <2>4. e.conf = x.conf
    BY <2>1 DEF Edge
  <2> QED
    BY <1>3, <2>3, <2>4
<1>4. ASSUME e \in CoChangeEdges(g, r.min)
      PROVE  \E x \in g["CO_CHANGES_WITH"] : e = Drawn("CO_CHANGES_WITH", x) /\ Passes(x.conf, r.min)
  <2>1. PICK x \in g["CO_CHANGES_WITH"] : /\ Passes(x.conf, r.min)
                                          /\ e = Edge("CO_CHANGES_WITH", File(x.from), File(x.to), x)
    BY <1>4 DEF CoChangeEdges, FirstOf
  <2> QED
    BY <2>1 DEF Drawn, SourceKey, TargetKey
<1> HIDE DEF seed, types
<1> QED
  BY <1>1, <1>2, <1>3, <1>4 DEF types

LEMMA RoutesAreCandidates ==
  ASSUME NEW g, NEW r, "ROUTES_TO" \in Requested(r.types), NEW x \in g["ROUTES_TO"], Passes(x.conf, r.min)
  PROVE  Edge("ROUTES_TO", Sym(x.from), Sym(x.to), x) \in Candidates(g, r)
<1> DEFINE e == Edge("ROUTES_TO", Sym(x.from), Sym(x.to), x)
<1>1. e \in SymbolEdges(g, "ROUTES_TO", Seed(g, r))
  BY Zenon DEF SymbolEdges
<1>2. e.conf = x.conf /\ "ROUTES_TO" \in SymbolSymbol
  BY DEF Edge, SymbolSymbol
<1> HIDE DEF e
<1> QED
  BY <1>1, <1>2, Zenon DEF Candidates, e

LEMMA DrawnIsDrawn ==
  ASSUME NEW g, GraphOK(g), NEW t \in AllTypes, NEW x \in g[t]
  PROVE  DrawnEdge(Drawn(t, x))
<1>1. CASE t \in SymbolSymbol
  <2>1. x \in Edges(Symbols, Symbols) /\ Symbols \subseteq Nat
    BY <1>1, GraphAssumption DEF GraphOK
  <2>2. x.from \in Nat /\ x.to \in Nat /\ x.conf \in Confidence /\ x.row \in Nat
    BY <2>1 DEF Edges
  <2> QED
    BY <1>1, <2>2 DEF DrawnEdge, Drawn, Edge, SourceKey, TargetKey, Keys, Sym, Ep, File, SymbolSymbol, SymbolEndpoint
<1>2. CASE t \in SymbolEndpoint
  <2>1. x \in Edges(Symbols, Nat) /\ Symbols \subseteq Nat
    BY <1>2, GraphAssumption DEF GraphOK
  <2>2. x.from \in Nat /\ x.to \in Nat /\ x.conf \in Confidence /\ x.row \in Nat
    BY <2>1 DEF Edges
  <2> QED
    BY <1>2, <2>2 DEF DrawnEdge, Drawn, Edge, SourceKey, TargetKey, Keys, Sym, Ep, File, SymbolSymbol, SymbolEndpoint
<1>3. CASE t = "CO_CHANGES_WITH"
  <2>1. x.from \in Nat /\ x.to \in Nat /\ x.conf \in Confidence /\ x.row \in Nat
    BY <1>3 DEF GraphOK
  <2> QED
    BY <1>3, <2>1 DEF DrawnEdge, Drawn, Edge, SourceKey, TargetKey, Keys, Sym, Ep, File
<1> QED
  BY <1>1, <1>2, <1>3 DEF AllTypes, DefaultTypes

LEMMA ImageIsFinite ==
  ASSUME NEW S, IsFiniteSet(S), NEW T, NEW f \in [S -> T]
  PROVE  IsFiniteSet({f[x] : x \in S})
<1> DEFINE I == {f[x] : x \in S}
<1>1. f \in Surjection(S, I)
  BY DEF Surjection
<1> QED
  BY <1>1, FS_Surjection, Zenon

LEMMA TypesAreFew == IsFiniteSet(AllTypes)
<1> DEFINE f == [t \in AllTypes |-> TypeName(t)]
<1>1. f \in Injection(AllTypes, 1..7)
  BY DEF Injection, IsInjective, TypeName, AllTypes, DefaultTypes, SymbolSymbol, SymbolEndpoint
<1>2. 1 \in Int /\ 7 \in Int
  OBVIOUS
<1>3. IsFiniteSet(1..7)
  BY <1>2, FS_Interval, Zenon
<1> QED
  BY <1>1, <1>3, FS_Injection, Zenon

\* What the view may draw of a graph is finite.
AllDrawn(g) == UNION {{Drawn(t, x) : x \in g[t]} : t \in AllTypes}

LEMMA DrawnIsFinite ==
  ASSUME NEW g, GraphOK(g)
  PROVE  IsFiniteSet(AllDrawn(g)) /\ \A e \in AllDrawn(g) : DrawnEdge(e)
<1> DEFINE part == [t \in AllTypes |-> {Drawn(t, x) : x \in g[t]}]
           parts == {part[t] : t \in AllTypes}
<1>1. ASSUME NEW t \in AllTypes
      PROVE  IsFiniteSet({Drawn(t, x) : x \in g[t]})
  <2> DEFINE f == [x \in g[t] |-> Drawn(t, x)]
             T == {Drawn(t, x) : x \in g[t]}
  <2>1. f \in [g[t] -> T]
    OBVIOUS
  <2>2. IsFiniteSet(g[t])
    BY <1>1 DEF GraphOK
  <2>3. {f[x] : x \in g[t]} = T
    BY Zenon
  <2> HIDE DEF f, T
  <2>4. IsFiniteSet({f[x] : x \in g[t]})
    BY <2>1, <2>2, ImageIsFinite
  <2> QED
    BY <2>3, <2>4, Zenon DEF T
<1>2. part \in [AllTypes -> SUBSET AllDrawn(g)]
  BY Zenon DEF AllDrawn
<1>3. IsFiniteSet(parts)
  <2> HIDE DEF part
  <2> QED
    BY <1>2, TypesAreFew, ImageIsFinite
<1>4. \A P \in parts : IsFiniteSet(P)
  BY <1>1, Zenon
<1>5. UNION parts = AllDrawn(g)
  <2>1. \A t \in AllTypes : part[t] = {Drawn(t, x) : x \in g[t]}
    BY Zenon
  <2> HIDE DEF part
  <2>2. parts = {{Drawn(t, x) : x \in g[t]} : t \in AllTypes}
    BY <2>1
  <2> QED
    BY <2>2, Zenon DEF AllDrawn
<1>6. IsFiniteSet(UNION parts)
  BY <1>3, <1>4, FS_UNION, Zenon
<1>7. \A e \in AllDrawn(g) : \E t \in AllTypes : \E x \in g[t] : e = Drawn(t, x)
  BY Zenon DEF AllDrawn
<1> HIDE DEF part, parts
<1> QED
  BY <1>5, <1>6, <1>7, DrawnIsDrawn, Zenon

LEMMA CandidatesAreDrawn ==
  ASSUME NEW g, GraphOK(g), NEW r
  PROVE  /\ IsFiniteSet(Candidates(g, r))
         /\ \A e \in Candidates(g, r) : DrawnEdge(e) /\ e.etype \in Requested(r.types) /\ Passes(e.conf, r.min)
<1>1. Requested(r.types) \subseteq AllTypes
  BY DEF Requested, AllTypes
<1>2. \A t, x : Drawn(t, x).etype = t /\ Drawn(t, x).conf = x.conf
  BY DEF Drawn, Edge
<1>3. \A e \in Candidates(g, r) : \E t \in Requested(r.types) : \E x \in g[t] : e = Drawn(t, x) /\ Passes(x.conf, r.min)
  BY CandidatesFrom, Zenon
<1>4. Candidates(g, r) \in SUBSET AllDrawn(g)
  BY <1>1, <1>3 DEF AllDrawn
<1>5. IsFiniteSet(Candidates(g, r))
  BY <1>4, DrawnIsFinite, FS_Subset, Zenon
<1>6. \A e \in Candidates(g, r) : DrawnEdge(e)
  BY <1>4, DrawnIsFinite, Zenon
<1>7. \A e \in Candidates(g, r) : e.etype \in Requested(r.types) /\ Passes(e.conf, r.min)
  BY <1>2, <1>3
<1> QED
  BY <1>5, <1>6, <1>7, Zenon

LEMMA EndsAreFinite ==
  ASSUME NEW E, IsFiniteSet(E), \A e \in E : DrawnEdge(e)
  PROVE  IsFiniteSet(Ends(E)) /\ Ends(E) \subseteq Keys
<1> DEFINE from == [e \in E |-> e.source]
           to   == [e \in E |-> e.target]
<1>1. from \in [E -> Keys] /\ to \in [E -> Keys]
  BY DEF DrawnEdge
<1>2. IsFiniteSet({from[e] : e \in E}) /\ IsFiniteSet({to[e] : e \in E})
  BY <1>1, ImageIsFinite, Zenon
<1>3. {from[e] : e \in E} = {e.source : e \in E} /\ {to[e] : e \in E} = {e.target : e \in E}
  BY Zenon
<1>4. IsFiniteSet({e.source : e \in E}) /\ IsFiniteSet({e.target : e \in E})
  BY <1>2, <1>3, Zenon
<1>5. IsFiniteSet(Ends(E))
  BY <1>4, FS_Union, Zenon DEF Ends
<1> QED
  BY <1>5 DEF Ends, DrawnEdge

LEMMA KeysAreOrdered ==
  /\ \A a \in Keys : ~KeyBefore(a, a)
  /\ \A a, b, c \in Keys : KeyBefore(a, b) /\ KeyBefore(b, c) => KeyBefore(a, c)
  /\ \A a, b \in Keys : a = b \/ KeyBefore(a, b) \/ KeyBefore(b, a)
<1> DEFINE K(k) == KindOrder(k)
<1>1. /\ K("ep") = 1 /\ K("file") = 2 /\ K("sym") = 3
  BY DEF KindOrder
<1>2. \A a \in Keys : /\ a[1] \in {"sym", "ep", "file"} /\ a[2] \in Nat
                      /\ a = <<a[1], a[2]>>
  BY DEF Keys
<1>3. \A a, b \in Keys : a[1] = b[1] /\ a[2] = b[2] => a = b
  BY <1>2, Zenon
<1>4. \A a, b \in Keys : a[1] = b[1] <=> K(a[1]) = K(b[1])
  BY <1>1, <1>2
<1>5. \A a \in Keys : K(a[1]) \in Nat
  BY <1>1, <1>2
<1>6. \A a, b : KeyBefore(a, b) <=> K(a[1]) < K(b[1]) \/ (a[1] = b[1] /\ a[2] < b[2])
  BY DEF KeyBefore
<1> HIDE DEF K
<1>7. \A a \in Keys : ~KeyBefore(a, a)
  BY <1>2, <1>5, <1>6
<1>8. \A a, b, c \in Keys : KeyBefore(a, b) /\ KeyBefore(b, c) => KeyBefore(a, c)
  BY <1>2, <1>4, <1>5, <1>6
<1>9. \A a, b \in Keys : a = b \/ KeyBefore(a, b) \/ KeyBefore(b, a)
  BY <1>2, <1>3, <1>4, <1>5, <1>6
<1> QED
  BY <1>7, <1>8, <1>9, Zenon

Weight(g, k) == IF k[1] = "sym" THEN Centrality(g, k[2]) ELSE 0

\* The orders in which a payload is cut.
NodeOrder(g, E, N) ==
  {p \in N \X N :
     \/ p[1] \in Headline(E, N) /\ p[2] \notin Headline(E, N)
     \/ /\ p[1] \in Headline(E, N) <=> p[2] \in Headline(E, N)
        /\ \/ Weight(g, p[1]) > Weight(g, p[2])
           \/ Weight(g, p[1]) = Weight(g, p[2]) /\ KeyBefore(p[1], p[2])}

EdgeOrder(E) ==
  {p \in E \X E :
     \/ Priority(p[1].etype) < Priority(p[2].etype)
     \/ /\ Priority(p[1].etype) = Priority(p[2].etype)
        /\ \/ TypeName(p[1].etype) < TypeName(p[2].etype)
           \/ /\ p[1].etype = p[2].etype
              /\ \/ KeyBefore(p[1].source, p[2].source)
                 \/ p[1].source = p[2].source /\ KeyBefore(p[1].target, p[2].target)}

LEMMA NodesAreCut ==
  ASSUME NEW g, NEW E, NEW N, NEW n
  PROVE  CapNodes(g, E, N, n) = Firsts(N, NodeOrder(g, E, N), n)
<1> DEFINE heads == Headline(E, N)
           before(a, b) == \/ a \in heads /\ b \notin heads
                           \/ /\ a \in heads <=> b \in heads
                              /\ \/ Weight(g, a) > Weight(g, b)
                                 \/ Weight(g, a) = Weight(g, b) /\ KeyBefore(a, b)
<1>1. \A a, b \in N : <<a, b>> \in NodeOrder(g, E, N) <=> before(a, b)
  BY DEF NodeOrder
<1>2. CapNodes(g, E, N, n) = {x \in N : Cardinality({y \in N : before(y, x)}) < n}
  BY Zenon DEF CapNodes, FirstOf, Weight
<1> HIDE DEF before
<1>3. \A x \in N : {y \in N : before(y, x)} = Below(N, NodeOrder(g, E, N), x)
  BY <1>1, Zenon DEF Below
<1> QED
  BY <1>2, <1>3, Zenon DEF Firsts

LEMMA EdgesAreCut ==
  ASSUME NEW E, NEW n
  PROVE  CapEdges(E, n) = Firsts(E, EdgeOrder(E), n)
<1> DEFINE before(a, b) ==
             \/ Priority(a.etype) < Priority(b.etype)
             \/ /\ Priority(a.etype) = Priority(b.etype)
                /\ \/ TypeName(a.etype) < TypeName(b.etype)
                   \/ /\ a.etype = b.etype
                      /\ \/ KeyBefore(a.source, b.source)
                         \/ a.source = b.source /\ KeyBefore(a.target, b.target)
<1>1. \A a, b \in E : <<a, b>> \in EdgeOrder(E) <=> before(a, b)
  BY DEF EdgeOrder
<1>2. CapEdges(E, n) = {x \in E : Cardinality({y \in E : before(y, x)}) < n}
  BY Zenon DEF CapEdges, FirstOf
<1> HIDE DEF before
<1>3. \A x \in E : {y \in E : before(y, x)} = Below(E, EdgeOrder(E), x)
  BY <1>1, Zenon DEF Below
<1> QED
  BY <1>2, <1>3, Zenon DEF Firsts

LEMMA NodesAreOrdered ==
  ASSUME NEW g, GraphOK(g), NEW E, NEW N, N \subseteq Keys
  PROVE  Strict(N, NodeOrder(g, E, N)) /\ Total(N, NodeOrder(g, E, N))
<1> DEFINE heads == Headline(E, N)
           W(k) == Weight(g, k)
           B == NodeOrder(g, E, N)
<1>1. \A a, b \in N : <<a, b>> \in B <=> \/ a \in heads /\ b \notin heads
                                         \/ /\ a \in heads <=> b \in heads
                                            /\ \/ W(a) > W(b)
                                               \/ W(a) = W(b) /\ KeyBefore(a, b)
  BY DEF NodeOrder
<1>2. \A k : W(k) \in Nat
  <2>1. IsFiniteSet(g["CALLS"])
    BY DEF GraphOK, AllTypes, DefaultTypes, SymbolSymbol
  <2>2. \A s : Cardinality({e \in g["CALLS"] : e.to = s}) \in Nat
    BY <2>1, FS_Subset, FS_CardinalityType
  <2> QED
    BY <2>2 DEF Weight, Centrality
<1> HIDE DEF W, B, heads
<1>3. \A x \in N : <<x, x>> \notin B
  BY <1>1, <1>2, KeysAreOrdered
<1>4. ASSUME NEW x \in N, NEW y \in N, NEW z \in N, <<x, y>> \in B, <<y, z>> \in B
      PROVE  <<x, z>> \in B
  <2>1. KeyBefore(x, y) /\ KeyBefore(y, z) => KeyBefore(x, z)
    BY KeysAreOrdered
  <2>2. W(x) \in Nat /\ W(y) \in Nat /\ W(z) \in Nat
    BY <1>2
  <2> QED
    BY <1>1, <1>4, <2>1, <2>2
<1>5. ASSUME NEW x \in N, NEW y \in N
      PROVE  x = y \/ <<x, y>> \in B \/ <<y, x>> \in B
  <2>1. x = y \/ KeyBefore(x, y) \/ KeyBefore(y, x)
    BY KeysAreOrdered
  <2>2. W(x) \in Nat /\ W(y) \in Nat
    BY <1>2
  <2> QED
    BY <1>1, <2>1, <2>2
<1> QED
  BY <1>3, <1>4, <1>5, Zenon DEF B, Strict, Total

\* Edges of a type between two nodes are told apart by nothing else.
OneOfAKind(E) ==
  \A e, f \in E : e.etype = f.etype /\ e.source = f.source /\ e.target = f.target => e = f

LEMMA EdgesAreOrdered ==
  ASSUME NEW E, \A e \in E : DrawnEdge(e), OneOfAKind(E)
  PROVE  Strict(E, EdgeOrder(E)) /\ Total(E, EdgeOrder(E))
<1> DEFINE P(e) == Priority(e.etype)
           T(e) == TypeName(e.etype)
           B == EdgeOrder(E)
<1>1. \A a, b \in E : <<a, b>> \in B <=>
        \/ P(a) < P(b)
        \/ /\ P(a) = P(b)
           /\ \/ T(a) < T(b)
              \/ /\ a.etype = b.etype
                 /\ \/ KeyBefore(a.source, b.source)
                    \/ a.source = b.source /\ KeyBefore(a.target, b.target)
  BY DEF EdgeOrder
<1>2. \A e \in E : P(e) \in Nat /\ T(e) \in Nat /\ e.source \in Keys /\ e.target \in Keys
  BY DEF DrawnEdge, Priority, TypeName, AllTypes, DefaultTypes, SymbolSymbol, SymbolEndpoint
<1>3. \A a, b \in E : a.etype = b.etype <=> T(a) = T(b)
  BY DEF DrawnEdge, TypeName, AllTypes, DefaultTypes, SymbolSymbol, SymbolEndpoint
<1>4. \A a, b \in E : a.etype = b.etype => P(a) = P(b)
  OBVIOUS
<1> HIDE DEF P, T, B
<1>5. \A x \in E : <<x, x>> \notin B
  BY <1>1, <1>2, KeysAreOrdered
<1>6. ASSUME NEW x \in E, NEW y \in E, NEW z \in E, <<x, y>> \in B, <<y, z>> \in B
      PROVE  <<x, z>> \in B
  <2>1. /\ KeyBefore(x.source, y.source) /\ KeyBefore(y.source, z.source) => KeyBefore(x.source, z.source)
        /\ KeyBefore(x.target, y.target) /\ KeyBefore(y.target, z.target) => KeyBefore(x.target, z.target)
    BY <1>2, KeysAreOrdered
  <2>2. /\ P(x) \in Nat /\ P(y) \in Nat /\ P(z) \in Nat
        /\ T(x) \in Nat /\ T(y) \in Nat /\ T(z) \in Nat
    BY <1>2
  <2>3. /\ x.etype = y.etype <=> T(x) = T(y)
        /\ y.etype = z.etype <=> T(y) = T(z)
        /\ x.etype = z.etype <=> T(x) = T(z)
    BY <1>3
  <2> QED
    BY <1>1, <1>6, <2>1, <2>2, <2>3
<1>7. ASSUME NEW x \in E, NEW y \in E
      PROVE  x = y \/ <<x, y>> \in B \/ <<y, x>> \in B
  <2>1. /\ x.source = y.source \/ KeyBefore(x.source, y.source) \/ KeyBefore(y.source, x.source)
        /\ x.target = y.target \/ KeyBefore(x.target, y.target) \/ KeyBefore(y.target, x.target)
    BY <1>2, KeysAreOrdered
  <2>2. x.etype = y.etype /\ x.source = y.source /\ x.target = y.target => x = y
    BY DEF OneOfAKind
  <2>3. P(x) \in Nat /\ P(y) \in Nat /\ T(x) \in Nat /\ T(y) \in Nat
    BY <1>2
  <2>4. x.etype = y.etype <=> T(x) = T(y)
    BY <1>3
  <2> QED
    BY <1>1, <2>1, <2>2, <2>3, <2>4
<1> QED
  BY <1>5, <1>6, <1>7, Zenon DEF B, Strict, Total

LEMMA EligibleFacts ==
  ASSUME NEW g, GraphOK(g), NEW E, IsFiniteSet(E), \A e \in E : DrawnEdge(e), NEW kept
  PROVE  /\ Eligible(g, E, kept) \subseteq {e \in E : e.source \in kept /\ e.target \in kept}
         /\ IsFiniteSet(Eligible(g, E, kept))
         /\ OneOfAKind(Eligible(g, E, kept))
         /\ \A e \in E : e.source \in kept /\ e.target \in kept =>
              \E f \in Eligible(g, E, kept) :
                f.etype = e.etype /\ f.source = e.source /\ f.target = e.target
<1> DEFINE inside == {e \in E : e.source \in kept /\ e.target \in kept}
           same(e) == {x \in inside : x.etype = e.etype /\ x.source = e.source /\ x.target = e.target}
           some == {First(same(e)) : e \in inside}
<1>1. Eligible(g, E, kept) = some
  BY Zenon DEF Eligible
<1>2. ASSUME NEW e \in inside
      PROVE  First(same(e)) \in same(e)
  <2>1. e \in same(e)
    OBVIOUS
  <2>2. \A x \in same(e) : x.row \in Nat
    BY DEF DrawnEdge
  <2> HIDE DEF same
  <2> QED
    BY <2>1, <2>2, FirstIsOne
<1>3. some \subseteq inside
  BY <1>2
<1>4. some \in SUBSET E
  BY <1>3
<1>5. IsFiniteSet(some)
  BY <1>4, FS_Subset, Zenon
<1>7. OneOfAKind(some)
  <2>1. SUFFICES ASSUME NEW a \in some, NEW b \in some,
                        a.etype = b.etype, a.source = b.source, a.target = b.target
                 PROVE  a = b
    BY DEF OneOfAKind
  <2>2. PICK e \in inside : a = First(same(e))
    OBVIOUS
  <2>3. PICK f \in inside : b = First(same(f))
    OBVIOUS
  <2>4. a \in same(e) /\ b \in same(f)
    BY <1>2, <2>2, <2>3
  <2>5. same(e) = same(f)
    BY <2>1, <2>4
  <2> QED
    BY <2>2, <2>3, <2>5, Zenon
<1>8. ASSUME NEW e \in inside
      PROVE  \E f \in some : f.etype = e.etype /\ f.source = e.source /\ f.target = e.target
  <2> DEFINE f == First(same(e))
  <2>1. f \in some
    BY Zenon
  <2>2. f \in same(e)
    BY <1>2
  <2>3. f.etype = e.etype /\ f.source = e.source /\ f.target = e.target
    BY <2>2, Zenon
  <2> HIDE DEF f, some
  <2> QED
    BY <2>1, <2>3
<1> QED
  BY <1>1, <1>3, <1>5, <1>7, <1>8, Zenon

\* What the view shows is what it has chosen.
Chosen(g, r)  == {k \in Ends(Candidates(g, r)) : Admitted(r, k)}
Kept(g, r)    == CapNodes(g, Candidates(g, r), Chosen(g, r), Nodes(r))
Between(g, r) == Eligible(g, Candidates(g, r), Kept(g, r))

Question(r) == r.maxNodes \in Int /\ r.maxEdges \in Int

LEMMA PayloadParts ==
  ASSUME NEW g, GraphOK(g), NEW r, Question(r)
  PROVE  LET p == Payload(g, r)
             B == NodeOrder(g, Candidates(g, r), Chosen(g, r))
         IN /\ Nodes(r) \in Nat /\ EdgesMost(r) \in Nat
            /\ p.nodes = Kept(g, r) /\ Kept(g, r) = Firsts(Chosen(g, r), B, Nodes(r))
            /\ IsFiniteSet(Chosen(g, r)) /\ Strict(Chosen(g, r), B) /\ Total(Chosen(g, r), B)
            /\ Kept(g, r) \subseteq Chosen(g, r)
            /\ IsFiniteSet(Between(g, r)) /\ OneOfAKind(Between(g, r))
            /\ Between(g, r) \subseteq {e \in Candidates(g, r) : e.source \in Kept(g, r) /\ e.target \in Kept(g, r)}
            /\ p.edges \subseteq Between(g, r)
            /\ Cardinality(p.edges) <= EdgesMost(r)
            /\ p.truncated <=> \/ Cardinality(Kept(g, r)) < Cardinality(Chosen(g, r))
                               \/ Cardinality(Between(g, r)) > Cardinality(p.edges)
<1> DEFINE p == Payload(g, r)
           E == Candidates(g, r)
           N == Chosen(g, r)
           B == NodeOrder(g, E, N)
           C == EdgeOrder(Between(g, r))
<1>1. Nodes(r) \in Nat /\ EdgesMost(r) \in Nat
  BY DEF Question, Nodes, EdgesMost, AtLeast
<1>2. IsFiniteSet(E) /\ \A e \in E : DrawnEdge(e)
  BY CandidatesAreDrawn, Zenon
<1>3. IsFiniteSet(Ends(E)) /\ Ends(E) \subseteq Keys
  BY <1>2, EndsAreFinite, Zenon
<1>4. N \in SUBSET Ends(E)
  BY DEF Chosen
<1>5. IsFiniteSet(N) /\ N \subseteq Keys
  BY <1>3, <1>4, FS_Subset, Zenon
<1>6. Strict(N, B) /\ Total(N, B)
  BY <1>5, NodesAreOrdered, Zenon
<1>7. Kept(g, r) = Firsts(N, B, Nodes(r))
  BY NodesAreCut, Zenon DEF Kept
<1>8. Kept(g, r) \subseteq N
  BY <1>7 DEF Firsts
<1>9. /\ Between(g, r) \subseteq {e \in E : e.source \in Kept(g, r) /\ e.target \in Kept(g, r)}
      /\ IsFiniteSet(Between(g, r)) /\ OneOfAKind(Between(g, r))
  BY <1>2, EligibleFacts, Zenon DEF Between
<1>10. /\ p.nodes = Kept(g, r)
       /\ p.edges = CapEdges(Between(g, r), EdgesMost(r))
       /\ p.truncated <=> \/ Cardinality(Kept(g, r)) < Cardinality(Chosen(g, r))
                          \/ Cardinality(Between(g, r)) > Cardinality(CapEdges(Between(g, r), EdgesMost(r)))
  BY DEF Payload, Kept, Chosen, Between
<1>11. p.edges = Firsts(Between(g, r), C, EdgesMost(r))
  BY <1>10, EdgesAreCut, Zenon
<1>12. \A e \in Between(g, r) : DrawnEdge(e)
  BY <1>2, <1>9
<1>13. Strict(Between(g, r), C) /\ Total(Between(g, r), C)
  BY <1>9, <1>12, EdgesAreOrdered, Zenon
<1>14. Cardinality(Firsts(Between(g, r), C, EdgesMost(r))) <= EdgesMost(r)
  BY <1>1, <1>9, <1>13, FirstsAreFew, Zenon
<1>15. p.edges \subseteq Between(g, r) /\ Cardinality(p.edges) <= EdgesMost(r)
  <2>1. Firsts(Between(g, r), C, EdgesMost(r)) \subseteq Between(g, r)
    BY DEF Firsts
  <2> HIDE DEF C, p
  <2> QED
    BY <1>11, <1>14, <2>1, Zenon
<1>16. p.truncated <=> \/ Cardinality(Kept(g, r)) < Cardinality(Chosen(g, r))
                       \/ Cardinality(Between(g, r)) > Cardinality(p.edges)
  BY <1>10, Zenon
<1> HIDE DEF p
<1> QED
  BY <1>1, <1>5, <1>6, <1>7, <1>8, <1>9, <1>10, <1>15, <1>16, Zenon DEF p

Heads(g, r) ==
  {k \in UNION {{Sym(e.from), Sym(e.to)} : e \in {e \in g["ROUTES_TO"] : Passes(e.conf, r.min)}} : Admitted(r, k)}

\* With routes asked for, their ends are what goes first, endpoints aside.
LEMMA RoutesGoFirst ==
  ASSUME NEW g, GraphOK(g), NEW r, Question(r), "ROUTES_TO" \in Requested(r.types)
  PROVE  \/ Heads(g, r) \subseteq Kept(g, r)
         \/ \A k \in Kept(g, r) : k[1] = "ep" \/ k \in Heads(g, r)
<1> DEFINE E == Candidates(g, r)
           N == Chosen(g, r)
           B == NodeOrder(g, E, N)
           ends == Ends({e \in E : e.etype = "ROUTES_TO"})
<1>1. ASSUME NEW h \in Heads(g, r)
      PROVE  h \in N /\ h \in ends
  <2>1. PICK x \in g["ROUTES_TO"] : Passes(x.conf, r.min) /\ h \in {Sym(x.from), Sym(x.to)}
    BY DEF Heads
  <2>2. Admitted(r, h)
    BY DEF Heads
  <2>3. Edge("ROUTES_TO", Sym(x.from), Sym(x.to), x) \in E
    BY <2>1, RoutesAreCandidates, Zenon
  <2>4. PICK e \in E : e.etype = "ROUTES_TO" /\ h \in {e.source, e.target}
    BY <2>1, <2>3 DEF Edge
  <2>5. h \in ends /\ h \in Ends(E)
    BY <2>4 DEF Ends
  <2> QED
    BY <2>2, <2>5 DEF Chosen
<1>2. ASSUME NEW k \in N, k \in ends
      PROVE  k \in Heads(g, r)
  <2>1. PICK e \in E : e.etype = "ROUTES_TO" /\ k \in {e.source, e.target}
    BY <1>2 DEF Ends
  <2>2. PICK t \in Requested(r.types) : \E x \in g[t] : e = Drawn(t, x) /\ Passes(x.conf, r.min)
    BY CandidatesFrom, Zenon
  <2>5. PICK x \in g[t] : e = Drawn(t, x) /\ Passes(x.conf, r.min)
    BY <2>2
  <2>3. t = "ROUTES_TO" /\ k \in {Sym(x.from), Sym(x.to)}
    BY <2>1, <2>5 DEF Drawn, Edge, SourceKey, TargetKey, SymbolEndpoint
  <2>4. Admitted(r, k)
    BY DEF Chosen
  <2> QED
    BY <2>5, <2>3, <2>4 DEF Heads
<1>3. ASSUME NEW h \in Heads(g, r), h \notin Kept(g, r),
             NEW k \in Kept(g, r), k[1] # "ep", k \notin Heads(g, r)
      PROVE  FALSE
  <2>1. k \in N /\ Cardinality(Below(N, B, k)) < Nodes(r)
    BY PayloadParts, Zenon DEF Firsts
  <2>2. h \in N /\ ~(Cardinality(Below(N, B, h)) < Nodes(r))
    <3>1. Kept(g, r) = Firsts(N, B, Nodes(r))
      BY PayloadParts, Zenon
    <3> QED
      BY <1>1, <1>3, <3>1 DEF Firsts
  <2>3. h \in Headline(E, N) /\ k \notin Headline(E, N)
    BY <1>1, <1>2, <1>3, <2>1 DEF Headline
  <2>4. <<h, k>> \in B
    BY <2>1, <2>2, <2>3 DEF NodeOrder
  <2>5. IsFiniteSet(N) /\ Strict(N, B)
    BY PayloadParts, Zenon
  <2>6. Cardinality(Below(N, B, h)) < Cardinality(Below(N, B, k))
    BY <2>1, <2>2, <2>4, <2>5, FewerBelow, Zenon
  <2>7. Cardinality(Below(N, B, h)) \in Nat /\ Cardinality(Below(N, B, k)) \in Nat
    BY <2>1, <2>2, <2>5, BelowFacts, Zenon
  <2>8. Nodes(r) \in Nat
    BY PayloadParts, Zenon
  <2> QED
    BY <2>1, <2>2, <2>6, <2>7, <2>8
<1> QED
  BY <1>3, Zenon

\* The invariant, of one payload.
Sound(g, r, p) ==
  /\ Cardinality(p.nodes) <= Nodes(r) /\ Cardinality(p.edges) <= EdgesMost(r)
  /\ \A k \in p.nodes : Admitted(r, k)
  /\ \A e \in p.edges :
       /\ e.source \in p.nodes /\ e.target \in p.nodes
       /\ e.etype \in Requested(r.types) /\ Passes(e.conf, r.min)
       /\ \A f \in p.edges :
           e.etype = f.etype /\ e.source = f.source /\ e.target = f.target => e = f
  /\ "ROUTES_TO" \in Requested(r.types) =>
       Heads(g, r) \subseteq p.nodes \/ \A k \in p.nodes : k[1] = "ep" \/ k \in Heads(g, r)

LEMMA PayloadSound ==
  ASSUME NEW g, GraphOK(g), NEW r, Question(r)
  PROVE  Sound(g, r, Payload(g, r))
<1> DEFINE p == Payload(g, r)
<1>1. /\ p.nodes = Kept(g, r) /\ Kept(g, r) \subseteq Chosen(g, r)
      /\ p.edges \subseteq {e \in Candidates(g, r) : e.source \in Kept(g, r) /\ e.target \in Kept(g, r)}
      /\ Cardinality(p.edges) <= EdgesMost(r)
      /\ p.edges \subseteq Between(g, r) /\ OneOfAKind(Between(g, r))
  BY PayloadParts, Zenon
<1>2. Cardinality(p.nodes) <= Nodes(r)
  BY PayloadParts, FirstsAreFew, Zenon
<1>3. \A k \in Kept(g, r) : Admitted(r, k)
  BY <1>1 DEF Chosen
<1>4. \A e \in Candidates(g, r) : e.etype \in Requested(r.types) /\ Passes(e.conf, r.min)
  BY CandidatesAreDrawn, Zenon
<1>5. "ROUTES_TO" \in Requested(r.types) =>
        Heads(g, r) \subseteq Kept(g, r) \/ \A k \in Kept(g, r) : k[1] = "ep" \/ k \in Heads(g, r)
  BY RoutesGoFirst, Zenon
<1> HIDE DEF p
<1>6. \A e \in p.edges : \A f \in p.edges :
        e.etype = f.etype /\ e.source = f.source /\ e.target = f.target => e = f
  BY <1>1 DEF OneOfAKind
<1>7. \A e \in p.edges : /\ e.source \in p.nodes /\ e.target \in p.nodes
                         /\ e.etype \in Requested(r.types) /\ Passes(e.conf, r.min)
  BY <1>1, <1>4
<1>8. Sound(g, r, p)
  BY <1>1, <1>2, <1>3, <1>5, <1>6, <1>7, Zenon DEF Sound
<1> QED
  BY <1>8 DEF p

\* A view is answered with the payload of the graph it was asked of.
Viewed == pc = "done" /\ ask.tool = "payload" => answer = {Payload(graph, ask)}

LEMMA ViewedAlways == SpecQuery => []Viewed
<1>1. Init => Viewed
  BY DEF Init, Viewed
<1>2. ASSUME Asked, Viewed, [NextQuery]_vars
      PROVE  Viewed'
  <2>1. CASE View
    <3>1. answer' = {Payload(graph, ask)} /\ graph' = graph /\ ask' = ask
      BY <2>1, Zenon DEF View, Answer
    <3> QED
      BY <3>1, Zenon DEF Viewed
  <2>2. CASE Find \/ Draw
    BY <2>2 DEF Find, Draw, Answer, Viewed
  <2>3. CASE Next
    <3>1. ask' = ask
      BY <2>3, Zenon DEF Next, Refuse, Resolve, ImpactHop, ImpactDone, Context, FlowEnter, FlowPop, FlowLeave,
         FlowDone, TraceChain, TailHop, TailDone, TraceUpstream, TraceDone
    <3>2. pc' = "done" => ask.tool # "payload"
      BY <1>2, <2>3 DEF Asked, Stops, Walkers, Next, Refuse, Resolve, ImpactHop, ImpactDone, Context, FlowEnter, FlowPop, FlowLeave,
         FlowDone, TraceChain, TailHop, TailDone, TraceUpstream, TraceDone
    <3> QED
      BY <3>1, <3>2 DEF Viewed
  <2>4. CASE UNCHANGED vars
    BY <1>2, <2>4, Zenon DEF Viewed, vars
  <2> QED
    BY <1>2, <2>1, <2>2, <2>3, <2>4 DEF NextQuery
<1> QED
  BY <1>1, <1>2, AskedAlways, PTL DEF SpecQuery

LEMMA ViewedGraph ==
  ASSUME Asked, ask.tool = "payload"
  PROVE  GraphOK(graph) /\ Question(ask)
<1>1. PICK c \in Cases : graph = c.graph /\ ask = c.ask
  BY DEF Asked
<1>2. GraphOK(c.graph)
  BY ViewsAssumption, CasesAssumption, Zenon DEF GraphOK
<1>3. c.ask.maxNodes \in Int /\ c.ask.maxEdges \in Int
  BY <1>1, ViewsAssumption, Zenon
<1> QED
  BY <1>1, <1>2, <1>3, Zenon DEF Question

\* The payload of a view stays within its caps and names only nodes it has, whatever
\* the graph and the caps: a route is left out only when nothing but endpoints and
\* ends of routes is shown.
THEOREM PayloadIsAlwaysSound == SpecQuery => []PayloadIsSound
<1>1. ASSUME Asked, Viewed
      PROVE  PayloadIsSound
  <2>1. SUFFICES ASSUME Answered("payload"), NEW p \in answer
                 PROVE  Sound(graph, ask, p)
    BY Zenon DEF PayloadIsSound, Sound, Heads
  <2>2. p = Payload(graph, ask) /\ ask.tool = "payload"
    BY <1>1, <2>1 DEF Viewed, Answered
  <2>3. Sound(graph, ask, Payload(graph, ask))
    BY <1>1, <2>2, ViewedGraph, PayloadSound, Zenon
  <2> QED
    BY <2>2, <2>3, Zenon
<1> QED
  BY <1>1, AskedAlways, ViewedAlways, PTL

LEMMA FirstOfAll ==
  ASSUME NEW S, IsFiniteSet(S), NEW n \in Nat, Cardinality(S) <= n, S \subseteq Nat
  PROVE  FirstOf(S, <, n) = S
<1> DEFINE B == {p \in S \X S : p[1] < p[2]}
<1>1. \A x \in S : <<x, x>> \notin B
  OBVIOUS
<1>2. \A x \in S : {y \in S : y < x} = Below(S, B, x)
  BY DEF Below
<1>3. FirstOf(S, <, n) = {x \in S : Cardinality({y \in S : y < x}) < n}
  BY Zenon DEF FirstOf
<1> HIDE DEF B
<1>4. FirstOf(S, <, n) = Firsts(S, B, n)
  BY <1>2, <1>3, Zenon DEF Firsts
<1> QED
  BY <1>1, <1>4, FirstsAreAll, Zenon

\* With room for every symbol the seed has them all.
LEMMA SeedHasAll ==
  ASSUME NEW g, NEW r, Question(r), Cardinality(Symbols) <= Nodes(r)
  PROVE  Symbols \subseteq Seed(g, r)
<1> DEFINE n == Nodes(r)
           called == {s \in Symbols : Centrality(g, s) > 0}
           top == FirstOf(called, LAMBDA a, b :
                            \/ Centrality(g, a) > Centrality(g, b)
                            \/ Centrality(g, a) = Centrality(g, b) /\ a < b, n)
           listed == FirstOf(Symbols, <, n * 2)
           rest == Symbols \ top
           fill == FirstOf(listed \ top, <, n - Cardinality(top))
<1>1. n \in Nat
  BY DEF Question, Nodes, AtLeast
<1>2. IsFiniteSet(Symbols) /\ Symbols \subseteq Nat /\ Cardinality(Symbols) \in Nat
  BY GraphAssumption, FS_CardinalityType
<1>3. top \subseteq Symbols
  BY DEF FirstOf
<1>4. top \union fill \subseteq Seed(g, r)
  BY DEF Seed
<1> HIDE DEF top, n
<1>5. n * 2 \in Nat /\ Cardinality(Symbols) <= n * 2
  BY <1>1, <1>2 DEF n
<1>6. listed = Symbols
  BY <1>2, <1>5, FirstOfAll, Zenon
<1>7. IsFiniteSet(top) /\ IsFiniteSet(rest)
  BY <1>2, <1>3, FS_Subset
<1>8. Cardinality(top) \in Nat /\ Cardinality(rest) \in Nat
  BY <1>7, FS_CardinalityType
<1>9. Cardinality(Symbols) = Cardinality(top) + Cardinality(rest)
  <2>1. top \union rest = Symbols /\ top \intersect rest = {}
    BY <1>3
  <2>2. Cardinality(top \union rest) = Cardinality(top) + Cardinality(rest) - Cardinality(top \intersect rest)
    BY <1>7, FS_Union, Zenon
  <2>3. Cardinality({}) = 0
    BY FS_EmptySet
  <2> HIDE DEF rest
  <2>4. Cardinality(Symbols) = Cardinality(top) + Cardinality(rest) - Cardinality({})
    BY <2>1, <2>2, Zenon
  <2> QED
    BY <1>8, <2>3, <2>4
<1>10. n - Cardinality(top) \in Nat /\ Cardinality(rest) <= n - Cardinality(top)
  BY <1>1, <1>2, <1>8, <1>9 DEF n
<1>11. rest \subseteq Nat
  BY <1>2
<1>12. FirstOf(rest, <, n - Cardinality(top)) = rest
  BY <1>7, <1>10, <1>11, FirstOfAll, Zenon
<1>13. fill = rest
  BY <1>6, <1>12, Zenon
<1> HIDE DEF fill, listed
<1> QED
  BY <1>3, <1>4, <1>13

\* With no more co-changes than are taken, every sure one is.
LEMMA CoChangesAreAll ==
  ASSUME NEW g, GraphOK(g), NEW m, Cardinality(g["CO_CHANGES_WITH"]) <= CoChangeCap
  PROVE  CoChangeEdges(g, m) = {Drawn("CO_CHANGES_WITH", e) : e \in {x \in g["CO_CHANGES_WITH"] : Passes(x.conf, m)}}
<1> DEFINE S == g["CO_CHANGES_WITH"]
           often(a, b) == \/ a.frequency > b.frequency
                          \/ a.frequency = b.frequency /\ a.from < b.from
                          \/ a.frequency = b.frequency /\ a.from = b.from /\ a.to < b.to
           rows == FirstOf(S, often, CoChangeCap * 2)
           sure == {e \in rows : Passes(e.conf, m)}
<1>1. IsFiniteSet(S) /\ Cardinality(S) \in Nat
  BY FS_CardinalityType DEF GraphOK, AllTypes
<1>2. \A e \in S : e.from \in Nat /\ e.to \in Nat /\ e.frequency \in Nat
  BY DEF GraphOK
<1>3. ASSUME NEW T \in SUBSET S, NEW n \in Nat, Cardinality(T) <= n
      PROVE  FirstOf(T, often, n) = T
  <2> DEFINE B == {p \in T \X T : often(p[1], p[2])}
  <2>1. \A x \in T : <<x, x>> \notin B
    BY <1>2
  <2>2. FirstOf(T, often, n) = {x \in T : Cardinality({y \in T : often(y, x)}) < n}
    BY Zenon DEF FirstOf
  <2> HIDE DEF often
  <2>3. \A x \in T : {y \in T : often(y, x)} = Below(T, B, x)
    BY DEF Below
  <2> HIDE DEF B
  <2>4. FirstOf(T, often, n) = Firsts(T, B, n)
    BY <2>2, <2>3, Zenon DEF Firsts
  <2>5. IsFiniteSet(T)
    BY <1>1, FS_Subset
  <2> QED
    BY <1>3, <2>1, <2>4, <2>5, FirstsAreAll, Zenon
<1>4. CoChangeCap \in Nat /\ CoChangeCap * 2 \in Nat /\ Cardinality(S) <= CoChangeCap * 2
  BY <1>1, ViewsAssumption
<1>5. CoChangeEdges(g, m) = {Edge("CO_CHANGES_WITH", File(e.from), File(e.to), e) : e \in FirstOf(sure, often, CoChangeCap)}
  BY Zenon DEF CoChangeEdges
<1>6. \A e : Drawn("CO_CHANGES_WITH", e) = Edge("CO_CHANGES_WITH", File(e.from), File(e.to), e)
  BY DEF Drawn, SourceKey, TargetKey
<1> HIDE DEF often
<1>7. rows = S
  BY <1>3, <1>4, Zenon
<1> HIDE DEF rows
<1>8. sure = {x \in S : Passes(x.conf, m)}
  BY <1>7, Zenon
<1>9. sure \in SUBSET S
  BY <1>8
<1>10. Cardinality(sure) <= CoChangeCap
  <2>1. Cardinality(sure) <= Cardinality(S) /\ IsFiniteSet(sure)
    BY <1>1, <1>9, FS_Subset, Zenon
  <2>2. Cardinality(sure) \in Nat
    BY <2>1, FS_CardinalityType, Zenon
  <2> QED
    BY <1>1, <1>4, <2>1, <2>2
<1> HIDE DEF sure, S
<1>11. FirstOf(sure, often, CoChangeCap) = sure
  BY <1>3, <1>4, <1>9, <1>10, Zenon
<1>12. CoChangeEdges(g, m) = {Edge("CO_CHANGES_WITH", File(e.from), File(e.to), e) : e \in sure}
  BY <1>5, <1>11, Zenon
<1> QED
  BY <1>6, <1>8, <1>12, Zenon DEF S

LEMMA PassingAreCandidates ==
  ASSUME NEW g, GraphOK(g), NEW r, Question(r), Cardinality(Symbols) <= Nodes(r),
         Cardinality(g["CO_CHANGES_WITH"]) <= CoChangeCap,
         NEW t \in Requested(r.types), NEW e \in g[t], Passes(e.conf, r.min)
  PROVE  Drawn(t, e) \in Candidates(g, r)
<1> DEFINE seed == Seed(g, r)
<1>1. Symbols \subseteq seed
  BY SeedHasAll, Zenon
<1>2. t \in AllTypes
  BY DEF Requested, AllTypes
<1>3. Drawn(t, e).conf = e.conf
  BY DEF Drawn, Edge
<1>4. CASE t \in SymbolSymbol
  <2>1. g[t] \subseteq Edges(Symbols, Symbols)
    BY <1>4 DEF GraphOK
  <2>2. e.from \in seed /\ e.to \in seed
    BY <1>1, <2>1 DEF Edges
  <2>3. Drawn(t, e) = Edge(t, Sym(e.from), Sym(e.to), e)
    BY <1>4 DEF Drawn, SourceKey, TargetKey, SymbolSymbol, SymbolEndpoint
  <2>4. Drawn(t, e) \in SymbolEdges(g, t, seed)
    BY <2>2, <2>3 DEF SymbolEdges
  <2> HIDE DEF seed
  <2> QED
    BY <1>3, <1>4, <2>4, Zenon DEF Candidates, seed
<1>5. CASE t \in SymbolEndpoint
  <2>1. g[t] \subseteq Edges(Symbols, Nat)
    BY <1>5 DEF GraphOK
  <2>2. e.from \in seed
    BY <1>1, <2>1 DEF Edges
  <2>3. Drawn(t, e) = Edge(t, Sym(e.from), Ep(e.to), e)
    BY <1>5 DEF Drawn, SourceKey, TargetKey, SymbolEndpoint
  <2>4. Drawn(t, e) \in EndpointEdges(g, t, seed)
    BY <2>2, <2>3 DEF EndpointEdges
  <2> HIDE DEF seed
  <2> QED
    BY <1>3, <1>5, <2>4, Zenon DEF Candidates, seed
<1>6. CASE t = "CO_CHANGES_WITH"
  <2>1. Drawn(t, e) \in CoChangeEdges(g, r.min)
    BY <1>6, CoChangesAreAll, Zenon
  <2> QED
    BY <1>6, <2>1, Zenon DEF Candidates
<1> QED
  BY <1>2, <1>4, <1>5, <1>6 DEF AllTypes, DefaultTypes

LEMMA UncutHasIt ==
  ASSUME NEW g, GraphOK(g), NEW r, Question(r), Cardinality(Symbols) <= Nodes(r),
         Cardinality(g["CO_CHANGES_WITH"]) <= CoChangeCap, ~Payload(g, r).truncated,
         NEW t \in Requested(r.types), NEW e \in g[t], Passes(e.conf, r.min),
         Admitted(r, SourceKey(t, e.from)), Admitted(r, TargetKey(t, e.to))
  PROVE  \E f \in Payload(g, r).edges :
           f.etype = t /\ f.source = SourceKey(t, e.from) /\ f.target = TargetKey(t, e.to)
<1> DEFINE p == Payload(g, r)
           d == Drawn(t, e)
<1>1. d \in Candidates(g, r)
  BY PassingAreCandidates, Zenon
<1>2. d.etype = t /\ d.source = SourceKey(t, e.from) /\ d.target = TargetKey(t, e.to)
  BY DEF Drawn, Edge
<1> HIDE DEF d
<1>3. d.source \in Chosen(g, r) /\ d.target \in Chosen(g, r)
  BY <1>1, <1>2 DEF Chosen, Ends
<1>4. /\ Kept(g, r) \in SUBSET Chosen(g, r) /\ IsFiniteSet(Chosen(g, r))
      /\ p.edges \in SUBSET Between(g, r) /\ IsFiniteSet(Between(g, r))
      /\ ~(Cardinality(Kept(g, r)) < Cardinality(Chosen(g, r)))
      /\ ~(Cardinality(Between(g, r)) > Cardinality(p.edges))
  BY PayloadParts
<1> HIDE DEF p
<1>5. ASSUME NEW S, IsFiniteSet(S), NEW T \in SUBSET S, ~(Cardinality(T) < Cardinality(S))
      PROVE  T = S
  <2>1. Cardinality(S) \in Nat /\ Cardinality(T) \in Nat /\ Cardinality(T) <= Cardinality(S)
    BY <1>5, FS_Subset, FS_CardinalityType
  <2>2. Cardinality(T) = Cardinality(S)
    BY <1>5, <2>1
  <2> QED
    BY <1>5, <2>2, FS_Subset
<1>6. Kept(g, r) = Chosen(g, r)
  BY <1>4, <1>5, Zenon
<1>7. p.edges = Between(g, r)
  <2>1. ~(Cardinality(p.edges) < Cardinality(Between(g, r)))
    <3>1. IsFiniteSet(p.edges)
      BY <1>4, FS_Subset, Zenon
    <3>2. Cardinality(p.edges) \in Nat /\ Cardinality(Between(g, r)) \in Nat
      BY <1>4, <3>1, FS_CardinalityType, Zenon
    <3> QED
      BY <1>4, <3>2
  <2> QED
    BY <1>4, <1>5, <2>1, Zenon
<1>8. IsFiniteSet(Candidates(g, r)) /\ \A x \in Candidates(g, r) : DrawnEdge(x)
  BY CandidatesAreDrawn, Zenon
<1>9. \E f \in Between(g, r) : f.etype = d.etype /\ f.source = d.source /\ f.target = d.target
  <2>1. \A x \in Candidates(g, r) : x.source \in Kept(g, r) /\ x.target \in Kept(g, r) =>
          \E f \in Between(g, r) : f.etype = x.etype /\ f.source = x.source /\ f.target = x.target
    BY <1>8, EligibleFacts DEF Between
  <2>2. d.source \in Kept(g, r) /\ d.target \in Kept(g, r)
    BY <1>3, <1>6
  <2> QED
    BY <1>1, <2>1, <2>2, Zenon
<1> QED
  BY <1>2, <1>7, <1>9, Zenon DEF p

\* A view that says it was not cut is whole: a graph within the caps is drawn with
\* every edge that passes the filters.
THEOREM UncutIsAlwaysComplete == SpecQuery => []UncutIsComplete
<1>1. ASSUME Asked, Viewed
      PROVE  UncutIsComplete
  <2>1. SUFFICES ASSUME Answered("payload"), \A p \in answer : ~p.truncated, Cardinality(Symbols) <= Nodes(ask),
                        Cardinality(graph["CO_CHANGES_WITH"]) <= CoChangeCap,
                        NEW t \in Requested(ask.types), NEW e \in graph[t], Passes(e.conf, ask.min),
                        Admitted(ask, SourceKey(t, e.from)), Admitted(ask, TargetKey(t, e.to))
                 PROVE  \E p \in answer : \E f \in p.edges :
                          f.etype = t /\ f.source = SourceKey(t, e.from) /\ f.target = TargetKey(t, e.to)
    <3>1. \A u, x : (IF u = "CO_CHANGES_WITH" THEN File(x)
                     ELSE IF FALSE /\ u \in SymbolEndpoint THEN Ep(x) ELSE Sym(x)) = SourceKey(u, x)
      BY DEF SourceKey
    <3>2. \A u, x : (IF u = "CO_CHANGES_WITH" THEN File(x)
                     ELSE IF TRUE /\ u \in SymbolEndpoint THEN Ep(x) ELSE Sym(x)) = TargetKey(u, x)
      BY DEF TargetKey
    <3> QED
      BY <3>1, <3>2 DEF UncutIsComplete
  <2>2. answer = {Payload(graph, ask)} /\ ask.tool = "payload"
    BY <1>1, <2>1 DEF Viewed, Answered
  <2>3. GraphOK(graph) /\ Question(ask)
    BY <1>1, <2>2, ViewedGraph, Zenon
  <2>4. ~Payload(graph, ask).truncated
    BY <2>1, <2>2
  <2>5. \E f \in Payload(graph, ask).edges :
          f.etype = t /\ f.source = SourceKey(t, e.from) /\ f.target = TargetKey(t, e.to)
    BY <2>1, <2>3, <2>4, UncutHasIt
  <2> QED
    BY <2>2, <2>5, Zenon
<1> QED
  BY <1>1, AskedAlways, ViewedAlways, PTL
-----------------------------------------------------------------------------
(* The search. *)

\* A set in an order, as a sequence: each element stands after those below it.
InOrder(s, S, B) ==
  /\ s \in [1..Cardinality(S) -> S]
  /\ \A i \in 1..Cardinality(S) : Cardinality(Below(S, B, s[i])) = i - 1

LEMMA EachPlaceIsTaken ==
  ASSUME NEW S, IsFiniteSet(S), NEW B, Strict(S, B), Total(S, B)
  PROVE  \A i \in 1..Cardinality(S) : \E x \in S : Cardinality(Below(S, B, x)) = i - 1
<1> DEFINE n == Cardinality(S)
           f == [x \in S |-> Cardinality(Below(S, B, x)) + 1]
<1>1. n \in Nat
  BY FS_CardinalityType
<1>2. \A x \in S : Cardinality(Below(S, B, x)) \in Nat /\ Cardinality(Below(S, B, x)) < n
  <2> SUFFICES ASSUME NEW x \in S
               PROVE  Cardinality(Below(S, B, x)) \in Nat /\ Cardinality(Below(S, B, x)) < n
    OBVIOUS
  <2>1. Below(S, B, x) \in SUBSET S /\ x \notin Below(S, B, x)
    BY DEF Below, Strict
  <2>2. /\ Cardinality(Below(S, B, x)) <= n
        /\ n = Cardinality(Below(S, B, x)) => S = Below(S, B, x)
    BY <2>1, FS_Subset
  <2>3. Cardinality(Below(S, B, x)) \in Nat
    BY BelowFacts
  <2> QED
    BY <1>1, <2>1, <2>2, <2>3
<1>3. ASSUME NEW x \in S, NEW z \in S, x # z
      PROVE  f[x] # f[z]
  <2>1. CASE <<x, z>> \in B
    BY <1>2, <2>1, FewerBelow
  <2>2. CASE <<z, x>> \in B
    BY <1>2, <2>2, FewerBelow
  <2> QED
    BY <1>3, <2>1, <2>2 DEF Total
<1>4. f \in [S -> 1..n]
  BY <1>1, <1>2
<1>5. \A x \in S : f[x] = Cardinality(Below(S, B, x)) + 1
  OBVIOUS
<1> HIDE DEF f
<1>6. f \in Injection(S, 1..n)
  BY <1>3, <1>4 DEF Injection, IsInjective
<1>7. IsFiniteSet(1..n) /\ Cardinality(1..n) = n
  BY <1>1, FS_Interval
<1>8. f \in Surjection(S, 1..n)
  BY <1>6, <1>7, FS_Injection
<1>9. \A i \in 1..n : \E x \in S : f[x] = i
  BY <1>8 DEF Surjection
<1> QED
  BY <1>2, <1>5, <1>9

LEMMA OrderedFacts ==
  ASSUME NEW S, IsFiniteSet(S), NEW B, Strict(S, B), Total(S, B), NEW s, InOrder(s, S, B)
  PROVE  /\ s \in Seq(S) /\ Len(s) = Cardinality(S)
         /\ \A x \in S : \E i \in 1..Len(s) : s[i] = x
         /\ \A i, j \in 1..Len(s) : i < j => <<s[i], s[j]>> \in B
<1> DEFINE n == Cardinality(S)
<1>1. n \in Nat
  BY FS_CardinalityType
<1>2. s \in Seq(S) /\ Len(s) = n
  <2>1. s \in [1..n -> S]
    BY DEF InOrder
  <2> HIDE DEF n
  <2> QED
    BY <1>1, <2>1
<1>3. ASSUME NEW i \in 1..n, NEW j \in 1..n, i < j
      PROVE  <<s[i], s[j]>> \in B
  <2>1. s[i] \in S /\ s[j] \in S
    BY DEF InOrder
  <2>2. Cardinality(Below(S, B, s[i])) < Cardinality(Below(S, B, s[j]))
    BY <1>3 DEF InOrder
  <2>3. s[i] # s[j]
    BY <2>2, <1>3 DEF InOrder
  <2>4. <<s[j], s[i]>> \in B => Cardinality(Below(S, B, s[j])) < Cardinality(Below(S, B, s[i]))
    BY <2>1, FewerBelow
  <2>5. Cardinality(Below(S, B, s[i])) \in Nat /\ Cardinality(Below(S, B, s[j])) \in Nat
    BY <2>1, BelowFacts
  <2> QED
    BY <2>1, <2>2, <2>3, <2>4, <2>5 DEF Total
<1>4. ASSUME NEW x \in S
      PROVE  \E i \in 1..n : s[i] = x
  <2> DEFINE f == [i \in 1..n |-> s[i]]
  <2>1. f \in [1..n -> S]
    BY DEF InOrder
  <2>2. \A i, j \in 1..n : i # j => s[i] # s[j]
    <3>1. \A i \in 1..n : <<s[i], s[i]>> \notin B
      BY DEF InOrder, Strict
    <3> SUFFICES ASSUME NEW i \in 1..n, NEW j \in 1..n, i # j
                 PROVE  s[i] # s[j]
      OBVIOUS
    <3>2. CASE i < j
      BY <1>3, <3>1, <3>2
    <3>3. CASE j < i
      BY <1>3, <3>1, <3>3
    <3> QED
      BY <1>1, <3>2, <3>3
  <2>3. f \in Injection(1..n, S)
    BY <2>1, <2>2 DEF Injection, IsInjective
  <2>4. IsFiniteSet(1..n) /\ Cardinality(1..n) = n
    BY <1>1, FS_Interval
  <2>5. f \in Surjection(1..n, S)
    BY <2>3, <2>4, FS_Injection
  <2>6. \E i \in 1..n : f[i] = x
    BY <2>5 DEF Surjection
  <2> QED
    BY <2>6
<1> QED
  BY <1>2, <1>3, <1>4

LEMMA LimitFacts ==
  ASSUME NEW S, NEW s \in Seq(S), NEW n \in Nat
  PROVE  /\ Limit(s, n) \in Seq(S) /\ Len(Limit(s, n)) <= Len(s)
         /\ \A i \in 1..Len(s) : i <= n => i \in 1..Len(Limit(s, n))
         /\ \A i \in 1..Len(Limit(s, n)) : i \in 1..Len(s) /\ Limit(s, n)[i] = s[i]
<1> DEFINE m == IF n < Len(s) THEN n ELSE Len(s)
<1>1. Len(s) \in Nat /\ m \in Nat /\ m <= Len(s)
  BY LenProperties
<1>2. 1 \in Int /\ m \in Int /\ \A i \in 1..m : s[i] \in S
  BY <1>1, ElementOfSeq
<1> HIDE DEF m
<1>3. /\ SubSeq(s, 1, m) \in Seq(S)
      /\ Len(SubSeq(s, 1, m)) = IF 1 <= m THEN m - 1 + 1 ELSE 0
      /\ \A i \in 1..m - 1 + 1 : SubSeq(s, 1, m)[i] = s[1 + i - 1]
  BY <1>2, SubSeqProperties
<1>4. Limit(s, n) = SubSeq(s, 1, m)
  BY Zenon DEF Limit, m
<1>5. Len(SubSeq(s, 1, m)) = m /\ \A i \in 1..m : SubSeq(s, 1, m)[i] = s[i]
  BY <1>1, <1>3
<1>6. \A i \in 1..Len(s) : i <= n => i \in 1..m
  BY <1>1 DEF m
<1> QED
  BY <1>1, <1>3, <1>4, <1>5, <1>6

\* A question of the right shape.
SearchOK(q) ==
  /\ q.exact \subseteq Symbols /\ q.prefixed \in Seq(Symbols)
  /\ DOMAIN q.words \subseteq Symbols
  /\ \A s \in DOMAIN q.words : q.words[s] \in Nat

\* The three tiers.
Place(q, s)  == CHOOSE i \in DOMAIN q.prefixed : q.prefixed[i] = s
Others(q)    == ToSet(q.prefixed) \ (q.exact \union Named(q))
ExactList(q) == Sorted(q.exact, <)
NamedList(q) == Sorted(Named(q), LAMBDA a, b : \/ q.words[a] > q.words[b]
                                               \/ q.words[a] = q.words[b] /\ a < b)
OtherList(q) == Sorted(Others(q), LAMBDA a, b : Place(q, a) < Place(q, b))

\* Symbols in the order of their names.
LEMMA ByName ==
  ASSUME NEW S \in SUBSET Symbols
  PROVE  /\ Sorted(S, <) \in Seq(S) /\ Len(Sorted(S, <)) = Cardinality(S)
         /\ \A x \in S : \E i \in 1..Len(Sorted(S, <)) : Sorted(S, <)[i] = x
         /\ \A i, j \in 1..Len(Sorted(S, <)) : i < j => Sorted(S, <)[i] # Sorted(S, <)[j]
<1> DEFINE B == {p \in S \X S : p[1] < p[2]}
           s == Sorted(S, <)
<1>1. S \subseteq Nat /\ IsFiniteSet(S)
  BY GraphAssumption, FS_Subset
<1>2. Strict(S, B) /\ Total(S, B)
  BY <1>1 DEF Strict, Total
<1>3. \A x \in S : Below(S, B, x) = {y \in S : y < x}
  BY DEF Below
<1>4. \A x \in S : <<x, x>> \notin B
  BY <1>1
<1> HIDE DEF B
<1>5. \A i \in 1..Cardinality(S) : \E x \in S : Cardinality({y \in S : y < x}) = i - 1
  <2>1. \A i \in 1..Cardinality(S) : \E x \in S : Cardinality(Below(S, B, x)) = i - 1
    BY <1>1, <1>2, EachPlaceIsTaken
  <2> QED
    BY <1>3, <2>1, Zenon
<1>6. s = [i \in 1..Cardinality(S) |-> CHOOSE x \in S : Cardinality({y \in S : y < x}) = i - 1]
  BY Zenon DEF Sorted
<1> HIDE DEF s
<1>7. \A i \in 1..Cardinality(S) : s[i] \in S /\ Cardinality({y \in S : y < s[i]}) = i - 1
  BY <1>5, <1>6, Zenon
<1>8. s \in [1..Cardinality(S) -> S]
  BY <1>6, <1>7, Zenon
<1>9. InOrder(s, S, B)
  BY <1>3, <1>7, <1>8, Zenon DEF InOrder
<1>10. /\ s \in Seq(S) /\ Len(s) = Cardinality(S) /\ \A x \in S : \E i \in 1..Len(s) : s[i] = x
       /\ \A i, j \in 1..Len(s) : i < j => <<s[i], s[j]>> \in B
  BY <1>1, <1>2, <1>9, OrderedFacts
<1>11. \A i, j \in 1..Len(s) : i < j => s[i] # s[j]
  BY <1>4, <1>10, ElementOfSeq
<1> QED
  BY <1>10, <1>11 DEF s

LEMMA ExactInOrder ==
  ASSUME NEW q, SearchOK(q)
  PROVE  /\ ExactList(q) \in Seq(Symbols) /\ Len(ExactList(q)) = Cardinality(q.exact)
         /\ \A x \in q.exact : \E i \in 1..Len(ExactList(q)) : ExactList(q)[i] = x
<1>1. q.exact \in SUBSET Symbols
  BY DEF SearchOK
<1>2. /\ ExactList(q) \in Seq(q.exact) /\ Len(ExactList(q)) = Cardinality(q.exact)
      /\ \A x \in q.exact : \E i \in 1..Len(ExactList(q)) : ExactList(q)[i] = x
  BY <1>1, ByName DEF ExactList
<1> QED
  BY <1>1, <1>2, SeqMonotonic

LEMMA NamedInOrder ==
  ASSUME NEW q, SearchOK(q)
  PROVE  /\ NamedList(q) \in Seq(Symbols) /\ Len(NamedList(q)) = Cardinality(Named(q))
         /\ \A x \in Named(q) : \E i \in 1..Len(NamedList(q)) : NamedList(q)[i] = x
<1> DEFINE S == Named(q)
           before(a, b) == \/ q.words[a] > q.words[b]
                           \/ q.words[a] = q.words[b] /\ a < b
           B == {p \in S \X S : before(p[1], p[2])}
           s == NamedList(q)
<1>1. S \subseteq Symbols /\ S \subseteq Nat /\ IsFiniteSet(S)
  BY GraphAssumption, FS_Subset DEF SearchOK, Named
<1>2. \A x \in S : q.words[x] \in Nat
  BY DEF SearchOK, Named
<1> HIDE DEF S
<1>3. Strict(S, B) /\ Total(S, B)
  BY <1>1, <1>2 DEF Strict, Total
<1>4. \A x \in S : Below(S, B, x) = {y \in S : before(y, x)}
  BY DEF Below
<1>5. s = [i \in 1..Cardinality(S) |-> CHOOSE x \in S : Cardinality({y \in S : before(y, x)}) = i - 1]
  BY Zenon DEF NamedList, Sorted, S
<1> HIDE DEF B, before
<1>6. \A i \in 1..Cardinality(S) : \E x \in S : Cardinality({y \in S : before(y, x)}) = i - 1
  <2>1. \A i \in 1..Cardinality(S) : \E x \in S : Cardinality(Below(S, B, x)) = i - 1
    BY <1>1, <1>3, EachPlaceIsTaken
  <2> QED
    BY <1>4, <2>1, Zenon
<1>7. \A i \in 1..Cardinality(S) : s[i] \in S /\ Cardinality({y \in S : before(y, s[i])}) = i - 1
  BY <1>5, <1>6, Zenon
<1>8. s \in [1..Cardinality(S) -> S]
  BY <1>5, <1>7, Zenon
<1>9. InOrder(s, S, B)
  BY <1>4, <1>7, <1>8, Zenon DEF InOrder
<1>10. s \in Seq(S) /\ Len(s) = Cardinality(S) /\ \A x \in S : \E i \in 1..Len(s) : s[i] = x
  BY <1>1, <1>3, <1>9, OrderedFacts
<1> HIDE DEF s
<1>11. s \in Seq(Symbols)
  BY <1>1, <1>10, SeqMonotonic, Zenon
<1> QED
  BY <1>10, <1>11 DEF s, S

LEMMA OthersInOrder ==
  ASSUME NEW q, SearchOK(q)
  PROVE  OtherList(q) \in Seq(Symbols)
<1> DEFINE S == Others(q)
           P(x) == Place(q, x)
           before(a, b) == P(a) < P(b)
           B == {p \in S \X S : before(p[1], p[2])}
           s == OtherList(q)
<1>1. \A x \in S : \E i \in DOMAIN q.prefixed : q.prefixed[i] = x
  BY DEF Others, ToSet
<1>2. \A x \in S : P(x) \in DOMAIN q.prefixed /\ q.prefixed[P(x)] = x
  BY <1>1, Zenon DEF Place
<1>3. DOMAIN q.prefixed = 1..Len(q.prefixed) /\ Len(q.prefixed) \in Nat
  BY LenProperties DEF SearchOK
<1> HIDE DEF P
<1>4. \A x \in S : P(x) \in Nat
  BY <1>2, <1>3
<1>5. S \subseteq Symbols
  BY <1>2, <1>3, ElementOfSeq DEF SearchOK
<1>6. IsFiniteSet(S)
  BY <1>5, GraphAssumption, FS_Subset
<1> HIDE DEF S
<1>7. Strict(S, B) /\ Total(S, B)
  <2>1. \A x, z \in S : P(x) = P(z) => x = z
    BY <1>2, Zenon
  <2> QED
    BY <1>4, <2>1 DEF Strict, Total
<1>8. \A x \in S : Below(S, B, x) = {y \in S : before(y, x)}
  BY DEF Below
<1>9. s = [i \in 1..Cardinality(S) |-> CHOOSE x \in S : Cardinality({y \in S : before(y, x)}) = i - 1]
  BY Zenon DEF OtherList, Sorted, S, P
<1> HIDE DEF B, before
<1>10. \A i \in 1..Cardinality(S) : \E x \in S : Cardinality({y \in S : before(y, x)}) = i - 1
  <2>1. \A i \in 1..Cardinality(S) : \E x \in S : Cardinality(Below(S, B, x)) = i - 1
    BY <1>6, <1>7, EachPlaceIsTaken
  <2> QED
    BY <1>8, <2>1, Zenon
<1>11. \A i \in 1..Cardinality(S) : s[i] \in S /\ Cardinality({y \in S : before(y, s[i])}) = i - 1
  BY <1>9, <1>10, Zenon
<1>12. s \in [1..Cardinality(S) -> S]
  BY <1>9, <1>11, Zenon
<1>13. InOrder(s, S, B)
  BY <1>8, <1>11, <1>12, Zenon DEF InOrder
<1>14. s \in Seq(S)
  BY <1>6, <1>7, <1>13, OrderedFacts, Zenon
<1> HIDE DEF s
<1>15. s \in Seq(Symbols)
  BY <1>5, <1>14, SeqMonotonic, Zenon
<1> QED
  BY <1>15 DEF s

\* The lexical list is one of symbols, and has every name if the pool has room.
LEMMA LexicalFacts ==
  ASSUME NEW q, SearchOK(q)
  PROVE  /\ Lexical(q) \in Seq(Symbols)
         /\ Cardinality(q.exact \union Named(q)) <= Pool =>
              q.exact \union Named(q) \subseteq ToSet(Lexical(q))
<1> DEFINE e == ExactList(q)
           n == NamedList(q)
           o == OtherList(q)
           all == e \o n \o o
<1>1. e \in Seq(Symbols) /\ n \in Seq(Symbols) /\ o \in Seq(Symbols)
  BY ExactInOrder, NamedInOrder, OthersInOrder
<1>2. Lexical(q) = Limit(all, Pool)
  BY Zenon DEF Lexical, ExactList, NamedList, OtherList, Place, Others
<1> HIDE DEF e, n, o
<1>3. e \o n \in Seq(Symbols) /\ all \in Seq(Symbols)
  BY <1>1, ConcatProperties
<1>4. /\ Len(e) \in Nat /\ Len(n) \in Nat /\ Len(o) \in Nat
      /\ Len(e \o n) = Len(e) + Len(n) /\ Len(all) = Len(e) + Len(n) + Len(o)
  BY <1>1, <1>3, ConcatProperties, LenProperties
<1>5. \A i \in 1..Len(e) + Len(n) : all[i] = IF i <= Len(e) THEN e[i] ELSE n[i - Len(e)]
  <2>1. \A i \in 1..Len(e) + Len(n) : (e \o n)[i] = IF i <= Len(e) THEN e[i] ELSE n[i - Len(e)]
    BY <1>1, ConcatProperties
  <2>2. \A i \in 1..Len(e \o n) + Len(o) : all[i] = IF i <= Len(e \o n) THEN (e \o n)[i] ELSE o[i - Len(e \o n)]
    BY <1>1, <1>3, ConcatProperties
  <2> QED
    BY <1>4, <2>1, <2>2
<1> HIDE DEF all
<1>6. Pool \in Nat
  BY RankingAssumption
<1>7. Lexical(q) \in Seq(Symbols)
  BY <1>2, <1>3, <1>6, LimitFacts, Zenon
<1>8. ASSUME Cardinality(q.exact \union Named(q)) <= Pool, NEW x \in q.exact \union Named(q)
      PROVE  x \in ToSet(Lexical(q))
  <2>1. Len(e) = Cardinality(q.exact) /\ Len(n) = Cardinality(Named(q))
    BY ExactInOrder, NamedInOrder DEF e, n
  <2>2. Len(e) + Len(n) <= Pool
    <3>1. IsFiniteSet(q.exact) /\ IsFiniteSet(Named(q))
      BY GraphAssumption, FS_Subset DEF SearchOK, Named
    <3>2. Cardinality(q.exact \union Named(q))
            = Cardinality(q.exact) + Cardinality(Named(q)) - Cardinality(q.exact \intersect Named(q))
      BY <3>1, FS_Union
    <3>3. q.exact \intersect Named(q) = {}
      BY DEF Named
    <3>4. Cardinality({}) = 0
      BY FS_EmptySet
    <3>5. Cardinality(q.exact \intersect Named(q)) = 0
      BY <3>3, <3>4, Zenon
    <3> QED
      BY <1>4, <1>6, <1>8, <2>1, <3>2, <3>5
  <2>3. \E i \in 1..Len(e) + Len(n) : all[i] = x
    <3>1. CASE x \in q.exact
      <4>1. PICK i \in 1..Len(e) : e[i] = x
        BY <3>1, ExactInOrder, Zenon DEF e
      <4> QED
        BY <1>4, <1>5, <4>1
    <3>2. CASE x \in Named(q)
      <4>1. PICK i \in 1..Len(n) : n[i] = x
        BY <3>2, NamedInOrder, Zenon DEF n
      <4>2. i + Len(e) \in 1..Len(e) + Len(n) /\ ~(i + Len(e) <= Len(e)) /\ (i + Len(e)) - Len(e) = i
        BY <1>4, <4>1
      <4>3. all[i + Len(e)] = x
        BY <1>5, <4>1, <4>2
      <4> QED
        BY <4>2, <4>3
    <3> QED
      BY <1>8, <3>1, <3>2
  <2>4. PICK i \in 1..Len(e) + Len(n) : all[i] = x
    BY <2>3
  <2>5. i \in 1..Len(all) /\ i <= Pool
    BY <1>4, <1>6, <2>2
  <2>6. i \in 1..Len(Lexical(q)) /\ Lexical(q)[i] = x
    BY <1>2, <1>3, <1>6, <2>4, <2>5, LimitFacts
  <2>7. DOMAIN Lexical(q) = 1..Len(Lexical(q))
    BY <1>7, LenProperties
  <2> QED
    BY <2>6, <2>7 DEF ToSet
<1> QED
  BY <1>7, <1>8

LEMMA StructuralFacts ==
  ASSUME NEW g, GraphOK(g), g.MEMBER_OF \subseteq Edges(Symbols, Symbols), NEW X \in SUBSET Symbols
  PROVE  Structural(g, X) \in Seq(Symbols)
<1> DEFINE links == g.CALLS \union g.MEMBER_OF
           S == X \union {e.to : e \in {x \in links : x.from \in X}}
                  \union {e.from : e \in {x \in links : x.to \in X}}
           D(x) == Cardinality({e \in g.CALLS : e.to = x})
           before(a, b) == \/ a \in X /\ b \notin X
                           \/ /\ a \in X <=> b \in X
                              /\ \/ D(a) > D(b)
                                 \/ D(a) = D(b) /\ a < b
           B == {p \in S \X S : before(p[1], p[2])}
           s == Structural(g, X)
<1>1. g["CALLS"] \subseteq Edges(Symbols, Symbols) /\ IsFiniteSet(g["CALLS"])
  BY DEF GraphOK, AllTypes, DefaultTypes, SymbolSymbol
<1>2. \A e \in links : e.from \in Symbols /\ e.to \in Symbols
  BY <1>1 DEF Edges
<1>3. S \subseteq Symbols
  BY <1>2
<1>4. IsFiniteSet(S) /\ S \subseteq Nat
  BY <1>3, GraphAssumption, FS_Subset
<1>5. \A x : D(x) \in Nat
  BY <1>1, FS_Subset, FS_CardinalityType
<1>6. s = [i \in 1..Cardinality(S) |-> CHOOSE x \in S : Cardinality({y \in S : before(y, x)}) = i - 1]
  BY Zenon DEF Structural, Sorted
<1> HIDE DEF D, S
<1>7. Strict(S, B) /\ Total(S, B)
  <2>1. Strict(S, B)
    <3>1. \A x \in S : <<x, x>> \notin B
      BY <1>4, <1>5
    <3>2. ASSUME NEW x \in S, NEW y \in S, NEW z \in S, before(x, y), before(y, z)
          PROVE  before(x, z)
      <4>1. D(x) \in Nat /\ D(y) \in Nat /\ D(z) \in Nat /\ x \in Nat /\ y \in Nat /\ z \in Nat
        BY <1>4, <1>5
      <4> QED
        BY <3>2, <4>1
    <3>3. \A x, y \in S : <<x, y>> \in B <=> before(x, y)
      OBVIOUS
    <3> HIDE DEF B, before
    <3> QED
      BY <3>1, <3>2, <3>3, Zenon DEF Strict
  <2>2. ASSUME NEW x \in S, NEW y \in S
        PROVE  x = y \/ <<x, y>> \in B \/ <<y, x>> \in B
    <3>1. D(x) \in Nat /\ D(y) \in Nat /\ x \in Nat /\ y \in Nat
      BY <1>4, <1>5
    <3> QED
      BY <3>1
  <2> QED
    BY <2>1, <2>2 DEF Total
<1>8. \A x \in S : Below(S, B, x) = {y \in S : before(y, x)}
  BY DEF Below
<1> HIDE DEF B, before
<1>9. \A i \in 1..Cardinality(S) : \E x \in S : Cardinality({y \in S : before(y, x)}) = i - 1
  <2>1. \A i \in 1..Cardinality(S) : \E x \in S : Cardinality(Below(S, B, x)) = i - 1
    BY <1>4, <1>7, EachPlaceIsTaken
  <2> QED
    BY <1>8, <2>1, Zenon
<1>10. \A i \in 1..Cardinality(S) : s[i] \in S /\ Cardinality({y \in S : before(y, s[i])}) = i - 1
  BY <1>6, <1>9, Zenon
<1>11. s \in [1..Cardinality(S) -> S]
  BY <1>6, <1>10, Zenon
<1>12. InOrder(s, S, B)
  BY <1>8, <1>10, <1>11, Zenon DEF InOrder
<1>13. s \in Seq(S)
  BY <1>4, <1>7, <1>12, OrderedFacts
<1> HIDE DEF s
<1>14. s \in Seq(Symbols)
  BY <1>3, <1>13, SeqMonotonic, Zenon
<1> QED
  BY <1>14 DEF s

\* A first place is worth less than the seventh part of a million.
LEMMA ReciprocalIsSmall ==
  ASSUME NEW list \in Seq(Symbols), NEW s
  PROVE  Reciprocal(list, s) \in Nat /\ Reciprocal(list, s) <= 142857
<1>1. CASE s \in ToSet(list)
  <2> DEFINE i == CHOOSE j \in DOMAIN list : list[j] = s
  <2>1. i \in DOMAIN list
    BY <1>1, Zenon DEF ToSet
  <2>2. DOMAIN list = 1..Len(list) /\ Len(list) \in Nat
    BY LenProperties
  <2> HIDE DEF i
  <2> DEFINE d == RrfK + i
  <2>3. Reciprocal(list, s) = 1000000 \div d
    BY <1>1 DEF Reciprocal, i
  <2>4. d \in Nat /\ d >= 7
    BY <2>1, <2>2, RankingAssumption
  <2> HIDE DEF d
  <2>5. 1000000 \div d \in Nat /\ d * (1000000 \div d) <= 1000000
    BY <2>4
  <2>6. ASSUME NEW k \in Nat, d * k <= 1000000
        PROVE  k <= 142857
    <3>1. 7 * k <= d * k
      BY <2>4
    <3>2. d * k \in Nat
      BY <2>4
    <3> QED
      BY <2>6, <3>1, <3>2
  <2> QED
    BY <2>3, <2>5, <2>6
<1>2. CASE s \notin ToSet(list)
  BY <1>2 DEF Reciprocal
<1> QED
  BY <1>1, <1>2

LEMMA FactorsWeigh ==
  ASSUME NEW s \in Symbols, NEW a \in Nat
  PROVE  LET w == a * RoleFactor(RoleOf[s]) * KindFactor(KindOf[s])
         IN /\ w \in Nat
            /\ a >= 1000000 => w >= 64000000
            /\ a <= 285714 => w < 64000000
<1>1. RoleFactor(RoleOf[s]) \in {4, 5, 10}
  BY ViewsAssumption DEF RoleFactor, Roles
<1>2. KindFactor(KindOf[s]) \in {16, 20, 21}
  BY DEF KindFactor
<1> DEFINE R == RoleFactor(RoleOf[s])
           K == KindFactor(KindOf[s])
<1> HIDE DEF R, K
<1>3. R \in {4, 5, 10} /\ K \in {16, 20, 21}
  BY <1>1, <1>2 DEF R, K
<1>4. CASE K = 16
  BY <1>3, <1>4 DEF R, K
<1>5. CASE K = 20
  BY <1>3, <1>5 DEF R, K
<1>6. CASE K = 21
  BY <1>3, <1>6 DEF R, K
<1> QED
  BY <1>3, <1>4, <1>5, <1>6

\* The search, part by part.
HitsOf(q)     == ToSet(Lexical(q))
BesideOf(g, q) == Structural(g, q.exact \intersect HitsOf(q))
FoundOf(g, q) == HitsOf(q) \union ToSet(BesideOf(g, q))
Fused(g, q, s) == Reciprocal(Lexical(q), s) + Reciprocal(BesideOf(g, q), s)
                  + (IF s \in HitsOf(q) THEN Boost(q, s) ELSE 0)
Shaped(g, q, s) == Fused(g, q, s) * RoleFactor(RoleOf[s]) * KindFactor(KindOf[s])

LEMMA NamesWeighMore ==
  ASSUME NEW g, GraphOK(g), g.MEMBER_OF \subseteq Edges(Symbols, Symbols), NEW q, SearchOK(q),
         Cardinality(q.exact \union Named(q)) <= Pool
  PROVE  /\ FoundOf(g, q) \subseteq Symbols
         /\ \A s \in FoundOf(g, q) : /\ Shaped(g, q, s) \in Nat
                                     /\ IF Boost(q, s) > 0 THEN Shaped(g, q, s) >= 64000000
                                                           ELSE Shaped(g, q, s) < 64000000
<1>1. Lexical(q) \in Seq(Symbols) /\ q.exact \union Named(q) \subseteq HitsOf(q)
  BY LexicalFacts DEF HitsOf
<1>2. BesideOf(g, q) \in Seq(Symbols)
  <2>1. q.exact \intersect HitsOf(q) \in SUBSET Symbols
    BY DEF SearchOK
  <2> QED
    BY <2>1, StructuralFacts, Zenon DEF BesideOf
<1>3. FoundOf(g, q) \subseteq Symbols
  <2>1. \A s \in Seq(Symbols) : ToSet(s) \subseteq Symbols
    BY LenProperties, ElementOfSeq DEF ToSet
  <2> QED
    BY <1>1, <1>2, <2>1 DEF FoundOf, HitsOf
<1>4. ASSUME NEW s \in FoundOf(g, q)
      PROVE  /\ Shaped(g, q, s) \in Nat
             /\ IF Boost(q, s) > 0 THEN Shaped(g, q, s) >= 64000000 ELSE Shaped(g, q, s) < 64000000
  <2> DEFINE a == Fused(g, q, s)
  <2>1. /\ Reciprocal(Lexical(q), s) \in Nat /\ Reciprocal(Lexical(q), s) <= 142857
        /\ Reciprocal(BesideOf(g, q), s) \in Nat /\ Reciprocal(BesideOf(g, q), s) <= 142857
    BY <1>1, <1>2, ReciprocalIsSmall
  <2>2. Boost(q, s) \in {0, 1000000, 2000000} /\ (Boost(q, s) > 0 => s \in HitsOf(q))
    BY <1>1 DEF Boost
  <2>3. a \in Nat /\ IF Boost(q, s) > 0 THEN a >= 1000000 ELSE a <= 285714
    BY <2>1, <2>2 DEF Fused
  <2> HIDE DEF a
  <2>4. s \in Symbols
    BY <1>3
  <2>5. LET w == a * RoleFactor(RoleOf[s]) * KindFactor(KindOf[s])
        IN w \in Nat /\ (a >= 1000000 => w >= 64000000) /\ (a <= 285714 => w < 64000000)
    BY <2>3, <2>4, FactorsWeigh
  <2>6. Shaped(g, q, s) = a * RoleFactor(RoleOf[s]) * KindFactor(KindOf[s])
    BY Zenon DEF Shaped, a
  <2> QED
    BY <2>3, <2>5, <2>6
<1> QED
  BY <1>3, <1>4

\* What is found earlier weighs no less.
LEMMA RankedFacts ==
  ASSUME NEW g, NEW q, FoundOf(g, q) \subseteq Symbols, \A s \in FoundOf(g, q) : Shaped(g, q, s) \in Nat
  PROVE  \A i, j \in DOMAIN Ranked(g, q) :
           i < j => /\ Ranked(g, q)[i] \in FoundOf(g, q) /\ Ranked(g, q)[j] \in FoundOf(g, q)
                    /\ Shaped(g, q, Ranked(g, q)[i]) >= Shaped(g, q, Ranked(g, q)[j])
<1> DEFINE S == FoundOf(g, q)
           W == [x \in S |-> Shaped(g, q, x)]
           before(a, b) == \/ W[a] > W[b]
                           \/ W[a] = W[b] /\ a < b
           B == {p \in S \X S : before(p[1], p[2])}
           s == Sorted(S, before)
<1>1. IsFiniteSet(S) /\ S \subseteq Nat
  BY GraphAssumption, FS_Subset
<1>2. \A x \in S : W[x] = Shaped(g, q, x) /\ W[x] \in Nat
  OBVIOUS
<1>3. Ranked(g, q) = Limit(s, Hits)
  BY Zenon DEF Ranked, Shaped, Fused, FoundOf, HitsOf, BesideOf
<1>4. s = [i \in 1..Cardinality(S) |-> CHOOSE x \in S : Cardinality({y \in S : before(y, x)}) = i - 1]
  BY Zenon DEF Sorted
<1> HIDE DEF S, W
<1>5. Strict(S, B) /\ Total(S, B)
  BY <1>1, <1>2 DEF Strict, Total
<1>6. \A x \in S : Below(S, B, x) = {y \in S : before(y, x)}
  BY DEF Below
<1>7. \A x, y : <<x, y>> \in B => W[x] > W[y] \/ W[x] = W[y]
  OBVIOUS
<1> HIDE DEF B, before, s
<1>8. \A i \in 1..Cardinality(S) : \E x \in S : Cardinality({y \in S : before(y, x)}) = i - 1
  <2>1. \A i \in 1..Cardinality(S) : \E x \in S : Cardinality(Below(S, B, x)) = i - 1
    BY <1>1, <1>5, EachPlaceIsTaken
  <2> QED
    BY <1>6, <2>1, Zenon
<1>9. \A i \in 1..Cardinality(S) : s[i] \in S /\ Cardinality({y \in S : before(y, s[i])}) = i - 1
  BY <1>4, <1>8, Zenon
<1>10. s \in [1..Cardinality(S) -> S]
  BY <1>4, <1>9, Zenon
<1>11. InOrder(s, S, B)
  BY <1>6, <1>9, <1>10, Zenon DEF InOrder
<1>12. s \in Seq(S) /\ \A i, j \in 1..Len(s) : i < j => <<s[i], s[j]>> \in B
  BY <1>1, <1>5, <1>11, OrderedFacts
<1>13. Hits \in Nat
  BY RankingAssumption
<1>14. /\ Limit(s, Hits) \in Seq(S)
       /\ \A i \in 1..Len(Limit(s, Hits)) : i \in 1..Len(s) /\ Limit(s, Hits)[i] = s[i]
  BY <1>12, <1>13, LimitFacts
<1>15. DOMAIN Limit(s, Hits) = 1..Len(Limit(s, Hits))
  BY <1>14, LenProperties
<1>16. \A i, j \in DOMAIN Limit(s, Hits) :
         i < j => /\ Limit(s, Hits)[i] \in S /\ Limit(s, Hits)[j] \in S
                  /\ W[Limit(s, Hits)[i]] >= W[Limit(s, Hits)[j]]
  <2> SUFFICES ASSUME NEW i \in DOMAIN Limit(s, Hits), NEW j \in DOMAIN Limit(s, Hits), i < j
               PROVE  /\ Limit(s, Hits)[i] \in S /\ Limit(s, Hits)[j] \in S
                      /\ W[Limit(s, Hits)[i]] >= W[Limit(s, Hits)[j]]
    OBVIOUS
  <2>1. s[i] \in S /\ s[j] \in S /\ Limit(s, Hits)[i] = s[i] /\ Limit(s, Hits)[j] = s[j]
    BY <1>12, <1>14, <1>15, ElementOfSeq
  <2>2. W[s[i]] > W[s[j]] \/ W[s[i]] = W[s[j]]
    BY <1>7, <1>12, <1>14, <1>15
  <2>3. W[s[i]] \in Nat /\ W[s[j]] \in Nat
    BY <1>2, <2>1
  <2> QED
    BY <2>1, <2>2, <2>3
<1> HIDE DEF s
<1>17. \A i, j \in DOMAIN Ranked(g, q) :
         i < j => /\ Ranked(g, q)[i] \in S /\ Ranked(g, q)[j] \in S
                  /\ W[Ranked(g, q)[i]] >= W[Ranked(g, q)[j]]
  BY <1>3, <1>16, Zenon
<1> QED
  BY <1>2, <1>17 DEF S

\* A search is answered with the ranking of the graph it was asked of.
Searched == pc = "done" /\ ask.tool = "search" => answer = {Ranked(graph, ask)}

LEMMA SearchedAlways == SpecQuery => []Searched
<1>1. Init => Searched
  BY DEF Init, Searched
<1>2. ASSUME Asked, Searched, [NextQuery]_vars
      PROVE  Searched'
  <2>1. CASE Find
    <3>1. answer' = {Ranked(graph, ask)} /\ graph' = graph /\ ask' = ask
      BY <2>1, Zenon DEF Find, Answer
    <3> QED
      BY <3>1, Zenon DEF Searched
  <2>2. CASE View \/ Draw
    BY <2>2 DEF View, Draw, Answer, Searched
  <2>3. CASE Next
    <3>1. ask' = ask
      BY <2>3, Zenon DEF Next, Refuse, Resolve, ImpactHop, ImpactDone, Context, FlowEnter, FlowPop, FlowLeave,
         FlowDone, TraceChain, TailHop, TailDone, TraceUpstream, TraceDone
    <3>2. pc' = "done" => ask.tool # "search"
      BY <1>2, <2>3 DEF Asked, Stops, Walkers, Next, Refuse, Resolve, ImpactHop, ImpactDone, Context, FlowEnter, FlowPop, FlowLeave,
         FlowDone, TraceChain, TailHop, TailDone, TraceUpstream, TraceDone
    <3> QED
      BY <3>1, <3>2 DEF Searched
  <2>4. CASE UNCHANGED vars
    BY <1>2, <2>4, Zenon DEF Searched, vars
  <2> QED
    BY <1>2, <2>1, <2>2, <2>3, <2>4 DEF NextQuery
<1> QED
  BY <1>1, <1>2, AskedAlways, PTL DEF SpecQuery

\* Whatever the graph, the query and the roles: a name hit is above everything that
\* was found otherwise, when the pool holds all name hits.
THEOREM NamesComeFirst == SpecQuery => []NamesFirst
<1>1. ASSUME Asked, Searched
      PROVE  NamesFirst
  <2>1. SUFFICES ASSUME Answered("search"), Cardinality(ask.exact \union Named(ask)) <= Pool,
                        NEW found \in answer, NEW i \in DOMAIN found, NEW j \in DOMAIN found, i < j,
                        Boost(ask, found[j]) > 0
                 PROVE  Boost(ask, found[i]) > 0
    BY Zenon DEF NamesFirst
  <2>2. found = Ranked(graph, ask) /\ ask.tool = "search"
    BY <1>1, <2>1 DEF Searched, Answered
  <2>3. PICK c \in Cases : graph = c.graph /\ ask = c.ask
    BY <1>1 DEF Asked
  <2>4. GraphOK(c.graph)
    BY ViewsAssumption, CasesAssumption, Zenon DEF GraphOK
  <2>5. c.graph.MEMBER_OF \subseteq Edges(Symbols, Symbols)
    BY ViewsAssumption, Zenon
  <2>6. SearchOK(c.ask)
    BY <2>2, <2>3, ViewsAssumption, Zenon DEF SearchOK
  <2>7. GraphOK(graph) /\ graph.MEMBER_OF \subseteq Edges(Symbols, Symbols) /\ SearchOK(ask)
    BY <2>3, <2>4, <2>5, <2>6, Zenon
  <2>8. /\ FoundOf(graph, ask) \subseteq Symbols
        /\ \A s \in FoundOf(graph, ask) :
             /\ Shaped(graph, ask, s) \in Nat
             /\ IF Boost(ask, s) > 0 THEN Shaped(graph, ask, s) >= 64000000
                                     ELSE Shaped(graph, ask, s) < 64000000
    BY <2>1, <2>7, NamesWeighMore
  <2>9. /\ found[i] \in FoundOf(graph, ask) /\ found[j] \in FoundOf(graph, ask)
        /\ Shaped(graph, ask, found[i]) >= Shaped(graph, ask, found[j])
    BY <2>1, <2>2, <2>8, RankedFacts
  <2> QED
    BY <2>1, <2>8, <2>9
<1> QED
  BY <1>1, AskedAlways, SearchedAlways, PTL
-----------------------------------------------------------------------------
(* The diagrams. *)

\* What is drawn beside what.
Around(g, r) ==
  {<<e.from, e.to>> : e \in {x \in g.CALLS : r.direction \in {"out", "both"}}}
  \union {<<e.to, e.from>> : e \in {x \in g.CALLS : r.direction \in {"in", "both"}}}

LEMMA OthersAreAround ==
  ASSUME NEW g, NEW r, NEW F, NEW x
  PROVE  x \in UNION {{Other(e, s) : e \in Incident(g, s, r.direction)} : s \in F}
           <=> \E s \in F : <<s, x>> \in Around(g, r)
<1>1. ASSUME NEW s \in F, NEW e \in Incident(g, s, r.direction), x = Other(e, s)
      PROVE  <<s, x>> \in Around(g, r)
  <2>1. e \in g.CALLS
    BY <1>1 DEF Incident
  <2>2. CASE e.from = s /\ r.direction \in {"out", "both"}
    BY <1>1, <2>1, <2>2 DEF Other, Around
  <2>3. CASE e.to = s /\ r.direction \in {"in", "both"}
    <3>1. x = e.from
      BY <1>1, <2>3 DEF Other
    <3> QED
      BY <2>1, <2>3, <3>1 DEF Around
  <2> QED
    BY <1>1, <2>2, <2>3 DEF Incident
<1>2. ASSUME NEW s \in F, <<s, x>> \in Around(g, r)
      PROVE  \E e \in Incident(g, s, r.direction) : x = Other(e, s)
  <2>1. CASE \E e \in g.CALLS : r.direction \in {"out", "both"} /\ <<s, x>> = <<e.from, e.to>>
    BY <2>1 DEF Incident, Other
  <2>2. CASE \E e \in g.CALLS : r.direction \in {"in", "both"} /\ <<s, x>> = <<e.to, e.from>>
    BY <2>2 DEF Incident, Other
  <2> QED
    BY <1>2, <2>1, <2>2 DEF Around
<1> DEFINE beside(s) == {Other(e, s) : e \in Incident(g, s, r.direction)}
<1>3. \A s \in F : x \in beside(s) <=> \E e \in Incident(g, s, r.direction) : x = Other(e, s)
  OBVIOUS
<1> HIDE DEF beside
<1>4. x \in UNION {beside(s) : s \in F} <=> \E s \in F : x \in beside(s)
  OBVIOUS
<1> USE DEF beside
<1> QED
  BY <1>1, <1>2, <1>3, <1>4

\* A level of the search from a root.
LevelOK(g, r, k, lv) ==
  /\ lv.frontier = FirstReached({r.root}, Around(g, r), k)
  /\ lv.discovered \in Seq(Symbols)
  /\ ToSet(lv.discovered) = SoFar({r.root}, Around(g, r), k)
  /\ \A i, j \in 1..Len(lv.discovered) : i < j => lv.discovered[i] # lv.discovered[j]
  /\ Len(lv.discovered) >= 1 /\ lv.discovered[1] = r.root

RootLevel(r) == [discovered |-> <<r.root>>, frontier |-> {r.root}, edges |-> {}]

LEMMA RootIsALevel ==
  ASSUME NEW g, NEW r, r.root \in Symbols
  PROVE  LevelOK(g, r, 0, RootLevel(r))
<1> DEFINE R == Around(g, r)
<1>1. ReachedBy({r.root}, R, 0) = {r.root}
  BY ReachedBase
<1>2. 0..0 - 1 = {} /\ 0..0 = {0}
  OBVIOUS
<1> HIDE DEF R
<1>3. FirstReached({r.root}, R, 0) = {r.root}
  BY <1>1, <1>2 DEF FirstReached
<1>4. SoFar({r.root}, R, 0) = {r.root}
  BY <1>1, <1>2 DEF SoFar
<1>5. ToSet(<<r.root>>) = {r.root}
  BY DEF ToSet
<1>6. <<r.root>> \in Seq(Symbols) /\ Len(<<r.root>>) = 1 /\ <<r.root>>[1] = r.root
  OBVIOUS
<1> QED
  BY <1>3, <1>4, <1>5, <1>6 DEF LevelOK, RootLevel, R

\* A list and what comes after it, which has nothing of the list.
LEMMA ListGoesOn ==
  ASSUME NEW S, NEW s \in Seq(S), NEW t \in Seq(S),
         \A i, j \in 1..Len(s) : i < j => s[i] # s[j],
         \A i, j \in 1..Len(t) : i < j => t[i] # t[j],
         \A i \in 1..Len(s), j \in 1..Len(t) : s[i] # t[j]
  PROVE  /\ s \o t \in Seq(S) /\ Len(s \o t) = Len(s) + Len(t)
         /\ \A i \in 1..Len(s) : (s \o t)[i] = s[i]
         /\ ToSet(s \o t) = ToSet(s) \union ToSet(t)
         /\ \A i, j \in 1..Len(s \o t) : i < j => (s \o t)[i] # (s \o t)[j]
<1>1. Len(s) \in Nat /\ Len(t) \in Nat
  BY LenProperties
<1>2. /\ s \o t \in Seq(S) /\ Len(s \o t) = Len(s) + Len(t)
      /\ \A i \in 1..Len(s) + Len(t) : (s \o t)[i] = IF i <= Len(s) THEN s[i] ELSE t[i - Len(s)]
  BY ConcatProperties
<1> DEFINE u == s \o t
<1>3. DOMAIN u = 1..Len(s) + Len(t) /\ DOMAIN s = 1..Len(s) /\ DOMAIN t = 1..Len(t)
  BY <1>2, LenProperties
<1> HIDE DEF u
<1>4. \A i \in 1..Len(s) : u[i] = s[i]
  BY <1>1, <1>2 DEF u
<1>5. \A i \in 1..Len(t) : u[i + Len(s)] = t[i]
  BY <1>1, <1>2 DEF u
<1>6. \A i \in 1..Len(s) + Len(t) : i \in 1..Len(s) \/ \E j \in 1..Len(t) : i = j + Len(s)
  <2> SUFFICES ASSUME NEW i \in 1..Len(s) + Len(t), i \notin 1..Len(s)
               PROVE  \E j \in 1..Len(t) : i = j + Len(s)
    OBVIOUS
  <2>1. i - Len(s) \in 1..Len(t) /\ i = (i - Len(s)) + Len(s)
    BY <1>1
  <2> QED
    BY <2>1
<1>7. \A i \in 1..Len(t) : i + Len(s) \in 1..Len(s) + Len(t)
  BY <1>1
<1>8. ToSet(u) = ToSet(s) \union ToSet(t)
  <2>1. \A i \in 1..Len(s) : i \in 1..Len(s) + Len(t)
    BY <1>1
  <2>2. ASSUME NEW x \in ToSet(u)
        PROVE  x \in ToSet(s) \union ToSet(t)
    <3>1. PICK i \in 1..Len(s) + Len(t) : x = u[i]
      BY <1>3 DEF ToSet
    <3>2. CASE i \in 1..Len(s)
      BY <1>3, <1>4, <3>1, <3>2 DEF ToSet
    <3>3. CASE \E j \in 1..Len(t) : i = j + Len(s)
      BY <1>3, <1>5, <3>1, <3>3 DEF ToSet
    <3> QED
      BY <1>6, <3>2, <3>3
  <2>3. ToSet(s) \subseteq ToSet(u)
    BY <1>3, <1>4, <2>1 DEF ToSet
  <2>4. ToSet(t) \subseteq ToSet(u)
    BY <1>3, <1>5, <1>7 DEF ToSet
  <2> QED
    BY <2>2, <2>3, <2>4
<1>9. ASSUME NEW i \in 1..Len(s) + Len(t), NEW j \in 1..Len(s) + Len(t), i < j
      PROVE  u[i] # u[j]
  <2>1. CASE j \in 1..Len(s)
    <3>1. i \in 1..Len(s)
      BY <1>1, <1>9, <2>1
    <3> QED
      BY <1>4, <1>9, <2>1, <3>1
  <2>2. CASE \E m \in 1..Len(t) : j = m + Len(s)
    <3>1. PICK m \in 1..Len(t) : j = m + Len(s)
      BY <2>2
    <3>2. CASE i \in 1..Len(s)
      BY <1>4, <1>5, <3>1, <3>2
    <3>3. CASE \E l \in 1..Len(t) : i = l + Len(s)
      <4>1. PICK l \in 1..Len(t) : i = l + Len(s)
        BY <3>3
      <4>2. l < m
        BY <1>1, <1>9, <3>1, <4>1
      <4>3. t[l] # t[m]
        BY <4>2
      <4> QED
        BY <1>5, <3>1, <4>1, <4>3
    <3> QED
      BY <1>6, <3>2, <3>3
  <2> QED
    BY <1>6, <2>1, <2>2
<1> QED
  BY <1>2, <1>4, <1>8, <1>9 DEF u

LEMMA DeeperIsALevel ==
  ASSUME NEW g, NEW r, g.CALLS \subseteq Edges(Symbols, Symbols), NEW k \in Nat, NEW lv, LevelOK(g, r, k, lv)
  PROVE  LevelOK(g, r, k + 1, Deeper(g, r, lv))
<1> DEFINE R == Around(g, r)
           S == {r.root}
           next == (UNION {{Other(e, s) : e \in Incident(g, s, r.direction)} : s \in lv.frontier})
                   \ ToSet(lv.discovered)
           more == Sorted(next, <)
<1>1. \A s, x : <<s, x>> \in R => x \in Symbols
  BY DEF Around, Edges
<1>2. \A x : x \in next <=> x \notin SoFar(S, R, k) /\ \E s \in FirstReached(S, R, k) : <<s, x>> \in R
  BY OthersAreAround DEF LevelOK
<1>3. \A x : x \in next => x \in Symbols
  BY <1>1, <1>2
<1>4. next = FirstReached(S, R, k + 1)
  <2> HIDE DEF R, S, next
  <2>1. \A x : x \in FirstReached(S, R, k + 1)
                <=> x \in Symbols /\ x \notin SoFar(S, R, k) /\ \E u \in FirstReached(S, R, k) : <<u, x>> \in R
    BY FirstFurther
  <2> QED
    BY <1>2, <1>3, <2>1
<1>5. /\ Deeper(g, r, lv).frontier = next
      /\ Deeper(g, r, lv).discovered = lv.discovered \o more
  BY DEF Deeper
<1> HIDE DEF next
<1>6. next \in SUBSET Symbols
  BY <1>3
<1>7. /\ more \in Seq(next)
      /\ \A x \in next : \E i \in 1..Len(more) : more[i] = x
      /\ \A i, j \in 1..Len(more) : i < j => more[i] # more[j]
  BY <1>6, ByName
<1> HIDE DEF more
<1>8. more \in Seq(Symbols)
  BY <1>6, <1>7, SeqMonotonic
<1>9. DOMAIN more = 1..Len(more) /\ \A i \in 1..Len(more) : more[i] \in next
  BY <1>7, LenProperties, ElementOfSeq
<1>10. ToSet(more) = next
  BY <1>7, <1>9 DEF ToSet
<1> DEFINE d == lv.discovered
<1>11. /\ d \in Seq(Symbols) /\ ToSet(d) = SoFar(S, R, k)
       /\ \A i, j \in 1..Len(d) : i < j => d[i] # d[j]
       /\ Len(d) >= 1 /\ d[1] = r.root
  BY DEF LevelOK
<1> HIDE DEF d, R, S
<1>12. \A i \in 1..Len(d) : d[i] \in ToSet(d)
  BY <1>11, LenProperties DEF ToSet
<1>13. \A i \in 1..Len(d), j \in 1..Len(more) : d[i] # more[j]
  BY <1>2, <1>9, <1>11, <1>12
<1>14. /\ d \o more \in Seq(Symbols) /\ Len(d \o more) = Len(d) + Len(more)
       /\ \A i \in 1..Len(d) : (d \o more)[i] = d[i]
       /\ ToSet(d \o more) = ToSet(d) \union ToSet(more)
       /\ \A i, j \in 1..Len(d \o more) : i < j => (d \o more)[i] # (d \o more)[j]
  <2>1. \A i, j \in 1..Len(more) : i < j => more[i] # more[j]
    BY <1>7
  <2>2. d \in Seq(Symbols) /\ \A i, j \in 1..Len(d) : i < j => d[i] # d[j]
    BY <1>11
  <2> QED
    BY <2>1, <2>2, <1>8, <1>13, ListGoesOn
<1>15. Len(d) \in Nat /\ Len(more) \in Nat
  BY <1>8, <1>11, LenProperties
<1>16. 1 \in 1..Len(d) /\ Len(d) + Len(more) >= 1
  BY <1>11, <1>15
<1>17. ToSet(d \o more) = SoFar(S, R, k + 1)
  BY <1>4, <1>10, <1>11, <1>14, SoFarGrows
<1> QED
  <2>1. Deeper(g, r, lv).frontier = FirstReached({r.root}, Around(g, r), k + 1)
    BY <1>4, <1>5 DEF R, S
  <2>2. Deeper(g, r, lv).discovered = d \o more
    BY <1>5 DEF d
  <2>3. ToSet(d \o more) = SoFar({r.root}, Around(g, r), k + 1)
    BY <1>17 DEF R, S
  <2>4. Len(d \o more) >= 1 /\ (d \o more)[1] = r.root
    BY <1>11, <1>14, <1>16
  <2> QED
    BY <2>1, <2>2, <2>3, <2>4, <1>14, Zenon DEF LevelOK

\* The levels up to one of them.
Built(g, r, n, f) == f = [k \in 0..n |-> IF k = 0 THEN RootLevel(r) ELSE Deeper(g, r, f[k - 1])]

LEMMA LevelsCanBeBuilt ==
  ASSUME NEW g, NEW r, NEW n \in Nat
  PROVE  \E f : Built(g, r, n, f)
<1> DEFINE Bad == {m \in Nat : ~ \E f : Built(g, r, m, f)}
<1>1. SUFFICES ASSUME Bad # {} PROVE FALSE
  OBVIOUS
<1>2. PICK m \in Bad : \A j \in Bad : m <= j
  BY <1>1, Least
<1>3. CASE m = 0
  <2> DEFINE f == [k \in 0..0 |-> RootLevel(r)]
  <2>1. f = [k \in 0..0 |-> IF k = 0 THEN RootLevel(r) ELSE Deeper(g, r, f[k - 1])]
    <3>1. \A k \in 0..0 : k = 0
      OBVIOUS
    <3> HIDE DEF RootLevel, Deeper
    <3> QED
      BY <3>1
  <2>2. Built(g, r, 0, f)
    BY <2>1, Zenon DEF Built
  <2> QED
    BY <1>3, <2>2, Zenon
<1>4. CASE m # 0
  <2>1. m \in Nat /\ m - 1 \in Nat /\ ~ (m <= m - 1)
    BY <1>4
  <2>2. PICK h : Built(g, r, m - 1, h)
    BY <1>2, <2>1
  <2> DEFINE f == [k \in 0..m |-> IF k = m THEN Deeper(g, r, h[m - 1]) ELSE h[k]]
  <2>3. /\ \A k \in 0..m : k = m \/ k \in 0..m - 1
        /\ \A k \in 0..m - 1 : k \in 0..m /\ k # m
        /\ \A k \in 0..m : k # 0 => k - 1 \in 0..m - 1
        /\ m \in 0..m /\ m - 1 \in 0..m - 1
    BY <2>1
  <2>4. \A k \in 0..m - 1 : h[k] = IF k = 0 THEN RootLevel(r) ELSE Deeper(g, r, h[k - 1])
    BY <2>2, Zenon DEF Built
  <2>5. \A k \in 0..m - 1 : f[k] = h[k]
    BY <2>3
  <2>6. f[m] = Deeper(g, r, h[m - 1])
    BY <2>3
  <2>7. \A k \in 0..m : f[k] = IF k = 0 THEN RootLevel(r) ELSE Deeper(g, r, f[k - 1])
    <3> HIDE DEF f
    <3> QED
      BY <1>4, <2>3, <2>4, <2>5, <2>6
  <2>8. f = [k \in 0..m |-> f[k]]
    OBVIOUS
  <2> HIDE DEF f
  <2>9. f = [k \in 0..m |-> IF k = 0 THEN RootLevel(r) ELSE Deeper(g, r, f[k - 1])]
    BY <2>7, <2>8, Zenon
  <2> QED
    BY <2>9, Zenon DEF Built
<1> QED
  BY <1>3, <1>4

Hops(r) == IF r.depth > 0 THEN r.depth ELSE 0

LEMMA SearchIsALevel ==
  ASSUME NEW g, NEW r, g.CALLS \subseteq Edges(Symbols, Symbols), r.root \in Symbols, r.depth \in Int
  PROVE  LevelOK(g, r, Hops(r), Search(g, r))
<1> DEFINE n == Hops(r)
           L == Levels(g, r)
<1>1. n \in Nat /\ {0} \union 1..r.depth = 0..n
  BY DEF Hops
<1>2. L = CHOOSE f : f = [k \in {0} \union 1..r.depth |-> IF k = 0 THEN RootLevel(r) ELSE Deeper(g, r, f[k - 1])]
  BY Zenon DEF Levels, RootLevel
<1> HIDE DEF n, L
<1>3. L = CHOOSE f : Built(g, r, n, f)
  BY <1>1, <1>2, Zenon DEF Built
<1>4. Built(g, r, n, L)
  BY <1>1, <1>3, LevelsCanBeBuilt, Zenon
<1>5. \A k \in 0..n : L[k] = IF k = 0 THEN RootLevel(r) ELSE Deeper(g, r, L[k - 1])
  BY <1>4, Zenon DEF Built
<1>6. \A k \in 0..n : LevelOK(g, r, k, L[k])
  <2> DEFINE Bad == {k \in 0..n : ~ LevelOK(g, r, k, L[k])}
  <2>1. SUFFICES ASSUME Bad # {} PROVE FALSE
    OBVIOUS
  <2>2. Bad \in SUBSET Nat
    BY <1>1
  <2>3. PICK m \in Bad : \A j \in Bad : m <= j
    BY <2>1, <2>2, Least
  <2>4. CASE m = 0
    BY <1>5, <2>3, <2>4, RootIsALevel
  <2>5. CASE m # 0
    <3>1. m \in 0..n /\ m - 1 \in 0..n /\ m - 1 \in Nat /\ ~ (m <= m - 1) /\ (m - 1) + 1 = m
      BY <1>1, <2>3, <2>5
    <3>2. LevelOK(g, r, m - 1, L[m - 1])
      BY <2>3, <3>1
    <3>3. LevelOK(g, r, (m - 1) + 1, Deeper(g, r, L[m - 1]))
      BY <3>1, <3>2, DeeperIsALevel
    <3> QED
      BY <1>5, <2>3, <2>5, <3>1, <3>3
  <2> QED
    BY <2>4, <2>5
<1>7. Search(g, r) = L[n]
  BY Zenon DEF Search, n, L, Hops
<1>8. n \in 0..n
  BY <1>1
<1> QED
  BY <1>6, <1>7, <1>8 DEF n

\* The first members of a list that has more.
LEMMA SliceFacts ==
  ASSUME NEW S, NEW s \in Seq(S), NEW n \in Nat, n <= Len(s)
  PROVE  /\ Slice(s, n) \in Seq(S) /\ Len(Slice(s, n)) = n
         /\ \A i \in 1..n : i \in 1..Len(s) /\ Slice(s, n)[i] = s[i]
         /\ ToSet(Slice(s, n)) = {s[i] : i \in 1..n}
<1>1. Len(s) \in Nat
  BY LenProperties
<1>2. (IF n < Len(s) THEN n ELSE Len(s)) = n
  BY <1>1
<1>3. Slice(s, n) = SubSeq(s, 1, n)
  <2>1. n >= 0
    OBVIOUS
  <2> QED
    BY <1>2, <2>1, Zenon DEF Slice, Limit
<1>4. 1 \in Int /\ n \in Int /\ \A i \in 1..n : s[i] \in S
  BY <1>1, ElementOfSeq
<1>5. /\ SubSeq(s, 1, n) \in Seq(S)
      /\ Len(SubSeq(s, 1, n)) = IF 1 <= n THEN n - 1 + 1 ELSE 0
      /\ \A i \in 1..n - 1 + 1 : SubSeq(s, 1, n)[i] = s[1 + i - 1]
  BY <1>4, SubSeqProperties
<1>6. Len(SubSeq(s, 1, n)) = n /\ \A i \in 1..n : i \in 1..Len(s) /\ SubSeq(s, 1, n)[i] = s[i]
  BY <1>1, <1>5
<1>7. DOMAIN SubSeq(s, 1, n) = 1..n
  BY <1>5, <1>6, LenProperties
<1>8. ToSet(SubSeq(s, 1, n)) = {s[i] : i \in 1..n}
  BY <1>6, <1>7 DEF ToSet
<1> QED
  BY <1>3, <1>5, <1>6, <1>8

LEMMA FlowchartFacts ==
  ASSUME NEW g, NEW r, g.CALLS \subseteq Edges(Symbols, Symbols), r.root \in Symbols, r.depth \in Int,
         r.maxNodes \in Int, r.maxNodes >= 2
  PROVE  LET d == Flowchart(g, r)
             near == SoFar({r.root}, Around(g, r), Hops(r))
         IN /\ d.count <= r.maxNodes /\ r.root \in d.nodes
            /\ \A e \in d.edges : e.from \in d.nodes /\ e.to \in d.nodes
            /\ d.nodes \subseteq near
            /\ d.truncated <=> d.nodes # near
<1> DEFINE found == Search(g, r)
           f == found.discovered
           n == r.maxNodes
           near == SoFar({r.root}, Around(g, r), Hops(r))
           cut == Len(f) > n
           kept == IF cut THEN Slice(f, n - 1) ELSE f
           d == Flowchart(g, r)
<1>1. /\ f \in Seq(Symbols) /\ ToSet(f) = near
      /\ \A i, j \in 1..Len(f) : i < j => f[i] # f[j]
      /\ Len(f) >= 1 /\ f[1] = r.root
  BY SearchIsALevel DEF LevelOK
<1>2. /\ d.nodes = ToSet(kept) /\ d.count = Len(kept) + (IF cut THEN 1 ELSE 0) /\ d.truncated = cut
      /\ \A e \in d.edges : e.from \in ToSet(kept) /\ e.to \in ToSet(kept)
  <2>1. d = [nodes |-> ToSet(kept), count |-> Len(kept) + (IF cut THEN 1 ELSE 0), truncated |-> cut,
             edges |-> Arrows({e \in found.edges : e.from \in ToSet(kept) /\ e.to \in ToSet(kept)})]
    BY Zenon DEF Flowchart
  <2> HIDE DEF d, kept, cut
  <2> QED
    BY <2>1 DEF Arrows
<1>3. kept = IF cut THEN Slice(f, n - 1) ELSE f
  OBVIOUS
<1>4. cut <=> Len(f) > n
  OBVIOUS
<1> HIDE DEF found, near, d, kept, cut
<1>5. Len(f) \in Nat /\ DOMAIN f = 1..Len(f)
  BY <1>1, LenProperties
<1>6. \A i \in 1..Len(f) : f[i] \in near
  BY <1>1, <1>5 DEF ToSet
<1>7. CASE cut
  <2>1. PICK m \in Nat : m = n - 1
    OBVIOUS
  <2>2. m <= Len(f) /\ 1 \in 1..m /\ Len(f) \in 1..Len(f) /\ \A i \in 1..m : i \in 1..Len(f) /\ i < Len(f)
    BY <1>4, <1>5, <1>7, <2>1
  <2>3. Len(Slice(f, m)) = m /\ ToSet(Slice(f, m)) = {f[i] : i \in 1..m}
    <3>1. f \in Seq(Symbols) /\ m <= Len(f)
      BY <1>1, <2>2
    <3> HIDE DEF f
    <3> QED
      BY <3>1, SliceFacts
  <2>4. kept = Slice(f, m)
    BY <1>3, <1>7, <2>1
  <2>5. d.nodes = {f[i] : i \in 1..m} /\ d.count = n /\ d.truncated
    BY <1>2, <1>7, <2>1, <2>3, <2>4
  <2>6. r.root \in d.nodes /\ d.nodes \subseteq near
    BY <1>1, <1>6, <2>2, <2>5
  <2>7. f[Len(f)] \in near /\ f[Len(f)] \notin d.nodes
    BY <1>1, <1>6, <2>2, <2>5
  <2>8. \A e \in d.edges : e.from \in d.nodes /\ e.to \in d.nodes
    BY <1>2
  <2>9. d.nodes # near /\ d.count <= n
    BY <2>5, <2>7
  <2> QED
    BY <2>5, <2>6, <2>8, <2>9, Zenon DEF d, near
<1>8. CASE ~cut
  <2>1. kept = f
    BY <1>3, <1>8
  <2>2. d.nodes = near /\ d.count = Len(f) /\ d.count <= n /\ ~d.truncated
    BY <1>1, <1>2, <1>4, <1>5, <1>8, <2>1
  <2>3. r.root \in near
    BY <1>1, <1>5, <1>6
  <2>4. \A e \in d.edges : e.from \in d.nodes /\ e.to \in d.nodes
    BY <1>2
  <2> QED
    BY <2>2, <2>3, <2>4, Zenon DEF d, near
<1> QED
  BY <1>7, <1>8

LEMMA FileFlowFacts ==
  ASSUME NEW modules \in Seq(Nat), NEW r, r.maxNodes \in Int, r.maxNodes >= 2
  PROVE  LET d == FileFlow(modules, r)
         IN /\ d.count <= r.maxNodes
            /\ d.truncated <=> d.count < Len(modules) + 1
            /\ d.nodes # ToSet(modules) => d.truncated
<1> DEFINE n == r.maxNodes
           cut == Len(modules) > n - 1
           kept == IF cut THEN Slice(modules, n - 2) ELSE modules
           d == FileFlow(modules, r)
<1>1. d.nodes = ToSet(kept) /\ d.count = Len(kept) + 1 + (IF cut THEN 1 ELSE 0) /\ d.truncated = cut
  <2>1. d = [nodes |-> ToSet(kept), count |-> Len(kept) + 1 + (IF cut THEN 1 ELSE 0),
             truncated |-> cut, edges |-> {}]
    BY Zenon DEF FileFlow
  <2> HIDE DEF d, kept, cut
  <2> QED
    BY <2>1
<1>2. kept = IF cut THEN Slice(modules, n - 2) ELSE modules
  OBVIOUS
<1>3. cut <=> Len(modules) > n - 1
  OBVIOUS
<1> HIDE DEF d, kept, cut
<1>4. Len(modules) \in Nat
  BY LenProperties
<1>5. CASE cut
  <2>1. PICK m \in Nat : m = n - 2
    OBVIOUS
  <2>2. m <= Len(modules)
    BY <1>3, <1>4, <1>5, <2>1
  <2>3. Len(kept) = m
    BY <1>2, <1>5, <2>1, <2>2, SliceFacts
  <2>4. d.truncated /\ d.count = n /\ d.count <= n /\ d.count < Len(modules) + 1
    BY <1>1, <1>3, <1>4, <1>5, <2>1, <2>3
  <2> QED
    BY <2>4, Zenon DEF d
<1>6. CASE ~cut
  <2>1. ~d.truncated /\ d.count <= n /\ ~(d.count < Len(modules) + 1) /\ d.nodes = ToSet(modules)
    BY <1>1, <1>2, <1>3, <1>4, <1>6
  <2> QED
    BY <2>1, Zenon DEF d
<1> QED
  BY <1>5, <1>6

LEMMA ClassBoxFacts ==
  ASSUME NEW g, NEW r, g.MEMBER_OF \subseteq Edges(Symbols, Symbols), r.maxNodes \in Int, r.maxNodes >= 2
  PROVE  LET d == ClassBox(g, r)
             members == {e.from : e \in {x \in g.MEMBER_OF : x.to = r.root}}
         IN /\ r.root \in d.nodes /\ d.count <= r.maxNodes + 1
            /\ d.truncated <=> ~ members \subseteq d.nodes
<1> DEFINE n == r.maxNodes
           all == {e.from : e \in {x \in g.MEMBER_OF : x.to = r.root}}
           members == Sorted(all, <)
           cut == Len(members) > n
           shown == IF cut THEN Slice(members, n - 1) ELSE members
           d == ClassBox(g, r)
<1>1. d.nodes = ToSet(shown) \union {r.root} /\ d.truncated = cut /\ d.count = 1 + Len(shown)
  <2>1. d = [nodes |-> ToSet(shown) \union {r.root}, count |-> 1 + Len(shown), truncated |-> cut,
             edges |-> Arrows({e \in g["EXTENDS"] \union g.IMPLEMENTS : e.from = r.root})]
    BY Zenon DEF ClassBox
  <2> HIDE DEF d, shown, cut
  <2> QED
    BY <2>1
<1>2. all \in SUBSET Symbols
  BY DEF Edges
<1>3. shown = IF cut THEN Slice(members, n - 1) ELSE members
  OBVIOUS
<1>4. cut <=> Len(members) > n
  OBVIOUS
<1> HIDE DEF d, all, shown, cut
<1>5. /\ members \in Seq(all)
      /\ \A x \in all : \E i \in 1..Len(members) : members[i] = x
      /\ \A i, j \in 1..Len(members) : i < j => members[i] # members[j]
  BY <1>2, ByName
<1> HIDE DEF members
<1>6. Len(members) \in Nat /\ DOMAIN members = 1..Len(members) /\ \A i \in 1..Len(members) : members[i] \in all
  BY <1>5, LenProperties, ElementOfSeq
<1>7. CASE cut
  <2>1. PICK m \in Nat : m = n - 1
    OBVIOUS
  <2>2. /\ m <= Len(members) /\ m + 1 \in 1..Len(members) /\ m + 2 \in 1..Len(members) /\ m + 1 < m + 2
        /\ \A i \in 1..m : i \in 1..Len(members) /\ i < m + 1 /\ i < m + 2
    BY <1>4, <1>6, <1>7, <2>1
  <2>3. ToSet(shown) = {members[i] : i \in 1..m} /\ Len(shown) = m
    <3>1. shown = Slice(members, m)
      BY <1>3, <1>7, <2>1
    <3>2. ToSet(Slice(members, m)) = {members[i] : i \in 1..m} /\ Len(Slice(members, m)) = m
      <4>1. members \in Seq(all)
        BY <1>5
      <4>2. m <= Len(members)
        BY <2>2
      <4> QED
        BY <2>1, <4>1, <4>2, SliceFacts
    <3> QED
      BY <3>1, <3>2
  <2>4. d.nodes = {members[i] : i \in 1..m} \union {r.root} /\ d.truncated /\ d.count <= n + 1
    BY <1>1, <1>7, <2>1, <2>3
  <2> DEFINE a == m + 1
             b == m + 2
  <2> HIDE DEF a, b
  <2>5. a \in 1..Len(members) /\ b \in 1..Len(members) /\ a < b /\ \A i \in 1..m : i \in 1..Len(members) /\ i < a /\ i < b
    BY <2>2 DEF a, b
  <2>6. members[a] # members[b] /\ \A i \in 1..m : members[i] # members[a] /\ members[i] # members[b]
    BY <1>5, <2>5
  <2>7. ~ all \subseteq d.nodes
    BY <1>6, <2>4, <2>5, <2>6
  <2> QED
    BY <2>4, <2>7, Zenon DEF d, all
<1>8. CASE ~cut
  <2>1. ToSet(members) = all
    BY <1>5, <1>6 DEF ToSet
  <2>2. d.nodes = all \union {r.root} /\ ~d.truncated /\ d.count <= n + 1
    BY <1>1, <1>3, <1>4, <1>6, <1>8, <2>1
  <2>3. r.root \in d.nodes /\ all \subseteq d.nodes
    BY <2>2
  <2> QED
    BY <2>2, <2>3, Zenon DEF d, all
<1>9. r.root \in d.nodes
  BY <1>1
<1> QED
  BY <1>7, <1>8, <1>9, Zenon DEF d

\* How often a symbol is called.
CalledIn(g, s) == Cardinality({e \in g.CALLS : e.to = s})

LEMMA CentralFacts ==
  ASSUME NEW g, IsFiniteSet(g.CALLS), NEW r, r.maxNodes \in Int, r.maxNodes >= 2
  PROVE  LET d == Central(g, r)
         IN /\ d.count <= r.maxNodes
            /\ \A e \in d.edges : e.from \in d.nodes /\ e.to \in d.nodes
            /\ \A n \in Symbols \ d.nodes : CalledIn(g, n) > 0 =>
                 d.count = r.maxNodes /\ \A k \in d.nodes : CalledIn(g, k) >= CalledIn(g, n)
<1> DEFINE S == {s \in Symbols : CalledIn(g, s) > 0}
           before(a, b) == \/ CalledIn(g, a) > CalledIn(g, b)
                           \/ CalledIn(g, a) = CalledIn(g, b) /\ a < b
           B == {p \in S \X S : before(p[1], p[2])}
           o == Sorted(S, before)
           m == r.maxNodes
           kept == ToSet(Limit(o, m))
           d == Central(g, r)
<1>1. d = [nodes |-> kept, count |-> Cardinality(kept), truncated |-> FALSE,
           edges |-> Arrows({e \in g.CALLS : e.from \in kept /\ e.to \in kept})]
  <2>1. (IF r.maxNodes < 1 THEN 1 ELSE r.maxNodes) = m
    OBVIOUS
  <2> QED
    BY <2>1, Zenon DEF Central, CalledIn
<1>2. /\ d.nodes = kept /\ d.count = Cardinality(kept)
      /\ \A e \in d.edges : e.from \in kept /\ e.to \in kept
  <2> HIDE DEF d, kept
  <2> QED
    BY <1>1 DEF Arrows
<1> HIDE DEF d
<1>3. \A x : CalledIn(g, x) \in Nat
  BY FS_Subset, FS_CardinalityType DEF CalledIn
<1>4. IsFiniteSet(S) /\ S \subseteq Nat
  <2>1. S \subseteq Symbols
    OBVIOUS
  <2> HIDE DEF S
  <2> QED
    BY <2>1, GraphAssumption, FS_Subset
<1>5. o = [i \in 1..Cardinality(S) |-> CHOOSE x \in S : Cardinality({y \in S : before(y, x)}) = i - 1]
  BY Zenon DEF Sorted
<1> HIDE DEF S
<1>6. Strict(S, B) /\ Total(S, B)
  <2>1. \A x, y \in S : <<x, y>> \in B <=> before(x, y)
    OBVIOUS
  <2>2. \A x \in S : x \in Nat /\ CalledIn(g, x) \in Nat
    BY <1>3, <1>4
  <2> HIDE DEF B
  <2> QED
    BY <2>1, <2>2 DEF Strict, Total
<1>7. \A x \in S : Below(S, B, x) = {y \in S : before(y, x)}
  BY DEF Below
<1>8. \A x, y \in S : <<x, y>> \in B => CalledIn(g, x) >= CalledIn(g, y)
  BY <1>3
<1> HIDE DEF B, before
<1>9. \A i \in 1..Cardinality(S) : \E x \in S : Cardinality({y \in S : before(y, x)}) = i - 1
  <2>1. \A i \in 1..Cardinality(S) : \E x \in S : Cardinality(Below(S, B, x)) = i - 1
    BY <1>4, <1>6, EachPlaceIsTaken
  <2> QED
    BY <1>7, <2>1, Zenon
<1>10. \A i \in 1..Cardinality(S) : o[i] \in S /\ Cardinality({y \in S : before(y, o[i])}) = i - 1
  BY <1>5, <1>9, Zenon
<1>11. o \in [1..Cardinality(S) -> S]
  BY <1>5, <1>10, Zenon
<1>12. InOrder(o, S, B)
  BY <1>7, <1>10, <1>11, Zenon DEF InOrder
<1>13. /\ o \in Seq(S)
       /\ \A x \in S : \E i \in 1..Len(o) : o[i] = x
       /\ \A i, j \in 1..Len(o) : i < j => <<o[i], o[j]>> \in B
  BY <1>4, <1>6, <1>12, OrderedFacts
<1> HIDE DEF o
<1> DEFINE c == Limit(o, m)
<1>14. /\ c \in Seq(S) /\ m \in Nat
       /\ \A i \in 1..Len(o) : i <= m => i \in 1..Len(c)
       /\ \A i \in 1..Len(c) : i \in 1..Len(o) /\ c[i] = o[i]
  <2>1. m \in Nat
    OBVIOUS
  <2> QED
    BY <1>13, <2>1, LimitFacts, Zenon
<1>15. Len(c) \in Nat /\ Len(o) \in Nat /\ DOMAIN c = 1..Len(c) /\ \A i \in 1..Len(o) : o[i] \in S
  BY <1>13, <1>14, LenProperties, ElementOfSeq
<1>16. Len(c) <= m
  <2>1. Limit(o, m) = SubSeq(o, 1, IF m < Len(o) THEN m ELSE Len(o))
    BY Zenon DEF Limit
  <2> DEFINE l == IF m < Len(o) THEN m ELSE Len(o)
  <2>2. l \in Nat /\ l <= m /\ l <= Len(o)
    BY <1>14, <1>15
  <2>3. c = SubSeq(o, 1, l)
    BY <2>1
  <2> HIDE DEF l, c
  <2>4. \A i \in 1..l : o[i] \in S
    BY <1>15, <2>2
  <2>5. Len(SubSeq(o, 1, l)) = IF 1 <= l THEN l - 1 + 1 ELSE 0
    BY <2>2, <2>4, SubSeqProperties
  <2> QED
    BY <2>2, <2>3, <2>5
<1>17. kept = ToSet(c)
  OBVIOUS
<1> HIDE DEF kept, c
<1>18. kept = {c[i] : i \in 1..Len(c)}
  BY <1>15, <1>17 DEF ToSet
<1>19. Cardinality(kept) = Len(c)
  <2> DEFINE f == [i \in 1..Len(c) |-> c[i]]
  <2>1. \A i \in 1..Len(c) : c[i] \in kept
    BY <1>18
  <2>2. \A i, j \in 1..Len(c) : i # j => c[i] # c[j]
    <3>1. \A i, j \in 1..Len(c) : i < j => c[i] # c[j]
      <4> SUFFICES ASSUME NEW i \in 1..Len(c), NEW j \in 1..Len(c), i < j
                   PROVE  c[i] # c[j]
        OBVIOUS
      <4>1. <<c[i], c[j]>> \in B /\ c[i] \in S
        BY <1>13, <1>14, <1>15
      <4> QED
        BY <1>6, <4>1 DEF Strict
    <3> QED
      BY <1>15, <3>1
  <2>3. f \in Bijection(1..Len(c), kept)
    <3>1. f \in [1..Len(c) -> kept] /\ \A i \in 1..Len(c) : f[i] = c[i]
      BY <2>1
    <3> HIDE DEF f
    <3> QED
      BY <1>18, <2>2, <3>1 DEF Bijection, Injection, Surjection, IsInjective
  <2>4. IsFiniteSet(1..Len(c)) /\ Cardinality(1..Len(c)) = Len(c)
    <3>1. 1 \in Int /\ Len(c) \in Int /\ (IF 1 > Len(c) THEN 0 ELSE Len(c) - 1 + 1) = Len(c)
      BY <1>15
    <3> QED
      BY <3>1, FS_Interval, Zenon
  <2>5. ExistsBijection(1..Len(c), kept)
    BY <2>3 DEF ExistsBijection
  <2> QED
    BY <2>4, <2>5, FS_Bijection, Zenon
<1>20. ASSUME NEW n \in Symbols, n \notin kept, CalledIn(g, n) > 0
       PROVE  Len(c) = m /\ \A k \in kept : CalledIn(g, k) >= CalledIn(g, n)
  <2>1. n \in S
    BY <1>20 DEF S
  <2>2. PICK i \in 1..Len(o) : o[i] = n
    BY <1>13, <2>1
  <2>3. i \notin 1..Len(c)
    BY <1>14, <1>18, <1>20, <2>2
  <2>4. i > m
    BY <1>14, <1>15, <2>3
  <2>5. Len(c) = m
    <3>1. m \in 1..Len(o)
      BY <1>14, <1>15, <2>4
    <3>2. m \in 1..Len(c)
      BY <1>14, <3>1
    <3> QED
      BY <1>15, <1>16, <3>2
  <2>6. ASSUME NEW k \in kept
        PROVE  CalledIn(g, k) >= CalledIn(g, n)
    <3>1. PICK j \in 1..Len(c) : k = c[j]
      BY <1>18
    <3>2. j \in 1..Len(o) /\ k = o[j] /\ j < i
      BY <1>14, <1>15, <2>4, <2>5, <3>1
    <3>3. <<k, n>> \in B /\ k \in S
      BY <1>13, <1>15, <2>2, <3>2
    <3> QED
      BY <1>8, <2>1, <3>3
  <2> QED
    BY <2>5, <2>6
<1> QED
  BY <1>2, <1>16, <1>19, <1>20 DEF d

\* A diagram is answered with what is drawn of the graph it was asked of.
Drawing(g, r) ==
  CASE r.kind = "flowchart" -> Flowchart(g, r)
    [] r.kind = "central"   -> Central(g, r)
    [] r.kind = "file"      -> FileFlow(r.modules, r)
    [] r.kind = "class"     -> ClassBox(g, r)

DrawnWhole == pc = "done" /\ ask.tool = "diagram" => answer = {Drawing(graph, ask)}

LEMMA DrawnWholeAlways == SpecQuery => []DrawnWhole
<1>1. Init => DrawnWhole
  BY DEF Init, DrawnWhole
<1>2. ASSUME Asked, DrawnWhole, [NextQuery]_vars
      PROVE  DrawnWhole'
  <2>1. CASE Draw
    <3>1. answer' = {Drawing(graph, ask)} /\ graph' = graph /\ ask' = ask
      BY <2>1, Zenon DEF Draw, Answer, Drawing
    <3> QED
      BY <3>1, Zenon DEF DrawnWhole
  <2>2. CASE View \/ Find
    BY <2>2 DEF View, Find, Answer, DrawnWhole
  <2>3. CASE Next
    <3>1. ask' = ask
      BY <2>3, Zenon DEF Next, Refuse, Resolve, ImpactHop, ImpactDone, Context, FlowEnter, FlowPop, FlowLeave,
         FlowDone, TraceChain, TailHop, TailDone, TraceUpstream, TraceDone
    <3>2. pc' = "done" => ask.tool # "diagram"
      BY <1>2, <2>3 DEF Asked, Stops, Walkers, Next, Refuse, Resolve, ImpactHop, ImpactDone, Context, FlowEnter, FlowPop, FlowLeave,
         FlowDone, TraceChain, TailHop, TailDone, TraceUpstream, TraceDone
    <3> QED
      BY <3>1, <3>2 DEF DrawnWhole
  <2>4. CASE UNCHANGED vars
    BY <1>2, <2>4, Zenon DEF DrawnWhole, vars
  <2> QED
    BY <1>2, <2>1, <2>2, <2>3, <2>4 DEF NextQuery
<1> QED
  BY <1>1, <1>2, AskedAlways, PTL DEF SpecQuery

\* Whatever the graph: a diagram asked for with two nodes or more has the node it is
\* about, no more nodes than asked for (a class one more, itself), and edges between
\* its nodes only. Around a symbol, a file or a class it is marked as cut exactly when
\* something is left out; of the most called symbols one is left out, unmarked, only
\* if as many as asked for are there and none of them is called less.
THEOREM DiagramsAreHonest == SpecQuery => []DiagramIsHonest
<1>1. ASSUME Asked, DrawnWhole
      PROVE  DiagramIsHonest
  <2>1. SUFFICES ASSUME Answered("diagram"), ask.maxNodes >= 2, NEW d \in answer
                 PROVE
        /\ d.count <= ask.maxNodes + (IF ask.kind = "class" THEN 1 ELSE 0)
        /\ ask.kind \in {"flowchart", "class"} => ask.root \in d.nodes
        /\ ask.kind \in {"flowchart", "central"} =>
            \A e \in d.edges : e.from \in d.nodes /\ e.to \in d.nodes
        /\ ask.kind = "central" =>
            \A n \in Symbols \ d.nodes : CalledIn(graph, n) > 0 =>
                d.count = ask.maxNodes /\ \A k \in d.nodes : CalledIn(graph, k) >= CalledIn(graph, n)
        /\ ask.kind = "file" =>
            /\ d.truncated <=> d.count < Len(ask.modules) + 1
            /\ d.nodes # ToSet(ask.modules) => d.truncated
        /\ ask.kind = "class" =>
            (d.truncated <=> ~ {e.from : e \in {x \in graph.MEMBER_OF : x.to = ask.root}} \subseteq d.nodes)
        /\ ask.kind = "flowchart" =>
            LET near == UNION {ReachedBy({ask.root}, Around(graph, ask), k) : k \in {0} \union 1..ask.depth}
            IN /\ d.nodes \subseteq near
               /\ d.truncated <=> d.nodes # near
    BY Zenon DEF DiagramIsHonest, Around, CalledIn
  <2>2. d = Drawing(graph, ask) /\ ask.tool = "diagram"
    BY <1>1, <2>1 DEF DrawnWhole, Answered
  <2>3. PICK c \in Cases : graph = c.graph /\ ask = c.ask
    BY <1>1 DEF Asked
  <2>4. /\ graph.CALLS \subseteq Edges(Symbols, Symbols)
        /\ graph.MEMBER_OF \subseteq Edges(Symbols, Symbols)
        /\ ask.maxNodes \in Int /\ ask.kind \in {"flowchart", "file", "class", "central"}
        /\ ask.kind = "flowchart" => ask.root \in Symbols /\ ask.depth \in Int
        /\ ask.kind = "file" => ask.modules \in Seq(Nat)
    <3>1. graph.CALLS \subseteq Edges(Symbols, Symbols)
      BY <2>3, CasesAssumption, Zenon
    <3>2. /\ c.graph.MEMBER_OF \subseteq Edges(Symbols, Symbols)
          /\ c.ask.tool = "diagram" =>
            /\ c.ask.maxNodes \in Int /\ c.ask.kind \in {"flowchart", "central", "file", "class"}
            /\ c.ask.kind = "flowchart" => c.ask.root \in Symbols /\ c.ask.depth \in Int
            /\ c.ask.kind = "file" => c.ask.modules \in Seq(Nat)
      BY ViewsAssumption, Zenon
    <3> QED
      BY <2>2, <2>3, <3>1, <3>2, Zenon
  <2>5. CASE ask.kind = "flowchart"
    <3> DEFINE near == SoFar({ask.root}, Around(graph, ask), Hops(ask))
               far == UNION {ReachedBy({ask.root}, Around(graph, ask), k) : k \in {0} \union 1..ask.depth}
    <3>1. d = Flowchart(graph, ask)
      BY <2>2, <2>5 DEF Drawing
    <3>2. /\ d.count <= ask.maxNodes /\ ask.root \in d.nodes
          /\ \A e \in d.edges : e.from \in d.nodes /\ e.to \in d.nodes
          /\ d.nodes \subseteq near
          /\ d.truncated <=> d.nodes # near
      BY <2>1, <2>4, <2>5, <3>1, FlowchartFacts, Zenon
    <3>3. {0} \union 1..ask.depth = 0..Hops(ask)
      BY <2>4, <2>5 DEF Hops
    <3>4. far = near
      BY <3>3, Zenon DEF SoFar
    <3> HIDE DEF near, far
    <3>5. d.nodes \subseteq far /\ (d.truncated <=> d.nodes # far)
      BY <3>2, <3>4, Zenon
    <3>6. d.count <= ask.maxNodes + (IF ask.kind = "class" THEN 1 ELSE 0)
      BY <2>4, <2>5, <3>2
    <3> QED
      BY <2>5, <3>2, <3>5, <3>6, Zenon DEF far
  <2>6. CASE ask.kind = "file"
    <3>1. d = FileFlow(ask.modules, ask)
      BY <2>2, <2>6 DEF Drawing
    <3>2. /\ d.count <= ask.maxNodes
          /\ d.truncated <=> d.count < Len(ask.modules) + 1
          /\ d.nodes # ToSet(ask.modules) => d.truncated
      BY <2>1, <2>4, <2>6, <3>1, FileFlowFacts, Zenon
    <3>3. d.count <= ask.maxNodes + (IF ask.kind = "class" THEN 1 ELSE 0)
      BY <2>4, <2>6, <3>2
    <3> QED
      BY <2>6, <3>2, <3>3, Zenon
  <2>7. CASE ask.kind = "class"
    <3>1. d = ClassBox(graph, ask)
      BY <2>2, <2>7 DEF Drawing
    <3>2. /\ ask.root \in d.nodes /\ d.count <= ask.maxNodes + 1
          /\ d.truncated <=> ~ {e.from : e \in {x \in graph.MEMBER_OF : x.to = ask.root}} \subseteq d.nodes
      BY <2>1, <2>4, <3>1, ClassBoxFacts, Zenon
    <3>3. d.count <= ask.maxNodes + (IF ask.kind = "class" THEN 1 ELSE 0)
      BY <2>4, <2>7, <3>2
    <3> QED
      BY <2>7, <3>2, <3>3, Zenon
  <2>8. CASE ask.kind = "central"
    <3>1. d = Central(graph, ask)
      BY <2>2, <2>8 DEF Drawing
    <3>2. IsFiniteSet(graph.CALLS)
      <4>1. \A t \in AllTypes : IsFiniteSet(graph[t])
        BY <2>3, ViewsAssumption, Zenon
      <4>2. "CALLS" \in AllTypes
        BY DEF AllTypes, DefaultTypes, SymbolSymbol
      <4> QED
        BY <4>1, <4>2
    <3>3. /\ d.count <= ask.maxNodes
          /\ \A e \in d.edges : e.from \in d.nodes /\ e.to \in d.nodes
          /\ \A n \in Symbols \ d.nodes : CalledIn(graph, n) > 0 =>
               d.count = ask.maxNodes /\ \A k \in d.nodes : CalledIn(graph, k) >= CalledIn(graph, n)
      BY <2>1, <2>4, <3>1, <3>2, CentralFacts, Zenon
    <3>4. d.count <= ask.maxNodes + (IF ask.kind = "class" THEN 1 ELSE 0)
      BY <2>4, <2>8, <3>3
    <3> QED
      BY <2>8, <3>3, <3>4, Zenon
  <2> QED
    BY <2>4, <2>5, <2>6, <2>7, <2>8, Zenon
<1> QED
  BY <1>1, AskedAlways, DrawnWholeAlways, PTL
-----------------------------------------------------------------------------
(* flow. *)

OneByOne(s) == \A i, j \in 1..Len(s) : s[i] = s[j] => i = j

LEMMA FrontFacts ==
  ASSUME NEW S, NEW s \in Seq(S), s # <<>>
  PROVE  /\ Front(s) \in Seq(S) /\ Len(Front(s)) = Len(s) - 1 /\ Len(s) \in Nat \ {0}
         /\ \A i \in 1..Len(s) - 1 : Front(s)[i] = s[i]
         /\ Last(s) = s[Len(s)] /\ Last(s) \in S
<1>1. Len(s) \in Nat \ {0}
  BY EmptySeq
<1>2. \A i \in 1..Len(s) - 1 : s[i] \in S
  BY <1>1, ElementOfSeq
<1>3. /\ SubSeq(s, 1, Len(s) - 1) \in Seq(S)
      /\ Len(SubSeq(s, 1, Len(s) - 1)) = IF 1 <= Len(s) - 1 THEN Len(s) - 1 - 1 + 1 ELSE 0
      /\ \A i \in 1..Len(s) - 1 - 1 + 1 : SubSeq(s, 1, Len(s) - 1)[i] = s[1 + i - 1]
  BY <1>1, <1>2, SubSeqProperties
<1>4. Len(SubSeq(s, 1, Len(s) - 1)) = Len(s) - 1
  <2> DEFINE m == Len(s) - 1
  <2>1. Len(SubSeq(s, 1, m)) = IF 1 <= m THEN m - 1 + 1 ELSE 0
    BY <1>3, Zenon
  <2>2. m \in Nat
    BY <1>1
  <2> HIDE DEF m
  <2>3. Len(SubSeq(s, 1, m)) = m
    BY <2>1, <2>2
  <2> QED
    BY <2>3 DEF m
<1>5. \A i \in 1..Len(s) - 1 : SubSeq(s, 1, Len(s) - 1)[i] = s[i]
  <2>1. \A i \in 1..Len(s) - 1 : i \in 1..Len(s) - 1 - 1 + 1 /\ 1 + i - 1 = i
    BY <1>1
  <2>2. \A i \in 1..Len(s) - 1 : SubSeq(s, 1, Len(s) - 1)[i] = s[1 + i - 1]
    BY <1>3, <2>1, Zenon
  <2> QED
    BY <2>1, <2>2
<1> QED
  BY <1>1, <1>3, <1>4, <1>5, ElementOfSeq DEF Front, Last

\* Without its last member, a sequence of different ones has the others.
LEMMA FrontOfDifferent ==
  ASSUME NEW S, NEW s \in Seq(S), s # <<>>, OneByOne(s)
  PROVE  OneByOne(Front(s)) /\ Range(Front(s)) = Range(s) \ {Last(s)} /\ Last(s) \in Range(s)
<1>1. /\ Front(s) \in Seq(S) /\ Len(Front(s)) = Len(s) - 1 /\ Len(s) \in Nat \ {0}
      /\ \A i \in 1..Len(s) - 1 : Front(s)[i] = s[i]
      /\ Last(s) = s[Len(s)]
  BY FrontFacts
<1>2. Range(s) = {s[i] : i \in 1..Len(s)} /\ Range(Front(s)) = {Front(s)[i] : i \in 1..Len(Front(s))}
  BY <1>1, RangeEquality, Zenon
<1>3. \A x : x \in Range(Front(s)) <=> \E i \in 1..Len(s) - 1 : s[i] = x
  BY <1>1, <1>2
<1>4. \A x : x \in Range(s) <=> \E i \in 1..Len(s) : s[i] = x
  BY <1>2
<1>5. \A x : x \in Range(Front(s)) <=> x \in Range(s) /\ x # Last(s)
  <2>1. \A i \in 1..Len(s) : s[i] = s[Len(s)] <=> i = Len(s)
    BY <1>1 DEF OneByOne
  <2> QED
    BY <1>1, <1>3, <1>4, <2>1
<1> QED
  BY <1>1, <1>4, <1>5 DEF OneByOne

\* Two sequences of different members that share none make one.
LEMMA JoinedIsDifferent ==
  ASSUME NEW S, NEW s \in Seq(S), NEW t \in Seq(S), OneByOne(s), OneByOne(t),
         Range(s) \intersect Range(t) = {}
  PROVE  OneByOne(s \o t)
<1>1. /\ s \o t \in Seq(S) /\ Len(s \o t) = Len(s) + Len(t)
      /\ \A i \in 1..Len(s) + Len(t) : (s \o t)[i] = IF i <= Len(s) THEN s[i] ELSE t[i - Len(s)]
  BY ConcatProperties
<1>2. Len(s) \in Nat /\ Len(t) \in Nat
  BY LenProperties
<1>3. \A i \in 1..Len(s), j \in 1..Len(t) : s[i] # t[j]
  <2>1. Range(s) = {s[i] : i \in 1..Len(s)} /\ Range(t) = {t[i] : i \in 1..Len(t)}
    BY RangeEquality, Zenon
  <2> QED
    BY <2>1
<1> SUFFICES ASSUME NEW i \in 1..Len(s) + Len(t), NEW j \in 1..Len(s) + Len(t), (s \o t)[i] = (s \o t)[j]
             PROVE  i = j
  BY <1>1 DEF OneByOne
<1>4. CASE i <= Len(s) /\ j <= Len(s)
  BY <1>1, <1>2, <1>4 DEF OneByOne
<1>5. CASE i <= Len(s) /\ ~(j <= Len(s))
  BY <1>1, <1>2, <1>3, <1>5
<1>6. CASE ~(i <= Len(s)) /\ j <= Len(s)
  BY <1>1, <1>2, <1>3, <1>6
<1>7. CASE ~(i <= Len(s)) /\ ~(j <= Len(s))
  <2>1. i - Len(s) \in 1..Len(t) /\ j - Len(s) \in 1..Len(t)
    BY <1>2, <1>7
  <2>2. t[i - Len(s)] = t[j - Len(s)]
    BY <1>1, <1>7
  <2>3. i - Len(s) = j - Len(s)
    BY <2>1, <2>2, Zenon DEF OneByOne
  <2> QED
    BY <1>2, <2>3
<1> QED
  BY <1>4, <1>5, <1>6, <1>7

LEMMA AppendedFacts ==
  ASSUME NEW S, NEW s \in Seq(S), NEW x \in S
  PROVE  /\ Append(s, x) \in Seq(S) /\ Range(Append(s, x)) = Range(s) \union {x}
         /\ OneByOne(s) /\ x \notin Range(s) => OneByOne(Append(s, x))
<1>1. <<x>> \in Seq(S) /\ Range(<<x>>) = {x} /\ OneByOne(<<x>>)
  <2>1. <<x>> \in Seq(S) /\ Len(<<x>>) = 1 /\ <<x>>[1] = x
    OBVIOUS
  <2>2. Range(<<x>>) = {<<x>>[i] : i \in 1..1}
    BY <2>1, RangeEquality, Zenon
  <2> QED
    BY <2>1, <2>2 DEF OneByOne
<1>2. Append(s, x) = s \o <<x>>
  BY AppendIsConcat
<1>3. s \o <<x>> \in Seq(S) /\ Range(s \o <<x>>) = Range(s) \union Range(<<x>>)
  <2>1. <<x>> \in Seq(S)
    BY <1>1
  <2>2. s \o <<x>> \in Seq(S)
    BY <2>1, ConcatProperties
  <2>3. Range(s \o <<x>>) = Range(s) \union Range(<<x>>)
    BY <2>1, RangeConcatenation
  <2> QED
    BY <2>2, <2>3
<1>4. OneByOne(s) /\ x \notin Range(s) => OneByOne(s \o <<x>>)
  BY <1>1, JoinedIsDifferent
<1> QED
  BY <1>1, <1>2, <1>3, <1>4

\* A set of edges from one symbol, in the order of the query.
LEMMA RowsInOrder ==
  ASSUME NEW s, NEW es, IsFiniteSet(es), Numbered(es),
         es \subseteq Edges(Symbols, Symbols), \A e \in es : e.from = s
  PROVE  LET o == OrderBy(es, To)
         IN o \in Seq(es) /\ Len(o) = Cardinality(es) /\ Range(o) = es /\ OneByOne(o)
<1> DEFINE n == Cardinality(es)
           Earlier(a, b) == \/ To(a) < To(b)
                            \/ To(a) = To(b) /\ a.row < b.row
           B == {p \in es \X es : Earlier(p[1], p[2])}
           o == OrderBy(es, To)
<1>1. \A e \in es : e.to \in Nat /\ e.row \in Nat
  BY GraphAssumption DEF Edges
<1>3. /\ \A x \in es : ~Earlier(x, x)
      /\ \A x, y, z \in es : Earlier(x, y) /\ Earlier(y, z) => Earlier(x, z)
  BY <1>1 DEF To
<1>4. \A x, y \in es : x = y \/ Earlier(x, y) \/ Earlier(y, x)
  <2> SUFFICES ASSUME NEW x \in es, NEW y \in es, ~Earlier(x, y), ~Earlier(y, x)
               PROVE  x = y
    BY Zenon
  <2>1. x.row = y.row
    BY <1>1 DEF To
  <2> QED
    BY <2>1 DEF Numbered
<1>5. \A x \in es : Below(es, B, x) = {y \in es : Earlier(y, x)}
  BY DEF Below
<1> HIDE DEF Earlier
<1>6. Strict(es, B) /\ Total(es, B)
  <2>1. \A x, y \in es : <<x, y>> \in B <=> Earlier(x, y)
    OBVIOUS
  <2> HIDE DEF B
  <2> QED
    BY <1>3, <1>4, <2>1 DEF Strict, Total
<1> HIDE DEF B
<1>7. \A i \in 1..n : \E x \in es : Cardinality({y \in es : Earlier(y, x)}) = i - 1
  <2>1. \A i \in 1..n : \E x \in es : Cardinality(Below(es, B, x)) = i - 1
    BY <1>6, EachPlaceIsTaken
  <2> QED
    BY <1>5, <2>1, Zenon
<1>8. o = [i \in 1..n |-> CHOOSE x \in es : Cardinality({y \in es : Earlier(y, x)}) = i - 1]
  BY Zenon DEF OrderBy, Sorted, Earlier
<1> HIDE DEF o
<1>9. \A i \in 1..n : o[i] \in es /\ Cardinality({y \in es : Earlier(y, o[i])}) = i - 1
  BY <1>7, <1>8, Zenon
<1>10. o \in [1..n -> es]
  BY <1>8, <1>9, Zenon
<1>11. InOrder(o, es, B)
  BY <1>5, <1>9, <1>10, Zenon DEF InOrder
<1>12. /\ o \in Seq(es) /\ Len(o) = n
       /\ \A x \in es : \E i \in 1..Len(o) : o[i] = x
       /\ \A i, j \in 1..Len(o) : i < j => <<o[i], o[j]>> \in B
  BY <1>6, <1>11, OrderedFacts
<1>13. OneByOne(o)
  <2>1. \A i \in 1..Len(o) : o[i] \in es
    BY <1>12, ElementOfSeq
  <2>2. \A i, j \in 1..Len(o) : i < j => o[i] # o[j]
    BY <1>6, <1>12, <2>1 DEF Strict
  <2>3. Len(o) \in Nat
    BY <1>12, LenProperties
  <2> QED
    BY <2>2, <2>3 DEF OneByOne
<1>14. Range(o) = es
  <2>1. Range(o) = {o[i] : i \in 1..Len(o)}
    BY <1>12, RangeEquality, Zenon
  <2>2. \A i \in 1..Len(o) : o[i] \in es
    BY <1>12, ElementOfSeq
  <2> QED
    BY <1>12, <2>1, <2>2
<1> QED
  BY <1>12, <1>13, <1>14 DEF o

FlowSteps == [symbol : Symbols, conf : Confidence, cycle : BOOLEAN, row : Nat]

\* What a symbol calls apart from itself, and what of it flow follows.
CallsOf(g, s)   == {e \in g.CALLS : e.from = s /\ e.to # s}
CalleesIn(g, s) == Limit(OrderBy({e \in g.CALLS : e.from = s /\ e.to # s}, To), MaxCallees)
AllFit(g)       == \A s \in Symbols : Cardinality({e \in g.CALLS : e.from = s}) <= MaxCallees

\* A graph of a case, as far as flow reads it.
CallsOK(g) == /\ g.CALLS \subseteq Edges(Symbols, Symbols) /\ IsFiniteSet(g.CALLS)
              /\ Numbered(g.CALLS)

Farther(p, e, cyclic) == Append(p, [symbol |-> e.to, conf |-> e.conf, cycle |-> cyclic, row |-> e.row])
FollowedTo(g, p, cyclic) ==
  {e \in Range(CalleesIn(g, p[Len(p)].symbol)) : e.to \in Names(p) <=> cyclic}
OnwardIn(g, p, cyclic) ==
  LET some == OrderBy({e \in ToSet(CalleesIn(g, Last(p).symbol)) : e.to \in Names(p) <=> cyclic}, To)
  IN [i \in DOMAIN some |-> Append(p, [symbol |-> some[i].to, conf |-> some[i].conf, cycle |-> cyclic, row |-> some[i].row])]

LEMMA CalleesFacts ==
  ASSUME NEW g, CallsOK(g), NEW s \in Symbols
  PROVE  /\ CalleesIn(g, s) \in Seq(CallsOf(g, s))
         /\ Range(CalleesIn(g, s)) \subseteq CallsOf(g, s)
         /\ IsFiniteSet(Range(CalleesIn(g, s)))
         /\ CalleesIn(g, s) = <<>> <=> Range(CalleesIn(g, s)) = {}
         /\ AllFit(g) => Range(CalleesIn(g, s)) = CallsOf(g, s)
<1> DEFINE es == CallsOf(g, s)
           o == OrderBy(es, To)
           c == CalleesIn(g, s)
<1>1. /\ IsFiniteSet(es) /\ es \subseteq Edges(Symbols, Symbols) /\ \A e \in es : e.from = s
  BY FS_Subset DEF CallsOK, CallsOf
<1>2. o \in Seq(es) /\ Len(o) = Cardinality(es) /\ Range(o) = es
  <2>1. Numbered(es)
    BY DEF CallsOK, CallsOf, Numbered
  <2> HIDE DEF es
  <2> QED
    BY <1>1, <2>1, RowsInOrder, Zenon
<1>3. c = Limit(o, MaxCallees)
  BY Zenon DEF CalleesIn, CallsOf
<1>4. Cardinality(es) <= Cardinality({e \in g.CALLS : e.from = s}) /\ Cardinality(es) \in Nat
      /\ Cardinality({e \in g.CALLS : e.from = s}) \in Nat
  <2>1. IsFiniteSet({e \in g.CALLS : e.from = s}) /\ es \subseteq {e \in g.CALLS : e.from = s}
    BY FS_Subset DEF CallsOK, CallsOf
  <2> QED
    BY <2>1, FS_Subset, FS_CardinalityType, Zenon
<1> HIDE DEF es, o, c
<1>5. /\ c \in Seq(es) /\ Len(c) <= Len(o)
      /\ \A i \in 1..Len(o) : i <= MaxCallees => i \in 1..Len(c)
      /\ \A i \in 1..Len(c) : i \in 1..Len(o) /\ c[i] = o[i]
  BY <1>2, <1>3, CapsAssumption, LimitFacts
<1>6. Range(c) = {c[i] : i \in 1..Len(c)} /\ Range(o) = {o[i] : i \in 1..Len(o)}
  BY <1>2, <1>5, RangeEquality, Zenon
<1>7. Range(c) \subseteq es
  BY <1>5, <1>6, ElementOfSeq
<1>8. IsFiniteSet(Range(c))
  BY <1>1, <1>7, FS_Subset, Zenon
<1>9. c = <<>> <=> Range(c) = {}
  <2>1. CASE c = <<>>
    BY <1>6, <2>1
  <2>2. CASE c # <<>>
    <3>1. Len(c) \in Nat \ {0}
      BY <1>5, <2>2, EmptySeq
    <3>2. c[1] \in Range(c)
      BY <1>6, <3>1
    <3> QED
      BY <2>2, <3>2
  <2> QED
    BY <2>1, <2>2
<1>10. ASSUME AllFit(g)
       PROVE  Range(c) = es
  <2>1. Len(o) <= MaxCallees
    BY <1>2, <1>4, <1>10, CapsAssumption DEF AllFit
  <2>2. \A i \in 1..Len(o) : i \in 1..Len(c) /\ c[i] = o[i]
    <3>1. Len(o) \in Nat
      BY <1>2, LenProperties
    <3>2. \A i \in 1..Len(o) : i <= MaxCallees
      BY <2>1, <3>1, CapsAssumption
    <3> QED
      BY <1>5, <3>2
  <2> QED
    BY <1>2, <1>6, <1>7, <2>2
<1> QED
  BY <1>5, <1>7, <1>8, <1>9, <1>10 DEF es, c

\* Every path one call further, once.
LEMMA OnwardFacts ==
  ASSUME NEW g, CallsOK(g), NEW p \in Seq(FlowSteps), p # <<>>, NEW cyclic \in BOOLEAN
  PROVE  /\ OnwardIn(g, p, cyclic) \in Seq(Seq(FlowSteps)) /\ OneByOne(OnwardIn(g, p, cyclic))
         /\ Range(OnwardIn(g, p, cyclic)) = {Farther(p, e, cyclic) : e \in FollowedTo(g, p, cyclic)}
<1> DEFINE s == p[Len(p)].symbol
           es == FollowedTo(g, p, cyclic)
           o == OrderBy(es, To)
           on == OnwardIn(g, p, cyclic)
<1>1. Last(p) = p[Len(p)] /\ s \in Symbols
  <2>1. Last(p) = p[Len(p)] /\ Last(p) \in FlowSteps
    BY FrontFacts
  <2> QED
    BY <2>1 DEF FlowSteps
<1>2. /\ IsFiniteSet(Range(CalleesIn(g, s))) /\ Range(CalleesIn(g, s)) \subseteq CallsOf(g, s)
  BY <1>1, CalleesFacts
<1>3. /\ IsFiniteSet(es) /\ es \subseteq CallsOf(g, s)
  <2>1. es \subseteq Range(CalleesIn(g, s))
    BY DEF FollowedTo
  <2> HIDE DEF es
  <2> QED
    BY <1>2, <2>1, FS_Subset, Zenon
<1>4. es \subseteq Edges(Symbols, Symbols) /\ \A e \in es : e.from = s
  BY <1>3 DEF CallsOK, CallsOf
<1>5. ToSet(CalleesIn(g, Last(p).symbol)) = Range(CalleesIn(g, s))
  BY <1>1, Zenon DEF ToSet, Range
<1>6. on = [i \in DOMAIN o |-> Farther(p, o[i], cyclic)]
  BY <1>5, Zenon DEF OnwardIn, Farther, FollowedTo
<1> HIDE DEF es, o, on
<1>7. o \in Seq(es) /\ Range(o) = es /\ OneByOne(o)
  <2>1. Numbered(es)
    BY <1>3 DEF CallsOK, CallsOf, Numbered
  <2> QED
    BY <1>3, <1>4, <2>1, RowsInOrder, Zenon DEF o
<1>8. DOMAIN o = 1..Len(o) /\ Len(o) \in Nat /\ \A i \in 1..Len(o) : o[i] \in es
  BY <1>7, LenProperties, ElementOfSeq
<1>9. \A e \in es : [symbol |-> e.to, conf |-> e.conf, cycle |-> cyclic, row |-> e.row] \in FlowSteps
  BY <1>4 DEF Edges, FlowSteps
<1>10. \A e \in es : Farther(p, e, cyclic) \in Seq(FlowSteps)
  BY <1>9, AppendProperties DEF Farther
<1>11. on \in [1..Len(o) -> Seq(FlowSteps)]
  BY <1>6, <1>8, <1>10
<1>12. on \in Seq(Seq(FlowSteps)) /\ Len(on) = Len(o)
  BY <1>8, <1>11
<1>13. OneByOne(on)
  <2> SUFFICES ASSUME NEW i \in 1..Len(o), NEW j \in 1..Len(o), on[i] = on[j]
               PROVE  i = j
    BY <1>12 DEF OneByOne
  <2>1. Farther(p, o[i], cyclic) = Farther(p, o[j], cyclic)
    BY <1>6, <1>8
  <2>2. [symbol |-> o[i].to, conf |-> o[i].conf, cycle |-> cyclic, row |-> o[i].row] = [symbol |-> o[j].to, conf |-> o[j].conf, cycle |-> cyclic, row |-> o[j].row]
    BY <1>8, <1>9, <2>1, AppendInjective DEF Farther
  <2>3. o[i].to = o[j].to /\ o[i].conf = o[j].conf /\ o[i].row = o[j].row
    BY <2>2
  <2>4. o[i] \in Edges(Symbols, Symbols) /\ o[j] \in Edges(Symbols, Symbols) /\ o[i].from = o[j].from
    BY <1>4, <1>8
  <2>5. o[i] = o[j]
    BY <2>3, <2>4 DEF Edges
  <2> QED
    BY <1>7, <2>5 DEF OneByOne
<1>14. Range(on) = {Farther(p, e, cyclic) : e \in es}
  <2>1. Range(on) = {on[i] : i \in 1..Len(o)} /\ Range(o) = {o[i] : i \in 1..Len(o)}
    BY <1>7, <1>12, RangeEquality
  <2>2. \A i \in 1..Len(o) : on[i] = Farther(p, o[i], cyclic)
    BY <1>6, <1>8
  <2>3. \A i \in 1..Len(o) : o[i] \in es
    BY <1>8
  <2>4. \A e \in es : \E i \in 1..Len(o) : e = o[i]
    BY <1>7, <2>1
  <2>5. ASSUME NEW x \in Range(on)
        PROVE  x \in {Farther(p, e, cyclic) : e \in es}
    BY <2>1, <2>2, <2>3, Zenon
  <2>6. ASSUME NEW e \in es
        PROVE  Farther(p, e, cyclic) \in Range(on)
    <3>1. PICK i \in 1..Len(o) : e = o[i]
      BY <2>4, <2>6
    <3>2. Farther(p, e, cyclic) = on[i]
      BY <2>2, <3>1, Zenon
    <3> QED
      BY <2>1, <3>2, Zenon
  <2> QED
    BY <2>5, <2>6, Zenon
<1> QED
  BY <1>12, <1>13, <1>14 DEF on, es

Prefix(q, p) == Len(q) <= Len(p) /\ \A i \in 1..Len(q) : q[i] = p[i]

LEMMA FartherFacts ==
  ASSUME NEW p \in Seq(FlowSteps), NEW e \in Edges(Symbols, Symbols), NEW cyclic \in BOOLEAN
  PROVE  /\ Farther(p, e, cyclic) \in Seq(FlowSteps) /\ Len(p) \in Nat
         /\ Len(Farther(p, e, cyclic)) = Len(p) + 1
         /\ \A i \in 1..Len(p) : Farther(p, e, cyclic)[i] = p[i]
         /\ Farther(p, e, cyclic)[Len(p) + 1] = [symbol |-> e.to, conf |-> e.conf, cycle |-> cyclic, row |-> e.row]
<1>1. [symbol |-> e.to, conf |-> e.conf, cycle |-> cyclic, row |-> e.row] \in FlowSteps
  BY DEF Edges, FlowSteps
<1> QED
  BY <1>1, AppendProperties, LenProperties DEF Farther

LEMMA WholePrefix ==
  ASSUME NEW p \in Seq(FlowSteps), NEW q \in Seq(FlowSteps), Prefix(q, p), Len(q) = Len(p)
  PROVE  q = p
BY SeqEqual DEF Prefix

\* What begins a path one call further begins the path, or is the whole.
LEMMA PrefixOfFarther ==
  ASSUME NEW p \in Seq(FlowSteps), NEW q \in Seq(FlowSteps), NEW e \in Edges(Symbols, Symbols),
         NEW cyclic \in BOOLEAN, Prefix(q, Farther(p, e, cyclic))
  PROVE  Prefix(q, p) \/ q = Farther(p, e, cyclic)
<1> DEFINE f == Farther(p, e, cyclic)
<1>1. /\ f \in Seq(FlowSteps) /\ Len(p) \in Nat /\ Len(f) = Len(p) + 1
      /\ \A i \in 1..Len(p) : f[i] = p[i]
  BY FartherFacts
<1>2. Len(q) \in Nat
  BY LenProperties
<1> HIDE DEF f
<1>3. CASE Len(q) = Len(f)
  BY <1>1, <1>3, WholePrefix DEF f
<1>4. CASE Len(q) # Len(f)
  <2>1. Len(q) <= Len(p) /\ \A i \in 1..Len(q) : i \in 1..Len(p)
    BY <1>1, <1>2, <1>4 DEF Prefix, f
  <2> QED
    BY <1>1, <2>1 DEF Prefix, f
<1> QED
  BY <1>3, <1>4

\* A path begins what it begins when it is one call further.
LEMMA FartherIsPrefix ==
  ASSUME NEW p \in Seq(FlowSteps), NEW r \in Seq(FlowSteps), NEW e \in Edges(Symbols, Symbols),
         NEW cyclic \in BOOLEAN, Prefix(Farther(p, e, cyclic), r)
  PROVE  Prefix(p, r)
<1>1. /\ Len(p) \in Nat /\ Len(Farther(p, e, cyclic)) = Len(p) + 1
      /\ \A i \in 1..Len(p) : Farther(p, e, cyclic)[i] = p[i]
  BY FartherFacts
<1>2. Len(r) \in Nat
  BY LenProperties
<1> QED
  BY <1>1, <1>2 DEF Prefix

LEMMA FartherDiffer ==
  ASSUME NEW p \in Seq(FlowSteps), NEW s, NEW e \in Edges(Symbols, Symbols), NEW d \in Edges(Symbols, Symbols),
         e.from = s, d.from = s, NEW a \in BOOLEAN, NEW b \in BOOLEAN,
         Prefix(Farther(p, e, a), Farther(p, d, b))
  PROVE  e = d /\ a = b
<1>1. /\ Len(p) \in Nat /\ Len(Farther(p, e, a)) = Len(p) + 1 /\ Len(Farther(p, d, b)) = Len(p) + 1
      /\ Farther(p, e, a)[Len(p) + 1] = [symbol |-> e.to, conf |-> e.conf, cycle |-> a, row |-> e.row]
      /\ Farther(p, d, b)[Len(p) + 1] = [symbol |-> d.to, conf |-> d.conf, cycle |-> b, row |-> d.row]
  BY FartherFacts
<1>2. [symbol |-> e.to, conf |-> e.conf, cycle |-> a, row |-> e.row] = [symbol |-> d.to, conf |-> d.conf, cycle |-> b, row |-> d.row]
  <2>1. Len(p) + 1 \in 1..Len(Farther(p, e, a))
    BY <1>1
  <2> QED
    BY <1>1, <2>1 DEF Prefix
<1>3. e.to = d.to /\ e.conf = d.conf /\ e.row = d.row /\ a = b
  BY <1>2
<1> QED
  BY <1>3 DEF Edges

\* A path of flow: calls one after the other from a root, no deeper than asked,
\* back on itself at its end at most and marked so.
EdgeTo(p, k) == [from |-> p[k - 1].symbol, to |-> p[k].symbol, conf |-> p[k].conf, row |-> p[k].row]
Trail(g, q, R, p) ==
  /\ p \in Seq(FlowSteps) /\ Len(p) >= 1
  /\ p[1].symbol \in R
  /\ Len(p) = 1 \/ Len(p) - 1 <= q.depth
  /\ \A k \in 2..Len(p) : EdgeTo(p, k) \in g.CALLS /\ p[k - 1].symbol # p[k].symbol
  /\ \A i, j \in 1..Len(p) - 1 : p[i].symbol = p[j].symbol => i = j
  /\ \A i \in 1..Len(p) : p[i].cycle <=> i = Len(p) /\ \E j \in 1..Len(p) - 1 : p[j].symbol = p[i].symbol
Cyclic(p) == p[Len(p)].cycle
EndsHere(g, q, p) == Len(p) - 1 >= q.depth \/ CalleesIn(g, p[Len(p)].symbol) = <<>>

\* It can go on over a callee.
LEMMA TrailGoesOn ==
  ASSUME NEW g, CallsOK(g), NEW q, q.depth \in Int, NEW R, NEW p, Trail(g, q, R, p), ~Cyclic(p),
         Len(p) - 1 < q.depth, NEW e \in CallsOf(g, p[Len(p)].symbol), NEW cyclic \in BOOLEAN,
         cyclic <=> e.to \in Names(p)
  PROVE  /\ Trail(g, q, R, Farther(p, e, cyclic)) /\ (Cyclic(Farther(p, e, cyclic)) <=> cyclic)
         /\ Farther(p, e, cyclic)[1] = p[1]
<1> DEFINE f == Farther(p, e, cyclic)
           n == Len(p)
<1>0. e \in Edges(Symbols, Symbols) /\ e \in g.CALLS /\ e.from = p[n].symbol /\ e.to # p[n].symbol
  BY DEF CallsOK, CallsOf
<1>1. /\ p \in Seq(FlowSteps) /\ n \in Nat /\ n >= 1 /\ DOMAIN p = 1..n
  BY LenProperties DEF Trail
<1>2. /\ f \in Seq(FlowSteps) /\ Len(f) = n + 1
      /\ \A i \in 1..n : f[i] = p[i]
      /\ f[n + 1] = [symbol |-> e.to, conf |-> e.conf, cycle |-> cyclic, row |-> e.row]
  <2>1. p \in Seq(FlowSteps) /\ e \in Edges(Symbols, Symbols)
    BY <1>0, <1>1
  <2>2. \A c \in BOOLEAN : /\ Farther(p, e, c) \in Seq(FlowSteps) /\ Len(Farther(p, e, c)) = n + 1
                           /\ \A i \in 1..n : Farther(p, e, c)[i] = p[i]
                           /\ Farther(p, e, c)[n + 1]
                                = [symbol |-> e.to, conf |-> e.conf, cycle |-> c, row |-> e.row]
    BY <2>1, FartherFacts
  <2> QED
    BY <2>2, Zenon
<1>3. /\ \A i \in 1..n : /\ f[i].symbol = p[i].symbol /\ f[i].conf = p[i].conf
                         /\ f[i].cycle = p[i].cycle /\ f[i].row = p[i].row
      /\ f[n + 1].symbol = e.to /\ f[n + 1].conf = e.conf /\ f[n + 1].cycle = cyclic /\ f[n + 1].row = e.row
  <2> HIDE DEF f, n
  <2> QED
    BY <1>2
<1>4. cyclic <=> \E j \in 1..n : p[j].symbol = e.to
  BY <1>1 DEF Names
<1>5. \A i, j \in 1..n : p[i].symbol = p[j].symbol => i = j
  <2>1. ~\E j \in 1..n - 1 : p[j].symbol = p[n].symbol
    <3>1. n \in 1..n
      BY <1>1
    <3>2. \A i \in 1..n : p[i].cycle <=> i = n /\ \E j \in 1..n - 1 : p[j].symbol = p[i].symbol
      BY Zenon DEF Trail
    <3> QED
      BY <3>1, <3>2, Zenon DEF Cyclic
  <2>2. \A i, j \in 1..n - 1 : p[i].symbol = p[j].symbol => i = j
    BY DEF Trail
  <2>0. n \in Nat
    BY <1>1
  <2> HIDE DEF n
  <2>3. \A i \in 1..n : i = n \/ i \in 1..n - 1
    BY <2>0
  <2> QED
    BY <2>1, <2>2, <2>3
<1>6. \A i \in 1..n : ~p[i].cycle
  <2>1. \A i \in 1..n : p[i].cycle => i = n
    BY DEF Trail
  <2> QED
    BY <2>1 DEF Cyclic
<1>7. \A k \in 2..n + 1 : EdgeTo(f, k) \in g.CALLS /\ f[k - 1].symbol # f[k].symbol
  <2> SUFFICES ASSUME NEW k \in 2..n + 1
               PROVE  EdgeTo(f, k) \in g.CALLS /\ f[k - 1].symbol # f[k].symbol
    OBVIOUS
  <2>1. CASE k = n + 1
    <3>1. k - 1 \in 1..n /\ k - 1 = n
      BY <1>1, <2>1
    <3>2. f[k - 1].symbol = p[n].symbol /\ f[k].symbol = e.to /\ f[k].conf = e.conf /\ f[k].row = e.row
      BY <1>3, <2>1, <3>1
    <3>3. e = [from |-> p[n].symbol, to |-> e.to, conf |-> e.conf, row |-> e.row]
      BY <1>0 DEF Edges
    <3> QED
      BY <1>0, <3>2, <3>3 DEF EdgeTo
  <2>2. CASE k # n + 1
    <3>1. k \in 2..n /\ k - 1 \in 1..n /\ k \in 1..n
      BY <1>1, <2>2
    <3>2. EdgeTo(f, k) = EdgeTo(p, k) /\ f[k - 1].symbol = p[k - 1].symbol /\ f[k].symbol = p[k].symbol
      BY <1>3, <3>1 DEF EdgeTo
    <3> QED
      BY <3>1, <3>2 DEF Trail
  <2> QED
    BY <2>1, <2>2
<1> HIDE DEF f, n
<1>8. \A i, j \in 1..(n + 1) - 1 : f[i].symbol = f[j].symbol => i = j
  <2>1. (n + 1) - 1 = n
    BY <1>1
  <2> QED
    BY <1>3, <1>5, <2>1
<1>9. \A i \in 1..n + 1 : f[i].cycle <=> i = n + 1 /\ \E j \in 1..(n + 1) - 1 : f[j].symbol = f[i].symbol
  <2>1. (n + 1) - 1 = n /\ \A i \in 1..n + 1 : i = n + 1 \/ i \in 1..n
    BY <1>1
  <2>2. \A i \in 1..n : ~f[i].cycle /\ i # n + 1
    BY <1>1, <1>3, <1>6
  <2>3. f[n + 1].cycle <=> \E j \in 1..n : f[j].symbol = f[n + 1].symbol
    BY <1>3, <1>4
  <2> QED
    BY <2>1, <2>2, <2>3
<1>10. f[1].symbol \in R /\ f[1] = p[1]
  BY <1>1, <1>2 DEF Trail
<1>11. (n + 1) - 1 <= q.depth /\ n + 1 >= 1
  BY <1>1 DEF n
<1>12. Trail(g, q, R, f)
  BY <1>2, <1>7, <1>8, <1>9, <1>10, <1>11 DEF Trail
<1>13. Cyclic(f) <=> cyclic
  BY <1>2, <1>3 DEF Cyclic
<1> QED
  BY <1>10, <1>12, <1>13 DEF f

\* A walk flow has to tell if no cap is met: calls from a root, no deeper than
\* asked, simple but for its last symbol, and it ends for a reason.
Walk(g, q, R, w) ==
  /\ w \in Seq(Symbols) /\ Len(w) >= 1 /\ w[1] \in R
  /\ Len(w) = 1 \/ Len(w) - 1 <= q.depth
  /\ \A i \in 1..Len(w) - 1 : w[i] # w[i + 1] /\ \E e \in g.CALLS : e.from = w[i] /\ e.to = w[i + 1]
  /\ \A i, j \in 1..Len(w) - 1 : w[i] = w[j] => i = j
  /\ (\A i, j \in 1..Len(w) : w[i] = w[j] => i = j)
       => Len(w) - 1 >= q.depth \/ CalleesIn(g, w[Len(w)]) = <<>>

\* One of the places each of its calls is made from.
Choice(g, w, cs) == \A i \in 1..Len(w) - 1 : cs[i] \in g.CALLS /\ cs[i].from = w[i] /\ cs[i].to = w[i + 1]

Along(p, w, cs) ==
  /\ Len(p) <= Len(w)
  /\ \A i \in 1..Len(p) : p[i].symbol = w[i]
  /\ \A i \in 1..Len(p) - 1 : p[i + 1].row = cs[i].row
Tells(p, w, cs) == Len(p) = Len(w) /\ Along(p, w, cs)

\* Where a path ends, a walk along it ends too.
LEMMA WalkEnds ==
  ASSUME NEW g, CallsOK(g), AllFit(g), NEW q, q.depth \in Int, NEW R, NEW p, Trail(g, q, R, p),
         EndsHere(g, q, p), NEW w, NEW cs, Walk(g, q, R, w), Choice(g, w, cs), Along(p, w, cs)
  PROVE  Tells(p, w, cs)
<1> DEFINE n == Len(p)
<1>1. /\ n \in Nat /\ n >= 1 /\ Len(w) \in Nat /\ n <= Len(w)
  BY LenProperties DEF Trail, Walk, Along
<1>2. p[n].symbol = w[n] /\ w[n] \in Symbols
  <2>1. n \in 1..n /\ n \in 1..Len(w)
    BY <1>1
  <2> QED
    BY <2>1, ElementOfSeq DEF Along, Walk
<1>3. ASSUME n < Len(w)
      PROVE  FALSE
  <2>1. n - 1 < q.depth
    BY <1>1, <1>3 DEF Walk
  <2>2. n \in 1..Len(w) - 1
    BY <1>1, <1>3
  <2>3. PICK e \in g.CALLS : e.from = w[n] /\ e.to = w[n + 1] /\ w[n] # w[n + 1]
    BY <2>2, Zenon DEF Walk
  <2>4. e \in CallsOf(g, w[n])
    BY <2>3 DEF CallsOf
  <2>5. CalleesIn(g, w[n]) # <<>>
    BY <1>2, <2>4, CalleesFacts
  <2> QED
    BY <1>1, <1>2, <2>1, <2>5 DEF EndsHere
<1> QED
  BY <1>1, <1>3 DEF Tells

\* Where it does not, one of the callees is along the walk.
LEMMA WalkGoesOn ==
  ASSUME NEW g, CallsOK(g), AllFit(g), NEW q, q.depth \in Int, NEW R, NEW p, Trail(g, q, R, p), ~Cyclic(p),
         ~EndsHere(g, q, p), NEW w, NEW cs, Walk(g, q, R, w), Choice(g, w, cs), Along(p, w, cs)
  PROVE  \/ \E e \in FollowedTo(g, p, TRUE) : Tells(Farther(p, e, TRUE), w, cs)
         \/ \E e \in FollowedTo(g, p, FALSE) : Along(Farther(p, e, FALSE), w, cs)
<1> DEFINE n == Len(p)
<1>1. /\ n \in Nat /\ n >= 1 /\ Len(w) \in Nat /\ n <= Len(w)
      /\ p \in Seq(FlowSteps) /\ DOMAIN p = 1..n
  BY LenProperties DEF Trail, Walk, Along
<1>2. /\ p[n].symbol = w[n] /\ w[n] \in Symbols
      /\ \A i \in 1..n : p[i].symbol = w[i]
  <2>1. n \in 1..n /\ n \in 1..Len(w)
    BY <1>1
  <2> QED
    BY <2>1, ElementOfSeq DEF Along, Walk
<1>3. n < Len(w)
  <2> SUFFICES ASSUME n = Len(w)
               PROVE  FALSE
    BY <1>1
  <2>1. \A i, j \in 1..n : w[i] = w[j] => i = j
    <3>1. n \in 1..n
      BY <1>1
    <3>2. \A i \in 1..n : p[i].cycle <=> i = n /\ \E j \in 1..n - 1 : p[j].symbol = p[i].symbol
      BY Zenon DEF Trail
    <3>3. ~\E j \in 1..n - 1 : p[j].symbol = p[n].symbol
      BY <3>1, <3>2, Zenon DEF Cyclic
    <3>4. \A j \in 1..n - 1 : j \in 1..n
      BY <1>1
    <3>5. ~\E j \in 1..n - 1 : w[j] = w[n]
      BY <1>2, <3>1, <3>3, <3>4
    <3>6. \A i, j \in 1..n - 1 : w[i] = w[j] => i = j
      BY DEF Walk
    <3>7. n \in Nat
      BY <1>1
    <3> HIDE DEF n
    <3>8. \A i \in 1..n : i = n \/ i \in 1..n - 1
      BY <3>7
    <3> QED
      BY <3>5, <3>6, <3>8
  <2>2. n - 1 >= q.depth \/ CalleesIn(g, w[n]) = <<>>
    BY <2>1 DEF Walk
  <2> QED
    BY <1>2, <2>2 DEF EndsHere
<1>4. n \in 1..Len(w) - 1
  BY <1>1, <1>3
<1> DEFINE e == cs[n]
<1>5. e \in g.CALLS /\ e.from = w[n] /\ e.to = w[n + 1] /\ w[n] # w[n + 1]
  BY <1>4, Zenon DEF Walk, Choice
<1> HIDE DEF e
<1>6. e \in CallsOf(g, w[n])
  BY <1>5 DEF CallsOf
<1>7. e \in Range(CalleesIn(g, p[n].symbol)) /\ e \in Edges(Symbols, Symbols)
  BY <1>2, <1>5, <1>6, CalleesFacts DEF CallsOK
<1>8. \A c \in BOOLEAN : /\ Farther(p, e, c) \in Seq(FlowSteps) /\ Len(Farther(p, e, c)) = n + 1
                         /\ \A i \in 1..n : Farther(p, e, c)[i] = p[i]
                         /\ Farther(p, e, c)[n + 1] = [symbol |-> e.to, conf |-> e.conf, cycle |-> c, row |-> e.row]
  BY <1>1, <1>7, FartherFacts
<1>9. \A c \in BOOLEAN : Along(Farther(p, e, c), w, cs)
  <2> SUFFICES ASSUME NEW c \in BOOLEAN
               PROVE  Along(Farther(p, e, c), w, cs)
    OBVIOUS
  <2> DEFINE f == Farther(p, e, c)
  <2>0. /\ f \in Seq(FlowSteps) /\ Len(f) = n + 1 /\ \A i \in 1..n : f[i] = p[i]
        /\ f[n + 1] = [symbol |-> e.to, conf |-> e.conf, cycle |-> c, row |-> e.row]
    BY <1>8, Zenon
  <2> HIDE DEF f
  <2>2. \A i \in 1..(n + 1) - 1 : f[i + 1].row = cs[i].row
    <3>1. \A i \in 1..n - 1 : p[i + 1].row = cs[i].row
      BY DEF Along
    <3>2. \A i \in 1..n - 1 : i + 1 \in 1..n
      BY <1>1
    <3>3. \A i \in 1..n - 1 : f[i + 1].row = cs[i].row
      BY <2>0, <3>1, <3>2
    <3>4. f[n + 1].row = cs[n].row
      BY <2>0 DEF e
    <3>5. \A i \in 1..(n + 1) - 1 : i = n \/ i \in 1..n - 1
      <4>1. n \in Nat /\ n >= 1
        BY <1>1
      <4> HIDE DEF n
      <4> QED
        BY <4>1
    <3> QED
      BY <3>3, <3>4, <3>5
  <2>1. \A i \in 1..n + 1 : f[i].symbol = w[i]
    <3>1. \A i \in 1..n : f[i].symbol = w[i]
      BY <1>2, <2>0
    <3>2. f[n + 1].symbol = w[n + 1]
      BY <1>5, <2>0
    <3>3. \A i \in 1..n + 1 : i = n + 1 \/ i \in 1..n
      BY <1>1
    <3> QED
      BY <3>1, <3>2, <3>3
  <2> QED
    BY <1>1, <1>3, <2>0, <2>1, <2>2 DEF Along, f
<1>10. CASE e.to \in Names(p)
  <2>1. PICK j \in 1..n : w[j] = w[n + 1]
    <3>1. PICK j \in 1..n : p[j].symbol = e.to
      BY <1>1, <1>10 DEF Names
    <3> QED
      BY <1>2, <1>5, <3>1
  <2>2. n + 1 = Len(w)
    <3>1. \A i, k \in 1..Len(w) - 1 : w[i] = w[k] => i = k
      BY DEF Walk
    <3>2. j \in 1..Len(w) - 1 /\ j # n + 1 /\ (n + 1 \in 1..Len(w) - 1 \/ n + 1 = Len(w))
      BY <1>1, <1>3
    <3> QED
      BY <2>1, <3>1, <3>2
  <2>3. Tells(Farther(p, e, TRUE), w, cs)
    BY <1>8, <1>9, <2>2 DEF Tells
  <2>4. e \in FollowedTo(g, p, TRUE)
    BY <1>7, <1>10 DEF FollowedTo
  <2> QED
    BY <2>3, <2>4
<1>11. CASE e.to \notin Names(p)
  <2>1. e \in FollowedTo(g, p, FALSE)
    BY <1>7, <1>11 DEF FollowedTo
  <2> QED
    BY <1>9, <2>1
<1> QED
  BY <1>10, <1>11

\* What is on the stack can go on, and what has ended ended for a reason.
FlowShape ==
  /\ todo \subseteq roots
  /\ stack \in Seq(Seq(FlowSteps)) /\ results \in Seq(Seq(FlowSteps)) /\ paths \in Seq(Seq(FlowSteps))
  /\ \A p \in Range(stack) : Trail(graph, ask, roots, p) /\ ~Cyclic(p)
  /\ \A p \in Range(results) \union Range(paths) :
       Trail(graph, ask, roots, p) /\ (Cyclic(p) \/ EndsHere(graph, ask, p))
  /\ Len(paths) <= MaxPaths
  /\ pc # "flowing" => stack = <<>> /\ results = <<>>
  /\ pc = "called" => paths = <<>> /\ roots = {}

\* No path is there twice, and none begins another that is still on the stack or
\* was told; those of an entry start at it.
FlowApart ==
  /\ OneByOne(stack) /\ OneByOne(results) /\ OneByOne(paths)
  /\ \A q, p \in Range(stack) : Prefix(q, p) => q = p
  /\ \A q \in Range(stack), p \in Range(results) : ~Prefix(q, p)
  /\ \A q \in Range(stack) \union Range(results) :
       q[1].symbol \notin todo /\ \A p \in Range(paths) : p[1].symbol # q[1].symbol
  /\ \A p \in Range(paths) : p[1].symbol \notin todo

\* Every walk is still to be entered, under way or told.
FlowMisses ==
  Len(paths) < MaxPaths /\ AllFit(graph) =>
    \A w, cs : Walk(graph, ask, roots, w) /\ Choice(graph, w, cs) =>
      \/ w[1] \in todo
      \/ \E p \in Range(stack) : Along(p, w, cs)
      \/ \E p \in Range(results) \union Range(paths) : Tells(p, w, cs)

FlowWalk == ask.tool = "flow" => FlowShape /\ FlowApart /\ FlowMisses

LEMMA FlowAsked ==
  ASSUME Asked, ask.tool = "flow", pc # "called"
  PROVE  pc \in {"flow", "flowing", "done", "refused", "unresolved"} 
BY DEF Asked, Stops

LEMMA FlowGraph ==
  ASSUME Asked, ask.tool = "flow"
  PROVE  CallsOK(graph) /\ ask.depth \in Int
<1>1. PICK c \in Cases : graph = c.graph /\ ask = c.ask
  BY DEF Asked
<1>2. "CALLS" \in AllTypes
  BY DEF AllTypes, DefaultTypes, SymbolSymbol
<1>3. IsFiniteSet(c.graph["CALLS"])
  BY <1>2, ViewsAssumption, Zenon
<1>4. ask.depth \in Int
  BY <1>1, CasesAssumption DEF Walkers
<1> QED
  BY <1>1, <1>3, <1>4, CasesAssumption DEF CallsOK

LEMMA EmptyRange == Range(<<>>) = {} /\ OneByOne(<<>>) /\ Len(<<>>) = 0
<1>1. <<>> \in Seq({}) /\ Len(<<>>) = 0
  OBVIOUS
<1>2. Range(<<>>) = {<<>>[i] : i \in 1..0}
  BY <1>1, RangeEquality
<1> QED
  BY <1>1, <1>2 DEF OneByOne

LEMMA FlowBegins == Init => FlowWalk
<1> SUFFICES ASSUME Init PROVE FlowShape /\ FlowApart /\ FlowMisses
  BY DEF FlowWalk
<1>1. todo = {} /\ roots = {} /\ stack = <<>> /\ results = <<>> /\ paths = <<>> /\ pc = "called"
  BY DEF Init
<1>2. <<>> \in Seq(Seq(FlowSteps)) /\ Range(<<>>) = {} /\ OneByOne(<<>>) /\ Len(<<>>) = 0
  BY EmptyRange
<1>3. FlowShape
  BY <1>1, <1>2, CapsAssumption DEF FlowShape
<1>4. FlowApart
  BY <1>1, <1>2 DEF FlowApart
<1>5. FlowMisses
  BY <1>1 DEF FlowMisses, Walk
<1> QED
  BY <1>3, <1>4, <1>5

LEMMA FlowResolves ==
  ASSUME Asked, FlowWalk, Resolve
  PROVE  FlowWalk'
<1> SUFFICES ASSUME ask.tool = "flow" PROVE FlowShape' /\ FlowApart' /\ FlowMisses'
  BY DEF FlowWalk, Resolve
<1>1. PICK S : roots' = S /\ pc' \in {"unresolved", "flow"} /\ todo' = S
  BY DEF Resolve
<1>2. /\ pc = "called" /\ graph' = graph /\ ask' = ask /\ stack' = stack /\ results' = results /\ paths' = paths
  BY DEF Resolve, flowVars
<1>3. stack = <<>> /\ results = <<>> /\ paths = <<>>
  BY <1>2 DEF FlowWalk, FlowShape
<1>4. <<>> \in Seq(Seq(FlowSteps)) /\ Range(<<>>) = {} /\ OneByOne(<<>>) /\ Len(<<>>) = 0
  BY EmptyRange
<1>5. FlowShape'
  BY <1>1, <1>2, <1>3, <1>4, CapsAssumption DEF FlowShape
<1>6. FlowApart'
  BY <1>1, <1>2, <1>3, <1>4 DEF FlowApart
<1>7. FlowMisses'
  BY <1>1 DEF FlowMisses, Walk
<1> QED
  BY <1>5, <1>6, <1>7

LEMMA FlowEnters ==
  ASSUME Asked, FlowWalk, FlowEnter
  PROVE  FlowWalk'
<1>1. PICK s \in todo : /\ stack' = <<<<[symbol |-> s, conf |-> "EXTRACTED", cycle |-> FALSE, row |-> 0]>>>>
                        /\ todo' = todo \ {s}
  BY DEF FlowEnter
<1>2. /\ pc = "flow" /\ pc' = "flowing" /\ graph' = graph /\ ask' = ask /\ roots' = roots
      /\ results' = results /\ paths' = paths
  BY DEF FlowEnter
<1>3. ask.tool = "flow" /\ roots \subseteq Symbols
  BY <1>2 DEF Asked
<1>4. FlowShape /\ FlowApart /\ FlowMisses /\ stack = <<>> /\ results = <<>> /\ s \in roots /\ s \in Symbols
  BY <1>2, <1>3 DEF FlowWalk, FlowShape
<1> DEFINE x == [symbol |-> s, conf |-> "EXTRACTED", cycle |-> FALSE, row |-> 0]
           e == <<x>>
<1>5. x \in FlowSteps /\ e \in Seq(FlowSteps) /\ Len(e) = 1 /\ e[1] = x /\ x.symbol = s /\ ~x.cycle
  BY <1>4 DEF FlowSteps, Confidence
<1>6. <<e>> \in Seq(Seq(FlowSteps)) /\ Range(<<e>>) = {e} /\ OneByOne(<<e>>)
  <2> HIDE DEF e
  <2>1. <<e>> \in Seq(Seq(FlowSteps)) /\ Len(<<e>>) = 1 /\ <<e>>[1] = e
    BY <1>5
  <2>2. Range(<<e>>) = {<<e>>[i] : i \in 1..1}
    BY <2>1, RangeEquality, Zenon
  <2> QED
    BY <2>1, <2>2 DEF OneByOne
<1> HIDE DEF x, e
<1>7. stack' = <<e>> /\ Range(results) = {}
  BY <1>1, <1>4, EmptyRange DEF e, x
<1>8. Trail(graph, ask, roots, e) /\ ~Cyclic(e)
  BY <1>4, <1>5 DEF Trail, Cyclic
<1>9. FlowShape'
  BY <1>1, <1>2, <1>4, <1>6, <1>7, <1>8 DEF FlowShape
<1>10. FlowApart'
  <2>1. Range(stack') = {e} /\ OneByOne(stack') /\ Range(results') = {} /\ Range(paths') = Range(paths)
    BY <1>2, <1>6, <1>7
  <2>2. OneByOne(results') /\ OneByOne(paths')
    BY <1>2, <1>4 DEF FlowApart
  <2>3. e[1].symbol = s /\ s \notin todo' /\ s \in todo /\ todo' \subseteq todo
    BY <1>1, <1>5
  <2>4. \A p \in Range(paths) : p[1].symbol \notin todo
    BY <1>4 DEF FlowApart
  <2> QED
    BY <2>1, <2>2, <2>3, <2>4, Zenon DEF FlowApart
<1>11. FlowMisses'
  <2> SUFFICES ASSUME Len(paths) < MaxPaths, AllFit(graph), NEW w, NEW cs, Walk(graph, ask, roots, w), Choice(graph, w, cs)
               PROVE  \/ w[1] \in todo'
                      \/ \E p \in {e} : Along(p, w, cs)
                      \/ \E p \in Range(results) \union Range(paths) : Tells(p, w, cs)
    BY <1>2, <1>6, <1>7, Zenon DEF FlowMisses
  <2>1. \/ w[1] \in todo
        \/ \E p \in Range(results) \union Range(paths) : Tells(p, w, cs)
    <3>1. Range(stack) = {}
      BY <1>4, EmptyRange
    <3> QED
      BY <1>4, <3>1 DEF FlowMisses
  <2>2. CASE w[1] = s
    <3>1. Along(e, w, cs)
      BY <1>5, <2>2 DEF Along, Walk
    <3> QED
      BY <3>1
  <2> QED
    BY <1>1, <2>1, <2>2
<1> QED
  BY <1>2, <1>9, <1>10, <1>11 DEF FlowWalk

LEMMA FlowLeaves ==
  ASSUME Asked, FlowWalk, FlowLeave
  PROVE  FlowWalk'
<1>1. /\ pc = "flowing" /\ pc' = "flow" /\ stack = <<>> /\ stack' = stack /\ results' = <<>>
      /\ paths' = Limit(paths \o results, MaxPaths)
      /\ graph' = graph /\ ask' = ask /\ roots' = roots /\ todo' = todo
  BY DEF FlowLeave
<1>2. FlowShape /\ FlowApart /\ FlowMisses /\ ask.tool = "flow"
  BY <1>1 DEF FlowWalk, Asked
<1> DEFINE all == paths \o results
<1>3. all \in Seq(Seq(FlowSteps)) /\ Range(all) = Range(paths) \union Range(results)
  BY <1>2, ConcatProperties, RangeConcatenation DEF FlowShape
<1>4. OneByOne(all)
  <2>1. Range(paths) \intersect Range(results) = {}
    BY <1>2 DEF FlowApart
  <2> QED
    BY <1>2, <2>1, JoinedIsDifferent DEF FlowShape, FlowApart
<1> HIDE DEF all
<1>5. /\ paths' \in Seq(Seq(FlowSteps)) /\ Len(paths') <= Len(all)
      /\ \A i \in 1..Len(all) : i <= MaxPaths => i \in 1..Len(paths')
      /\ \A i \in 1..Len(paths') : i \in 1..Len(all) /\ paths'[i] = all[i]
  <2>1. paths' = Limit(all, MaxPaths)
    BY <1>1, Zenon DEF all
  <2> QED
    BY <1>3, <2>1, CapsAssumption, LimitFacts
<1>6. Range(paths') = {paths'[i] : i \in 1..Len(paths')} /\ Range(all) = {all[i] : i \in 1..Len(all)}
      /\ Len(paths') \in Nat /\ Len(all) \in Nat
  BY <1>3, <1>5, RangeEquality, LenProperties
<1>7. Range(paths') \subseteq Range(paths) \union Range(results) /\ OneByOne(paths')
  <2>1. \A i \in 1..Len(paths') : i \in 1..Len(all) /\ paths'[i] = all[i]
    BY <1>5
  <2>2. OneByOne(paths')
    BY <1>4, <2>1, Zenon DEF OneByOne
  <2>3. Range(paths') \subseteq Range(all)
    BY <1>6, <2>1
  <2> QED
    BY <1>3, <2>2, <2>3
<1>8. Len(paths') <= MaxPaths
  <2>1. paths' = SubSeq(all, 1, IF MaxPaths < Len(all) THEN MaxPaths ELSE Len(all))
    BY <1>1, Zenon DEF Limit, all
  <2> DEFINE m == IF MaxPaths < Len(all) THEN MaxPaths ELSE Len(all)
  <2>2. m \in Nat /\ m <= MaxPaths /\ m <= Len(all)
    BY <1>6, CapsAssumption
  <2>3. paths' = SubSeq(all, 1, m)
    BY <2>1
  <2> HIDE DEF m
  <2>4. \A i \in 1..m : all[i] \in Seq(FlowSteps)
    BY <1>3, <1>6, <2>2, ElementOfSeq
  <2>5. Len(SubSeq(all, 1, m)) = IF 1 <= m THEN m - 1 + 1 ELSE 0
    BY <2>2, <2>4, SubSeqProperties
  <2> QED
    BY <2>2, <2>3, <2>5
<1>9. ASSUME Len(paths') < MaxPaths
      PROVE  Range(paths') = Range(paths) \union Range(results) /\ Len(paths) < MaxPaths
  <2>1. Len(all) <= MaxPaths
    <3>1. \A i \in 1..Len(all) : i <= MaxPaths => i <= Len(paths')
      BY <1>5
    <3> QED
      BY <1>6, <1>9, <3>1, CapsAssumption
  <2>2. \A i \in 1..Len(all) : i \in 1..Len(paths')
    BY <1>5, <1>6, <2>1, CapsAssumption
  <2>3. Len(all) = Len(paths) + Len(results) /\ Len(paths) \in Nat /\ Len(results) \in Nat
    BY <1>2, ConcatProperties, LenProperties DEF FlowShape, all
  <2>4. Len(all) <= Len(paths')
    BY <1>6, <2>2
  <2>5. Range(all) \subseteq Range(paths')
    BY <1>5, <1>6, <2>2
  <2>6. Len(paths) < MaxPaths
    BY <1>6, <1>9, <2>3, <2>4, CapsAssumption
  <2> QED
    BY <1>3, <1>7, <2>5, <2>6
<1>10. Range(<<>>) = {} /\ <<>> \in Seq(Seq(FlowSteps)) /\ OneByOne(<<>>)
  BY EmptyRange
<1>11. FlowShape'
  BY <1>1, <1>2, <1>5, <1>7, <1>8, <1>10 DEF FlowShape
<1>12. FlowApart'
  BY <1>1, <1>2, <1>7, <1>10 DEF FlowApart
<1>13. FlowMisses'
  BY <1>1, <1>2, <1>9, <1>10 DEF FlowMisses
<1> QED
  BY <1>1, <1>11, <1>12, <1>13 DEF FlowWalk

\* One path leaves the stack, and goes to those that ended, or is replaced by the
\* paths one call further.
LEMMA FlowPops ==
  ASSUME Asked, FlowWalk, FlowPop
  PROVE  /\ pc = "flowing" /\ ask.tool = "flow" /\ stack # <<>> /\ Last(stack) \in Range(stack)
         /\ IF EndsHere(graph, ask, Last(stack))
            THEN results' = Append(results, Last(stack)) /\ stack' = Front(stack)
            ELSE /\ results' = results \o OnwardIn(graph, Last(stack), TRUE)
                 /\ stack' = Front(stack) \o OnwardIn(graph, Last(stack), FALSE)
<1>1. pc = "flowing" /\ ask.tool = "flow" /\ stack # <<>>
  BY DEF FlowPop, Asked
<1>2. Last(stack) \in Range(stack)
  BY <1>1, FrontOfDifferent DEF FlowWalk, FlowShape, FlowApart
<1> DEFINE p == Last(stack)
<1>3. p \in Seq(FlowSteps) /\ Len(p) >= 1
  BY <1>1, <1>2 DEF FlowWalk, FlowShape, Trail
<1>4. TooDeep(p) \/ Callees(Last(p).symbol) = <<>> <=> EndsHere(graph, ask, p)
  BY Zenon DEF TooDeep, Callees, CalleesIn, EndsHere, Last
<1>5. IF TooDeep(p) \/ Callees(Last(p).symbol) = <<>>
      THEN results' = Append(results, p) /\ stack' = Front(stack)
      ELSE results' = results \o Onward(p, TRUE) /\ stack' = Front(stack) \o Onward(p, FALSE)
  BY Zenon DEF FlowPop
<1>6. \A c : Onward(p, c) = OnwardIn(graph, p, c)
  BY Zenon DEF Onward, OnwardIn, Callees, CalleesIn
<1> HIDE DEF p
<1>7. IF EndsHere(graph, ask, p)
      THEN results' = Append(results, p) /\ stack' = Front(stack)
      ELSE results' = results \o OnwardIn(graph, p, TRUE) /\ stack' = Front(stack) \o OnwardIn(graph, p, FALSE)
  <2>1. CASE EndsHere(graph, ask, p)
    BY <1>4, <1>5, <2>1, Zenon
  <2>2. CASE ~EndsHere(graph, ask, p)
    <3>1. results' = results \o Onward(p, TRUE) /\ stack' = Front(stack) \o Onward(p, FALSE)
      BY <1>4, <1>5, <2>2, Zenon
    <3>2. Onward(p, TRUE) = OnwardIn(graph, p, TRUE) /\ Onward(p, FALSE) = OnwardIn(graph, p, FALSE)
      BY <1>6, Zenon
    <3> QED
      BY <2>2, <3>1, <3>2
  <2> QED
    BY <2>1, <2>2
<1> QED
  BY <1>1, <1>2, <1>7 DEF p

LEMMA JoinedFacts ==
  ASSUME NEW S, NEW s \in Seq(S), NEW t \in Seq(S), OneByOne(s), OneByOne(t),
         Range(s) \intersect Range(t) = {}
  PROVE  s \o t \in Seq(S) /\ OneByOne(s \o t) /\ Range(s \o t) = Range(s) \union Range(t)
BY ConcatProperties, RangeConcatenation, JoinedIsDifferent

\* The same of lists of paths.
LEMMA PathsJoined ==
  ASSUME NEW s \in Seq(Seq(FlowSteps)), NEW t \in Seq(Seq(FlowSteps)), OneByOne(s), OneByOne(t),
         Range(s) \intersect Range(t) = {}
  PROVE  /\ s \o t \in Seq(Seq(FlowSteps)) /\ OneByOne(s \o t)
         /\ Range(s \o t) = Range(s) \union Range(t)
<1> DEFINE T == Seq(FlowSteps)
<1>1. s \in Seq(T) /\ t \in Seq(T)
  OBVIOUS
<1> HIDE DEF T
<1>2. s \o t \in Seq(T) /\ OneByOne(s \o t) /\ Range(s \o t) = Range(s) \union Range(t)
  BY <1>1, JoinedFacts
<1> QED
  BY <1>2, Zenon DEF T

LEMMA FlowEndsOne ==
  ASSUME Asked, FlowWalk, FlowPop, EndsHere(graph, ask, Last(stack))
  PROVE  FlowWalk'
<1> DEFINE p == Last(stack)
<1>1. /\ pc = "flowing" /\ pc' = pc /\ ask.tool = "flow" /\ stack # <<>> /\ p \in Range(stack)
      /\ results' = Append(results, p) /\ stack' = Front(stack)
      /\ graph' = graph /\ ask' = ask /\ roots' = roots /\ todo' = todo /\ paths' = paths
  BY FlowPops DEF FlowPop
<1>2. FlowShape /\ FlowApart /\ FlowMisses /\ CallsOK(graph) /\ ask.depth \in Int
  BY <1>1, FlowGraph DEF FlowWalk
<1> HIDE DEF p
<1>3. Trail(graph, ask, roots, p) /\ ~Cyclic(p) /\ EndsHere(graph, ask, p) /\ p \in Seq(FlowSteps)
  BY <1>1, <1>2 DEF FlowShape, Trail, p
<1>4. Prefix(p, p)
  BY DEF Prefix
<1>5. p \notin Range(results)
  BY <1>1, <1>2, <1>4 DEF FlowApart
<1>6. /\ stack' \in Seq(Seq(FlowSteps)) /\ OneByOne(stack') /\ Range(stack') = Range(stack) \ {p}
  BY <1>1, <1>2, FrontFacts, FrontOfDifferent DEF FlowShape, FlowApart, p
<1>7. /\ results' \in Seq(Seq(FlowSteps)) /\ OneByOne(results') /\ Range(results') = Range(results) \union {p}
  BY <1>1, <1>2, <1>3, <1>5, AppendedFacts DEF FlowShape, FlowApart
<1>8. FlowShape'
  BY <1>1, <1>2, <1>3, <1>6, <1>7 DEF FlowShape
<1>9. FlowApart'
  BY <1>1, <1>2, <1>6, <1>7 DEF FlowApart
<1>10. FlowMisses'
  <2> SUFFICES ASSUME Len(paths) < MaxPaths, AllFit(graph), NEW w, NEW cs, Walk(graph, ask, roots, w), Choice(graph, w, cs)
               PROVE  \/ w[1] \in todo
                      \/ \E r \in Range(stack) \ {p} : Along(r, w, cs)
                      \/ \E r \in (Range(results) \union {p}) \union Range(paths) : Tells(r, w, cs)
    BY <1>1, <1>6, <1>7, Zenon DEF FlowMisses
  <2>1. \/ w[1] \in todo
        \/ \E r \in Range(stack) : Along(r, w, cs)
        \/ \E r \in Range(results) \union Range(paths) : Tells(r, w, cs)
    BY <1>2 DEF FlowMisses
  <2>2. Along(p, w, cs) => Tells(p, w, cs)
    BY <1>2, <1>3, WalkEnds
  <2> QED
    BY <2>1, <2>2
<1> QED
  BY <1>1, <1>8, <1>9, <1>10 DEF FlowWalk

LEMMA FlowGoesOn ==
  ASSUME Asked, FlowWalk, FlowPop, ~EndsHere(graph, ask, Last(stack))
  PROVE  FlowWalk'
<1> DEFINE p == Last(stack)
           E(c) == FollowedTo(graph, p, c)
           On(c) == {Farther(p, e, c) : e \in E(c)}
<1>1. /\ pc = "flowing" /\ pc' = pc /\ ask.tool = "flow" /\ stack # <<>> /\ p \in Range(stack)
      /\ results' = results \o OnwardIn(graph, p, TRUE) /\ stack' = Front(stack) \o OnwardIn(graph, p, FALSE)
      /\ graph' = graph /\ ask' = ask /\ roots' = roots /\ todo' = todo /\ paths' = paths
  BY FlowPops DEF FlowPop
<1>2. FlowShape /\ FlowApart /\ FlowMisses /\ CallsOK(graph) /\ ask.depth \in Int
  BY <1>1, FlowGraph DEF FlowWalk
<1> HIDE DEF p
<1>3. /\ Trail(graph, ask, roots, p) /\ ~Cyclic(p) /\ ~EndsHere(graph, ask, p) /\ p \in Seq(FlowSteps)
      /\ Len(p) \in Nat \ {0} /\ p # <<>>
  <2>1. Trail(graph, ask, roots, p) /\ ~Cyclic(p) /\ ~EndsHere(graph, ask, p)
    BY <1>1, <1>2 DEF FlowShape, p
  <2>2. p \in Seq(FlowSteps) /\ Len(p) \in Nat /\ Len(p) >= 1
    BY <2>1, LenProperties DEF Trail
  <2> QED
    BY <2>1, <2>2
<1>4. p[Len(p)].symbol \in Symbols
  <2>1. p[Len(p)] \in FlowSteps
    BY <1>3, ElementOfSeq
  <2> QED
    BY <2>1 DEF FlowSteps
<1>5. \A c \in BOOLEAN : \A e \in E(c) :
        /\ e \in CallsOf(graph, p[Len(p)].symbol) /\ e \in Edges(Symbols, Symbols)
        /\ e.from = p[Len(p)].symbol /\ (e.to \in Names(p) <=> c)
  BY <1>2, <1>4, CalleesFacts DEF FollowedTo, CallsOf, CallsOK
<1>6. \A c \in BOOLEAN : \A e \in E(c) :
        /\ Trail(graph, ask, roots, Farther(p, e, c)) /\ (Cyclic(Farther(p, e, c)) <=> c)
        /\ Farther(p, e, c)[1] = p[1]
  <2>1. Len(p) - 1 < ask.depth
    BY <1>2, <1>3 DEF EndsHere
  <2> QED
    BY <1>2, <1>3, <1>5, <2>1, TrailGoesOn
<1>7. \A c \in BOOLEAN : \A e \in E(c) :
        /\ Farther(p, e, c) \in Seq(FlowSteps)
        /\ Prefix(p, Farther(p, e, c)) /\ Farther(p, e, c) # p
  <2> SUFFICES ASSUME NEW c \in BOOLEAN, NEW e \in E(c)
               PROVE  /\ Farther(p, e, c) \in Seq(FlowSteps)
                      /\ Prefix(p, Farther(p, e, c)) /\ Farther(p, e, c) # p
    OBVIOUS
  <2>1. e \in Edges(Symbols, Symbols)
    BY <1>5
  <2>2. /\ Farther(p, e, c) \in Seq(FlowSteps) /\ Len(p) \in Nat /\ Len(Farther(p, e, c)) = Len(p) + 1
        /\ \A i \in 1..Len(p) : Farther(p, e, c)[i] = p[i]
    BY <1>3, <2>1, FartherFacts
  <2> QED
    BY <2>2 DEF Prefix
<1>8. \A c \in BOOLEAN : /\ OnwardIn(graph, p, c) \in Seq(Seq(FlowSteps)) /\ OneByOne(OnwardIn(graph, p, c))
                         /\ Range(OnwardIn(graph, p, c)) = On(c)
  BY <1>2, <1>3, OnwardFacts
<1>9. /\ Front(stack) \in Seq(Seq(FlowSteps)) /\ OneByOne(Front(stack)) /\ Range(Front(stack)) = Range(stack) \ {p}
      /\ \A r \in Range(stack) : r \in Seq(FlowSteps)
  BY <1>1, <1>2, FrontFacts, FrontOfDifferent DEF FlowShape, FlowApart, p, Trail
<1>10. \A r \in Range(results) : r \in Seq(FlowSteps)
  BY <1>2 DEF FlowShape, Trail
<1> HIDE DEF E
\* What goes on was not there before.
<1>11. \A c \in BOOLEAN : \A f \in On(c) : f \notin Range(stack) /\ f \notin Range(results)
  <2> SUFFICES ASSUME NEW c \in BOOLEAN, NEW e \in E(c)
               PROVE  Farther(p, e, c) \notin Range(stack) /\ Farther(p, e, c) \notin Range(results)
    OBVIOUS
  <2>1. Prefix(p, Farther(p, e, c)) /\ Farther(p, e, c) # p
    BY <1>7
  <2> QED
    BY <1>1, <1>2, <2>1 DEF FlowApart
<1>12. /\ stack' \in Seq(Seq(FlowSteps)) /\ OneByOne(stack')
       /\ Range(stack') = (Range(stack) \ {p}) \union On(FALSE)
  <2>1. Range(Front(stack)) \intersect Range(OnwardIn(graph, p, FALSE)) = {}
    BY <1>8, <1>9, <1>11
  <2>2. /\ OnwardIn(graph, p, FALSE) \in Seq(Seq(FlowSteps)) /\ OneByOne(OnwardIn(graph, p, FALSE))
        /\ Range(OnwardIn(graph, p, FALSE)) = On(FALSE)
    BY <1>8
  <2> HIDE DEF On
  <2> QED
    <3> DEFINE a == Front(stack)
               b == OnwardIn(graph, p, FALSE)
    <3>1. a \in Seq(Seq(FlowSteps)) /\ OneByOne(a) /\ b \in Seq(Seq(FlowSteps)) /\ OneByOne(b)
          /\ Range(a) \intersect Range(b) = {}
      BY <1>9, <2>1, <2>2, Zenon
    <3>2. stack' = a \o b /\ Range(a) = Range(stack) \ {p} /\ Range(b) = On(FALSE)
      BY <1>1, <1>9, <2>2, Zenon
    <3> HIDE DEF a, b
    <3>3. a \o b \in Seq(Seq(FlowSteps)) /\ OneByOne(a \o b) /\ Range(a \o b) = Range(a) \union Range(b)
      BY <3>1, PathsJoined
    <3> QED
      BY <3>2, <3>3, Zenon
<1>13. /\ results' \in Seq(Seq(FlowSteps)) /\ OneByOne(results')
       /\ Range(results') = Range(results) \union On(TRUE)
  <2>1. Range(results) \intersect Range(OnwardIn(graph, p, TRUE)) = {}
    BY <1>8, <1>11
  <2>2. results \in Seq(Seq(FlowSteps)) /\ OneByOne(results)
    BY <1>2 DEF FlowShape, FlowApart
  <2>3. /\ OnwardIn(graph, p, TRUE) \in Seq(Seq(FlowSteps)) /\ OneByOne(OnwardIn(graph, p, TRUE))
        /\ Range(OnwardIn(graph, p, TRUE)) = On(TRUE)
    BY <1>8
  <2> HIDE DEF On
  <2> QED
    <3> DEFINE a == results
               b == OnwardIn(graph, p, TRUE)
    <3>1. a \in Seq(Seq(FlowSteps)) /\ OneByOne(a) /\ b \in Seq(Seq(FlowSteps)) /\ OneByOne(b)
          /\ Range(a) \intersect Range(b) = {}
      BY <2>1, <2>2, <2>3, Zenon
    <3>2. results' = a \o b /\ Range(a) = Range(results) /\ Range(b) = On(TRUE)
      BY <1>1, <2>3, Zenon
    <3> HIDE DEF a, b
    <3>3. a \o b \in Seq(Seq(FlowSteps)) /\ OneByOne(a \o b) /\ Range(a \o b) = Range(a) \union Range(b)
      BY <3>1, PathsJoined
    <3> QED
      BY <3>2, <3>3, Zenon
<1>14. FlowShape'
  <2>1. \A f \in On(FALSE) : Trail(graph, ask, roots, f) /\ ~Cyclic(f)
    BY <1>6
  <2>2. \A f \in On(TRUE) : Trail(graph, ask, roots, f) /\ Cyclic(f)
    BY <1>6
  <2> HIDE DEF On
  <2> QED
    BY <1>1, <1>2, <1>12, <1>13, <2>1, <2>2 DEF FlowShape
<1>15. FlowApart'
  <2>1. \A f \in On(FALSE), r \in Range(stack) \ {p} : ~Prefix(f, r) /\ ~Prefix(r, f)
    <3> SUFFICES ASSUME NEW e \in E(FALSE), NEW r \in Range(stack), r # p
                 PROVE  ~Prefix(Farther(p, e, FALSE), r) /\ ~Prefix(r, Farther(p, e, FALSE))
      OBVIOUS
    <3>1. ~Prefix(p, r) /\ ~Prefix(r, p)
      BY <1>1, <1>2 DEF FlowApart
    <3>2. e \in Edges(Symbols, Symbols) /\ r \in Seq(FlowSteps)
      BY <1>5, <1>9
    <3>3. ~Prefix(Farther(p, e, FALSE), r)
      BY <1>3, <3>1, <3>2, FartherIsPrefix
    <3>4. Prefix(r, Farther(p, e, FALSE)) => r = Farther(p, e, FALSE)
      BY <1>3, <3>1, <3>2, PrefixOfFarther
    <3>5. r # Farther(p, e, FALSE)
      BY <1>11
    <3> QED
      BY <3>3, <3>4, <3>5
  <2>2. \A a, b \in BOOLEAN : \A f \in On(a), h \in On(b) : Prefix(f, h) => f = h /\ a = b
    <3> SUFFICES ASSUME NEW a \in BOOLEAN, NEW b \in BOOLEAN, NEW f \in On(a), NEW h \in On(b), Prefix(f, h)
                 PROVE  f = h /\ a = b
      BY Zenon
    <3>1. PICK e \in E(a) : f = Farther(p, e, a)
      BY Zenon
    <3>2. PICK d \in E(b) : h = Farther(p, d, b)
      BY Zenon
    <3>3. e = d /\ a = b
      <4>1. e \in Edges(Symbols, Symbols) /\ d \in Edges(Symbols, Symbols) /\ e.from = d.from
        BY <1>5
      <4>2. Prefix(Farther(p, e, a), Farther(p, d, b))
        BY <3>1, <3>2
      <4> QED
        BY <1>3, <4>1, <4>2, FartherDiffer
    <3> QED
      BY <3>1, <3>2, <3>3
  <2>3. \A f \in On(FALSE), r \in Range(results) : ~Prefix(f, r)
    <3> SUFFICES ASSUME NEW e \in E(FALSE), NEW r \in Range(results)
                 PROVE  ~Prefix(Farther(p, e, FALSE), r)
      OBVIOUS
    <3>1. ~Prefix(p, r)
      BY <1>1, <1>2 DEF FlowApart
    <3> QED
      BY <1>3, <1>5, <1>10, <3>1, FartherIsPrefix
  <2>4. \A r \in Range(stack) \ {p}, f \in On(TRUE) : ~Prefix(r, f)
    <3> SUFFICES ASSUME NEW e \in E(TRUE), NEW r \in Range(stack), r # p
                 PROVE  ~Prefix(r, Farther(p, e, TRUE))
      OBVIOUS
    <3>1. ~Prefix(r, p)
      BY <1>1, <1>2 DEF FlowApart
    <3>2. e \in Edges(Symbols, Symbols) /\ r \in Seq(FlowSteps)
      BY <1>5, <1>9
    <3>3. Prefix(r, Farther(p, e, TRUE)) => r = Farther(p, e, TRUE)
      BY <1>3, <3>1, <3>2, PrefixOfFarther
    <3> QED
      BY <1>11, <3>3
  <2>5. \A c \in BOOLEAN : \A f \in On(c) : f[1] = p[1]
    BY <1>6
  <2>6. p[1].symbol \notin todo /\ \A r \in Range(paths) : r[1].symbol # p[1].symbol
    BY <1>1, <1>2 DEF FlowApart
  <2> HIDE DEF On
  <2>7. OneByOne(stack') /\ OneByOne(results') /\ OneByOne(paths')
    BY <1>1, <1>2, <1>12, <1>13 DEF FlowApart
  <2>8. \A q, r \in Range(stack') : Prefix(q, r) => q = r
    <3>1. \A q, r \in Range(stack) : Prefix(q, r) => q = r
      BY <1>2 DEF FlowApart
    <3>2. \A f, h \in On(FALSE) : Prefix(f, h) => f = h
      BY <2>2
    <3> QED
      BY <1>12, <2>1, <3>1, <3>2
  <2>9. \A q \in Range(stack'), r \in Range(results') : ~Prefix(q, r)
    <3>1. \A q \in Range(stack), r \in Range(results) : ~Prefix(q, r)
      BY <1>2 DEF FlowApart
    <3>2. \A f \in On(FALSE), h \in On(TRUE) : ~Prefix(f, h)
      BY <2>2
    <3> QED
      BY <1>12, <1>13, <2>3, <2>4, <3>1, <3>2
  <2>10. \A q \in Range(stack') \union Range(results') :
           q[1].symbol \notin todo' /\ \A r \in Range(paths') : r[1].symbol # q[1].symbol
    <3>1. \A q \in Range(stack) \union Range(results) :
            q[1].symbol \notin todo /\ \A r \in Range(paths) : r[1].symbol # q[1].symbol
      BY <1>2 DEF FlowApart
    <3>2. \A q \in On(FALSE) \union On(TRUE) :
            q[1].symbol \notin todo /\ \A r \in Range(paths) : r[1].symbol # q[1].symbol
      BY <2>5, <2>6
    <3> QED
      BY <1>1, <1>12, <1>13, <3>1, <3>2
  <2>11. \A r \in Range(paths') : r[1].symbol \notin todo'
    BY <1>1, <1>2 DEF FlowApart
  <2> QED
    BY <2>7, <2>8, <2>9, <2>10, <2>11, Zenon DEF FlowApart
<1>16. FlowMisses'
  <2> SUFFICES ASSUME Len(paths) < MaxPaths, AllFit(graph), NEW w, NEW cs, Walk(graph, ask, roots, w), Choice(graph, w, cs)
               PROVE  \/ w[1] \in todo
                      \/ \E r \in (Range(stack) \ {p}) \union On(FALSE) : Along(r, w, cs)
                      \/ \E r \in (Range(results) \union On(TRUE)) \union Range(paths) : Tells(r, w, cs)
    <3> HIDE DEF On
    <3> QED
      BY <1>1, <1>12, <1>13, Zenon DEF FlowMisses
  <2>1. \/ w[1] \in todo
        \/ \E r \in Range(stack) : Along(r, w, cs)
        \/ \E r \in Range(results) \union Range(paths) : Tells(r, w, cs)
    BY <1>2 DEF FlowMisses
  <2>2. ASSUME Along(p, w, cs)
        PROVE  (\E r \in On(FALSE) : Along(r, w, cs)) \/ (\E r \in On(TRUE) : Tells(r, w, cs))
    <3>1. \/ \E e \in E(TRUE) : Tells(Farther(p, e, TRUE), w, cs)
          \/ \E e \in E(FALSE) : Along(Farther(p, e, FALSE), w, cs)
      BY <1>2, <1>3, <2>2, WalkGoesOn DEF E
    <3> QED
      BY <3>1
  <2> HIDE DEF On
  <2> QED
    BY <2>1, <2>2
<1> QED
  BY <1>1, <1>14, <1>15, <1>16 DEF FlowWalk

\* No other step touches what flow keeps.
LEMMA FlowStays ==
  ASSUME Asked, FlowWalk, NextQuery \/ UNCHANGED vars, ~Resolve, ~FlowEnter, ~FlowPop, ~FlowLeave
  PROVE  FlowWalk'
<1>1. CASE UNCHANGED vars
  BY <1>1, Zenon DEF vars, flowVars, FlowWalk, FlowShape, FlowApart, FlowMisses
<1>2. CASE NextQuery
  <2>1. ask' = ask
    BY <1>2, Zenon DEF NextQuery, Next, Refuse, ImpactHop, ImpactDone, Context, FlowDone, TraceChain, TailHop,
       TailDone, TraceUpstream, TraceDone, View, Find, Draw, Answer
  <2> SUFFICES ASSUME ask.tool = "flow"
               PROVE  FlowWalk'
    BY <2>1 DEF FlowWalk
  <2>2. FlowDone
    BY <1>2 DEF Asked, NextQuery, Next, Refuse, ImpactHop, ImpactDone, Context, TraceChain, TailHop,
       TailDone, TraceUpstream, TraceDone, View, Find, Draw, Answer
  <2>3. /\ pc = "flow" /\ pc' = "done" /\ graph' = graph /\ roots' = roots /\ todo' = todo
        /\ stack' = stack /\ results' = results /\ paths' = paths
    BY <2>2 DEF FlowDone, flowVars
  <2>4. FlowShape /\ FlowApart /\ FlowMisses
    BY DEF FlowWalk
  <2>5. FlowShape'
    BY <2>1, <2>3, <2>4 DEF FlowShape
  <2>6. FlowApart'
    BY <2>1, <2>3, <2>4 DEF FlowApart
  <2>7. FlowMisses'
    BY <2>1, <2>3, <2>4 DEF FlowMisses
  <2> QED
    BY <2>5, <2>6, <2>7 DEF FlowWalk
<1> QED
  BY <1>1, <1>2

LEMMA FlowWalkAlways == SpecQuery => [](FlowWalk /\ (Answered("flow") => todo = {} \/ Len(paths) >= MaxPaths))
<1> DEFINE Over == Answered("flow") => todo = {} \/ Len(paths) >= MaxPaths
<1>1. Init => FlowWalk /\ Over
  BY FlowBegins DEF Init, Answered
<1>2. Asked /\ FlowWalk /\ [NextQuery]_vars => FlowWalk'
  BY FlowResolves, FlowEnters, FlowEndsOne, FlowGoesOn, FlowLeaves, FlowStays, Zenon
<1>3. ASSUME Asked, Over, [NextQuery]_vars
      PROVE  Over'
  <2>1. CASE UNCHANGED vars
    BY <1>3, <2>1 DEF vars, flowVars, Answered
  <2>2. CASE FlowDone
    BY <1>3, <2>2 DEF FlowDone, flowVars, Answered
  <2>3. CASE NextQuery /\ ~FlowDone
    <3>1. ~Answered("flow")'
      BY <1>3, <2>3 DEF Answered, Asked, NextQuery, Next, Refuse, Resolve, ImpactHop, ImpactDone, Context, TraceChain,
         TailHop, TailDone, TraceUpstream, TraceDone, View, Find, Draw, Answer, FlowEnter, FlowPop, FlowLeave, Walkers
    <3> QED
      BY <3>1
  <2> QED
    BY <1>3, <2>1, <2>2, <2>3
<1> HIDE DEF Over
<1>4. SpecQuery => [](FlowWalk /\ Over)
  BY <1>1, <1>2, <1>3, AskedAlways, PTL DEF SpecQuery
<1> QED
  BY <1>4, PTL DEF Over

SymbolsOf(p) == [i \in DOMAIN p |-> p[i].symbol]
NoneTwice(p) == \A i, j \in DOMAIN p : p[i] = p[j] => i = j
PairsOf(g)   == {<<e.from, e.to>> : e \in g.CALLS}
WalksOf(g, q, R) ==
  {p \in UNION {[1..k + 1 -> Symbols] : k \in {0} \union 0..q.depth} :
     /\ p[1] \in R
     /\ \A i \in 1..Len(p) - 1 : p[i] # p[i + 1] /\ <<p[i], p[i + 1]>> \in PairsOf(g)}

CallsFrom(g, w, i) == w[i] # w[i + 1] /\ \E e \in g.CALLS : e.from = w[i] /\ e.to = w[i + 1]
Walking(g, q, R, w) ==
  /\ w \in Seq(Symbols) /\ Len(w) >= 1 /\ (Len(w) = 1 \/ Len(w) - 1 <= q.depth)
  /\ w[1] \in R
  /\ \A i \in 1..Len(w) - 1 : CallsFrom(g, w, i)

LEMMA WalksAre ==
  ASSUME NEW g, NEW q, q.depth \in Int, NEW R, NEW w
  PROVE  w \in WalksOf(g, q, R) <=> Walking(g, q, R, w)
<1>1. w \in UNION {[1..k + 1 -> Symbols] : k \in {0} \union 0..q.depth}
        <=> w \in Seq(Symbols) /\ Len(w) >= 1 /\ (Len(w) = 1 \/ Len(w) - 1 <= q.depth)
  <2>1. ASSUME NEW k \in {0} \union 0..q.depth, w \in [1..k + 1 -> Symbols]
        PROVE  w \in Seq(Symbols) /\ Len(w) >= 1 /\ (Len(w) = 1 \/ Len(w) - 1 <= q.depth)
    <3>1. k \in Nat /\ (k = 0 \/ k <= q.depth)
      OBVIOUS
    <3>2. w \in Seq(Symbols) /\ Len(w) = k + 1
      BY <2>1, <3>1
    <3> QED
      BY <3>1, <3>2
  <2>2. ASSUME w \in Seq(Symbols), Len(w) >= 1, Len(w) = 1 \/ Len(w) - 1 <= q.depth
        PROVE  \E k \in {0} \union 0..q.depth : w \in [1..k + 1 -> Symbols]
    <3>1. Len(w) \in Nat /\ w \in [1..Len(w) -> Symbols]
      BY <2>2, LenProperties
    <3>2. Len(w) - 1 \in {0} \union 0..q.depth /\ (Len(w) - 1) + 1 = Len(w)
      BY <2>2, <3>1
    <3> QED
      BY <3>1, <3>2
  <2> QED
    BY <2>1, <2>2
<1>2. ASSUME NEW i
      PROVE  w[i] # w[i + 1] /\ <<w[i], w[i + 1]>> \in PairsOf(g) <=> CallsFrom(g, w, i)
  <2>1. ASSUME NEW a, NEW b
        PROVE  <<a, b>> \in PairsOf(g) <=> \E e \in g.CALLS : e.from = a /\ e.to = b
    BY DEF PairsOf
  <2>2. <<w[i], w[i + 1]>> \in PairsOf(g) <=> \E e \in g.CALLS : e.from = w[i] /\ e.to = w[i + 1]
    BY <2>1
  <2> QED
    BY <2>2, Zenon DEF CallsFrom
<1>3. w \in WalksOf(g, q, R)
        <=> /\ w \in UNION {[1..k + 1 -> Symbols] : k \in {0} \union 0..q.depth}
            /\ w[1] \in R
            /\ \A i \in 1..Len(w) - 1 : w[i] # w[i + 1] /\ <<w[i], w[i + 1]>> \in PairsOf(g)
  BY Zenon DEF WalksOf
<1>4. (\A i \in 1..Len(w) - 1 : w[i] # w[i + 1] /\ <<w[i], w[i + 1]>> \in PairsOf(g))
        <=> \A i \in 1..Len(w) - 1 : CallsFrom(g, w, i)
  BY <1>2, Zenon
<1> QED
  BY <1>1, <1>3, <1>4, Zenon DEF Walking

ChoicesOf(g, w) ==
  {cs \in [1..Len(w) - 1 -> g.CALLS] : \A k \in 1..Len(w) - 1 : cs[k].from = w[k] /\ cs[k].to = w[k + 1]}
EndsWhere(g, q, w) == Len(w) - 1 >= q.depth \/ CalleesIn(g, Last(w)) = <<>>

\* What a path of the answer is.
LEMMA TrailIsTold ==
  ASSUME NEW g, NEW q, q.depth \in Int, NEW R, NEW p, Trail(g, q, R, p), Cyclic(p) \/ EndsHere(g, q, p)
  PROVE  /\ SymbolsOf(p) \in WalksOf(g, q, R)
         /\ \A k \in 2..Len(p) : EdgeTo(p, k) \in g.CALLS
         /\ NoneTwice(SymbolsOf(Front(p))) /\ \A k \in 1..Len(p) - 1 : ~p[k].cycle
         /\ Last(p).cycle <=> ~NoneTwice(SymbolsOf(p))
         /\ Last(p).cycle \/ EndsWhere(g, q, SymbolsOf(p))
<1> DEFINE n == Len(p)
           w == SymbolsOf(p)
           fr == Front(p)
<1>1. p \in Seq(FlowSteps) /\ n \in Nat /\ n >= 1 /\ DOMAIN p = 1..n /\ p # <<>>
  BY LenProperties, EmptySeq DEF Trail
<1>2. /\ fr \in Seq(FlowSteps) /\ Len(fr) = n - 1 /\ \A i \in 1..n - 1 : fr[i] = p[i]
      /\ Last(p) = p[n]
  BY <1>1, FrontFacts
<1>3. \A i \in 1..n : p[i].symbol \in Symbols
  <2>1. \A i \in 1..n : p[i] \in FlowSteps
    BY <1>1, ElementOfSeq
  <2> QED
    BY <2>1 DEF FlowSteps
<1>4. w \in Seq(Symbols) /\ Len(w) = n /\ DOMAIN w = 1..n /\ \A i \in 1..n : w[i] = p[i].symbol
  <2>1. w = [i \in 1..n |-> p[i].symbol]
    BY <1>1 DEF SymbolsOf
  <2> HIDE DEF w, n
  <2> QED
    BY <1>1, <1>3, <2>1
<1>5. \A k \in 2..n : EdgeTo(p, k) \in g.CALLS /\ p[k - 1].symbol # p[k].symbol
  BY DEF Trail
<1> HIDE DEF w, n, fr
<1>6. \A i \in 1..n - 1 : w[i] # w[i + 1] /\ \E e \in g.CALLS : e.from = w[i] /\ e.to = w[i + 1]
  <2> SUFFICES ASSUME NEW i \in 1..n - 1
               PROVE  w[i] # w[i + 1] /\ \E e \in g.CALLS : e.from = w[i] /\ e.to = w[i + 1]
    OBVIOUS
  <2>1. i + 1 \in 2..n /\ (i + 1) - 1 = i /\ i \in 1..n /\ i + 1 \in 1..n
    BY <1>1
  <2>2. EdgeTo(p, i + 1) \in g.CALLS /\ p[i].symbol # p[i + 1].symbol
    BY <1>5, <2>1
  <2>3. EdgeTo(p, i + 1).from = p[i].symbol /\ EdgeTo(p, i + 1).to = p[i + 1].symbol
    BY <2>1 DEF EdgeTo
  <2> QED
    BY <1>4, <2>1, <2>2, <2>3
<1>7. w \in WalksOf(g, q, R)
  <2>1. 1 \in 1..n
    BY <1>1
  <2>2. w[1] \in R /\ (n = 1 \/ n - 1 <= q.depth)
    BY <1>4, <2>1 DEF Trail, n
  <2> QED
    BY <1>1, <1>4, <1>6, <2>2, WalksAre DEF Walking, CallsFrom
<1>8. \A i, j \in 1..n - 1 : p[i].symbol = p[j].symbol => i = j
  BY DEF Trail, n
<1>9. \A i \in 1..n : p[i].cycle <=> i = n /\ \E j \in 1..n - 1 : p[j].symbol = p[i].symbol
  BY Zenon DEF Trail, n
<1>10. NoneTwice(SymbolsOf(fr))
  <2>1. SymbolsOf(fr) = [i \in 1..n - 1 |-> fr[i].symbol]
    BY <1>1, <1>2, LenProperties DEF SymbolsOf
  <2>2. \A i \in 1..n - 1 : SymbolsOf(fr)[i] = p[i].symbol
    BY <1>2, <2>1
  <2> QED
    BY <1>8, <2>1, <2>2 DEF NoneTwice
<1>11. \A k \in 1..n - 1 : ~p[k].cycle
  <2>1. \A k \in 1..n - 1 : k \in 1..n /\ k # n
    BY <1>1
  <2> QED
    BY <1>9, <2>1
<1>12. p[n].cycle <=> ~NoneTwice(w)
  <2>1. n \in 1..n /\ \A i \in 1..n : i = n \/ i \in 1..n - 1
    BY <1>1
  <2>2. p[n].cycle <=> \E j \in 1..n - 1 : p[j].symbol = p[n].symbol
    BY <1>9, <2>1
  <2>3. NoneTwice(w) <=> \A i, j \in 1..n : p[i].symbol = p[j].symbol => i = j
    BY <1>4 DEF NoneTwice
  <2>4. \A j \in 1..n - 1 : j \in 1..n /\ j # n
    BY <1>1
  <2> QED
    BY <1>8, <2>1, <2>2, <2>3, <2>4
<1>13. Cyclic(p) <=> p[n].cycle
  BY DEF Cyclic, n
<1>14. EndsHere(g, q, p) => EndsWhere(g, q, w)
  <2>1. n \in 1..n
    BY <1>1
  <2>2. Last(w) = p[n].symbol /\ Len(w) = n
    BY <1>4, <2>1 DEF Last
  <2> QED
    BY <2>2, Zenon DEF EndsHere, EndsWhere, n
<1> QED
  BY <1>2, <1>5, <1>7, <1>10, <1>11, <1>12, <1>13, <1>14 DEF w, n, fr

\* What the property says, in these words.
Faithfully(g, q, R, ps) ==
  /\ Len(ps) <= MaxPaths
  /\ \A i, j \in DOMAIN ps : ps[i] = ps[j] => i = j
  /\ \A i \in DOMAIN ps :
       /\ SymbolsOf(ps[i]) \in WalksOf(g, q, R)
       /\ \A k \in 2..Len(ps[i]) : EdgeTo(ps[i], k) \in g.CALLS
       /\ NoneTwice(SymbolsOf(Front(ps[i]))) /\ \A k \in 1..Len(ps[i]) - 1 : ~ps[i][k].cycle
       /\ Last(ps[i]).cycle <=> ~NoneTwice(SymbolsOf(ps[i]))
       /\ Last(ps[i]).cycle \/ EndsWhere(g, q, SymbolsOf(ps[i]))
  /\ Len(ps) < MaxPaths /\ AllFit(g) =>
       \A w \in WalksOf(g, q, R) :
         (Len(w) > 1 => NoneTwice(Front(w))) /\ (NoneTwice(w) => EndsWhere(g, q, w))
           => \A cs \in ChoicesOf(g, w) : \E i \in DOMAIN ps :
                SymbolsOf(ps[i]) = w /\ \A k \in 1..Len(w) - 1 : ps[i][k + 1].row = cs[k].row

LEMMA FaithfulSaid == FlowIsFaithful <=> (Answered("flow") => Faithfully(graph, ask, roots, paths))
BY Zenon DEF FlowIsFaithful, Faithfully, SymbolsOf, NoneTwice, WalksOf, PairsOf, EdgeTo, EndsWhere, ChoicesOf, AllFit,
   CalleesIn, Callees

\* flow tells, for every graph, question and caps: only paths of calls that end for
\* a reason and are marked right, each once for a choice of the places its calls are
\* made from, and if no cap, counted in places, was met all of them (_walk_flow, flow).
THEOREM FlowIsExact == SpecQuery => []FlowIsFaithful
<1>1. Asked /\ FlowWalk /\ (Answered("flow") => todo = {} \/ Len(paths) >= MaxPaths) => FlowIsFaithful
  <2> SUFFICES ASSUME Asked, FlowWalk, Answered("flow"), todo = {} \/ Len(paths) >= MaxPaths
               PROVE  Faithfully(graph, ask, roots, paths)
    BY FaithfulSaid, Zenon
  <2>1. ask.tool = "flow" /\ pc = "done"
    BY DEF Answered
  <2>2. FlowShape /\ FlowApart /\ FlowMisses /\ CallsOK(graph) /\ ask.depth \in Int
    BY <2>1, FlowGraph DEF FlowWalk
  <2>3. DOMAIN paths = 1..Len(paths) /\ Len(paths) \in Nat /\ Range(paths) = {paths[i] : i \in 1..Len(paths)}
    BY <2>2, LenProperties, RangeEquality DEF FlowShape
  <2> DEFINE walks == WalksOf(graph, ask, roots)
  <2>4. \A i, j \in DOMAIN paths : paths[i] = paths[j] => i = j
    BY <2>2, <2>3 DEF FlowApart, OneByOne
  <2>5. \A i \in DOMAIN paths :
          /\ SymbolsOf(paths[i]) \in walks
          /\ \A k \in 2..Len(paths[i]) : EdgeTo(paths[i], k) \in graph.CALLS
          /\ NoneTwice(SymbolsOf(Front(paths[i]))) /\ \A k \in 1..Len(paths[i]) - 1 : ~paths[i][k].cycle
          /\ Last(paths[i]).cycle <=> ~NoneTwice(SymbolsOf(paths[i]))
          /\ Last(paths[i]).cycle \/ EndsWhere(graph, ask, SymbolsOf(paths[i]))
    <3> SUFFICES ASSUME NEW p \in Range(paths)
                 PROVE  /\ SymbolsOf(p) \in walks
                        /\ \A k \in 2..Len(p) : EdgeTo(p, k) \in graph.CALLS
                        /\ NoneTwice(SymbolsOf(Front(p))) /\ \A k \in 1..Len(p) - 1 : ~p[k].cycle
                        /\ Last(p).cycle <=> ~NoneTwice(SymbolsOf(p))
                        /\ Last(p).cycle \/ EndsWhere(graph, ask, SymbolsOf(p))
      BY <2>3, Zenon
    <3>1. Trail(graph, ask, roots, p) /\ (Cyclic(p) \/ EndsHere(graph, ask, p))
      BY <2>2 DEF FlowShape
    <3> QED
      BY <2>2, <3>1, TrailIsTold
  <2>6. ASSUME Len(paths) < MaxPaths, AllFit(graph), NEW w \in walks,
               Len(w) > 1 => NoneTwice(Front(w)),
               NoneTwice(w) => EndsWhere(graph, ask, w), NEW cs \in ChoicesOf(graph, w)
        PROVE  \E i \in DOMAIN paths :
                 SymbolsOf(paths[i]) = w /\ \A k \in 1..Len(w) - 1 : paths[i][k + 1].row = cs[k].row
    <3>1. /\ w \in Seq(Symbols) /\ Len(w) >= 1 /\ (Len(w) = 1 \/ Len(w) - 1 <= ask.depth) /\ w[1] \in roots
          /\ \A i \in 1..Len(w) - 1 : w[i] # w[i + 1] /\ \E e \in graph.CALLS : e.from = w[i] /\ e.to = w[i + 1]
      <4>1. w \in WalksOf(graph, ask, roots) /\ ask.depth \in Int
        BY <2>2, <2>6, Zenon
      <4>2. w \in WalksOf(graph, ask, roots) <=> Walking(graph, ask, roots, w)
        BY <4>1, WalksAre, Zenon
      <4> QED
        BY <4>1, <4>2, Zenon DEF Walking, CallsFrom
    <3>2. Len(w) \in Nat /\ DOMAIN w = 1..Len(w) /\ w # <<>>
      BY <3>1, LenProperties, EmptySeq
    <3>3. /\ Front(w) \in Seq(Symbols) /\ Len(Front(w)) = Len(w) - 1 /\ Last(w) = w[Len(w)]
          /\ \A i \in 1..Len(w) - 1 : Front(w)[i] = w[i]
      BY <3>1, <3>2, FrontFacts
    <3>4. \A i, j \in 1..Len(w) - 1 : w[i] = w[j] => i = j
      <4>1. CASE Len(w) = 1
        BY <4>1
      <4>2. CASE Len(w) > 1
        <5>1. DOMAIN Front(w) = 1..Len(w) - 1
          BY <3>3, LenProperties
        <5> QED
          BY <2>6, <3>3, <4>2, <5>1 DEF NoneTwice
      <4> QED
        BY <3>1, <3>2, <4>1, <4>2
    <3>5. Walk(graph, ask, roots, w) /\ Choice(graph, w, cs)
      <4>1. Choice(graph, w, cs)
        BY DEF Choice, ChoicesOf
      <4> QED
        BY <2>6, <3>1, <3>2, <3>3, <3>4, <4>1 DEF Walk, NoneTwice, EndsWhere
    <3>6. Range(stack) = {} /\ Range(results) = {} /\ todo = {}
      BY <2>1, <2>2, <2>3, <2>6, CapsAssumption, EmptyRange DEF FlowShape
    <3>7. PICK p \in Range(paths) : Tells(p, w, cs)
      BY <2>2, <2>6, <3>5, <3>6 DEF FlowMisses
    <3>8. p \in Seq(FlowSteps)
      BY <2>2, <3>7 DEF FlowShape, Trail
    <3>9. DOMAIN p = 1..Len(w)
      BY <3>7, <3>8, LenProperties DEF Tells
    <3>10. SymbolsOf(p) = [i \in 1..Len(w) |-> w[i]]
      BY <3>7, <3>9 DEF Tells, Along, SymbolsOf
    <3>11. SymbolsOf(p) = w
      BY <3>1, <3>2, <3>10, LenProperties
    <3>12. \A k \in 1..Len(w) - 1 : p[k + 1].row = cs[k].row
      BY <3>7 DEF Tells, Along
    <3> QED
      BY <2>3, <3>11, <3>12
  <2>7. Len(paths) <= MaxPaths
    BY <2>2 DEF FlowShape
  <2> QED
    BY <2>4, <2>5, <2>6, <2>7, Zenon DEF Faithfully
<1> QED
  BY <1>1, AskedAlways, FlowWalkAlways, PTL
=============================================================================
