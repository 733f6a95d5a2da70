----------------------------- MODULE GraphBuild -----------------------------
(***************************************************************************)
(* BuildGraphPhase (pipeline/phases.py): the old database is deleted, the  *)
(* edges are worked out in memory, and nodes and edges are written batch   *)
(* by batch into the graph store (graph/ladybug_store.py), which the       *)
(* lexical index is then built from.  A run may be killed anywhere, and    *)
(* the next one finds what it left.  Rows of the contract layer are in     *)
(* Contracts.  Edges are sets: that a call occurs twice is not recorded.   *)
(*                                                                         *)
(* A repository is, beside what Resolver says of it: bare (calls by name), *)
(* dotted (calls on a receiver), parents (names after `extends' and        *)
(* `implements'), deps (injected types), models (classes with a table) and *)
(* commits, which may name files that are no sources.                      *)
(***************************************************************************)
EXTENDS Resolver, FiniteSets

CONSTANTS
    Repos,
    Edited,               \* bound: what a repository may be edited to
    CoChangesThreshold,
    MaxRuns               \* bound: how many times the phase is started

Confidences == {"EXTRACTED", "INFERRED", "AMBIGUOUS"}
Sources(r)  == {r.files[i] : i \in 1..Len(r.files)}
Before(r, f, g) == \E i, j \in 1..Len(r.files) : i < j /\ r.files[i] = f /\ r.files[j] = g

(* The extractors run over the files of the graph and nothing else, a name  *)
(* and a class stand where they look for one, and nothing is called "*".    *)
(* The inventory lists a file once, and git a commit.                      *)
ASSUME RepoAssumption ==
    /\ Edited \subseteq Repos
    /\ CoChangesThreshold \in Nat \ {0}
    /\ \A r \in Repos :
         /\ \A i, j \in 1..Len(r.files) : r.files[i] = r.files[j] => i = j
         /\ \A S \in {r.decls, r.bare, r.dotted, r.parents, r.deps, r.models} : \A x \in S :
              x.file \in Sources(r) /\ x.place \in Place(STRING)
         /\ \A S \in {r.decls, r.parents, r.deps, r.models} : \A x \in S : x.place # <<>>
         /\ \A S \in {r.parents, r.models} : \A x \in S : IsClass(Inner(x.place))
         /\ \A p \in r.parents : p.kind \in {"extends", "implements"}
         /\ \A d \in r.decls : Inner(d.place).name # "*"
         /\ \A f \in Sources(r) : f.path \in Seq(STRING) \ {<<>>} /\ f.ext \in DOMAIN LanguageOf
         /\ \A i \in 1..Len(r.imports) : r.imports[i].file \in Sources(r)
         /\ \A m \in r.models : m.conf \in {"EXTRACTED", "INFERRED"}
         /\ IsFiniteSet(r.commits)
         /\ \A c, d \in r.commits : c.sha = d.sha => c = d

Nodes == {"File", "Module", "Symbol", "DbTable", "Author", "Commit"}
(* The labels of the edges, with the nodes at their ends.                   *)
Ends ==
    [DEFINES |-> <<"File", "Symbol">>, MEMBER_OF |-> <<"Symbol", "Symbol">>,
     IMPORTS |-> <<"File", "Module">>, CALLS |-> <<"Symbol", "Symbol">>,
     EXTENDS_ |-> <<"Symbol", "Symbol">>, IMPLEMENTS |-> <<"Symbol", "Symbol">>,
     AUTHORED_BY |-> <<"Commit", "Author">>, TOUCHED_BY_COMMIT |-> <<"File", "Commit">>,
     CO_CHANGES_WITH |-> <<"File", "File">>, INJECTS |-> <<"Symbol", "Symbol">>,
     PERSISTS_TO |-> <<"Symbol", "DbTable">>]
Labels == DOMAIN Ends

(* The order of the batches.                                                *)
Order ==
    <<"File", "Module", "Symbol", "DbTable", "Author", "Commit", "DEFINES", "MEMBER_OF",
      "IMPORTS", "CALLS", "EXTENDS_", "IMPLEMENTS", "AUTHORED_BY", "TOUCHED_BY_COMMIT",
      "CO_CHANGES_WITH", "INJECTS", "PERSISTS_TO">>

VARIABLES
    repo,
    runs,       \* times the phase was started
    stage,
    rows,       \* in memory: what is to be written, per label
    written,    \* batches of Order that are in the store
    nodes, edges,   \* the store
    index       \* the symbols in the lexical index

vars == <<repo, runs, stage, rows, written, nodes, edges, index>>

Stages == {"unlink", "calls", "history", "inheritance", "injection", "assemble", "write",
           "index", "done", "failed"}
NoRows  == [l \in Nodes \union Labels |-> {}]
NoNodes == [n \in Nodes |-> {}]
NoEdges == [l \in Labels |-> {}]

(* The symbols of a repository: its definitions and a module per file.      *)
Symbols(r) == Defs(r) \union {Symbol(f, <<>>) : f \in Sources(r)}
Edge(from, to, conf) == [from |-> from, to |-> to, conf |-> conf]

Init ==
    /\ repo \in Repos
    /\ runs = 1
    /\ stage = "unlink"
    /\ rows = NoRows /\ written = 0
    /\ nodes = NoNodes /\ edges = NoEdges /\ index = {}
-----------------------------------------------------------------------------
(* Mutant: the old database stays.                                          *)
UnlinkNothing ==
    /\ stage = "unlink"
    /\ stage' = "calls"
    /\ UNCHANGED <<repo, runs, rows, written, nodes, edges, index>>

(* The database and its write-ahead log are deleted, the index is not.      *)
Unlink ==
    /\ stage = "unlink"
    /\ nodes' = NoNodes /\ edges' = NoEdges
    /\ stage' = "calls"
    /\ UNCHANGED <<repo, runs, rows, written, index>>

Call(c, callees) ==
    {Edge(Symbol(c.file, ScopeName(c.place)), e.to, e.conf) : e \in callees}

ResolveCalls ==
    /\ stage = "calls"
    /\ rows' = [rows EXCEPT !["CALLS"] =
                  (UNION {Call(c, BareCallees(repo, c)) : c \in repo.bare}) \union
                  (UNION {Call(c, ReceiverCallees(repo, c)) : c \in repo.dotted})]
    /\ stage' = "history"
    /\ UNCHANGED <<repo, runs, written, nodes, edges, index>>

(* The sources among the files of a commit.                                 *)
Touches(c, r) == c.files \intersect Sources(r)

(* In how many commits two files change together.                           *)
Together(r, f, g) == Cardinality({c \in r.commits : {f, g} \subseteq Touches(c, r)})

ReadHistory ==
    /\ stage = "history"
    /\ rows' = [rows EXCEPT
         !["Author"] = {c.author : c \in repo.commits},
         !["Commit"] = {c.sha : c \in repo.commits},
         !["AUTHORED_BY"] = {Edge(c.sha, c.author, "EXTRACTED") : c \in repo.commits},
         !["TOUCHED_BY_COMMIT"] =
            UNION {{Edge(f, c.sha, "EXTRACTED") : f \in Touches(c, repo)} : c \in repo.commits},
         !["CO_CHANGES_WITH"] =
            {Edge(pair[1], pair[2], "INFERRED") : pair \in
               {p \in Sources(repo) \X Sources(repo) :
                  Before(repo, p[1], p[2]) /\ Together(repo, p[1], p[2]) >= CoChangesThreshold}}]
    /\ stage' = "inheritance"
    /\ UNCHANGED <<repo, runs, written, nodes, edges, index>>

Children(kind) ==
    UNION {{Edge(Symbol(p.file, TypeName(Language(p.file), p.place)), e.to, e.conf) :
              e \in Named(repo, p.file, p.name)} : p \in {q \in repo.parents : q.kind = kind}}

ResolveInheritance ==
    /\ stage = "inheritance"
    /\ rows' = [rows EXCEPT !["EXTENDS_"] = Children("extends"),
                            !["IMPLEMENTS"] = Children("implements")]
    /\ stage' = "injection"
    /\ UNCHANGED <<repo, runs, written, nodes, edges, index>>

(* Mutant: one of several implementations is picked.                        *)
InjectedFirst(target) ==
    LET impls == {e.from : e \in {f \in rows["IMPLEMENTS"] : f.to = target.to}}
    IN IF impls = {} THEN {target} ELSE To({CHOOSE i \in impls : TRUE}, "INFERRED")

(* What an injected type stands for: the implementations of an interface,   *)
(* or itself.                                                              *)
Injected(target) ==
    LET impls == {e.from : e \in {f \in rows["IMPLEMENTS"] : f.to = target.to}}
    IN IF impls = {} THEN {target}
       ELSE To(impls, IF \E i \in impls : impls = {i} THEN "INFERRED" ELSE "AMBIGUOUS")

ResolveInjection ==
    /\ stage = "injection"
    /\ rows' = [rows EXCEPT
         !["INJECTS"] =
            UNION {UNION {{Edge(Symbol(d.file, InjectorName(Language(d.file), d.place)),
                                e.to, e.conf) : e \in Injected(t)} :
                            t \in Named(repo, d.file, d.name)} : d \in repo.deps},
         !["PERSISTS_TO"] =
            {Edge(Symbol(m.file, TypeName(Language(m.file), m.place)), m.table, m.conf) :
               m \in repo.models}]
    /\ stage' = "assemble"
    /\ UNCHANGED <<repo, runs, written, nodes, edges, index>>

(* Rows that start and end at symbols of the repository.                    *)
Between(label) == {e \in rows[label] : e.from \in Symbols(repo) /\ e.to \in Symbols(repo)}
Persisted == {e \in rows["PERSISTS_TO"] : e.from \in Symbols(repo)}

ModuleOf(imp) == [language |-> Language(imp.file), from |-> imp.from, up |-> imp.up,
                  rest |-> imp.rest, ext |-> imp.ext]
Imports == {repo.imports[i] : i \in 1..Len(repo.imports)}

Assemble ==
    /\ stage = "assemble"
    /\ rows' = [l \in DOMAIN rows |->
         CASE l = "File"      -> Sources(repo)
           [] l = "Module"    -> {ModuleOf(i) : i \in Imports}
           [] l = "Symbol"    -> Symbols(repo)
           [] l = "DbTable"   -> {e.to : e \in Persisted}
           [] l = "DEFINES"   -> {Edge(s.file, s, "EXTRACTED") : s \in Symbols(repo)}
           [] l = "MEMBER_OF" -> {Edge(s, Symbol(s.file, Outer(s.name)), "EXTRACTED") :
                                    s \in {d \in Defs(repo) : Len(d.name) > 1}}
           [] l = "IMPORTS"   -> {Edge(i.file, ModuleOf(i), "EXTRACTED") : i \in Imports}
           [] l = "PERSISTS_TO" -> Persisted
           [] l \in {"CALLS", "EXTENDS_", "IMPLEMENTS", "INJECTS"} -> Between(l)
           [] OTHER -> rows[l]]
    /\ stage' = "write" /\ written' = 0
    /\ UNCHANGED <<repo, runs, nodes, edges, index>>
-----------------------------------------------------------------------------
(* UNWIND ... CREATE: a node whose key is there is an error.                *)
WriteNodes ==
    /\ stage = "write" /\ written < Len(Order)
    /\ LET l == Order[written + 1]
       IN /\ l \in Nodes
          /\ IF rows[l] \intersect nodes[l] = {}
             THEN /\ nodes' = [nodes EXCEPT ![l] = @ \union rows[l]]
                  /\ written' = written + 1
                  /\ UNCHANGED stage
             ELSE stage' = "failed" /\ UNCHANGED <<nodes, written>>
    /\ UNCHANGED <<repo, runs, rows, edges, index>>

(* UNWIND ... MATCH ... CREATE: a row without one of its ends creates       *)
(* nothing, and is no error.                                               *)
WriteEdges ==
    /\ stage = "write" /\ written < Len(Order)
    /\ LET l == Order[written + 1]
       IN /\ l \in Labels
          /\ edges' = [edges EXCEPT ![l] = @ \union
               {e \in rows[l] : e.from \in nodes[Ends[l][1]] /\ e.to \in nodes[Ends[l][2]]}]
    /\ written' = written + 1
    /\ UNCHANGED <<repo, runs, stage, rows, nodes, index>>

Written ==
    /\ stage = "write" /\ written = Len(Order)
    /\ stage' = "index"
    /\ UNCHANGED <<repo, runs, rows, written, nodes, edges, index>>

(* build_lexical_index_from_store.                                          *)
BuildIndex ==
    /\ stage = "index"
    /\ index' = {s \in nodes["Symbol"] : s.name # <<>>}
    /\ stage' = "done"
    /\ UNCHANGED <<repo, runs, rows, written, nodes, edges>>

(* The run ends or is killed, the repository is edited, and the phase runs  *)
(* again.                                                                  *)
Again ==
    /\ runs < MaxRuns /\ stage # "unlink"
    /\ runs' = runs + 1
    /\ repo' \in Edited
    /\ stage' = "unlink" /\ rows' = NoRows /\ written' = 0
    /\ UNCHANGED <<nodes, edges, index>>

Next == Unlink \/ ResolveCalls \/ ReadHistory \/ ResolveInheritance \/ ResolveInjection \/
        Assemble \/ WriteNodes \/ WriteEdges \/ Written \/ BuildIndex \/ Again

Spec == Init /\ [][Next]_vars
-----------------------------------------------------------------------------
TypeOK ==
    /\ repo \in Repos
    /\ runs \in Nat
    /\ stage \in Stages
    /\ written \in 0..Len(Order)
    /\ DOMAIN rows = Nodes \union Labels /\ DOMAIN nodes = Nodes /\ DOMAIN edges = Labels
    /\ \A l \in Labels : \A e \in rows[l] \union edges[l] : e.conf \in Confidences
    /\ \A s \in nodes["Symbol"] \union index : s = Symbol(s.file, s.name)

Done == stage = "done"
Caller(c) == Symbol(c.file, ScopeName(c.place))
Sure(e)   == e.conf # "AMBIGUOUS"
Has(label, from, to) == \E e \in edges[label] : e.from = from /\ e.to = to

(* What is counted as written is in the store: a batch loses a row only when *)
(* a method's type is declared in another file, or not at all.             *)
OnlyMembersAreLost ==
    Done => \A l \in Labels : \A e \in rows[l] :
        e \in edges[l] \/ (l = "MEMBER_OF" /\ e.to \notin Defs(repo))

(* A call that is not AMBIGUOUS stays in its file, follows an import, or    *)
(* is of a member that one file of the language has (resolver.py: "holds   *)
(* name-coincidence out of the ... precise set").                          *)
PreciseCallsAreLinked ==
    Done => \A e \in edges["CALLS"] : Sure(e) =>
        \/ e.to.file = e.from.file
        \/ \E i \in ImportsOf(repo, e.from.file) : e.to.file \in Target(repo.files, repo.imports[i])
        \/ /\ Len(e.to.name) = 2
           /\ \A s \in Defs(repo) :
                s.name = e.to.name /\ Language(s.file) = Language(e.from.file) => s = e.to

(* The declarations a bare name can mean where it is called: those in the   *)
(* classes and functions around it.                                        *)
Visible(c) ==
    {d \in repo.decls : /\ d.file = c.file /\ Inner(d.place).name = c.name
                        /\ Len(d.place) <= Len(c.place) + 1
                        /\ Outer(d.place) = SubSeq(c.place, 1, Len(d.place) - 1)}
Innermost(c) == {d \in Visible(c) : \A e \in Visible(c) : Len(e.place) <= Len(d.place)}
InFunction(place) == \E i \in 1..(Len(place) - 1) : ~IsClass(place[i])

(* A call by bare name means the innermost declaration around it.           *)
LexicalScope ==
    Done => \A c \in repo.bare : \A d \in Innermost(c) :
        Caller(c) \in Symbols(repo) =>
            Edge(Caller(c), Symbol(d.file, DefName(d.place)), "EXTRACTED") \in edges["CALLS"]

(* The same unless a function inside another has the name, the call is in a *)
(* class inside a function, or it is of a member from the body of its class *)
(* (resolver.py: "no class to look inside of").                            *)
InLocalClass(place) ==
    \E i \in 1..(Len(place) - 1) : IsClass(place[i]) /\ InFunction(SubSeq(place, 1, i))
InOwnBody(c, d) == c.place # <<>> /\ IsClass(Inner(c.place)) /\ Len(d.place) > Len(c.place)
ShadowingHolds ==
    Done => \A c \in repo.bare : \A d \in Innermost(c) :
        Caller(c) \in Symbols(repo) =>
            \/ Edge(Caller(c), Symbol(d.file, DefName(d.place)), "EXTRACTED") \in edges["CALLS"]
            \/ \E e \in repo.decls : e.file = c.file /\ Inner(e.place).name = c.name /\
                                     InFunction(e.place)
            \/ InLocalClass(c.place)
            \/ InOwnBody(c, d)

(* A relative import finds the file that it walks to, from wherever it is   *)
(* written, unless a sibling differs in nothing but the suffix.  A Python  *)
(* stub is analysed and no import finds it.                                *)
RelativeImportsAreFound ==
    \A f, g \in Sources(repo) : \A k \in 0..Len(Directory(g)) :
        /\ k <= Len(f.path)
        /\ Language(f) = Language(g) /\ Language(f) \notin {"java", "rust", "go", "swift"}
        /\ f.ext # "pyi"
        /\ SubSeq(f.path, 1, k) = SubSeq(g.path, 1, k)
        /\ \A h \in Sources(repo) : h.path = f.path => h = f
        => Target(repo.files,
                  [file |-> g, from |-> "here", up |-> Len(Directory(g)) - k,
                   rest |-> SubSeq(f.path, k + 1, Len(f.path)),
                   ext |-> IF Language(f) = "c" THEN f.ext ELSE ""]) = {f}

(* An import that names what is called, under that name or an alias,        *)
(* decides: the call goes there, and no name-coincidence is listed.        *)
ImportsDecide ==
    Done => \A c \in repo.bare : \A i \in ImportsOf(repo, c.file) :
        \A n \in repo.imports[i].names : \A t \in Target(repo.files, repo.imports[i]) :
            /\ Caller(c) \in Symbols(repo) /\ Symbol(t, <<n.name>>) \in Defs(repo)
            /\ c.name = IF n.alias = "" THEN n.name ELSE n.alias
            /\ \A d \in repo.decls : d.file = c.file => Inner(d.place).name # c.name
            => /\ \E e \in edges["CALLS"] :
                    e.from = Caller(c) /\ e.to = Symbol(t, <<n.name>>) /\ Sure(e)
               /\ \A e \in edges["CALLS"] : e.from = Caller(c) /\ ~Sure(e) => e.to.name # <<c.name>>

(* An injected interface is bound to each of the classes that implement it  *)
(* in the graph, and surely only when there is one (injection.py:           *)
(* "mirroring Spring's ... fail-closed posture").                           *)
Injector(d) == Symbol(d.file, InjectorName(Language(d.file), d.place))
Implementing(target) == {e.from : e \in {f \in edges["IMPLEMENTS"] : f.to = target}}
CandidatesAreInjected ==
    Done => \A d \in repo.deps : \A t \in Named(repo, d.file, d.name) :
        Injector(d) \in Symbols(repo) =>
            \A i \in Implementing(t.to) : \E e \in edges["INJECTS"] :
                e.from = Injector(d) /\ e.to = i /\ (Sure(e) => Implementing(t.to) = {i})

(* And it is not bound to itself, unless it implements another type that is *)
(* injected there.                                                         *)
InterfacesGiveWay ==
    Done => \A d \in repo.deps : \A t \in Named(repo, d.file, d.name) :
        Implementing(t.to) # {} /\ Has("INJECTS", Injector(d), t.to) =>
            \E other \in repo.deps : Injector(other) = Injector(d) /\
                \E u \in Named(repo, other.file, other.name) : t.to \in Implementing(u.to)

(* Files change together in the graph exactly when it shows enough commits  *)
(* that touched both.                                                      *)
CoChangesAgree ==
    Done => \A f, g \in nodes["File"] : Before(repo, f, g) =>
        (Has("CO_CHANGES_WITH", f, g) <=>
         Cardinality({k \in nodes["Commit"] : Has("TOUCHED_BY_COMMIT", f, k) /\
                                              Has("TOUCHED_BY_COMMIT", g, k)})
           >= CoChangesThreshold)

(* Whatever a killed run left, the next one builds the graph and the index  *)
(* of the repository as it is (phases.py, DEC-030).                        *)
RebuildForgets ==
    /\ stage # "failed"
    /\ Done => /\ nodes["File"] = Sources(repo) /\ nodes["Symbol"] = Symbols(repo)
               /\ index = {s \in Symbols(repo) : s.name # <<>>}
               /\ \A l \in Labels : edges[l] \subseteq rows[l]

(* What the extractors found at a place is on the symbol of that place:     *)
(* its parents, what is injected there and the table it is stored in.      *)
Here(x) == Symbol(x.file, DefName(x.place))
Linked(x, labels) == \E l \in labels : \E e \in edges[l] : e.from = Here(x)
Implementers(target) ==
    {p \in repo.parents : p.kind = "implements" /\
                          \E t \in Named(repo, p.file, p.name) : t.to = target}
SitesAreLinkedIf(Plain(_)) ==
    Done => /\ \A p \in repo.parents : Plain(p) /\ Named(repo, p.file, p.name) # {} =>
                 Linked(p, IF p.kind = "extends" THEN {"EXTENDS_"} ELSE {"IMPLEMENTS"})
            /\ \A d \in repo.deps : \A t \in Named(repo, d.file, d.name) :
                 /\ Plain(d)
                 /\ Implementers(t.to) # {} => \E p \in Implementers(t.to) : Plain(p)
                 => Linked(d, {"INJECTS"})
            /\ \A m \in repo.models : Plain(m) => Linked(m, {"PERSISTS_TO"})

(* Everywhere (injection.py: "matching the DEC-023 def-Tag convention",     *)
(* inheritance.py: "e.g. Outer.Inner for a nested class").                 *)
SitesAreLinked == SitesAreLinkedIf(LAMBDA x : TRUE)

(* At declarations outside functions and, but in Python, outside classes.    *)
PlainSitesAreLinked ==
    SitesAreLinkedIf(LAMBDA x : /\ Here(x) \in Defs(repo) /\ ~InFunction(x.place)
                                /\ Language(x.file) = "python" \/ Len(x.place) = 1)
(* A finished build is in itself consistent: of its own rows all but the    *)
(* members without their type, of earlier ones nothing, and its two views  *)
(* of the history say the same.                                            *)
BuildIsConsistent == OnlyMembersAreLost /\ RebuildForgets /\ CoChangesAgree

(* Names find what scope, import and injection rules say, and what was      *)
(* found at a place is on the symbol of that place.                        *)
NamesLandRight ==
    /\ ShadowingHolds
    /\ RelativeImportsAreFound
    /\ ImportsDecide
    /\ CandidatesAreInjected
    /\ InterfacesGiveWay
    /\ PlainSitesAreLinked

=============================================================================
