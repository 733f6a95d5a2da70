-------------------------- MODULE GraphBuildProofs --------------------------
(***************************************************************************)
(* Theorems about GraphBuild.  RowEnds says of the rows in memory which    *)
(* nodes they start and end at; Stored, which of them the batches written  *)
(* so far have left in the store.                                          *)
(***************************************************************************)
EXTENDS GraphBuild, FiniteSetTheorems, FunctionTheorems, WellFoundedInduction, TLAPS

LEMMA OrderFacts ==
  /\ Len(Order) = 17
  /\ \A k \in 1..6 : Order[k] \in Nodes
  /\ \A k \in 7..17 : Order[k] \in Labels
  /\ \A n \in Nodes : \E k \in 1..6 : Order[k] = n
  /\ \A l \in Labels : \E k \in 7..17 : Order[k] = l
  /\ \A i, j \in 1..17 : Order[i] = Order[j] => i = j
<1>1. Labels = {"DEFINES", "MEMBER_OF", "IMPORTS", "CALLS", "EXTENDS_", "IMPLEMENTS",
                "AUTHORED_BY", "TOUCHED_BY_COMMIT", "CO_CHANGES_WITH", "INJECTS", "PERSISTS_TO"}
  BY DEF Labels, Ends
<1>2. Len(Order) = 17
  BY DEF Order
<1>3. \A k \in 1..6 : Order[k] \in Nodes
  BY DEF Order, Nodes
<1>4. \A k \in 7..17 : Order[k] \in Labels
  BY <1>1 DEF Order
<1>5. \A n \in Nodes : \E k \in 1..6 : Order[k] = n
  BY DEF Order, Nodes
<1>6. \A l \in Labels : \E k \in 7..17 : Order[k] = l
  BY <1>1 DEF Order
<1>7. \A i, j \in 1..17 : Order[i] = Order[j] => i = j
  BY DEF Order
<1> QED
  BY <1>2, <1>3, <1>4, <1>5, <1>6, <1>7

LEMMA EndsFacts ==
  /\ Nodes \intersect Labels = {}
  /\ \A l \in Labels : Ends[l][1] \in Nodes /\ Ends[l][2] \in Nodes
BY DEF Labels, Ends, Nodes
-----------------------------------------------------------------------------
LEMMA DefsAreSymbols ==
  ASSUME NEW r, NEW s \in Defs(r)
  PROVE  s = Symbol(s.file, s.name) /\ s \in Symbols(r)
BY DEF Defs, Symbol, Symbols

LEMMA SymbolsAreSymbols ==
  ASSUME NEW r, NEW s \in Symbols(r)
  PROVE  s = Symbol(s.file, s.name)
BY DEF Defs, Symbol, Symbols

LEMMA InTo ==
  ASSUME NEW S, NEW conf, NEW e \in To(S, conf)
  PROVE  e.to \in S /\ e.conf = conf
BY DEF To

LEMMA BroughtFacts ==
  ASSUME NEW r, NEW imp, NEW name, NEW e \in Brought(r, imp, name)
  PROVE  e.to \in Defs(r) /\ e.to.file \in Target(r.files, imp) /\ e.conf \in Confidences
<1>1. ASSUME NEW names, e.to \in Found(r, imp, names)
      PROVE  e.to \in Defs(r) /\ e.to.file \in Target(r.files, imp)
  BY <1>1 DEF Found, Symbol
<1>2. CASE Bound(imp, name) # {}
  <2> DEFINE names == {n.name : n \in Bound(imp, name)}
             conf  == IF imp.reexport THEN "INFERRED" ELSE "EXTRACTED"
  <2>1. e \in To(Found(r, imp, names), conf)
    BY <1>2 DEF Brought
  <2>2. e.to \in Found(r, imp, names) /\ e.conf = conf
    BY <2>1, InTo
  <2> QED
    BY <1>1, <2>2 DEF Confidences
<1>3. CASE Bound(imp, name) = {}
  <2>1. e \in To(Found(r, imp, {name}), "INFERRED")
    BY <1>3 DEF Brought
  <2>2. e.to \in Found(r, imp, {name}) /\ e.conf = "INFERRED"
    BY <2>1, InTo
  <2> QED
    BY <1>1, <2>2 DEF Confidences
<1> QED
  BY <1>2, <1>3

LEMMA ImportedFacts ==
  ASSUME NEW r, NEW c, NEW e \in Imported(r, c)
  PROVE  /\ e.to \in Defs(r) /\ e.conf \in Confidences
         /\ \E i \in ImportsOf(r, c.file) : e.to.file \in Target(r.files, r.imports[i])
<1>1. PICK i \in ImportsOf(r, c.file) : e \in Brought(r, r.imports[i], c.name)
  BY DEF Imported
<1> QED
  BY <1>1, BroughtFacts

LEMMA BareFacts ==
  ASSUME NEW r, NEW c, NEW e \in BareCallees(r, c)
  PROVE  /\ e.to \in Defs(r) /\ e.conf \in Confidences
         /\ e.conf # "AMBIGUOUS" =>
              \/ e.to.file = c.file
              \/ \E i \in ImportsOf(r, c.file) : e.to.file \in Target(r.files, r.imports[i])
<1>1. CASE SameFile(r, c) # {}
  <2>1. e.to \in SameFile(r, c) /\ e.conf = "EXTRACTED"
    BY <1>1, InTo DEF BareCallees
  <2> DEFINE scope == ScopeName(c.place)
             at(k) == Symbol(c.file, SubSeq(scope, 1, k) \o <<c.name>>)
             depth == {k \in 0..(IF scope = <<>> THEN 0 ELSE Len(scope) - 1) : at(k) \in Defs(r)}
  <2>2. PICK k \in depth : e.to = at(k)
    BY <2>1 DEF SameFile
  <2>3. e.to \in Defs(r) /\ e.to.file = c.file
    BY <2>2 DEF Symbol
  <2> QED
    BY <2>1, <2>3 DEF Confidences
<1>2. CASE SameFile(r, c) = {} /\ Imported(r, c) # {}
  BY <1>2, ImportedFacts DEF BareCallees
<1>3. CASE SameFile(r, c) = {} /\ Imported(r, c) = {}
  <2>1. e.to \in Elsewhere(r, c) /\ e.conf = "AMBIGUOUS"
    BY <1>3, InTo DEF BareCallees
  <2> QED
    BY <2>1 DEF Elsewhere, Confidences
<1> QED
  BY <1>1, <1>2, <1>3

(* A call on a receiver that is not AMBIGUOUS is of its file, through an    *)
(* import, or of the only member of the name in the language.              *)
LEMMA ReceiverFacts ==
  ASSUME NEW r, NEW c, NEW e \in ReceiverCallees(r, c)
  PROVE  /\ e.to \in Defs(r) /\ e.conf \in Confidences
         /\ e.conf # "AMBIGUOUS" =>
              \/ e.to.file = c.file
              \/ \E i \in ImportsOf(r, c.file) : e.to.file \in Target(r.files, r.imports[i])
              \/ /\ Len(e.to.name) = 2
                 /\ \A s \in Defs(r) :
                      s.name = e.to.name /\ Language(s.file) = Language(c.file) => s = e.to
<1> DEFINE own == Symbol(c.file, Outer(ScopeName(c.place)) \o <<c.name>>)
           member == <<c.receiver, c.name>>
           here == Symbol(c.file, member)
           owners == {s \in Defs(r) : s.file # c.file /\ s.name = member /\
                                      Language(s.file) = Language(c.file)}
           through == {i \in ImportsOf(r, c.file) :
                         Aliased(r.imports[i], c.receiver) /\
                         \E t \in Target(r.files, r.imports[i]) : Symbol(t, <<c.name>>) \in Defs(r)}
           first == {i \in through : \A j \in through : i <= j}
           called == {Symbol(t, <<c.name>>) :
                        t \in UNION {Target(r.files, r.imports[i]) : i \in first}}
<1>1. CASE c.receiver \in {"self", "this"}
  <2>1. own \in Defs(r) /\ e \in To({own}, "INFERRED")
    BY <1>1 DEF ReceiverCallees
  <2>2. e.to = own /\ e.conf = "INFERRED"
    BY <2>1, InTo
  <2> QED
    BY <2>1, <2>2 DEF Symbol, Confidences
<1>2. CASE c.receiver \notin {"self", "this"} /\ here \in Defs(r)
  <2>1. e \in To({here}, "INFERRED")
    BY <1>2 DEF ReceiverCallees
  <2>2. e.to = here /\ e.conf = "INFERRED"
    BY <2>1, InTo
  <2> QED
    BY <1>2, <2>2 DEF Symbol, Confidences
<1>3. CASE c.receiver \notin {"self", "this"} /\ here \notin Defs(r) /\ owners # {}
  <2> DEFINE conf == IF \E s \in owners : owners = {s} THEN "INFERRED" ELSE "AMBIGUOUS"
  <2>1. e \in To(owners, conf)
    BY <1>3 DEF ReceiverCallees
  <2>2. e.to \in owners /\ e.conf = conf
    BY <2>1, InTo
  <2>3. ASSUME e.conf # "AMBIGUOUS", NEW s \in Defs(r), s.name = e.to.name,
               Language(s.file) = Language(c.file)
        PROVE  s = e.to
    <3>1. owners = {e.to} /\ s.name = member
      BY <2>2, <2>3
    <3>2. s.file # c.file
      BY <3>1, <1>3, DefsAreSymbols
    <3> QED
      BY <3>1, <3>2, <2>3
  <2>4. Len(e.to.name) = 2
    <3>1. e.to.name = <<c.receiver, c.name>>
      BY <2>2
    <3> HIDE DEF owners
    <3> QED
      BY <3>1
  <2> QED
    BY <2>2, <2>3, <2>4 DEF Confidences
<1>4. CASE c.receiver \notin {"self", "this"} /\ here \notin Defs(r) /\ owners = {}
  <2>1. e \in To(called, "INFERRED")
    BY <1>4 DEF ReceiverCallees
  <2>2. e.to \in called /\ e.conf = "INFERRED"
    BY <2>1, InTo
  <2>3. PICK i \in first : \E t \in Target(r.files, r.imports[i]) : e.to = Symbol(t, <<c.name>>)
    BY <2>2
  <2>. PICK t \in Target(r.files, r.imports[i]) : e.to = Symbol(t, <<c.name>>)
    BY <2>3
  <2>4. e.to.file = t
    BY <2>3 DEF Symbol
  <2>5. e.to \in Defs(r)
    BY <2>3 DEF Target
  <2> QED
    BY <2>2, <2>3, <2>4, <2>5 DEF Confidences
<1> QED
  BY <1>1, <1>2, <1>3, <1>4
LEMMA CallFacts ==
  ASSUME NEW r, NEW c, NEW callees, NEW e \in Call(c, callees)
  PROVE  \E f \in callees : e = Edge(Symbol(c.file, ScopeName(c.place)), f.to, f.conf)
BY DEF Call

LEMMA NamedFacts ==
  ASSUME NEW r, NEW file, NEW name, NEW e \in Named(r, file, name)
  PROVE  e.conf \in Confidences
<1> DEFINE declares(f) == Symbol(f, <<name>>) \in Defs(r)
           imported == {t \in UNION {Target(r.files, r.imports[i]) : i \in
                            {j \in ImportsOf(r, file) : \E n \in r.imports[j].names :
                                 n.name = name \/ n.alias = name}} : declares(t)}
           others == {s.file : s \in {d \in Defs(r) : d.name = <<name>> /\ d.file # file /\
                                                      Language(d.file) = Language(file)}}
           conf == IF \E f \in others : others = {f} THEN "INFERRED" ELSE "AMBIGUOUS"
<1>1. PICK f \in NameFiles(r, file, name) : e = [to |-> Symbol(f.file, <<name>>), conf |-> f.conf]
  BY DEF Named
<1>2. \/ NameFiles(r, file, name) = [file : {file}, conf : {"EXTRACTED"}]
      \/ NameFiles(r, file, name) = [file : imported, conf : {"EXTRACTED"}]
      \/ NameFiles(r, file, name) = [file : others, conf : {conf}]
  BY DEF NameFiles
<1>3. conf \in Confidences
  BY DEF Confidences
<1> HIDE DEF imported, others, conf
<1>4. ASSUME NEW S, NEW k \in Confidences, f \in [file : S, conf : {k}]
      PROVE  f.conf \in Confidences
  BY <1>4
<1>5. "EXTRACTED" \in Confidences
  BY DEF Confidences
<1>6. f.conf \in Confidences
  BY <1>1, <1>2, <1>3, <1>4, <1>5
<1> QED
  BY <1>1, <1>6

LEMMA NamedSymbols ==
  ASSUME NEW r, NEW file, NEW name, NEW e \in Named(r, file, name)
  PROVE  e.to \in Defs(r)
<1> DEFINE declares(f) == Symbol(f, <<name>>) \in Defs(r)
           imported == {t \in UNION {Target(r.files, r.imports[i]) : i \in
                            {j \in ImportsOf(r, file) : \E n \in r.imports[j].names :
                                 n.name = name \/ n.alias = name}} : declares(t)}
           others == {s.file : s \in {d \in Defs(r) : d.name = <<name>> /\ d.file # file /\
                                                      Language(d.file) = Language(file)}}
           conf == IF \E f \in others : others = {f} THEN "INFERRED" ELSE "AMBIGUOUS"
<1>1. PICK f \in NameFiles(r, file, name) : e = [to |-> Symbol(f.file, <<name>>), conf |-> f.conf]
  BY DEF Named
<1>2. \/ declares(file) /\ NameFiles(r, file, name) = [file : {file}, conf : {"EXTRACTED"}]
      \/ NameFiles(r, file, name) = [file : imported, conf : {"EXTRACTED"}]
      \/ NameFiles(r, file, name) = [file : others, conf : {conf}]
  BY DEF NameFiles
<1>3. \A x \in others : declares(x)
  BY DefsAreSymbols
<1>4. \A x \in imported : declares(x)
  OBVIOUS
<1> HIDE DEF imported, others, conf, declares
<1>5. ASSUME NEW S, NEW k, f \in [file : S, conf : {k}]
      PROVE  f.file \in S
  BY <1>5
<1>6. ASSUME declares(file) /\ NameFiles(r, file, name) = [file : {file}, conf : {"EXTRACTED"}]
      PROVE  declares(f.file)
  <2>1. f.file = file
    BY <1>1, <1>5, <1>6
  <2> QED
    BY <1>6, <2>1
<1>7. ASSUME NameFiles(r, file, name) = [file : imported, conf : {"EXTRACTED"}]
      PROVE  declares(f.file)
  BY <1>1, <1>4, <1>5, <1>7
<1>8. ASSUME NameFiles(r, file, name) = [file : others, conf : {conf}]
      PROVE  declares(f.file)
  BY <1>1, <1>3, <1>5, <1>8
<1>9. declares(f.file)
  BY <1>2, <1>6, <1>7, <1>8
<1> QED
  BY <1>1, <1>9 DEF declares
-----------------------------------------------------------------------------
(* Rows that only the steps below write.                                    *)
LEMMA LabelFacts ==
  /\ Labels = {"DEFINES", "MEMBER_OF", "IMPORTS", "CALLS", "EXTENDS_", "IMPLEMENTS",
               "AUTHORED_BY", "TOUCHED_BY_COMMIT", "CO_CHANGES_WITH", "INJECTS", "PERSISTS_TO"}
  /\ Nodes = {"File", "Module", "Symbol", "DbTable", "Author", "Commit"}
BY DEF Labels, Ends, Nodes

CallsOf(r) == (UNION {Call(c, BareCallees(r, c)) : c \in r.bare}) \union
              (UNION {Call(c, ReceiverCallees(r, c)) : c \in r.dotted})
TouchesOf(r) == UNION {{Edge(f, c.sha, "EXTRACTED") : f \in Touches(c, r)} : c \in r.commits}
CoChangesOf(r) ==
    {Edge(pair[1], pair[2], "INFERRED") : pair \in
       {p \in Sources(r) \X Sources(r) :
          Before(r, p[1], p[2]) /\ Together(r, p[1], p[2]) >= CoChangesThreshold}}

Domains == DOMAIN rows = Nodes \union Labels /\ DOMAIN nodes = Nodes /\ DOMAIN edges = Labels

LEMMA ResolveCallsRows ==
  ASSUME Domains, ResolveCalls
  PROVE  /\ rows'["CALLS"] = CallsOf(repo)
         /\ \A l \in (Nodes \union Labels) \ {"CALLS"} : rows'[l] = rows[l]
         /\ DOMAIN rows' = DOMAIN rows
BY LabelFacts DEF Domains, ResolveCalls, CallsOf

History == {"Author", "Commit", "AUTHORED_BY", "TOUCHED_BY_COMMIT", "CO_CHANGES_WITH"}
HistoryRows ==
    /\ rows["Author"] = {c.author : c \in repo.commits}
    /\ rows["Commit"] = {c.sha : c \in repo.commits}
    /\ rows["AUTHORED_BY"] = {Edge(c.sha, c.author, "EXTRACTED") : c \in repo.commits}
    /\ rows["TOUCHED_BY_COMMIT"] = TouchesOf(repo)
    /\ rows["CO_CHANGES_WITH"] = CoChangesOf(repo)

LEMMA ReadHistoryRows ==
  ASSUME Domains, ReadHistory
  PROVE  /\ HistoryRows'
         /\ \A l \in (Nodes \union Labels) \ History : rows'[l] = rows[l]
         /\ DOMAIN rows' = DOMAIN rows
<1> DEFINE authors == {c.author : c \in repo.commits}
           commits == {c.sha : c \in repo.commits}
           authored == {Edge(c.sha, c.author, "EXTRACTED") : c \in repo.commits}
<1>1. /\ rows' = [rows EXCEPT !["Author"] = authors, !["Commit"] = commits,
                              !["AUTHORED_BY"] = authored,
                              !["TOUCHED_BY_COMMIT"] = TouchesOf(repo),
                              !["CO_CHANGES_WITH"] = CoChangesOf(repo)]
      /\ repo' = repo
  BY DEF ReadHistory, TouchesOf, CoChangesOf
<1>2. HistoryRows' <=>
      /\ rows'["Author"] = authors /\ rows'["Commit"] = commits
      /\ rows'["AUTHORED_BY"] = authored
      /\ rows'["TOUCHED_BY_COMMIT"] = TouchesOf(repo)
      /\ rows'["CO_CHANGES_WITH"] = CoChangesOf(repo)
  BY <1>1 DEF HistoryRows
<1> HIDE DEF authors, commits, authored
<1> QED
  BY <1>1, <1>2, LabelFacts DEF Domains, History

LEMMA ResolveInheritanceRows ==
  ASSUME Domains, ResolveInheritance
  PROVE  /\ rows'["EXTENDS_"] = Children("extends")
         /\ rows'["IMPLEMENTS"] = Children("implements")
         /\ \A l \in (Nodes \union Labels) \ {"EXTENDS_", "IMPLEMENTS"} : rows'[l] = rows[l]
         /\ DOMAIN rows' = DOMAIN rows
BY LabelFacts DEF Domains, ResolveInheritance

InjectsOf(r) ==
    UNION {UNION {{Edge(Symbol(d.file, InjectorName(Language(d.file), d.place)), e.to, e.conf) :
                     e \in Injected(t)} : t \in Named(r, d.file, d.name)} : d \in r.deps}
PersistsOf(r) ==
    {Edge(Symbol(m.file, TypeName(Language(m.file), m.place)), m.table, m.conf) : m \in r.models}

LEMMA ResolveInjectionRows ==
  ASSUME Domains, ResolveInjection
  PROVE  /\ rows'["INJECTS"] = InjectsOf(repo)
         /\ rows'["PERSISTS_TO"] = PersistsOf(repo)
         /\ \A l \in (Nodes \union Labels) \ {"INJECTS", "PERSISTS_TO"} : rows'[l] = rows[l]
         /\ DOMAIN rows' = DOMAIN rows
<1>1. rows' = [rows EXCEPT !["INJECTS"] = InjectsOf(repo), !["PERSISTS_TO"] = PersistsOf(repo)]
  BY DEF ResolveInjection, InjectsOf, PersistsOf
<1> QED
  BY <1>1, LabelFacts DEF Domains

LEMMA AssembleRows ==
  ASSUME Domains, Assemble
  PROVE  /\ rows'["File"] = Sources(repo)
         /\ rows'["Module"] = {ModuleOf(i) : i \in Imports}
         /\ rows'["Symbol"] = Symbols(repo)
         /\ rows'["DbTable"] = {e.to : e \in Persisted}
         /\ rows'["DEFINES"] = {Edge(s.file, s, "EXTRACTED") : s \in Symbols(repo)}
         /\ rows'["MEMBER_OF"] = {Edge(s, Symbol(s.file, Outer(s.name)), "EXTRACTED") :
                                    s \in {d \in Defs(repo) : Len(d.name) > 1}}
         /\ rows'["IMPORTS"] = {Edge(i.file, ModuleOf(i), "EXTRACTED") : i \in Imports}
         /\ rows'["PERSISTS_TO"] = Persisted
         /\ \A l \in {"CALLS", "EXTENDS_", "IMPLEMENTS", "INJECTS"} : rows'[l] = Between(l)
         /\ \A l \in History : rows'[l] = rows[l]
         /\ DOMAIN rows' = DOMAIN rows
<1> DEFINE modules == {ModuleOf(i) : i \in Imports}
           tables == {e.to : e \in Persisted}
           defines == {Edge(s.file, s, "EXTRACTED") : s \in Symbols(repo)}
           members == {Edge(s, Symbol(s.file, Outer(s.name)), "EXTRACTED") :
                         s \in {d \in Defs(repo) : Len(d.name) > 1}}
           imports == {Edge(i.file, ModuleOf(i), "EXTRACTED") : i \in Imports}
<1>1. rows' = [l \in DOMAIN rows |->
         CASE l = "File"      -> Sources(repo)
           [] l = "Module"    -> modules
           [] l = "Symbol"    -> Symbols(repo)
           [] l = "DbTable"   -> tables
           [] l = "DEFINES"   -> defines
           [] l = "MEMBER_OF" -> members
           [] l = "IMPORTS"   -> imports
           [] l = "PERSISTS_TO" -> Persisted
           [] l \in {"CALLS", "EXTENDS_", "IMPLEMENTS", "INJECTS"} -> Between(l)
           [] OTHER -> rows[l]]
  BY DEF Assemble
<1> HIDE DEF modules, tables, defines, members, imports
<1>2. DOMAIN rows' = DOMAIN rows /\ DOMAIN rows = Nodes \union Labels
  BY <1>1 DEF Domains
<1>3. rows'["File"] = Sources(repo) /\ rows'["Module"] = modules /\ rows'["Symbol"] = Symbols(repo)
  BY <1>1, <1>2, LabelFacts
<1>4. rows'["DbTable"] = tables /\ rows'["DEFINES"] = defines /\ rows'["MEMBER_OF"] = members
  BY <1>1, <1>2, LabelFacts
<1>5. rows'["IMPORTS"] = imports /\ rows'["PERSISTS_TO"] = Persisted
  BY <1>1, <1>2, LabelFacts
<1>6. \A l \in {"CALLS", "EXTENDS_", "IMPLEMENTS", "INJECTS"} : rows'[l] = Between(l)
  BY <1>1, <1>2, LabelFacts
<1>7. \A l \in History : rows'[l] = rows[l]
  BY <1>1, <1>2, LabelFacts DEF History
<1> QED
  BY <1>2, <1>3, <1>4, <1>5, <1>6, <1>7 DEF modules, tables, defines, members, imports
-----------------------------------------------------------------------------
(* Types: what is in memory has to be typed with the store it goes into.    *)
ConfRows == \A l \in Labels : \A e \in rows[l] : e.conf \in Confidences
ConfEdges == \A l \in Labels : \A e \in edges[l] : e.conf \in Confidences
SymbolRows == \A s \in rows["Symbol"] : s = Symbol(s.file, s.name)
SymbolNodes == \A s \in nodes["Symbol"] \union index : s = Symbol(s.file, s.name)
Scalars == repo \in Repos /\ runs \in Nat /\ stage \in Stages /\ written \in 0..Len(Order)
TypeInv == Scalars /\ Domains /\ ConfRows /\ ConfEdges /\ SymbolRows /\ SymbolNodes

LEMMA TypeInvIsTypeOK == TypeInv => TypeOK
BY DEF TypeInv, TypeOK, Scalars, Domains, ConfRows, ConfEdges, SymbolNodes

LEMMA InitTyped == Init => TypeInv
<1> SUFFICES ASSUME Init PROVE TypeInv
  OBVIOUS
<1>1. Scalars
  BY OrderFacts DEF Init, Scalars, Stages
<1>2. Domains
  BY DEF Init, Domains, NoRows, NoNodes, NoEdges
<1>3. \A l \in Nodes \union Labels : rows[l] = {}
  BY DEF Init, NoRows
<1>4. \A l \in Labels : edges[l] = {}
  BY DEF Init, NoEdges
<1>5. nodes["Symbol"] = {} /\ index = {}
  BY DEF Init, NoNodes, Nodes
<1>6. rows["Symbol"] = {}
  BY <1>3 DEF Nodes
<1> QED
  BY <1>1, <1>2, <1>3, <1>4, <1>5, <1>6
  DEF TypeInv, ConfRows, ConfEdges, SymbolRows, SymbolNodes

LEMMA InCalls ==
  ASSUME NEW r, NEW e \in CallsOf(r)
  PROVE  \/ \E c \in r.bare : e \in Call(c, BareCallees(r, c))
         \/ \E c \in r.dotted : e \in Call(c, ReceiverCallees(r, c))
<1> DEFINE bare == {Call(c, BareCallees(r, c)) : c \in r.bare}
           dotted == {Call(c, ReceiverCallees(r, c)) : c \in r.dotted}
<1>1. e \in UNION bare \/ e \in UNION dotted
  BY DEF CallsOf
<1>2. ASSUME e \in UNION bare
      PROVE  \E c \in r.bare : e \in Call(c, BareCallees(r, c))
  <2>1. PICK calls \in bare : e \in calls
    BY <1>2
  <2> QED
    BY <2>1
<1>3. ASSUME e \in UNION dotted
      PROVE  \E c \in r.dotted : e \in Call(c, ReceiverCallees(r, c))
  <2>1. PICK calls \in dotted : e \in calls
    BY <1>3
  <2> QED
    BY <2>1
<1> QED
  BY <1>1, <1>2, <1>3

LEMMA CallsConf == \A e \in CallsOf(repo) : e.conf \in Confidences
<1> SUFFICES ASSUME NEW e \in CallsOf(repo) PROVE e.conf \in Confidences
  OBVIOUS
<1>1. \/ \E c \in repo.bare : e \in Call(c, BareCallees(repo, c))
      \/ \E c \in repo.dotted : e \in Call(c, ReceiverCallees(repo, c))
  BY InCalls
<1>2. ASSUME NEW c \in repo.bare, e \in Call(c, BareCallees(repo, c))
      PROVE  e.conf \in Confidences
  <2>1. PICK f \in BareCallees(repo, c) : e = Edge(Symbol(c.file, ScopeName(c.place)), f.to, f.conf)
    BY <1>2, CallFacts
  <2> QED
    BY <2>1, BareFacts DEF Edge
<1>3. ASSUME NEW c \in repo.dotted, e \in Call(c, ReceiverCallees(repo, c))
      PROVE  e.conf \in Confidences
  <2>1. PICK f \in ReceiverCallees(repo, c) :
          e = Edge(Symbol(c.file, ScopeName(c.place)), f.to, f.conf)
    BY <1>3, CallFacts
  <2> QED
    BY <2>1, ReceiverFacts DEF Edge
<1> QED
  BY <1>1, <1>2, <1>3

LEMMA ChildrenConf == ASSUME NEW kind, NEW e \in Children(kind) PROVE e.conf \in Confidences
<1>1. PICK p \in repo.parents : \E f \in Named(repo, p.file, p.name) :
        e = Edge(Symbol(p.file, TypeName(Language(p.file), p.place)), f.to, f.conf)
  BY DEF Children
<1> QED
  BY <1>1, NamedFacts DEF Edge

LEMMA InjectsConf == \A e \in InjectsOf(repo) : e.conf \in Confidences
<1> SUFFICES ASSUME NEW e \in InjectsOf(repo) PROVE e.conf \in Confidences
  OBVIOUS
<1>1. PICK d \in repo.deps : \E t \in Named(repo, d.file, d.name) : \E f \in Injected(t) :
        e = Edge(Symbol(d.file, InjectorName(Language(d.file), d.place)), f.to, f.conf)
  BY DEF InjectsOf
<1>2. PICK t \in Named(repo, d.file, d.name) : \E f \in Injected(t) :
        e = Edge(Symbol(d.file, InjectorName(Language(d.file), d.place)), f.to, f.conf)
  BY <1>1
<1>5. PICK f \in Injected(t) :
        e = Edge(Symbol(d.file, InjectorName(Language(d.file), d.place)), f.to, f.conf)
  BY <1>2
<1> DEFINE impls == {g.from : g \in {h \in rows["IMPLEMENTS"] : h.to = t.to}}
           conf == IF \E i \in impls : impls = {i} THEN "INFERRED" ELSE "AMBIGUOUS"
<1>3. CASE impls = {}
  BY <1>5, <1>3, NamedFacts DEF Injected, Edge
<1>4. CASE impls # {}
  <2>1. f \in To(impls, conf)
    BY <1>5, <1>4 DEF Injected
  <2>2. f.conf = conf
    BY <2>1, InTo
  <2> QED
    BY <1>5, <2>2 DEF Confidences, Edge
<1> QED
  BY <1>3, <1>4

LEMMA PersistsConf == ASSUME repo \in Repos PROVE \A e \in PersistsOf(repo) : e.conf \in Confidences
BY RepoAssumption DEF PersistsOf, Edge, Confidences

LEMMA NextTyped == TypeInv /\ [Next]_vars => TypeInv'
<1> SUFFICES ASSUME TypeInv, [Next]_vars PROVE TypeInv'
  OBVIOUS
<1> USE DEF TypeInv
<1>1. CASE Unlink
  <2>1. Scalars' /\ Domains'
    BY <1>1 DEF Unlink, Scalars, Domains, NoNodes, NoEdges, Stages
  <2>2. ConfRows' /\ SymbolRows'
    BY <1>1 DEF Unlink, ConfRows, SymbolRows
  <2>3. ConfEdges'
    BY <1>1 DEF Unlink, ConfEdges, NoEdges
  <2>4. SymbolNodes'
    BY <1>1 DEF Unlink, SymbolNodes, NoNodes, Nodes
  <2> QED
    BY <2>1, <2>2, <2>3, <2>4
<1>2. CASE ResolveCalls
  <2>1. Scalars' /\ Domains' /\ ConfEdges' /\ SymbolNodes'
    BY <1>2, ResolveCallsRows
    DEF ResolveCalls, Scalars, Domains, ConfEdges, SymbolNodes, Stages
  <2>2. ConfRows'
    BY <1>2, ResolveCallsRows, CallsConf DEF ConfRows
  <2>3. SymbolRows'
    BY <1>2, ResolveCallsRows, LabelFacts DEF SymbolRows
  <2> QED
    BY <2>1, <2>2, <2>3
<1>3. CASE ReadHistory
  <2>1. Scalars' /\ Domains' /\ ConfEdges' /\ SymbolNodes'
    BY <1>3, ReadHistoryRows
    DEF ReadHistory, Scalars, Domains, ConfEdges, SymbolNodes, Stages
  <2>2. HistoryRows'
    BY <1>3, ReadHistoryRows
  <2>3. \A l \in {"AUTHORED_BY", "TOUCHED_BY_COMMIT", "CO_CHANGES_WITH"} :
          \A e \in rows'[l] : e.conf \in Confidences
    BY <2>2 DEF HistoryRows, TouchesOf, CoChangesOf, Edge, Confidences
  <2>4. ConfRows'
    BY <1>3, <2>3, ReadHistoryRows, LabelFacts DEF ConfRows, History
  <2>5. SymbolRows'
    BY <1>3, ReadHistoryRows, LabelFacts DEF SymbolRows, History
  <2> QED
    BY <2>1, <2>4, <2>5
<1>4. CASE ResolveInheritance
  <2>1. Scalars' /\ Domains' /\ ConfEdges' /\ SymbolNodes'
    BY <1>4, ResolveInheritanceRows
    DEF ResolveInheritance, Scalars, Domains, ConfEdges, SymbolNodes, Stages
  <2>2. ConfRows'
    BY <1>4, ResolveInheritanceRows, ChildrenConf DEF ConfRows
  <2>3. SymbolRows'
    BY <1>4, ResolveInheritanceRows, LabelFacts DEF SymbolRows
  <2> QED
    BY <2>1, <2>2, <2>3
<1>5. CASE ResolveInjection
  <2>1. Scalars' /\ Domains' /\ ConfEdges' /\ SymbolNodes'
    BY <1>5, ResolveInjectionRows
    DEF ResolveInjection, Scalars, Domains, ConfEdges, SymbolNodes, Stages
  <2>2. ConfRows'
    BY <1>5, ResolveInjectionRows, InjectsConf, PersistsConf DEF ConfRows, Scalars
  <2>3. SymbolRows'
    BY <1>5, ResolveInjectionRows, LabelFacts DEF SymbolRows
  <2> QED
    BY <2>1, <2>2, <2>3
<1>6. CASE Assemble
  <2>1. Scalars' /\ Domains' /\ ConfEdges' /\ SymbolNodes'
    BY <1>6, AssembleRows, OrderFacts
    DEF Assemble, Scalars, Domains, ConfEdges, SymbolNodes, Stages
  <2>2. \A e \in rows'["DEFINES"] \union rows'["MEMBER_OF"] \union rows'["IMPORTS"] :
          e.conf \in Confidences
    BY <1>6, AssembleRows DEF Edge, Confidences
  <2>3. \A l \in {"CALLS", "EXTENDS_", "IMPLEMENTS", "INJECTS"} : \A e \in rows'[l] :
          e.conf \in Confidences
    BY <1>6, AssembleRows, LabelFacts DEF Between, ConfRows
  <2>4. \A e \in rows'["PERSISTS_TO"] : e.conf \in Confidences
    BY <1>6, AssembleRows, LabelFacts DEF Persisted, ConfRows
  <2>5. \A l \in History \intersect Labels : \A e \in rows'[l] : e.conf \in Confidences
    BY <1>6, AssembleRows DEF ConfRows
  <2>6. ConfRows'
    BY <2>2, <2>3, <2>4, <2>5, LabelFacts DEF ConfRows, History
  <2>7. SymbolRows'
    BY <1>6, AssembleRows, SymbolsAreSymbols DEF SymbolRows
  <2> QED
    BY <2>1, <2>6, <2>7
<1>7. CASE WriteNodes
  <2>1. Scalars' /\ Domains'
    BY <1>7, OrderFacts DEF WriteNodes, Scalars, Domains, Stages
  <2>2. ConfRows' /\ SymbolRows' /\ ConfEdges'
    BY <1>7 DEF WriteNodes, ConfRows, SymbolRows, ConfEdges
  <2>3. SymbolNodes'
    BY <1>7, LabelFacts DEF WriteNodes, SymbolNodes, SymbolRows, Domains
  <2> QED
    BY <2>1, <2>2, <2>3
<1>8. CASE WriteEdges
  <2>1. Scalars' /\ Domains'
    BY <1>8, OrderFacts DEF WriteEdges, Scalars, Domains
  <2>2. ConfRows' /\ SymbolRows' /\ SymbolNodes'
    BY <1>8 DEF WriteEdges, ConfRows, SymbolRows, SymbolNodes
  <2>3. ConfEdges'
    BY <1>8 DEF WriteEdges, ConfEdges, ConfRows, Domains
  <2> QED
    BY <2>1, <2>2, <2>3
<1>9. CASE Written
  BY <1>9 DEF Written, Scalars, Domains, ConfRows, ConfEdges, SymbolRows, SymbolNodes, Stages
<1>10. CASE BuildIndex
  BY <1>10 DEF BuildIndex, Scalars, Domains, ConfRows, ConfEdges, SymbolRows, SymbolNodes, Stages
<1>11. CASE Again
  <2>1. Scalars' /\ Domains'
    BY <1>11, OrderFacts, RepoAssumption DEF Again, Scalars, Domains, NoRows, Stages
  <2>2. ConfRows' /\ SymbolRows'
    BY <1>11, LabelFacts DEF Again, ConfRows, SymbolRows, NoRows
  <2>3. ConfEdges' /\ SymbolNodes'
    BY <1>11 DEF Again, ConfEdges, SymbolNodes
  <2> QED
    BY <2>1, <2>2, <2>3
<1>12. CASE UNCHANGED vars
  BY <1>12 DEF vars, Scalars, Domains, ConfRows, ConfEdges, SymbolRows, SymbolNodes
<1> QED
  BY <1>1, <1>2, <1>3, <1>4, <1>5, <1>6, <1>7, <1>8, <1>9, <1>10, <1>11, <1>12 DEF Next

LEMMA Typed == Spec => []TypeInv
BY InitTyped, NextTyped, PTL DEF Spec

(* Whatever repository is built, and wherever a run is killed, rows, nodes  *)
(* and edges have their types.                                             *)
THEOREM TypeCorrect == Spec => []TypeOK
BY Typed, TypeInvIsTypeOK, PTL
-----------------------------------------------------------------------------
(* The invariant.  A call that is not AMBIGUOUS has evidence, in memory;    *)
(* once the rows are put together every one of them has both its ends      *)
(* among the nodes, but for a MEMBER_OF of a type that is not there; every  *)
(* class that implements an injected type is injected; and the store holds  *)
(* the first `written' batches and nothing else.                           *)
Evident(e) ==
    \/ e.to.file = e.from.file
    \/ \E i \in ImportsOf(repo, e.from.file) : e.to.file \in Target(repo.files, repo.imports[i])
    \/ /\ Len(e.to.name) = 2
       /\ \A s \in Defs(repo) :
            s.name = e.to.name /\ Language(s.file) = Language(e.from.file) => s = e.to
CallRows == \A e \in rows["CALLS"] : Sure(e) => Evident(e)

(* What is injected for a class that implements the type: sure of it only   *)
(* when no row has another class that does.                                 *)
Serves(e, d, t, i) ==
    /\ e.from = Injector(d) /\ e.to = i
    /\ Sure(e) => \A g \in rows["IMPLEMENTS"] : g.to = t.to => g.from = i
InjectRows ==
    \A d \in repo.deps : \A t \in Named(repo, d.file, d.name) : \A f \in rows["IMPLEMENTS"] :
        f.to = t.to /\ Injector(d) \in Symbols(repo) /\ f.from \in Symbols(repo) =>
            \E e \in rows["INJECTS"] : Serves(e, d, t, f.from)

(* Where a row of an injection comes from: a type that nothing implements,  *)
(* or a class that implements one.                                          *)
Implemented(t, i) == \E g \in rows["IMPLEMENTS"] : g.to = t.to /\ g.from = i
Stands(e, t) ==
    \/ e.to = t.to /\ \A g \in rows["IMPLEMENTS"] : g.to # t.to
    \/ Implemented(t, e.to)
InjectOrigins ==
    \A e \in rows["INJECTS"] : \E d \in repo.deps :
        e.from = Injector(d) /\ \E t \in Named(repo, d.file, d.name) : Stands(e, t)

From(e, l) == e.from \in rows[Ends[l][1]]
Onto(e, l)  == e.to \in rows[Ends[l][2]]
Landed(l)  == {e \in rows[l] : From(e, l) /\ Onto(e, l)}
RowEnds ==
    /\ rows["File"] = Sources(repo) /\ rows["Symbol"] = Symbols(repo)
    /\ \A l \in Labels \ {"MEMBER_OF"} : \A e \in rows[l] : From(e, l) /\ Onto(e, l)
    /\ \A e \in rows["MEMBER_OF"] : e.from \in Symbols(repo)

Empty == nodes = NoNodes /\ edges = NoEdges
Stored ==
    /\ \A k \in 1..6 : nodes[Order[k]] = IF k <= written THEN rows[Order[k]] ELSE {}
    /\ \A k \in 7..17 : edges[Order[k]] = IF k <= written THEN Landed(Order[k]) ELSE {}

Resolving  == {"calls", "history", "inheritance", "injection", "assemble"}
Finishing  == {"write", "index", "done"}
Inv ==
    /\ stage # "failed"
    /\ stage \in Resolving => Empty
    /\ stage \in {"history", "inheritance", "injection", "assemble"} \union Finishing => CallRows
    /\ stage \in {"inheritance", "injection", "assemble"} \union Finishing => HistoryRows
    /\ stage \in {"assemble"} \union Finishing => InjectRows /\ InjectOrigins
    /\ stage \in Finishing => RowEnds /\ Stored
    /\ stage \in {"index", "done"} => written = 17
    /\ stage = "done" => index = {s \in Symbols(repo) : s.name # <<>>}

LEMMA CallsEvident == \A e \in CallsOf(repo) : Sure(e) => Evident(e)
<1> SUFFICES ASSUME NEW e \in CallsOf(repo), Sure(e) PROVE Evident(e)
  OBVIOUS
<1>1. \/ \E c \in repo.bare : e \in Call(c, BareCallees(repo, c))
      \/ \E c \in repo.dotted : e \in Call(c, ReceiverCallees(repo, c))
  BY InCalls
<1>2. ASSUME NEW c \in repo.bare, e \in Call(c, BareCallees(repo, c))
      PROVE  Evident(e)
  <2>1. PICK f \in BareCallees(repo, c) : e = Edge(Symbol(c.file, ScopeName(c.place)), f.to, f.conf)
    BY <1>2, CallFacts
  <2>2. e.from.file = c.file /\ e.to = f.to /\ e.conf = f.conf
    BY <2>1 DEF Edge, Symbol
  <2> QED
    BY <2>2, BareFacts DEF Evident, Sure
<1>3. ASSUME NEW c \in repo.dotted, e \in Call(c, ReceiverCallees(repo, c))
      PROVE  Evident(e)
  <2>1. PICK f \in ReceiverCallees(repo, c) :
          e = Edge(Symbol(c.file, ScopeName(c.place)), f.to, f.conf)
    BY <1>3, CallFacts
  <2>2. e.from.file = c.file /\ e.to = f.to /\ e.conf = f.conf
    BY <2>1 DEF Edge, Symbol
  <2> QED
    BY <2>2, ReceiverFacts DEF Evident, Sure
<1> QED
  BY <1>1, <1>2, <1>3

(* Every class found for an injected type gets its row, before and after    *)
(* the rows that do not join two symbols are left out.                      *)
LEMMA InjectionRows ==
  ASSUME TypeInv, ResolveInjection
  PROVE  InjectRows'
<1>1. /\ rows'["INJECTS"] = InjectsOf(repo) /\ rows'["IMPLEMENTS"] = rows["IMPLEMENTS"]
      /\ repo' = repo
  BY ResolveInjectionRows, LabelFacts DEF TypeInv, ResolveInjection
<1>2. SUFFICES ASSUME NEW d \in repo.deps, NEW t \in Named(repo, d.file, d.name),
                      NEW f \in rows["IMPLEMENTS"], f.to = t.to
               PROVE  \E e \in InjectsOf(repo) :
                        /\ e.from = Injector(d) /\ e.to = f.from
                        /\ Sure(e) => \A g \in rows["IMPLEMENTS"] : g.to = t.to => g.from = f.from
  BY <1>1 DEF InjectRows, Serves, Injector, Sure
<1> DEFINE impls == {g.from : g \in {h \in rows["IMPLEMENTS"] : h.to = t.to}}
           conf == IF \E i \in impls : impls = {i} THEN "INFERRED" ELSE "AMBIGUOUS"
           candidate == [to |-> f.from, conf |-> conf]
           row == Edge(Injector(d), f.from, conf)
<1>3. f.from \in impls
  BY <1>2
<1>4. candidate \in Injected(t)
  BY <1>3 DEF Injected, To
<1>5. row = Edge(Symbol(d.file, InjectorName(Language(d.file), d.place)),
                 candidate.to, candidate.conf)
  BY DEF Injector
<1>6. row \in InjectsOf(repo)
  <2> HIDE DEF row, candidate
  <2> QED
    BY <1>4, <1>5 DEF InjectsOf
<1>7. row.from = Injector(d) /\ row.to = f.from /\ row.conf = conf
  BY DEF Edge
<1>8. ASSUME Sure(row), NEW g \in rows["IMPLEMENTS"], g.to = t.to
      PROVE  g.from = f.from
  <2>1. PICK i \in impls : impls = {i}
    BY <1>7, <1>8 DEF Sure
  <2>2. g.from \in impls
    BY <1>8
  <2> QED
    BY <1>3, <2>1, <2>2
<1> HIDE DEF row
<1> QED
  BY <1>6, <1>7, <1>8

LEMMA InjectionOrigins ==
  ASSUME TypeInv, ResolveInjection
  PROVE  InjectOrigins'
<1>1. /\ rows'["INJECTS"] = InjectsOf(repo) /\ rows'["IMPLEMENTS"] = rows["IMPLEMENTS"]
      /\ repo' = repo
  BY ResolveInjectionRows, LabelFacts DEF TypeInv, ResolveInjection
<1>2. SUFFICES ASSUME NEW e \in InjectsOf(repo)
               PROVE  \E d \in repo.deps : e.from = Injector(d) /\
                        \E t \in Named(repo, d.file, d.name) : Stands(e, t)
  BY <1>1 DEF InjectOrigins, Stands, Implemented, Injector
<1>3. PICK d \in repo.deps : \E t \in Named(repo, d.file, d.name) : \E f \in Injected(t) :
        e = Edge(Symbol(d.file, InjectorName(Language(d.file), d.place)), f.to, f.conf)
  BY DEF InjectsOf
<1>4. PICK t \in Named(repo, d.file, d.name) : \E f \in Injected(t) :
        e = Edge(Symbol(d.file, InjectorName(Language(d.file), d.place)), f.to, f.conf)
  BY <1>3
<1>5. PICK f \in Injected(t) : e = Edge(Injector(d), f.to, f.conf)
  BY <1>4 DEF Injector
<1>6. e.from = Injector(d) /\ e.to = f.to
  BY <1>5 DEF Edge
<1> DEFINE impls == {g.from : g \in {h \in rows["IMPLEMENTS"] : h.to = t.to}}
           conf == IF \E i \in impls : impls = {i} THEN "INFERRED" ELSE "AMBIGUOUS"
<1>7. CASE impls = {}
  <2>1. f = t
    BY <1>5, <1>7 DEF Injected
  <2>2. \A g \in rows["IMPLEMENTS"] : g.to # t.to
    BY <1>7
  <2> QED
    BY <1>6, <2>1, <2>2 DEF Stands
<1>8. CASE impls # {}
  <2>1. f \in To(impls, conf)
    BY <1>5, <1>8 DEF Injected
  <2>2. f.to \in impls
    BY <2>1, InTo
  <2> QED
    BY <1>6, <2>2 DEF Stands, Implemented
<1> QED
  BY <1>7, <1>8

LEMMA InjectOriginsAssembled ==
  ASSUME TypeInv, InjectOrigins, Assemble
  PROVE  InjectOrigins'
<1>1. /\ rows'["INJECTS"] = Between("INJECTS") /\ rows'["IMPLEMENTS"] = Between("IMPLEMENTS")
      /\ repo' = repo
  BY AssembleRows DEF TypeInv, Assemble
<1>2. SUFFICES ASSUME NEW e \in Between("INJECTS")
               PROVE  \E d \in repo.deps : e.from = Injector(d) /\
                        \E t \in Named(repo, d.file, d.name) : Stands(e, t)'
  BY <1>1 DEF InjectOrigins, Injector
<1>3. PICK d \in repo.deps :
        e.from = Injector(d) /\ \E t \in Named(repo, d.file, d.name) : Stands(e, t)
  BY DEF InjectOrigins, Between
<1>4. PICK t \in Named(repo, d.file, d.name) : Stands(e, t)
  BY <1>3
<1>5. Between("IMPLEMENTS") \subseteq rows["IMPLEMENTS"] /\ e.to \in Symbols(repo)
  BY DEF Between
<1>6. t.to \in Symbols(repo)
  BY NamedSymbols, DefsAreSymbols
<1>7. Stands(e, t)'
  <2>1. CASE Implemented(t, e.to)
    <3>1. PICK g \in rows["IMPLEMENTS"] : g.to = t.to /\ g.from = e.to
      BY <2>1 DEF Implemented
    <3>2. g \in Between("IMPLEMENTS")
      BY <3>1, <1>5, <1>6 DEF Between
    <3> QED
      BY <1>1, <3>1, <3>2 DEF Stands, Implemented
  <2>2. CASE e.to = t.to /\ \A g \in rows["IMPLEMENTS"] : g.to # t.to
    BY <1>1, <1>5, <2>2 DEF Stands
  <2> QED
    BY <1>4, <2>1, <2>2 DEF Stands
<1> QED
  BY <1>3, <1>7

LEMMA InjectRowsAssembled ==
  ASSUME TypeInv, InjectRows, Assemble
  PROVE  InjectRows'
<1>1. /\ rows'["INJECTS"] = Between("INJECTS") /\ rows'["IMPLEMENTS"] = Between("IMPLEMENTS")
      /\ repo' = repo
  BY AssembleRows DEF TypeInv, Assemble
<1>2. SUFFICES ASSUME NEW d \in repo.deps, NEW t \in Named(repo, d.file, d.name),
                      NEW f \in Between("IMPLEMENTS"), f.to = t.to,
                      Injector(d) \in Symbols(repo), f.from \in Symbols(repo)
               PROVE  \E e \in Between("INJECTS") :
                        /\ e.from = Injector(d) /\ e.to = f.from
                        /\ Sure(e) => \A g \in Between("IMPLEMENTS") : g.to = t.to => g.from = f.from
  BY <1>1 DEF InjectRows, Serves, Injector, Sure
<1>3. PICK e \in rows["INJECTS"] : Serves(e, d, t, f.from)
  BY <1>2 DEF InjectRows, Between
<1> QED
  BY <1>2, <1>3 DEF Serves, Between

LEMMA DefsInSources ==
  ASSUME repo \in Repos, NEW s \in Symbols(repo)
  PROVE  s.file \in Sources(repo)
BY RepoAssumption DEF Symbols, Defs, Symbol

LEMMA HistoryEnds ==
  ASSUME HistoryRows, NEW e
  PROVE  /\ e \in rows["AUTHORED_BY"] => e.from \in rows["Commit"] /\ e.to \in rows["Author"]
         /\ e \in rows["TOUCHED_BY_COMMIT"] => e.from \in Sources(repo) /\ e.to \in rows["Commit"]
         /\ e \in rows["CO_CHANGES_WITH"] => e.from \in Sources(repo) /\ e.to \in Sources(repo)
<1>1. e \in rows["AUTHORED_BY"] => e.from \in rows["Commit"] /\ e.to \in rows["Author"]
  BY DEF HistoryRows, Edge
<1>2. ASSUME e \in rows["TOUCHED_BY_COMMIT"]
      PROVE  e.from \in Sources(repo) /\ e.to \in rows["Commit"]
  <2>1. PICK c \in repo.commits : \E f \in Touches(c, repo) : e = Edge(f, c.sha, "EXTRACTED")
    BY <1>2 DEF HistoryRows, TouchesOf
  <2> QED
    BY <2>1 DEF HistoryRows, Edge, Touches
<1>3. ASSUME e \in rows["CO_CHANGES_WITH"]
      PROVE  e.from \in Sources(repo) /\ e.to \in Sources(repo)
  <2>1. PICK p \in Sources(repo) \X Sources(repo) : e = Edge(p[1], p[2], "INFERRED")
    BY <1>3 DEF HistoryRows, CoChangesOf
  <2> QED
    BY <2>1 DEF Edge
<1> QED
  BY <1>1, <1>2, <1>3

LEMMA AssembledEnds ==
  ASSUME TypeInv, HistoryRows, Assemble
  PROVE  RowEnds'
<1> DEFINE R == rows'
<1>1. /\ R["File"] = Sources(repo) /\ R["Symbol"] = Symbols(repo)
      /\ R["Commit"] = rows["Commit"] /\ R["Author"] = rows["Author"]
      /\ repo' = repo
  BY AssembleRows DEF TypeInv, History, Assemble
<1>2. \A e \in R["DEFINES"] : e.from \in R["File"] /\ e.to \in R["Symbol"]
  BY <1>1, AssembleRows, DefsInSources DEF TypeInv, Scalars, Edge
<1>3. \A e \in R["IMPORTS"] : e.from \in R["File"] /\ e.to \in R["Module"]
  <2>1. \A i \in Imports : i.file \in Sources(repo)
    BY RepoAssumption DEF TypeInv, Scalars, Imports
  <2> QED
    BY <1>1, <2>1, AssembleRows DEF TypeInv, Edge
<1>4. \A l \in {"CALLS", "EXTENDS_", "IMPLEMENTS", "INJECTS"} : \A e \in R[l] :
        e.from \in R["Symbol"] /\ e.to \in R["Symbol"]
  BY <1>1, AssembleRows DEF TypeInv, Between
<1>5. \A e \in R["PERSISTS_TO"] : e.from \in R["Symbol"] /\ e.to \in R["DbTable"]
  BY <1>1, AssembleRows DEF TypeInv, Persisted
<1>6. \A e \in R["MEMBER_OF"] : e.from \in Symbols(repo)
  BY <1>1, AssembleRows, DefsAreSymbols DEF TypeInv, Edge
<1>7. /\ \A e \in R["AUTHORED_BY"] : e.from \in R["Commit"] /\ e.to \in R["Author"]
      /\ \A e \in R["TOUCHED_BY_COMMIT"] : e.from \in R["File"] /\ e.to \in R["Commit"]
      /\ \A e \in R["CO_CHANGES_WITH"] : e.from \in R["File"] /\ e.to \in R["File"]
  BY <1>1, AssembleRows, HistoryEnds DEF TypeInv, History
<1>8. \A l \in Labels \ {"MEMBER_OF"} : \A e \in R[l] :
        e.from \in R[Ends[l][1]] /\ e.to \in R[Ends[l][2]]
  <2> HIDE DEF R
  <2> QED
    BY <1>2, <1>3, <1>4, <1>5, <1>7, LabelFacts DEF Ends
<1> QED
  BY <1>1, <1>6, <1>8 DEF RowEnds, From, Onto

LEMMA WriteNodesStored ==
  ASSUME TypeInv, Stored, WriteNodes
  PROVE  Stored' /\ stage' = "write"
<1> DEFINE l == Order[written + 1]
<1>1. written \in 0..16 /\ written + 1 \in 1..6 /\ l \in Nodes
  BY OrderFacts, EndsFacts DEF WriteNodes, TypeInv, Scalars
<1>2. nodes[l] = {}
  BY <1>1 DEF Stored
<1>3. /\ nodes' = [nodes EXCEPT ![l] = nodes[l] \union rows[l]] /\ written' = written + 1
      /\ rows' = rows /\ edges' = edges /\ stage' = "write"
  BY <1>2 DEF WriteNodes
<1>4. \A k \in 1..6 : nodes'[Order[k]] = IF k <= written' THEN rows'[Order[k]] ELSE {}
  <2> SUFFICES ASSUME NEW k \in 1..6
               PROVE  nodes'[Order[k]] = IF k <= written' THEN rows'[Order[k]] ELSE {}
    OBVIOUS
  <2>1. Order[k] \in DOMAIN nodes
    BY OrderFacts DEF TypeInv, Domains
  <2>2. CASE k = written + 1
    BY <1>1, <1>2, <1>3, <2>1, <2>2
  <2>3. CASE k # written + 1
    <3>1. Order[k] # l
      BY <1>1, <2>3, OrderFacts
    <3>2. nodes'[Order[k]] = nodes[Order[k]]
      BY <1>3, <2>1, <3>1
    <3> QED
      BY <1>1, <1>3, <3>2, <2>3 DEF Stored
  <2> QED
    BY <2>2, <2>3
<1>5. \A k \in 7..17 : edges'[Order[k]] = IF k <= written' THEN Landed(Order[k])' ELSE {}
  <2> SUFFICES ASSUME NEW k \in 7..17
               PROVE  edges'[Order[k]] = IF k <= written' THEN Landed(Order[k])' ELSE {}
    OBVIOUS
  <2>1. ~(k <= written) /\ ~(k <= written')
    BY <1>1, <1>3
  <2>2. edges[Order[k]] = {}
    BY <2>1 DEF Stored
  <2>3. edges'[Order[k]] = {}
    BY <1>3, <2>2
  <2> QED
    BY <2>1, <2>3
<1> QED
  BY <1>3, <1>4, <1>5 DEF Stored

LEMMA WriteEdgesStored ==
  ASSUME TypeInv, Stored, WriteEdges
  PROVE  Stored'
<1> DEFINE l == Order[written + 1]
<1>1. written \in 6..16 /\ written + 1 \in 7..17 /\ l \in Labels
  BY OrderFacts, EndsFacts DEF WriteEdges, TypeInv, Scalars
<1>2. \A n \in Nodes : nodes[n] = rows[n]
  BY <1>1, OrderFacts DEF Stored
<1>3. {e \in rows[l] : e.from \in nodes[Ends[l][1]] /\ e.to \in nodes[Ends[l][2]]} = Landed(l)
  BY <1>1, <1>2, EndsFacts DEF Landed, From, Onto
<1>4. edges[l] = {}
  BY <1>1 DEF Stored
<1>5. /\ edges' = [edges EXCEPT ![l] = Landed(l)] /\ written' = written + 1
      /\ rows' = rows /\ nodes' = nodes
  BY <1>3, <1>4 DEF WriteEdges
<1>6. \A k \in 1..6 : nodes'[Order[k]] = IF k <= written' THEN rows'[Order[k]] ELSE {}
  BY <1>1, <1>5 DEF Stored
<1>7. \A k \in 7..17 : edges'[Order[k]] = IF k <= written' THEN Landed(Order[k]) ELSE {}
  <2> SUFFICES ASSUME NEW k \in 7..17
               PROVE  edges'[Order[k]] = IF k <= written' THEN Landed(Order[k]) ELSE {}
    OBVIOUS
  <2>1. Order[k] \in DOMAIN edges
    BY OrderFacts DEF TypeInv, Domains
  <2>2. CASE k = written + 1
    BY <1>1, <1>5, <2>1, <2>2
  <2>3. CASE k # written + 1
    <3>1. Order[k] # l
      BY <1>1, <2>3, OrderFacts
    <3>2. edges'[Order[k]] = edges[Order[k]]
      BY <1>5, <2>1, <3>1
    <3> QED
      BY <1>1, <1>5, <3>2, <2>3 DEF Stored
  <2> QED
    BY <2>2, <2>3
<1>8. \A k \in 7..17 : Landed(Order[k])' = Landed(Order[k])
  BY <1>5 DEF Landed, From, Onto
<1> QED
  BY <1>6, <1>7, <1>8 DEF Stored

(* Steps that leave the calls and the history alone, and those that leave   *)
(* every row and the store alone.                                          *)
LEMMA RowsKept ==
  ASSUME repo' = repo, rows'["CALLS"] \subseteq rows["CALLS"],
         \A l \in History : rows'[l] = rows[l]
  PROVE  (CallRows => CallRows') /\ (HistoryRows => HistoryRows')
<1>1. CallRows => CallRows'
  BY DEF CallRows, Sure, Evident
<1>2. HistoryRows => HistoryRows'
  <2>1. TouchesOf(repo)' = TouchesOf(repo) /\ CoChangesOf(repo)' = CoChangesOf(repo)
    BY DEF TouchesOf, CoChangesOf
  <2> QED
    BY <2>1 DEF HistoryRows, History
<1> QED
  BY <1>1, <1>2

LEMMA AllKept ==
  ASSUME UNCHANGED <<repo, rows, written, nodes, edges>>
  PROVE  /\ CallRows => CallRows'
         /\ InjectRows => InjectRows'
         /\ InjectOrigins => InjectOrigins'
         /\ HistoryRows => HistoryRows'
         /\ RowEnds => RowEnds'
         /\ Stored => Stored'
<1>1. (CallRows => CallRows') /\ (HistoryRows => HistoryRows')
  BY RowsKept
<1>2. RowEnds => RowEnds'
  BY DEF RowEnds, From, Onto
<1>3. Stored => Stored'
  BY DEF Stored, Landed, From, Onto
<1>4. InjectRows => InjectRows'
  BY DEF InjectRows, Serves, Injector, Sure
<1>5. InjectOrigins => InjectOrigins'
  BY DEF InjectOrigins, Stands, Implemented, Injector
<1> QED
  BY <1>1, <1>2, <1>3, <1>4, <1>5

LEMMA InitInv == Init => Inv
BY DEF Init, Inv, Resolving, Finishing

LEMMA NextInv == TypeInv /\ TypeInv' /\ Inv /\ [Next]_vars => Inv'
<1> SUFFICES ASSUME TypeInv, TypeInv', Inv, [Next]_vars PROVE Inv'
  OBVIOUS
<1> USE DEF Resolving, Finishing
<1>0. Domains
  BY DEF TypeInv
<1>1. CASE Unlink
  BY <1>1 DEF Unlink, Inv, Empty
<1>2. CASE ResolveCalls
  <2>1. CallRows'
    BY <1>0, <1>2, ResolveCallsRows, CallsEvident DEF CallRows, ResolveCalls, Sure, Evident
  <2> QED
    BY <1>2, <2>1 DEF ResolveCalls, Inv, Empty
<1>3. CASE ReadHistory
  <2>1. CallRows'
    BY <1>0, <1>3, ReadHistoryRows, LabelFacts
    DEF Inv, CallRows, ReadHistory, Sure, Evident, History
  <2>2. HistoryRows'
    BY <1>0, <1>3, ReadHistoryRows
  <2> QED
    BY <1>3, <2>1, <2>2 DEF ReadHistory, Inv, Empty
<1>4. CASE ResolveInheritance
  <2>1. \A l \in History \union {"CALLS"} : rows'[l] = rows[l]
    BY <1>0, <1>4, ResolveInheritanceRows, LabelFacts DEF History
  <2>2. CallRows' /\ HistoryRows'
    BY <1>4, <2>1, RowsKept DEF Inv, ResolveInheritance
  <2> QED
    BY <1>4, <2>2 DEF ResolveInheritance, Inv, Empty
<1>5. CASE ResolveInjection
  <2>1. \A l \in History \union {"CALLS"} : rows'[l] = rows[l]
    BY <1>0, <1>5, ResolveInjectionRows, LabelFacts DEF History
  <2>2. CallRows' /\ HistoryRows'
    BY <1>5, <2>1, RowsKept DEF Inv, ResolveInjection
  <2>3. InjectRows' /\ InjectOrigins'
    BY <1>5, InjectionRows, InjectionOrigins
  <2> QED
    BY <1>5, <2>2, <2>3 DEF ResolveInjection, Inv, Empty
<1>6. CASE Assemble
  <2>1. rows'["CALLS"] \subseteq rows["CALLS"] /\ \A l \in History : rows'[l] = rows[l]
    BY <1>0, <1>6, AssembleRows DEF Between
  <2>2. CallRows' /\ HistoryRows'
    BY <1>6, <2>1, RowsKept DEF Inv, Assemble
  <2>3. RowEnds'
    BY <1>6, AssembledEnds DEF Inv, Assemble
  <2>4. Stored'
    BY <1>6, OrderFacts DEF Inv, Assemble, Stored, Empty, NoNodes, NoEdges
  <2>5. InjectRows' /\ InjectOrigins'
    BY <1>6, InjectRowsAssembled, InjectOriginsAssembled DEF Inv, Assemble
  <2> QED
    BY <1>6, <2>2, <2>3, <2>4, <2>5 DEF Assemble, Inv
<1>7. CASE WriteNodes
  <2>1. Stored' /\ stage' = "write"
    BY <1>7, WriteNodesStored DEF Inv, WriteNodes
  <2>2. CallRows' /\ HistoryRows' /\ RowEnds'
    BY <1>7, RowsKept DEF Inv, WriteNodes, RowEnds, From, Onto
  <2>3. InjectRows'
    BY <1>7 DEF Inv, WriteNodes, InjectRows, Serves, Injector, Sure
  <2>4. InjectOrigins'
    BY <1>7 DEF Inv, WriteNodes, InjectOrigins, Stands, Implemented, Injector
  <2> QED
    BY <1>7, <2>1, <2>2, <2>3, <2>4 DEF WriteNodes, Inv
<1>8. CASE WriteEdges
  <2>1. Stored'
    BY <1>8, WriteEdgesStored DEF Inv, WriteEdges
  <2>2. CallRows' /\ HistoryRows' /\ RowEnds'
    BY <1>8, RowsKept DEF Inv, WriteEdges, RowEnds, From, Onto
  <2>3. InjectRows'
    BY <1>8 DEF Inv, WriteEdges, InjectRows, Serves, Injector, Sure
  <2>4. InjectOrigins'
    BY <1>8 DEF Inv, WriteEdges, InjectOrigins, Stands, Implemented, Injector
  <2> QED
    BY <1>8, <2>1, <2>2, <2>3, <2>4 DEF WriteEdges, Inv
<1>9. CASE Written
  <2>1. /\ CallRows' /\ InjectRows' /\ InjectOrigins'
        /\ HistoryRows' /\ RowEnds' /\ Stored'
    BY <1>9, AllKept DEF Inv, Written
  <2> QED
    BY <1>9, <2>1, OrderFacts DEF Written, Inv
<1>10. CASE BuildIndex
  <2>1. /\ CallRows' /\ InjectRows' /\ InjectOrigins'
        /\ HistoryRows' /\ RowEnds' /\ Stored'
    BY <1>10, AllKept DEF Inv, BuildIndex
  <2>2. nodes["Symbol"] = Symbols(repo)
    <3>1. Order[3] = "Symbol" /\ written = 17
      BY <1>10 DEF Inv, BuildIndex, Order
    <3> QED
      BY <1>10, <3>1 DEF Inv, BuildIndex, Stored, RowEnds
  <2> QED
    BY <1>10, <2>1, <2>2 DEF BuildIndex, Inv
<1>11. CASE Again
  BY <1>11 DEF Again, Inv
<1>12. CASE UNCHANGED vars
  BY <1>12, AllKept DEF vars, Inv, Empty
<1> QED
  BY <1>1, <1>2, <1>3, <1>4, <1>5, <1>6, <1>7, <1>8, <1>9, <1>10, <1>11, <1>12 DEF Next

LEMMA Invariant == Spec => [](TypeInv /\ Inv)
BY InitTyped, NextTyped, InitInv, NextInv, PTL DEF Spec
-----------------------------------------------------------------------------
LEMMA DoneStored ==
  ASSUME Inv, Done
  PROVE  /\ \A n \in Nodes : nodes[n] = rows[n]
         /\ \A l \in Labels : edges[l] = Landed(l)
         /\ RowEnds /\ CallRows /\ HistoryRows /\ InjectRows /\ InjectOrigins
<1>1. /\ written = 17 /\ Stored /\ RowEnds /\ CallRows /\ HistoryRows
      /\ InjectRows /\ InjectOrigins
  BY DEF Inv, Done, Finishing
<1>2. \A k \in 1..6 : nodes[Order[k]] = rows[Order[k]]
  BY <1>1 DEF Stored
<1>3. \A k \in 7..17 : edges[Order[k]] = Landed(Order[k])
  BY <1>1 DEF Stored
<1> QED
  BY <1>1, <1>2, <1>3, OrderFacts

(* In every finished build, whatever runs were killed before it, every row  *)
(* of every batch is in the store, but for a method whose type is declared  *)
(* in another file or not at all (the MATCH of the UNWIND finds both ends). *)
THEOREM NoOtherRowIsLost == Spec => []OnlyMembersAreLost
<1>1. Inv => OnlyMembersAreLost
  <2> SUFFICES ASSUME Inv, Done, NEW l \in Labels, NEW e \in rows[l],
                      ~(l = "MEMBER_OF" /\ e.to \notin Defs(repo))
               PROVE  e \in edges[l]
    BY DEF OnlyMembersAreLost
  <2>1. CASE l # "MEMBER_OF"
    BY <2>1, DoneStored DEF RowEnds, Landed
  <2>2. CASE l = "MEMBER_OF"
    <3>1. e.from \in rows["Symbol"] /\ e.to \in rows["Symbol"]
      BY <2>2, DoneStored, DefsAreSymbols DEF RowEnds
    <3>2. Ends[l] = <<"Symbol", "Symbol">>
      BY <2>2 DEF Ends
    <3> QED
      BY <3>1, <3>2, DoneStored DEF Landed, From, Onto
  <2> QED
    BY <2>1, <2>2
<1> QED
  BY <1>1, Invariant, PTL

(* No CALLS edge that an agent may trust rests on a coincidence of names.   *)
THEOREM PreciseCalls == Spec => []PreciseCallsAreLinked
<1>1. Inv => PreciseCallsAreLinked
  BY DoneStored, LabelFacts DEF PreciseCallsAreLinked, Landed, CallRows, Evident
<1> QED
  BY <1>1, Invariant, PTL

(* Where an interface is injected, every class that implements it in the    *)
(* graph is, and an edge says that it is sure only when there is no other   *)
(* class that implements it (the rebinding of phases.py).                  *)
THEOREM Candidates == Spec => []CandidatesAreInjected
<1>1. Inv => CandidatesAreInjected
  <2> SUFFICES ASSUME Inv, Done, NEW d \in repo.deps, NEW t \in Named(repo, d.file, d.name),
                      Injector(d) \in Symbols(repo), NEW i \in Implementing(t.to)
               PROVE  \E e \in edges["INJECTS"] :
                        e.from = Injector(d) /\ e.to = i /\ (Sure(e) => Implementing(t.to) = {i})
    BY DEF CandidatesAreInjected
  <2>1. \A l \in {"IMPLEMENTS", "INJECTS"} : edges[l] = rows[l]
    BY DoneStored, LabelFacts DEF Landed, RowEnds
  <2>2. PICK f \in rows["IMPLEMENTS"] : f.to = t.to /\ f.from = i
    BY <2>1 DEF Implementing
  <2>3. f.from \in Symbols(repo)
    BY <2>2, DoneStored, LabelFacts DEF RowEnds, From, Ends
  <2>4. PICK e \in rows["INJECTS"] : Serves(e, d, t, i)
    BY <2>2, <2>3, DoneStored DEF InjectRows
  <2>5. Sure(e) => \A j \in Implementing(t.to) : j = i
    BY <2>1, <2>4 DEF Serves, Implementing
  <2>6. e.from = Injector(d) /\ e.to = i
    BY <2>4 DEF Serves
  <2> QED
    BY <2>1, <2>5, <2>6
<1> QED
  BY <1>1, Invariant, PTL

(* What is bound to an interface itself implements another type, injected   *)
(* at the same place.                                                      *)
THEOREM GivesWay == Spec => []InterfacesGiveWay
<1>1. Inv => InterfacesGiveWay
  <2> SUFFICES ASSUME Inv, Done, NEW d \in repo.deps, NEW t \in Named(repo, d.file, d.name),
                      Implementing(t.to) # {}, Has("INJECTS", Injector(d), t.to)
               PROVE  \E other \in repo.deps : Injector(other) = Injector(d) /\
                        \E u \in Named(repo, other.file, other.name) : t.to \in Implementing(u.to)
    BY DEF InterfacesGiveWay
  <2>1. \A l \in {"IMPLEMENTS", "INJECTS"} : edges[l] = rows[l]
    BY DoneStored, LabelFacts DEF Landed, RowEnds
  <2>2. PICK e \in rows["INJECTS"] : e.from = Injector(d) /\ e.to = t.to
    BY <2>1 DEF Has
  <2>3. PICK other \in repo.deps :
          Injector(other) = Injector(d) /\
          \E u \in Named(repo, other.file, other.name) : Stands(e, u)
    BY <2>2, DoneStored DEF InjectOrigins
  <2>4. PICK u \in Named(repo, other.file, other.name) : Stands(e, u)
    BY <2>3
  <2>5. Implemented(u, t.to)
    BY <2>1, <2>2, <2>4 DEF Stands, Implementing
  <2>6. t.to \in Implementing(u.to)
    BY <2>1, <2>5 DEF Implemented, Implementing
  <2> QED
    BY <2>3, <2>6
<1> QED
  BY <1>1, Invariant, PTL

(* A build never meets a node of a run before it, and what it leaves is the *)
(* graph and the index of the repository as it is, whatever that run left.  *)
THEOREM NothingIsLeftOver == Spec => []RebuildForgets
<1>1. Inv => RebuildForgets
  <2> SUFFICES ASSUME Inv PROVE RebuildForgets
    OBVIOUS
  <2>1. stage # "failed"
    BY DEF Inv
  <2>2. ASSUME Done
        PROVE  /\ nodes["File"] = Sources(repo) /\ nodes["Symbol"] = Symbols(repo)
               /\ index = {s \in Symbols(repo) : s.name # <<>>}
               /\ \A l \in Labels : edges[l] \subseteq rows[l]
    BY <2>2, DoneStored, LabelFacts DEF RowEnds, Landed, Inv, Done
  <2> QED
    BY <2>1, <2>2 DEF RebuildForgets
<1> QED
  BY <1>1, Invariant, PTL

(* A set of commits has as many members as it has hashes.                   *)
LEMMA CommitsAsHashes ==
  ASSUME NEW S, IsFiniteSet(S), \A c, d \in S : c.sha = d.sha => c = d
  PROVE  Cardinality({c.sha : c \in S}) = Cardinality(S)
<1> DEFINE T == {c.sha : c \in S}
           F == [c \in S |-> c.sha]
<1>1. F \in [S -> T]
  OBVIOUS
<1>2. \A a, b \in S : F[a] = F[b] => a = b
  OBVIOUS
<1>3. \A k \in T : \E c \in S : F[c] = k
  OBVIOUS
<1> HIDE DEF F, T
<1>4. F \in Bijection(S, T)
  BY <1>1, <1>2, <1>3, Fun_IsBij
<1>5. ExistsBijection(S, T)
  BY <1>4, Fun_ExistsBij
<1>6. Cardinality(T) = Cardinality(S)
  BY <1>5, FS_Bijection
<1> QED
  BY <1>6 DEF T

(* CO_CHANGES_WITH and the TOUCHED_BY_COMMIT edges beside it, which are     *)
(* counted from the log in two ways, tell the same in every build.         *)
THEOREM CoChanges == Spec => []CoChangesAgree
<1>1. TypeInv /\ Inv => CoChangesAgree
  <2> SUFFICES ASSUME TypeInv, Inv, Done, NEW f \in nodes["File"], NEW g \in nodes["File"],
                      Before(repo, f, g)
               PROVE  Has("CO_CHANGES_WITH", f, g) <=>
                      Cardinality({k \in nodes["Commit"] : Has("TOUCHED_BY_COMMIT", f, k) /\
                                                           Has("TOUCHED_BY_COMMIT", g, k)})
                        >= CoChangesThreshold
    BY DEF CoChangesAgree
  <2> DEFINE S == {c \in repo.commits : {f, g} \subseteq Touches(c, repo)}
             K == {k \in nodes["Commit"] : Has("TOUCHED_BY_COMMIT", f, k) /\
                                           Has("TOUCHED_BY_COMMIT", g, k)}
  <2>1. /\ IsFiniteSet(repo.commits)
        /\ \A c, d \in repo.commits : c.sha = d.sha => c = d
    BY RepoAssumption DEF TypeInv, Scalars
  <2>2. /\ nodes["File"] = Sources(repo) /\ nodes["Commit"] = {c.sha : c \in repo.commits}
        /\ edges["TOUCHED_BY_COMMIT"] = TouchesOf(repo)
        /\ edges["CO_CHANGES_WITH"] = CoChangesOf(repo)
    BY DoneStored, LabelFacts DEF RowEnds, HistoryRows, Landed
  <2>3. ASSUME NEW h, NEW k
        PROVE  Has("TOUCHED_BY_COMMIT", h, k) <=>
               \E c \in repo.commits : h \in Touches(c, repo) /\ c.sha = k
    <3>1. \A e : e \in TouchesOf(repo) <=>
            \E c \in repo.commits : \E x \in Touches(c, repo) : e = Edge(x, c.sha, "EXTRACTED")
      BY DEF TouchesOf
    <3>2. ASSUME Has("TOUCHED_BY_COMMIT", h, k)
          PROVE  \E c \in repo.commits : h \in Touches(c, repo) /\ c.sha = k
      <4>1. PICK e \in TouchesOf(repo) : e.from = h /\ e.to = k
        BY <2>2, <3>2 DEF Has
      <4>2. PICK c \in repo.commits : \E x \in Touches(c, repo) : e = Edge(x, c.sha, "EXTRACTED")
        BY <3>1, <4>1
      <4> QED
        BY <4>1, <4>2 DEF Edge
    <3>3. ASSUME NEW c \in repo.commits, h \in Touches(c, repo), c.sha = k
          PROVE  Has("TOUCHED_BY_COMMIT", h, k)
      <4>1. Edge(h, c.sha, "EXTRACTED") \in TouchesOf(repo)
        BY <3>1, <3>3
      <4> QED
        BY <2>2, <3>3, <4>1 DEF Has, Edge
    <3> QED
      BY <3>2, <3>3
  <2>4. Cardinality(K) = Together(repo, f, g)
    <3>1. \A k : k \in K <=> \E c \in S : c.sha = k
      BY <2>1, <2>2, <2>3
    <3>2. K = {c.sha : c \in S}
      BY <3>1
    <3>3. IsFiniteSet(S)
      BY <2>1, FS_Subset
    <3>4. \A c, d \in S : c.sha = d.sha => c = d
      BY <2>1
    <3>5. Cardinality({c.sha : c \in S}) = Cardinality(S)
      <4> HIDE DEF S
      <4> QED
        BY <3>3, <3>4, CommitsAsHashes
    <3> QED
      BY <3>2, <3>5 DEF Together
  <2>5. Has("CO_CHANGES_WITH", f, g) <=> Together(repo, f, g) >= CoChangesThreshold
    <3>1. ASSUME Has("CO_CHANGES_WITH", f, g)
          PROVE  Together(repo, f, g) >= CoChangesThreshold
      <4>1. PICK e \in CoChangesOf(repo) : e.from = f /\ e.to = g
        BY <2>2, <3>1 DEF Has
      <4>2. PICK p \in Sources(repo) \X Sources(repo) :
              /\ e = Edge(p[1], p[2], "INFERRED")
              /\ Together(repo, p[1], p[2]) >= CoChangesThreshold
        BY <4>1 DEF CoChangesOf
      <4> QED
        BY <4>1, <4>2 DEF Edge
    <3>2. ASSUME Together(repo, f, g) >= CoChangesThreshold
          PROVE  Has("CO_CHANGES_WITH", f, g)
      <4> DEFINE p == <<f, g>>
      <4>1. p \in Sources(repo) \X Sources(repo) /\ p[1] = f /\ p[2] = g
        BY <2>2
      <4>2. Edge(p[1], p[2], "INFERRED") \in CoChangesOf(repo)
        BY <3>2, <4>1 DEF CoChangesOf
      <4> QED
        BY <2>2, <4>1, <4>2 DEF Has, Edge
    <3> QED
      BY <3>1, <3>2
  <2> QED
    BY <2>4, <2>5
<1> QED
  BY <1>1, Invariant, PTL
(* A finished build holds its own rows, nothing of an earlier one, and two   *)
(* views of the history that agree.                                        *)
THEOREM ConsistentBuild == Spec => []BuildIsConsistent
<1>1. OnlyMembersAreLost /\ RebuildForgets /\ CoChangesAgree => BuildIsConsistent
  BY DEF BuildIsConsistent
<1>2. QED
  BY <1>1, NoOtherRowIsLost, NothingIsLeftOver, CoChanges, PTL
-----------------------------------------------------------------------------
(* Names.  Rows that join two symbols are those the resolver made, none     *)
(* less: the other half of what the rows are.                               *)
Joins(e) == e.from \in Symbols(repo) /\ e.to \in Symbols(repo)
ParentRow(p, t) == Edge(Symbol(p.file, TypeName(Language(p.file), p.place)), t.to, t.conf)
ChildrenOf(r, kind) ==
    UNION {{ParentRow(p, t) : t \in Named(r, p.file, p.name)} :
              p \in {q \in r.parents : q.kind = kind}}
Resolves(label, found) ==
    rows[label] \subseteq found /\ \A e \in found : Joins(e) => e \in rows[label]
CallsResolved    == Resolves("CALLS", CallsOf(repo))
HeritageResolved == /\ Resolves("EXTENDS_", ChildrenOf(repo, "extends"))
                    /\ Resolves("IMPLEMENTS", ChildrenOf(repo, "implements"))
(* An injected type that nothing is said to implement stands for itself.    *)
InjectionsResolved ==
    \A d \in repo.deps : \A t \in Named(repo, d.file, d.name) :
        /\ Injector(d) \in Symbols(repo)
        /\ \A f \in ChildrenOf(repo, "implements") : f.to # t.to
        => \E e \in rows["INJECTS"] : e.from = Injector(d) /\ e.to = t.to
TablesResolved ==
    \A e \in PersistsOf(repo) : e.from \in Symbols(repo) => e \in rows["PERSISTS_TO"]
Resolved ==
    /\ stage \in {"history", "inheritance", "injection", "assemble"} \union Finishing => CallsResolved
    /\ stage \in {"injection", "assemble"} \union Finishing => HeritageResolved
    /\ stage \in {"assemble"} \union Finishing => InjectionsResolved /\ TablesResolved

LEMMA ResolvedKept ==
  ASSUME repo' = repo,
         \A l \in {"CALLS", "EXTENDS_", "IMPLEMENTS", "INJECTS", "PERSISTS_TO"} : rows'[l] = rows[l]
  PROVE  /\ CallsResolved => CallsResolved'
         /\ HeritageResolved => HeritageResolved'
         /\ InjectionsResolved => InjectionsResolved'
         /\ TablesResolved => TablesResolved'
<1>1. \A l \in {"CALLS", "EXTENDS_", "IMPLEMENTS"} : \A found :
        Resolves(l, found) => (rows'[l] \subseteq found /\
                               \A e \in found : e.from \in Symbols(repo) /\ e.to \in Symbols(repo) => e \in rows'[l])
  BY DEF Resolves, Joins
<1>2. CallsResolved => CallsResolved'
  <2>1. CallsOf(repo)' = CallsOf(repo)
    BY DEF CallsOf
  <2> QED
    BY <1>1, <2>1 DEF CallsResolved, Resolves, Joins
<1>3. HeritageResolved => HeritageResolved'
  BY <1>1 DEF HeritageResolved, Resolves, Joins
<1>4. InjectionsResolved => InjectionsResolved'
  BY DEF InjectionsResolved, Injector
<1>5. TablesResolved => TablesResolved'
  BY DEF TablesResolved, PersistsOf
<1> QED
  BY <1>2, <1>3, <1>4, <1>5

LEMMA InjectionsMade ==
  ASSUME Domains, ResolveInjection, HeritageResolved
  PROVE  InjectionsResolved'
<1>1. /\ rows'["INJECTS"] = InjectsOf(repo) /\ repo' = repo
      /\ rows["IMPLEMENTS"] \subseteq ChildrenOf(repo, "implements")
  BY ResolveInjectionRows DEF ResolveInjection, HeritageResolved, Resolves
<1>2. SUFFICES ASSUME NEW d \in repo.deps, NEW t \in Named(repo, d.file, d.name),
                      \A f \in ChildrenOf(repo, "implements") : f.to # t.to
               PROVE  \E e \in InjectsOf(repo) : e.from = Injector(d) /\ e.to = t.to
  BY <1>1 DEF InjectionsResolved, Injector
<1>3. {e.from : e \in {f \in rows["IMPLEMENTS"] : f.to = t.to}} = {}
  BY <1>1, <1>2
<1>4. t \in Injected(t)
  BY <1>3 DEF Injected
<1> DEFINE row == Edge(Injector(d), t.to, t.conf)
<1>5. row.from = Injector(d) /\ row.to = t.to
  BY DEF Edge
<1>6. row = Edge(Symbol(d.file, InjectorName(Language(d.file), d.place)), t.to, t.conf)
  BY DEF Injector
<1> HIDE DEF row
<1>7. row \in InjectsOf(repo)
  BY <1>4, <1>6 DEF InjectsOf
<1> QED
  BY <1>5, <1>7

(* The steps keep what a stage has resolved.                                *)
LEMMA NextResolved == TypeInv /\ Resolved /\ [Next]_vars => Resolved'
<1> SUFFICES ASSUME TypeInv, Resolved, [Next]_vars PROVE Resolved'
  OBVIOUS
<1> USE DEF Finishing
<1>0. Domains
  BY DEF TypeInv
<1>1. CASE Unlink
  BY <1>1 DEF Unlink, Resolved
<1>2. CASE ResolveCalls
  <2>1. rows'["CALLS"] = CallsOf(repo) /\ repo' = repo
    BY <1>0, <1>2, ResolveCallsRows DEF ResolveCalls
  <2>2. CallsOf(repo)' = CallsOf(repo)
    BY <2>1 DEF CallsOf
  <2>3. CallsResolved'
    BY <2>1, <2>2 DEF CallsResolved, Resolves
  <2> QED
    BY <1>2, <2>3 DEF ResolveCalls, Resolved
<1>3. CASE ReadHistory
  <2>1. CallsResolved'
    BY <1>0, <1>3, ReadHistoryRows, ResolvedKept, LabelFacts DEF Resolved, ReadHistory, History
  <2> QED
    BY <1>3, <2>1 DEF ReadHistory, Resolved
<1>4. CASE ResolveInheritance
  <2>1. /\ rows'["EXTENDS_"] = Children("extends") /\ rows'["IMPLEMENTS"] = Children("implements")
        /\ rows'["CALLS"] = rows["CALLS"] /\ repo' = repo
    BY <1>0, <1>4, ResolveInheritanceRows, LabelFacts DEF ResolveInheritance
  <2>2. \A kind : Children(kind) = ChildrenOf(repo, kind)
    BY Zenon DEF Children, ChildrenOf, ParentRow
  <2>3. HeritageResolved'
    BY <2>1, <2>2 DEF HeritageResolved, Resolves
  <2>4. CallsResolved'
    <3>1. CallsOf(repo)' = CallsOf(repo)
      BY <2>1 DEF CallsOf
    <3> QED
      BY <1>4, <2>1, <3>1 DEF Resolved, CallsResolved, Resolves, Joins, ResolveInheritance
  <2> QED
    BY <1>4, <2>3, <2>4 DEF ResolveInheritance, Resolved
<1>5. CASE ResolveInjection
  <2>1. /\ \A l \in {"CALLS", "EXTENDS_", "IMPLEMENTS"} : rows'[l] = rows[l]
        /\ rows'["PERSISTS_TO"] = PersistsOf(repo) /\ repo' = repo
    BY <1>0, <1>5, ResolveInjectionRows, LabelFacts DEF ResolveInjection
  <2>2. CallsResolved'
    <3>1. CallsOf(repo)' = CallsOf(repo)
      BY <2>1 DEF CallsOf
    <3> QED
      BY <1>5, <2>1, <3>1 DEF Resolved, CallsResolved, Resolves, Joins, ResolveInjection
  <2>3. HeritageResolved'
    BY <1>5, <2>1 DEF Resolved, HeritageResolved, Resolves, Joins, ResolveInjection
  <2>4. InjectionsResolved'
    BY <1>0, <1>5, InjectionsMade DEF Resolved, ResolveInjection
  <2>5. TablesResolved'
    BY <2>1 DEF TablesResolved, PersistsOf
  <2> QED
    BY <1>5, <2>2, <2>3, <2>4, <2>5 DEF ResolveInjection, Resolved
<1>6. CASE Assemble
  <2>1. /\ \A l \in {"CALLS", "EXTENDS_", "IMPLEMENTS", "INJECTS"} : rows'[l] = Between(l)
        /\ rows'["PERSISTS_TO"] = Persisted /\ repo' = repo
        /\ CallsResolved /\ HeritageResolved /\ InjectionsResolved /\ TablesResolved
    BY <1>0, <1>6, AssembleRows DEF Assemble, Resolved
  <2>2. \A l, found : Resolves(l, found) =>
          Between(l) \subseteq found /\ \A e \in found : Joins(e) => e \in Between(l)
    BY DEF Resolves, Joins, Between
  <2>3. CallsResolved'
    <3>1. CallsOf(repo)' = CallsOf(repo)
      BY <2>1 DEF CallsOf
    <3> QED
      BY <2>1, <2>2, <3>1 DEF CallsResolved, Resolves, Joins
  <2>4. HeritageResolved'
    BY <2>1, <2>2 DEF HeritageResolved, Resolves, Joins
  <2>5. InjectionsResolved'
    <3>1. SUFFICES ASSUME NEW d \in repo.deps, NEW t \in Named(repo, d.file, d.name),
                          Injector(d) \in Symbols(repo),
                          \A f \in ChildrenOf(repo, "implements") : f.to # t.to
                   PROVE  \E e \in Between("INJECTS") : e.from = Injector(d) /\ e.to = t.to
      BY <2>1 DEF InjectionsResolved, Injector
    <3>2. PICK e \in rows["INJECTS"] : e.from = Injector(d) /\ e.to = t.to
      BY <2>1, <3>1 DEF InjectionsResolved
    <3>3. t.to \in Symbols(repo)
      BY NamedSymbols, DefsAreSymbols
    <3> QED
      BY <3>1, <3>2, <3>3 DEF Between
  <2>6. TablesResolved'
    BY <2>1 DEF TablesResolved, PersistsOf, Persisted
  <2> QED
    BY <1>6, <2>3, <2>4, <2>5, <2>6 DEF Assemble, Resolved
<1>7. CASE WriteNodes \/ WriteEdges \/ Written \/ BuildIndex \/ UNCHANGED vars
  <2>1. /\ rows' = rows /\ repo' = repo
        /\ stage' = stage \/ stage \in Finishing
    BY <1>7 DEF WriteNodes, WriteEdges, Written, BuildIndex, vars
  <2>2. /\ CallsResolved => CallsResolved'
        /\ HeritageResolved => HeritageResolved'
        /\ InjectionsResolved => InjectionsResolved'
        /\ TablesResolved => TablesResolved'
    BY <2>1, ResolvedKept
  <2> QED
    BY <2>1, <2>2 DEF Resolved
<1>8. CASE Again
  BY <1>8 DEF Again, Resolved
<1> QED
  BY <1>1, <1>2, <1>3, <1>4, <1>5, <1>6, <1>7, <1>8 DEF Next

LEMMA ResolvedAlways == Spec => []Resolved
<1>1. Init => Resolved
  BY DEF Init, Resolved, Finishing
<1> QED
  BY <1>1, NextResolved, Typed, PTL DEF Spec
-----------------------------------------------------------------------------
Part == [kind : {"class", "function"}, name : STRING]

(* The first q parts of the place are classes, and no other part is.        *)
Led(place, q) == /\ \A i \in 1..q : IsClass(place[i])
                 /\ \A i \in (q + 1)..Len(place) : ~IsClass(place[i])

(* The classes of a place where the first q parts are classes and no other. *)
LEMMA LeadingClasses ==
  ASSUME NEW place, NEW n \in Nat, Len(place) = n, NEW q \in 0..n,
         \A i \in 1..q : IsClass(place[i]), \A i \in (q + 1)..n : ~IsClass(place[i])
  PROVE  Classes(place) = [k \in 1..q |-> place[k].name]
<1> DEFINE upto(m) == Cardinality({i \in 1..m : IsClass(place[i])})
           kth(k)  == CHOOSE i \in 1..Len(place) : IsClass(place[i]) /\ upto(i) = k
<1>1. ASSUME NEW m \in 0..q PROVE upto(m) = m
  <2>1. {i \in 1..m : IsClass(place[i])} = 1..m
    BY <1>1
  <2>2. Cardinality(1..m) = m
    BY <1>1, FS_Interval
  <2> QED
    BY <2>1, <2>2, Zenon
<1>2. upto(n) = q
  <2>1. {i \in 1..n : IsClass(place[i])} = 1..q
    OBVIOUS
  <2>2. Cardinality(1..q) = q
    BY FS_Interval
  <2> QED
    BY <2>1, <2>2, Zenon
<1>3. Classes(place) = [k \in 1..upto(n) |-> place[kth(k)].name]
  BY DEF Classes
<1> HIDE DEF upto
<1>4. ASSUME NEW k \in 1..q PROVE kth(k) = k
  <2>1. k \in 1..n /\ IsClass(place[k]) /\ upto(k) = k
    BY <1>1, <1>4
  <2>2. \A i \in 1..n : IsClass(place[i]) /\ upto(i) = k => i = k
    <3> SUFFICES ASSUME NEW i \in 1..n, IsClass(place[i]), upto(i) = k PROVE i = k
      OBVIOUS
    <3>1. i \in 0..q
      OBVIOUS
    <3> QED
      BY <3>1, <1>1
  <2> QED
    BY <2>1, <2>2
<1> HIDE DEF kth
<1> QED
  BY <1>2, <1>3, <1>4

LEMMA ClassesAreSeq ==
  ASSUME NEW place, Len(place) \in Nat
  PROVE  Classes(place) \in Seq({Classes(place)[k] : k \in DOMAIN Classes(place)})
<1> DEFINE all == {i \in 1..Len(place) : IsClass(place[i])}
           kth(k) == CHOOSE i \in 1..Len(place) : IsClass(place[i]) /\
                       Cardinality({j \in 1..i : IsClass(place[j])}) = k
<1>1. Cardinality(all) \in Nat
  <2>1. IsFiniteSet(1..Len(place))
    BY FS_Interval
  <2>2. IsFiniteSet(all)
    BY <2>1, FS_Subset
  <2> QED
    BY <2>2, FS_CardinalityType
<1>2. Classes(place) = [k \in 1..Cardinality(all) |-> place[kth(k)].name]
  BY DEF Classes
<1> HIDE DEF all, kth
<1> QED
  BY <1>1, <1>2

LEMMA PlaceFacts ==
  ASSUME NEW place \in Place(STRING), place # <<>>
  PROVE  /\ Len(place) \in Nat \ {0}
         /\ place \in Seq(Part)
         /\ Outer(place) \in Seq(Part) /\ Len(Outer(place)) = Len(place) - 1
         /\ \A i \in 1..(Len(place) - 1) : Outer(place)[i] = place[i]
<1>1. place \in Seq(Part)
  BY DEF Place, Part
<1>2. Len(place) \in Nat \ {0}
  BY <1>1
<1>3. Outer(place) \in Seq(Part) /\ Len(Outer(place)) = Len(place) - 1
  <2> DEFINE n == Len(place) - 1
  <2>1. n \in Nat /\ n <= Len(place)
    BY <1>2
  <2> HIDE DEF n
  <2>2. \A i \in 1..n : place[i] \in Part
    BY <1>1, <2>1
  <2>3. SubSeq(place, 1, n) \in Seq(Part) /\ Len(SubSeq(place, 1, n)) = n
    BY <1>1, <2>1, <2>2
  <2> QED
    BY <2>3 DEF Outer, n
<1>4. \A i \in 1..(Len(place) - 1) : Outer(place)[i] = place[i]
  BY <1>1, <1>2 DEF Outer
<1> QED
  BY <1>1, <1>2, <1>3, <1>4

(* A name ends with the name of the declaration itself.                     *)
LEMMA NameEnds ==
  ASSUME NEW place \in Place(STRING), place # <<>>
  PROVE  /\ Len(DefName(place)) \in Nat \ {0}
         /\ DefName(place)[Len(DefName(place))] = Inner(place).name
<1> DEFINE classes == Classes(Outer(place))
           name == Inner(place).name
<1>0. classes \in Seq({classes[k] : k \in DOMAIN classes})
  <2>1. Len(Outer(place)) \in Nat
    BY PlaceFacts
  <2> QED
    BY <2>1, ClassesAreSeq
<1>1. PICK S : classes \in Seq(S)
  BY <1>0
<1>2. DefName(place) = classes \o <<name>>
  BY DEF DefName
<1> HIDE DEF classes, name
<1>3. Len(classes \o <<name>>) = Len(classes) + 1 /\ (classes \o <<name>>)[Len(classes) + 1] = name
      /\ Len(classes) \in Nat
  BY <1>1
<1> QED
  BY <1>2, <1>3 DEF name

(* Outside functions the name is that of every part.                        *)
LEMMA PlainName ==
  ASSUME NEW place \in Place(STRING), place # <<>>, ~InFunction(place)
  PROVE  /\ Classes(Outer(place)) = [k \in 1..(Len(place) - 1) |-> place[k].name]
         /\ DefName(place) = NamesOf(place)
         /\ IsClass(Inner(place)) => Classes(place) = NamesOf(place)
<1>1. Len(place) \in Nat \ {0} /\ \A i \in 1..(Len(place) - 1) : IsClass(place[i])
  BY PlaceFacts DEF InFunction
<1>2. Classes(Outer(place)) = [k \in 1..(Len(place) - 1) |-> place[k].name]
  <2>1. /\ Len(Outer(place)) = Len(place) - 1
        /\ \A i \in 1..(Len(place) - 1) : Outer(place)[i] = place[i]
    BY PlaceFacts
  <2> DEFINE outer == Outer(place)
             n == Len(place) - 1
  <2>3. /\ n \in Nat /\ Len(outer) = n /\ n \in 0..n
        /\ \A i \in 1..n : IsClass(outer[i])
        /\ \A i \in (n + 1)..n : ~IsClass(outer[i])
    BY <1>1, <2>1
  <2> HIDE DEF outer, n
  <2>4. Classes(outer) = [k \in 1..n |-> outer[k].name]
    BY <2>3, LeadingClasses
  <2>2. Classes(Outer(place)) = [k \in 1..(Len(place) - 1) |-> Outer(place)[k].name]
    BY <2>4 DEF outer, n
  <2> QED
    BY <2>1, <2>2
<1>3. DefName(place) = NamesOf(place)
  <2> DEFINE n == Len(place) - 1
             front == [k \in 1..n |-> place[k].name]
             name == place[n + 1].name
  <2>1. DefName(place) = front \o <<name>>
    BY <1>1, <1>2 DEF DefName, Inner
  <2>2. front \in Seq({front[k] : k \in 1..n}) /\ Len(front) = n
    BY <1>1
  <2>3. \A k \in 1..n : front[k] = place[k].name
    OBVIOUS
  <2>4. n \in Nat
    BY <1>1
  <2>6. NamesOf(place) = [k \in 1..(n + 1) |-> place[k].name]
    BY <1>1 DEF NamesOf
  <2> HIDE DEF front, n
  <2>5. front \o <<name>> = [k \in 1..(n + 1) |-> IF k <= n THEN front[k] ELSE name]
    BY <2>2, <2>4
  <2> QED
    BY <2>1, <2>3, <2>4, <2>5, <2>6
<1>4. ASSUME IsClass(Inner(place)) PROVE Classes(place) = NamesOf(place)
  <2>1. \A i \in 1..Len(place) : IsClass(place[i])
    BY <1>1, <1>4 DEF Inner
  <2>2. Classes(place) = [k \in 1..Len(place) |-> place[k].name]
    BY <1>1, <2>1, LeadingClasses
  <2> QED
    BY <2>2 DEF NamesOf
<1> QED
  BY <1>2, <1>3, <1>4
-----------------------------------------------------------------------------
LEMMA DoneResolved ==
  ASSUME Inv, Resolved, Done
  PROVE  /\ \A l \in {"CALLS", "EXTENDS_", "IMPLEMENTS", "INJECTS", "PERSISTS_TO"} :
              edges[l] = rows[l]
         /\ CallsResolved /\ HeritageResolved /\ InjectionsResolved /\ TablesResolved
         /\ InjectRows
<1>1. \A l \in {"CALLS", "EXTENDS_", "IMPLEMENTS", "INJECTS", "PERSISTS_TO"} : edges[l] = rows[l]
  BY DoneStored, LabelFacts DEF Landed, RowEnds
<1> QED
  BY <1>1, DoneStored DEF Resolved, Done, Finishing

(* What a bare name stands for is an edge from every caller in the graph.   *)
LEMMA BareCallsAreEdges ==
  ASSUME Inv, Resolved, Done, NEW c \in repo.bare, NEW e \in BareCallees(repo, c),
         Caller(c) \in Symbols(repo)
  PROVE  Edge(Caller(c), e.to, e.conf) \in edges["CALLS"]
<1> DEFINE row == Edge(Caller(c), e.to, e.conf)
<1>1. row \in Call(c, BareCallees(repo, c))
  BY DEF Call, Caller
<1>2. row.from = Caller(c) /\ row.to = e.to
  BY DEF Edge
<1> HIDE DEF row
<1>3. row \in CallsOf(repo)
  BY <1>1 DEF CallsOf
<1>4. Joins(row)
  BY <1>2, BareFacts, DefsAreSymbols DEF Joins
<1>5. row \in rows["CALLS"]
  BY <1>3, <1>4, DoneResolved DEF CallsResolved, Resolves
<1> QED
  BY <1>5, DoneResolved DEF row

LEMMA PlainNames ==
  ASSUME NEW x, x.place \in Place(STRING), x.place # <<>>, ~InFunction(x.place),
         Language(x.file) = "python" \/ Len(x.place) = 1
  PROVE  /\ InjectorName(Language(x.file), x.place) = DefName(x.place)
         /\ IsClass(Inner(x.place)) => TypeName(Language(x.file), x.place) = DefName(x.place)
<1>1. /\ DefName(x.place) = NamesOf(x.place)
      /\ IsClass(Inner(x.place)) => Classes(x.place) = NamesOf(x.place)
  BY PlainName
<1>2. CASE Language(x.file) = "python"
  BY <1>1, <1>2 DEF InjectorName, TypeName
<1>3. CASE Len(x.place) = 1
  <2>1. NamesOf(x.place) = <<Inner(x.place).name>>
    BY <1>3 DEF NamesOf, Inner
  <2> QED
    BY <1>1, <2>1 DEF InjectorName, TypeName
<1> QED
  BY <1>2, <1>3

PlainSite(x) == /\ Here(x) \in Defs(repo) /\ ~InFunction(x.place)
                /\ Language(x.file) = "python" \/ Len(x.place) = 1

(* A parent of a plain child is a row, as is every implementer of a type.   *)
LEMMA PlainParents ==
  ASSUME TypeInv, Inv, Resolved, Done, NEW p \in repo.parents, PlainSite(p),
         NEW t \in Named(repo, p.file, p.name)
  PROVE  \E e \in edges[IF p.kind = "extends" THEN "EXTENDS_" ELSE "IMPLEMENTS"] :
            e.from = Here(p) /\ e.to = t.to
<1>1. p.place \in Place(STRING) /\ p.place # <<>> /\ IsClass(Inner(p.place))
      /\ p.kind \in {"extends", "implements"}
  BY RepoAssumption DEF TypeInv, Scalars
<1>2. TypeName(Language(p.file), p.place) = DefName(p.place)
  BY <1>1, PlainNames DEF PlainSite
<1> DEFINE row == ParentRow(p, t)
<1>3. row.from = Here(p) /\ row.to = t.to
  BY <1>2 DEF ParentRow, Edge, Here
<1>4. row \in ChildrenOf(repo, p.kind)
  BY DEF ChildrenOf
<1>5. Joins(row)
  BY <1>3, NamedSymbols, DefsAreSymbols DEF Joins, PlainSite
<1> HIDE DEF row
<1> QED
  BY <1>1, <1>3, <1>4, <1>5, DoneResolved DEF HeritageResolved, Resolves

LEMMA PlainInjections ==
  ASSUME TypeInv, Inv, Resolved, Done, NEW d \in repo.deps, PlainSite(d),
         NEW t \in Named(repo, d.file, d.name),
         Implementers(t.to) # {} => \E p \in Implementers(t.to) : PlainSite(p)
  PROVE  Linked(d, {"INJECTS"})
<1>1. d.place \in Place(STRING) /\ d.place # <<>>
  BY RepoAssumption DEF TypeInv, Scalars
<1>2. Injector(d) = Here(d) /\ Here(d) \in Symbols(repo)
  BY <1>1, PlainNames, DefsAreSymbols DEF PlainSite, Injector, Here
<1>3. CASE Implementers(t.to) = {}
  <2>1. ASSUME NEW f \in ChildrenOf(repo, "implements") PROVE f.to # t.to
    <3>1. PICK p \in {q \in repo.parents : q.kind = "implements"} :
            \E u \in Named(repo, p.file, p.name) : f = ParentRow(p, u)
      BY <2>1 DEF ChildrenOf
    <3>2. PICK u \in Named(repo, p.file, p.name) : f = ParentRow(p, u)
      BY <3>1
    <3>3. f.to = u.to
      BY <3>2 DEF ParentRow, Edge
    <3>4. u.to # t.to
      BY <1>3, <3>1 DEF Implementers
    <3> QED
      BY <3>3, <3>4
  <2>2. \E e \in rows["INJECTS"] : e.from = Injector(d) /\ e.to = t.to
    BY <1>2, <2>1, DoneResolved DEF InjectionsResolved
  <2> QED
    BY <1>2, <2>2, DoneResolved DEF Linked
<1>4. CASE Implementers(t.to) # {}
  <2>1. PICK p \in Implementers(t.to) : PlainSite(p)
    BY <1>4
  <2>2. /\ p \in repo.parents /\ p.kind = "implements"
        /\ \E u \in Named(repo, p.file, p.name) : u.to = t.to
    BY DEF Implementers
  <2>3. PICK u \in Named(repo, p.file, p.name) : u.to = t.to
    BY <2>2
  <2>4. \E f \in edges["IMPLEMENTS"] : f.from = Here(p) /\ f.to = t.to
    BY <2>1, <2>2, <2>3, PlainParents
  <2>5. PICK f \in rows["IMPLEMENTS"] : f.from = Here(p) /\ f.to = t.to
    BY <2>4, DoneResolved
  <2>6. f.from \in Symbols(repo)
    BY <2>1, <2>5, DefsAreSymbols DEF PlainSite
  <2>7. \E e \in rows["INJECTS"] : Serves(e, d, t, f.from)
    BY <1>2, <2>5, <2>6, DoneResolved DEF InjectRows
  <2> QED
    BY <1>2, <2>7, DoneResolved DEF Linked, Serves
<1> QED
  BY <1>3, <1>4

LEMMA PlainTables ==
  ASSUME TypeInv, Inv, Resolved, Done, NEW m \in repo.models, PlainSite(m)
  PROVE  Linked(m, {"PERSISTS_TO"})
<1>1. m.place \in Place(STRING) /\ m.place # <<>> /\ IsClass(Inner(m.place))
  BY RepoAssumption DEF TypeInv, Scalars
<1>2. TypeName(Language(m.file), m.place) = DefName(m.place)
  BY <1>1, PlainNames DEF PlainSite
<1> DEFINE row == Edge(Symbol(m.file, TypeName(Language(m.file), m.place)), m.table, m.conf)
<1>3. row.from = Here(m) /\ row \in PersistsOf(repo)
  BY <1>2 DEF Edge, Here, PersistsOf
<1>4. row.from \in Symbols(repo)
  BY <1>3, DefsAreSymbols DEF PlainSite
<1> HIDE DEF row
<1> QED
  BY <1>3, <1>4, DoneResolved DEF TablesResolved, Linked

(* Parents, injected types and tables found at a plain place are on the     *)
(* symbol of that place (the names that inheritance.py, injection.py and    *)
(* persistence.py give to it are those of tags.py there).                  *)
THEOREM PlainSitesLinked == Spec => []PlainSitesAreLinked
<1>1. TypeInv /\ Inv /\ Resolved => PlainSitesAreLinked
  <2> SUFFICES ASSUME TypeInv, Inv, Resolved, Done PROVE PlainSitesAreLinked
    BY DEF PlainSitesAreLinked, SitesAreLinkedIf
  <2>1. \A p \in repo.parents : PlainSite(p) /\ Named(repo, p.file, p.name) # {} =>
          Linked(p, IF p.kind = "extends" THEN {"EXTENDS_"} ELSE {"IMPLEMENTS"})
    <3> SUFFICES ASSUME NEW p \in repo.parents, PlainSite(p), NEW t \in Named(repo, p.file, p.name)
                 PROVE  Linked(p, IF p.kind = "extends" THEN {"EXTENDS_"} ELSE {"IMPLEMENTS"})
      OBVIOUS
    <3> QED
      BY PlainParents DEF Linked
  <2>2. \A d \in repo.deps : \A t \in Named(repo, d.file, d.name) :
          /\ PlainSite(d)
          /\ Implementers(t.to) # {} => \E p \in Implementers(t.to) : PlainSite(p)
          => Linked(d, {"INJECTS"})
    BY PlainInjections
  <2>3. \A m \in repo.models : PlainSite(m) => Linked(m, {"PERSISTS_TO"})
    BY PlainTables
  <2> QED
    BY <2>1, <2>2, <2>3 DEF PlainSitesAreLinked, SitesAreLinkedIf, PlainSite
<1> QED
  BY <1>1, Invariant, ResolvedAlways, PTL
-----------------------------------------------------------------------------
LEMMA DefNameIsSeq ==
  ASSUME NEW place \in Place(STRING), place # <<>>
  PROVE  \E T : DefName(place) \in Seq(T)
<1>1. PICK S : Classes(Outer(place)) \in Seq(S)
  <2>1. Len(Outer(place)) \in Nat
    BY PlaceFacts
  <2> QED
    BY <2>1, ClassesAreSeq
<1> DEFINE classes == Classes(Outer(place))
           name == Inner(place).name
           T == S \union {name}
<1>2. classes \in Seq(T) /\ <<name>> \in Seq(T)
  <2>1. classes \in Seq(S)
    BY <1>1
  <2> HIDE DEF classes, name
  <2> QED
    BY <2>1
<1>3. classes \o <<name>> \in Seq(T)
  <2> HIDE DEF classes, name, T
  <2> QED
    BY <1>2
<1> QED
  BY <1>3 DEF DefName

LEMMA Extended ==
  ASSUME NEW T, NEW s \in Seq(T), NEW k \in 0..Len(s), NEW x
  PROVE  /\ Len(SubSeq(s, 1, k) \o <<x>>) = k + 1
         /\ (SubSeq(s, 1, k) \o <<x>>)[k + 1] = x
         /\ \A i \in 1..k : (SubSeq(s, 1, k) \o <<x>>)[i] = s[i]
<1> DEFINE front == SubSeq(s, 1, k)
<1>1. front \in Seq(T) /\ Len(front) = k /\ \A i \in 1..k : front[i] = s[i]
  <2>1. \A i \in 1..k : s[i] \in T
    OBVIOUS
  <2> QED
    BY <2>1
<1> HIDE DEF front
<1>2. /\ Len(front \o <<x>>) = k + 1
      /\ (front \o <<x>>)[k + 1] = x
      /\ \A i \in 1..k : (front \o <<x>>)[i] = front[i]
  BY <1>1
<1> QED
  BY <1>1, <1>2 DEF front

(* A symbol has the name of a declaration of its file as its last part.     *)
LEMMA DefsEnd ==
  ASSUME repo \in Repos, NEW s \in Defs(repo)
  PROVE  \E d \in repo.decls :
            /\ d.file = s.file /\ DefName(d.place) = s.name
            /\ d.place \in Place(STRING) /\ d.place # <<>>
            /\ Len(s.name) \in Nat \ {0} /\ s.name[Len(s.name)] = Inner(d.place).name
            /\ Inner(d.place).name # "*"
<1>1. PICK d \in repo.decls : s = Symbol(d.file, DefName(d.place))
  BY DEF Defs
<1>2. d.place \in Place(STRING) /\ d.place # <<>> /\ Inner(d.place).name # "*"
  BY RepoAssumption
<1>3. s.file = d.file /\ s.name = DefName(d.place)
  BY <1>1 DEF Symbol
<1> QED
  BY <1>2, <1>3, NameEnds

(* The names a bare name is looked up as in its file.                       *)
Depth(c) == IF ScopeName(c.place) = <<>> THEN 0 ELSE Len(ScopeName(c.place)) - 1
NameAt(c, k) == Symbol(c.file, SubSeq(ScopeName(c.place), 1, k) \o <<c.name>>)

LEMMA ScopeFacts ==
  ASSUME NEW place \in Place(STRING)
  PROVE  /\ \E T : ScopeName(place) \in Seq(T)
         /\ place # <<>> => ScopeName(place) = DefName(place) /\ ScopeName(place) # <<>>
         /\ Len(ScopeName(place)) \in Nat
<1>1. CASE place = <<>>
  BY <1>1 DEF ScopeName
<1>2. CASE place # <<>>
  <2>1. PICK T : DefName(place) \in Seq(T)
    BY <1>2, DefNameIsSeq
  <2>2. Len(DefName(place)) # 0
    BY <1>2, NameEnds
  <2>3. ScopeName(place) = DefName(place)
    BY <1>2 DEF ScopeName
  <2> QED
    BY <2>1, <2>2, <2>3
<1> QED
  BY <1>1, <1>2

LEMMA NameAtFacts ==
  ASSUME NEW c, c.place \in Place(STRING), NEW k \in 0..Depth(c)
  PROVE  /\ NameAt(c, k).file = c.file
         /\ Len(NameAt(c, k).name) = k + 1
         /\ NameAt(c, k).name[k + 1] = c.name
         /\ \A i \in 1..k : NameAt(c, k).name[i] = ScopeName(c.place)[i]
<1>1. PICK T : ScopeName(c.place) \in Seq(T)
  BY ScopeFacts
<1> DEFINE scope == ScopeName(c.place)
<1>2. k \in 0..Len(scope)
  BY <1>1 DEF Depth
<1>3. scope \in Seq(T)
  BY <1>1
<1>4. NameAt(c, k).file = c.file /\ NameAt(c, k).name = SubSeq(scope, 1, k) \o <<c.name>>
  BY DEF NameAt, Symbol
<1> HIDE DEF scope
<1>5. /\ Len(SubSeq(scope, 1, k) \o <<c.name>>) = k + 1
      /\ (SubSeq(scope, 1, k) \o <<c.name>>)[k + 1] = c.name
      /\ \A i \in 1..k : (SubSeq(scope, 1, k) \o <<c.name>>)[i] = scope[i]
  BY <1>2, <1>3, Extended
<1> QED
  BY <1>4, <1>5 DEF scope

LEMMA SameFileAt ==
  ASSUME NEW r, NEW c
  PROVE  /\ \A s \in SameFile(r, c) : \E k \in 0..Depth(c) : s = NameAt(c, k) /\ s \in Defs(r)
         /\ \A k \in 0..Depth(c) : NameAt(c, k) \in Defs(r) /\
              (\A j \in 0..Depth(c) : NameAt(c, j) \in Defs(r) => j <= k) =>
              NameAt(c, k) \in SameFile(r, c)
<1> DEFINE depth == {k \in 0..Depth(c) : NameAt(c, k) \in Defs(r)}
<1>1. SameFile(r, c) = {NameAt(c, k) : k \in {d \in depth : \A e \in depth : e <= d}}
  BY Zenon DEF SameFile, Depth, NameAt
<1> QED
  BY <1>1

LEMMA NoSameFile ==
  ASSUME repo \in Repos, NEW c, c.place \in Place(STRING),
         \A d \in repo.decls : d.file = c.file => Inner(d.place).name # c.name
  PROVE  SameFile(repo, c) = {}
<1> SUFFICES ASSUME NEW s \in SameFile(repo, c) PROVE FALSE
  OBVIOUS
<1>1. PICK k \in 0..Depth(c) : s = NameAt(c, k) /\ s \in Defs(repo)
  BY SameFileAt
<1>2. s.file = c.file /\ Len(s.name) = k + 1 /\ s.name[k + 1] = c.name
  BY <1>1, NameAtFacts
<1>3. PICK d \in repo.decls : d.file = s.file /\ s.name[Len(s.name)] = Inner(d.place).name
  BY <1>1, DefsEnd
<1> QED
  BY <1>2, <1>3

(* What an import brings is never AMBIGUOUS, and is the same for two calls   *)
(* of a name in a file.                                                    *)
LEMMA BroughtSure ==
  ASSUME NEW r, NEW c, NEW e \in Imported(r, c)
  PROVE  Sure(e)
<1>1. PICK i \in ImportsOf(r, c.file) : e \in Brought(r, r.imports[i], c.name)
  BY DEF Imported
<1> DEFINE imp == r.imports[i]
           conf == IF imp.reexport THEN "INFERRED" ELSE "EXTRACTED"
<1>2. CASE Bound(imp, c.name) # {}
  <2>1. e \in To(Found(r, imp, {n.name : n \in Bound(imp, c.name)}), conf)
    BY <1>1, <1>2 DEF Brought
  <2>2. e.conf = conf
    BY <2>1, InTo
  <2> QED
    BY <2>2 DEF Sure
<1>3. CASE Bound(imp, c.name) = {}
  <2>1. e \in To(Found(r, imp, {c.name}), "INFERRED")
    BY <1>1, <1>3 DEF Brought
  <2>2. e.conf = "INFERRED"
    BY <2>1, InTo
  <2> QED
    BY <2>2 DEF Sure
<1> QED
  BY <1>2, <1>3

LEMMA InFound ==
  ASSUME NEW r, NEW imp, NEW names, NEW m \in names, NEW t \in Target(r.files, imp),
         Symbol(t, <<m>>) \in Defs(r)
  PROVE  Symbol(t, <<m>>) \in Found(r, imp, names)
BY SMT DEF Found

LEMMA OneIsNotTwo == ASSUME NEW a, NEW b, NEW c PROVE <<a>> # <<b, c>>
<1>1. Len(<<a>>) = 1 /\ Len(<<b, c>>) = 2
  OBVIOUS
<1> QED
  BY <1>1

(* An imported name is brought by its import.                               *)
LEMMA NamesAreBrought ==
  ASSUME repo \in Repos, NEW c, NEW i \in ImportsOf(repo, c.file),
         NEW n \in repo.imports[i].names, NEW t \in Target(repo.files, repo.imports[i]),
         Symbol(t, <<n.name>>) \in Defs(repo),
         c.name = IF n.alias = "" THEN n.name ELSE n.alias
  PROVE  \E e \in Imported(repo, c) : e.to = Symbol(t, <<n.name>>)
<1> DEFINE imp == repo.imports[i]
           names == {m.name : m \in Bound(imp, c.name)}
           conf == IF imp.reexport THEN "INFERRED" ELSE "EXTRACTED"
           target == Symbol(t, <<n.name>>)
           e == [to |-> target, conf |-> conf]
<1>1. n.name # "*"
  <2>1. PICK d \in repo.decls :
          /\ target.name[Len(target.name)] = Inner(d.place).name
          /\ Inner(d.place).name # "*"
    BY DefsEnd
  <2>2. target.name = <<n.name>>
    BY DEF Symbol
  <2>3. Len(<<n.name>>) = 1 /\ <<n.name>>[1] = n.name
    OBVIOUS
  <2> HIDE DEF target
  <2>4. Len(target.name) = 1 /\ target.name[1] = n.name
    BY <2>2, <2>3, Zenon
  <2> QED
    BY <2>1, <2>4
<1>2. n \in Bound(imp, c.name)
  BY <1>1 DEF Bound
<1>3. target \in Found(repo, imp, names)
  <2>1. n.name \in names
    BY <1>2
  <2> HIDE DEF names
  <2> QED
    BY <2>1, InFound
<1>4. e \in To(Found(repo, imp, names), conf)
  BY <1>3 DEF To
<1>5. e \in Brought(repo, imp, c.name)
  BY <1>2, <1>4 DEF Brought
<1>6. e.to = target
  OBVIOUS
<1> HIDE DEF e
<1>7. e \in Imported(repo, c)
  BY <1>5 DEF Imported
<1> QED
  BY <1>6, <1>7

(* An AMBIGUOUS call by bare name has no import that names it, and one on a  *)
(* receiver is of a member.                                                *)
LEMMA UnsureBare ==
  ASSUME NEW r, NEW c, NEW e \in BareCallees(r, c), ~Sure(e)
  PROVE  Imported(r, c) = {} /\ e.to.name = <<c.name>>
<1>1. SameFile(r, c) = {}
  <2> SUFFICES ASSUME SameFile(r, c) # {} PROVE FALSE
    OBVIOUS
  <2>1. e.conf = "EXTRACTED"
    BY InTo DEF BareCallees
  <2> QED
    BY <2>1 DEF Sure
<1>2. Imported(r, c) = {}
  BY <1>1, BroughtSure DEF BareCallees
<1>3. e.to \in Elsewhere(r, c)
  BY <1>1, <1>2, InTo DEF BareCallees
<1> QED
  BY <1>2, <1>3 DEF Elsewhere

LEMMA UnsureDotted ==
  ASSUME NEW r, NEW c, NEW e \in ReceiverCallees(r, c), ~Sure(e)
  PROVE  e.to.name = <<c.receiver, c.name>>
<1> DEFINE own == Symbol(c.file, Outer(ScopeName(c.place)) \o <<c.name>>)
           member == <<c.receiver, c.name>>
           here == Symbol(c.file, member)
           owners == {s \in Defs(r) : s.file # c.file /\ s.name = member /\
                                      Language(s.file) = Language(c.file)}
           through == {i \in ImportsOf(r, c.file) :
                         Aliased(r.imports[i], c.receiver) /\
                         \E t \in Target(r.files, r.imports[i]) : Symbol(t, <<c.name>>) \in Defs(r)}
           first == {i \in through : \A j \in through : i <= j}
           called == {Symbol(t, <<c.name>>) :
                        t \in UNION {Target(r.files, r.imports[i]) : i \in first}}
           conf == IF \E s \in owners : owners = {s} THEN "INFERRED" ELSE "AMBIGUOUS"
<1>1. e \in To({own}, "INFERRED") \/ e \in To({here}, "INFERRED") \/
      e \in To(owners, conf) \/ e \in To(called, "INFERRED")
  BY DEF ReceiverCallees
<1>2. \A S : e \notin To(S, "INFERRED")
  BY InTo DEF Sure
<1>3. e.to \in owners
  <2>1. e \in To(owners, conf)
    BY <1>1, <1>2
  <2> HIDE DEF owners, conf
  <2> QED
    BY <2>1, InTo
<1> QED
  BY <1>3

(* An import that names what is called decides, and the coincidences of its *)
(* name are not listed.                                                    *)
LEMMA ImportDecides ==
  ASSUME TypeInv, Inv, Resolved, Done, NEW c \in repo.bare, NEW i \in ImportsOf(repo, c.file),
         NEW n \in repo.imports[i].names, NEW t \in Target(repo.files, repo.imports[i]),
         Caller(c) \in Symbols(repo), Symbol(t, <<n.name>>) \in Defs(repo),
         c.name = IF n.alias = "" THEN n.name ELSE n.alias,
         \A d \in repo.decls : d.file = c.file => Inner(d.place).name # c.name
  PROVE  /\ \E e \in edges["CALLS"] :
              e.from = Caller(c) /\ e.to = Symbol(t, <<n.name>>) /\ Sure(e)
         /\ \A e \in edges["CALLS"] : e.from = Caller(c) /\ ~Sure(e) => e.to.name # <<c.name>>
<1>1. repo \in Repos /\ c.place \in Place(STRING)
  BY RepoAssumption DEF TypeInv, Scalars
<1>2. SameFile(repo, c) = {}
  BY <1>1, NoSameFile
<1>3. PICK f \in Imported(repo, c) : f.to = Symbol(t, <<n.name>>)
  BY <1>1, NamesAreBrought
<1>4. f \in BareCallees(repo, c) /\ Sure(f)
  BY <1>2, <1>3, BroughtSure DEF BareCallees
<1>5. \E e \in edges["CALLS"] : e.from = Caller(c) /\ e.to = Symbol(t, <<n.name>>) /\ Sure(e)
  <2> DEFINE row == Edge(Caller(c), f.to, f.conf)
  <2>1. row.from = Caller(c) /\ row.to = f.to /\ row.conf = f.conf
    BY DEF Edge
  <2>2. row \in edges["CALLS"]
    BY <1>4, BareCallsAreEdges
  <2> HIDE DEF row
  <2> QED
    BY <1>3, <1>4, <2>1, <2>2 DEF Sure
<1>6. ASSUME NEW e \in edges["CALLS"], e.from = Caller(c), ~Sure(e), e.to.name = <<c.name>>
      PROVE  FALSE
  <2>1. e \in CallsOf(repo)
    BY DoneResolved DEF CallsResolved, Resolves
  <2>2. ASSUME NEW b \in repo.bare, e \in Call(b, BareCallees(repo, b))
        PROVE  FALSE
    <3>1. PICK g \in BareCallees(repo, b) :
            e = Edge(Symbol(b.file, ScopeName(b.place)), g.to, g.conf)
      BY <2>2, CallFacts
    <3>2. /\ Symbol(b.file, ScopeName(b.place)) = Caller(c) /\ ~Sure(g)
          /\ g.to.name = <<c.name>>
      BY <1>6, <3>1 DEF Edge, Sure
    <3>3. b.file = c.file
      BY <3>2 DEF Caller, Symbol
    <3>4. Imported(repo, b) = {} /\ <<b.name>> = <<c.name>>
      BY <3>2, UnsureBare
    <3>5. b.name = c.name
      BY <3>4
    <3>6. Imported(repo, b) = Imported(repo, c)
      BY <3>3, <3>5 DEF Imported
    <3> QED
      BY <1>3, <3>4, <3>6
  <2>3. ASSUME NEW b \in repo.dotted, e \in Call(b, ReceiverCallees(repo, b))
        PROVE  FALSE
    <3>1. PICK g \in ReceiverCallees(repo, b) :
            e = Edge(Symbol(b.file, ScopeName(b.place)), g.to, g.conf)
      BY <2>3, CallFacts
    <3>2. ~Sure(g) /\ g.to.name = <<c.name>>
      BY <1>6, <3>1 DEF Edge, Sure
    <3>3. g.to.name = <<b.receiver, b.name>>
      BY <3>2, UnsureDotted
    <3> QED
      BY <3>2, <3>3, OneIsNotTwo, Zenon
  <2> QED
    BY <2>1, <2>2, <2>3, InCalls
<1> QED
  BY <1>5, <1>6

(* A call by bare name of what an import of the file names goes there, and  *)
(* no coincidence of the name is listed beside it (the ladder of            *)
(* resolve_calls), in every finished build of every repository.            *)
THEOREM ImportsDecideCalls == Spec => []ImportsDecide
<1>1. TypeInv /\ Inv /\ Resolved => ImportsDecide
  BY ImportDecides DEF ImportsDecide
<1> QED
  BY <1>1, Invariant, ResolvedAlways, PTL
-----------------------------------------------------------------------------
LEMMA LanguageFacts ==
  ASSUME NEW ext \in DOMAIN LanguageOf
  PROVE  /\ LanguageOf[ext] \in {"python", "typescript", "tsx", "javascript", "java", "rust",
                                 "go", "swift", "dart", "c"}
         /\ LanguageOf[ext] = "python" => ext \in {"py", "pyi"}
         /\ LanguageOf[ext] = "dart" => ext = "dart"
         /\ LanguageOf[ext] \in {"typescript", "tsx", "javascript"} =>
              \E i \in 1..6 : Scripts[i] = ext
BY DEF LanguageOf, Scripts

(* The file that an attempt asks for is the one an import means when no     *)
(* earlier attempt finds any.                                              *)
Hits(files, imp, i) == {n \in 1..Len(files) : \E ask \in Asks(imp)[i] : Fits(files[n], ask)}

LEMMA FirstHit ==
  ASSUME NEW files, NEW imp, Len(Asks(imp)) \in Nat, NEW j \in 1..Len(Asks(imp)),
         NEW m \in 1..Len(files), Hits(files, imp, j) = {m},
         \A i \in 1..(j - 1) : Hits(files, imp, i) = {}
  PROVE  Target(files, imp) = {files[m]}
<1> DEFINE tries    == {i \in 1..Len(Asks(imp)) : Hits(files, imp, i) # {}}
           least(S) == CHOOSE x \in S : \A y \in S : x <= y
<1>1. Target(files, imp) =
        IF tries = {} THEN {} ELSE {files[least(Hits(files, imp, least(tries)))]}
  BY Zenon DEF Target, Hits
<1>2. j \in tries /\ \A i \in tries : j <= i
  OBVIOUS
<1>3. \A i \in tries : i \in Nat
  OBVIOUS
<1> HIDE DEF tries
<1>4. \A x \in tries : (\A y \in tries : x <= y) => x = j
  BY <1>2, <1>3
<1>5. least(tries) = j
  BY <1>2, <1>4
<1>6. m \in Int
  OBVIOUS
<1>7. least({m}) = m
  BY <1>6
<1> HIDE DEF least
<1> QED
  BY <1>1, <1>2, <1>5, <1>7

LEMMA Split ==
  ASSUME NEW S, NEW path \in Seq(S), NEW k \in 0..Len(path)
  PROVE  SubSeq(path, 1, k) \o SubSeq(path, k + 1, Len(path)) = path
<1> DEFINE n == Len(path)
           front == SubSeq(path, 1, k)
           back == SubSeq(path, k + 1, n)
<1>1. n \in Nat /\ k \in 0..n /\ path = [i \in 1..n |-> path[i]] /\ \A i \in 1..n : path[i] \in S
  OBVIOUS
<1>2. front = [i \in 1..k |-> path[i]] /\ front \in Seq(S) /\ Len(front) = k
  BY <1>1
<1>3. back = [i \in 1..(n - k) |-> path[k + i]] /\ back \in Seq(S) /\ Len(back) = n - k
  BY <1>1
<1> HIDE DEF front, back, n
<1>4. front \o back = [i \in 1..(k + (n - k)) |-> IF i <= k THEN front[i] ELSE back[i - k]]
  BY <1>1, <1>2, <1>3
<1>5. k + (n - k) = n
  BY <1>1
<1>6. \A i \in 1..n : (IF i <= k THEN front[i] ELSE back[i - k]) = path[i]
  BY <1>1, <1>2, <1>3
<1>7. front \o back = [i \in 1..n |-> path[i]]
  BY <1>4, <1>5, <1>6
<1> QED
  BY <1>1, <1>7 DEF front, back, n

(* A list of six: the six script suffixes tried in their order.             *)
Six(s) == s = [i \in 1..6 |-> s[i]]

(* The first six attempts of twelve are those of the first list.            *)
LEMMA SixAndSix ==
  ASSUME NEW a, NEW b, Six(a), Six(b)
  PROVE  Len(a \o b) = 12 /\ \A i \in 1..6 : (a \o b)[i] = a[i]
<1>1. a = [i \in 1..6 |-> a[i]] /\ b = [i \in 1..6 |-> b[i]]
  BY Zenon DEF Six
<1>2. a \in Seq({a[i] : i \in 1..6}) /\ Len(a) = 6 /\ b \in Seq({b[i] : i \in 1..6}) /\ Len(b) = 6
  BY <1>1
<1> QED
  BY <1>1, <1>2

(* What an import written up from its directory and down again asks for.    *)
LEMMA BaseIs ==
  ASSUME NEW imp, NEW path \in Seq(STRING), NEW k \in Nat, k <= Len(path),
         imp.file.path \in Seq(STRING) \ {<<>>}, k <= Len(imp.file.path) - 1,
         SubSeq(path, 1, k) = SubSeq(imp.file.path, 1, k), imp.from = "here",
         imp.up = Len(Directory(imp.file)) - k, imp.rest = SubSeq(path, k + 1, Len(path))
  PROVE  Base(imp) = path
<1> DEFINE own == imp.file.path
           dir == Directory(imp.file)
           n == Len(own) - 1
<1>1. own \in Seq(STRING) /\ n \in Nat /\ n <= Len(own) /\ k <= n
  OBVIOUS
<1>2. dir = SubSeq(own, 1, n)
  BY DEF Directory
<1> HIDE DEF dir, own, n
<1>3. dir \in Seq(STRING) /\ Len(dir) = n /\ \A i \in 1..n : dir[i] = own[i]
  BY <1>1, <1>2
<1>4. Ancestor(dir, n - k) = SubSeq(dir, 1, k)
  BY <1>1, <1>3 DEF Ancestor
<1>5. SubSeq(dir, 1, k) = SubSeq(own, 1, k)
  BY <1>1, <1>3
<1>6. Base(imp) = SubSeq(path, 1, k) \o SubSeq(path, k + 1, Len(path))
  <2>1. Base(imp) = Ancestor(dir, imp.up) \o imp.rest
    BY DEF Base, dir
  <2>2. imp.up = n - k
    BY <1>3 DEF dir
  <2> QED
    BY <2>1, <2>2, <1>4, <1>5 DEF own
<1>7. k \in 0..Len(path)
  OBVIOUS
<1>8. SubSeq(path, 1, k) \o SubSeq(path, k + 1, Len(path)) = path
  BY <1>7, Split
<1> QED
  BY <1>6, <1>8, Zenon

LEMMA PythonAsksFirst ==
  ASSUME NEW imp, imp.from = "here", Language(imp.file) = "python"
  PROVE  Len(Asks(imp)) = 2 /\ Asks(imp)[1] = {At(Base(imp), "py")}
<1> DEFINE package == {At(Base(imp) \o <<"__init__">>, "py")}
           first == {At(Base(imp), "py")}
<1>1. Asks(imp) = <<first, package>> \o <<>>
  BY DEF Asks, PythonAsks
<1> HIDE DEF package, first
<1>2. <<first, package>> \o <<>> = <<first, package>>
  OBVIOUS
<1> QED
  BY <1>1, <1>2 DEF first

LEMMA OneAsk ==
  ASSUME NEW imp, imp.from = "here", Language(imp.file) \in {"c", "dart"}
  PROVE  Asks(imp) = <<{At(Base(imp), IF Language(imp.file) = "dart" /\ imp.ext = ""
                                      THEN "dart" ELSE imp.ext)}>>
BY DEF Asks, CAsks, DartAsks

LEMMA ScriptAsksFirst ==
  ASSUME NEW imp, imp.from = "here", imp.ext = "",
         Language(imp.file) \in {"typescript", "tsx", "javascript"}
  PROVE  Len(Asks(imp)) = 12 /\ \A i \in 1..6 : Asks(imp)[i] = {At(Base(imp), Scripts[i])}
<1> DEFINE front == [i \in 1..6 |-> {At(Base(imp), Scripts[i])}]
           back  == [i \in 1..6 |-> {At(Base(imp) \o <<"index">>, Scripts[i])}]
<1>1. Len(Scripts) = 6
  BY DEF Scripts
<1>2. Asks(imp) = [i \in 1..Len(Scripts) |-> {At(Base(imp), Scripts[i])}] \o
                  [i \in 1..Len(Scripts) |-> {At(Base(imp) \o <<"index">>, Scripts[i])}]
  BY DEF Asks, ScriptAsks
<1>3. Asks(imp) = front \o back
  BY <1>1, <1>2, Zenon
<1>4. \A i \in 1..6 : front[i] = {At(Base(imp), Scripts[i])}
  OBVIOUS
<1>5. Six(front) /\ Six(back)
  BY DEF Six
<1> HIDE DEF front, back
<1>6. Len(front \o back) = 12 /\ \A i \in 1..6 : (front \o back)[i] = front[i]
  BY <1>5, SixAndSix, Zenon
<1> QED
  BY <1>3, <1>4, <1>6

(* The attempt that finds a file, after attempts with another suffix.        *)
Tries(asks, base, ext) ==
    \E j \in 1..Len(asks) :
        /\ Len(asks) \in Nat
        /\ asks[j] = {At(base, ext)}
        /\ \A i \in 1..(j - 1) : \E other : other # ext /\ asks[i] = {At(base, other)}

LEMMA AskFirst ==
  ASSUME NEW asks, Len(asks) \in Nat \ {0}, NEW base, NEW ext, asks[1] = {At(base, ext)}
  PROVE  Tries(asks, base, ext)
<1>1. 1 \in 1..Len(asks) /\ 1..(1 - 1) = {}
  OBVIOUS
<1> QED
  BY <1>1 DEF Tries

LEMMA AskAmong ==
  ASSUME NEW asks, Len(asks) = 12, NEW base, NEW ext, NEW j \in 1..6, Scripts[j] = ext,
         \A i \in 1..6 : asks[i] = {At(base, Scripts[i])}
  PROVE  Tries(asks, base, ext)
<1>1. \A i \in 1..(j - 1) : Scripts[i] # Scripts[j]
  BY DEF Scripts
<1>2. \A i \in 1..(j - 1) : Scripts[i] # ext /\ asks[i] = {At(base, Scripts[i])}
  BY <1>1
<1>3. j \in 1..Len(asks) /\ asks[j] = {At(base, ext)}
  OBVIOUS
<1> QED
  BY <1>2, <1>3 DEF Tries

LEMMA PythonTries ==
  ASSUME NEW imp, imp.from = "here", Language(imp.file) = "python"
  PROVE  Tries(Asks(imp), Base(imp), "py")
<1> DEFINE asks == Asks(imp)
           base == Base(imp)
<1>1. Len(asks) \in Nat \ {0} /\ asks[1] = {At(base, "py")}
  BY PythonAsksFirst
<1> HIDE DEF asks, base
<1>2. Tries(asks, base, "py")
  BY <1>1, AskFirst
<1> QED
  BY <1>2 DEF asks, base

LEMMA Alone == ASSUME NEW x PROVE Len(<<x>>) \in Nat \ {0} /\ <<x>>[1] = x
<1>1. Len(<<x>>) = 1 /\ <<x>>[1] = x
  OBVIOUS
<1> QED
  BY <1>1

LEMMA OneTries ==
  ASSUME NEW imp, imp.from = "here", Language(imp.file) \in {"c", "dart"},
         NEW ext, (IF Language(imp.file) = "dart" /\ imp.ext = "" THEN "dart" ELSE imp.ext) = ext
  PROVE  Tries(Asks(imp), Base(imp), ext)
<1> DEFINE base == Base(imp)
           ask == {At(base, ext)}
<1>1. Asks(imp) = <<ask>>
  BY OneAsk
<1> HIDE DEF base, ask
<1>2. Len(<<ask>>) \in Nat \ {0} /\ <<ask>>[1] = ask
  BY Alone
<1>3. Tries(<<ask>>, base, ext)
  BY <1>2, AskFirst DEF ask
<1> QED
  BY <1>1, <1>3, Zenon DEF base

LEMMA RelativeAsks ==
  ASSUME NEW imp, imp.from = "here", NEW ext \in DOMAIN LanguageOf,
         Language(imp.file) = LanguageOf[ext], LanguageOf[ext] \notin {"java", "rust", "go", "swift"},
         ext # "pyi", imp.ext = IF LanguageOf[ext] = "c" THEN ext ELSE ""
  PROVE  Tries(Asks(imp), Base(imp), ext)
<1>1. CASE LanguageOf[ext] = "python"
  <2>1. ext = "py"
    BY <1>1, LanguageFacts
  <2> QED
    BY <1>1, <2>1, PythonTries
<1>2. CASE LanguageOf[ext] \in {"c", "dart"}
  <2>1. (IF Language(imp.file) = "dart" /\ imp.ext = "" THEN "dart" ELSE imp.ext) = ext
    BY <1>2, LanguageFacts
  <2> QED
    BY <1>2, <2>1, OneTries
<1>3. CASE LanguageOf[ext] \in {"typescript", "tsx", "javascript"}
  <2>1. PICK j \in 1..6 : Scripts[j] = ext
    BY <1>3, LanguageFacts
  <2>2. Len(Asks(imp)) = 12 /\ \A i \in 1..6 : Asks(imp)[i] = {At(Base(imp), Scripts[i])}
    BY <1>3, ScriptAsksFirst
  <2> QED
    BY <2>1, <2>2, AskAmong
<1> QED
  BY <1>1, <1>2, <1>3, LanguageFacts

LEMMA RelativeIsFound ==
  ASSUME repo \in Repos, NEW f \in Sources(repo), NEW g \in Sources(repo),
         NEW k \in 0..Len(Directory(g)), k <= Len(f.path), Language(f) = Language(g),
         Language(f) \notin {"java", "rust", "go", "swift"}, f.ext # "pyi",
         SubSeq(f.path, 1, k) = SubSeq(g.path, 1, k),
         \A h \in Sources(repo) : h.path = f.path => h = f
  PROVE  Target(repo.files,
                [file |-> g, from |-> "here", up |-> Len(Directory(g)) - k,
                 rest |-> SubSeq(f.path, k + 1, Len(f.path)),
                 ext |-> IF Language(f) = "c" THEN f.ext ELSE ""]) = {f}
<1> DEFINE imp == [file |-> g, from |-> "here", up |-> Len(Directory(g)) - k,
                   rest |-> SubSeq(f.path, k + 1, Len(f.path)),
                   ext |-> IF Language(f) = "c" THEN f.ext ELSE ""]
           files == repo.files
<1>1. /\ imp.file = g /\ imp.from = "here" /\ imp.up = Len(Directory(g)) - k
      /\ imp.rest = SubSeq(f.path, k + 1, Len(f.path))
      /\ imp.ext = IF Language(f) = "c" THEN f.ext ELSE ""
  OBVIOUS
<1>2. /\ f.path \in Seq(STRING) \ {<<>>} /\ f.ext \in DOMAIN LanguageOf
      /\ g.path \in Seq(STRING) \ {<<>>}
      /\ \A i, j \in 1..Len(files) : files[i] = files[j] => i = j
  BY RepoAssumption
<1> HIDE DEF imp, files
<1>3. k \in Nat /\ k <= Len(g.path) - 1
  BY <1>2 DEF Directory
<1>4. Base(imp) = f.path
  BY <1>1, <1>2, <1>3, BaseIs
<1>5. PICK j \in 1..Len(Asks(imp)) :
        /\ Len(Asks(imp)) \in Nat
        /\ Asks(imp)[j] = {At(f.path, f.ext)}
        /\ \A i \in 1..(j - 1) : \E other : other # f.ext /\ Asks(imp)[i] = {At(f.path, other)}
  <2>1. Language(g) = LanguageOf[f.ext] /\ Language(f) = LanguageOf[f.ext]
    BY DEF Language
  <2>2. Tries(Asks(imp), Base(imp), f.ext)
    BY <1>1, <1>2, <2>1, RelativeAsks
  <2> QED
    BY <1>4, <2>2 DEF Tries
<1>6. PICK m \in 1..Len(files) : f = files[m]
  BY DEF Sources, files
<1>7. \A n \in 1..Len(files) : \A ext :
        Fits(files[n], At(f.path, ext)) <=> files[n] = f /\ ext = f.ext
  BY DEF Fits, At, Sources, files
<1>8. Hits(files, imp, j) = {m}
  BY <1>2, <1>5, <1>6, <1>7 DEF Hits
<1>9. \A i \in 1..(j - 1) : Hits(files, imp, i) = {}
  BY <1>5, <1>7 DEF Hits
<1>11. Target(files, imp) = {files[m]}
  BY <1>5, <1>8, <1>9, FirstHit
<1> QED
  BY <1>6, <1>11 DEF imp, files

(* A relative import finds the file it walks to (_resolve_import_to_file),  *)
(* from any directory of any repository.                                   *)
THEOREM RelativeImports == Spec => []RelativeImportsAreFound
<1>1. TypeInv => RelativeImportsAreFound
  BY RelativeIsFound DEF RelativeImportsAreFound, TypeInv, Scalars
<1> QED
  BY <1>1, Typed, PTL
-----------------------------------------------------------------------------
LEMMA Least ==
  ASSUME NEW S \in SUBSET Nat, S # {}
  PROVE  \E k \in S : \A j \in S : k <= j
<1>1. PICK k \in S : \A j \in S : <<j, k>> \notin OpToRel(<, Nat)
  BY NatLessThanWellFounded, WFMin, Zenon
<1>2. \A j \in S : ~(j < k)
  BY <1>1 DEF OpToRel
<1> QED
  BY <1>2

LEMMA SameSeq ==
  ASSUME NEW S, NEW s \in Seq(S), NEW T, NEW t \in Seq(T), NEW n \in Nat,
         Len(s) = n, Len(t) = n, \A i \in 1..n : s[i] = t[i]
  PROVE  s = t
<1>1. s = [i \in 1..n |-> s[i]] /\ t = [i \in 1..n |-> t[i]]
  OBVIOUS
<1>2. [i \in 1..n |-> s[i]] = [i \in 1..n |-> t[i]]
  OBVIOUS
<1> QED
  BY <1>1, <1>2

LEMMA ExtendedIsSeq ==
  ASSUME NEW T, NEW s \in Seq(T), NEW k \in 0..Len(s), NEW x
  PROVE  \E U : SubSeq(s, 1, k) \o <<x>> \in Seq(U)
<1> DEFINE front == SubSeq(s, 1, k)
           U == T \union {x}
<1>1. front \in Seq(T)
  <2>1. \A i \in 1..k : s[i] \in T
    OBVIOUS
  <2> QED
    BY <2>1
<1> HIDE DEF front
<1>2. front \in Seq(U) /\ <<x>> \in Seq(U)
  BY <1>1
<1> HIDE DEF U
<1>3. front \o <<x>> \in Seq(U)
  BY <1>2
<1> QED
  BY <1>3 DEF front

(* Where a class is not inside a function the parts around a call are       *)
(* classes, and inside them functions.                                     *)
LEMMA ClassesLead ==
  ASSUME NEW place \in Place(STRING), place # <<>>, ~InLocalClass(place)
  PROVE  \E q \in 0..(Len(place) - 1) :
            /\ \A i \in 1..q : IsClass(place[i])
            /\ \A i \in (q + 1)..(Len(place) - 1) : ~IsClass(place[i])
<1> DEFINE n == Len(place)
           ends == {j \in 1..n : j = n \/ ~IsClass(place[j])}
<1>1. n \in Nat \ {0} /\ place \in Seq(Part)
  BY PlaceFacts
<1>2. n \in ends /\ ends \in SUBSET Nat
  BY <1>1
<1>3. PICK j \in ends : \A k \in ends : j <= k
  <2> HIDE DEF ends
  <2> QED
    BY <1>2, Least
<1>4. j - 1 \in 0..(n - 1) /\ \A i \in 1..(j - 1) : IsClass(place[i])
  BY <1>1, <1>3
<1>5. ASSUME NEW i \in ((j - 1) + 1)..(n - 1), IsClass(place[i])
      PROVE  FALSE
  <2>1. j < n /\ ~IsClass(place[j]) /\ j \in 1..i /\ j # i /\ i \in 1..n
    BY <1>1, <1>3, <1>5
  <2> DEFINE front == SubSeq(place, 1, i)
  <2>2. Len(front) = i /\ front[j] = place[j]
    BY <1>1, <2>1
  <2> HIDE DEF front
  <2>3. InFunction(front)
    BY <2>1, <2>2 DEF InFunction
  <2>4. InLocalClass(place)
    BY <1>5, <2>1, <2>3 DEF InLocalClass, front, n
  <2> QED
    BY <2>4
<1> QED
  BY <1>4, <1>5

(* Its classes are the names of those parts, in their order.                *)
LEMMA LedClasses ==
  ASSUME NEW place, Len(place) \in Nat, NEW q \in 0..Len(place), Led(place, q)
  PROVE  Classes(place) = [k \in 1..q |-> place[k].name]
<1> DEFINE n == Len(place)
<1>1. n \in Nat /\ q \in 0..n /\ Len(place) = n
  OBVIOUS
<1>2. (\A i \in 1..q : IsClass(place[i])) /\ \A i \in (q + 1)..n : ~IsClass(place[i])
  BY DEF Led
<1> HIDE DEF n
<1> QED
  BY <1>1, <1>2, LeadingClasses

(* The names around a call outside classes in functions.                    *)
LEMMA ScopeLeads ==
  ASSUME NEW place \in Place(STRING), place # <<>>,
         NEW q \in 0..(Len(place) - 1), \A i \in 1..q : IsClass(place[i]),
         \A i \in (q + 1)..(Len(place) - 1) : ~IsClass(place[i])
  PROVE  /\ Len(ScopeName(place)) = q + 1 /\ ScopeName(place) # <<>>
         /\ \A i \in 1..q : ScopeName(place)[i] = place[i].name
<1> DEFINE outer == Outer(place)
           n == Len(place) - 1
           classes == [k \in 1..q |-> place[k].name]
           name == Inner(place).name
<1>1. /\ n \in Nat /\ Len(outer) = n /\ q \in 0..n
      /\ \A i \in 1..n : outer[i] = place[i]
  BY PlaceFacts
<1>2. (\A i \in 1..q : IsClass(outer[i])) /\ \A i \in (q + 1)..n : ~IsClass(outer[i])
  BY <1>1
<1> HIDE DEF outer, n
<1>4. Classes(outer) = [k \in 1..q |-> outer[k].name]
  <2>1. Len(outer) \in Nat /\ q \in 0..Len(outer)
    BY <1>1
  <2>2. Led(outer, q)
    BY <1>1, <1>2 DEF Led
  <2> QED
    BY <2>1, <2>2, LedClasses
<1>5. Classes(outer) = classes
  BY <1>1, <1>4
<1>7. classes \in Seq({classes[k] : k \in 1..q}) /\ Len(classes) = q
      /\ \A i \in 1..q : classes[i] = place[i].name
  BY <1>1
<1> HIDE DEF classes, name
<1>6. ScopeName(place) = classes \o <<name>>
  BY <1>5 DEF ScopeName, DefName, outer, name
<1>8. /\ Len(classes \o <<name>>) = q + 1
      /\ \A i \in 1..q : (classes \o <<name>>)[i] = classes[i]
  BY <1>1, <1>7
<1>9. ScopeName(place) # <<>>
  BY ScopeFacts
<1> QED
  BY <1>6, <1>7, <1>8, <1>9

(* The name of a declaration outside functions, part by part.              *)
LEMMA PlainDefName ==
  ASSUME NEW place \in Place(STRING), place # <<>>, ~InFunction(place)
  PROVE  /\ Len(DefName(place)) = Len(place)
         /\ \A i \in 1..Len(place) : DefName(place)[i] = place[i].name
         /\ \E T : DefName(place) \in Seq(T)
         /\ \A i \in 1..(Len(place) - 1) : IsClass(place[i])
<1>1. Len(place) \in Nat \ {0} /\ DefName(place) = NamesOf(place)
  BY PlaceFacts, PlainName
<1>2. \A i \in 1..(Len(place) - 1) : IsClass(place[i])
  BY <1>1 DEF InFunction
<1>3. Len(NamesOf(place)) = Len(place) /\ \A i \in 1..Len(place) : NamesOf(place)[i] = place[i].name
  BY <1>1 DEF NamesOf
<1> QED
  BY <1>1, <1>2, <1>3, DefNameIsSeq

(* The name that is looked up on the level of a visible declaration.        *)
LEMMA AtLevel ==
  ASSUME NEW c, NEW d, c.place \in Place(STRING), d.place \in Place(STRING), d.place # <<>>,
         ~InFunction(d.place), d.file = c.file, Inner(d.place).name = c.name,
         Len(d.place) - 1 \in 0..Depth(c),
         \A i \in 1..(Len(d.place) - 1) : ScopeName(c.place)[i] = d.place[i].name
  PROVE  NameAt(c, Len(d.place) - 1) = Symbol(d.file, DefName(d.place))
<1> DEFINE m == Len(d.place) - 1
           s == NameAt(c, m).name
           t == DefName(d.place)
           scope == ScopeName(c.place)
<1>1. m \in 0..Depth(c) /\ m \in Nat /\ Len(d.place) = m + 1
  BY PlaceFacts
<1>2. Len(s) = m + 1 /\ s[m + 1] = c.name /\ \A i \in 1..m : s[i] = scope[i]
  BY <1>1, NameAtFacts
<1>3. PICK S : s \in Seq(S)
  <2>1. PICK T : scope \in Seq(T)
    BY ScopeFacts
  <2>2. m \in 0..Len(scope)
    BY <1>1, <2>1 DEF Depth
  <2>3. s = SubSeq(scope, 1, m) \o <<c.name>>
    BY DEF NameAt, Symbol
  <2> HIDE DEF s, scope, m
  <2> QED
    BY <2>1, <2>2, <2>3, ExtendedIsSeq
<1>4. PICK T : t \in Seq(T)
  BY DefNameIsSeq
<1>5. Len(t) = m + 1 /\ \A i \in 1..(m + 1) : t[i] = d.place[i].name
  BY <1>1, PlainDefName
<1>6. d.place[m + 1].name = c.name
  BY <1>1 DEF Inner
<1>7. \A i \in 1..m : scope[i] = d.place[i].name
  OBVIOUS
<1> HIDE DEF m, s, t, scope
<1>8. \A i \in 1..(m + 1) : s[i] = t[i]
  BY <1>1, <1>2, <1>5, <1>6, <1>7
<1>9. s = t
  <2>1. m + 1 \in Nat
    BY <1>1
  <2> QED
    BY <2>1, <1>2, <1>3, <1>4, <1>5, <1>8, SameSeq
<1>10. NameAt(c, m) = Symbol(c.file, s)
  BY DEF NameAt, Symbol, s
<1> QED
  BY <1>9, <1>10 DEF m, t

LEMMA LevelIsVisible ==
  ASSUME repo \in Repos, NEW c, c.place \in Place(STRING), NEW j \in 0..Depth(c),
         NameAt(c, j) \in Defs(repo), j <= Len(c.place),
         \A i \in 1..j : IsClass(c.place[i]) /\ ScopeName(c.place)[i] = c.place[i].name,
         \A e \in repo.decls : e.file = c.file /\ Inner(e.place).name = c.name =>
                               ~InFunction(e.place)
  PROVE  \E e \in Visible(c) : Len(e.place) = j + 1
<1> DEFINE s == NameAt(c, j)
<1>1. /\ s.file = c.file /\ Len(s.name) = j + 1 /\ s.name[j + 1] = c.name
      /\ \A i \in 1..j : s.name[i] = ScopeName(c.place)[i]
  BY NameAtFacts
<1>2. PICK e \in repo.decls :
        /\ e.file = s.file /\ DefName(e.place) = s.name
        /\ e.place \in Place(STRING) /\ e.place # <<>>
        /\ s.name[Len(s.name)] = Inner(e.place).name
  BY DefsEnd
<1> HIDE DEF s
<1>3. e.file = c.file /\ Inner(e.place).name = c.name /\ ~InFunction(e.place)
  BY <1>1, <1>2
<1>4. /\ Len(e.place) = j + 1
      /\ \A i \in 1..j : e.place[i].name = s.name[i] /\ IsClass(e.place[i])
  BY <1>1, <1>2, <1>3, PlainDefName
<1>5. \A i \in 1..j : e.place[i] = c.place[i]
  <2> SUFFICES ASSUME NEW i \in 1..j PROVE e.place[i] = c.place[i]
    OBVIOUS
  <2>1. e.place \in Seq(Part) /\ c.place \in Seq(Part)
    BY <1>2 DEF Place, Part
  <2>2. i \in 1..Len(e.place) /\ i \in 1..Len(c.place)
    BY <1>4, <2>1
  <2>3. e.place[i] \in Part /\ c.place[i] \in Part
    BY <2>1, <2>2
  <2>4. e.place[i].name = c.place[i].name /\ e.place[i].kind = c.place[i].kind
    BY <1>1, <1>4 DEF IsClass
  <2> QED
    BY <2>3, <2>4 DEF Part
<1>6. Outer(e.place) = SubSeq(c.place, 1, j)
  <2> DEFINE left == SubSeq(e.place, 1, j)
             right == SubSeq(c.place, 1, j)
  <2>1. e.place \in Seq(Part) /\ c.place \in Seq(Part) /\ j \in Nat /\ j <= Len(e.place)
    BY <1>2, <1>4 DEF Place, Part
  <2>2. left \in Seq(Part) /\ Len(left) = j /\ \A i \in 1..j : left[i] = e.place[i]
    <3>1. \A i \in 1..j : e.place[i] \in Part
      BY <2>1
    <3> QED
      BY <2>1, <3>1
  <2>3. right \in Seq(Part) /\ Len(right) = j /\ \A i \in 1..j : right[i] = c.place[i]
    <3>1. \A i \in 1..j : c.place[i] \in Part
      BY <2>1
    <3> QED
      BY <2>1, <3>1
  <2>4. Outer(e.place) = left
    BY <1>4, <2>1 DEF Outer
  <2> HIDE DEF left, right
  <2>5. left = right
    BY <1>5, <2>1, <2>2, <2>3, SameSeq
  <2> QED
    BY <2>4, <2>5 DEF right
<1>7. Len(e.place) <= Len(c.place) + 1
  <2>1. c.place \in Seq(Part)
    BY DEF Place, Part
  <2> QED
    BY <1>4, <2>1
<1>8. e \in Visible(c)
  BY <1>2, <1>3, <1>4, <1>6, <1>7 DEF Visible
<1> QED
  BY <1>4, <1>8

LEMMA Shadows ==
  ASSUME TypeInv, Inv, Resolved, Done, NEW c \in repo.bare, NEW d \in Innermost(c),
         Caller(c) \in Symbols(repo),
         \A e \in repo.decls : e.file = c.file /\ Inner(e.place).name = c.name =>
                               ~InFunction(e.place),
         ~InLocalClass(c.place), ~InOwnBody(c, d)
  PROVE  Edge(Caller(c), Symbol(d.file, DefName(d.place)), "EXTRACTED") \in edges["CALLS"]
<1>1. /\ repo \in Repos /\ c.place \in Place(STRING)
      /\ d \in repo.decls /\ d.place \in Place(STRING) /\ d.place # <<>>
  BY RepoAssumption DEF TypeInv, Scalars, Innermost, Visible
<1>2. /\ d.file = c.file /\ Inner(d.place).name = c.name /\ ~InFunction(d.place)
      /\ Len(d.place) <= Len(c.place) + 1
      /\ Outer(d.place) = SubSeq(c.place, 1, Len(d.place) - 1)
      /\ \A e \in Visible(c) : Len(e.place) <= Len(d.place)
  BY DEF Innermost, Visible
<1> DEFINE m == Len(d.place) - 1
           n == Len(c.place)
           scope == ScopeName(c.place)
<1>3. m \in Nat /\ n \in Nat /\ m <= n /\ Len(d.place) = m + 1
  <2>1. c.place \in Seq(Part)
    BY <1>1 DEF Place, Part
  <2>2. Len(d.place) \in Nat \ {0}
    BY <1>1, PlaceFacts
  <2> QED
    BY <1>2, <2>1, <2>2
<1>4. \A i \in 1..m : d.place[i] = c.place[i] /\ IsClass(d.place[i])
  <2>1. \A i \in 1..m : Outer(d.place)[i] = d.place[i]
    BY <1>1, PlaceFacts
  <2>2. \A i \in 1..m : IsClass(d.place[i])
    BY <1>1, <1>2, PlainDefName
  <2>3. \A i \in 1..m : SubSeq(c.place, 1, m)[i] = c.place[i]
    <3>1. c.place \in Seq(Part)
      BY <1>1 DEF Place, Part
    <3> QED
      BY <1>3, <3>1
  <2> QED
    BY <1>2, <2>1, <2>2, <2>3
(* The levels of the look-up are the classes around the call.               *)
<1>5. /\ Depth(c) \in Nat /\ m \in 0..Depth(c)
      /\ Depth(c) <= n
      /\ \A i \in 1..Depth(c) : IsClass(c.place[i]) /\ scope[i] = c.place[i].name
  <2>1. CASE c.place = <<>>
    <3>1. Depth(c) = 0 /\ n = 0
      BY <2>1 DEF Depth, ScopeName
    <3> HIDE DEF m, n, scope
    <3> QED
      BY <1>3, <3>1
  <2>2. CASE c.place # <<>>
    <3>1. PICK q \in 0..(n - 1) :
            /\ \A i \in 1..q : IsClass(c.place[i])
            /\ \A i \in (q + 1)..(n - 1) : ~IsClass(c.place[i])
      BY <1>1, <2>2, ClassesLead
    <3>2. /\ Len(scope) = q + 1 /\ scope # <<>>
          /\ \A i \in 1..q : scope[i] = c.place[i].name
      BY <1>1, <2>2, <3>1, ScopeLeads
    <3>3. Depth(c) = q
      BY <3>2 DEF Depth
    <3>4. m < n
      <4> SUFFICES ASSUME m = n PROVE FALSE
        BY <1>3
      <4>1. n # 0
        BY <1>1, <2>2, PlaceFacts
      <4>2. IsClass(c.place[n])
        BY <1>3, <1>4, <4>1
      <4>3. InOwnBody(c, d)
        BY <1>3, <2>2, <4>2 DEF InOwnBody, Inner
      <4> QED
        BY <4>3
    <3>5. m <= q
      <4> SUFFICES ASSUME m > q PROVE FALSE
        BY <1>3, <3>1
      <4>1. q + 1 \in 1..m /\ q + 1 \in (q + 1)..(n - 1)
        BY <1>3, <3>1, <3>4
      <4> QED
        BY <1>4, <3>1, <4>1
    <3> QED
      BY <1>3, <3>1, <3>2, <3>3, <3>5
  <2> QED
    BY <2>1, <2>2
<1>6. NameAt(c, m) = Symbol(d.file, DefName(d.place))
  <2>1. \A i \in 1..m : scope[i] = d.place[i].name
    <3>1. \A i \in 1..m : d.place[i] = c.place[i]
      BY <1>4
    <3> HIDE DEF m, scope
    <3> QED
      BY <1>3, <1>5, <3>1
  <2> QED
    BY <1>1, <1>2, <1>5, <2>1, AtLevel
<1>7. NameAt(c, m) \in Defs(repo)
  BY <1>1, <1>6 DEF Defs
<1>8. ASSUME NEW j \in 0..Depth(c), NameAt(c, j) \in Defs(repo) PROVE j <= m
  <2>1. j <= n /\ \A i \in 1..j : IsClass(c.place[i]) /\ scope[i] = c.place[i].name
    <3> HIDE DEF m, n, scope
    <3> QED
      BY <1>3, <1>5, <1>8
  <2>2. PICK e \in Visible(c) : Len(e.place) = j + 1
    BY <1>1, <1>8, <2>1, LevelIsVisible
  <2> QED
    BY <1>2, <1>3, <2>2
<1> DEFINE target == NameAt(c, m)
           e == [to |-> target, conf |-> "EXTRACTED"]
<1>9. target \in SameFile(repo, c)
  <2> HIDE DEF m
  <2> QED
    BY <1>5, <1>7, <1>8, SameFileAt
<1>10. e \in BareCallees(repo, c)
  <2> HIDE DEF target
  <2> QED
    BY <1>9 DEF BareCallees, To
<1>11. e.to = target /\ e.conf = "EXTRACTED"
  OBVIOUS
<1> HIDE DEF e, target
<1>12. Edge(Caller(c), e.to, e.conf) \in edges["CALLS"]
  BY <1>10, BareCallsAreEdges
<1> QED
  BY <1>6, <1>11, <1>12 DEF target

(* A call by bare name means the innermost declaration around it but for    *)
(* the three kinds of place that the look-up by qualified name cannot tell   *)
(* (_resolve_same_file), in every finished build of every repository.      *)
THEOREM NamesAreShadowed == Spec => []ShadowingHolds
<1>1. TypeInv /\ Inv /\ Resolved => ShadowingHolds
  BY Shadows DEF ShadowingHolds
<1> QED
  BY <1>1, Invariant, ResolvedAlways, PTL

(* The names of a finished build find what the rules of scope, import and   *)
(* injection say, and what was found at a plain place is on its symbol.    *)
THEOREM NamesLand == Spec => []NamesLandRight
<1>1. /\ ShadowingHolds /\ RelativeImportsAreFound /\ ImportsDecide
      /\ CandidatesAreInjected /\ InterfacesGiveWay /\ PlainSitesAreLinked
      => NamesLandRight
  BY DEF NamesLandRight
<1> QED
  BY <1>1, NamesAreShadowed, RelativeImports, ImportsDecideCalls, Candidates, GivesWay,
     PlainSitesLinked, PTL

=============================================================================
