------------------------------ MODULE UrlConfs ------------------------------
(***************************************************************************)
(* Django's URL configurations (contracts/http/providers/django.py): files *)
(* whose entries route a path to a view of another file or include another *)
(* configuration below a prefix. A repository has files, declarations and  *)
(* imports, as the Resolver takes them, `confs' from a file to its entries *)
(* and routers, and `actions', the extra methods of view sets.             *)
(***************************************************************************)
EXTENDS HttpPaths, Resolver

CbvMethods == {"get", "post", "put", "patch", "delete", "head", "options"}
DrfRoutes ==
    {<<verb, <<>>>> : verb \in {"get", "post"}}
    \union {<<verb, Param \o <<"/">>>> : verb \in {"get", "put", "patch", "delete"}}
RegexMarks == {"\\", "[", "]", "+", "*", "?", "^", "$", "{", "}", "|"}
Group == "(group)"     \* a group of a regular expression, named or not
NoView == [module |-> <<>>, member |-> ""]   \* a view that is no name: a lambda, or wrapped

\* _regex_to_path: anchors go, groups become parameters; clean when that is all.
RegexPath(rx) ==
    LET front == IF rx # <<>> /\ rx[1] = "^" THEN Tail(rx) ELSE rx
        bare  == IF front # <<>> /\ Inner(front) = "$" THEN Outer(front) ELSE front
    IN [path  |-> FlattenSeq([i \in 1..Len(bare) |-> IF bare[i] = Group THEN Param ELSE <<bare[i]>>]),
        clean |-> \A i \in 1..Len(bare) : bare[i] \notin RegexMarks]

\* An entry that is kept; what its path contributes.
Kept(entry) == entry.regex => RegexPath(entry.path).clean
Prefix(entry) == IF entry.regex THEN RegexPath(entry.path).path ELSE entry.path
Entries(conf) == SelectSeq(conf.entries, Kept)
-----------------------------------------------------------------------------
(* What names mean. A file that is not found is {}.                         *)
FirstFound(tries) ==
    LET hits == {i \in DOMAIN tries : tries[i] # {}}
    IN IF hits = {} THEN {} ELSE tries[Min(hits)]

\* _resolve_python_import of a dotted path from the top.
Absolute(r, file, parts) ==
    Target(r.files, [file |-> file, from |-> "root", up |-> 0, rest |-> parts, ext |-> "",
                     names |-> {}, alias |-> "", reexport |-> FALSE])

\* What a name that an import binds may be as a module, with the parts after it: an
\* imported submodule, or the imported module itself.
Modules(r, file, name, parts) ==
    FlattenSeq([i \in 1..Len(r.imports) |->
        LET imp == r.imports[i]
        IN IF imp.file # file THEN <<>>
           ELSE << UNION {Target(r.files, [imp EXCEPT !.rest = @ \o <<n.name>> \o parts, !.names = {},
                                                      !.alias = ""]) : n \in Bound(imp, name)} >>
                \o (IF parts = <<>> /\ Aliased(imp, name) THEN << Target(r.files, imp) >> ELSE <<>>)])

\* _resolve_var_to_module_file, _resolve_module_member.
VariableFile(r, file, name) == FirstFound(Modules(r, file, name, <<>>))
MemberFile(r, file, module, member) ==
    LET having(tries) == [i \in DOMAIN tries |-> {f \in tries[i] : Symbol(f, <<member>>) \in Defs(r)}]
    IN FirstFound(having(Append(Modules(r, file, module[1], Tail(module)), Absolute(r, file, module))))

\* _resolve_view: symbols and how sure they are.
Views(r, file, view) ==
    IF view.module = <<>> THEN Named(r, file, view.member)
    ELSE {[to |-> Symbol(f, <<view.member>>), conf |-> "EXTRACTED"]
            : f \in MemberFile(r, file, view.module, view.member)}

\* _build_cbv_verbs: the handlers of a class, "*" for a function.
ViewVerbs(r, symbol) ==
    LET verbs == {v \in CbvMethods : Symbol(symbol.file, symbol.name \o <<v>>) \in Defs(r)}
    IN IF verbs = {} THEN {"*"} ELSE verbs
-----------------------------------------------------------------------------
\* _emit_route: a view that is not found leaves the route without a handler.
RouteOf(r, file, entry, prefix) ==
    LET path  == prefix \o Prefix(entry)
        grade == IF entry.regex THEN "INFERRED" ELSE "EXTRACTED"
        shown(views) ==
            IF views = {} THEN Declared("*", path, Nowhere, grade)
            ELSE UNION {UNION {Declared(verb, path, v.to, Weaker(grade, v.conf))
                                 : verb \in ViewVerbs(r, v.to)} : v \in views}
    IN shown(Views(r, file, entry.view))

\* _emit_router: the six routes of each registered view set, and its actions.
RouterOf(r, file, name, prefix) ==
    IF name \notin DOMAIN r.confs[file].routers THEN <<>>
    ELSE LET router == r.confs[file].routers[name]
             grade  == IF router.standard THEN "EXTRACTED" ELSE "INFERRED"
             set(reg, found) ==
                LET views == IF found = {} THEN {[to |-> Nowhere, conf |-> grade]} ELSE found
                    below == prefix \o TrimRight(reg.prefix) \o <<"/">>
                    extra(v) == {a \in r.actions : v.to # Nowhere /\ Symbol(a.file, <<a.class>>) = v.to}
                    path(a) == below \o (IF a.detail THEN Param \o <<"/">> ELSE <<>>) \o <<a.name, "/">>
                IN UNION {UNION {Declared(d[1], below \o d[2], v.to, Weaker(grade, v.conf)) : d \in DrfRoutes}
                          \union UNION {UNION {Declared(verb, path(a), v.to, Weaker(grade, v.conf))
                                                 : verb \in a.verbs} : a \in extra(v)} : v \in views}
         IN [i \in 1..Len(router.regs) |->
                IF router.regs[i].prefix = <<>> \/ router.regs[i].view = NoView THEN {}
                ELSE set(router.regs[i], Views(r, file, router.regs[i].view))]

\* Where an entry leads: the configuration it includes.
IncludeTarget(r, file, entry) ==
    CASE entry.kind = "module" -> Absolute(r, file, entry.target)
      [] entry.kind = "variable" -> VariableFile(r, file, entry.target)
      [] OTHER -> {}

\* _Emitter.walk, as a sequence of sets of contracts; `visited' is of this path.
Walk(r) ==
    LET walk[file \in ToSet(r.files), prefix \in Seq(STRING), visited \in SUBSET ToSet(r.files)] ==
            LET into(entry, to) ==
                    LET below == prefix \o Prefix(entry)
                    IN IF entry.kind = "route"
                       THEN IF entry.view = NoView THEN <<>> ELSE <<RouteOf(r, file, entry, prefix)>>
                       ELSE IF to # {}
                       THEN walk[CHOOSE f \in to : TRUE, below, visited \union {file}]
                       ELSE IF entry.kind \in {"router", "variable"} THEN RouterOf(r, file, entry.target, below)
                       ELSE <<>>
                entries == Entries(r.confs[file])
            IN IF file \notin DOMAIN r.confs \/ file \in visited THEN <<>>
               ELSE FlattenSeq([i \in 1..Len(entries) |-> into(entries[i], IncludeTarget(r, file, entries[i]))])
    IN walk

\* Mutant: what a variable brings in is not included.
IncludedModules(r) ==
    UNION {UNION {IncludeTarget(r, f, e) : e \in {x \in ToSet(Entries(r.confs[f])) : x.kind = "module"}}
             : f \in DOMAIN r.confs}

\* _included_targets.
Included(r) ==
    UNION {UNION {IncludeTarget(r, f, e) : e \in ToSet(Entries(r.confs[f]))} : f \in DOMAIN r.confs}

\* The walk begins at every configuration that no other includes.
DjangoRoutes(r) ==
    Firsts(FlattenSeq([i \in 1..Len(r.files) |->
        IF r.files[i] \in DOMAIN r.confs \ Included(r) THEN Walk(r)[r.files[i], <<>>, {}] ELSE <<>>]))
=============================================================================
