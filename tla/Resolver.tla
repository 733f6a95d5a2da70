------------------------------ MODULE Resolver ------------------------------
(***************************************************************************)
(* What a name written in a file means (static/resolver.py): the ladders   *)
(* that resolve calls by bare name, calls on a receiver, and the names of  *)
(* parents and of injected types.  `r' is what the extractors found in a   *)
(* repository: files (a sequence, as the inventory lists them), decls (the *)
(* places of definitions), imports (a sequence); see GraphBuild for the    *)
(* rest.  A symbol is a file and a local qualified name.                   *)
(***************************************************************************)
EXTENDS ImportPaths, SymbolNames

Symbol(file, name) == [file |-> file, name |-> name]

(* The symbols of the definitions: defs_by_file, and def_groups of the      *)
(* build phase.                                                            *)
Defs(r) == {Symbol(d.file, DefName(d.place)) : d \in r.decls}

ImportsOf(r, file) == {i \in 1..Len(r.imports) : r.imports[i].file = file}
To(symbols, conf)  == [to : symbols, conf : {conf}]
-----------------------------------------------------------------------------
(* _resolve_same_file: the class around the call, innermost first, then the *)
(* top level.                                                              *)
SameFile(r, c) ==
    LET scope == ScopeName(c.place)
        at(k) == Symbol(c.file, SubSeq(scope, 1, k) \o <<c.name>>)
        depth == {k \in 0..(IF scope = <<>> THEN 0 ELSE Len(scope) - 1) : at(k) \in Defs(r)}
    IN {at(k) : k \in {d \in depth : \A e \in depth : e <= d}}

(* The imported name that a name refers to; an import binds a name once.    *)
Bound(imp, name) ==
    {n \in imp.names : n.name # "*" /\ (IF n.alias = "" THEN n.name ELSE n.alias) = name}
Starred(imp) == \E n \in imp.names : n.name = "*"

(* The top-level symbols of some names in the file that an import means.    *)
Found(r, imp, names) ==
    {Symbol(t, <<n>>) : t \in Target(r.files, imp), n \in names} \intersect Defs(r)

(* _resolve_via_imports: every import of the file that names the callee, or *)
(* may bring it into scope.                                                *)
Brought(r, imp, name) ==
    IF Bound(imp, name) # {}
    THEN To(Found(r, imp, {n.name : n \in Bound(imp, name)}),
            IF imp.reexport THEN "INFERRED" ELSE "EXTRACTED")
    ELSE IF Starred(imp) \/ imp.names = {}
    THEN To(Found(r, imp, {name}), "INFERRED")
    ELSE {}
Imported(r, c) == UNION {Brought(r, r.imports[i], c.name) : i \in ImportsOf(r, c.file)}

(* _resolve_cross_file_fallback: top-level symbols of the name elsewhere.   *)
Elsewhere(r, c) ==
    {s \in Defs(r) : s.file # c.file /\ Language(s.file) = Language(c.file) /\ s.name = <<c.name>>}

(* Mutant: the only candidate is taken for the callee.                      *)
BareCalleesOptimistic(r, c) ==
    IF SameFile(r, c) # {} THEN To(SameFile(r, c), "EXTRACTED")
    ELSE IF Imported(r, c) # {} THEN Imported(r, c)
    ELSE To(Elsewhere(r, c),
            IF \E s \in Elsewhere(r, c) : Elsewhere(r, c) = {s} THEN "INFERRED" ELSE "AMBIGUOUS")

(* resolve_calls, of one call by bare name.                                 *)
BareCallees(r, c) ==
    IF SameFile(r, c) # {} THEN To(SameFile(r, c), "EXTRACTED")
    ELSE IF Imported(r, c) # {} THEN Imported(r, c)
    ELSE To(Elsewhere(r, c), "AMBIGUOUS")
-----------------------------------------------------------------------------
(* _import_alias_matches: the alias or else, where the parts of a path are  *)
(* split by dots or slashes, the last of them.                             *)
Aliased(imp, name) ==
    IF imp.alias # "" THEN imp.alias = name
    ELSE /\ imp.rest # <<>> /\ Inner(imp.rest) = name
         /\ imp.ext = "" /\ Language(imp.file) # "rust"

(* _resolve_one_method: a call on self or this, on a type, or on a module.  *)
(* The receiver of a call on anything else is "".                          *)
ReceiverCallees(r, c) ==
    LET scope  == ScopeName(c.place)
        own    == Symbol(c.file, Outer(scope) \o <<c.name>>)
        member == <<c.receiver, c.name>>
        here   == Symbol(c.file, member)
        owners == {s \in Defs(r) : s.file # c.file /\ s.name = member /\
                                   Language(s.file) = Language(c.file)}
        through == {i \in ImportsOf(r, c.file) :
                      Aliased(r.imports[i], c.receiver) /\
                      \E t \in Target(r.files, r.imports[i]) : Symbol(t, <<c.name>>) \in Defs(r)}
        first  == {i \in through : \A j \in through : i <= j}
    IN IF c.receiver \in {"self", "this"}
       THEN IF Len(scope) > 1 /\ own \in Defs(r) THEN To({own}, "INFERRED") ELSE {}
       ELSE IF c.receiver = "" THEN {}
       ELSE IF here \in Defs(r) THEN To({here}, "INFERRED")
       ELSE IF owners # {}
       THEN To(owners, IF \E s \in owners : owners = {s} THEN "INFERRED" ELSE "AMBIGUOUS")
       ELSE To({Symbol(t, <<c.name>>) : t \in UNION {Target(r.files, r.imports[i]) : i \in first}},
               "INFERRED")
-----------------------------------------------------------------------------
(* resolve_name_to_files: the files whose top-level symbol a name is, and   *)
(* how sure that is.  An alias is looked up as it is.                       *)
NameFiles(r, file, name) ==
    LET declares(f) == Symbol(f, <<name>>) \in Defs(r)
        imported == {t \in UNION {Target(r.files, r.imports[i]) : i \in
                         {j \in ImportsOf(r, file) : \E n \in r.imports[j].names :
                              n.name = name \/ n.alias = name}} : declares(t)}
        others == {s.file : s \in {d \in Defs(r) : d.name = <<name>> /\ d.file # file /\
                                                   Language(d.file) = Language(file)}}
    IN IF declares(file) THEN [file : {file}, conf : {"EXTRACTED"}]
       ELSE IF imported # {} THEN [file : imported, conf : {"EXTRACTED"}]
       ELSE [file : others,
             conf : {IF \E f \in others : others = {f} THEN "INFERRED" ELSE "AMBIGUOUS"}]

(* The symbols that a name of a parent or of an injected type resolves to.  *)
Named(r, file, name) ==
    {[to |-> Symbol(f.file, <<name>>), conf |-> f.conf] : f \in NameFiles(r, file, name)}
=============================================================================
