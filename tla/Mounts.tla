------------------------------- MODULE Mounts -------------------------------
(***************************************************************************)
(* Routes hung on an object that is mounted elsewhere (contracts/http/     *)
(* providers/fastapi.py, flask.py, express.py). A file has objects - of a  *)
(* variable, whether it is an application or a router, and its prefix -,   *)
(* routes on objects, in order, and mounts of objects by name, under a     *)
(* prefix or none. Where the mounted object is declared nobody looks.      *)
(***************************************************************************)
EXTENDS HttpPaths

NoPrefix == <<"no prefix">>
Module   == "<module>"       \* the symbol of a file's own statements

Literal(prefix) == IF prefix \in {NoPrefix, Computed} THEN <<>> ELSE prefix

\* The verbs of a decorator: its name, or what Flask's `route' lists.
VerbsOf(framework, route) ==
    LET verbs == route.verbs \intersect HttpVerbs
    IN IF framework = "flask" /\ verbs = {} /\ route.listed THEN {"get"} ELSE verbs

\* A handler that Express is not given by name is the file itself.
HandlerOf(framework, file, route) ==
    <<file, IF framework = "express" /\ ~route.named THEN Module ELSE route.handler>>

\* Mutant: the last mount of a name counts.
MountedLast(files, name) ==
    LET last == {f \in DOMAIN files : \E m \in files[f].mounts : m.name = name}
    IN IF last = {} THEN {}
       ELSE {m.prefix : m \in {x \in files[Max(last)].mounts : x.name = name}}

\* mounts_by_name: of all files.
Mounted(files, name) ==
    {m.prefix : m \in {x \in UNION {files[f].mounts : f \in DOMAIN files} : x.name = name}}

\* Where the routes of an object are: an application's at its prefix, a router's at
\* each mount's and its own, a blueprint's at the mount's or else its own.
BasesOf(framework, files, object, name) ==
    LET mounted == Mounted(files, name)
    IN IF object.kind = "app" \/ mounted = {} THEN {Literal(object.prefix)}
       ELSE IF framework = "flask"
       THEN {IF p \in {NoPrefix, Computed} THEN Literal(object.prefix) ELSE p : p \in mounted}
       ELSE {Literal(p) \o Literal(object.prefix) : p \in mounted}

\* The contracts of one decorator, or of one call that declares a route.
RouteContracts(framework, files, f, route) ==
    IF route.path = Computed \/ route.object \notin DOMAIN files[f].objects THEN {}
    ELSE LET object == files[f].objects[route.object]
         IN UNION {Declared(verb, prefix \o route.path, HandlerOf(framework, f, route),
                            IF object.kind = "app" THEN "EXTRACTED" ELSE "INFERRED") :
                     verb \in VerbsOf(framework, route),
                     prefix \in BasesOf(framework, files, object, route.object)}

MountContracts(framework, files) ==
    Firsts(FlattenSeq([f \in 1..Len(files) |->
        [i \in 1..Len(files[f].routes) |->
            RouteContracts(framework, files, f, files[f].routes[i])]]))
=============================================================================
