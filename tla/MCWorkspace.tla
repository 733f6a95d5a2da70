---------------------------- MODULE MCWorkspace ----------------------------
(* Casts small enough to explore: extracts against each other, queries and shells *)
(* against an extract, registry updates, shims of two releases.                  *)
EXTENDS Workspace, TLC

\* e1 and e2 extract one repository with an old and a new release, e3 another, and e4
\* a third of the first one's name; t1 and t2 are threads of one server.
MCActors == {"e1", "e2", "e3", "e4", "t1", "t2", "s1", "p1"}
MCRole == [e1 |-> "extract", e2 |-> "extract", e3 |-> "extract", e4 |-> "extract", t1 |-> "call", t2 |-> "call",
           s1 |-> "shell", p1 |-> "prune"]
MCOsProcess == [e1 |-> 1, e2 |-> 2, e3 |-> 3, e4 |-> 7, t1 |-> 4, t2 |-> 4, s1 |-> 5, p1 |-> 6]
MCRepoOf == [a \in MCActors |-> CASE a = "e3" -> "web" [] a = "e4" -> "old/api" [] OTHER -> "api"]
MCNameOf == [r \in {"api", "old/api", "web"} |-> IF r = "web" THEN "web" ELSE "api"]
MCRelease == [e1 |-> 1, e2 |-> 2, e3 |-> 1, e4 |-> 1, t1 |-> 1, t2 |-> 1, s1 |-> 2, p1 |-> 1]

Among(commands, dies, user) ==
    [runs |-> commands @@ [a \in MCActors |-> 0], dies |-> dies, user |-> user,
     shims |-> FALSE, refresh |-> {FALSE}]

MCCasts ==
    {Among([e1 |-> 2, e2 |-> 1], TRUE, {}), Among([e1 |-> 1, t1 |-> 2, t2 |-> 1], TRUE, {}),
     Among([e1 |-> 2, t1 |-> 2], FALSE, {"graph"}),
     Among([s1 |-> 4], FALSE, {"source", "graph"}), Among([s1 |-> 3, t1 |-> 1], FALSE, {}),
     Among([s1 |-> 2, e1 |-> 1], TRUE, {}), Among([s1 |-> 2, e3 |-> 1], FALSE, {}),
     Among([e1 |-> 1, e3 |-> 1, p1 |-> 1], TRUE, {"graph"}),
     Among([e3 |-> 2, e4 |-> 1], FALSE, {"source"}), Among([e1 |-> 1, e4 |-> 1, p1 |-> 1], FALSE, {"graph"}),
     [Among([e1 |-> 2], TRUE, {"shim", "source"}) EXCEPT !.refresh = BOOLEAN, !.shims = TRUE],
     [Among([e1 |-> 1, e2 |-> 1], TRUE, {"shim"}) EXCEPT !.refresh = BOOLEAN, !.shims = TRUE]}

\* The new release runs twice over what the old one left.
AdvisedCasts == {[Among([e1 |-> 1, e2 |-> 2], FALSE, {}) EXCEPT !.refresh = BOOLEAN, !.shims = TRUE]}
=============================================================================
