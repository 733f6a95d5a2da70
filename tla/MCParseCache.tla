---------------------------- MODULE MCParseCache ----------------------------
(* Small instances of ParseCache: two files of two languages.     *)
EXTENDS ParseCache, TLC

CONSTANTS f1, f2, ts, tsx

TwoLanguages == f1 :> ts @@ f2 :> tsx

(* An entry of the second file's language gets the name of another content. *)
Renamed(k, l) == k.language = tsx /\ l.language = tsx

(* Processes and contents are interchangeable.                              *)
Symmetry == Permutations(Procs) \union Permutations(Contents)

(* manifest and diff, which no guard reads and no property mentions, do not *)
(* tell states apart.                                                      *)
View == <<file, entry, pc, config, todo, seen, result, unsaved, saving, rested>>
=============================================================================
