---------------------------- MODULE MCInsightLog ----------------------------
(* Small instances of InsightLog, and the places a process is killed at.    *)
EXTENDS InsightLog, TLC

Anywhere == Steps

(* Anywhere but between the creation of insights.db and its last commit.    *)
NotWhileBuilding == Steps \ {"tables", "insert"}

(* Servers are alike, and so are insights.                                  *)
Symmetry == Permutations(Procs) \union Permutations(Insights)
=============================================================================
