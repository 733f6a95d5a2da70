---------------------------- MODULE InsightStore ----------------------------
(***************************************************************************)
(* What the agent memory promises (insights/store.py, and the docstrings of *)
(* record_insight and recall_insights): what was learned stays, and a       *)
(* recall answers from all of it, and from nothing nobody recorded.  A      *)
(* record call that fails may or may not leave its insight.                 *)
(***************************************************************************)
CONSTANTS Procs, Insights, None

VARIABLES
    asked,      \* every insight a record call was made for
    learned,    \* those that are there for good
    answer      \* what each process was told last

vars == <<asked, learned, answer>>

Init ==
    /\ asked = {}
    /\ learned = {}
    /\ answer = [p \in Procs |-> None]

Ask(i) ==
    /\ asked' = asked \union {i}
    /\ UNCHANGED <<learned, answer>>

Learn(i) ==
    /\ i \in asked
    /\ learned' = learned \union {i}
    /\ UNCHANGED <<asked, answer>>

Answer(p) ==
    /\ \E told \in SUBSET asked :
          learned \subseteq told /\ answer' = [answer EXCEPT ![p] = told]
    /\ UNCHANGED <<asked, learned>>

Next == (\E i \in Insights : Ask(i) \/ Learn(i)) \/ (\E p \in Procs : Answer(p))

Spec == Init /\ [][Next]_vars
=============================================================================
