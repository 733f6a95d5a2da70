-------------------------- MODULE DependencyOrder --------------------------
(***************************************************************************)
(* What the pipeline promises its phases (docstring of PipelineRunner.run,  *)
(* pipeline/runner.py): an output is produced once, by a phase that finds   *)
(* the outputs of everything it depends on.  In which order, and which      *)
(* outputs are there from the start, is left open.                         *)
(***************************************************************************)
CONSTANT Names

VARIABLES
    needs,      \* the names each phase depends on
    have        \* the names whose output is there

vars == <<needs, have>>

Init ==
    /\ needs \in [Names -> SUBSET Names]
    /\ have \in SUBSET Names

Produce(n) ==
    /\ n \notin have
    /\ needs[n] \subseteq have
    /\ have' = have \union {n}
    /\ UNCHANGED needs

Next == \E n \in Names : Produce(n)

Spec == Init /\ [][Next]_vars
=============================================================================
