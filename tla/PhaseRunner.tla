---------------------------- MODULE PhaseRunner ----------------------------
(***************************************************************************)
(* PipelineRunner (pipeline/runner.py): it is built from a list of phases,  *)
(* checks their names and dependencies, sorts them with Kahn's algorithm,   *)
(* and then runs them one after the other over a shared Context, skipping   *)
(* the phases whose output was seeded.                                     *)
(*                                                                         *)
(* A phase is its declaration: its name, depends_on as written (a name may  *)
(* occur twice, be unknown, or be the phase's own) and the outputs its run  *)
(* method takes from the context.  Phases are their declaration index.     *)
(***************************************************************************)
EXTENDS Integers, Sequences, FiniteSets

CONSTANTS
    Names,         \* phase names
    PhaseLists     \* the lists a runner may be built from

PhaseDecl == [name : Names, depends_on : Seq(Names), reads : SUBSET Names]

ASSUME PhaseListsAssumption == PhaseLists \subseteq Seq(PhaseDecl)

VARIABLES
    phases,        \* the declared list
    seeds,         \* seed_outputs of the run
    pc,
    indeg,         \* unmet dependencies of each phase
    ready,         \* the ready queue; kept sorted, so a set of indices
    ordered,       \* the execution order
    at,            \* the next phase of it
    outputs,       \* names in the context
    timed          \* timings.phases

sorting == <<indeg, ready, ordered>>
context == <<at, outputs, timed>>
vars == <<phases, seeds, pc, sorting, context>>

Failed == {"duplicate", "missing", "cycle", "raised", "mistyped"}
Steps  == {"new", "named", "sorting", "built", "running", "done"} \union Failed

Phases  == 1..Len(phases)
Name(i) == phases[i].name
Deps(i) == {phases[i].depends_on[k] : k \in DOMAIN phases[i].depends_on}

(* How often a phase names n among its dependencies: downstream[n] holds it *)
(* that often.                                                             *)
Mentions(i, n) ==
    Cardinality({k \in DOMAIN phases[i].depends_on : phases[i].depends_on[k] = n})

TypeOK ==
    /\ phases \in Seq(PhaseDecl)
    /\ seeds \in SUBSET Names
    /\ pc \in Steps
    /\ indeg \in [Phases -> Nat]
    /\ ready \in SUBSET Phases
    /\ ordered \in Seq(Phases)
    /\ at \in Nat
    /\ outputs \in SUBSET Names
    /\ timed \in SUBSET Names
-----------------------------------------------------------------------------
Init ==
    /\ phases \in PhaseLists
    /\ seeds \in SUBSET Names
    /\ pc = "new"
    /\ indeg = [i \in Phases |-> 0]
    /\ ready = {}
    /\ ordered = <<>>
    /\ at = 1
    /\ outputs = {}
    /\ timed = {}

(* __init__ files the phases by name.                                      *)
CheckNames ==
    /\ pc = "new"
    /\ pc' = IF \E i, j \in Phases : i # j /\ Name(i) = Name(j)
             THEN "duplicate" ELSE "named"
    /\ UNCHANGED <<phases, seeds, sorting, context>>

(* Mutant: a dependency named twice is counted once, and counted down twice. *)
CheckDepsDistinct ==
    /\ pc = "named"
    /\ IF \A i \in Phases : Deps(i) \subseteq {Name(j) : j \in Phases}
       THEN /\ pc' = "sorting"
            /\ indeg' = [i \in Phases |-> Cardinality(Deps(i))]
            /\ ready' = {i \in Phases : Deps(i) = {}}
       ELSE /\ pc' = "missing"
            /\ UNCHANGED <<indeg, ready>>
    /\ UNCHANGED <<phases, seeds, ordered, context>>

(* _toposort: every dependency is declared; then the counters and the queue *)
(* are set up.                                                             *)
CheckDeps ==
    /\ pc = "named"
    /\ IF \A i \in Phases : Deps(i) \subseteq {Name(j) : j \in Phases}
       THEN /\ pc' = "sorting"
            /\ indeg' = [i \in Phases |-> Len(phases[i].depends_on)]
            /\ ready' = {i \in Phases : Len(phases[i].depends_on) = 0}
       ELSE /\ pc' = "missing"
            /\ UNCHANGED <<indeg, ready>>
    /\ UNCHANGED <<phases, seeds, ordered, context>>

(* Mutant: a phase joins the queue once one dependency is met.               *)
PopVisited ==
    /\ pc = "sorting"
    /\ \E i \in ready :
        /\ \A j \in ready : i \leq j
        /\ ordered' = Append(ordered, i)
        /\ indeg' = [j \in Phases |-> indeg[j] - Mentions(j, Name(i))]
        /\ ready' = (ready \ {i}) \union
                        {j \in Phases : /\ Mentions(j, Name(i)) > 0
                                       /\ \A k \in DOMAIN ordered' : ordered'[k] # j}
    /\ UNCHANGED <<phases, seeds, pc, context>>

(* The first ready phase in declaration order is next; what it was the last *)
(* unmet dependency of becomes ready.                                      *)
Pop ==
    /\ pc = "sorting"
    /\ \E i \in ready :
        /\ \A j \in ready : i \leq j
        /\ ordered' = Append(ordered, i)
        /\ indeg' = [j \in Phases |-> indeg[j] - Mentions(j, Name(i))]
        /\ ready' = (ready \ {i}) \union
                        {j \in Phases : Mentions(j, Name(i)) > 0 /\ indeg'[j] = 0}
    /\ UNCHANGED <<phases, seeds, pc, context>>

Sorted ==
    /\ pc = "sorting"
    /\ ready = {}
    /\ pc' = IF Len(ordered) = Len(phases) THEN "built" ELSE "cycle"
    /\ UNCHANGED <<phases, seeds, sorting, context>>

(* run: the context starts from the seeds.                                 *)
Start ==
    /\ pc = "built"
    /\ pc' = "running"
    /\ outputs' = seeds
    /\ UNCHANGED <<phases, seeds, sorting, at, timed>>

Current == Name(ordered[at])
Pending == pc = "running" /\ at \leq Len(ordered) /\ Current \notin outputs

(* Mutant: the loop does not move past a skipped phase.                      *)
SkipStays ==
    /\ pc = "running" /\ at \leq Len(ordered) /\ Current \in outputs
    /\ UNCHANGED vars

(* A phase whose output is there is skipped.                               *)
Skip ==
    /\ pc = "running" /\ at \leq Len(ordered) /\ Current \in outputs
    /\ at' = at + 1
    /\ UNCHANGED <<phases, seeds, pc, sorting, outputs, timed>>

RunPhase ==
    /\ Pending
    /\ outputs' = outputs \union {Current}
    /\ timed' = timed \union {Current}
    /\ at' = at + 1
    /\ UNCHANGED <<phases, seeds, pc, sorting>>

(* The phase raises, or returns something of another type: it is timed, but *)
(* nothing is put into the context and the exception leaves run.           *)
RunFails ==
    /\ Pending
    /\ timed' = timed \union {Current}
    /\ pc' \in {"raised", "mistyped"}
    /\ UNCHANGED <<phases, seeds, sorting, at, outputs>>

Finish ==
    /\ pc = "running" /\ at > Len(ordered)
    /\ pc' = "done"
    /\ UNCHANGED <<phases, seeds, sorting, context>>

Next ==
    \/ CheckNames \/ CheckDeps \/ Pop \/ Sorted
    \/ Start \/ Skip \/ RunPhase \/ RunFails \/ Finish

Spec == Init /\ [][Next]_vars

(* One thread; every phase's run returns or raises.                        *)
FairSpec == Spec /\ WF_vars(Next)
-----------------------------------------------------------------------------
Emitted == {ordered[k] : k \in 1..Len(ordered)}

(* The order a runner is built with holds every phase once, each after all  *)
(* the phases it depends on.                                               *)
OrderRespectsNeeds ==
    pc \in {"built", "running", "done"} =>
        /\ Emitted = Phases /\ Len(ordered) = Len(phases)
        /\ \A k \in 1..Len(ordered) : \A n \in Deps(ordered[k]) :
              \E l \in 1..(k - 1) : Name(ordered[l]) = n

(* DAGCycleError is raised only over a group of phases that wait for one    *)
(* another: never because a dependency is named twice, say.                *)
CycleIsReal ==
    pc = "cycle" =>
        \E stuck \in (SUBSET Phases) \ {{}} :
            \A i \in stuck : \E j \in stuck : Name(j) \in Deps(i)

(* The order does not depend on more than the declarations: a phase comes   *)
(* after one declared later only when it waits for that one or for one in   *)
(* between.                                                                *)
DeclarationOrder ==
    \A k, l \in 1..Len(ordered) : k < l /\ ordered[l] < ordered[k] =>
        \E m \in k..(l - 1) : Name(ordered[m]) \in Deps(ordered[l])

(* A phase about to run finds in the context every output it takes from it, *)
(* declared or not, whatever was seeded.                                   *)
InputsReady == Pending => phases[ordered[at]].reads \subseteq outputs

(* A run that ends well has produced exactly what was not seeded, and timed *)
(* exactly what it produced.                                               *)
TimedIsProduced ==
    pc = "done" => /\ outputs = seeds \union {Name(i) : i \in Phases}
                   /\ timed = {Name(i) : i \in Phases} \ seeds

(* What a run promises of its list of phases: an order it can be run in, as *)
(* near to the declared one as can be, a cycle only where there is one, no  *)
(* phase without its inputs, and timings and outputs of exactly the phases  *)
(* that ran.                                                               *)
RunIsSound ==
    OrderRespectsNeeds /\ DeclarationOrder /\ CycleIsReal /\ InputsReady /\ TimedIsProduced

(* Every construction and every run comes to an end.                       *)
Ends == <>(pc \in Failed \union {"done"})

(* The runner implements the order its phases are promised.                *)
Order == INSTANCE DependencyOrder WITH
    needs <- [n \in Names |-> UNION {Deps(i) : i \in {j \in Phases : Name(j) = n}}],
    have  <- IF pc \in {"running", "done", "raised", "mistyped"} THEN outputs ELSE seeds
OrderSpec == Order!Spec
=============================================================================
