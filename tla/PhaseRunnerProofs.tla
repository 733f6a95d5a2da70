------------------------- MODULE PhaseRunnerProofs -------------------------
(* Proofs about PhaseRunner, for every list of phases: any number of them,  *)
(* with any names and any dependencies, well formed or not.                *)
EXTENDS PhaseRunner, FiniteSetTheorems, TLAPS

EmittedNames == {Name(i) : i \in Emitted}

(* The places in a phase's depends_on that are not met yet.                 *)
Unmet(i) == {k \in DOMAIN phases[i].depends_on :
                phases[i].depends_on[k] \notin EmittedNames}

LEMMA PhaseFacts ==
    ASSUME phases \in PhaseLists
    PROVE  /\ phases \in Seq(PhaseDecl) /\ Len(phases) \in Nat
           /\ \A i \in Phases :
                /\ phases[i] \in PhaseDecl /\ Name(i) \in Names
                /\ phases[i].depends_on \in Seq(Names)
                /\ Len(phases[i].depends_on) \in Nat
                /\ DOMAIN phases[i].depends_on = 1..Len(phases[i].depends_on)
                /\ IsFiniteSet(DOMAIN phases[i].depends_on)
                /\ Cardinality(DOMAIN phases[i].depends_on) = Len(phases[i].depends_on)
                /\ Deps(i) \subseteq Names
<1>1. phases \in Seq(PhaseDecl)
  BY PhaseListsAssumption
<1>2. ASSUME NEW i \in Phases
      PROVE  /\ phases[i] \in PhaseDecl /\ Name(i) \in Names
             /\ phases[i].depends_on \in Seq(Names)
             /\ Len(phases[i].depends_on) \in Nat
             /\ DOMAIN phases[i].depends_on = 1..Len(phases[i].depends_on)
             /\ IsFiniteSet(DOMAIN phases[i].depends_on)
             /\ Cardinality(DOMAIN phases[i].depends_on) = Len(phases[i].depends_on)
             /\ Deps(i) \subseteq Names
  <2>1. phases[i] \in PhaseDecl
    BY <1>1 DEF Phases
  <2>2. phases[i].depends_on \in Seq(Names) /\ Name(i) \in Names
    BY <2>1 DEF PhaseDecl, Name
  <2>3. /\ Len(phases[i].depends_on) \in Nat
        /\ DOMAIN phases[i].depends_on = 1..Len(phases[i].depends_on)
    BY <2>2
  <2>4. /\ IsFiniteSet(1..Len(phases[i].depends_on))
        /\ Cardinality(1..Len(phases[i].depends_on)) = Len(phases[i].depends_on)
    BY <2>3, FS_Interval
  <2>5. Deps(i) \subseteq Names
    BY <2>2, <2>3 DEF Deps
  <2>6. QED
    BY <2>1, <2>2, <2>3, <2>4, <2>5
<1>3. QED
  BY <1>1, <1>2

(* A counter of unmet dependencies is zero when they are all met.           *)
LEMMA UnmetFinite ==
    ASSUME phases \in PhaseLists, NEW i \in Phases
    PROVE  /\ IsFiniteSet(Unmet(i)) /\ Cardinality(Unmet(i)) \in Nat
           /\ Cardinality(Unmet(i)) = 0 <=> Unmet(i) = {}
<1>1. IsFiniteSet(DOMAIN phases[i].depends_on) /\ Unmet(i) \subseteq DOMAIN phases[i].depends_on
  BY PhaseFacts DEF Unmet
<1>2. IsFiniteSet(Unmet(i))
  BY <1>1, FS_Subset
<1>3. QED
  BY <1>2, FS_EmptySet, FS_CardinalityType

UniqueNames == \A i, j \in Phases : i # j => Name(i) # Name(j)
DepsDeclared == \A i \in Phases : Deps(i) \subseteq {Name(j) : j \in Phases}

(* The counters count the unmet dependencies, and the queue holds what has  *)
(* none left.                                                              *)
Counted ==
    /\ \A i \in Phases : indeg[i] = Cardinality(Unmet(i))
    /\ ready = {i \in Phases \ Emitted : indeg[i] = 0}
    /\ \A i \in Emitted : indeg[i] = 0

(* What was emitted came once, and after its needs.                         *)
EmittedOnce == IsFiniteSet(Emitted) /\ Cardinality(Emitted) = Len(ordered)
Precedes(k) == \A n \in Deps(ordered[k]) : \E l \in 1..(k - 1) : Name(ordered[l]) = n
EmittedInOrder == \A k \in 1..Len(ordered) : Precedes(k)

Early == {"new", "named", "duplicate", "missing"}

(* The invariant of Kahn's algorithm.                                                     *)
Kahn ==
    /\ pc \notin Early => UniqueNames /\ DepsDeclared /\ Counted
    /\ pc \in Early => ordered = <<>>
    /\ pc = "named" => UniqueNames
    /\ pc \in {"built", "running", "done", "raised", "mistyped"} => Len(ordered) = Len(phases)
    /\ pc = "cycle" => ready = {} /\ Len(ordered) # Len(phases)
    /\ EmittedOnce
    /\ EmittedInOrder

(* `at` stays on the order.                                                 *)
Typed == /\ TypeOK
         /\ phases \in PhaseLists
         /\ at \in Nat \ {0}

LEMMA CurrentPhase ==
    ASSUME Typed, at \leq Len(ordered)
    PROVE  /\ at \in 1..Len(ordered) /\ ordered[at] \in Phases /\ Current \in Names
<1>1. ordered \in Seq(Phases) /\ at \in Nat \ {0} /\ Len(ordered) \in Nat
  BY DEF Typed, TypeOK
<1>2. at \in 1..Len(ordered) /\ ordered[at] \in Phases
  BY <1>1
<1>3. QED
  BY <1>2, PhaseFacts DEF Typed, Current

LEMMA KahnInit == Init => Typed /\ Kahn
<1> SUFFICES ASSUME Init PROVE Typed /\ Kahn
  OBVIOUS
<1>1. phases \in PhaseLists
  BY DEF Init
<1>2. Typed
  BY <1>1, PhaseFacts DEF Init, Typed, TypeOK, Steps, Phases
<1>3. Len(ordered) = 0 /\ Emitted = {}
  BY DEF Init, Emitted
<1>4. EmittedOnce
  BY <1>3, FS_EmptySet DEF EmittedOnce
<1>5. QED
  BY <1>2, <1>3, <1>4 DEF Init, Kahn, Early, EmittedInOrder

(* Emitting phase i meets exactly the mentions of its name.                 *)
LEMMA PopCounts ==
    ASSUME Typed, Kahn, pc = "sorting", NEW i \in ready, NEW j \in Phases,
           NEW after, after = {k \in Unmet(j) : phases[j].depends_on[k] # Name(i)}
    PROVE  /\ Cardinality(after) = indeg[j] - Mentions(j, Name(i))
           /\ Mentions(j, Name(i)) \in Nat /\ Cardinality(after) \in Nat
<1> DEFINE met == {k \in DOMAIN phases[j].depends_on : phases[j].depends_on[k] = Name(i)}
<1>0. UniqueNames /\ Counted
  BY DEF Kahn, Early
<1>1. i \in Phases \ Emitted /\ Emitted \subseteq Phases
  BY <1>0 DEF Typed, Counted, TypeOK, Emitted
<1>2. Name(i) \notin EmittedNames
  BY <1>0, <1>1 DEF UniqueNames, EmittedNames
<1>3. met \subseteq Unmet(j) /\ after = Unmet(j) \ met
  BY <1>2 DEF Unmet
<1>4. IsFiniteSet(Unmet(j)) /\ Cardinality(Unmet(j)) = indeg[j]
  BY <1>0, UnmetFinite DEF Typed, Counted
<1>5. IsFiniteSet(met) /\ Cardinality(met) \in Nat
  BY <1>3, <1>4, FS_Subset, FS_CardinalityType
<1>6. Mentions(j, Name(i)) = Cardinality(met)
  BY DEF Mentions
<1>7. Unmet(j) \cap met = met
  BY <1>3
<1>8. Cardinality(Unmet(j) \ met) = Cardinality(Unmet(j)) - Cardinality(Unmet(j) \cap met)
      /\ IsFiniteSet(Unmet(j) \ met)
  BY <1>4, FS_Difference
<1>9. Cardinality(after) = Cardinality(Unmet(j)) - Cardinality(met) /\ Cardinality(after) \in Nat
  BY <1>3, <1>7, <1>8, FS_CardinalityType
<1>10. QED
  BY <1>4, <1>5, <1>6, <1>9

LEMMA PopStep ==
    ASSUME Typed, Kahn, Pop
    PROVE  Typed' /\ Kahn'
<1> USE DEF sorting, context
<1>1. PICK i \in ready :
        /\ \A j \in ready : i \leq j
        /\ ordered' = Append(ordered, i)
        /\ indeg' = [j \in Phases |-> indeg[j] - Mentions(j, Name(i))]
        /\ ready' = (ready \ {i}) \union
                        {j \in Phases : Mentions(j, Name(i)) > 0 /\ indeg'[j] = 0}
  BY DEF Pop
<1>2. /\ pc = "sorting" /\ UNCHANGED <<phases, seeds, pc, context>>
      /\ phases \in PhaseLists
      /\ ordered \in Seq(Phases) /\ Len(ordered) \in Nat
  BY DEF Pop, Typed, TypeOK
<1>3. UniqueNames /\ DepsDeclared /\ Counted /\ EmittedOnce /\ EmittedInOrder
  BY <1>2 DEF Kahn, Early
<1>4. i \in Phases \ Emitted /\ Emitted \subseteq Phases /\ indeg[i] = 0
  BY <1>2, <1>3 DEF Counted, Emitted
<1>5. /\ ordered' \in Seq(Phases) /\ Len(ordered') = Len(ordered) + 1
      /\ \A k \in 1..Len(ordered) : ordered'[k] = ordered[k]
      /\ ordered'[Len(ordered) + 1] = i
  BY <1>1, <1>2, <1>4
<1>6. \A k \in 1..Len(ordered') : k \in 1..Len(ordered) \/ k = Len(ordered) + 1
  BY <1>2, <1>5
<1>7. Emitted' = Emitted \union {i}
  <2>1. Emitted' \subseteq Emitted \union {i}
    BY <1>2, <1>5, <1>6 DEF Emitted
  <2>2. Emitted \subseteq Emitted' /\ i \in Emitted'
    BY <1>2, <1>5 DEF Emitted
  <2>3. QED
    BY <2>1, <2>2
<1>8. /\ Phases' = Phases
      /\ \A j \in Phases : Name(j)' = Name(j) /\ Deps(j)' = Deps(j)
  BY <1>2 DEF Phases, Name, Deps
<1>9. EmittedNames' = EmittedNames \union {Name(i)}
  BY <1>4, <1>7, <1>8 DEF EmittedNames
<1>10. \A j \in Phases : Unmet(j)' = {k \in Unmet(j) : phases[j].depends_on[k] # Name(i)}
  BY <1>2, <1>9 DEF Unmet
<1>11. ASSUME NEW j \in Phases
       PROVE  /\ indeg'[j] = Cardinality(Unmet(j)') /\ indeg'[j] \in Nat
              /\ indeg'[j] = indeg[j] - Mentions(j, Name(i))
              /\ Mentions(j, Name(i)) \in Nat
  <2>1. /\ Cardinality(Unmet(j)') = indeg[j] - Mentions(j, Name(i))
        /\ Mentions(j, Name(i)) \in Nat /\ Cardinality(Unmet(j)') \in Nat
    BY <1>2, <1>10, PopCounts
  <2>2. indeg'[j] = indeg[j] - Mentions(j, Name(i))
    BY <1>1
  <2>3. QED
    BY <2>1, <2>2
<1>12. \A j \in Phases : indeg[j] \in Nat
  BY DEF Typed, TypeOK
<1>13. \A j \in Emitted' : indeg'[j] = 0
  BY <1>3, <1>4, <1>7, <1>11, <1>12 DEF Counted
<1>14. ready' = {j \in Phases \ Emitted' : indeg'[j] = 0}
  <2>1. ready = {j \in Phases \ Emitted : indeg[j] = 0}
    BY <1>3 DEF Counted
  <2>2. ASSUME NEW j \in Phases
        PROVE  j \in ready' <=> j \notin Emitted' /\ indeg'[j] = 0
    <3>1. CASE Mentions(j, Name(i)) = 0
      BY <1>1, <1>7, <1>11, <1>12, <2>1, <3>1
    <3>2. CASE Mentions(j, Name(i)) > 0
      <4>1. indeg[j] # 0
        BY <1>11, <1>12, <3>2
      <4>2. j \notin Emitted'
        BY <1>3, <1>4, <1>7, <4>1 DEF Counted
      <4>3. QED
        BY <1>1, <2>1, <3>2, <4>1, <4>2
    <3>3. QED
      BY <1>11, <3>1, <3>2
  <2>3. ready' \subseteq Phases
    BY <1>1, <2>1
  <2>4. QED
    BY <2>2, <2>3
<1>15. EmittedOnce'
  <2>1. IsFiniteSet(Emitted) /\ Cardinality(Emitted) = Len(ordered)
    BY <1>3 DEF EmittedOnce
  <2>2. IsFiniteSet(Emitted') /\ Cardinality(Emitted') = Len(ordered')
    BY <1>4, <1>5, <1>7, <2>1, FS_AddElement
  <2>3. QED
    BY <2>2 DEF EmittedOnce
<1>16. ASSUME NEW k \in 1..Len(ordered')
       PROVE  Precedes(k)'
  <2>1. CASE k \in 1..Len(ordered)
    <3>1. Precedes(k) /\ ordered'[k] = ordered[k] /\ ordered[k] \in Phases
      BY <1>2, <1>3, <1>5, <2>1 DEF EmittedInOrder
    <3>2. \A l \in 1..(k - 1) : ordered'[l] = ordered[l] /\ ordered[l] \in Phases
      BY <1>2, <1>5, <2>1
    <3>3. QED
      BY <1>8, <3>1, <3>2 DEF Precedes
  <2>2. CASE k = Len(ordered) + 1
    <3>1. ordered'[k] = i /\ Deps(i)' = Deps(i)
      BY <1>4, <1>5, <1>8, <2>2
    <3>2. Unmet(i) = {}
      BY <1>2, <1>3, <1>4, UnmetFinite DEF Counted
    <3>3. ASSUME NEW n \in Deps(i) PROVE \E l \in 1..(k - 1) : Name(ordered[l])' = n
      <4>1. n \in EmittedNames
        BY <3>2 DEF Deps, Unmet
      <4>2. PICK l \in 1..Len(ordered) : Name(ordered[l]) = n
        BY <4>1 DEF EmittedNames, Emitted
      <4>3. ordered'[l] = ordered[l] /\ ordered[l] \in Phases /\ l \in 1..(k - 1)
        BY <1>2, <1>5, <2>2
      <4>4. QED
        BY <1>8, <4>2, <4>3
    <3>4. QED
      BY <3>1, <3>3 DEF Precedes
  <2>3. QED
    BY <1>6, <2>1, <2>2
<1>17. Typed'
  <2>1. indeg' \in [Phases -> Nat]
    BY <1>1, <1>11
  <2>2. ready' \in SUBSET Phases
    BY <1>14
  <2>3. QED
    BY <1>2, <1>5, <1>8, <2>1, <2>2 DEF Typed, TypeOK
<1>18. UniqueNames' /\ DepsDeclared'
  BY <1>3, <1>8 DEF UniqueNames, DepsDeclared
<1>19. Counted'
  BY <1>8, <1>11, <1>13, <1>14 DEF Counted
<1>20. EmittedInOrder'
  BY <1>16 DEF EmittedInOrder
<1>21. QED
  BY <1>2, <1>15, <1>17, <1>18, <1>19, <1>20 DEF Kahn, Early

LEMMA OtherStep ==
    ASSUME Typed, Kahn, [Next]_vars, ~Pop
    PROVE  Typed' /\ Kahn'
<1> USE DEF sorting, context
<1>0. phases \in PhaseLists /\ TypeOK
  BY DEF Typed
<1>1. phases' = phases /\ ordered' = ordered
  BY DEF Next, CheckNames, CheckDeps, Sorted, Start, Skip, RunPhase, RunFails, Finish, vars
<1>2. /\ Phases' = Phases /\ Emitted' = Emitted /\ EmittedNames' = EmittedNames
      /\ UniqueNames' = UniqueNames /\ DepsDeclared' = DepsDeclared
      /\ EmittedOnce' = EmittedOnce /\ EmittedInOrder' = EmittedInOrder
  BY <1>1 DEF Phases, Emitted, EmittedNames, UniqueNames, DepsDeclared, EmittedOnce,
              EmittedInOrder, Precedes, Deps, Name
<1>3. indeg' = indeg /\ ready' = ready => Counted' = Counted
  BY <1>1, <1>2 DEF Counted, Unmet
<1>4. EmittedOnce /\ EmittedInOrder
  BY DEF Kahn
<1>5. CASE CheckNames
  <2>1. /\ pc = "new" /\ pc' \in {"duplicate", "named"}
        /\ pc' = "named" => UniqueNames
        /\ UNCHANGED <<seeds, indeg, ready, at, outputs, timed>>
    BY <1>5 DEF CheckNames, UniqueNames
  <2>2. Typed'
    BY <1>0, <1>1, <1>2, <2>1 DEF Typed, TypeOK, Steps, Failed
  <2>3. QED
    BY <1>1, <1>2, <1>4, <2>1, <2>2 DEF Kahn, Early
<1>6. CASE CheckDeps
  <2>1. pc = "named" /\ ordered = <<>> /\ Emitted = {} /\ EmittedNames = {} /\ UniqueNames
    BY <1>6 DEF CheckDeps, Kahn, Early, Emitted, EmittedNames
  <2>2. \A i \in Phases : /\ Unmet(i) = DOMAIN phases[i].depends_on
                          /\ Unmet(i)' = Unmet(i)
                          /\ Cardinality(Unmet(i)) = Len(phases[i].depends_on)
                          /\ Len(phases[i].depends_on) \in Nat
    BY <1>0, <1>1, <1>2, <2>1, PhaseFacts DEF Unmet
  <2>3. CASE DepsDeclared
    <3>1. /\ pc' = "sorting"
          /\ indeg' = [i \in Phases |-> Len(phases[i].depends_on)]
          /\ ready' = {i \in Phases : Len(phases[i].depends_on) = 0}
          /\ UNCHANGED <<seeds, at, outputs, timed>>
      BY <1>6, <2>3 DEF CheckDeps, DepsDeclared
    <3>2. Typed'
      BY <1>0, <1>1, <1>2, <2>2, <3>1 DEF Typed, TypeOK, Steps
    <3>3. Counted'
      BY <1>2, <2>1, <2>2, <3>1 DEF Counted
    <3>4. QED
      BY <1>2, <1>4, <2>1, <2>3, <3>1, <3>2, <3>3 DEF Kahn, Early
  <2>4. CASE ~DepsDeclared
    <3>1. pc' = "missing" /\ UNCHANGED <<indeg, ready, seeds, at, outputs, timed>>
      BY <1>6, <2>4 DEF CheckDeps, DepsDeclared
    <3>2. Typed'
      BY <1>0, <1>1, <1>2, <3>1 DEF Typed, TypeOK, Steps, Failed
    <3>3. QED
      BY <1>1, <1>2, <1>4, <2>1, <3>1, <3>2 DEF Kahn, Early
  <2>5. QED
    BY <2>3, <2>4
<1>7. CASE Sorted
  <2>1. /\ pc = "sorting" /\ pc' \in {"built", "cycle"} /\ ready = {}
        /\ pc' = "built" <=> Len(ordered) = Len(phases)
        /\ UNCHANGED <<seeds, indeg, ready, at, outputs, timed>>
    BY <1>7 DEF Sorted
  <2>2. Typed'
    BY <1>0, <1>1, <1>2, <2>1 DEF Typed, TypeOK, Steps, Failed
  <2>3. QED
    BY <1>1, <1>2, <1>3, <1>4, <2>1, <2>2 DEF Kahn, Early
<1>8. ASSUME Start \/ Skip \/ RunPhase \/ RunFails \/ Finish \/ UNCHANGED vars
      PROVE  Typed' /\ Kahn'
  <2>1. /\ indeg' = indeg /\ ready' = ready /\ seeds' = seeds
        /\ pc' = pc \/ (pc \in {"built", "running"} /\ pc' \in {"running", "raised", "mistyped", "done"})
    BY <1>8 DEF Start, Skip, RunPhase, RunFails, Finish, Pending, vars
  <2>2. Kahn'
    BY <1>1, <1>2, <1>3, <1>4, <2>1 DEF Kahn, Early
  <2>3. at' \in Nat \ {0} /\ outputs' \in SUBSET Names /\ timed' \in SUBSET Names
    <3>1. RunPhase \/ RunFails => Current \in Names
      BY <1>0, CurrentPhase DEF RunPhase, RunFails, Pending, Kahn, Typed
    <3>2. QED
      BY <1>0, <1>8, <3>1 DEF Start, Skip, RunPhase, RunFails, Finish, vars, Typed, TypeOK
  <2>4. Typed'
    BY <1>0, <1>1, <1>2, <2>1, <2>3 DEF Typed, TypeOK, Steps, Failed
  <2>5. QED
    BY <2>2, <2>4
<1>9. QED
  BY <1>5, <1>6, <1>7, <1>8 DEF Next

LEMMA KahnStep == Typed /\ Kahn /\ [Next]_vars => Typed' /\ Kahn'
BY PopStep, OtherStep

LEMMA KahnAlways == Spec => [](Typed /\ Kahn)
BY KahnInit, KahnStep, PTL DEF Spec

(* The counters never go below zero, and every variable keeps its type.     *)
THEOREM TypeCorrect == Spec => []TypeOK
<1>1. Typed => TypeOK
  BY DEF Typed
<1>2. QED
  BY <1>1, KahnAlways, PTL

LEMMA PhasesCounted ==
    ASSUME Typed
    PROVE  IsFiniteSet(Phases) /\ Cardinality(Phases) = Len(phases)
<1>1. Len(phases) \in Nat /\ Len(phases) \in Int /\ 1 \in Int
  BY PhaseFacts DEF Typed
<1>2. /\ IsFiniteSet(1..Len(phases))
      /\ Cardinality(1..Len(phases)) = IF 1 > Len(phases) THEN 0 ELSE Len(phases) - 1 + 1
  BY <1>1, FS_Interval
<1>3. Cardinality(1..Len(phases)) = Len(phases)
  BY <1>1, <1>2
<1>4. QED
  BY <1>2, <1>3 DEF Phases

LEMMA SoundOrderStep == Typed /\ Kahn => OrderRespectsNeeds
<1> SUFFICES ASSUME Typed, Kahn, pc \in {"built", "running", "done"}
             PROVE  Emitted = Phases /\ Len(ordered) = Len(phases)
  BY DEF OrderRespectsNeeds, Kahn, EmittedInOrder, Precedes
<1>1. Emitted \subseteq Phases
  BY DEF Typed, TypeOK, Emitted
<1>2. IsFiniteSet(Phases) /\ Cardinality(Phases) = Len(phases)
  BY PhasesCounted
<1>3. Cardinality(Emitted) = Len(phases) /\ Len(ordered) = Len(phases)
  BY DEF Kahn, EmittedOnce
<1>4. QED
  BY <1>1, <1>2, <1>3, FS_Subset

(* Whatever the list, a runner that is built runs each phase once, after    *)
(* everything it depends on.                                               *)
THEOREM SoundOrder == Spec => []OrderRespectsNeeds
BY SoundOrderStep, KahnAlways, PTL

(* A phase that waits in the queue was overtaken by a later one only before  *)
(* the last of its needs was met.                                          *)
Overtaken(i) ==
    \A k \in 1..Len(ordered) : i < ordered[k] =>
        \E m \in k..Len(ordered) : Name(ordered[m]) \in Deps(i)
Patient == DeclarationOrder /\ \A i \in ready : Overtaken(i)

(* A phase that mentions a name depends on it.                              *)
LEMMA MentionIsDep ==
    ASSUME phases \in PhaseLists, NEW j \in Phases, NEW n, Mentions(j, n) > 0
    PROVE  n \in Deps(j)
<1>1. {k \in DOMAIN phases[j].depends_on : phases[j].depends_on[k] = n} # {}
  BY FS_EmptySet DEF Mentions
<1>2. QED
  BY <1>1 DEF Deps

LEMMA PatientPop ==
    ASSUME Typed, Kahn, Patient, Pop
    PROVE  Patient'
<1> USE DEF sorting, context
<1>1. PICK i \in ready :
        /\ \A j \in ready : i \leq j
        /\ ordered' = Append(ordered, i)
        /\ ready' = (ready \ {i}) \union
                        {j \in Phases : Mentions(j, Name(i)) > 0 /\ indeg'[j] = 0}
  BY DEF Pop
<1>2. /\ phases' = phases /\ phases \in PhaseLists /\ ready \subseteq Phases
      /\ ordered \in Seq(Phases) /\ Len(ordered) \in Nat /\ Phases \subseteq Nat
  BY DEF Pop, Typed, TypeOK, Phases
<1>3. /\ Len(ordered') = Len(ordered) + 1 /\ ordered'[Len(ordered) + 1] = i
      /\ \A k \in 1..Len(ordered) : ordered'[k] = ordered[k] /\ ordered[k] \in Phases
      /\ \A k \in 1..Len(ordered') : k \in 1..Len(ordered) \/ k = Len(ordered) + 1
  BY <1>1, <1>2
<1>4. \A j : Name(j)' = Name(j) /\ Deps(j)' = Deps(j)
  BY <1>2 DEF Name, Deps
<1>5. DeclarationOrder'
  <2> SUFFICES ASSUME NEW k \in 1..Len(ordered'), NEW l \in 1..Len(ordered'),
                      k < l, ordered'[l] < ordered'[k]
               PROVE  \E m \in k..(l - 1) : Name(ordered'[m]) \in Deps(ordered'[l])
    BY <1>4 DEF DeclarationOrder
  <2>1. k \in 1..Len(ordered)
    BY <1>2, <1>3
  <2>2. CASE l \in 1..Len(ordered)
    <3>1. PICK m \in k..(l - 1) : Name(ordered[m]) \in Deps(ordered[l])
      BY <1>3, <2>1, <2>2 DEF Patient, DeclarationOrder
    <3>2. m \in 1..Len(ordered)
      BY <1>2, <2>1, <2>2
    <3>3. QED
      BY <1>3, <2>2, <3>1, <3>2
  <2>3. CASE l = Len(ordered) + 1
    <3>1. PICK m \in k..Len(ordered) : Name(ordered[m]) \in Deps(i)
      BY <1>3, <2>1, <2>3 DEF Patient, Overtaken
    <3>2. m \in 1..Len(ordered) /\ m \in k..(l - 1)
      BY <1>2, <2>1, <2>3
    <3>3. QED
      BY <1>3, <2>3, <3>1, <3>2
  <2>4. QED
    BY <1>3, <2>2, <2>3
<1>6. ASSUME NEW j \in ready' PROVE Overtaken(j)'
  <2> SUFFICES ASSUME NEW k \in 1..Len(ordered'), j < ordered'[k]
               PROVE  \E m \in k..Len(ordered') : Name(ordered'[m]) \in Deps(j)
    BY <1>4 DEF Overtaken
  <2>1. CASE j \in Phases /\ Mentions(j, Name(i)) > 0
    <3>1. Name(i) \in Deps(j)
      BY <1>2, <2>1, MentionIsDep
    <3>2. Len(ordered) + 1 \in k..Len(ordered')
      BY <1>2, <1>3
    <3>3. QED
      BY <1>3, <3>1, <3>2
  <2>2. CASE j \in ready \ {i}
    <3>1. k \in 1..Len(ordered)
      BY <1>1, <1>2, <1>3, <2>2
    <3>2. PICK m \in k..Len(ordered) : Name(ordered[m]) \in Deps(j)
      BY <1>3, <2>2, <3>1 DEF Patient, Overtaken
    <3>3. m \in 1..Len(ordered) /\ m \in k..Len(ordered')
      BY <1>2, <1>3, <3>1
    <3>4. QED
      BY <1>3, <3>2, <3>3
  <2>3. QED
    BY <1>1, <2>1, <2>2
<1>7. QED
  BY <1>5, <1>6 DEF Patient

(* The order is the one declared, as far as the needs allow: it does not     *)
(* depend on how the queue came about.                                     *)
THEOREM StableOrder == Spec => []DeclarationOrder
<1>1. Init => Patient
  BY DEF Init, Patient, DeclarationOrder
<1>2. Typed /\ Kahn /\ Patient /\ [Next]_vars => Patient'
  <2> SUFFICES ASSUME Typed, Kahn, Patient, [Next]_vars PROVE Patient'
    OBVIOUS
  <2>1. CASE Pop
    BY <2>1, PatientPop
  <2>2. CASE CheckDeps
    <3>1. ordered' = <<>>
      BY <2>2 DEF CheckDeps, Kahn, Early
    <3>2. QED
      BY <3>1 DEF Patient, DeclarationOrder, Overtaken
  <2>3. CASE ~Pop /\ ~CheckDeps
    <3>1. phases' = phases /\ ordered' = ordered /\ ready' = ready
      BY <2>3 DEF Next, CheckNames, Sorted, Start, Skip, RunPhase, RunFails, Finish,
                  sorting, context, vars
    <3>2. QED
      BY <3>1 DEF Patient, DeclarationOrder, Overtaken, Name, Deps
  <2>4. QED
    BY <2>1, <2>2, <2>3
<1>3. Patient => DeclarationOrder
  BY DEF Patient
<1>4. QED
  BY <1>1, <1>2, <1>3, KahnAlways, PTL DEF Spec

(* A reported cycle is one: some phases wait for one another.               *)
THEOREM RealCycles == Spec => []CycleIsReal
<1>1. Typed /\ Kahn => CycleIsReal
  <2> SUFFICES ASSUME Typed, Kahn, pc = "cycle"
               PROVE  \E stuck \in (SUBSET Phases) \ {{}} :
                          \A i \in stuck : \E j \in stuck : Name(j) \in Deps(i)
    BY DEF CycleIsReal
  <2> DEFINE stuck == Phases \ Emitted
  <2>1. stuck # {}
    <3>1. SUFFICES ASSUME stuck = {} PROVE FALSE
      OBVIOUS
    <3>2. Emitted \subseteq Phases
      BY DEF Typed, TypeOK, Emitted
    <3>3. Emitted = Phases
      BY <3>1, <3>2
    <3>4. Cardinality(Phases) = Len(phases)
      BY PhasesCounted
    <3>5. QED
      BY <3>3, <3>4 DEF Kahn, EmittedOnce
  <2>2. ASSUME NEW i \in stuck PROVE \E j \in stuck : Name(j) \in Deps(i)
    <3>1. indeg[i] # 0 /\ indeg[i] = Cardinality(Unmet(i)) /\ DepsDeclared
      BY DEF Kahn, Early, Counted
    <3>2. Unmet(i) # {}
      BY <3>1, UnmetFinite DEF Typed
    <3>3. PICK n \in Deps(i) : n \notin EmittedNames
      BY <3>2 DEF Unmet, Deps
    <3>4. PICK j \in Phases : Name(j) = n
      BY <3>1, <3>3 DEF DepsDeclared
    <3>5. j \notin Emitted
      BY <3>3, <3>4 DEF EmittedNames
    <3>6. QED
      BY <3>3, <3>4, <3>5
  <2>3. QED
    BY <2>1, <2>2
<1>2. QED
  BY <1>1, KahnAlways, PTL
-----------------------------------------------------------------------------
(* The phases passed over have their outputs in the context, from the seeds *)
(* or from their run, and only those that ran are timed.                    *)
Going == {"running", "done", "raised", "mistyped"}

Progress ==
    /\ pc \notin Going => at = 1 /\ timed = {}
    /\ pc \in Going => \A k \in 1..Len(ordered) : k < at => Name(ordered[k]) \in outputs
    /\ pc \in {"running", "done"} => /\ outputs = seeds \union timed
                                     /\ timed \intersect seeds = {}
                                     /\ timed \subseteq {Name(i) : i \in Phases}
    /\ pc = "done" => at > Len(ordered)

LEMMA ProgressInit == Init => Progress
BY DEF Init, Progress, Going

LEMMA ProgressStep == Typed /\ Kahn /\ Progress /\ [Next]_vars => Progress'
<1> SUFFICES ASSUME Typed, Kahn, Progress, [Next]_vars PROVE Progress'
  OBVIOUS
<1> USE DEF sorting, context
<1>1. CASE CheckNames \/ CheckDeps \/ Pop \/ Sorted
  <2>1. UNCHANGED <<phases, at, timed>> /\ pc \notin Going /\ pc' \notin Going
    BY <1>1 DEF CheckNames, CheckDeps, Pop, Sorted, Going
  <2>2. QED
    BY <2>1 DEF Progress, Going
<1>2. CASE Start
  <2>1. /\ UNCHANGED <<phases, seeds, ordered, at, timed>> /\ outputs' = seeds
        /\ pc' = "running" /\ pc \notin Going
    BY <1>2 DEF Start, Going
  <2>2. at = 1 /\ timed = {}
    BY <2>1 DEF Progress
  <2>3. \A k \in 1..Len(ordered) : ~(k < at)
    BY <2>2 DEF Typed, TypeOK
  <2>4. QED
    BY <2>1, <2>2, <2>3 DEF Progress, Going
<1>3. CASE Skip \/ RunPhase
  <2>1. /\ UNCHANGED <<phases, seeds, pc, ordered>> /\ pc = "running" /\ at' = at + 1
        /\ at \leq Len(ordered)
        /\ \/ outputs' = outputs /\ timed' = timed /\ Current \in outputs
           \/ /\ outputs' = outputs \union {Current} /\ timed' = timed \union {Current}
              /\ Current \notin outputs
    BY <1>3 DEF Skip, RunPhase, Pending
  <2>2. at \in 1..Len(ordered) /\ ordered[at] \in Phases
    BY <2>1, CurrentPhase
  <2>3. \A k \in 1..Len(ordered) : k < at' => k < at \/ k = at
    BY <2>1, <2>2
  <2>4. \A k \in 1..Len(ordered) : k < at' => Name(ordered[k]) \in outputs'
    BY <2>1, <2>3 DEF Progress, Going, Current
  <2>5. Current \in {Name(i) : i \in Phases}
    BY <2>2 DEF Current
  <2>6. Phases' = Phases /\ \A i \in Phases : Name(i)' = Name(i)
    BY <2>1 DEF Name, Phases
  <2>7. \A k \in 1..Len(ordered') : k < at' => Name(ordered[k])' \in outputs'
    BY <2>1, <2>4 DEF Name
  <2>8. /\ outputs' = seeds \union timed'
        /\ timed' \intersect seeds = {}
        /\ timed' \subseteq {Name(i) : i \in Phases}
    BY <2>1, <2>5 DEF Progress
  <2>9. {Name(i) : i \in Phases}' = {Name(i) : i \in Phases}
    BY <2>6
  <2>10. QED
    BY <2>1, <2>7, <2>8, <2>9 DEF Progress, Going
<1>4. CASE RunFails
  <2>1. /\ UNCHANGED <<phases, ordered, at, outputs>> /\ pc = "running"
        /\ pc' \in {"raised", "mistyped"}
    BY <1>4 DEF RunFails, Pending
  <2>2. QED
    BY <2>1 DEF Progress, Going, Name
<1>5. CASE Finish
  <2>1. /\ UNCHANGED <<phases, seeds, ordered, at, outputs, timed>> /\ pc = "running"
        /\ pc' = "done" /\ at > Len(ordered)
    BY <1>5 DEF Finish
  <2>2. QED
    BY <2>1 DEF Progress, Going, Name, Phases
<1>6. CASE UNCHANGED vars
  BY <1>6 DEF vars, Progress, Going, Name, Phases
<1>7. QED
  BY <1>1, <1>2, <1>3, <1>4, <1>5, <1>6 DEF Next

LEMMA ProgressAlways == Spec => [](Typed /\ Kahn /\ Progress)
BY KahnInit, KahnStep, ProgressInit, ProgressStep, PTL DEF Spec

(* What a phase about to run depends on is in the context.                  *)
LEMMA NeedsMet ==
    ASSUME Typed, Kahn, Progress, pc = "running", at \leq Len(ordered)
    PROVE  Deps(ordered[at]) \subseteq outputs
<1>1. at \in 1..Len(ordered)
  BY CurrentPhase
<1>2. ASSUME NEW n \in Deps(ordered[at]) PROVE n \in outputs
  <2>1. PICK l \in 1..(at - 1) : Name(ordered[l]) = n
    BY <1>1 DEF Kahn, EmittedInOrder, Precedes
  <2>2. l \in 1..Len(ordered) /\ l < at
    BY <1>1, <2>1 DEF Typed, TypeOK
  <2>3. QED
    BY <2>1, <2>2 DEF Progress, Going
<1>3. QED
  BY <1>2

(* A run that ends well has produced and timed exactly what was not seeded. *)
THEOREM ExactProduction == Spec => []TimedIsProduced
<1>1. Typed /\ Kahn /\ Progress => TimedIsProduced
  <2> SUFFICES ASSUME Typed, Kahn, Progress, pc = "done"
               PROVE  /\ outputs = seeds \union {Name(i) : i \in Phases}
                      /\ timed = {Name(i) : i \in Phases} \ seeds
    BY DEF TimedIsProduced
  <2>1. Emitted = Phases
    BY SoundOrderStep DEF OrderRespectsNeeds
  <2>2. \A i \in Phases : Name(i) \in outputs
    <3>1. ASSUME NEW i \in Phases PROVE Name(i) \in outputs
      <4>1. PICK k \in 1..Len(ordered) : ordered[k] = i
        BY <2>1 DEF Emitted
      <4>2. k < at
        BY DEF Progress, Typed, TypeOK
      <4>3. QED
        BY <4>1, <4>2 DEF Progress, Going
    <3>2. QED
      BY <3>1
  <2>3. QED
    BY <2>2 DEF Progress
<1>2. QED
  BY <1>1, ProgressAlways, PTL

(* As the phases of default_phases do: contracts takes the inventory, which  *)
(* only the phases it depends on declare.                                  *)
ReadsWithinReach ==
    \A list \in PhaseLists : \A i \in 1..Len(list) : \A n \in list[i].reads :
        \E k \in DOMAIN list[i].depends_on :
            \/ list[i].depends_on[k] = n
            \/ \E j \in 1..Len(list) : /\ list[j].name = list[i].depends_on[k]
                                       /\ \E m \in DOMAIN list[j].depends_on :
                                             list[j].depends_on[m] = n

(* A phase that takes outputs of its dependencies, or of theirs, finds them, *)
(* unless a dependency was seeded without what it depends on: hence the     *)
(* phases after it are given that too.                                     *)
THEOREM InputsThere == ReadsWithinReach /\ Spec => []InputsReady
<1> SUFFICES ASSUME ReadsWithinReach PROVE Spec => []InputsReady
  OBVIOUS
<1>1. Typed /\ Kahn /\ Progress => InputsReady
  <2> SUFFICES ASSUME Typed, Kahn, Progress, Pending, NEW n \in phases[ordered[at]].reads
               PROVE  n \in outputs
    BY DEF InputsReady
  <2> DEFINE i == ordered[at]
  <2>1. pc = "running" /\ at \in 1..Len(ordered) /\ i \in Phases /\ phases \in PhaseLists
    BY CurrentPhase DEF Pending, Typed
  <2>2. PICK k \in DOMAIN phases[i].depends_on :
            \/ phases[i].depends_on[k] = n
            \/ \E j \in Phases : /\ Name(j) = phases[i].depends_on[k]
                                 /\ \E m \in DOMAIN phases[j].depends_on :
                                       phases[j].depends_on[m] = n
    BY <2>1 DEF ReadsWithinReach, Phases, Name
  <2>3. CASE n \in Deps(i)
    BY <2>1, <2>3, NeedsMet DEF Pending
  <2>4. ASSUME NEW j \in Phases, Name(j) \in Deps(i), n \in Deps(j)
        PROVE  n \in outputs
    <3>1. PICK l \in 1..(at - 1) : Name(ordered[l]) = Name(j)
      BY <2>1, <2>4 DEF Kahn, EmittedInOrder, Precedes
    <3>2. l \in 1..Len(ordered) /\ l < at /\ ordered[l] \in Phases
      BY <2>1, <3>1 DEF Typed, TypeOK
    <3>3. ordered[l] = j
      BY <2>1, <3>1, <3>2 DEF Kahn, Early, UniqueNames
    <3>4. PICK m \in 1..(l - 1) : Name(ordered[m]) = n
      BY <2>4, <3>2, <3>3 DEF Kahn, EmittedInOrder, Precedes
    <3>5. m \in 1..Len(ordered) /\ m < at
      BY <2>1, <3>2, <3>4 DEF Typed, TypeOK
    <3>6. QED
      BY <2>1, <3>4, <3>5 DEF Progress, Going
  <2>5. QED
    BY <2>2, <2>3, <2>4 DEF Deps
<1>2. QED
  BY <1>1, ProgressAlways, PTL

(* Every run of a runner is a run of DependencyOrder: an output appears      *)
(* once, after the outputs of everything its phase depends on.             *)
THEOREM RunnerImplementsOrder == Spec => OrderSpec
<1> DEFINE bneeds == [n \in Names |-> UNION {Deps(i) : i \in {j \in Phases : Name(j) = n}}]
           bhave == IF pc \in {"running", "done", "raised", "mistyped"} THEN outputs ELSE seeds
<1>1. Init => Order!Init
  <2> SUFFICES ASSUME Init PROVE Order!Init
    OBVIOUS
  <2>1. Typed
    BY KahnInit
  <2>2. bneeds \in [Names -> SUBSET Names]
    BY <2>1, PhaseFacts DEF Typed
  <2>3. bhave \in SUBSET Names
    BY DEF Init
  <2>4. QED
    BY <2>2, <2>3 DEF Order!Init
<1>2. Typed /\ Kahn /\ Progress /\ [Next]_vars => [Order!Next]_(Order!vars)
  <2> SUFFICES ASSUME Typed, Kahn, Progress, [Next]_vars
               PROVE  Order!Next \/ (bneeds' = bneeds /\ bhave' = bhave)
    BY DEF Order!vars
  <2> USE DEF sorting, context
  <2>1. bneeds' = bneeds
    <3>1. phases' = phases
      BY DEF Next, CheckNames, CheckDeps, Pop, Sorted, Start, Skip, RunPhase, RunFails,
             Finish, vars
    <3>2. QED
      BY <3>1 DEF Deps, Phases, Name
  <2>2. CASE RunPhase
    <3>1. /\ pc = "running" /\ pc' = "running" /\ at \leq Len(ordered)
          /\ Current \notin outputs /\ outputs' = outputs \union {Current}
      BY <2>2 DEF RunPhase, Pending
    <3>2. ordered[at] \in Phases /\ Current \in Names
      BY <3>1, CurrentPhase
    <3>3. bneeds[Current] \subseteq outputs
      <4>1. \A j \in Phases : Name(j) = Current => j = ordered[at]
        BY <3>1, <3>2 DEF Kahn, Early, UniqueNames, Current
      <4>2. QED
        BY <3>1, <3>2, <4>1, NeedsMet
    <3>4. Order!Produce(Current)
      BY <2>1, <3>1, <3>3 DEF Order!Produce
    <3>5. QED
      BY <3>2, <3>4 DEF Order!Next
  <2>3. CASE ~RunPhase
    <3>1. bhave' = bhave
      BY <2>3 DEF Next, CheckNames, CheckDeps, Pop, Sorted, Start, Skip, RunFails, Finish,
                  Pending, vars
    <3>2. QED
      BY <2>1, <3>1
  <2>4. QED
    BY <2>2, <2>3
<1>3. QED
  BY <1>1, <1>2, ProgressAlways, PTL DEF Spec, OrderSpec, Order!Spec
(* If phases read only what their dependencies reach, a run keeps all its    *)
(* promises.                                                               *)
THEOREM SoundRuns == ReadsWithinReach /\ Spec => []RunIsSound
<1> SUFFICES ASSUME ReadsWithinReach PROVE Spec => []RunIsSound
  OBVIOUS
<1>1. Spec => []InputsReady
  BY InputsThere
<1>2. OrderRespectsNeeds /\ DeclarationOrder /\ CycleIsReal /\ InputsReady /\ TimedIsProduced
      => RunIsSound
  BY DEF RunIsSound
<1>3. QED
  BY <1>1, <1>2, SoundOrder, StableOrder, RealCycles, ExactProduction, PTL

=============================================================================
