------------------------------ MODULE Registry ------------------------------
(* ~/.deepdive/registry.json, which every extract and `list --prune` loads,      *)
(* changes and saves. An entry is known by the last part of its repository's     *)
(* path. A save empties the file before it writes it; a file that does not parse *)
(* reads as an empty registry.                                                   *)
EXTENDS FiniteSets, Participants

CONSTANT NameOf      \* the last part of each repository's path

VARIABLES registry,    \* the repositories it lists, or Torn
          loaded,      \* what each actor has loaded
          owed         \* repositories that were registered and must still be listed

regVars == <<registry, loaded, owed>>

Torn == {"torn"}
Free == {"free"}       \* loaded nothing

ASSUME RegistryAssumption ==
    RepoOf \in [Actors -> Repos] /\ "torn" \notin Repos /\ "free" \notin Repos

RegInit == registry = {} /\ loaded = [a \in Actors |-> Free] /\ owed = {}

Read == IF registry = Torn THEN {} ELSE registry

\* Whoever loads while another saves has missed everything, and will save without it.
Load(a) ==
    /\ loaded' = [loaded EXCEPT ![a] = Read]
    /\ owed' = IF registry = Torn THEN {} ELSE owed
    /\ UNCHANGED registry

Truncate(a) == registry' = Torn /\ UNCHANGED <<loaded, owed>>

\* Whoever has loaded an entry, or has it to add, will save it; what another update
\* under way has not loaded is lost to it.
Write(a, repos, promised) ==
    /\ registry' = repos
    /\ loaded' = [loaded EXCEPT ![a] = Free]
    /\ owed' = {r \in promised : \A b \in Actors \ {a} : loaded[b] # Free => r \in loaded[b]}

Others(repos, r) == {q \in repos : NameOf[q] # NameOf[r]}

\* Mutant: the entry that is replaced takes the others with it.
RegisterAlone(a) ==
    Write(a, {RepoOf[a]}, Others(owed, RepoOf[a]) \union {RepoOf[a]})

\* register replaces the entry of the same name, or adds one.
Register(a) ==
    Write(a, Others(loaded[a], RepoOf[a]) \union {RepoOf[a]},
             Others(owed, RepoOf[a]) \union {RepoOf[a]})

\* list --prune looks for the graphs, then saves what it loaded without the others.
Narrow(a, alive) ==
    /\ loaded' = [loaded EXCEPT ![a] = @ \intersect alive]
    /\ owed' = owed \intersect alive
    /\ registry' = Torn

Prune(a) == Write(a, loaded[a], owed)

\* A process that dies between the two steps of a save leaves the file empty, unless
\* another one is saving too.
Forget(a, saving) ==
    /\ loaded' = [loaded EXCEPT ![a] = Free]
    /\ owed' = IF registry = Torn /\ ~saving THEN {} ELSE owed
    /\ UNCHANGED registry
=============================================================================
