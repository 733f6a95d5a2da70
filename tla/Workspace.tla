----------------------------- MODULE Workspace -----------------------------
(* What outlives a command and is shared by all of them: graph file, search      *)
(* index, registry, shims and the record of the last run. Actors are extracts,   *)
(* calls of the server and of the web view's threads, interactive shells and     *)
(* `list --prune`; one step is one access to something shared. Extract models    *)
(* what an extract computes, this module what it does to the others.             *)
EXTENDS GraphFile, Registry, Shims, Sequences

CONSTANTS Role,      \* "extract", "call", "shell" or "prune"
          MaxEdits,  \* changes of the user
          Casts      \* who takes part with how many commands, what the user changes,
                     \* whether a process may die, and the options of an extract

ASSUME CastAssumption == \A c \in Casts : c.runs \in [Actors -> Nat]

VARIABLES cast, pc,
          run,       \* of each actor: its extract, when it opened the graph, what was asked
          runs, edits,
          gen,       \* extracts and removals of a graph so far
          recorded,  \* the sources have not changed since the last recorded run
          done,      \* the last extract of a shell that ended well
          wiped,     \* removals of a graph after which no extract that ended well has
                     \* opened it, 0 for a graph that was never made
          early,     \* actors whose store was opened while there was no whole graph
          answer     \* what the last query of an actor read, or that it was refused

local == <<pc, run, runs, edits, gen, recorded, done, wiped, early, answer>>
vars  == <<cast, local, fileVars, regVars, shimVars>>

NoAnswer == [kind |-> "none", rows |-> {}, index |-> Absent, by |-> {}]
NoRun    == [gen |-> 0, since |-> 0, refresh |-> FALSE]

Init ==
    /\ cast \in Casts
    /\ FileInit /\ RegInit /\ ShimInit
    /\ pc = [a \in Actors |-> "idle"] /\ run = [a \in Actors |-> NoRun]
    /\ runs = [a \in Actors |-> 0] /\ edits = 0 /\ gen = 0
    /\ recorded = [r \in Repos |-> FALSE] /\ done = [a \in Actors |-> 0]
    /\ wiped = {<<r, 0>> : r \in Repos} /\ early = {} /\ answer = [a \in Actors |-> NoAnswer]

Goes(a, from, to) == pc[a] = from /\ pc' = [pc EXCEPT ![a] = to]
Begins(a) == runs[a] < cast.runs[a] /\ runs' = [runs EXCEPT ![a] = @ + 1]
Playing   == {a \in Actors : cast.runs[a] > 0}
Exists(a) == db[RepoOf[a]] # 0

(***************************** extract **************************************)

\* A recorded run of the same sources answers at once, whatever else was asked.
Hit(a) ==
    /\ Role[a] \in {"extract", "shell"} /\ Begins(a) /\ pc[a] = "idle"
    /\ recorded[RepoOf[a]]
    /\ IF Role[a] = "shell" THEN Close(a) ELSE UNCHANGED fileVars
    /\ \E refresh \in cast.refresh : run' = [run EXCEPT ![a] = [NoRun EXCEPT !.refresh = refresh]]
    /\ stale' = [stale EXCEPT ![a] = {}]
    /\ UNCHANGED <<cast, pc, edits, gen, recorded, done, wiped, early, answer, regVars, text, targets, aim>>

\* Without a record, or forced. The shell hands its store back before it extracts.
Start(a) ==
    /\ Role[a] \in {"extract", "shell"} /\ Begins(a) /\ Goes(a, "idle", "wipe")
    /\ IF Role[a] = "shell" THEN Close(a) ELSE UNCHANGED fileVars
    /\ gen' = gen + 1
    /\ \E refresh \in cast.refresh :
        run' = [run EXCEPT ![a] = [NoRun EXCEPT !.gen = gen + 1, !.refresh = refresh]]
    /\ UNCHANGED <<cast, edits, recorded, done, wiped, early, answer, regVars, shimVars>>

WipeDb(a) ==
    /\ Goes(a, "wipe", "wipe wal") /\ UnlinkDb(a)
    /\ gen' = gen + 1 /\ wiped' = wiped \union {<<RepoOf[a], gen + 1>>}
    /\ UNCHANGED <<cast, run, runs, edits, recorded, done, early, answer, regVars, shimVars>>

WipeWal(a) ==
    /\ Goes(a, "wipe wal", "connect") /\ UnlinkWal(a)
    /\ UNCHANGED <<cast, run, runs, edits, gen, recorded, done, wiped, early, answer, regVars, shimVars>>

Connect(a) ==
    /\ Goes(a, "connect", "write") /\ Open(a)
    /\ run' = [run EXCEPT ![a].since = gen]
    /\ UNCHANGED <<cast, runs, edits, gen, recorded, done, wiped, early, answer, regVars, shimVars>>

Written(a) == {x[2] : x \in {y \in Stored(a) : y[1] = run[a].gen}}

\* Mutant: a batch is inserted by a connection of its own.
WriteBatchAlone(a) ==
    /\ Goes(a, "write", "connect") /\ Written(a) # 1..Batches
    /\ handle' = [handle EXCEPT ![a] = Closed]
    /\ files' = [files EXCEPT ![handle[a].wal] = @ \union {<<run[a].gen, Cardinality(Written(a)) + 1>>}]
    /\ UNCHANGED <<platform, db, wal, index>>
    /\ UNCHANGED <<cast, run, runs, edits, gen, recorded, done, wiped, early, answer, regVars, shimVars>>

WriteBatch(a) ==
    /\ pc[a] = "write" /\ Written(a) # 1..Batches
    /\ Insert(a, run[a].gen, Cardinality(Written(a)) + 1)
    /\ UNCHANGED <<cast, local, regVars, shimVars>>

WriteIndex(a) ==
    /\ Goes(a, "write", "close") /\ Written(a) = 1..Batches /\ BuildIndex(a)
    /\ UNCHANGED <<cast, run, runs, edits, gen, recorded, done, wiped, early, answer, regVars, shimVars>>

CloseGraph(a) ==
    /\ Goes(a, "close", "shims") /\ Close(a) /\ BeginShims(a, cast.shims)
    /\ UNCHANGED <<cast, run, runs, edits, gen, recorded, done, wiped, early, answer, regVars>>

WriteShim(a) ==
    /\ pc[a] = "shims" /\ Visit(a, run[a].refresh)
    /\ UNCHANGED <<cast, local, fileVars, regVars>>

Record(a) ==
    /\ Goes(a, "shims", "load") /\ targets[a] = {} /\ aim[a] = NoAim
    /\ recorded' = [recorded EXCEPT ![RepoOf[a]] = TRUE]
    /\ UNCHANGED <<cast, run, runs, edits, gen, done, wiped, early, answer, fileVars, regVars, shimVars>>

LoadRegistry(a) ==
    /\ Goes(a, "load", "truncate") /\ Load(a)
    /\ UNCHANGED <<cast, run, runs, edits, gen, recorded, done, wiped, early, answer, fileVars, shimVars>>

TruncateRegistry(a) ==
    /\ Goes(a, "truncate", "save") /\ Truncate(a)
    /\ UNCHANGED <<cast, run, runs, edits, gen, recorded, done, wiped, early, answer, fileVars, shimVars>>

Finish(a) ==
    /\ Role[a] # "prune" /\ Goes(a, "save", "idle") /\ Register(a)
    /\ done' = [done EXCEPT ![a] = run[a].gen]
    /\ wiped' = wiped \ {<<RepoOf[a], g>> : g \in 0..run[a].since}
    /\ UNCHANGED <<cast, run, runs, edits, gen, recorded, early, answer, fileVars, shimVars>>

Refused(a) ==
    answer' = [answer EXCEPT ![a] = [NoAnswer EXCEPT !.kind = "refused", !.by = Holders(a, db[RepoOf[a]])]]

\* An exception ends the command, and with it an interactive shell.
Ended(a) == IF Role[a] = "shell" THEN "dead" ELSE "idle"

\* The file is in use or locked.
Locked(a) ==
    /\ \/ pc[a] = "wipe" /\ InUse(db[RepoOf[a]])
       \/ pc[a] = "wipe wal" /\ InUse(wal[RepoOf[a]])
       \/ pc[a] = "connect" /\ Holders(a, db[RepoOf[a]]) # {}
    /\ pc' = [pc EXCEPT ![a] = Ended(a)] /\ Refused(a)
    /\ UNCHANGED <<cast, run, runs, edits, gen, recorded, done, wiped, early, fileVars, regVars, shimVars>>

\* A target was deleted between the look for it and its reading.
LoseShim(a) ==
    /\ pc[a] = "shims" /\ Vanished(a)
    /\ pc' = [pc EXCEPT ![a] = Ended(a)]
    /\ UNCHANGED <<cast, run, runs, edits, gen, recorded, done, wiped, early, answer, fileVars, regVars, shimVars>>

\* Somebody else's rows have the same keys. The store is closed on the way out.
Collide(a) ==
    /\ pc[a] = "write" /\ Written(a) # 1..Batches /\ Collides(a, Cardinality(Written(a)) + 1)
    /\ pc' = [pc EXCEPT ![a] = Ended(a)] /\ Close(a)
    /\ UNCHANGED <<cast, run, runs, edits, gen, recorded, done, wiped, early, answer, regVars, shimVars>>

OthersSave(a) == \E b \in Actors \ {a} : pc[b] \in {"save", "prune"}

\* A kill anywhere; the process does not come back.
Die(a) ==
    /\ cast.dies /\ Role[a] = "extract" /\ pc[a] \notin {"idle", "dead"}
    /\ pc' = [pc EXCEPT ![a] = "dead"] /\ Drop(a)
    /\ IF pc[a] \in {"truncate", "save"} THEN Forget(a, OthersSave(a)) ELSE UNCHANGED regVars
    /\ UNCHANGED <<cast, run, runs, edits, gen, recorded, done, wiped, early, answer, shimVars>>

(***************************** queries **************************************)

Answers(a, kind, rows, words) ==
    answer' = [answer EXCEPT ![a] = [kind |-> kind, rows |-> rows, index |-> words, by |-> {}]]

Lacking(r) == \E w \in wiped : w[1] = r

OpenNow(a) ==
    /\ Open(a)
    /\ early' = IF Lacking(RepoOf[a]) THEN early \union {a} ELSE early \ {a}

\* A path-taking tool opens a store of its own. The server looks for the graph only
\* when it starts; the shell looks each time, and hands its store back first.
CallOpen(a) ==
    /\ Role[a] = "call" /\ (runs[a] = 0 => Exists(a)) /\ Begins(a) /\ Goes(a, "idle", "reading") /\ OpenNow(a)
    /\ UNCHANGED <<cast, run, edits, gen, recorded, done, wiped, answer, regVars, shimVars>>

\* Mutant: the tool opens a second store beside the shell's.
ToolReleaseNot(a) ==
    /\ Role[a] = "shell" /\ Exists(a) /\ Begins(a) /\ Goes(a, "idle", "tool")
    /\ UNCHANGED <<cast, run, edits, gen, recorded, done, wiped, early, answer, fileVars, regVars, shimVars>>

ToolRelease(a) ==
    /\ Role[a] = "shell" /\ Exists(a) /\ Begins(a) /\ Goes(a, "idle", "tool") /\ Close(a)
    /\ UNCHANGED <<cast, run, edits, gen, recorded, done, wiped, early, answer, regVars, shimVars>>

ToolOpen(a) ==
    /\ Goes(a, "tool", "reading") /\ OpenNow(a)
    /\ UNCHANGED <<cast, run, runs, edits, gen, recorded, done, wiped, answer, regVars, shimVars>>

ReadClose(a) ==
    /\ Goes(a, "reading", "idle") /\ Answers(a, "tool", Stored(a), Absent) /\ Close(a)
    /\ UNCHANGED <<cast, run, runs, edits, gen, recorded, done, wiped, early, regVars, shimVars>>

CannotOpen(a) ==
    /\ \/ pc[a] = "idle" /\ Begins(a) /\ Role[a] = "call" /\ (runs[a] = 0 => Exists(a))
       \/ pc[a] = "idle" /\ Begins(a) /\ Role[a] = "shell" /\ Exists(a) /\ ~Holds(a)
       \/ pc[a] = "tool" /\ UNCHANGED runs
    /\ pc' = [pc EXCEPT ![a] = Ended(a)]
    /\ Holders(a, db[RepoOf[a]]) # {} /\ Refused(a)
    /\ UNCHANGED <<cast, run, edits, gen, recorded, done, wiped, early, fileVars, regVars, shimVars>>

\* A question in the shell: the store is opened once and kept.
Ask(a) ==
    /\ Role[a] = "shell" /\ Exists(a) /\ pc[a] = "idle" /\ ~Holds(a) /\ Begins(a) /\ OpenNow(a)
    /\ UNCHANGED <<cast, pc, run, edits, gen, recorded, done, wiped, answer, regVars, shimVars>>

\* It is answered from the open store and the index that is there now, which is
\* built from the store when there is none.
AskHeld(a) ==
    /\ Role[a] = "shell" /\ Exists(a) /\ pc[a] = "idle" /\ Holds(a)
    /\ IF index[RepoOf[a]] = Absent
       THEN BuildIndex(a) /\ Answers(a, "question", Stored(a), Extracts(Stored(a)))
       ELSE UNCHANGED fileVars /\ Answers(a, "question", Stored(a), index[RepoOf[a]])
    /\ UNCHANGED <<cast, pc, run, runs, edits, gen, recorded, done, wiped, early, regVars, shimVars>>

(***************************** the others ***********************************)

PruneLoad(a) ==
    /\ Role[a] = "prune" /\ Begins(a) /\ Goes(a, "idle", "look") /\ Load(a)
    /\ UNCHANGED <<cast, run, edits, gen, recorded, done, wiped, early, answer, fileVars, shimVars>>

Alive == {r \in Repos : db[r] # 0}

\* Saves only what it can drop something from.
PruneLook(a) ==
    /\ pc[a] = "look"
    /\ IF loaded[a] \subseteq Alive
       THEN pc' = [pc EXCEPT ![a] = "idle"] /\ Forget(a, OthersSave(a))
       ELSE pc' = [pc EXCEPT ![a] = "prune"] /\ Narrow(a, Alive)
    /\ UNCHANGED <<cast, run, runs, edits, gen, recorded, done, wiped, early, answer, fileVars, shimVars>>

PruneSave(a) ==
    /\ Goes(a, "prune", "idle") /\ Prune(a)
    /\ UNCHANGED <<cast, run, runs, edits, gen, recorded, done, wiped, early, answer, fileVars, shimVars>>

\* The user changes a source, a shim, or deletes a graph.
UserEdit ==
    /\ edits < MaxEdits /\ edits' = edits + 1
    /\ \/ /\ "source" \in cast.user /\ \E r \in Repos : recorded' = [recorded EXCEPT ![r] = FALSE]
          /\ UNCHANGED <<gen, wiped, fileVars, shimVars>>
       \/ /\ "shim" \in cast.user /\ \E t \in Targets : Edit(t)
          /\ UNCHANGED <<recorded, gen, wiped, fileVars>>
       \/ /\ "graph" \in cast.user
          /\ \E r \in Repos : /\ db[r] # 0 /\ ~InUse(db[r]) /\ ~InUse(wal[r])
                               /\ db' = [db EXCEPT ![r] = 0] /\ wal' = [wal EXCEPT ![r] = 0]
                               /\ gen' = gen + 1 /\ wiped' = wiped \union {<<r, gen + 1>>}
          /\ UNCHANGED <<platform, files, handle, index, recorded, shimVars>>
    /\ UNCHANGED <<cast, pc, run, runs, done, early, answer, regVars>>

Step(a) ==
    \/ Hit(a) \/ Start(a) \/ WipeDb(a) \/ WipeWal(a) \/ Connect(a) \/ WriteBatch(a)
    \/ WriteIndex(a) \/ CloseGraph(a) \/ WriteShim(a) \/ LoseShim(a) \/ Record(a) \/ LoadRegistry(a)
    \/ TruncateRegistry(a) \/ Finish(a) \/ Locked(a) \/ Collide(a) \/ Die(a)
    \/ CallOpen(a) \/ ToolRelease(a) \/ ToolOpen(a) \/ ReadClose(a) \/ CannotOpen(a)
    \/ Ask(a) \/ AskHeld(a)
    \/ PruneLoad(a) \/ PruneLook(a) \/ PruneSave(a)

Next == UserEdit \/ \E a \in Actors : Step(a)
Spec == Init /\ [][Next]_vars

(***************************** properties ***********************************)

\* The rows under a graph's name are of one extract, and from the first batch on,
\* whoever wiped, filled, opened or died in between. (Threads of one process that
\* share a graph while four extracts overlap are beyond it, and beyond these casts.)
GraphOfOneExtract ==
    \A r \in Repos :
        LET rows == (IF db[r] = 0 THEN {} ELSE files[db[r]]) \union (IF wal[r] = 0 THEN {} ELSE files[wal[r]])
        IN \A x, y \in rows : x[1] = y[1] /\ \A b \in 1..x[2] : <<x[1], b>> \in rows

Whole(rows) == \E g \in Extracts(rows) : rows = {<<g, b>> : b \in 1..Batches}

FillersOf(r) == {a \in Playing : Role[a] \in {"extract", "shell"} /\ RepoOf[a] = r}

\* A query sees all that one extract stored. It sees less only from a store that was
\* opened when the graph had been removed and no extract that came after had ended.
\* Of three extracts at once, one may write into the log that the wipes of the others
\* left, and a reader may then see rows of two.
AnswersAreWhole ==
    [][\A a \in Actors : /\ answer'[a] # answer[a] /\ answer'[a].kind \in {"tool", "question"}
                         /\ Cardinality(FillersOf(RepoOf[a])) <= 2
                         => Whole(answer'[a].rows) \/ a \in early]_vars

\* cli/interactive/shell.py:23-25: what a shell answers after an extract of its own
\* is from that extract, the index included, when nobody else extracts the repository.
OwnExtractIsSeen ==
    [][\A a \in Actors :
         /\ answer'[a] # answer[a] /\ answer'[a].kind \in {"tool", "question"}
         /\ Role[a] = "shell" /\ done[a] # 0 /\ a \notin early
         /\ FillersOf(RepoOf[a]) \subseteq {a}
         => /\ Extracts(answer'[a].rows) = {done[a]}
            /\ answer'[a].kind = "question" => answer'[a].index = {done[a]}]_vars

\* No actor is refused the graph because of a handle of its own.
NotInItsOwnWay == \A a \in Actors : a \notin answer[a].by

\* An entry is listed, or about to be by who is saving, until a repository of the same
\* name is registered, its graph is found gone, a process dies alone in a save, or an
\* update saves that had loaded the registry before the entry was in it, or while
\* another one was saving. What overlapping updates have all loaded is kept.
RegistryOwes ==
    \/ registry # Torn /\ owed \subseteq registry
    \/ registry = Torn /\ (owed # {} => \E a \in Actors : pc[a] \in {"save", "prune"} /\ owed \subseteq loaded[a])

\* registry.py:3-4: it "records every repo that has been analyzed". Not so: of two
\* extracts that end at once one is lost, and so is the first of two repositories with
\* one name.
EveryExtractIsListed ==
    \A a \in Actors : /\ done[a] # 0 /\ Exists(a)
                      /\ \A b \in Actors : loaded[b] = Free
                      => RepoOf[a] \in Read

\* emit/shims.py:487-489: no command overwrites a file without the mark that it found
\* at the target, whoever else is at it and however often it is refreshed. One that is
\* put there after a command has looked may be.
UserTextIsKept ==
    [][\A t \in Targets : text[t] = Foreign /\ text'[t] # Foreign =>
         \/ edits' # edits
         \/ \E a \in Actors : aim[a].target = t /\ aim[a].found # Foreign /\ aim'[a] # aim[a]]_vars

\* cli/app.py:109: "hand-edited files are never touched". Not so: a shim that was edited
\* keeps its mark and is rewritten, and so is a file of the user's that has the word.
HandEditsAreKept ==
    [][\A t \in Targets : text[t] # Nothing /\ text[t][1] \in {"foreign", "mention", "edited"}
                            /\ text'[t] # text[t] => edits' # edits]_vars

\* cli/style/render.py:205-218: "out of date - re-run with --refresh-shims". A run
\* that was told so, on the sources of the run that said it, leaves nothing of ours
\* out of date.
AdviceWorks ==
    [][\A a \in Actors : runs'[a] # runs[a] /\ stale[a] # {} /\ pc'[a] = "idle" /\ run'[a].refresh =>
         \A t \in stale[a] : text'[t] = Ours(Release[a]) \/ ~Owned(text'[t])]_vars
=============================================================================
