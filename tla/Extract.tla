------------------------------ MODULE Extract ------------------------------
(***************************************************************************)
(* One repository and the `forensic extract` runs over it: run_extract in  *)
(* pipeline/extract.py with the state it keeps on disk.  A run             *)
(* fingerprints the inventoried files, compares the fingerprint with       *)
(* last_run.json, and either returns a cache hit or reparses the files,    *)
(* rebuilds the knowledge graph and its lexical sidecar, rewrites the      *)
(* artifacts and records the run.  Around it the developer edits files,    *)
(* commits, deletes artifacts and interrupts runs, in every order.         *)
(*                                                                         *)
(* The content of a file is a version number.  A larger number is content  *)
(* the file never had before; going back to a smaller one is a revert (a   *)
(* git checkout, an undone edit).                                          *)
(***************************************************************************)
EXTENDS Naturals

CONSTANTS
    Procs,        \* extract processes
    Files,        \* inventoried files; a file's absence is one of its versions
    Versions,     \* contents a file can have
    Outsides,     \* states of what a run reads beyond the inventoried files
    OutDirs,      \* output directories a run may be given
    Artifacts,    \* names EmitPhase writes: the five of render_all, ARCHITECTURE.md
    None,         \* nothing there (no file, no record, not read yet)
    Torn          \* there, but not the result of a finished write

CONSTANTS         \* what the environment does
    Reverts,      \* file contents come back
    MidRunEdits,  \* files change while a run is going on
    Aborts,       \* runs are killed, or a phase raises
    Forced,       \* --force is used
    Deletes       \* artifacts of a recorded run are deleted by hand

ASSUME VersionsAssumption == Versions \subseteq Nat /\ Outsides \subseteq Nat
ASSUME ArtifactsAssumption == Artifacts # {}
ASSUME FlagsAssumption ==
    {Reverts, MidRunEdits, Aborts, Forced, Deletes} \subseteq BOOLEAN

VARIABLES
    tree,         \* the working tree
    outside,      \* what a run reads beyond the inventoried files: git history,
                  \* API specifications, the tool's own version
    store,        \* the graph database and the lexical index beside it
    art,          \* artifact files by output directory
    lastRun,      \* last_run.json: the fingerprint it holds
    pc,           \* where each run is
    out, force,   \* its arguments
    fingerprint,  \* the file versions it hashed
    unread,       \* files its present pass over the repository has yet to read
    taken,        \* the file versions that have gone into what it derives
    beyond,       \* what it read of `outside`
    left,         \* artifacts it has still to write
    writing       \* the artifact it is writing

disk    == <<store, art, lastRun>>
args    == <<out, force>>
reading == <<fingerprint, unread, taken, beyond>>
emitting == <<left, writing>>
vars    == <<tree, outside, disk, pc, args, reading, emitting>>

Stores == {"graph", "lexical"}
Steps  == {"idle", "hash", "hit", "parse", "outside", "wipe", "fill",
           "lexwipe", "lexfill", "emit", "record", "recording"}

(* What a complete analysis leaves in an artifact or a store: of each file  *)
(* the contents it was derived from, which are several when the file was    *)
(* edited between two of the times a run reads it.                         *)
Snapshots == [tree: [Files -> SUBSET Versions], outside: Outsides]
Only(v)   == [f \in Files |-> {v[f]}]

ASSUME SentinelAssumption == /\ None \notin Nat
                             /\ None # Torn
                             /\ None \notin Snapshots \union Artifacts
Snapshot(p) == [tree |-> taken[p], outside |-> beyond[p]]

Partial == [Files -> Versions \union {None}]
Unread  == [f \in Files |-> None]
Complete(reads) == \A f \in Files : reads[f] # None

TypeOK ==
    /\ tree \in [Files -> Versions]
    /\ outside \in Outsides
    /\ store \in [Stores -> Snapshots \union {None, Torn}]
    /\ art \in [OutDirs -> [Artifacts -> Snapshots \union {None, Torn}]]
    /\ lastRun \in [Files -> Versions] \union {None}
    /\ pc \in [Procs -> Steps]
    /\ out \in [Procs -> OutDirs]
    /\ force \in [Procs -> BOOLEAN]
    /\ fingerprint \in [Procs -> Partial]
    /\ unread \in [Procs -> SUBSET Files]
    /\ taken \in [Procs -> [Files -> SUBSET Versions]]
    /\ beyond \in [Procs -> Outsides \union {None}]
    /\ left \in [Procs -> SUBSET Artifacts]
    /\ writing \in [Procs -> Artifacts \union {None}]
-----------------------------------------------------------------------------
Init ==
    /\ tree \in [Files -> Versions]
    /\ outside \in Outsides
    /\ store = [s \in Stores |-> None]
    /\ art = [d \in OutDirs |-> [a \in Artifacts |-> None]]
    /\ lastRun = None
    /\ pc = [p \in Procs |-> "idle"]
    /\ out \in [Procs -> OutDirs]
    /\ force = [p \in Procs |-> FALSE]
    /\ fingerprint = [p \in Procs |-> Unread]
    /\ unread = [p \in Procs |-> {}]
    /\ taken = [p \in Procs |-> [f \in Files |-> {}]]
    /\ beyond = [p \in Procs |-> None]
    /\ left = [p \in Procs |-> {}]
    /\ writing = [p \in Procs |-> None]

Goto(p, from, to) == /\ pc[p] = from
                     /\ pc' = [pc EXCEPT ![p] = to]

(* run_extract is called; InventoryPhase walks the repository. *)
Start(p, d, forced) ==
    /\ Goto(p, "idle", "hash")
    /\ forced => Forced
    /\ out' = [out EXCEPT ![p] = d]
    /\ force' = [force EXCEPT ![p] = forced]
    /\ left' = [left EXCEPT ![p] = Artifacts]
    /\ UNCHANGED <<tree, outside, disk, reading, writing>>

(* The run is over, however it ended: its locals are gone. *)
Leave(p) ==
    /\ pc' = [pc EXCEPT ![p] = "idle"]
    /\ force' = [force EXCEPT ![p] = FALSE]
    /\ fingerprint' = [fingerprint EXCEPT ![p] = Unread]
    /\ unread' = [unread EXCEPT ![p] = {}]
    /\ taken' = [taken EXCEPT ![p] = [f \in Files |-> {}]]
    /\ beyond' = [beyond EXCEPT ![p] = None]
    /\ left' = [left EXCEPT ![p] = {}]
    /\ writing' = [writing EXCEPT ![p] = None]
    /\ UNCHANGED <<tree, outside, store, art, out>>

(* repo_fingerprint reads one more file. *)
Hash(p, f) ==
    /\ pc[p] = "hash"
    /\ fingerprint[p][f] = None
    /\ fingerprint' = [fingerprint EXCEPT ![p][f] = tree[f]]
    /\ UNCHANGED <<tree, outside, disk, pc, args, unread, taken, beyond, emitting>>

(* The cache test: last_run.json holds this very fingerprint and every     *)
(* artifact it names is a file of the output directory.  Neither the       *)
(* directory nor the tool version it was recorded with is looked at.       *)
IsHit(p) ==
    /\ ~force[p]
    /\ lastRun # None
    /\ lastRun = fingerprint[p]
    /\ \A a \in Artifacts : art[out[p]][a] # None

CacheHit(p) ==
    /\ Goto(p, "hash", "hit")
    /\ Complete(fingerprint[p])
    /\ IsHit(p)
    /\ UNCHANGED <<tree, outside, disk, args, reading, emitting>>

CacheMiss(p) ==
    /\ Goto(p, "hash", "parse")
    /\ Complete(fingerprint[p])
    /\ ~IsHit(p)
    /\ unread' = [unread EXCEPT ![p] = Files]
    /\ UNCHANGED <<tree, outside, disk, args, fingerprint, taken, beyond, emitting>>

Return(p) ==
    /\ pc[p] = "hit"
    /\ Leave(p)
    /\ UNCHANGED lastRun

(* A file is read as it is by now; what it says goes into the analysis.    *)
Take(p, f) ==
    /\ taken' = [taken EXCEPT ![p][f] = @ \union {tree[f]}]
    /\ UNCHANGED <<tree, outside, disk, pc, args, fingerprint, beyond, emitting>>

(* ParsePhase and StaticPhase: every file is read again and parsed. *)
Parse(p, f) ==
    /\ pc[p] = "parse"
    /\ f \in unread[p]
    /\ unread' = [unread EXCEPT ![p] = @ \ {f}]
    /\ Take(p, f)

ParseDone(p) ==
    /\ Goto(p, "parse", "outside")
    /\ unread[p] = {}
    /\ UNCHANGED <<tree, outside, disk, args, reading, emitting>>

(* ContractPhase: each extractor reads the files of its languages anew.     *)
Scan(p, f) ==
    /\ pc[p] = "outside"
    /\ Take(p, f)
    /\ UNCHANGED unread

(* It reads the specifications, too, and HistoryPhase the git log. *)
ReadOutside(p) ==
    /\ Goto(p, "outside", "wipe")
    /\ beyond' = [beyond EXCEPT ![p] = outside]
    /\ UNCHANGED <<tree, outside, disk, args, fingerprint, unread, taken, emitting>>

(* BuildGraphPhase deletes the database in place before it rebuilds it ... *)
WipeGraph(p) ==
    /\ Goto(p, "wipe", "fill")
    /\ store' = [store EXCEPT !["graph"] = Torn]
    /\ unread' = [unread EXCEPT ![p] = Files]
    /\ UNCHANGED <<tree, outside, art, lastRun, args, fingerprint, taken, beyond, emitting>>

(* ... with a row for each file, which is read once more for its hash and   *)
(* its lines ...                                                           *)
FileRow(p, f) ==
    /\ pc[p] = "fill"
    /\ f \in unread[p]
    /\ unread' = [unread EXCEPT ![p] = @ \ {f}]
    /\ Take(p, f)

FillGraph(p) ==
    /\ Goto(p, "fill", "lexwipe")
    /\ unread[p] = {}
    /\ store' = [store EXCEPT !["graph"] = Snapshot(p)]
    /\ UNCHANGED <<tree, outside, art, lastRun, args, reading, emitting>>

(* ... and does the same with the lexical index. *)
WipeLexical(p) ==
    /\ Goto(p, "lexwipe", "lexfill")
    /\ store' = [store EXCEPT !["lexical"] = Torn]
    /\ UNCHANGED <<tree, outside, art, lastRun, args, reading, emitting>>

FillLexical(p) ==
    /\ Goto(p, "lexfill", "emit")
    /\ store' = [store EXCEPT !["lexical"] = Snapshot(p)]
    /\ UNCHANGED <<tree, outside, art, lastRun, args, reading, emitting>>

(* EmitPhase: Path.write_text truncates an artifact, then writes it; what   *)
(* goes into a file deleted in between is gone with it.                    *)
OpenArtifact(p, a) ==
    /\ pc[p] = "emit"
    /\ writing[p] = None
    /\ a \in left[p]
    /\ writing' = [writing EXCEPT ![p] = a]
    /\ left' = [left EXCEPT ![p] = @ \ {a}]
    /\ art' = [art EXCEPT ![out[p]][a] = Torn]
    /\ UNCHANGED <<tree, outside, store, lastRun, pc, args, reading>>

WriteArtifact(p) ==
    /\ pc[p] = "emit"
    /\ writing[p] # None
    /\ art' = [art EXCEPT ![out[p]][writing[p]] =
                   IF @ = None THEN None ELSE Snapshot(p)]
    /\ writing' = [writing EXCEPT ![p] = None]
    /\ UNCHANGED <<tree, outside, store, lastRun, pc, args, reading, left>>

(* Mutant: the loop over the artifacts stops at the first one. *)
EmitDoneEarly(p) ==
    /\ Goto(p, "emit", "record")
    /\ writing[p] = None /\ left[p] # Artifacts
    /\ UNCHANGED <<tree, outside, disk, args, reading, emitting>>

EmitDone(p) ==
    /\ Goto(p, "emit", "record")
    /\ left[p] = {} /\ writing[p] = None
    /\ UNCHANGED <<tree, outside, disk, args, reading, emitting>>

(* write_last_run: the truncated file is unparsable, hence no record. *)
OpenLastRun(p) ==
    /\ Goto(p, "record", "recording")
    /\ lastRun' = None
    /\ UNCHANGED <<tree, outside, store, art, args, reading, emitting>>

(* Mutant: the fingerprint is taken once more at the end of the run. *)
WriteLastRunRehashed(p) ==
    /\ pc[p] = "recording"
    /\ lastRun' = tree
    /\ Leave(p)

WriteLastRun(p) ==
    /\ pc[p] = "recording"
    /\ lastRun' = fingerprint[p]
    /\ Leave(p)

(* The process is killed, or an exception leaves run_extract. *)
Abort(p) ==
    /\ Aborts
    /\ pc[p] # "idle"
    /\ Leave(p)
    /\ UNCHANGED lastRun
-----------------------------------------------------------------------------
(* The environment. *)
Quiet == \A p \in Procs : pc[p] = "idle"

Edit(f, v) ==
    /\ MidRunEdits \/ Quiet
    /\ v > tree[f] \/ (Reverts /\ v # tree[f])
    /\ tree' = [tree EXCEPT ![f] = v]
    /\ UNCHANGED <<outside, disk, pc, args, reading, emitting>>

(* A commit, a changed specification, an upgrade of the tool. *)
ChangeOutside(v) ==
    /\ MidRunEdits \/ Quiet
    /\ v > outside
    /\ outside' = v
    /\ UNCHANGED <<tree, disk, pc, args, reading, emitting>>

(* What no recorded run left may be cleared away at any time.              *)
DeleteArtifact(d, a) ==
    /\ Deletes \/ (Quiet /\ lastRun = None)
    /\ art[d][a] # None
    /\ art' = [art EXCEPT ![d][a] = None]
    /\ UNCHANGED <<tree, outside, store, lastRun, pc, args, reading, emitting>>

Run(p) ==
    \/ \E f \in Files : Hash(p, f) \/ Parse(p, f) \/ Scan(p, f) \/ FileRow(p, f)
    \/ CacheHit(p) \/ CacheMiss(p) \/ Return(p)
    \/ ParseDone(p) \/ ReadOutside(p)
    \/ WipeGraph(p) \/ FillGraph(p) \/ WipeLexical(p) \/ FillLexical(p)
    \/ \E a \in Artifacts : OpenArtifact(p, a)
    \/ WriteArtifact(p) \/ EmitDone(p)
    \/ OpenLastRun(p) \/ WriteLastRun(p)

Environment ==
    \/ \E f \in Files, v \in Versions : Edit(f, v)
    \/ \E v \in Outsides : ChangeOutside(v)
    \/ \E d \in OutDirs, a \in Artifacts : DeleteArtifact(d, a)

Next ==
    \/ \E p \in Procs, d \in OutDirs, forced \in BOOLEAN : Start(p, d, forced)
    \/ \E p \in Procs : Run(p) \/ Abort(p)
    \/ Environment

Spec == Init /\ [][Next]_vars
-----------------------------------------------------------------------------
(* Everything a later reader takes from output directory d shows the file  *)
(* contents v: each artifact, the graph, and the lexical index.            *)
Shows(d, v) ==
    /\ \A a \in Artifacts : art[d][a] \in Snapshots /\ art[d][a].tree = Only(v)
    /\ \A s \in Stores : store[s] \in Snapshots /\ store[s].tree = Only(v)

(* A run that decides on a cache hit, "artifacts already current", finds   *)
(* on disk a finished analysis of exactly the file contents it hashed: no  *)
(* earlier run's leftovers, nothing half written, no other run's output.   *)
HitIsCurrent ==
    [][\A p \in Procs :
          pc[p] = "hash" /\ pc'[p] = "hit" => Shows(out[p], fingerprint[p])]_vars

(* A run that records itself leaves one analysis behind: every artifact    *)
(* that is there, the graph and the index are of what this run has read,   *)
(* and of the very contents the record names unless a file has moved on    *)
(* since it was hashed.  (When one has, they may mix two of its contents:   *)
(* see OneReading.)                                                        *)
RecordedRunIsWhole ==
    [][\A p \in Procs : pc[p] = "recording" /\ lastRun' # None =>
          /\ \A a \in Artifacts : art[out[p]][a] \in {None, Snapshot(p)}
          /\ \A s \in Stores : store[s] = Snapshot(p)
          /\ ~Reverts /\ tree = lastRun' => Snapshot(p).tree = Only(lastRun')]_vars

(* A graph that was filled shows each file in one content.  It need not:   *)
(* the parser, each extractor and the file's row read it for themselves.    *)
OneReading ==
    store["graph"] \in Snapshots => \E v \in [Files -> Versions] : store["graph"].tree = Only(v)

(* The same decision, and what was read beyond the files has not changed   *)
(* since either: the git history behind ARCHAEOLOGY.md and HOTPATHS.md, the *)
(* API specifications behind the endpoints, the version of the tool.       *)
HitCoversAllInputs ==
    [][\A p \in Procs : pc[p] = "hash" /\ pc'[p] = "hit" =>
          \A a \in Artifacts : art[out[p]][a] # Torn
                               => art[out[p]][a].outside = outside]_vars
=============================================================================
