----------------------------- MODULE ParseCache -----------------------------
(***************************************************************************)
(* The content-addressed parse cache (static/parse_cache.py) and the       *)
(* ParsePhase that uses it (pipeline/phases.py).  Pass 1 reads and hashes  *)
(* every source file and asks the cache; the misses go to worker processes *)
(* that read the file again and parse it; when all of them are back the    *)
(* parent writes the new entries, each through a temporary file, and last  *)
(* the manifest.  Several extracts may share one cache; runs are killed,   *)
(* writes fail, entries are damaged and files change around them.          *)
(*                                                                         *)
(* A content hash is the content, so an entry's key and the records it     *)
(* holds are of one shape: what was parsed, as which language, by which    *)
(* build of the parser.  An entry also says of which content and language  *)
(* it is, and that is compared when it is used.                            *)
(***************************************************************************)
EXTENDS Naturals

CONSTANTS
    Procs,         \* extract processes
    Paths,         \* source files
    Contents,      \* what a file can hold
    Languages,
    Language,      \* of a path
    Builds,        \* (PARSER_VERSION, tags.scm) pairs
    None,
    Torn,          \* a half-written entry
    Damages,       \* ways the environment spoils an entry: not JSON, ...
    Undecodable    \* ... not even UTF-8

CONSTANTS
    Misnaming(_, _),  \* which entry may get which name
    MidRun,        \* what a file may become while a run is going on; None: it
                   \* may vanish
    Failures

ASSUME DamagesAssumption == Undecodable \subseteq Damages
ASSUME LanguageAssumption == Language \in [Paths -> Languages]

VARIABLES
    file,          \* content of each path, None when it does not exist
    entry,         \* the cache directory
    manifest,      \* its manifest: the content hash of each path
    pc,
    build, cached, \* this process's parser, and whether it uses the cache
    todo,          \* paths pass 1 has still to read
    seen,          \* content hashed in pass 1; None when unread or unreadable
    result,        \* ParseResult of a path
    unsaved,       \* parsed results that are not in the cache yet
    saving,        \* the path whose entry is being written
    diff,          \* the manifest diff the phase returns
    rested         \* no file has changed since this run began

config == <<build, cached>>
vars == <<file, entry, manifest, pc, config, todo, seen, result, unsaved, saving,
          diff, rested>>

Keys    == [content : Contents, language : Languages, build : Builds]
Entries == [content : Contents, language : Languages, records : Keys]
Results == [path : Paths, content : Contents, language : Languages, build : Builds]
Diffs   == [changed : SUBSET Paths, added : SUBSET Paths, removed : SUBSET Paths]
Steps   == {"idle", "hash", "parse", "save", "diff", "manifest", "done", "failed"}

ASSUME SentinelAssumption ==
    /\ None \notin Contents \union Entries \union Results \union Paths \union Diffs
    /\ Torn \notin Damages \union Entries \union {None}
    /\ Damages \intersect (Entries \union {None}) = {}

Nothing == [f \in Paths |-> None]
NoDiff  == [changed |-> {}, added |-> {}, removed |-> {}]

(* parse_and_extract: what the parser of a build makes of some bytes.      *)
Parsed(f, c, b) ==
    [path |-> f, content |-> c, language |-> Language[f], build |-> b]

Key(f, c, b) == [content |-> c, language |-> Language[f], build |-> b]

TypeOK ==
    /\ file \in [Paths -> Contents \union {None}]
    /\ entry \in [Keys -> Entries \union Damages \union {None, Torn}]
    /\ manifest \in [Paths -> Contents \union {None}]
    /\ pc \in [Procs -> Steps]
    /\ build \in [Procs -> Builds]
    /\ cached \in [Procs -> BOOLEAN]
    /\ todo \in [Procs -> SUBSET Paths]
    /\ seen \in [Procs -> [Paths -> Contents \union {None}]]
    /\ result \in [Procs -> [Paths -> Results \union {None}]]
    /\ unsaved \in [Procs -> SUBSET Paths]
    /\ saving \in [Procs -> Paths \union {None}]
    /\ diff \in [Procs -> Diffs]
    /\ rested \in [Procs -> BOOLEAN]
-----------------------------------------------------------------------------
Init ==
    /\ file \in [Paths -> Contents \union {None}]
    /\ entry = [k \in Keys |-> None]
    /\ manifest = Nothing
    /\ pc = [p \in Procs |-> "idle"]
    /\ build \in [Procs -> Builds]
    /\ cached = [p \in Procs |-> FALSE]
    /\ todo = [p \in Procs |-> {}]
    /\ seen = [p \in Procs |-> Nothing]
    /\ result = [p \in Procs |-> Nothing]
    /\ unsaved = [p \in Procs |-> {}]
    /\ saving = [p \in Procs |-> None]
    /\ diff = [p \in Procs |-> NoDiff]
    /\ rested = [p \in Procs |-> TRUE]

Goto(p, from, to) == /\ pc[p] = from
                     /\ pc' = [pc EXCEPT ![p] = to]

(* ParsePhase.run begins; the inventory lists the files that exist.        *)
Start(p, b, c) ==
    /\ Goto(p, "idle", "hash")
    /\ build' = [build EXCEPT ![p] = b]
    /\ cached' = [cached EXCEPT ![p] = c]
    /\ todo' = [todo EXCEPT ![p] = {f \in Paths : file[f] # None}]
    /\ rested' = [rested EXCEPT ![p] = TRUE]
    /\ UNCHANGED <<file, entry, manifest, seen, result, unsaved, saving, diff>>

\* Mutant: an entry is what its name says.
GetByName(p, f) ==
    LET e == entry[Key(f, file[f], build[p])]
    IN  IF cached[p] /\ e \in Entries
        THEN [path |-> f, content |-> e.records.content, language |-> e.records.language,
              build |-> e.records.build]
        ELSE None

(* ParseCache.get: the records of an entry, with the path put back; None    *)
(* when there is no entry, it is not valid JSON, or it says that it is of   *)
(* another content or language.  It is not asked of which parser it is.     *)
Get(p, f) ==
    LET e == entry[Key(f, file[f], build[p])]
    IN  IF cached[p] /\ e \in Entries /\ e.content = file[f] /\ e.language = Language[f]
        THEN [path |-> f, content |-> e.records.content, language |-> e.records.language,
              build |-> e.records.build]
        ELSE None

GetRaises(p, f) ==
    cached[p] /\ entry[Key(f, file[f], build[p])] \in Undecodable

(* Pass 1 reads a file and looks it up; a hit is its result.               *)
Hash(p, f) ==
    /\ pc[p] = "hash" /\ f \in todo[p]
    /\ file[f] # None /\ ~GetRaises(p, f)
    /\ todo' = [todo EXCEPT ![p] = @ \ {f}]
    /\ seen' = [seen EXCEPT ![p][f] = file[f]]
    /\ result' = [result EXCEPT ![p][f] = Get(p, f)]
    /\ UNCHANGED <<file, entry, manifest, pc, config, unsaved, saving, diff, rested>>

(* The file has gone since the inventory: it is skipped.                   *)
SkipUnreadable(p, f) ==
    /\ pc[p] = "hash" /\ f \in todo[p]
    /\ file[f] = None
    /\ todo' = [todo EXCEPT ![p] = @ \ {f}]
    /\ UNCHANGED <<file, entry, manifest, pc, config, seen, result, unsaved, saving,
                   diff, rested>>

(* read_text raises UnicodeDecodeError, which get does not catch.           *)
HashFails(p, f) ==
    /\ f \in todo[p] /\ file[f] # None /\ GetRaises(p, f)
    /\ Goto(p, "hash", "failed")
    /\ UNCHANGED <<file, entry, manifest, config, todo, seen, result, unsaved, saving,
                   diff, rested>>

Hashed(p) ==
    /\ Goto(p, "hash", "parse")
    /\ todo[p] = {}
    /\ UNCHANGED <<file, entry, manifest, config, todo, seen, result, unsaved, saving,
                   diff, rested>>

(* A miss: hashed in pass 1, not found in the cache, not parsed yet.       *)
Task(p, f) == seen[p][f] # None /\ result[p][f] = None

(* _parse_one: the worker reads the file again.                            *)
ParseOne(p, f) ==
    /\ pc[p] = "parse" /\ Task(p, f)
    /\ file[f] # None
    /\ result' = [result EXCEPT ![p][f] = Parsed(f, file[f], build[p])]
    /\ unsaved' = [unsaved EXCEPT ![p] = IF cached[p] THEN @ \union {f} ELSE @]
    /\ UNCHANGED <<file, entry, manifest, pc, config, todo, seen, saving, diff, rested>>

(* The file is gone: the worker's error ends the run, nothing is saved.    *)
ParseFails(p, f) ==
    /\ Task(p, f) /\ file[f] = None
    /\ Goto(p, "parse", "failed")
    /\ UNCHANGED <<file, entry, manifest, config, todo, seen, result, unsaved, saving,
                   diff, rested>>

(* Mutant: the results of the workers that are back are enough.            *)
AllParsedEarly(p) ==
    /\ Goto(p, "parse", IF cached[p] THEN "save" ELSE "done")
    /\ UNCHANGED <<file, entry, manifest, config, todo, seen, result, unsaved, saving,
                   diff, rested>>

(* parse_tasks returns: every worker is back.                              *)
AllParsed(p) ==
    /\ \A f \in Paths : ~Task(p, f)
    /\ Goto(p, "parse", IF cached[p] THEN "save" ELSE "done")
    /\ UNCHANGED <<file, entry, manifest, config, todo, seen, result, unsaved, saving,
                   diff, rested>>

(* ParseCache.put: a temporary file is made beside the entries ...         *)
OpenTemp(p, f) ==
    /\ pc[p] = "save" /\ saving[p] = None /\ f \in unsaved[p]
    /\ saving' = [saving EXCEPT ![p] = f]
    /\ UNCHANGED <<file, entry, manifest, pc, config, todo, seen, result, unsaved, diff,
                   rested>>

(* ... which mkdir or mkstemp may refuse: they stand before the try, ...    *)
OpenRefused(p, f) ==
    /\ Failures
    /\ saving[p] = None /\ f \in unsaved[p]
    /\ Goto(p, "save", "failed")
    /\ UNCHANGED <<file, entry, manifest, config, todo, seen, result, unsaved, saving,
                   diff, rested>>

Saved(p) ==
    /\ pc[p] = "save" /\ saving[p] # None
    /\ unsaved' = [unsaved EXCEPT ![p] = @ \ {saving[p]}]
    /\ saving' = [saving EXCEPT ![p] = None]
    /\ UNCHANGED <<file, manifest, pc, config, todo, seen, result, diff, rested>>

(* ... and renamed into place under the hash pass 1 computed; ...          *)
Replace(p) ==
    /\ Saved(p)
    /\ LET f == saving[p]
           r == result[p][f]
       IN  entry' = [entry EXCEPT ![Key(f, seen[p][f], build[p])] =
                        [content |-> seen[p][f], language |-> Language[f],
                         records |-> [content |-> r.content, language |-> r.language,
                                      build |-> r.build]]]

(* ... a failed write or rename only loses this entry.                      *)
WriteFails(p) ==
    /\ Failures
    /\ Saved(p)
    /\ UNCHANGED entry

AllSaved(p) ==
    /\ unsaved[p] = {}
    /\ Goto(p, "save", "diff")
    /\ UNCHANGED <<file, entry, manifest, config, todo, seen, result, unsaved, saving,
                   diff, rested>>

DiffManifest(old, new) ==
    LET before == {f \in Paths : old[f] # None}
        now    == {f \in Paths : new[f] # None}
    IN  [changed |-> {f \in before \intersect now : old[f] # new[f]},
         added   |-> now \ before,
         removed |-> before \ now]

TakeDiff(p) ==
    /\ Goto(p, "diff", "manifest")
    /\ diff' = [diff EXCEPT ![p] = DiffManifest(manifest, seen[p])]
    /\ UNCHANGED <<file, entry, manifest, config, todo, seen, result, unsaved, saving,
                   rested>>

(* write_manifest, with the same two ways to fail as put.                   *)
WriteManifest(p) ==
    /\ Goto(p, "manifest", "done")
    /\ manifest' = seen[p]
    /\ UNCHANGED <<file, entry, config, todo, seen, result, unsaved, saving, diff, rested>>

ManifestFails(p) ==
    /\ Failures
    /\ Goto(p, "manifest", "done") \/ Goto(p, "manifest", "failed")
    /\ UNCHANGED <<file, entry, manifest, config, todo, seen, result, unsaved, saving,
                   diff, rested>>

(* The phase has returned or raised, or the process is killed.             *)
Leave(p) ==
    /\ pc[p] # "idle"
    /\ Failures \/ pc[p] \in {"done", "failed"}
    /\ pc' = [pc EXCEPT ![p] = "idle"]
    /\ todo' = [todo EXCEPT ![p] = {}]
    /\ seen' = [seen EXCEPT ![p] = Nothing]
    /\ result' = [result EXCEPT ![p] = Nothing]
    /\ unsaved' = [unsaved EXCEPT ![p] = {}]
    /\ saving' = [saving EXCEPT ![p] = None]
    /\ diff' = [diff EXCEPT ![p] = NoDiff]
    /\ cached' = [cached EXCEPT ![p] = FALSE]
    /\ rested' = [rested EXCEPT ![p] = TRUE]
    /\ UNCHANGED <<file, entry, manifest, build>>
-----------------------------------------------------------------------------
(* The environment. *)
Quiet == \A p \in Procs : pc[p] = "idle"

(* A file is written, created or deleted.                                  *)
Edit(f, c) ==
    /\ c \in MidRun \/ Quiet
    /\ c # file[f]
    /\ file' = [file EXCEPT ![f] = c]
    /\ rested' = [p \in Procs |-> pc[p] = "idle"]
    /\ UNCHANGED <<entry, manifest, pc, config, todo, seen, result, unsaved, saving, diff>>

Damage(k, d) ==
    /\ entry[k] \in Entries
    /\ entry' = [entry EXCEPT ![k] = d]
    /\ UNCHANGED <<file, manifest, pc, config, todo, seen, result, unsaved, saving,
                   diff, rested>>

(* An entry gets the name of another one of the same parser.               *)
Misname(k, l) ==
    /\ Misnaming(k, l)
    /\ entry[k] \in Entries
    /\ l # k /\ l.build = k.build
    /\ entry' = [entry EXCEPT ![k] = None, ![l] = entry[k]]
    /\ UNCHANGED <<file, manifest, pc, config, todo, seen, result, unsaved, saving,
                   diff, rested>>

Run(p) ==
    \/ \E f \in Paths : \/ Hash(p, f) \/ SkipUnreadable(p, f) \/ HashFails(p, f)
                        \/ ParseOne(p, f) \/ ParseFails(p, f)
                        \/ OpenTemp(p, f) \/ OpenRefused(p, f)
    \/ Hashed(p) \/ AllParsed(p)
    \/ Replace(p) \/ WriteFails(p) \/ AllSaved(p)
    \/ TakeDiff(p) \/ WriteManifest(p) \/ ManifestFails(p)
    \/ Leave(p)

Environment ==
    \/ \E f \in Paths, c \in Contents \union {None} : Edit(f, c)
    \/ \E k \in Keys, d \in Damages : Damage(k, d)
    \/ \E k, l \in Keys : Misname(k, l)

Next ==
    \/ \E p \in Procs, b \in Builds, c \in BOOLEAN : Start(p, b, c)
    \/ \E p \in Procs : Run(p)
    \/ Environment

Spec == Init /\ [][Next]_vars
-----------------------------------------------------------------------------
(* Whatever runs shared the cache and however they ended, an entry that the *)
(* environment has not spoiled holds the records of the content and         *)
(* language that it says, by the parser that its name stands for.          *)
CacheFaithful ==
    \A k \in Keys : LET e == entry[k]
                    IN  /\ e # Torn
                        /\ e \in Entries => e.records = [content |-> e.content,
                                                        language |-> e.language, build |-> k.build]

(* A parse phase that returns, in a tree that did not change under it,      *)
(* returns for every file exactly what a cold parse of that file returns:   *)
(* no stale records, no other file's records, and no file dropped.         *)
WarmIsCold ==
    \A p \in Procs : pc[p] = "done" /\ rested[p] =>
        \A f \in Paths : result[p][f] =
            IF file[f] = None THEN None ELSE Parsed(f, file[f], build[p])

(* Even while files change and vanish under it, a parse phase that returns  *)
(* has records for every file it hashed, under the file's own path and from *)
(* its own language and parser; a failed worker is never a silent drop.     *)
NothingDropped ==
    \A p \in Procs : pc[p] = "done" =>
        \A f \in Paths : seen[p][f] # None =>
            \E c \in Contents : result[p][f] = Parsed(f, c, build[p])

(* Losing cache or manifest writes never ends a run.                       *)
SavingNeverFails ==
    [][\A p \in Procs : pc[p] \in {"save", "manifest"} => pc'[p] # "failed"]_vars

(* A spoiled cache entry never ends a run: it is a miss.                   *)
LookupNeverFails ==
    [][\A p \in Procs : pc[p] = "hash" => pc'[p] # "failed"]_vars
=============================================================================
