----------------------------- MODULE InsightLog -----------------------------
(***************************************************************************)
(* The agent memory of one repository: the JSONL log (insights/             *)
(* jsonl_store.py), the SQLite recall index derived from it (insights/      *)
(* recall_index.py) and the git shadow ref it is copied to (insights/       *)
(* shadow_ref.py), as record_insight, recall_insights (mcp_server/          *)
(* server.py) and `forensic insights push` use them.  An MCP client starts  *)
(* a server of its own, so several processes share the three; no lock is    *)
(* taken.                                                                   *)
(*                                                                         *)
(* An insight is its content hash; files are as POSIX has them: a deleted   *)
(* file stays readable to whoever has it open.                             *)
(***************************************************************************)
EXTENDS Naturals, Sequences, SequencesExt

CONSTANTS
    Procs, Insights, None,
    Garbled,       \* a line that is text but no insight: it is skipped
    Binary,        \* a line that is not UTF-8: reading the log raises
    Whole          \* an append that stops just before its newline

CONSTANTS          \* what goes wrong, and how far the model runs
    Tears,         \* what an interrupted append may leave behind
    KillPoints,    \* where a process may be killed
    CoarseClock,   \* two writes can have the same modification time
    MaxLines, MaxCommits

Steps == {"idle", "dedup", "append", "ensure", "clear", "unlink", "gather", "create",
          "tables", "insert", "search", "open", "read", "parent", "update"}
Junk  == {Garbled, Binary}

ASSUME TearsAssumption == Tears \subseteq Junk \union {Whole} /\ Whole \notin Junk
ASSUME KillPointsAssumption == KillPoints \subseteq Steps
ASSUME ClockAssumption == CoarseClock \in BOOLEAN
ASSUME BoundsAssumption == MaxLines \in Nat /\ MaxCommits \in Nat
ASSUME SentinelAssumption == Insights \intersect (Junk \union {None}) = {}
ASSUME NoIndexAssumption == None \notin [tables : BOOLEAN, rows : SUBSET Insights]

VARIABLES
    log,           \* the lines of insights.jsonl
    cut,           \* its last line has no newline
    index,         \* insights.db
    newer,         \* the log's modification time is after the index's
    ref,           \* the commits of the shadow ref, newest last
    pc,
    arg,           \* the insight being recorded, None in a recall or a push
    gathered,      \* the insights read for the index being built
    mine,          \* this process has the current insights.db open for writing
    blob, parent,  \* the log as read for the ref, and the ref's commits then
    answer,        \* what the last recall of a process returned
    asked,         \* the insights record calls were made for
    written,       \* those one has appended, on a line of their own
    alone          \* no other process has done anything during this call

files  == <<log, cut, index, newer, ref>>
locals == <<arg, gathered, blob, parent>>
known  == <<answer, asked, written>>      \* what the callers know
vars   == <<files, pc, locals, mine, known, alone>>

Contents == [tables : BOOLEAN, rows : SUBSET Insights]
Blank    == [tables |-> FALSE, rows |-> {}]
Lines    == Insights \union Junk

(* What iter_all yields when it does not raise: junk lines are skipped.     *)
Known(lines) == {lines[k] : k \in DOMAIN lines} \ Junk
Readable(lines) == \A k \in DOMAIN lines : lines[k] # Binary

TypeOK ==
    /\ log \in Seq(Lines)
    /\ cut \in BOOLEAN
    /\ index \in Contents \union {None}
    /\ newer \in BOOLEAN
    /\ ref \in Seq(SUBSET Insights)
    /\ pc \in [Procs -> Steps]
    /\ arg \in [Procs -> Insights \union {None}]
    /\ gathered \in [Procs -> SUBSET Insights]
    /\ mine \in [Procs -> BOOLEAN]
    /\ blob \in [Procs -> SUBSET Insights]
    /\ parent \in [Procs -> Seq(SUBSET Insights)]
    /\ answer \in [Procs -> (SUBSET Insights) \union {None}]
    /\ asked \in SUBSET Insights
    /\ written \in SUBSET Insights
    /\ alone \in [Procs -> BOOLEAN]
-----------------------------------------------------------------------------
Init ==
    /\ log = <<>> /\ cut = FALSE
    /\ index = None /\ newer = FALSE
    /\ ref = <<>>
    /\ pc = [p \in Procs |-> "idle"]
    /\ arg = [p \in Procs |-> None]
    /\ gathered = [p \in Procs |-> {}]
    /\ mine = [p \in Procs |-> FALSE]
    /\ blob = [p \in Procs |-> {}]
    /\ parent = [p \in Procs |-> <<>>]
    /\ answer = [p \in Procs |-> None]
    /\ asked = {} /\ written = {}
    /\ alone = [p \in Procs |-> FALSE]

At(p, step) == pc[p] = step
Goto(p, step) == pc' = [pc EXCEPT ![p] = step]

(* The call is over: it returned or raised, or the process was killed.      *)
(* What it had open is closed.                                             *)
Over(p) ==
    /\ Goto(p, "idle")
    /\ arg' = [arg EXCEPT ![p] = None]
    /\ gathered' = [gathered EXCEPT ![p] = {}]
    /\ blob' = [blob EXCEPT ![p] = {}]
    /\ parent' = [parent EXCEPT ![p] = <<>>]
    /\ mine' = [mine EXCEPT ![p] = FALSE]
    /\ UNCHANGED alone

Begin(p, i, step) ==
    /\ At(p, "idle")
    /\ Goto(p, step)
    /\ arg' = [arg EXCEPT ![p] = i]
    /\ alone' = [q \in Procs |-> q = p /\ \A r \in Procs : pc[r] = "idle"]
    /\ asked' = asked \union ({i} \ {None})
    /\ UNCHANGED <<files, gathered, blob, parent, mine, answer, written>>

Record(p, i) == Len(log) < MaxLines /\ Begin(p, i, "dedup")
Recall(p)    == Begin(p, None, "ensure")
Push(p)      == log # <<>> /\ Len(ref) < MaxCommits /\ Begin(p, None, "read")

(* record_insight looks for the insight in the log first.                   *)
Dedup(p) ==
    /\ At(p, "dedup") /\ Readable(log)
    /\ IF arg[p] \in Known(log)
       THEN Over(p)
       ELSE Goto(p, "append") /\ UNCHANGED <<locals, mine, alone>>
    /\ UNCHANGED <<files, known>>

(* UnicodeDecodeError leaves _iter_lines, whose try is inside its loop.      *)
ReadFails(p) ==
    /\ At(p, "dedup") \/ At(p, "gather")
    /\ ~Readable(log)
    /\ Over(p)
    /\ UNCHANGED <<files, known>>

(* The log after some bytes were appended: they continue a cut line.        *)
Appended(piece) ==
    IF cut
    THEN [log EXCEPT ![Len(log)] =
             IF Binary \in {log[Len(log)], piece} THEN Binary ELSE Garbled]
    ELSE Append(log, piece)

(* The log is modified after the index, unless in the same tick.            *)
Touched ==
    \/ newer' = TRUE
    \/ CoarseClock /\ UNCHANGED newer

(* JsonlInsightStore.record: one write, flushed and synced.                 *)
AppendLine(p) ==
    /\ At(p, "append")
    /\ log' = Appended(arg[p])
    /\ written' = IF cut THEN written ELSE written \union {arg[p]}
    /\ cut' = FALSE
    /\ Touched
    /\ Goto(p, "ensure")
    /\ UNCHANGED <<index, ref, locals, mine, answer, asked, alone>>

(* The disk is full, or the machine stops: part of the line is there.       *)
TornAppend(p, t) ==
    /\ At(p, "append")
    /\ t \in Tears
    /\ log' = Appended(IF t = Whole THEN arg[p] ELSE t)
    /\ cut' = TRUE
    /\ Touched
    /\ Over(p)
    /\ UNCHANGED <<index, ref, known>>

(* Where a call goes with an index it takes for good.                       *)
Served(p) == IF arg[p] = None THEN "search" ELSE "read"

(* Mutant: an index that is there is good.                                  *)
EnsureMissingOnly(p) ==
    /\ At(p, "ensure")
    /\ Goto(p, IF log # <<>> /\ index = None THEN "clear" ELSE Served(p))
    /\ UNCHANGED <<files, locals, mine, known, alone>>

(* ensure_recall_index: the index is rebuilt when it is missing, or older   *)
(* than the log.                                                           *)
Ensure(p) ==
    /\ At(p, "ensure")
    /\ Goto(p, IF log # <<>> /\ (index = None \/ newer) THEN "clear" ELSE Served(p))
    /\ UNCHANGED <<files, locals, mine, known, alone>>

(* Mutant: the old index is not deleted.                                    *)
ClearKeeps(p) ==
    /\ At(p, "clear")
    /\ Goto(p, "gather")
    /\ UNCHANGED <<files, locals, mine, known, alone>>

(* build_recall_index: is there an old index ...                            *)
Clear(p) ==
    /\ At(p, "clear")
    /\ Goto(p, IF index = None THEN "gather" ELSE "unlink")
    /\ UNCHANGED <<files, locals, mine, known, alone>>

(* ... it is deleted, under whoever has it open; ...                        *)
Unlink(p) ==
    /\ At(p, "unlink") /\ index # None
    /\ index' = None
    /\ mine' = [q \in Procs |-> FALSE]
    /\ Goto(p, "gather")
    /\ UNCHANGED <<log, cut, newer, ref, locals, known, alone>>

UnlinkFails(p) ==
    /\ At(p, "unlink") /\ index = None
    /\ Over(p)
    /\ UNCHANGED <<files, known>>

(* Mutant: a line is an insight, whatever is in it.                         *)
GatherRaw(p) ==
    /\ At(p, "gather") /\ Readable(log)
    /\ gathered' = [gathered EXCEPT ![p] = {log[k] : k \in DOMAIN log}]
    /\ Goto(p, "create")
    /\ UNCHANGED <<files, arg, blob, parent, mine, known, alone>>

(* ... the log is read, ...                                                 *)
Gather(p) ==
    /\ At(p, "gather") /\ Readable(log)
    /\ gathered' = [gathered EXCEPT ![p] = Known(log)]
    /\ Goto(p, "create")
    /\ UNCHANGED <<files, arg, blob, parent, mine, known, alone>>

(* ... sqlite3.connect opens the file, creating it if need be, ...          *)
Create(p) ==
    /\ At(p, "create")
    /\ IF index = None
       THEN index' = Blank /\ newer' = FALSE
       ELSE UNCHANGED <<index, newer>>
    /\ mine' = [mine EXCEPT ![p] = TRUE]
    /\ Goto(p, "tables")
    /\ UNCHANGED <<log, cut, ref, locals, known, alone>>

(* ... the tables are made, each statement committed on its own; when they  *)
(* are there already the probe has still written to the file, ...           *)
Tables(p) ==
    /\ At(p, "tables") /\ mine[p]
    /\ index' = [index EXCEPT !.tables = TRUE]
    /\ newer' = FALSE
    /\ IF index.tables
       THEN Over(p)
       ELSE Goto(p, "insert") /\ UNCHANGED <<locals, mine, alone>>
    /\ UNCHANGED <<log, cut, ref, known>>

(* ... and all rows come in one transaction.                                *)
Insert(p) ==
    /\ At(p, "insert") /\ mine[p]
    /\ index' = [index EXCEPT !.rows = gathered[p]]
    /\ newer' = FALSE
    /\ mine' = [mine EXCEPT ![p] = FALSE]
    /\ Goto(p, Served(p))
    /\ UNCHANGED <<log, cut, ref, locals, known, alone>>

(* Two builders of one file: the tables, the transaction or the database     *)
(* lock of the other are in the way.                                       *)
Clash(p) ==
    /\ At(p, "tables") \/ At(p, "insert")
    /\ mine[p] /\ \E q \in Procs \ {p} : mine[q]
    /\ Over(p)
    /\ UNCHANGED <<files, known>>

(* The file was deleted: SQLite refuses to write to it, unless the           *)
(* transaction had begun, and then the rows are gone with the file.          *)
Orphaned(p) ==
    /\ At(p, "tables") \/ At(p, "insert")
    /\ ~mine[p]
    /\ \/ Over(p)
       \/ At(p, "insert") /\ Goto(p, Served(p)) /\ UNCHANGED <<locals, mine, alone>>
    /\ UNCHANGED <<files, known>>

(* InsightRecallIndex.search: without an index there is nothing to recall.  *)
Search(p) ==
    /\ At(p, "search")
    /\ IF index = None
       THEN answer' = [answer EXCEPT ![p] = {}] /\ Over(p)
       ELSE Goto(p, "open") /\ UNCHANGED <<locals, mine, answer, alone>>
    /\ UNCHANGED <<files, asked, written>>

Open(p) ==
    /\ At(p, "open")
    /\ index # None /\ index.tables
    /\ answer' = [answer EXCEPT ![p] = index.rows]
    /\ Over(p)
    /\ UNCHANGED <<files, asked, written>>

(* It has gone, and connect makes an empty one; or it has no tables yet.     *)
OpenFails(p) ==
    /\ At(p, "open")
    /\ \/ index = None /\ index' = Blank /\ newer' = FALSE
       \/ index # None /\ ~index.tables /\ UNCHANGED <<index, newer>>
    /\ Over(p)
    /\ UNCHANGED <<log, cut, ref, known>>

(* save_to_shadow_ref: the log's bytes become a blob and a tree, ...        *)
ReadLog(p) ==
    /\ At(p, "read")
    /\ blob' = [blob EXCEPT ![p] = Known(log)]
    /\ Goto(p, "parent")
    /\ UNCHANGED <<files, arg, gathered, parent, mine, known, alone>>

(* ... the ref's commit the parent of a new one, ...                        *)
ReadParent(p) ==
    /\ At(p, "parent")
    /\ parent' = [parent EXCEPT ![p] = ref]
    /\ Goto(p, "update")
    /\ UNCHANGED <<files, arg, gathered, blob, mine, known, alone>>

(* ... and update-ref moves the ref to it, whatever the ref is by now.      *)
UpdateRef(p) ==
    /\ At(p, "update")
    /\ ref' = Append(parent[p], blob[p])
    /\ Over(p)
    /\ UNCHANGED <<log, cut, index, newer, known>>

(* No git, no repository, a ref lock: the call returns without a word.      *)
GitFails(p) ==
    /\ pc[p] \in {"read", "parent", "update"}
    /\ Over(p)
    /\ UNCHANGED <<files, known>>

Kill(p) ==
    /\ pc[p] \in KillPoints \ {"idle"}
    /\ Over(p)
    /\ UNCHANGED <<files, known>>

Next == \E p \in Procs :
    \/ \E i \in Insights : Record(p, i)
    \/ Recall(p) \/ Push(p)
    \/ Dedup(p) \/ ReadFails(p)
    \/ AppendLine(p) \/ \E t \in Tears : TornAppend(p, t)
    \/ Ensure(p) \/ Clear(p) \/ Unlink(p) \/ UnlinkFails(p)
    \/ Gather(p) \/ Create(p) \/ Tables(p) \/ Insert(p) \/ Clash(p) \/ Orphaned(p)
    \/ Search(p) \/ Open(p) \/ OpenFails(p)
    \/ ReadLog(p) \/ ReadParent(p) \/ UpdateRef(p) \/ GitFails(p)
    \/ Kill(p)

Spec == Init /\ [][Next]_vars
-----------------------------------------------------------------------------
(* An index that no process is writing and that is not older than the log   *)
(* holds exactly what the log does: "a cheap mtime check" is enough.        *)
IndexFresh ==
    index # None /\ ~newer /\ (\A p \in Procs : ~mine[p])
        => index.tables /\ index.rows = Known(log)

(* A record call that no other call overlaps leaves an index that holds all *)
(* of the log, whatever crashes and races have left before it.             *)
Heals ==
    [][\A p \in Procs :
          pc[p] \in {"ensure", "insert"} /\ pc'[p] = "read" /\ alone'[p]
              => index'.tables /\ index'.rows = Known(log') /\ ~newer']_vars

(* What was readable stays readable, and an append that succeeded is: "the    *)
(* affected line is lost but the rest is recoverable".  It is not so: an     *)
(* append after a torn one, or after a line saved without its newline, goes  *)
(* on the same line, and both are lost.                                    *)
RecordedIsKept ==
    [][/\ Known(log) \subseteq Known(log')
       /\ \A p \in Procs : pc[p] = "append" /\ pc'[p] = "ensure"
              => arg[p] \in Known(log')]_vars

(* A line that went wrong never takes the rest of the log with it.          *)
BadLinesAreSkipped ==
    [][\A p \in Procs : pc[p] = "dedup" => pc'[p] # "idle" \/ arg[p] \in Known(log)]_vars

(* The ref only ever moves to a descendant of what it was, "so the ref keeps *)
(* a history".  Two servers that save at once drop a commit.                *)
RefKeepsHistory == [][IsPrefix(ref, ref')]_vars

(* The three files and their processes are an InsightStore: whatever was     *)
(* torn before or after it, an insight appended on a line of its own is in   *)
(* every later answer, and nothing is that nobody recorded.                 *)
Store == INSTANCE InsightStore WITH learned <- written
StoreSpec == Store!Spec
=============================================================================
