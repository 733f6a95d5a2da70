----------------------------- MODULE GraphFile -----------------------------
(* The file a graph is kept in, its write-ahead log, the search index beside it  *)
(* and the handles processes hold. A handle keeps the files it opened when their *)
(* names are unlinked. Rows are pairs of the extract that wrote them and a       *)
(* batch; rows of one batch have the same primary keys in every extract.         *)
EXTENDS Integers, Sequences, FiniteSets, Participants

CONSTANT Batches      \* what an extract stores, 1..Batches in order

ASSUME FileAssumption == Batches \in Nat \ {0}

VARIABLES platform,    \* "posix" or "windows"
          files,       \* what each file holds, by number
          db, wal,     \* the file that has the name, 0 for none
          handle,      \* the files of an open store
          index        \* the extracts whose rows the index has, or Absent

fileVars == <<platform, files, db, wal, handle, index>>

Absent == {0}
Closed == [db |-> 0, wal |-> 0]

FileInit ==
    /\ platform \in {"posix", "windows"} /\ files = <<>>
    /\ db = [r \in Repos |-> 0] /\ wal = [r \in Repos |-> 0]
    /\ handle = [a \in Actors |-> Closed] /\ index = [r \in Repos |-> Absent]

Holds(a)     == handle[a].db # 0
Content(h)   == files[h.db] \union files[h.wal]
Stored(a)    == Content(handle[a])
Extracts(rs) == {x[1] : x \in rs}

\* Who keeps a from opening the file: on Windows every handle, its own included, else
\* those of other processes.
Holders(a, f) == {b \in Actors : /\ f # 0 /\ handle[b].db = f
                                 /\ platform = "windows" \/ OsProcess[b] # OsProcess[a]}

\* connect: a missing file is created, empty; a log that is there is replayed.
Open(a) ==
    LET r == RepoOf[a]
        d == IF db[r] # 0 THEN db[r] ELSE Len(files) + 1
        w == IF wal[r] # 0 THEN wal[r] ELSE IF db[r] # 0 THEN Len(files) + 1 ELSE Len(files) + 2
        fresh == Cardinality({d, w} \ {db[r], wal[r]})
    IN /\ Holders(a, db[r]) = {}
       /\ files' = files \o [i \in 1..fresh |-> {}]
       /\ db' = [db EXCEPT ![r] = d] /\ wal' = [wal EXCEPT ![r] = w]
       /\ handle' = [handle EXCEPT ![a] = [db |-> d, wal |-> w]]
       /\ UNCHANGED <<platform, index>>

\* close: the log joins the file and is removed.
Close(a) ==
    LET h == handle[a] r == RepoOf[a]
    IN /\ IF h = Closed THEN UNCHANGED <<files, wal>>
          ELSE /\ files' = [files EXCEPT ![h.db] = Content(h), ![h.wal] = {}]
               /\ wal' = [wal EXCEPT ![r] = IF @ = h.wal THEN 0 ELSE @]
       /\ handle' = [handle EXCEPT ![a] = Closed]
       /\ UNCHANGED <<platform, db, index>>

\* What a process that dies leaves: the log stays.
Drop(a) ==
    /\ handle' = [handle EXCEPT ![a] = Closed]
    /\ UNCHANGED <<platform, files, db, wal, index>>

InUse(f) == platform = "windows" /\ \E b \in Actors : f # 0 /\ (handle[b].db = f \/ handle[b].wal = f)

UnlinkDb(a) ==
    /\ ~InUse(db[RepoOf[a]]) /\ db' = [db EXCEPT ![RepoOf[a]] = 0]
    /\ UNCHANGED <<platform, files, wal, handle, index>>

UnlinkWal(a) ==
    /\ ~InUse(wal[RepoOf[a]]) /\ wal' = [wal EXCEPT ![RepoOf[a]] = 0]
    /\ UNCHANGED <<platform, files, db, handle, index>>

Collides(a, batch) == \E x \in Stored(a) : x[2] = batch

\* Mutant: rows with the keys of others are merged.
InsertMerging(a, gen, batch) ==
    /\ files' = [files EXCEPT ![handle[a].wal] = @ \union {<<gen, batch>>}]
    /\ UNCHANGED <<platform, db, wal, handle, index>>

Insert(a, gen, batch) ==
    /\ ~Collides(a, batch)
    /\ files' = [files EXCEPT ![handle[a].wal] = @ \union {<<gen, batch>>}]
    /\ UNCHANGED <<platform, db, wal, handle, index>>

\* Mutant: an index that is there is left as it is.
BuildIndexOnce(a) ==
    /\ index' = [index EXCEPT ![RepoOf[a]] = IF @ = Absent THEN Extracts(Stored(a)) ELSE @]
    /\ UNCHANGED <<platform, files, db, wal, handle>>

BuildIndex(a) ==
    /\ index' = [index EXCEPT ![RepoOf[a]] = Extracts(Stored(a))]
    /\ UNCHANGED <<platform, files, db, wal, handle>>
=============================================================================
