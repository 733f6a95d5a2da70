--------------------------- MODULE ExtractProofs ---------------------------
(* Proofs about Extract, for every set of files, contents and artifacts.    *)
EXTENDS Extract, TLAPS

(* A finished reading of the files is one of the trees. *)
LEMMA CompleteReading ==
    ASSUME NEW reads \in Partial, Complete(reads)
    PROVE  reads \in [Files -> Versions]
BY DEF Partial, Complete

LEMMA LeaveType ==
    ASSUME TypeOK, NEW p \in Procs, Leave(p)
    PROVE  /\ tree' = tree /\ outside' = outside /\ store' = store /\ art' = art
           /\ out' = out
           /\ pc' \in [Procs -> Steps]
           /\ force' \in [Procs -> BOOLEAN]
           /\ fingerprint' \in [Procs -> Partial]
           /\ unread' \in [Procs -> SUBSET Files]
           /\ taken' \in [Procs -> [Files -> SUBSET Versions]]
           /\ beyond' \in [Procs -> Outsides \union {None}]
           /\ left' \in [Procs -> SUBSET Artifacts]
           /\ writing' \in [Procs -> Artifacts \union {None}]
<1>1. Unread \in Partial
  BY DEF Unread, Partial
<1>2. QED
  BY <1>1 DEF TypeOK, Leave, Steps

(* What a run has read stays with it, and of every file that a pass is      *)
(* through with something was taken: it is what Snapshot needs.            *)
Reading ==
    \A p \in Procs :
        /\ pc[p] \in Steps \ {"idle", "hash"} => Complete(fingerprint[p])
        /\ pc[p] = "parse" => \A f \in Files \ unread[p] : taken[p][f] # {}
        /\ pc[p] \in Steps \ {"idle", "hash", "hit", "parse"}
              => \A f \in Files : taken[p][f] # {}
        /\ pc[p] \in Steps \ {"idle", "hash", "hit", "parse", "outside"}
              => beyond[p] # None

Typed == TypeOK /\ Reading

LEMMA SnapshotType ==
    ASSUME Typed, NEW p \in Procs,
           pc[p] \in {"fill", "lexwipe", "lexfill", "emit", "record", "recording"}
    PROVE  Snapshot(p) \in Snapshots
<1>1. taken[p] \in [Files -> SUBSET Versions]
  BY DEF Typed, TypeOK
<1>2. beyond[p] \in Outsides
  BY DEF Typed, TypeOK, Reading, Steps
<1>3. QED
  BY <1>1, <1>2 DEF Snapshot, Snapshots

(* Another look at a file leaves nothing it had taken behind.              *)
LEMMA TakeType ==
    ASSUME TypeOK, NEW p \in Procs, NEW f \in Files, Take(p, f)
    PROVE  /\ taken' \in [Procs -> [Files -> SUBSET Versions]]
           /\ \A q \in Procs \ {p} : taken'[q] = taken[q]
           /\ \A g \in Files : taken'[p][g] = IF g = f THEN taken[p][f] \union {tree[f]}
                                                       ELSE taken[p][g]
<1>1. taken' = [taken EXCEPT ![p] = [taken[p] EXCEPT ![f] = taken[p][f] \union {tree[f]}]]
  BY DEF Take
<1>2. taken[p] \in [Files -> SUBSET Versions] /\ tree[f] \in Versions
  BY DEF TypeOK
<1>3. QED
  BY <1>1, <1>2 DEF TypeOK

LEMMA TypedInit == Init => Typed
BY DEF Init, Typed, TypeOK, Reading, Partial, Unread, Steps, Stores

LEMMA TypedStep == Typed /\ [Next]_vars => Typed'
<1> SUFFICES ASSUME Typed, [Next]_vars PROVE Typed'
  OBVIOUS
<1> USE DEF Goto, disk, args, reading, emitting
<1>0. TypeOK /\ Reading
  BY DEF Typed
<1>1. ASSUME NEW p \in Procs, NEW d \in OutDirs, NEW forced \in BOOLEAN,
             Start(p, d, forced)
      PROVE  Typed'
  BY <1>0, <1>1 DEF Start, Typed, TypeOK, Reading, Steps
<1>2. ASSUME NEW p \in Procs, NEW f \in Files, Hash(p, f)
      PROVE  Typed'
  <2>1. fingerprint' \in [Procs -> Partial]
    BY <1>0, <1>2 DEF Hash, TypeOK, Partial
  <2>2. Reading'
    BY <1>0, <1>2 DEF Hash, TypeOK, Reading, Steps, Complete
  <2>3. QED
    BY <1>0, <1>2, <2>1, <2>2 DEF Hash, Typed, TypeOK
<1>3. ASSUME NEW p \in Procs, CacheHit(p) \/ CacheMiss(p) \/ ParseDone(p) \/ EmitDone(p)
      PROVE  Typed'
  <2>1. CASE CacheHit(p)
    BY <1>0, <2>1 DEF CacheHit, Typed, TypeOK, Reading, Steps
  <2>2. CASE CacheMiss(p)
    BY <1>0, <2>2 DEF CacheMiss, Typed, TypeOK, Reading, Steps
  <2>3. CASE ParseDone(p)
    BY <1>0, <2>3 DEF ParseDone, Typed, TypeOK, Reading, Steps
  <2>4. CASE EmitDone(p)
    BY <1>0, <2>4 DEF EmitDone, Typed, TypeOK, Reading, Steps
  <2>5. QED
    BY <1>3, <2>1, <2>2, <2>3, <2>4
<1>4. ASSUME NEW p \in Procs, Return(p) \/ WriteLastRun(p) \/ Abort(p)
      PROVE  Typed'
  <2>1. Leave(p)
    BY <1>4 DEF Return, WriteLastRun, Abort
  <2>2. lastRun' \in [Files -> Versions] \union {None}
    BY <1>0, <1>4, CompleteReading DEF Return, WriteLastRun, Abort, TypeOK, Reading, Steps
  <2>3. TypeOK'
    BY <1>0, <2>1, <2>2, LeaveType DEF TypeOK
  <2>4. Reading'
    BY <1>0, <2>1 DEF Leave, TypeOK, Reading, Steps
  <2>5. QED
    BY <2>3, <2>4 DEF Typed
<1>5. ASSUME NEW p \in Procs, NEW f \in Files, Parse(p, f) \/ Scan(p, f) \/ FileRow(p, f)
      PROVE  Typed'
  <2>1. Take(p, f)
    BY <1>5 DEF Parse, Scan, FileRow
  <2>2. /\ taken' \in [Procs -> [Files -> SUBSET Versions]]
        /\ \A q \in Procs, g \in Files : taken[q][g] # {} => taken'[q][g] # {}
        /\ taken'[p][f] # {}
    BY <1>0, <2>1, TakeType
  <2>3. /\ unread' \in [Procs -> SUBSET Files]
        /\ \A q \in Procs : unread[q] \subseteq unread'[q] \union {f}
        /\ \A q \in Procs \ {p} : unread'[q] = unread[q]
    <3>1. unread' = unread \/ unread' = [unread EXCEPT ![p] = unread[p] \ {f}]
      BY <1>5 DEF Parse, Scan, FileRow
    <3>2. unread \in [Procs -> SUBSET Files]
      BY <1>0 DEF TypeOK
    <3>3. QED
      BY <3>1, <3>2
  <2>4. UNCHANGED <<tree, outside, disk, pc, args, fingerprint, beyond, emitting>>
    BY <2>1 DEF Take
  <2>5. TypeOK'
    BY <1>0, <2>2, <2>3, <2>4 DEF TypeOK
  <2>6. Reading'
    <3>1. /\ pc' = pc /\ fingerprint' = fingerprint /\ beyond' = beyond
      BY <2>4
    <3>2. ASSUME NEW q \in Procs, NEW g \in Files, g \notin unread'[q], pc[q] = "parse"
          PROVE  taken'[q][g] # {}
      <4>1. CASE g \notin unread[q]
        BY <1>0, <2>2, <3>2, <4>1 DEF Reading
      <4>2. CASE g \in unread[q]
        BY <2>2, <2>3, <3>2, <4>2
      <4>3. QED
        BY <4>1, <4>2
    <3>3. QED
      BY <1>0, <2>2, <3>1, <3>2 DEF Reading, Complete
  <2>7. QED
    BY <2>5, <2>6 DEF Typed
<1>6. ASSUME NEW p \in Procs, ReadOutside(p)
      PROVE  Typed'
  <2>1. None \notin Outsides
    BY SentinelAssumption, VersionsAssumption
  <2>2. QED
    BY <1>0, <1>6, <2>1 DEF ReadOutside, Typed, TypeOK, Reading, Steps
<1>7. ASSUME NEW p \in Procs,
             WipeGraph(p) \/ FillGraph(p) \/ WipeLexical(p) \/ FillLexical(p)
      PROVE  Typed'
  <2>1. (FillGraph(p) \/ FillLexical(p)) => Snapshot(p) \in Snapshots
    BY SnapshotType DEF FillGraph, FillLexical
  <2>2. store' \in [Stores -> Snapshots \union {None, Torn}]
    BY <1>0, <1>7, <2>1 DEF WipeGraph, FillGraph, WipeLexical, FillLexical, TypeOK, Stores
  <2>3. CASE WipeGraph(p)
    BY <1>0, <2>2, <2>3 DEF WipeGraph, Typed, TypeOK, Reading, Steps
  <2>4. CASE FillGraph(p)
    BY <1>0, <2>2, <2>4 DEF FillGraph, Typed, TypeOK, Reading, Steps
  <2>5. CASE WipeLexical(p)
    BY <1>0, <2>2, <2>5 DEF WipeLexical, Typed, TypeOK, Reading, Steps
  <2>6. CASE FillLexical(p)
    BY <1>0, <2>2, <2>6 DEF FillLexical, Typed, TypeOK, Reading, Steps
  <2>7. QED
    BY <1>7, <2>3, <2>4, <2>5, <2>6
<1>8. ASSUME NEW p \in Procs, NEW a \in Artifacts, OpenArtifact(p, a)
      PROVE  Typed'
  BY <1>0, <1>8 DEF OpenArtifact, Typed, TypeOK, Reading
<1>9. ASSUME NEW p \in Procs, WriteArtifact(p)
      PROVE  Typed'
  <2>1. Snapshot(p) \in Snapshots /\ writing[p] \in Artifacts /\ out[p] \in OutDirs
    BY <1>0, <1>9, SnapshotType DEF WriteArtifact, TypeOK
  <2>2. art' \in [OutDirs -> [Artifacts -> Snapshots \union {None, Torn}]]
    BY <1>0, <1>9, <2>1 DEF WriteArtifact, TypeOK
  <2>3. QED
    BY <1>0, <1>9, <2>2 DEF WriteArtifact, Typed, TypeOK, Reading
<1>10. ASSUME NEW p \in Procs, OpenLastRun(p)
       PROVE  Typed'
  BY <1>0, <1>10 DEF OpenLastRun, Typed, TypeOK, Reading, Steps
<1>11. ASSUME Environment
       PROVE  Typed'
  <2>1. tree' \in [Files -> Versions] /\ outside' \in Outsides
    <3>1. tree \in [Files -> Versions] /\ outside \in Outsides
      BY <1>0 DEF TypeOK
    <3>2. CASE \E f \in Files, v \in Versions : Edit(f, v)
      BY <3>1, <3>2 DEF Edit
    <3>3. CASE \E v \in Outsides : ChangeOutside(v)
      BY <3>1, <3>3 DEF ChangeOutside
    <3>4. CASE \E d \in OutDirs, a \in Artifacts : DeleteArtifact(d, a)
      BY <3>1, <3>4 DEF DeleteArtifact
    <3>5. QED
      BY <1>11, <3>2, <3>3, <3>4 DEF Environment
  <2> DEFINE Contents == Snapshots \union {None, Torn}
  <2>0. art \in [OutDirs -> [Artifacts -> Contents]] /\ None \in Contents
    BY <1>0 DEF TypeOK
  <2>4. Contents = Snapshots \union {None, Torn}
    OBVIOUS
  <2> HIDE DEF Contents
  <2>5. art' = art \/ \E d \in OutDirs, a \in Artifacts : art' = [art EXCEPT ![d][a] = None]
    BY <1>11 DEF Environment, Edit, ChangeOutside, DeleteArtifact
  <2>6. art' \in [OutDirs -> [Artifacts -> Contents]]
    BY <2>0, <2>5
  <2>2. art' \in [OutDirs -> [Artifacts -> Snapshots \union {None, Torn}]]
    BY <2>4, <2>6, Zenon
  <2>3. QED
    BY <1>0, <1>11, <2>1, <2>2
       DEF Environment, Edit, ChangeOutside, DeleteArtifact, Typed, TypeOK, Reading
<1>12. CASE UNCHANGED vars
  BY <1>0, <1>12 DEF vars, Typed, TypeOK, Reading, Complete
<1>13. QED
  BY <1>1, <1>2, <1>3, <1>4, <1>5, <1>6, <1>7, <1>8, <1>9, <1>10, <1>11, <1>12
     DEF Next, Run

(* Every variable keeps its type, whatever the environment does. *)
THEOREM TypeCorrect == Spec => []TypeOK
<1>1. Spec => []Typed
  BY TypedInit, TypedStep, PTL DEF Spec
<1>2. Typed => TypeOK
  BY DEF Typed
<1>3. QED
  BY <1>1, <1>2, PTL
-----------------------------------------------------------------------------
(* One run at a time, always into the same directory. *)
OneRun == \A p, q \in Procs : p = q
OneDir == \A d, e \in OutDirs : d = e

(* What a run has put on disk by the time it reaches each of its steps.     *)
Written ==
    \A p \in Procs :
        /\ pc[p] \in {"lexwipe", "lexfill", "emit", "record", "recording"}
              => store["graph"] = Snapshot(p)
        /\ pc[p] \in {"emit", "record", "recording"}
              => /\ store["lexical"] = Snapshot(p)
                 /\ \A a \in Artifacts \ left[p] :
                        a = writing[p] \/ art[out[p]][a] \in {None, Snapshot(p)}
        /\ pc[p] \in {"record", "recording"} => left[p] = {}
        /\ pc[p] \in Steps \ {"emit"} => writing[p] = None
        /\ pc[p] \in {"hash", "parse", "outside", "wipe", "fill", "lexwipe", "lexfill"}
              => left[p] = Artifacts
        /\ pc[p] = "recording" => lastRun = None

LEMMA WrittenInit == Init => Written
BY DEF Init, Written, Steps

LEMMA WrittenStep ==
    ASSUME OneRun, Typed, Written, [Next]_vars
    PROVE  Written'
<1> USE DEF Goto, disk, args, reading, emitting, Snapshot
<1>0. TypeOK /\ Reading
  BY DEF Typed
<1>1. ASSUME NEW p \in Procs, NEW d \in OutDirs, NEW forced \in BOOLEAN,
             Start(p, d, forced)
      PROVE  Written'
  BY <1>0, <1>1 DEF Start, TypeOK, Written, OneRun, Steps
<1>2. ASSUME NEW p \in Procs, NEW f \in Files, Hash(p, f) \/ Parse(p, f) \/ Scan(p, f) \/ FileRow(p, f)
      PROVE  Written'
  <2>1. CASE Hash(p, f)
    BY <1>0, <2>1 DEF Hash, TypeOK, Written, OneRun, Steps
  <2>2. CASE ~Hash(p, f)
    <3>1. pc[p] \in {"parse", "outside", "fill"} /\ Take(p, f)
      BY <1>2, <2>2 DEF Parse, Scan, FileRow
    <3>2. /\ \A q \in Procs : pc[q] \in {"parse", "outside", "fill"}
          /\ pc' = pc /\ left' = left /\ writing' = writing
      BY <3>1 DEF OneRun, Take
    <3>3. QED
      BY <3>2 DEF Written, Steps
  <2>3. QED
    BY <2>1, <2>2
<1>3. ASSUME NEW p \in Procs, CacheHit(p) \/ CacheMiss(p) \/ ParseDone(p) \/ EmitDone(p)
      PROVE  Written'
  BY <1>0, <1>3 DEF CacheHit, CacheMiss, ParseDone, EmitDone, TypeOK, Written, OneRun, Steps
<1>4. ASSUME NEW p \in Procs, Return(p) \/ WriteLastRun(p) \/ Abort(p)
      PROVE  Written'
  <2>1. \A q \in Procs : pc'[q] = "idle"
    BY <1>0, <1>4 DEF Return, WriteLastRun, Abort, Leave, TypeOK, OneRun
  <2>2. \A q \in Procs : writing'[q] = None
    BY <1>0, <1>4 DEF Return, WriteLastRun, Abort, Leave, TypeOK, OneRun
  <2>3. QED
    BY <2>1, <2>2 DEF Written
<1>5. ASSUME NEW p \in Procs, ReadOutside(p)
      PROVE  Written'
  BY <1>0, <1>5 DEF ReadOutside, TypeOK, Written, OneRun, Steps
<1>6. ASSUME NEW p \in Procs,
             WipeGraph(p) \/ FillGraph(p) \/ WipeLexical(p) \/ FillLexical(p)
      PROVE  Written'
  BY <1>0, <1>6
     DEF WipeGraph, FillGraph, WipeLexical, FillLexical, TypeOK, Stores, Written, OneRun, Steps
<1>7. ASSUME NEW p \in Procs, NEW a \in Artifacts, OpenArtifact(p, a)
      PROVE  Written'
  <2>1. \A q \in Procs : q = p
    BY DEF OneRun
  <2>2. /\ pc'[p] = "emit" /\ store' = store /\ Snapshot(p)' = Snapshot(p)
        /\ writing'[p] = a /\ left'[p] = left[p] \ {a} /\ out' = out
    BY <1>0, <1>7 DEF OpenArtifact, TypeOK
  <2>3. \A b \in Artifacts \ {a} : art'[out[p]][b] = art[out[p]][b]
    BY <1>0, <1>7 DEF OpenArtifact, TypeOK
  <2>4. writing[p] = None /\ pc[p] = "emit"
    BY <1>7 DEF OpenArtifact
  <2>5. \A b \in Artifacts \ left'[p] :
            b = writing'[p] \/ art'[out'[p]][b] \in {None, Snapshot(p)'}
    BY <2>2, <2>3, <2>4, SentinelAssumption DEF Written
  <2>6. QED
    BY <2>1, <2>2, <2>4, <2>5 DEF Written
<1>8. ASSUME NEW p \in Procs, WriteArtifact(p)
      PROVE  Written'
  BY <1>0, <1>8 DEF WriteArtifact, TypeOK, Written, OneRun, Steps
<1>9. ASSUME NEW p \in Procs, OpenLastRun(p)
      PROVE  Written'
  BY <1>0, <1>9 DEF OpenLastRun, TypeOK, Written, OneRun, Steps
<1>10. ASSUME Environment
       PROVE  Written'
  <2>1. /\ pc' = pc /\ store' = store /\ lastRun' = lastRun /\ out' = out
        /\ left' = left /\ writing' = writing
        /\ taken' = taken /\ beyond' = beyond
    BY <1>10 DEF Environment, Edit, ChangeOutside, DeleteArtifact
  <2>2. \A d \in OutDirs, a \in Artifacts : art'[d][a] \in {art[d][a], None}
    <3>1. CASE art' = art
      BY <3>1
    <3>2. ASSUME NEW e \in OutDirs, NEW b \in Artifacts, DeleteArtifact(e, b)
          PROVE  \A d \in OutDirs, a \in Artifacts : art'[d][a] \in {art[d][a], None}
      <4>1. art' = [art EXCEPT ![e] = [art[e] EXCEPT ![b] = None]]
        BY <3>2 DEF DeleteArtifact
      <4>2. \A d \in OutDirs : art[d] \in [Artifacts -> Snapshots \union {None, Torn}]
        BY <1>0 DEF TypeOK
      <4>3. \A d \in OutDirs : art'[d] = IF d = e THEN [art[e] EXCEPT ![b] = None] ELSE art[d]
        BY <1>0, <4>1 DEF TypeOK
      <4>4. QED
        BY <4>2, <4>3
    <3>3. QED
      BY <1>10, <3>1, <3>2 DEF Environment, Edit, ChangeOutside
  <2>3. \A p \in Procs : out[p] \in OutDirs
    BY <1>0 DEF TypeOK
  <2>4. QED
    BY <2>1, <2>2, <2>3 DEF Written
<1>11. CASE UNCHANGED vars
  BY <1>11 DEF vars, Written
<1>12. QED
  BY <1>1, <1>2, <1>3, <1>4, <1>5, <1>6, <1>7, <1>8, <1>9, <1>10, <1>11 DEF Next, Run

-----------------------------------------------------------------------------
(* A tree whose files never return to an earlier content, one run at a time *)
(* in one directory, no --force, recorded artifacts stay.  Files change in  *)
(* the middle of a run, and a run may be killed at any step.               *)
Resumable == OneRun /\ OneDir /\ ~Reverts /\ ~Forced /\ ~Deletes

(* What was read of a file never runs ahead of the file, and the readings   *)
(* were taken after the hash; the record is older than all of them.         *)
Ordered ==
    /\ \A p \in Procs, f \in Files :
        /\ fingerprint[p][f] # None => fingerprint[p][f] \leq tree[f]
        /\ \A v \in taken[p][f] : /\ fingerprint[p][f] # None
                                  /\ fingerprint[p][f] \leq v
                                  /\ v \leq tree[f]
        /\ pc[p] = "idle" => fingerprint[p][f] = None
        /\ pc[p] \in {"idle", "hash", "hit"} => taken[p][f] = {}
    /\ lastRun # None =>
        \A f \in Files :
            /\ lastRun[f] \leq tree[f]
            /\ \A p \in Procs : fingerprint[p][f] # None => lastRun[f] \leq fingerprint[p][f]

(* No run is forced, and once a run was recorded its artifacts stay.        *)
Present ==
    /\ \A p \in Procs :
        /\ ~force[p]
        /\ pc[p] \in {"emit", "record", "recording"} =>
              \A a \in Artifacts \ left[p] : art[out[p]][a] # None
    /\ lastRun # None => \A d \in OutDirs, a \in Artifacts : art[d][a] # None

(* File f has been edited since the recorded run read it, and a run that is *)
(* hashing the files has not missed that.                                  *)
Overtaken(f) ==
    /\ lastRun[f] < tree[f]
    /\ \A p \in Procs : pc[p] = "hash" /\ fingerprint[p][f] # None
                        => lastRun[f] < fingerprint[p][f]

(* The record is the truth about the disk, or no later run can match it:    *)
(* this is what makes an interrupted run, or one overtaken by an edit, safe. *)
Behind ==
    lastRun # None =>
        /\ (\A d \in OutDirs : Shows(d, lastRun)) \/ (\E f \in Files : Overtaken(f))
        /\ (\E p \in Procs : pc[p] \in Steps \ {"idle", "hash", "hit"})
              => \E f \in Files : Overtaken(f)

LEMMA Numbers ==
    ASSUME TypeOK
    PROVE  /\ \A f \in Files : tree[f] \in Nat
           /\ \A p \in Procs, f \in Files :
                  /\ fingerprint[p][f] \in Nat \union {None}
                  /\ taken[p][f] \subseteq Nat
           /\ lastRun # None => \A f \in Files : lastRun[f] \in Nat
<1>1. \A f \in Files : tree[f] \in Nat
  BY VersionsAssumption DEF TypeOK
<1>2. \A p \in Procs, f \in Files : fingerprint[p][f] \in Nat \union {None}
  BY VersionsAssumption DEF TypeOK, Partial
<1>3. \A p \in Procs, f \in Files : taken[p][f] \subseteq Nat
  BY VersionsAssumption DEF TypeOK
<1>4. lastRun # None => \A f \in Files : lastRun[f] \in Nat
  BY VersionsAssumption DEF TypeOK
<1> QED
  BY <1>1, <1>2, <1>3, <1>4

LEMMA ResumeInit == Init => Ordered /\ Present /\ Behind
BY DEF Init, Ordered, Present, Behind, Unread

LEMMA OrderedStep ==
    ASSUME OneRun, ~Reverts, Typed, Written, Ordered, [Next]_vars
    PROVE  Ordered'
<1> USE DEF Goto, disk, args, reading, emitting
<1>0. TypeOK /\ Reading /\ None \notin Nat
  BY SentinelAssumption DEF Typed
<1>1. ASSUME NEW p \in Procs, NEW d \in OutDirs, NEW forced \in BOOLEAN,
             Start(p, d, forced)
      PROVE  Ordered'
  BY <1>0, <1>1 DEF Start, TypeOK, Ordered
<1>2. ASSUME NEW p \in Procs, NEW f \in Files, Hash(p, f)
      PROVE  Ordered'
  <2>1. \A q \in Procs : q = p
    BY DEF OneRun
  <2>2. /\ tree' = tree /\ taken' = taken /\ lastRun' = lastRun /\ pc' = pc
        /\ pc[p] = "hash"
        /\ fingerprint[p] \in Partial
        /\ fingerprint'[p] = [fingerprint[p] EXCEPT ![f] = tree[f]]
    BY <1>0, <1>2 DEF Hash, TypeOK
  <2>3. \A g \in Files : /\ taken[p][g] = {}
                         /\ fingerprint'[p][g] = IF g = f THEN tree[f] ELSE fingerprint[p][g]
    BY <2>2 DEF Partial, Ordered
  <2>4. ASSUME NEW g \in Files
        PROVE  /\ fingerprint'[p][g] # None => fingerprint'[p][g] \leq tree[g]
               /\ lastRun # None => /\ lastRun[g] \leq tree[g]
                                    /\ fingerprint'[p][g] # None
                                       => lastRun[g] \leq fingerprint'[p][g]
    BY <1>0, <2>3, Numbers DEF Ordered
  <2>5. QED
    BY <2>1, <2>2, <2>3, <2>4 DEF Ordered
<1>3. ASSUME NEW p \in Procs, CacheHit(p) \/ CacheMiss(p) \/ ParseDone(p) \/ EmitDone(p)
      PROVE  Ordered'
  BY <1>0, <1>3 DEF CacheHit, CacheMiss, ParseDone, EmitDone, TypeOK, Ordered
<1>4. ASSUME NEW p \in Procs, Return(p) \/ WriteLastRun(p) \/ Abort(p)
      PROVE  Ordered'
  <2>1. Leave(p) /\ (\A q \in Procs : q = p)
    BY <1>4 DEF Return, WriteLastRun, Abort, OneRun
  <2>2. \A q \in Procs, f \in Files : fingerprint'[q][f] = None /\ taken'[q][f] = {}
    BY <1>0, <2>1 DEF Leave, TypeOK, Unread
  <2>3. tree' = tree
    BY <2>1 DEF Leave
  <2>4. lastRun' = lastRun \/ (lastRun' = fingerprint[p] /\ Complete(fingerprint[p]))
    BY <1>0, <1>4 DEF Return, WriteLastRun, Abort, Reading, Steps
  <2>5. lastRun' # None => \A f \in Files : lastRun'[f] \leq tree[f]
    BY <2>4 DEF Ordered, Complete
  <2>6. QED
    BY <2>2, <2>3, <2>5 DEF Ordered
<1>5. ASSUME NEW p \in Procs, NEW f \in Files, Parse(p, f) \/ Scan(p, f) \/ FileRow(p, f)
      PROVE  Ordered'
  <2>1. \A q \in Procs : q = p
    BY DEF OneRun
  <2>0. Take(p, f) /\ pc[p] \in {"parse", "outside", "fill"}
    BY <1>5 DEF Parse, Scan, FileRow
  <2>2. /\ tree' = tree /\ fingerprint' = fingerprint /\ lastRun' = lastRun /\ pc' = pc
    BY <2>0 DEF Take
  <2>3. \A g \in Files : taken'[p][g] = IF g = f THEN taken[p][f] \union {tree[f]} ELSE taken[p][g]
    BY <1>0, <2>0, TakeType
  <2>4. fingerprint[p][f] # None
    BY <1>0, <2>0 DEF Reading, Complete, Steps
  <2>6. fingerprint[p][f] \leq tree[f] /\ tree[f] \leq tree[f]
    BY <1>0, <2>4, Numbers DEF Ordered
  <2>5. ASSUME NEW g \in Files, NEW v \in taken'[p][g]
        PROVE  fingerprint[p][g] # None /\ fingerprint[p][g] \leq v /\ v \leq tree[g]
    <3>1. v \in taken[p][g] \/ (g = f /\ v = tree[f])
      BY <2>3
    <3>2. QED
      BY <2>4, <2>6, <3>1 DEF Ordered
  <2>7. pc'[p] \notin {"idle", "hash", "hit"}
    BY <2>0, <2>2
  <2>8. QED
    BY <2>1, <2>2, <2>5, <2>7 DEF Ordered
<1>6. ASSUME NEW p \in Procs, ReadOutside(p)
      PROVE  Ordered'
  BY <1>0, <1>6 DEF ReadOutside, TypeOK, Ordered
<1>7. ASSUME NEW p \in Procs,
             WipeGraph(p) \/ FillGraph(p) \/ WipeLexical(p) \/ FillLexical(p)
      PROVE  Ordered'
  BY <1>0, <1>7 DEF WipeGraph, FillGraph, WipeLexical, FillLexical, TypeOK, Ordered
<1>8. ASSUME NEW p \in Procs, WriteArtifact(p) \/ \E a \in Artifacts : OpenArtifact(p, a)
      PROVE  Ordered'
  <2>1. /\ tree' = tree /\ pc' = pc /\ lastRun' = lastRun
        /\ fingerprint' = fingerprint /\ taken' = taken
    BY <1>8 DEF WriteArtifact, OpenArtifact
  <2>2. QED
    BY <2>1 DEF Ordered
<1>9. ASSUME NEW p \in Procs, OpenLastRun(p)
      PROVE  Ordered'
  BY <1>0, <1>9 DEF OpenLastRun, TypeOK, Ordered
<1>10. ASSUME NEW f \in Files, NEW v \in Versions, Edit(f, v)
       PROVE  Ordered'
  <2>1. /\ pc' = pc /\ fingerprint' = fingerprint /\ taken' = taken /\ lastRun' = lastRun
        /\ v \in Nat /\ v > tree[f]
        /\ \A g \in Files : tree'[g] = IF g = f THEN v ELSE tree[g]
    BY <1>0, <1>10, VersionsAssumption DEF Edit, TypeOK
  <2>2. \A g \in Files : tree[g] \leq tree'[g] /\ tree'[g] \in Nat
    BY <1>0, <2>1, Numbers
  <2>3. QED
    BY <1>0, <2>1, <2>2, Numbers DEF Ordered
<1>11. ASSUME ChangeOutside(outside') \/ \E d \in OutDirs, a \in Artifacts : DeleteArtifact(d, a)
       PROVE  Ordered'
  BY <1>11 DEF ChangeOutside, DeleteArtifact, Ordered
<1>12. CASE UNCHANGED vars
  BY <1>12 DEF vars, Ordered
<1>13. ASSUME Environment
       PROVE  Ordered'
  BY <1>10, <1>11, <1>13 DEF Environment, ChangeOutside
<1>14. QED
  BY <1>1, <1>2, <1>3, <1>4, <1>5, <1>6, <1>7, <1>8, <1>9, <1>12, <1>13 DEF Next, Run

(* Only the last step of a run writes a record, of what it hashed.         *)
LEMMA RecordStep ==
    ASSUME OneRun, Next, lastRun = None, lastRun' # None, NEW p \in Procs
    PROVE  lastRun' = fingerprint[p]
<1> USE DEF Goto, disk, args, reading, emitting
<1>1. ASSUME NEW q \in Procs, NEW d \in OutDirs, NEW forced \in BOOLEAN, Start(q, d, forced)
      PROVE  FALSE
  BY <1>1 DEF Start
<1>2. ASSUME NEW q \in Procs, Run(q) PROVE lastRun' = fingerprint[p]
  <2>1. ASSUME NEW f \in Files, Hash(q, f) \/ Parse(q, f) \/ Scan(q, f) \/ FileRow(q, f)
        PROVE  FALSE
    BY <2>1 DEF Hash, Parse, Scan, FileRow, Take
  <2>2. ASSUME WriteArtifact(q) \/ \E a \in Artifacts : OpenArtifact(q, a) PROVE FALSE
    BY <2>2 DEF WriteArtifact, OpenArtifact
  <2>3. ASSUME \/ CacheHit(q) \/ CacheMiss(q) \/ ParseDone(q) \/ ReadOutside(q) \/ WipeGraph(q)
               \/ FillGraph(q) \/ WipeLexical(q) \/ FillLexical(q) \/ EmitDone(q)
               \/ OpenLastRun(q) \/ Return(q)
        PROVE  FALSE
    BY <2>3 DEF CacheHit, CacheMiss, ParseDone, ReadOutside, WipeGraph, FillGraph, WipeLexical,
                FillLexical, EmitDone, OpenLastRun, Return
  <2>4. ASSUME WriteLastRun(q) PROVE lastRun' = fingerprint[p]
    BY <2>4 DEF WriteLastRun, OneRun
  <2>5. QED
    BY <1>2, <2>1, <2>2, <2>3, <2>4 DEF Run
<1>3. ASSUME NEW q \in Procs, Abort(q) PROVE FALSE
  BY <1>3 DEF Abort
<1>4. ASSUME Environment PROVE FALSE
  BY <1>4 DEF Environment, Edit, ChangeOutside, DeleteArtifact
<1>5. QED
  BY <1>1, <1>2, <1>3, <1>4 DEF Next

(* A run that records itself leaves the artifacts, the graph and the index  *)
(* of what it has read behind, provided no second run works in the          *)
(* repository; and of what it hashed, where no file has moved on since.     *)
THEOREM RecordedRunWhole == OneRun /\ Spec => RecordedRunIsWhole
<1> SUFFICES ASSUME OneRun PROVE Spec => RecordedRunIsWhole
  OBVIOUS
<1> DEFINE Whole ==
      \A p \in Procs : pc[p] = "recording" /\ lastRun' # None =>
          /\ \A a \in Artifacts : art[out[p]][a] \in {None, Snapshot(p)}
          /\ \A s \in Stores : store[s] = Snapshot(p)
          /\ ~Reverts /\ tree = lastRun' => Snapshot(p).tree = Only(lastRun')
    Inv == Typed /\ Written /\ (~Reverts => Ordered)
<1>1. Inv /\ [Next]_vars => [Whole]_vars
  <2> SUFFICES ASSUME Inv, Next, NEW p \in Procs, pc[p] = "recording", lastRun' # None
               PROVE  /\ \A a \in Artifacts : art[out[p]][a] \in {None, Snapshot(p)}
                      /\ \A s \in Stores : store[s] = Snapshot(p)
                      /\ ~Reverts /\ tree = lastRun' => Snapshot(p).tree = Only(lastRun')
    OBVIOUS
  <2>1. left[p] = {} /\ writing[p] = None /\ lastRun = None
    BY DEF Written, Steps
  <2>2. /\ \A a \in Artifacts : art[out[p]][a] \in {None, Snapshot(p)}
        /\ \A s \in Stores : store[s] = Snapshot(p)
    BY <2>1, SentinelAssumption DEF Written, Stores
  <2>3. ASSUME ~Reverts, tree = lastRun'
        PROVE  taken[p] = Only(tree)
    <3>0. lastRun' = fingerprint[p]
      BY <2>1, RecordStep, Zenon
    <3>1. tree = fingerprint[p]
      BY <2>3, <3>0
    <3>2. ASSUME NEW f \in Files
          PROVE  taken[p][f] = {tree[f]}
      <4>0. taken[p][f] # {}
        BY DEF Typed, Reading, Steps
      <4>1. taken[p][f] # {} /\ taken[p][f] \subseteq Nat /\ tree[f] \in Nat
        BY <4>0, Numbers DEF Typed
      <4>2. \A v \in taken[p][f] : tree[f] \leq v /\ v \leq tree[f]
        BY <2>3, <3>1 DEF Ordered
      <4>3. \A v \in taken[p][f] : v = tree[f]
        BY <4>1, <4>2
      <4>4. QED
        BY <4>1, <4>3
    <3>3. taken[p] \in [Files -> SUBSET Versions]
      BY DEF Typed, TypeOK
    <3>4. QED
      BY <3>2, <3>3 DEF Only
  <2>4. QED
    BY <2>2, <2>3 DEF Snapshot
<1>2. Inv /\ [Next]_vars => Inv'
  <2> SUFFICES ASSUME Inv, [Next]_vars PROVE Inv'
    OBVIOUS
  <2>1. Typed' /\ Written'
    BY TypedStep, WrittenStep
  <2>2. ~Reverts => Ordered'
    BY OrderedStep
  <2>3. QED
    BY <2>1, <2>2
<1>3. Init => Inv
  BY TypedInit, WrittenInit, ResumeInit
<1>4. Spec => [][Whole]_vars
  BY <1>1, <1>2, <1>3, PTL DEF Spec
<1>5. QED
  BY <1>4 DEF RecordedRunIsWhole

LEMMA PresentStep ==
    ASSUME Resumable, Typed, Written, Present, [Next]_vars
    PROVE  Present'
<1> USE DEF Goto, disk, args, reading, emitting
<1>0. /\ TypeOK /\ Reading
      /\ None # Torn /\ None \notin Snapshots
      /\ \A p, q \in Procs : p = q
      /\ \A p \in Procs : out[p] \in OutDirs
      /\ \A d, e \in OutDirs : d = e
  BY SentinelAssumption DEF Typed, TypeOK, Resumable, OneRun, OneDir
<1>1. ASSUME NEW p \in Procs, NEW d \in OutDirs, NEW forced \in BOOLEAN,
             Start(p, d, forced)
      PROVE  Present'
  <2>1. ~forced
    BY <1>1 DEF Start, Resumable
  <2>2. QED
    BY <1>0, <1>1, <2>1 DEF Start, TypeOK, Present
<1>2. ASSUME NEW p \in Procs, NEW f \in Files, Hash(p, f) \/ Parse(p, f) \/ Scan(p, f) \/ FileRow(p, f)
      PROVE  Present'
  <2>1. /\ art' = art /\ lastRun' = lastRun /\ pc' = pc
        /\ force' = force /\ out' = out /\ left' = left
    BY <1>2 DEF Hash, Parse, Scan, FileRow, Take
  <2>2. QED
    BY <2>1 DEF Present
<1>3. ASSUME NEW p \in Procs, CacheHit(p) \/ CacheMiss(p) \/ ParseDone(p) \/ EmitDone(p)
                              \/ ReadOutside(p)
      PROVE  Present'
  BY <1>0, <1>3
     DEF CacheHit, CacheMiss, ParseDone, EmitDone, ReadOutside, TypeOK, Present
<1>4. ASSUME NEW p \in Procs, Return(p) \/ WriteLastRun(p) \/ Abort(p)
      PROVE  Present'
  <2>1. Leave(p)
    BY <1>4 DEF Return, WriteLastRun, Abort
  <2>2. \A q \in Procs : pc'[q] = "idle" /\ ~force'[q]
    BY <1>0, <2>1 DEF Leave, TypeOK
  <2>3. lastRun' = lastRun \/ (pc[p] = "recording" /\ left[p] = {})
    BY <1>4 DEF Return, WriteLastRun, Abort, Written
  <2>4. lastRun' # None => \A d \in OutDirs, a \in Artifacts : art[d][a] # None
    BY <1>0, <2>3 DEF Present
  <2>5. art' = art
    BY <2>1 DEF Leave
  <2>6. QED
    BY <2>2, <2>4, <2>5 DEF Present
<1>5. ASSUME NEW p \in Procs,
             WipeGraph(p) \/ FillGraph(p) \/ WipeLexical(p) \/ FillLexical(p)
      PROVE  Present'
  <2>1. left[p] = Artifacts \/ (FillLexical(p) /\ left[p] = Artifacts)
    BY <1>5 DEF WipeGraph, FillGraph, WipeLexical, FillLexical, Written
  <2>2. QED
    BY <1>0, <1>5, <2>1
       DEF WipeGraph, FillGraph, WipeLexical, FillLexical, TypeOK, Present
<1>6. ASSUME NEW p \in Procs, NEW a \in Artifacts, OpenArtifact(p, a)
      PROVE  Present'
  <2>1. \A d \in OutDirs, b \in Artifacts :
            art'[d][b] = IF b = a THEN Torn ELSE art[d][b]
    BY <1>0, <1>6 DEF OpenArtifact, TypeOK
  <2>2. /\ left'[p] = left[p] \ {a} /\ pc' = pc /\ pc[p] = "emit"
        /\ force' = force /\ out' = out /\ lastRun' = lastRun
    BY <1>0, <1>6 DEF OpenArtifact, TypeOK
  <2>3. QED
    BY <1>0, <2>1, <2>2 DEF Present
<1>7. ASSUME NEW p \in Procs, WriteArtifact(p)
      PROVE  Present'
  <2>1. /\ left' = left /\ pc' = pc /\ force' = force /\ out' = out /\ lastRun' = lastRun
    BY <1>7 DEF WriteArtifact
  <2>2. Snapshot(p) # None /\ writing[p] \in Artifacts
    BY <1>0, <1>7, SnapshotType DEF WriteArtifact, TypeOK
  <2>3. \A d \in OutDirs, b \in Artifacts : art[d][b] # None => art'[d][b] # None
    BY <1>0, <1>7, <2>2 DEF WriteArtifact, TypeOK
  <2>4. QED
    BY <1>0, <2>1, <2>3 DEF Present
<1>8. ASSUME NEW p \in Procs, OpenLastRun(p)
      PROVE  Present'
  BY <1>0, <1>8 DEF OpenLastRun, TypeOK, Present
<1>9. ASSUME Environment \/ UNCHANGED vars
      PROVE  Present'
  <2>1. /\ lastRun' = lastRun /\ pc' = pc
        /\ force' = force /\ out' = out /\ left' = left
    BY <1>9 DEF Environment, Edit, ChangeOutside, DeleteArtifact, vars
  <2>2. art' = art \/ (lastRun = None /\ \A p \in Procs : pc[p] = "idle")
    BY <1>9 DEF Environment, Edit, ChangeOutside, DeleteArtifact, Quiet, vars, Resumable
  <2>3. QED
    BY <2>1, <2>2 DEF Present
<1>10. QED
  BY <1>1, <1>2, <1>3, <1>4, <1>5, <1>6, <1>7, <1>8, <1>9 DEF Next, Run

(* Two readings that differ somewhere, the older nowhere ahead.             *)
LEMMA SomeFileGrew ==
    ASSUME TypeOK, NEW u \in [Files -> Nat], NEW v \in [Files -> Nat], u # v,
           \A f \in Files : u[f] \leq v[f]
    PROVE  \E f \in Files : u[f] < v[f]
<1>1. PICK f \in Files : u[f] # v[f]
  OBVIOUS
<1>2. u[f] < v[f]
  BY <1>1
<1>3. QED
  BY <1>2

LEMMA BehindStep ==
    ASSUME Resumable, Typed, Written, Ordered, Present, Behind, [Next]_vars
    PROVE  Behind'
<1> USE DEF Goto, disk, args, reading, emitting
<1>0. /\ TypeOK /\ Reading
      /\ None # Torn /\ None \notin Snapshots /\ None \notin Nat
      /\ \A p, q \in Procs : p = q
      /\ \A p \in Procs : out[p] \in OutDirs
      /\ \A d, e \in OutDirs : d = e
  BY SentinelAssumption DEF Typed, TypeOK, Resumable, OneRun, OneDir
<1>s. /\ art' = art /\ store' = store /\ lastRun' = lastRun
      => \A d \in OutDirs : Shows(d, lastRun) => Shows(d, lastRun)'
  BY DEF Shows
<1>1. ASSUME NEW p \in Procs, NEW d \in OutDirs, NEW forced \in BOOLEAN,
             Start(p, d, forced)
      PROVE  Behind'
  <2>1. /\ art' = art /\ store' = store /\ lastRun' = lastRun /\ tree' = tree
        /\ fingerprint' = fingerprint /\ pc[p] = "idle" /\ pc'[p] = "hash"
    BY <1>0, <1>1 DEF Start, TypeOK
  <2>2. \A f \in Files : fingerprint[p][f] = None
    BY <2>1 DEF Ordered
  <2>3. \A f \in Files : Overtaken(f) => Overtaken(f)'
    BY <1>0, <2>1, <2>2 DEF Overtaken
  <2>4. QED
    BY <1>0, <1>s, <2>1, <2>3 DEF Behind
<1>2. ASSUME NEW p \in Procs, NEW f \in Files, Hash(p, f)
      PROVE  Behind'
  <2>1. /\ art' = art /\ store' = store /\ lastRun' = lastRun /\ tree' = tree
        /\ pc' = pc /\ fingerprint[p] \in Partial
        /\ fingerprint'[p] = [fingerprint[p] EXCEPT ![f] = tree[f]]
    BY <1>0, <1>2 DEF Hash, TypeOK
  <2>2. \A g \in Files : fingerprint'[p][g] = IF g = f THEN tree[f] ELSE fingerprint[p][g]
    BY <2>1 DEF Partial
  <2>3. \A g \in Files : Overtaken(g) => Overtaken(g)'
    BY <1>0, <2>1, <2>2 DEF Overtaken
  <2>4. QED
    BY <1>0, <1>s, <2>1, <2>3 DEF Behind
<1>3. ASSUME NEW p \in Procs, CacheMiss(p)
      PROVE  Behind'
  <2>1. /\ art' = art /\ store' = store /\ lastRun' = lastRun /\ tree' = tree
        /\ fingerprint' = fingerprint /\ pc[p] = "hash" /\ pc'[p] = "parse"
    BY <1>0, <1>3 DEF CacheMiss, TypeOK
  <2>2. SUFFICES ASSUME lastRun # None
                 PROVE  \E f \in Files : Overtaken(f)'
    BY <1>0, <2>1 DEF Behind
  <2>3. lastRun # fingerprint[p]
    BY <1>0, <1>3, <2>2 DEF CacheMiss, IsHit, Present
  <2>4. /\ lastRun \in [Files -> Nat] /\ fingerprint[p] \in [Files -> Nat]
        /\ \A f \in Files : lastRun[f] \leq fingerprint[p][f]
    <3>1. Complete(fingerprint[p]) /\ fingerprint[p] \in Partial
      BY <1>0, <1>3 DEF CacheMiss, TypeOK
    <3>2. fingerprint[p] \in [Files -> Versions] /\ lastRun \in [Files -> Versions]
      BY <1>0, <2>2, <3>1, CompleteReading DEF TypeOK
    <3>3. \A f \in Files : lastRun[f] \leq fingerprint[p][f]
      BY <2>2, <3>1 DEF Ordered, Complete
    <3>4. QED
      BY <3>2, <3>3, VersionsAssumption
  <2>5. PICK f \in Files : lastRun[f] < fingerprint[p][f]
    BY <1>0, <2>3, <2>4, SomeFileGrew
  <2>6. fingerprint[p][f] \leq tree[f] /\ tree[f] \in Nat
    BY <1>0, <2>4, Numbers DEF Ordered
  <2>7. lastRun[f] < tree[f]
    BY <2>4, <2>5, <2>6
  <2>8. QED
    BY <1>0, <2>1, <2>7 DEF Overtaken
<1>4. ASSUME NEW p \in Procs, WriteLastRun(p)
      PROVE  Behind'
  <2>1. /\ art' = art /\ store' = store /\ tree' = tree /\ lastRun' = fingerprint[p]
        /\ pc[p] = "recording" /\ pc'[p] = "idle"
    BY <1>0, <1>4 DEF WriteLastRun, Leave, TypeOK
  <2>2. /\ fingerprint[p] \in [Files -> Nat] /\ taken[p] \in [Files -> SUBSET Nat]
        /\ \A f \in Files : taken[p][f] # {}
        /\ \A f \in Files : \A v \in taken[p][f] : fingerprint[p][f] \leq v /\ v \leq tree[f]
    <3>1. Complete(fingerprint[p]) /\ fingerprint[p] \in Partial
      BY <1>0, <2>1 DEF TypeOK, Reading, Steps
    <3>2. fingerprint[p] \in [Files -> Versions] /\ taken[p] \in [Files -> SUBSET Versions]
      BY <1>0, <3>1, CompleteReading DEF TypeOK
    <3>3. \A f \in Files : \A v \in taken[p][f] : fingerprint[p][f] \leq v /\ v \leq tree[f]
      BY DEF Ordered
    <3>5. \A f \in Files : taken[p][f] # {}
      BY <1>0, <2>1 DEF Reading, Steps
    <3>4. QED
      BY <3>2, <3>3, <3>5, VersionsAssumption
  <2>3. \A q \in Procs : pc'[q] = "idle"
    BY <1>0, <2>1
  <2>4. CASE taken[p] = Only(fingerprint[p])
    <3>1. \A d \in OutDirs, a \in Artifacts : art[d][a] = Snapshot(p)
      <4>1. left[p] = {} /\ writing[p] = None
        BY <2>1 DEF Written, Steps
      <4>2. \A a \in Artifacts : art[out[p]][a] = Snapshot(p)
        BY <1>0, <2>1, <4>1, SentinelAssumption DEF Written, Present
      <4>3. QED
        BY <1>0, <4>2
    <3>2. \A s \in Stores : store[s] = Snapshot(p)
      BY <2>1 DEF Written, Stores
    <3>3. Snapshot(p) \in Snapshots /\ Snapshot(p).tree = Only(fingerprint[p])
      BY <2>1, <2>4, SnapshotType DEF Snapshot
    <3>4. \A d \in OutDirs : Shows(d, lastRun)'
      BY <2>1, <3>1, <3>2, <3>3 DEF Shows
    <3>5. QED
      BY <2>3, <3>4 DEF Behind
  <2>5. CASE taken[p] # Only(fingerprint[p])
    <3>0. PICK f \in Files : taken[p][f] # {fingerprint[p][f]}
      BY <2>2, <2>5 DEF Only
    <3>1. PICK v \in taken[p][f] : v # fingerprint[p][f]
      BY <2>2, <3>0
    <3>4. /\ v \in Nat /\ fingerprint[p][f] \in Nat /\ tree[f] \in Nat
          /\ fingerprint[p][f] \leq v /\ v \leq tree[f]
      BY <1>0, <2>2, Numbers
    <3>2. lastRun'[f] < tree'[f]
      BY <2>1, <3>1, <3>4
    <3>3. Overtaken(f)'
      BY <2>3, <3>2 DEF Overtaken
    <3>5. QED
      BY <2>3, <3>3 DEF Behind
  <2>6. QED
    BY <2>4, <2>5
<1>5. ASSUME NEW p \in Procs, Return(p) \/ Abort(p)
      PROVE  Behind'
  <2>1. /\ art' = art /\ store' = store /\ lastRun' = lastRun /\ tree' = tree
        /\ pc'[p] = "idle"
    BY <1>0, <1>5 DEF Return, Abort, Leave, TypeOK
  <2>2. \A q \in Procs : pc'[q] = "idle"
    BY <1>0, <2>1
  <2>3. \A f \in Files : Overtaken(f) => Overtaken(f)'
    BY <2>1, <2>2 DEF Overtaken
  <2>4. QED
    BY <1>s, <2>1, <2>2, <2>3 DEF Behind
<1>6. ASSUME NEW p \in Procs,
             \/ WipeGraph(p) \/ FillGraph(p) \/ WipeLexical(p) \/ FillLexical(p)
             \/ WriteArtifact(p) \/ \E a \in Artifacts : OpenArtifact(p, a)
      PROVE  Behind'
  <2>1. /\ lastRun' = lastRun /\ tree' = tree /\ fingerprint' = fingerprint
        /\ pc[p] \in Steps \ {"idle", "hash", "hit"} /\ pc'[p] # "hash"
    BY <1>0, <1>6 DEF WipeGraph, FillGraph, WipeLexical, FillLexical, WriteArtifact,
                      OpenArtifact, TypeOK, Steps
  <2>2. \A f \in Files : Overtaken(f) => Overtaken(f)'
    BY <1>0, <2>1 DEF Overtaken
  <2>3. QED
    BY <2>1, <2>2 DEF Behind
<1>7. ASSUME NEW p \in Procs, OpenLastRun(p)
      PROVE  Behind'
  BY <1>7 DEF OpenLastRun, Behind
<1>8. ASSUME NEW p \in Procs, CacheHit(p) \/ ParseDone(p) \/ EmitDone(p) \/ ReadOutside(p)
      PROVE  Behind'
  <2>1. /\ art' = art /\ store' = store /\ lastRun' = lastRun /\ tree' = tree
        /\ fingerprint' = fingerprint /\ pc'[p] # "hash"
        /\ pc'[p] \in Steps \ {"idle", "hash", "hit"} => pc[p] \in Steps \ {"idle", "hash", "hit"}
    BY <1>0, <1>8 DEF CacheHit, ParseDone, EmitDone, ReadOutside, TypeOK, Steps
  <2>2. \A f \in Files : Overtaken(f) => Overtaken(f)'
    BY <1>0, <2>1 DEF Overtaken
  <2>3. QED
    BY <1>0, <1>s, <2>1, <2>2 DEF Behind
<1>9. ASSUME NEW p \in Procs, NEW f \in Files, Parse(p, f) \/ Scan(p, f) \/ FileRow(p, f)
      PROVE  Behind'
  <2>1. /\ art' = art /\ store' = store /\ lastRun' = lastRun /\ tree' = tree
        /\ fingerprint' = fingerprint /\ pc' = pc
    BY <1>9 DEF Parse, Scan, FileRow, Take
  <2>2. QED
    BY <2>1 DEF Behind, Overtaken, Shows
<1>10. ASSUME Environment \/ UNCHANGED vars
       PROVE  Behind'
  <2>1. /\ lastRun # None => art' = art
        /\ store' = store /\ lastRun' = lastRun
        /\ fingerprint' = fingerprint /\ pc' = pc
    BY <1>10 DEF Environment, Edit, ChangeOutside, DeleteArtifact, vars, Resumable
  <2>2. \A f \in Files : tree[f] \leq tree'[f] /\ tree'[f] \in Nat
    <3>1. ASSUME NEW g \in Files, NEW v \in Versions, Edit(g, v)
          PROVE  \A f \in Files : tree[f] \leq tree'[f] /\ tree'[f] \in Nat
      BY <1>0, <3>1, Numbers, VersionsAssumption DEF Edit, Resumable, TypeOK
    <3>2. tree' = tree => \A f \in Files : tree[f] \leq tree'[f] /\ tree'[f] \in Nat
      BY <1>0, Numbers
    <3>3. QED
      BY <1>10, <3>1, <3>2 DEF Environment, ChangeOutside, DeleteArtifact, vars
  <2>3. ASSUME lastRun # None, NEW f \in Files, Overtaken(f)
        PROVE  Overtaken(f)'
    BY <1>0, <2>1, <2>2, <2>3, Numbers DEF Overtaken
  <2>4. QED
    BY <1>s, <2>1, <2>3 DEF Behind
<1>11. QED
  BY <1>1, <1>2, <1>3, <1>4, <1>5, <1>6, <1>7, <1>8, <1>9, <1>10 DEF Next, Run

(* Only the cache test decides on a hit.                                    *)
LEMMA HitStep ==
    ASSUME Typed, Next, NEW p \in Procs, pc[p] = "hash", pc'[p] = "hit"
    PROVE  CacheHit(p)
<1> USE DEF Goto, disk, args, reading, emitting
<1>1. pc \in [Procs -> Steps]
  BY DEF Typed, TypeOK
<1>2. ASSUME NEW q \in Procs, NEW d \in OutDirs, NEW forced \in BOOLEAN, Start(q, d, forced)
      PROVE  FALSE
  BY <1>1, <1>2 DEF Start
<1>3. ASSUME NEW q \in Procs, Run(q) PROVE CacheHit(p)
  <2>1. ASSUME NEW f \in Files, Hash(q, f) \/ Parse(q, f) \/ Scan(q, f) \/ FileRow(q, f)
        PROVE  FALSE
    BY <2>1 DEF Hash, Parse, Scan, FileRow, Take
  <2>2. ASSUME Return(q) \/ WriteLastRun(q) PROVE FALSE
    BY <1>1, <2>2 DEF Return, WriteLastRun, Leave
  <2>3. ASSUME WriteArtifact(q) \/ \E a \in Artifacts : OpenArtifact(q, a) PROVE FALSE
    BY <2>3 DEF WriteArtifact, OpenArtifact
  <2>4. ASSUME \/ CacheMiss(q) \/ ParseDone(q) \/ ReadOutside(q) \/ WipeGraph(q)
               \/ FillGraph(q) \/ WipeLexical(q) \/ FillLexical(q) \/ EmitDone(q)
               \/ OpenLastRun(q)
        PROVE  FALSE
    BY <1>1, <2>4 DEF CacheMiss, ParseDone, ReadOutside, WipeGraph, FillGraph,
                      WipeLexical, FillLexical, EmitDone, OpenLastRun
  <2>5. ASSUME CacheHit(q) PROVE p = q
    BY <1>1, <2>5 DEF CacheHit
  <2>6. QED
    BY <1>3, <2>1, <2>2, <2>3, <2>4, <2>5 DEF Run
<1>4. ASSUME NEW q \in Procs, Abort(q) PROVE FALSE
  BY <1>1, <1>4 DEF Abort, Leave
<1>5. ASSUME Environment PROVE FALSE
  BY <1>5 DEF Environment, Edit, ChangeOutside, DeleteArtifact
<1>6. QED
  BY <1>2, <1>3, <1>4, <1>5 DEF Next

(* A cache hit is never a false claim, whatever was interrupted or edited in *)
(* the middle of earlier runs, when contents do not come back, nobody forces *)
(* a run or deletes artifacts, and all runs use one directory, one at a time. *)
THEOREM ResumableHits == Resumable /\ Spec => HitIsCurrent
<1> SUFFICES ASSUME Resumable PROVE Spec => HitIsCurrent
  OBVIOUS
<1> DEFINE Inv == Typed /\ Written /\ Ordered /\ Present /\ Behind
           Current == \A p \in Procs :
                        pc[p] = "hash" /\ pc'[p] = "hit" => Shows(out[p], fingerprint[p])
<1>1. Init => Inv
  BY TypedInit, WrittenInit, ResumeInit
<1>2. Inv /\ [Next]_vars => Inv'
  BY TypedStep, WrittenStep, OrderedStep, PresentStep, BehindStep DEF Resumable
<1>3. Inv /\ [Next]_vars => [Current]_vars
  <2> SUFFICES ASSUME Inv, Next, NEW p \in Procs, pc[p] = "hash", pc'[p] = "hit"
               PROVE  Shows(out[p], fingerprint[p])
    OBVIOUS
  <2>1. CacheHit(p)
    BY HitStep
  <2>2. lastRun # None /\ lastRun = fingerprint[p] /\ out[p] \in OutDirs
    BY <2>1 DEF CacheHit, IsHit, Typed, TypeOK
  <2>3. \A f \in Files : ~Overtaken(f)
    <3>1. SUFFICES ASSUME NEW f \in Files, Overtaken(f) PROVE FALSE
      OBVIOUS
    <3>2. fingerprint[p][f] # None
      BY <2>1 DEF CacheHit, Complete
    <3>3. lastRun[f] < lastRun[f] /\ lastRun[f] \in Nat
      BY <2>2, <3>1, <3>2, Numbers DEF Overtaken, Typed
    <3>4. QED
      BY <3>3
  <2>4. QED
    BY <2>2, <2>3 DEF Behind
<1>4. Spec => [][Current]_vars
  BY <1>1, <1>2, <1>3, PTL DEF Spec
<1>5. QED
  BY <1>4 DEF HitIsCurrent
-----------------------------------------------------------------------------
(* The other half of the environment: contents may come back, runs may be   *)
(* forced and artifacts deleted, but the tree rests while a run goes on and  *)
(* every run ends by itself.                                               *)
Settling == OneRun /\ OneDir /\ ~MidRunEdits /\ ~Aborts

(* A run reads the one tree it was started on.                              *)
Still ==
    \A p \in Procs, f \in Files :
        /\ fingerprint[p][f] \in {None, tree[f]}
        /\ taken[p][f] \subseteq {tree[f]}
        /\ pc[p] = "idle" => fingerprint[p][f] = None /\ taken[p][f] = {}
        /\ pc[p] \in {"hash", "hit"} => taken[p][f] = {}

(* Until a run begins to write, the disk shows what the record says, but    *)
(* for the artifacts that were deleted.                                    *)
Settled ==
    \A p \in Procs :
        lastRun # None /\ pc[p] \in {"idle", "hash", "hit", "parse", "outside", "wipe"} =>
            /\ \A d \in OutDirs, a \in Artifacts :
                  art[d][a] # None => art[d][a] \in Snapshots /\ art[d][a].tree = Only(lastRun)
            /\ \A s \in Stores : store[s] \in Snapshots /\ store[s].tree = Only(lastRun)

LEMMA SettledInit == Init => Still /\ Settled
BY DEF Init, Still, Settled, Unread

LEMMA StillStep ==
    ASSUME Settling, Typed, Still, [Next]_vars
    PROVE  Still'
<1> USE DEF Goto, disk, args, reading, emitting
<1>0. TypeOK /\ \A p, q \in Procs : p = q
  BY DEF Typed, Settling, OneRun
<1>1. ASSUME NEW p \in Procs, NEW d \in OutDirs, NEW forced \in BOOLEAN,
             Start(p, d, forced)
      PROVE  Still'
  BY <1>0, <1>1 DEF Start, TypeOK, Still
<1>2. ASSUME NEW p \in Procs, NEW f \in Files, Hash(p, f) \/ Parse(p, f) \/ Scan(p, f) \/ FileRow(p, f)
      PROVE  Still'
  <2>1. CASE Hash(p, f)
    BY <1>0, <2>1 DEF Hash, TypeOK, Partial, Still
  <2>2. CASE ~Hash(p, f)
    <3>1. pc[p] \in {"parse", "outside", "fill"} /\ Take(p, f)
      BY <1>2, <2>2 DEF Parse, Scan, FileRow
    <3>2. tree' = tree /\ pc' = pc /\ fingerprint' = fingerprint
      BY <3>1 DEF Take
    <3>3. \A g \in Files : taken'[p][g] \subseteq taken[p][g] \union {tree[g]}
      BY <1>0, <3>1, TakeType
    <3>4. QED
      BY <1>0, <3>1, <3>2, <3>3 DEF Still
  <2>3. QED
    BY <2>1, <2>2
<1>3. ASSUME NEW p \in Procs, Leave(p)
      PROVE  Still'
  BY <1>0, <1>3 DEF Leave, TypeOK, Unread, Still
<1>4. ASSUME NEW p \in Procs, \/ CacheHit(p) \/ CacheMiss(p) \/ ParseDone(p) \/ EmitDone(p)
                              \/ ReadOutside(p) \/ OpenLastRun(p)
      PROVE  Still'
  BY <1>0, <1>4
     DEF CacheHit, CacheMiss, ParseDone, EmitDone, ReadOutside, OpenLastRun, TypeOK, Still
<1>5. ASSUME NEW p \in Procs,
             WipeGraph(p) \/ FillGraph(p) \/ WipeLexical(p) \/ FillLexical(p)
      PROVE  Still'
  BY <1>0, <1>5 DEF WipeGraph, FillGraph, WipeLexical, FillLexical, TypeOK, Still
<1>6. ASSUME \/ \E p \in Procs : WriteArtifact(p) \/ \E a \in Artifacts : OpenArtifact(p, a)
             \/ \E d \in OutDirs, a \in Artifacts : DeleteArtifact(d, a)
             \/ \E v \in Outsides : ChangeOutside(v)
             \/ UNCHANGED vars
      PROVE  Still'
  <2>1. tree' = tree /\ pc' = pc /\ fingerprint' = fingerprint /\ taken' = taken
    BY <1>6 DEF WriteArtifact, OpenArtifact, DeleteArtifact, ChangeOutside, vars
  <2>2. QED
    BY <2>1 DEF Still
<1>7. ASSUME NEW f \in Files, NEW v \in Versions, Edit(f, v)
      PROVE  Still'
  BY <1>7 DEF Edit, Settling, Quiet, Still
<1>8. QED
  BY <1>1, <1>2, <1>3, <1>4, <1>5, <1>6, <1>7
     DEF Next, Run, Environment, Return, WriteLastRun, Abort

LEMMA SettledStep ==
    ASSUME Settling, Typed, Written, Still, Settled, [Next]_vars
    PROVE  Settled'
<1> USE DEF Goto, disk, args, reading, emitting
<1>0. /\ TypeOK /\ Reading
      /\ \A p, q \in Procs : p = q
      /\ \A d, e \in OutDirs : d = e
      /\ \A p \in Procs : out[p] \in OutDirs
  BY DEF Typed, TypeOK, Settling, OneRun, OneDir
<1> DEFINE Early == {"idle", "hash", "hit", "parse", "outside", "wipe"}
(* A step that writes nothing, and does not bring a run back to an early step. *)
<1>q. ASSUME /\ store' = store /\ lastRun' = lastRun /\ (art' = art \/ Environment)
             /\ \A p \in Procs : pc'[p] \in Early => pc[p] \in Early
      PROVE  Settled'
  <2>1. \A d \in OutDirs, a \in Artifacts : art'[d][a] \in {art[d][a], None}
    <3>1. ASSUME NEW e \in OutDirs, NEW b \in Artifacts, DeleteArtifact(e, b)
          PROVE  \A d \in OutDirs, a \in Artifacts : art'[d][a] \in {art[d][a], None}
      BY <1>0, <3>1 DEF DeleteArtifact, TypeOK
    <3>2. QED
      BY <1>q, <3>1 DEF Environment, Edit, ChangeOutside
  <2>2. QED
    BY <1>q, <2>1 DEF Settled
<1>1. ASSUME NEW p \in Procs, NEW d \in OutDirs, NEW forced \in BOOLEAN,
             Start(p, d, forced)
      PROVE  Settled'
  BY <1>0, <1>1, <1>q DEF Start, TypeOK
<1>2. ASSUME NEW p \in Procs, NEW f \in Files, Hash(p, f) \/ Parse(p, f) \/ Scan(p, f) \/ FileRow(p, f)
      PROVE  Settled'
  <2>1. store' = store /\ lastRun' = lastRun /\ art' = art /\ pc' = pc
    BY <1>2 DEF Hash, Parse, Scan, FileRow, Take
  <2>2. QED
    BY <2>1, <1>q
<1>3. ASSUME NEW p \in Procs, \/ CacheHit(p) \/ CacheMiss(p) \/ ParseDone(p) \/ EmitDone(p)
                              \/ ReadOutside(p) \/ Return(p)
      PROVE  Settled'
  BY <1>0, <1>3, <1>q
     DEF CacheHit, CacheMiss, ParseDone, EmitDone, ReadOutside, Return, Leave, TypeOK
<1>4. ASSUME NEW p \in Procs,
             \/ WipeGraph(p) \/ FillGraph(p) \/ WipeLexical(p) \/ FillLexical(p)
             \/ WriteArtifact(p) \/ \E a \in Artifacts : OpenArtifact(p, a)
      PROVE  Settled'
  <2>1. pc'[p] \notin Early
    BY <1>0, <1>4 DEF WipeGraph, FillGraph, WipeLexical, FillLexical, WriteArtifact,
                      OpenArtifact, TypeOK
  <2>2. QED
    BY <1>0, <2>1 DEF Settled
<1>5. ASSUME NEW p \in Procs, OpenLastRun(p)
      PROVE  Settled'
  BY <1>5 DEF OpenLastRun, Settled
<1>6. ASSUME NEW p \in Procs, WriteLastRun(p)
      PROVE  Settled'
  <2>1. pc[p] = "recording" /\ lastRun' = fingerprint[p] /\ store' = store /\ art' = art
    BY <1>6 DEF WriteLastRun, Leave
  <2>2. taken[p] = Only(fingerprint[p])
    <3>1. \A f \in Files : fingerprint[p][f] = tree[f]
      BY <1>0, <2>1 DEF Still, Reading, Complete, Steps
    <3>2. \A f \in Files : taken[p][f] = {tree[f]}
      BY <1>0, <2>1 DEF Still, Reading, Steps
    <3>3. taken[p] \in [Files -> SUBSET Versions]
      BY <1>0 DEF TypeOK
    <3>4. QED
      BY <3>1, <3>2, <3>3 DEF Only
  <2>3. \A d \in OutDirs, a \in Artifacts : art[d][a] \in {None, Snapshot(p)}
    <3>1. left[p] = {} /\ writing[p] = None
      BY <2>1 DEF Written, Steps
    <3>2. QED
      BY <1>0, <2>1, <3>1, SentinelAssumption DEF Written
  <2>4. \A s \in Stores : store[s] = Snapshot(p)
    BY <2>1 DEF Written, Stores
  <2>5. Snapshot(p) \in Snapshots /\ Snapshot(p).tree = Only(fingerprint[p])
    BY <2>1, <2>2, SnapshotType DEF Snapshot
  <2>6. QED
    BY <2>1, <2>3, <2>4, <2>5 DEF Settled
<1>7. ASSUME Environment \/ UNCHANGED vars
      PROVE  Settled'
  <2>1. store' = store /\ lastRun' = lastRun /\ pc' = pc /\ (art' = art \/ Environment)
    BY <1>7 DEF Environment, Edit, ChangeOutside, DeleteArtifact, vars
  <2>2. QED
    BY <2>1, <1>q
<1>8. QED
  BY <1>1, <1>2, <1>3, <1>4, <1>5, <1>6, <1>7 DEF Next, Run, Abort, Settling

(* A cache hit is never a false claim when files rest during a run and runs *)
(* end by themselves, even if contents come back, runs are forced and       *)
(* artifacts are deleted at any moment.                                    *)
THEOREM SettledHits == Settling /\ Spec => HitIsCurrent
<1> SUFFICES ASSUME Settling PROVE Spec => HitIsCurrent
  OBVIOUS
<1> DEFINE Inv == Typed /\ Written /\ Still /\ Settled
           Current == \A p \in Procs :
                        pc[p] = "hash" /\ pc'[p] = "hit" => Shows(out[p], fingerprint[p])
<1>1. Init => Inv
  BY TypedInit, WrittenInit, SettledInit
<1>2. Inv /\ [Next]_vars => Inv'
  BY TypedStep, WrittenStep, StillStep, SettledStep DEF Settling
<1>3. Inv /\ [Next]_vars => [Current]_vars
  <2> SUFFICES ASSUME Inv, Next, NEW p \in Procs, pc[p] = "hash", pc'[p] = "hit"
               PROVE  Shows(out[p], fingerprint[p])
    OBVIOUS
  <2>1. CacheHit(p)
    BY HitStep
  <2>2. out[p] \in OutDirs
    BY DEF Typed, TypeOK
  <2>3. QED
    BY <2>1, <2>2 DEF CacheHit, IsHit, Settled, Shows
<1>4. Spec => [][Current]_vars
  BY <1>1, <1>2, <1>3, PTL DEF Spec
<1>5. QED
  BY <1>4 DEF HitIsCurrent
=============================================================================
