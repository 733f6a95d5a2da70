-------------------------- MODULE InsightLogProofs --------------------------
(* Proofs about InsightLog, for any number of processes and insights.       *)
EXTENDS InsightLog, SequenceTheorems, TLAPS

(* What the types rest on: a record call has an insight, a builder a file.  *)
Held ==
    /\ \A p \in Procs : pc[p] \in {"dedup", "append"} => arg[p] \in Insights
    /\ \A p \in Procs : mine[p] => index # None /\ pc[p] \in {"tables", "insert"}
    /\ cut => log # <<>>

LEMMA OverType ==
    ASSUME TypeOK, NEW p \in Procs, Over(p)
    PROVE  /\ pc' \in [Procs -> Steps]
           /\ arg' \in [Procs -> Insights \union {None}]
           /\ gathered' \in [Procs -> SUBSET Insights]
           /\ mine' \in [Procs -> BOOLEAN]
           /\ blob' \in [Procs -> SUBSET Insights]
           /\ parent' \in [Procs -> Seq(SUBSET Insights)]
           /\ alone' = alone
BY DEF Over, Goto, TypeOK, Steps

(* The process has nothing open any more, the others keep what they had.    *)
LEMMA OverHeld ==
    ASSUME TypeOK, Held, NEW p \in Procs, Over(p)
    PROVE  /\ \A q \in Procs : pc'[q] \in {"dedup", "append"} => arg'[q] \in Insights
           /\ \A q \in Procs : mine'[q] => mine[q] /\ pc'[q] = pc[q]
BY DEF Over, Goto, TypeOK, Held

LEMMA KnownType ==
    ASSUME NEW lines \in Seq(Lines)
    PROVE  Known(lines) \in SUBSET Insights
BY DEF Known, Lines

LEMMA JunkLines == Garbled \in Lines /\ Binary \in Lines /\ Insights \subseteq Lines
BY DEF Lines, Junk

(* An append makes a new line, or spoils the one that was cut.              *)
LEMMA AppendedLines ==
    ASSUME TypeOK, Held, NEW piece \in Lines
    PROVE  /\ Appended(piece) \in Seq(Lines)
           /\ Appended(piece) # <<>>
           /\ ~cut => Appended(piece) = Append(log, piece)
           /\ cut => /\ Len(log) \in DOMAIN log
                     /\ DOMAIN Appended(piece) = DOMAIN log
                     /\ \A k \in DOMAIN log : k # Len(log) => Appended(piece)[k] = log[k]
                     /\ Appended(piece)[Len(log)] \in Junk
<1>1. log \in Seq(Lines)
  BY DEF TypeOK
<1>2. CASE ~cut
  BY <1>1, <1>2 DEF Appended
<1>3. CASE cut
  <2> DEFINE x == IF Binary \in {log[Len(log)], piece} THEN Binary ELSE Garbled
  <2>1. Appended(piece) = [log EXCEPT ![Len(log)] = x] /\ x \in Junk /\ x \in Lines
    BY <1>3, JunkLines DEF Appended, Junk
  <2>2. Len(log) \in 1..Len(log) /\ DOMAIN log = 1..Len(log)
    BY <1>1, <1>3 DEF Held
  <2> HIDE DEF x
  <2>3. [log EXCEPT ![Len(log)] = x] \in Seq(Lines)
        /\ Len([log EXCEPT ![Len(log)] = x]) = Len(log)
    BY <1>1, <2>1, <2>2, ExceptSeq
  <2>4. \A k \in DOMAIN log : k # Len(log) => [log EXCEPT ![Len(log)] = x][k] = log[k]
    BY <2>2
  <2>5. [log EXCEPT ![Len(log)] = x][Len(log)] = x
    BY <2>2
  <2>6. QED
    BY <1>3, <2>1, <2>2, <2>3, <2>4, <2>5
<1>4. QED
  BY <1>2, <1>3 DEF TypeOK

LEMMA BlankIndex == Blank \in Contents /\ Blank # None
<1>1. Blank \in [tables : BOOLEAN, rows : SUBSET Insights]
  BY {} \in SUBSET Insights DEF Blank
<1>2. QED
  BY <1>1, NoIndexAssumption DEF Contents

LEMMA TypeInit == Init => TypeOK /\ Held
<1>1. <<>> \in Seq(Lines) /\ <<>> \in Seq(SUBSET Insights)
  OBVIOUS
<1>2. {} \in SUBSET Insights /\ "idle" \in Steps
  BY DEF Steps
<1>3. Init => TypeOK
  BY <1>1, <1>2 DEF Init, TypeOK
<1>4. Init => Held
  BY DEF Init, Held
<1>5. QED
  BY <1>3, <1>4

LEMMA TypeStep == TypeOK /\ Held /\ [Next]_vars => TypeOK' /\ Held'
<1> SUFFICES ASSUME TypeOK, Held, [Next]_vars
             PROVE  TypeOK' /\ Held'
  OBVIOUS
<1> USE DEF known
<1>1. CASE UNCHANGED vars
  BY <1>1 DEF TypeOK, Held, vars, files, locals
<1>2. ASSUME NEW p \in Procs,
             \/ \E i \in Insights : Record(p, i)
             \/ Recall(p) \/ Push(p)
      PROVE  TypeOK' /\ Held'
  <2>1. PICK i \in Insights \union {None}, step \in {"dedup", "ensure", "read"} :
            Begin(p, i, step) /\ (step = "dedup" => i \in Insights)
    BY <1>2 DEF Record, Recall, Push
  <2>2. asked' \in SUBSET Insights
    BY <2>1 DEF Begin, TypeOK
  <2>3. QED
    BY <2>1, <2>2 DEF Begin, At, Goto, TypeOK, Held, Steps, files
<1>3. ASSUME NEW p \in Procs, Over(p), UNCHANGED <<files, known>>
      PROVE  TypeOK' /\ Held'
  BY <1>3, OverType, OverHeld DEF TypeOK, Held, files
<1>4. ASSUME NEW p \in Procs, NEW step \in Steps \ {"append", "dedup"},
             ~mine[p], Goto(p, step), UNCHANGED <<files, locals, mine, known, alone>>
      PROVE  TypeOK' /\ Held'
  BY <1>4 DEF Goto, TypeOK, Held, files, locals
<1>5. ASSUME NEW p \in Procs, Dedup(p) PROVE TypeOK' /\ Held'
  <2>1. CASE arg[p] \in Known(log)
    BY <1>5, <2>1, <1>3 DEF Dedup
  <2>2. CASE arg[p] \notin Known(log)
    BY <1>5, <2>2 DEF Dedup, At, Goto, TypeOK, Held, Steps, files, locals
  <2>3. QED
    BY <2>1, <2>2
<1>6. ASSUME NEW p \in Procs, AppendLine(p) PROVE TypeOK' /\ Held'
  <2>1. arg[p] \in Lines
    BY <1>6, JunkLines DEF AppendLine, At, Held
  <2>2. log' \in Seq(Lines) /\ newer' \in BOOLEAN
    BY <1>6, <2>1, AppendedLines DEF AppendLine, Touched, TypeOK
  <2>3. written' \in SUBSET Insights
    BY <1>6 DEF AppendLine, At, TypeOK, Held
  <2>4. QED
    BY <1>6, <2>2, <2>3 DEF AppendLine, At, Goto, TypeOK, Held, Steps, locals
<1>7. ASSUME NEW p \in Procs, NEW t \in Tears, TornAppend(p, t) PROVE TypeOK' /\ Held'
  <2>1. (IF t = Whole THEN arg[p] ELSE t) \in Lines
    BY <1>7, JunkLines, TearsAssumption DEF TornAppend, At, Held, Junk
  <2>2. log' \in Seq(Lines) /\ log' # <<>> /\ newer' \in BOOLEAN
    BY <1>7, <2>1, AppendedLines DEF TornAppend, Touched, TypeOK
  <2>3. QED
    BY <1>7, <2>2, OverType, OverHeld DEF TornAppend, TypeOK, Held
<1>8. ASSUME NEW p \in Procs, Ensure(p) \/ Clear(p) PROVE TypeOK' /\ Held'
  <2>1. ~mine[p]
    BY <1>8 DEF Ensure, Clear, At, Held
  <2>2. PICK step \in Steps \ {"append", "dedup"} : Goto(p, step)
    BY <1>8 DEF Ensure, Clear, Served, Steps
  <2>3. UNCHANGED <<files, locals, mine, known, alone>>
    BY <1>8 DEF Ensure, Clear
  <2>4. QED
    BY <1>4, <2>1, <2>2, <2>3
<1>9. ASSUME NEW p \in Procs, Unlink(p) PROVE TypeOK' /\ Held'
  BY <1>9 DEF Unlink, At, Goto, TypeOK, Held, Steps, locals
<1>10. ASSUME NEW p \in Procs, Gather(p) PROVE TypeOK' /\ Held'
  <2>1. Known(log) \in SUBSET Insights
    BY KnownType DEF TypeOK
  <2>2. QED
    BY <1>10, <2>1 DEF Gather, At, Goto, TypeOK, Held, Steps, files
<1>11. ASSUME NEW p \in Procs, Create(p) PROVE TypeOK' /\ Held'
  <2>1. index' \in Contents \union {None} /\ index' # None /\ newer' \in BOOLEAN
    BY <1>11, BlankIndex DEF Create, TypeOK
  <2>2. QED
    BY <1>11, <2>1 DEF Create, At, Goto, TypeOK, Held, Steps, locals
<1>12. ASSUME NEW p \in Procs, Tables(p) PROVE TypeOK' /\ Held'
  <2>1. index \in Contents
    BY <1>12 DEF Tables, TypeOK, Held
  <2>2. index' \in Contents /\ index' # None /\ newer' \in BOOLEAN
    BY <1>12, <2>1, NoIndexAssumption DEF Tables, Contents
  <2>3. CASE index.tables
    BY <1>12, <2>2, <2>3, OverType, OverHeld DEF Tables, TypeOK, Held
  <2>4. CASE ~index.tables
    <3>1. TypeOK'
      BY <1>12, <2>2, <2>4 DEF Tables, At, Goto, TypeOK, Steps, locals
    <3>2. Held'
      <4>1. pc' = [pc EXCEPT ![p] = "insert"] /\ UNCHANGED <<mine, arg, cut, log>>
        BY <1>12, <2>4 DEF Tables, Goto, locals
      <4> QED
        BY <2>2, <4>1 DEF TypeOK, Held
    <3>3. QED
      BY <3>1, <3>2
  <2>5. QED
    BY <2>3, <2>4
<1>13. ASSUME NEW p \in Procs, Insert(p) PROVE TypeOK' /\ Held'
  <2>1. index \in Contents
    BY <1>13 DEF Insert, TypeOK, Held
  <2>2. gathered[p] \in SUBSET Insights
    BY DEF TypeOK
  <2>3. index' \in Contents /\ index' # None /\ newer' \in BOOLEAN
    BY <1>13, <2>1, <2>2, NoIndexAssumption DEF Insert, Contents
  <2>4. Served(p) \in Steps /\ Served(p) \notin {"dedup", "append"}
    BY DEF Served, Steps
  <2>5. QED
    BY <1>13, <2>3, <2>4 DEF Insert, At, Goto, TypeOK, Held, locals
<1>14. ASSUME NEW p \in Procs, Orphaned(p) PROVE TypeOK' /\ Held'
  <2>1. Over(p) \/ (Goto(p, Served(p)) /\ UNCHANGED <<locals, mine, alone>>)
    BY <1>14 DEF Orphaned
  <2>2. Served(p) \in Steps \ {"append", "dedup"}
    BY DEF Served, Steps
  <2>3. ~mine[p] /\ UNCHANGED <<files, known>>
    BY <1>14 DEF Orphaned
  <2>4. QED
    BY <1>3, <1>4, <2>1, <2>2, <2>3
<1>15. ASSUME NEW p \in Procs, Search(p) PROVE TypeOK' /\ Held'
  <2>1. ~mine[p] /\ "open" \in Steps
    BY <1>15 DEF Search, At, Held, Steps
  <2>2. CASE index = None
    BY <1>15, <2>2, OverType, OverHeld DEF Search, TypeOK, Held, files
  <2>3. CASE index # None
    BY <1>15, <2>1, <2>3, <1>4 DEF Search
  <2>4. QED
    BY <2>2, <2>3
<1>16. ASSUME NEW p \in Procs, Open(p) PROVE TypeOK' /\ Held'
  <2>1. index.rows \in SUBSET Insights
    BY <1>16 DEF Open, TypeOK, Contents
  <2>2. QED
    BY <1>16, <2>1, OverType, OverHeld DEF Open, TypeOK, Held, files
<1>17. ASSUME NEW p \in Procs, OpenFails(p) PROVE TypeOK' /\ Held'
  <2>1. index' \in Contents \union {None} /\ index' # None /\ newer' \in BOOLEAN
    BY <1>17, BlankIndex DEF OpenFails, TypeOK
  <2>2. QED
    <3>1. TypeOK'
      BY <1>17, <2>1, OverType DEF OpenFails, TypeOK
    <3>2. Held'
      BY <1>17, <2>1, OverHeld DEF OpenFails, Held
    <3>3. QED
      BY <3>1, <3>2
<1>18. ASSUME NEW p \in Procs, ReadLog(p) \/ ReadParent(p) PROVE TypeOK' /\ Held'
  <2>1. Known(log) \in SUBSET Insights
    BY KnownType DEF TypeOK
  <2>2. CASE ReadLog(p)
    BY <2>1, <2>2 DEF ReadLog, At, Goto, TypeOK, Held, Steps, files
  <2>3. CASE ReadParent(p)
    <3>1. parent' \in [Procs -> Seq(SUBSET Insights)]
      BY <2>3 DEF ReadParent, TypeOK
    <3>2. QED
      BY <2>3, <3>1 DEF ReadParent, At, Goto, TypeOK, Held, Steps, files
  <2>4. QED
    BY <1>18, <2>2, <2>3
<1>19. ASSUME NEW p \in Procs, UpdateRef(p) PROVE TypeOK' /\ Held'
  <2>1. ref' \in Seq(SUBSET Insights)
    BY <1>19 DEF UpdateRef, TypeOK
  <2>2. QED
    BY <1>19, <2>1, OverType, OverHeld DEF UpdateRef, TypeOK, Held
<1>20. ASSUME NEW p \in Procs,
              ReadFails(p) \/ UnlinkFails(p) \/ Clash(p) \/ GitFails(p) \/ Kill(p)
       PROVE  TypeOK' /\ Held'
  BY <1>20, <1>3 DEF ReadFails, UnlinkFails, Clash, GitFails, Kill
<1>21. QED
  BY <1>1, <1>2, <1>5, <1>6, <1>7, <1>8, <1>9, <1>10, <1>11, <1>12, <1>13, <1>14, <1>15,
     <1>16, <1>17, <1>18, <1>19, <1>20 DEF Next

LEMMA TypeAlways == Spec => [](TypeOK /\ Held)
BY TypeInit, TypeStep, PTL DEF Spec

(* Whatever the servers do to each other and wherever they stop, files and   *)
(* processes keep their types.                                             *)
THEOREM TypeCorrect == Spec => []TypeOK
BY TypeAlways, PTL
-----------------------------------------------------------------------------
(* What a call that nothing overlaps knows of the files at each of its       *)
(* steps, whatever other calls have left there.                            *)
Track(p) ==
    /\ \A q \in Procs \ {p} : pc[q] = "idle"
    /\ pc[p] = "ensure" /\ arg[p] # None => newer /\ log # <<>>
    /\ pc[p] \in {"clear", "unlink", "gather", "create", "tables", "insert"} => log # <<>>
    /\ pc[p] \in {"unlink", "open"} => index # None
    /\ pc[p] \in {"gather", "create"} => index = None
    /\ pc[p] \in {"create", "tables", "insert"} => gathered[p] = Known(log)
    /\ pc[p] = "tables" => mine[p] /\ ~index.tables
    /\ pc[p] = "insert" => mine[p] /\ index.tables
    /\ pc[p] \in {"search", "open"} => log = <<>> \/ (index # None /\ ~newer)

Tracked == \A p \in Procs : alone[p] => Track(p)

LEMMA TrackInit == Init => Tracked
BY DEF Init, Tracked

LEMMA TrackStep ==
    ASSUME ~CoarseClock, TypeOK, Held, Tracked, [Next]_vars
    PROVE  Tracked'
<1> SUFFICES ASSUME NEW p \in Procs, alone'[p] PROVE Track(p)'
  BY DEF Tracked
<1> USE DEF At, Goto
<1>1. CASE UNCHANGED vars
  BY <1>1 DEF Tracked, Track, vars, known, files, locals
<1>2. ASSUME NEW q \in Procs, NEW i \in Insights \union {None},
             NEW step \in {"dedup", "ensure", "read"},
             Begin(q, i, step), step = "ensure" => i = None
      PROVE  Track(p)'
  <2>1. q = p /\ \A r \in Procs : pc[r] = "idle"
    BY <1>2 DEF Begin, TypeOK
  <2>2. QED
    BY <1>2, <2>1 DEF Begin, TypeOK, Track
<1>3. ASSUME NEW q \in Procs, pc[q] # "idle", alone' = alone
      PROVE  q = p /\ Track(p)
  BY <1>3 DEF Tracked, Track
<1>4. ASSUME NEW q \in Procs, pc[q] # "idle", Over(q) PROVE Track(p)'
  BY <1>3, <1>4 DEF Over, TypeOK, Track
<1>5. ASSUME NEW q \in Procs, Dedup(q) \/ Ensure(q) \/ Clear(q) \/ Search(q)
      PROVE  Track(p)'
  <2>1. CASE Over(q)
    BY <1>4, <1>5, <2>1 DEF Dedup, Ensure, Clear, Search
  <2>2. CASE ~Over(q)
    <3>1. q = p /\ Track(p) /\ UNCHANGED <<files, locals, mine, known, alone>>
      BY <1>3, <1>5, <2>2 DEF Dedup, Ensure, Clear, Search, known
    <3>2. CASE Dedup(p)
      BY <2>2, <3>1, <3>2 DEF Dedup, TypeOK, Track, files, locals
    <3>3. CASE Ensure(p)
      BY <2>2, <3>1, <3>3 DEF Ensure, Served, TypeOK, Track, files, locals
    <3>4. CASE Clear(p)
      BY <2>2, <3>1, <3>4 DEF Clear, TypeOK, Track, files, locals
    <3>5. CASE Search(p)
      BY <2>2, <3>1, <3>5 DEF Search, TypeOK, Track, files, locals
    <3>6. QED
      BY <1>5, <3>1, <3>2, <3>3, <3>4, <3>5
  <2>3. QED
    BY <2>1, <2>2
<1>6. ASSUME NEW q \in Procs, AppendLine(q) PROVE Track(p)'
  <2>1. q = p /\ Track(p)
    BY <1>3, <1>6 DEF AppendLine
  <2>2. log' # <<>> /\ newer'
    BY <1>6, AppendedLines, JunkLines DEF AppendLine, Touched, Held
  <2>3. QED
    BY <1>6, <2>1, <2>2 DEF AppendLine, TypeOK, Track
<1>7. ASSUME NEW q \in Procs, Unlink(q) PROVE Track(p)'
  BY <1>3, <1>7 DEF Unlink, TypeOK, Track, locals
<1>8. ASSUME NEW q \in Procs, Gather(q) PROVE Track(p)'
  BY <1>3, <1>8 DEF Gather, TypeOK, Track, files
<1>9. ASSUME NEW q \in Procs, Create(q) PROVE Track(p)'
  <2>1. q = p /\ Track(p)
    BY <1>3, <1>9 DEF Create
  <2>2. index' = Blank /\ ~Blank.tables
    BY <1>9, <2>1 DEF Create, Track, Blank
  <2>3. QED
    BY <1>9, <2>1, <2>2 DEF Create, TypeOK, Track, locals
<1>10. ASSUME NEW q \in Procs, Tables(q) PROVE Track(p)'
  <2>1. q = p /\ Track(p)
    BY <1>3, <1>10 DEF Tables, Over
  <2>2. index \in Contents
    BY <1>10 DEF Tables, TypeOK, Held
  <2>3. index'.tables /\ index' # None
    BY <1>10, <2>2, NoIndexAssumption DEF Tables, Contents
  <2>4. QED
    BY <1>10, <2>1, <2>3 DEF Tables, TypeOK, Track, locals
<1>11. ASSUME NEW q \in Procs, Insert(q) PROVE Track(p)'
  <2>1. q = p /\ Track(p)
    BY <1>3, <1>11 DEF Insert
  <2>2. index \in Contents /\ gathered[p] \in SUBSET Insights
    BY <1>11, <2>1 DEF Insert, TypeOK, Held
  <2>3. index' # None /\ ~newer'
    BY <1>11, <2>1, <2>2, NoIndexAssumption DEF Insert, Contents
  <2>4. QED
    BY <1>11, <2>1, <2>3 DEF Insert, Served, TypeOK, Track, locals
<1>12. ASSUME NEW q \in Procs, Orphaned(q) PROVE Track(p)'
  <2>1. pc[q] \in {"tables", "insert"} /\ ~mine[q] /\ alone' = alone
    BY <1>12 DEF Orphaned, Over
  <2>2. QED
    BY <1>3, <2>1 DEF Track
<1>13. ASSUME NEW q \in Procs, ReadLog(q) \/ ReadParent(q) PROVE Track(p)'
  BY <1>3, <1>13 DEF ReadLog, ReadParent, TypeOK, Track, files
<1>14. ASSUME NEW q \in Procs,
              \/ ReadFails(q) \/ UnlinkFails(q) \/ Clash(q) \/ GitFails(q) \/ Kill(q)
              \/ Open(q) \/ OpenFails(q) \/ UpdateRef(q)
              \/ \E t \in Tears : TornAppend(q, t)
       PROVE  Track(p)'
  <2>1. Over(q) /\ pc[q] # "idle"
    BY <1>14 DEF ReadFails, UnlinkFails, Clash, GitFails, Kill, Open, OpenFails, UpdateRef,
                 TornAppend
  <2>2. QED
    BY <1>4, <2>1
<1>15. ASSUME NEW q \in Procs,
              \/ \E i \in Insights : Record(q, i)
              \/ Recall(q) \/ Push(q)
       PROVE  Track(p)'
  BY <1>2, <1>15 DEF Record, Recall, Push
<1>16. QED
  BY <1>1, <1>5, <1>6, <1>7, <1>8, <1>9, <1>10, <1>11, <1>12, <1>13, <1>14, <1>15 DEF Next

LEMMA TrackedAlways == ~CoarseClock /\ Spec => []Tracked
<1> SUFFICES ASSUME ~CoarseClock PROVE Spec => []Tracked
  OBVIOUS
<1>1. TypeOK /\ Held /\ Tracked /\ [Next]_vars => Tracked'
  BY TrackStep
<1>2. QED
  BY <1>1, TypeAlways, TrackInit, PTL DEF Spec

(* Whatever servers that crashed or raced have left, a record call that      *)
(* nothing overlaps has, when it goes on to the shadow ref, an index with    *)
(* tables, every insight of the log and a modification time not before it.  *)
THEOREM RecordHeals == ~CoarseClock /\ Spec => Heals
<1> SUFFICES ASSUME ~CoarseClock PROVE Spec => Heals
  OBVIOUS
<1>1. ASSUME TypeOK, Held, Tracked, [Next]_vars, NEW p \in Procs,
             pc[p] \in {"ensure", "insert"}, pc'[p] = "read", alone'[p]
      PROVE  index'.tables /\ index'.rows = Known(log') /\ ~newer'
  <2>1. PICK q \in Procs :
            \/ \E i \in Insights \union {None}, step \in Steps : Begin(q, i, step)
            \/ Over(q)
            \/ Ensure(q) \/ Insert(q) \/ Orphaned(q)
            \/ pc[q] \notin {"idle", "ensure", "insert"} /\ alone' = alone
    <3>1. Next
      BY <1>1 DEF vars
    <3>2. PICK q \in Procs :
              \/ \E i \in Insights : Record(q, i)
              \/ Recall(q) \/ Push(q)
              \/ Dedup(q) \/ ReadFails(q)
              \/ AppendLine(q) \/ \E t \in Tears : TornAppend(q, t)
              \/ Ensure(q) \/ Clear(q) \/ Unlink(q) \/ UnlinkFails(q)
              \/ Gather(q) \/ Create(q) \/ Tables(q) \/ Insert(q) \/ Clash(q) \/ Orphaned(q)
              \/ Search(q) \/ Open(q) \/ OpenFails(q)
              \/ ReadLog(q) \/ ReadParent(q) \/ UpdateRef(q) \/ GitFails(q)
              \/ Kill(q)
      BY <3>1 DEF Next
    <3>3. CASE (\E i \in Insights : Record(q, i)) \/ Recall(q) \/ Push(q)
      BY <3>3 DEF Record, Recall, Push, Steps
    <3>4. CASE \/ ReadFails(q) \/ UnlinkFails(q) \/ Clash(q) \/ Open(q) \/ OpenFails(q)
               \/ UpdateRef(q) \/ GitFails(q) \/ Kill(q)
               \/ \E t \in Tears : TornAppend(q, t)
      BY <3>4 DEF ReadFails, UnlinkFails, Clash, Open, OpenFails, UpdateRef, GitFails, Kill,
                  TornAppend
    <3>5. CASE \/ Dedup(q) \/ AppendLine(q) \/ Clear(q) \/ Unlink(q) \/ Gather(q)
               \/ Create(q) \/ Tables(q) \/ Search(q) \/ ReadLog(q) \/ ReadParent(q)
      BY <3>5 DEF Dedup, AppendLine, Clear, Unlink, Gather, Create, Tables, Search, ReadLog,
                  ReadParent, At, Over
    <3>6. QED
      BY <3>2, <3>3, <3>4, <3>5
  <2>2. ~(\E i \in Insights \union {None}, step \in Steps : Begin(q, i, step))
    BY <1>1 DEF Begin, At, TypeOK
  <2>3. ~Over(q)
    BY <1>1 DEF Over, Goto, TypeOK
  <2>4. alone[p]
    BY <1>1, <2>1, <2>2, <2>3 DEF Ensure, Insert, Orphaned
  <2>5. Track(p)
    BY <1>1, <2>4 DEF Tracked
  <2>6. q = p
    BY <2>1, <2>2, <2>3, <2>5 DEF Track, Ensure, Insert, Orphaned, At
  <2>7. Insert(p)
    <3>1. ~Ensure(p)
      BY <1>1, <2>5 DEF Ensure, At, Goto, Served, TypeOK, Track
    <3>2. ~Orphaned(p)
      BY <2>3, <2>5, <2>6 DEF Orphaned, At, Track
    <3>3. QED
      BY <1>1, <2>1, <2>2, <2>3, <2>6, <3>1, <3>2
  <2>8. index \in Contents /\ index.tables /\ gathered[p] = Known(log)
    BY <1>1, <2>5, <2>7 DEF Insert, At, TypeOK, Held, Track
  <2>9. QED
    BY <2>7, <2>8 DEF Insert, Contents
<1>2. TypeOK /\ Held /\ Tracked /\ [Next]_vars
        => [\A p \in Procs :
               pc[p] \in {"ensure", "insert"} /\ pc'[p] = "read" /\ alone'[p]
                  => index'.tables /\ index'.rows = Known(log') /\ ~newer']_vars
  BY <1>1
<1>3. QED
  BY <1>2, TypeAlways, TrackedAlways, PTL DEF Spec, Heals
-----------------------------------------------------------------------------
(* A server that has the files to itself, and is not killed between making  *)
(* insights.db and committing its rows.                                    *)
OneServer   == \A p, q \in Procs : p = q
Undisturbed == OneServer /\ KillPoints \intersect {"tables", "insert"} = {} /\ ~CoarseClock

(* Then every call is alone, an index nobody is building is whole, and      *)
(* complete unless the log is newer; none is built of an empty log.          *)
Solo ==
    /\ \A p \in Procs : pc[p] # "idle" => alone[p]
    /\ index # None /\ (\A p \in Procs : ~mine[p])
          => index.tables /\ (~newer => index.rows = Known(log))
    /\ log = <<>> => index = None

LEMMA SoloStep ==
    ASSUME Undisturbed, TypeOK, Held, Tracked, Solo, [Next]_vars
    PROVE  Solo'
<1> USE DEF At, Goto
<1>1. CASE UNCHANGED vars
  BY <1>1 DEF Solo, Known, vars, files, locals
<1>2. ASSUME NEW p \in Procs, pc[p] # "idle"
      PROVE  alone[p] /\ Track(p) /\ \A q \in Procs : q = p
  BY <1>2 DEF Solo, Tracked, Undisturbed, OneServer
<1>3. ASSUME NEW p \in Procs, pc[p] # "idle", alone' = alone
      PROVE  \A q \in Procs : pc'[q] # "idle" => alone'[q]
  BY <1>2, <1>3
<1>4. ASSUME NEW p \in Procs, ~mine[p], pc[p] # "idle", alone' = alone,
             UNCHANGED <<log, index, newer>>
      PROVE  Solo'
  <2>1. \A q \in Procs : ~mine[q]
    BY <1>2, <1>4
  <2>2. QED
    BY <1>3, <1>4, <2>1 DEF Solo, Known
<1>5. ASSUME NEW p \in Procs,
             \/ \E i \in Insights : Record(p, i)
             \/ Recall(p) \/ Push(p)
      PROVE  Solo'
  <2>1. PICK i \in Insights \union {None}, step \in Steps : Begin(p, i, step)
    BY <1>5 DEF Record, Recall, Push, Steps
  <2>2. \A q \in Procs : alone'[q]
    BY <2>1 DEF Begin, Undisturbed, OneServer
  <2>3. QED
    BY <2>1, <2>2 DEF Begin, Solo, Known, files
<1>6. ASSUME NEW p \in Procs,
             \/ Dedup(p) \/ ReadFails(p) \/ Ensure(p) \/ Clear(p) \/ UnlinkFails(p)
             \/ Gather(p) \/ Search(p) \/ Open(p) \/ ReadLog(p) \/ ReadParent(p)
             \/ UpdateRef(p) \/ GitFails(p) \/ Kill(p)
      PROVE  Solo'
  <2>1. pc[p] \notin {"idle", "tables", "insert"}
    BY <1>6 DEF Dedup, ReadFails, Ensure, Clear, UnlinkFails, Gather, Search, Open, ReadLog,
                ReadParent, UpdateRef, GitFails, Kill, Undisturbed
  <2>2. alone' = alone /\ UNCHANGED <<log, index, newer>>
    BY <1>6 DEF Dedup, ReadFails, Ensure, Clear, UnlinkFails, Gather, Search, Open, ReadLog,
                ReadParent, UpdateRef, GitFails, Kill, Over, files
  <2>3. QED
    BY <1>4, <2>1, <2>2 DEF Held
<1>7. ASSUME NEW p \in Procs, AppendLine(p) \/ \E t \in Tears : TornAppend(p, t)
      PROVE  Solo'
  <2>1. PICK piece \in Lines : log' = Appended(piece)
    <3>1. CASE AppendLine(p)
      BY <3>1, JunkLines DEF AppendLine, Held
    <3>2. ASSUME NEW t \in Tears, TornAppend(p, t)
          PROVE  \E piece \in Lines : log' = Appended(piece)
      BY <3>2, JunkLines, TearsAssumption DEF TornAppend, Held, Junk
    <3>3. QED
      BY <1>7, <3>1, <3>2
  <2>2. log' # <<>>
    BY <2>1, AppendedLines
  <2>3. pc[p] = "append" /\ alone' = alone /\ newer' /\ index' = index
    BY <1>7 DEF AppendLine, TornAppend, Over, Touched, Undisturbed
  <2>4. \A q \in Procs : ~mine[q]
    BY <1>2, <2>3 DEF Held
  <2>5. QED
    BY <1>3, <2>2, <2>3, <2>4 DEF Solo
<1>8. ASSUME NEW p \in Procs, Unlink(p) PROVE Solo'
  BY <1>3, <1>8 DEF Unlink, Solo
<1>9. ASSUME NEW p \in Procs, Create(p) PROVE Solo'
  <2>1. log # <<>> /\ mine'[p]
    BY <1>2, <1>9 DEF Create, Track, TypeOK
  <2>2. QED
    BY <1>3, <1>9, <2>1 DEF Create, Solo
<1>10. ASSUME NEW p \in Procs, Tables(p) PROVE Solo'
  <2>1. log # <<>> /\ mine[p] /\ mine' = mine /\ alone' = alone
    BY <1>2, <1>10 DEF Tables, Track
  <2>2. QED
    BY <1>3, <1>10, <2>1 DEF Tables, Solo
<1>11. ASSUME NEW p \in Procs, Insert(p) PROVE Solo'
  <2>1. index \in Contents /\ index.tables /\ gathered[p] = Known(log) /\ log # <<>>
    BY <1>2, <1>11 DEF Insert, Track, Held, TypeOK
  <2>2. index'.tables /\ index'.rows = Known(log')
    BY <1>11, <2>1 DEF Insert, Contents
  <2>3. QED
    BY <1>3, <1>11, <2>1, <2>2 DEF Insert, Solo
<1>12. ASSUME NEW p \in Procs, Clash(p) \/ Orphaned(p) PROVE FALSE
  BY <1>2, <1>12 DEF Clash, Orphaned, Track
<1>13. ASSUME NEW p \in Procs, OpenFails(p) PROVE FALSE
  <2>1. index # None /\ ~index.tables /\ ~mine[p]
    BY <1>2, <1>13 DEF OpenFails, Track, Held
  <2>2. \A q \in Procs : ~mine[q]
    BY <1>2, <1>13, <2>1 DEF OpenFails
  <2>3. QED
    BY <2>1, <2>2 DEF Solo
<1>14. QED
  BY <1>1, <1>5, <1>6, <1>7, <1>8, <1>9, <1>10, <1>11, <1>12, <1>13 DEF Next

LEMMA SoloAlways == Undisturbed /\ Spec => [](TypeOK /\ Held /\ Tracked /\ Solo)
<1> SUFFICES ASSUME Undisturbed PROVE Spec => [](TypeOK /\ Held /\ Tracked /\ Solo)
  OBVIOUS
<1>1. Init => Solo
  BY DEF Init, Solo
<1>2. TypeOK /\ Held /\ Tracked /\ Solo /\ [Next]_vars => Solo'
  BY SoloStep
<1>3. Spec => []Tracked
  BY TrackedAlways DEF Undisturbed
<1>4. QED
  BY <1>1, <1>2, <1>3, TypeAlways, PTL DEF Spec

(* With one server that is not killed inside the index build, modification  *)
(* times tell a complete index from one to rebuild.                        *)
THEOREM FreshIndex == Undisturbed /\ Spec => []IndexFresh
<1> SUFFICES ASSUME Undisturbed PROVE Spec => []IndexFresh
  OBVIOUS
<1>1. Solo => IndexFresh
  BY DEF Solo, IndexFresh
<1>2. QED
  BY <1>1, SoloAlways, PTL
-----------------------------------------------------------------------------
(* The insights appended on lines of their own are there still, none of them *)
(* on a line that was cut, and all that is there was recorded by someone.    *)
Kept ==
    /\ \A i \in written : \E k \in DOMAIN log : log[k] = i /\ (cut => k # Len(log))
    /\ Known(log) \subseteq asked
    /\ \A p \in Procs : pc[p] \in {"dedup", "append"} => arg[p] \in asked

LEMMA KnownAppended ==
    ASSUME TypeOK, Held, NEW piece \in Lines
    PROVE  Known(Appended(piece)) \subseteq Known(log) \union ({piece} \ Junk)
<1>1. CASE cut
  BY <1>1, AppendedLines DEF Known
<1>2. CASE ~cut
  <2>1. Appended(piece) = Append(log, piece) /\ log \in Seq(Lines)
    BY <1>2, AppendedLines DEF TypeOK
  <2>2. \A k \in DOMAIN Append(log, piece) :
           \/ k \in DOMAIN log /\ Append(log, piece)[k] = log[k]
           \/ Append(log, piece)[k] = piece
    BY <2>1
  <2>3. QED
    BY <2>1, <2>2 DEF Known
<1>3. QED
  BY <1>1, <1>2

(* An append leaves the lines before it, and what it adds to a log that was  *)
(* not cut is the last line.                                               *)
LEMMA WrittenAppended ==
    ASSUME TypeOK, Held, NEW piece \in Lines, NEW k \in DOMAIN log, cut => k # Len(log)
    PROVE  /\ k \in DOMAIN Appended(piece)
           /\ Appended(piece)[k] = log[k]
           /\ k # Len(Appended(piece))
<1>1. log \in Seq(Lines) /\ k \in 1..Len(log)
  BY DEF TypeOK
<1>2. CASE cut
  <2>1. DOMAIN Appended(piece) = DOMAIN log /\ Appended(piece) \in Seq(Lines)
    BY <1>2, AppendedLines
  <2>2. Len(Appended(piece)) = Len(log)
    BY <1>1, <2>1
  <2>3. QED
    BY <1>2, <2>1, <2>2, AppendedLines
<1>3. CASE ~cut
  <2>1. Appended(piece) = Append(log, piece)
    BY <1>3, AppendedLines
  <2>2. QED
    BY <1>1, <2>1
<1>4. QED
  BY <1>2, <1>3

LEMMA KeptStep == TypeOK /\ Held /\ Kept /\ [Next]_vars => Kept'
<1> SUFFICES ASSUME TypeOK, Held, Kept, [Next]_vars PROVE Kept'
  OBVIOUS
<1> USE DEF At, Goto, known
<1>1. ASSUME UNCHANGED <<log, cut, written, asked>>,
             \A p \in Procs : pc'[p] \in {"dedup", "append"}
                                => pc[p] \in {"dedup", "append"} /\ arg'[p] = arg[p]
      PROVE  Kept'
  BY <1>1 DEF Kept, Known
<1>2. CASE UNCHANGED vars
  BY <1>1, <1>2 DEF vars, files, locals
<1>3. ASSUME NEW p \in Procs, NEW i \in Insights \union {None}, NEW step \in Steps,
             Begin(p, i, step), step = "dedup" => i \in Insights, step # "append"
      PROVE  Kept'
  <2>1. UNCHANGED <<log, cut, written>> /\ asked \subseteq asked'
    BY <1>3 DEF Begin, files
  <2>2. \A q \in Procs : pc'[q] \in {"dedup", "append"} => arg'[q] \in asked'
    <3>1. step = "dedup" => i \in asked'
      BY <1>3, SentinelAssumption DEF Begin
    <3>2. QED
      BY <1>3, <2>1, <3>1 DEF Begin, Kept, TypeOK
  <2>3. QED
    BY <2>1, <2>2 DEF Kept, Known
<1>4. ASSUME NEW p \in Procs, \A q \in Procs \ {p} : pc'[q] = pc[q] /\ arg'[q] = arg[q],
             pc'[p] \notin {"dedup", "append"}, UNCHANGED <<log, cut, written, asked>>
      PROVE  Kept'
  BY <1>1, <1>4
<1>5. ASSUME NEW p \in Procs, Over(p), UNCHANGED <<log, cut, written, asked>> PROVE Kept'
  BY <1>4, <1>5 DEF Over, TypeOK
<1>6. ASSUME NEW p \in Procs, Dedup(p), ~Over(p) PROVE Kept'
  BY <1>1, <1>6 DEF Dedup, TypeOK, files, locals
<1>7. ASSUME NEW p \in Procs, NEW piece \in Lines,
             pc[p] = "append", piece = arg[p] \/ piece \in Junk,
             log' = Appended(piece), asked' = asked,
             \/ written' = written
             \/ ~cut /\ piece = arg[p] /\ ~cut' /\ written' = written \union {piece},
             \A q \in Procs : pc'[q] \in {"dedup", "append"}
                                => pc[q] \in {"dedup", "append"} /\ arg'[q] = arg[q]
      PROVE  Kept'
  <2>1. Known(log') \subseteq asked'
    BY <1>7, KnownAppended DEF Kept
  <2>2. ASSUME NEW i \in written
        PROVE  \E k \in DOMAIN log' : log'[k] = i /\ (cut' => k # Len(log'))
    <3>1. PICK k \in DOMAIN log : log[k] = i /\ (cut => k # Len(log))
      BY <2>2 DEF Kept
    <3>2. QED
      BY <1>7, <3>1, WrittenAppended
  <2>3. ASSUME written' # written
        PROVE  \E k \in DOMAIN log' : log'[k] = piece /\ (cut' => k # Len(log'))
    <3>1. log' = Append(log, piece) /\ log \in Seq(Lines) /\ ~cut'
      BY <1>7, <2>3, AppendedLines DEF TypeOK
    <3>2. Len(log) + 1 \in DOMAIN log' /\ log'[Len(log) + 1] = piece
      BY <3>1
    <3>3. QED
      BY <3>1, <3>2
  <2>4. QED
    BY <1>7, <2>1, <2>2, <2>3 DEF Kept
<1>8. ASSUME NEW p \in Procs, AppendLine(p) PROVE Kept'
  <2>1. arg[p] \in Lines /\ pc[p] = "append" /\ log' = Appended(arg[p]) /\ asked' = asked
    BY <1>8, JunkLines DEF AppendLine, Held
  <2>2. ~cut' /\ written' = IF cut THEN written ELSE written \union {arg[p]}
    BY <1>8 DEF AppendLine
  <2>3. \A q \in Procs : pc'[q] \in {"dedup", "append"}
                            => pc[q] \in {"dedup", "append"} /\ arg'[q] = arg[q]
    BY <1>8 DEF AppendLine, TypeOK, locals
  <2>4. QED
    BY <1>7, <2>1, <2>2, <2>3
<1>9. ASSUME NEW p \in Procs, NEW t \in Tears, TornAppend(p, t) PROVE Kept'
  <2>1. PICK piece \in Lines :
            log' = Appended(piece) /\ (piece = arg[p] \/ piece \in Junk) /\ pc[p] = "append"
    BY <1>9, JunkLines, TearsAssumption DEF TornAppend, Held, Lines
  <2>2. \A q \in Procs : pc'[q] \in {"dedup", "append"}
                            => pc[q] \in {"dedup", "append"} /\ arg'[q] = arg[q]
    BY <1>9 DEF TornAppend, Over, TypeOK
  <2>3. asked' = asked /\ written' = written
    BY <1>9 DEF TornAppend
  <2>4. QED
    BY <1>7, <2>1, <2>2, <2>3
<1>10. ASSUME NEW p \in Procs,
              \/ Ensure(p) \/ Clear(p) \/ Unlink(p) \/ Gather(p) \/ Create(p) \/ Tables(p)
              \/ Insert(p) \/ Orphaned(p) \/ Search(p) \/ ReadLog(p) \/ ReadParent(p),
              ~Over(p)
       PROVE  Kept'
  <2>1. arg' = arg /\ UNCHANGED <<log, cut, written, asked>>
    BY <1>10 DEF Ensure, Clear, Unlink, Gather, Create, Tables, Insert, Orphaned, Search,
                 ReadLog, ReadParent, files, locals
  <2>2. PICK step \in Steps \ {"dedup", "append"} : pc' = [pc EXCEPT ![p] = step]
    BY <1>10 DEF Ensure, Clear, Unlink, Gather, Create, Tables, Insert, Orphaned, Search,
                 ReadLog, ReadParent, Served, Steps
  <2>3. QED
    BY <1>4, <2>1, <2>2 DEF TypeOK
<1>11. ASSUME NEW p \in Procs,
              \/ Dedup(p) \/ ReadFails(p) \/ UnlinkFails(p) \/ Tables(p) \/ Clash(p)
              \/ Orphaned(p) \/ Search(p) \/ Open(p) \/ OpenFails(p) \/ UpdateRef(p)
              \/ GitFails(p) \/ Kill(p),
              Over(p)
       PROVE  Kept'
  <2>1. UNCHANGED <<log, cut, written, asked>>
    BY <1>11 DEF Dedup, ReadFails, UnlinkFails, Tables, Clash, Orphaned, Search, Open,
                 OpenFails, UpdateRef, GitFails, Kill, files
  <2>2. QED
    BY <1>5, <1>11, <2>1
<1>12. ASSUME NEW p \in Procs,
              \/ ReadFails(p) \/ UnlinkFails(p) \/ Clash(p) \/ Open(p) \/ OpenFails(p)
              \/ UpdateRef(p) \/ GitFails(p) \/ Kill(p)
       PROVE  Over(p)
  BY <1>12 DEF ReadFails, UnlinkFails, Clash, Open, OpenFails, UpdateRef, GitFails, Kill
<1>13. ASSUME NEW p \in Procs,
              \/ \E i \in Insights : Record(p, i)
              \/ Recall(p) \/ Push(p)
       PROVE  Kept'
  BY <1>3, <1>13 DEF Record, Recall, Push, Steps
<1>14. ASSUME NEW p \in Procs,
              \/ Ensure(p) \/ Clear(p) \/ Unlink(p) \/ Gather(p) \/ Create(p) \/ Insert(p)
              \/ ReadLog(p) \/ ReadParent(p),
              Over(p)
       PROVE  Kept'
  <2>1. UNCHANGED <<log, cut, written, asked>>
    BY <1>14 DEF Ensure, Clear, Unlink, Gather, Create, Insert, ReadLog, ReadParent, files
  <2>2. QED
    BY <1>5, <1>14, <2>1
<1>15. QED
  BY <1>2, <1>6, <1>8, <1>9, <1>10, <1>11, <1>12, <1>13, <1>14 DEF Next

(* Every step asks for an insight, learns one, answers one server with all   *)
(* that were learned, or is none of InsightStore's business.                *)
LEMMA StoreStep ==
    ASSUME Undisturbed, TypeOK, Held, Tracked, Solo, Kept, [Next]_vars
    PROVE  [Store!Next]_(Store!vars)
<1> USE DEF known
<1>1. CASE UNCHANGED <<asked, written, answer>>
  BY <1>1 DEF Store!vars
<1>2. ASSUME NEW p \in Procs, NEW i \in Insights, Record(p, i)
      PROVE  [Store!Next]_(Store!vars)
  <2>1. asked' = asked \union {i} /\ UNCHANGED <<answer, written>>
    BY <1>2, SentinelAssumption DEF Record, Begin
  <2>2. QED
    BY <2>1 DEF Store!Next, Store!Ask
<1>3. ASSUME NEW p \in Procs, Recall(p) \/ Push(p) PROVE [Store!Next]_(Store!vars)
  <2>1. asked' = asked /\ UNCHANGED <<answer, written>>
    BY <1>3 DEF Recall, Push, Begin
  <2>2. QED
    BY <1>1, <2>1
<1>4. ASSUME NEW p \in Procs, AppendLine(p) PROVE [Store!Next]_(Store!vars)
  <2>1. arg[p] \in Insights /\ arg[p] \in asked /\ UNCHANGED <<answer, asked>>
    BY <1>4 DEF AppendLine, At, Held, Kept
  <2>2. written' = written \/ written' = written \union {arg[p]}
    BY <1>4 DEF AppendLine
  <2>3. QED
    BY <2>1, <2>2 DEF Store!Next, Store!Learn, Store!vars
<1>5. ASSUME NEW p \in Procs, Search(p) \/ Open(p), answer' # answer
      PROVE  [Store!Next]_(Store!vars)
  <2>1. /\ pc[p] \in {"search", "open"} /\ Track(p) /\ \A q \in Procs : q = p
        /\ UNCHANGED <<asked, written>>
    BY <1>5 DEF Search, Open, At, Solo, Tracked, Undisturbed, OneServer, files
  <2>2. \A q \in Procs : ~mine[q]
    BY <2>1 DEF Held
  <2>3. answer' = [answer EXCEPT ![p] = Known(log)]
    <3>1. CASE Search(p)
      <4>1. index = None /\ answer' = [answer EXCEPT ![p] = {}]
        BY <1>5, <3>1 DEF Search
      <4>2. log = <<>>
        BY <2>1, <4>1 DEF Track
      <4>3. Known(log) = {}
        BY <4>2 DEF Known
      <4>4. QED
        BY <4>1, <4>3
    <3>2. CASE Open(p)
      <4>1. pc[p] = "open" /\ index # None /\ answer' = [answer EXCEPT ![p] = index.rows]
        BY <3>2 DEF Open, At
      <4>2. ~newer
        BY <2>1, <4>1 DEF Track, Solo
      <4>3. QED
        BY <2>2, <4>1, <4>2 DEF Solo
    <3>3. QED
      BY <1>5, <3>1, <3>2
  <2>4. written \subseteq Known(log) /\ Known(log) \in SUBSET asked
    <3>1. written \intersect Junk = {}
      BY SentinelAssumption DEF TypeOK
    <3>2. QED
      BY <3>1 DEF Kept, Known
  <2>5. QED
    BY <2>1, <2>3, <2>4 DEF Store!Next, Store!Answer
<1>6. CASE UNCHANGED vars
  BY <1>1, <1>6 DEF vars
<1>7. ASSUME NEW p \in Procs, Search(p) \/ Open(p) PROVE [Store!Next]_(Store!vars)
  <2>1. UNCHANGED <<asked, written>>
    BY <1>7 DEF Search, Open
  <2>2. QED
    BY <1>1, <1>5, <1>7, <2>1
<1>8. CASE Next
  BY <1>1, <1>2, <1>3, <1>4, <1>7, <1>8
     DEF Next, Dedup, ReadFails, TornAppend, Ensure, Clear, Unlink, UnlinkFails, Gather,
         Create, Tables, Insert, Clash, Orphaned, OpenFails, ReadLog, ReadParent, UpdateRef,
         GitFails, Kill
<1>9. QED
  BY <1>6, <1>8

(* With one server that is not killed inside the index build, log and index  *)
(* keep what InsightStore promises, however appends before or after tear:    *)
(* every insight that got a line of its own is in every later answer, and    *)
(* an answer has only insights that someone recorded.                       *)
THEOREM LogImplementsStore == Undisturbed /\ Spec => StoreSpec
<1> SUFFICES ASSUME Undisturbed PROVE Spec => StoreSpec
  OBVIOUS
<1>1. Init => Kept /\ Store!Init
  BY DEF Init, Kept, Store!Init, Known
<1>2. TypeOK /\ Held /\ Kept /\ [Next]_vars => Kept'
  BY KeptStep
<1>3. TypeOK /\ Held /\ Tracked /\ Solo /\ Kept /\ [Next]_vars => [Store!Next]_(Store!vars)
  BY StoreStep
<1>4. QED
  BY <1>1, <1>2, <1>3, SoloAlways, PTL DEF Spec, StoreSpec, Store!Spec
=============================================================================
