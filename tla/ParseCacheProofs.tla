-------------------------- MODULE ParseCacheProofs --------------------------
(* Proofs about ParseCache, for any number of extracts, files, contents,    *)
(* languages and parser builds, with every failure the module has.          *)
EXTENDS ParseCache, TLAPS

LEMMA KeyType ==
    ASSUME NEW f \in Paths, NEW c \in Contents, NEW b \in Builds
    PROVE  Key(f, c, b) \in Keys /\ Parsed(f, c, b) \in Results
BY LanguageAssumption DEF Key, Parsed, Keys, Results

(* What pass 1 takes from the cache are the records of an entry that says  *)
(* that it is of the file's content and language.                          *)
LEMMA GetType ==
    ASSUME TypeOK, NEW p \in Procs, NEW f \in Paths, file[f] # None
    PROVE  /\ Key(f, file[f], build[p]) \in Keys
           /\ Get(p, f) \in Results \union {None}
           /\ Get(p, f) # None =>
                  LET e == entry[Key(f, file[f], build[p])]
                  IN  /\ e \in Entries /\ e.content = file[f] /\ e.language = Language[f]
                      /\ Get(p, f) = [path |-> f, content |-> e.records.content,
                                      language |-> e.records.language, build |-> e.records.build]
<1>1. file[f] \in Contents /\ build[p] \in Builds
  BY DEF TypeOK
<1>2. PICK e : e = entry[Key(f, file[f], build[p])]
  OBVIOUS
<1>3. Get(p, f) = IF cached[p] /\ e \in Entries /\ e.content = file[f] /\ e.language = Language[f]
                  THEN [path |-> f, content |-> e.records.content,
                        language |-> e.records.language, build |-> e.records.build]
                  ELSE None
  BY <1>2 DEF Get
<1>4. Get(p, f) \in Results \union {None}
  BY <1>3 DEF Entries, Keys, Results
<1>5. QED
  BY <1>1, <1>2, <1>3, <1>4, KeyType

(* What waits to be saved was hashed and parsed.                            *)
Pending ==
    \A p \in Procs :
        /\ saving[p] # None => saving[p] \in unsaved[p]
        /\ pc[p] \in {"idle", "hash"} => unsaved[p] = {}
        /\ \A f \in Paths : /\ result[p][f] # None => seen[p][f] # None
                            /\ f \in unsaved[p] => result[p][f] # None

Typed == TypeOK /\ Pending

LEMMA TypedInit == Init => Typed
BY DEF Init, Typed, TypeOK, Pending, Nothing, NoDiff, Diffs, Steps

(* The entry a save writes is well formed.                                  *)
LEMMA SavedType ==
    ASSUME Typed, NEW p \in Procs, saving[p] # None
    PROVE  /\ saving[p] \in unsaved[p] /\ saving[p] \in Paths
           /\ seen[p][saving[p]] \in Contents /\ build[p] \in Builds
           /\ result[p][saving[p]] \in Results
BY DEF Typed, TypeOK, Pending

LEMMA TypedStep == Typed /\ [Next]_vars => Typed'
<1> SUFFICES ASSUME Typed, [Next]_vars PROVE Typed'
  OBVIOUS
<1> USE DEF Goto, config
<1>0. TypeOK /\ Pending
  BY DEF Typed
<1>1. ASSUME NEW p \in Procs, NEW b \in Builds, NEW c \in BOOLEAN, Start(p, b, c)
      PROVE  Typed'
  BY <1>0, <1>1 DEF Start, Typed, TypeOK, Pending, Steps
<1>2. ASSUME NEW p \in Procs, NEW f \in Paths, Hash(p, f)
      PROVE  Typed'
  <2>1. file[f] \in Contents /\ Get(p, f) \in Results \union {None}
    BY <1>0, <1>2, GetType DEF Hash, TypeOK
  <2>2. seen' \in [Procs -> [Paths -> Contents \union {None}]]
    BY <1>0, <1>2, <2>1 DEF Hash, TypeOK
  <2>3. result' \in [Procs -> [Paths -> Results \union {None}]]
    BY <1>0, <1>2, <2>1 DEF Hash, TypeOK
  <2>4. todo' \in [Procs -> SUBSET Paths]
    BY <1>0, <1>2 DEF Hash, TypeOK
  <2>5. TypeOK'
    BY <1>0, <1>2, <2>2, <2>3, <2>4 DEF Hash, TypeOK
  <2>6. Pending'
    BY <1>0, <1>2, SentinelAssumption DEF Hash, TypeOK, Pending
  <2>7. QED
    BY <2>5, <2>6 DEF Typed
<1>3. ASSUME NEW p \in Procs, NEW f \in Paths,
             \/ SkipUnreadable(p, f) \/ HashFails(p, f) \/ ParseFails(p, f)
             \/ OpenTemp(p, f) \/ OpenRefused(p, f)
      PROVE  Typed'
  <2>1. CASE SkipUnreadable(p, f)
    BY <1>0, <2>1 DEF SkipUnreadable, Typed, TypeOK, Pending
  <2>2. CASE OpenTemp(p, f)
    <3>1. /\ saving' \in [Procs -> Paths \union {None}]
          /\ saving' = [saving EXCEPT ![p] = f] /\ f \in unsaved[p]
          /\ UNCHANGED <<file, entry, manifest, pc, build, cached, todo, seen, result,
                        unsaved, diff, rested>>
      BY <1>0, <2>2 DEF OpenTemp, TypeOK
    <3>2. TypeOK'
      BY <1>0, <3>1 DEF TypeOK
    <3>3. Pending'
      BY <1>0, <3>1 DEF TypeOK, Pending
    <3>4. QED
      BY <3>2, <3>3 DEF Typed
  <2>3. CASE HashFails(p, f) \/ ParseFails(p, f) \/ OpenRefused(p, f)
    <3>1. /\ pc' = [pc EXCEPT ![p] = "failed"]
          /\ UNCHANGED <<file, entry, manifest, build, cached, todo, seen, result,
                        unsaved, saving, diff, rested>>
      BY <2>3 DEF HashFails, ParseFails, OpenRefused
    <3>2. TypeOK'
      BY <1>0, <3>1 DEF TypeOK, Steps
    <3>3. Pending'
      BY <1>0, <3>1 DEF TypeOK, Pending
    <3>4. QED
      BY <3>2, <3>3 DEF Typed
  <2>4. QED
    BY <1>3, <2>1, <2>2, <2>3
<1>4. ASSUME NEW p \in Procs, NEW f \in Paths, ParseOne(p, f)
      PROVE  Typed'
  <2>1. Parsed(f, file[f], build[p]) \in Results
    BY <1>0, <1>4, KeyType DEF ParseOne, TypeOK
  <2>2. result' \in [Procs -> [Paths -> Results \union {None}]]
    BY <1>0, <1>4, <2>1 DEF ParseOne, TypeOK
  <2>3. unsaved' \in [Procs -> SUBSET Paths]
    BY <1>0, <1>4 DEF ParseOne, TypeOK
  <2>4. Pending'
    BY <1>0, <1>4, <2>1, SentinelAssumption DEF ParseOne, Task, TypeOK, Pending
  <2>5. QED
    BY <1>0, <1>4, <2>2, <2>3, <2>4 DEF ParseOne, Typed, TypeOK
<1>5. ASSUME NEW p \in Procs, Hashed(p) \/ AllParsed(p) \/ AllSaved(p) \/ ManifestFails(p)
      PROVE  Typed'
  <2>1. CASE Hashed(p)
    BY <1>0, <2>1 DEF Hashed, Typed, TypeOK, Pending, Steps
  <2>2. CASE AllParsed(p)
    BY <1>0, <2>2 DEF AllParsed, Typed, TypeOK, Pending, Steps
  <2>3. CASE AllSaved(p)
    BY <1>0, <2>3 DEF AllSaved, Typed, TypeOK, Pending, Steps
  <2>4. CASE ManifestFails(p)
    BY <1>0, <2>4 DEF ManifestFails, Typed, TypeOK, Pending, Steps
  <2>5. QED
    BY <1>5, <2>1, <2>2, <2>3, <2>4
<1>6. ASSUME NEW p \in Procs, Replace(p) \/ WriteFails(p)
      PROVE  Typed'
  <2>1. Saved(p)
    BY <1>6 DEF Replace, WriteFails
  <2>2. result[p][saving[p]] \in Results
    BY <2>1, SavedType DEF Saved
  <2>3. entry' \in [Keys -> Entries \union Damages \union {None, Torn}]
    <3>1. CASE Replace(p)
      <4>1. /\ saving[p] \in Paths /\ seen[p][saving[p]] \in Contents
            /\ Language[saving[p]] \in Languages
        BY <2>1, SavedType, LanguageAssumption DEF Saved
      <4>2. QED
        BY <1>0, <2>2, <3>1, <4>1 DEF Replace, TypeOK, Entries, Keys, Results
    <3>2. CASE WriteFails(p)
      BY <1>0, <3>2 DEF WriteFails, TypeOK
    <3>3. QED
      BY <1>6, <3>1, <3>2
  <2>4. QED
    BY <1>0, <2>1, <2>3 DEF Saved, Typed, TypeOK, Pending
<1>7. ASSUME NEW p \in Procs, TakeDiff(p)
      PROVE  Typed'
  <2>1. DiffManifest(manifest, seen[p]) \in Diffs
    BY DEF DiffManifest, Diffs
  <2>2. QED
    BY <1>0, <1>7, <2>1 DEF TakeDiff, Typed, TypeOK, Pending, Steps
<1>8. ASSUME NEW p \in Procs, WriteManifest(p)
      PROVE  Typed'
  BY <1>0, <1>8 DEF WriteManifest, Typed, TypeOK, Pending, Steps
<1>9. ASSUME NEW p \in Procs, Leave(p)
      PROVE  Typed'
  BY <1>0, <1>9 DEF Leave, Typed, TypeOK, Pending, Steps, Nothing, NoDiff, Diffs
<1>10. ASSUME NEW f \in Paths, NEW c \in Contents \union {None}, Edit(f, c)
       PROVE  Typed'
  BY <1>0, <1>10 DEF Edit, Typed, TypeOK, Pending
<1>11. ASSUME NEW k \in Keys, NEW d \in Damages, Damage(k, d)
       PROVE  Typed'
  BY <1>0, <1>11 DEF Damage, Typed, TypeOK, Pending
<1>12. ASSUME NEW k \in Keys, NEW l \in Keys, Misname(k, l)
       PROVE  Typed'
  BY <1>0, <1>12 DEF Misname, Typed, TypeOK, Pending
<1>13. CASE UNCHANGED vars
  BY <1>0, <1>13 DEF vars, Typed, TypeOK, Pending
<1>14. QED
  BY <1>1, <1>2, <1>3, <1>4, <1>5, <1>6, <1>7, <1>8, <1>9, <1>10, <1>11, <1>12, <1>13
     DEF Next, Run, Environment

(* Every variable keeps its type through kills, failures and edits.         *)
THEOREM TypeCorrect == Spec => []TypeOK
<1>1. Spec => []Typed
  BY TypedInit, TypedStep, PTL DEF Spec
<1>2. Typed => TypeOK
  BY DEF Typed
<1>3. QED
  BY <1>1, <1>2, PTL
-----------------------------------------------------------------------------
(* No entry and no result is of another language, parser or path than its   *)
(* own, whatever content a worker met.                                     *)
OwnEntries ==
    \A k \in Keys : entry[k] \in Entries =>
            /\ entry[k].records.language = entry[k].language
            /\ entry[k].records.build = k.build
Own ==
    /\ OwnEntries
    /\ \A p \in Procs, f \in Paths :
            /\ result[p][f] # None => \E c \in Contents : result[p][f] = Parsed(f, c, build[p])
            /\ pc[p] = "idle" => result[p][f] = None /\ seen[p][f] = None

(* No task is open once the workers are back.                               *)
Closed ==
    \A p \in Procs : pc[p] \in {"save", "diff", "manifest", "done"} =>
        \A f \in Paths : ~Task(p, f)

LEMMA OwnInit == Init => Own /\ Closed
BY SentinelAssumption DEF Init, Own, OwnEntries, Closed, Nothing

LEMMA OwnStep == Typed /\ Own /\ [Next]_vars => Own'
<1> SUFFICES ASSUME Typed, Own, [Next]_vars PROVE Own'
  OBVIOUS
<1> USE DEF Goto, config
<1>0. TypeOK /\ Pending
  BY DEF Typed
<1>1. ASSUME NEW p \in Procs, NEW b \in Builds, NEW c \in BOOLEAN, Start(p, b, c)
      PROVE  Own'
  <2>1. /\ entry' = entry /\ result' = result /\ seen' = seen /\ pc[p] = "idle"
        /\ \A q \in Procs : q # p => build'[q] = build[q] /\ pc'[q] = pc[q]
        /\ pc'[p] = "hash"
    BY <1>0, <1>1 DEF Start, TypeOK
  <2>2. QED
    BY <2>1 DEF Own, OwnEntries, Parsed
<1>2. ASSUME NEW p \in Procs, NEW f \in Paths, Hash(p, f)
      PROVE  Own'
  <2>1. Get(p, f) # None => \E c \in Contents : Get(p, f) = Parsed(f, c, build[p])
    <3>1. SUFFICES ASSUME Get(p, f) # None
                   PROVE  \E c \in Contents : Get(p, f) = Parsed(f, c, build[p])
      OBVIOUS
    <3> DEFINE e == entry[Key(f, file[f], build[p])]
    <3>2. /\ Key(f, file[f], build[p]) \in Keys /\ e \in Entries /\ e.language = Language[f]
          /\ Get(p, f) = [path |-> f, content |-> e.records.content,
                          language |-> e.records.language, build |-> e.records.build]
      BY <1>0, <1>2, <3>1, GetType DEF Hash
    <3>3. /\ e.records.language = Language[f] /\ e.records.build = build[p]
          /\ e.records.content \in Contents
      BY <3>2 DEF Own, OwnEntries, Key, Entries, Keys
    <3>4. QED
      BY <3>2, <3>3 DEF Parsed
  <2>2. /\ entry' = entry /\ build' = build /\ pc' = pc /\ pc[p] = "hash"
        /\ \A q \in Procs, g \in Paths :
              /\ result'[q][g] = IF q = p /\ g = f THEN Get(p, f) ELSE result[q][g]
              /\ q # p => seen'[q][g] = seen[q][g]
    BY <1>0, <1>2 DEF Hash, TypeOK
  <2>3. OwnEntries'
    BY <2>2 DEF Own, OwnEntries
  <2>4. QED
    BY <2>1, <2>2, <2>3 DEF Own, Parsed
<1>3. ASSUME NEW p \in Procs, NEW f \in Paths, ParseOne(p, f)
      PROVE  Own'
  <2>1. /\ entry' = entry /\ build' = build /\ pc' = pc /\ pc[p] = "parse"
        /\ seen' = seen /\ file[f] \in Contents
        /\ \A q \in Procs, g \in Paths :
              result'[q][g] = IF q = p /\ g = f THEN Parsed(f, file[f], build[p])
                              ELSE result[q][g]
    BY <1>0, <1>3 DEF ParseOne, TypeOK
  <2>2. QED
    BY <2>1 DEF Own, OwnEntries, Parsed
<1>4. ASSUME NEW p \in Procs, Replace(p)
      PROVE  Own'
  <2> DEFINE f == saving[p]
             k == Key(f, seen[p][f], build[p])
             r == result[p][f]
  <2>1. f \in Paths /\ seen[p][f] \in Contents /\ build[p] \in Builds /\ r \in Results
    BY <1>4, SavedType DEF Replace, Saved
  <2>2. k \in Keys
    BY <2>1, KeyType
  <2>3. r.language = Language[f] /\ r.build = k.build
    <3>1. r # None
      BY <2>1, SentinelAssumption
    <3>2. PICK c \in Contents : r = Parsed(f, c, build[p])
      BY <2>1, <3>1 DEF Own
    <3>3. QED
      BY <3>2 DEF Parsed, Key
  <2>4. \A l \in Keys :
            entry'[l] = IF l = k
                        THEN [content |-> seen[p][f], language |-> Language[f],
                              records |-> [content |-> r.content, language |-> r.language,
                                           build |-> r.build]]
                        ELSE entry[l]
    BY <1>0, <1>4, <2>2 DEF Replace, TypeOK
  <2>5. build' = build /\ pc' = pc /\ result' = result /\ seen' = seen
    BY <1>4 DEF Replace, Saved
  <2>6. QED
    BY <2>3, <2>4, <2>5 DEF Own, OwnEntries, Parsed
<1>5. ASSUME NEW k \in Keys, NEW d \in Damages, Damage(k, d)
      PROVE  Own'
  <2>1. d \notin Entries
    BY SentinelAssumption
  <2>2. QED
    BY <1>0, <1>5, <2>1 DEF Damage, TypeOK, Own, OwnEntries, Parsed
<1>6. ASSUME NEW p \in Procs, Leave(p)
      PROVE  Own'
  <2>1. /\ entry' = entry /\ build' = build
        /\ \A q \in Procs : q # p =>
              result'[q] = result[q] /\ seen'[q] = seen[q] /\ pc'[q] = pc[q]
        /\ \A f \in Paths : result'[p][f] = None /\ seen'[p][f] = None
    BY <1>0, <1>6 DEF Leave, TypeOK, Nothing
  <2>2. OwnEntries'
    BY <2>1 DEF Own, OwnEntries
  <2>3. \A q \in Procs, f \in Paths :
           /\ result'[q][f] # None => \E c \in Contents : result'[q][f] = Parsed(f, c, build[q])
           /\ pc'[q] = "idle" => result'[q][f] = None /\ seen'[q][f] = None
    <3> SUFFICES ASSUME NEW q \in Procs, NEW f \in Paths
                 PROVE  /\ result'[q][f] # None
                             => \E c \in Contents : result'[q][f] = Parsed(f, c, build[q])
                        /\ pc'[q] = "idle" => result'[q][f] = None /\ seen'[q][f] = None
      OBVIOUS
    <3>1. CASE q = p
      BY <2>1, <3>1
    <3>2. CASE q # p
      BY <2>1, <3>2 DEF Own
    <3>3. QED
      BY <3>1, <3>2
  <2>4. QED
    BY <2>1, <2>2, <2>3 DEF Own, Parsed
<1>7. ASSUME \/ \E p \in Procs : \/ Hashed(p) \/ AllParsed(p) \/ AllSaved(p) \/ ManifestFails(p)
                               \/ TakeDiff(p) \/ WriteManifest(p) \/ WriteFails(p)
             \/ \E p \in Procs, f \in Paths :
                    \/ SkipUnreadable(p, f) \/ HashFails(p, f) \/ ParseFails(p, f)
                    \/ OpenTemp(p, f) \/ OpenRefused(p, f)
             \/ \E f \in Paths, c \in Contents \union {None} : Edit(f, c)
             \/ UNCHANGED vars
      PROVE  Own'
  <2>1. entry' = entry /\ build' = build /\ result' = result /\ seen' = seen
    BY <1>7 DEF Hashed, AllParsed, AllSaved, ManifestFails, TakeDiff, WriteManifest,
                WriteFails, Saved, SkipUnreadable, HashFails, ParseFails, OpenTemp,
                OpenRefused, Edit, vars
  <2>2. \A q \in Procs : pc'[q] = "idle" => pc[q] = "idle"
    BY <1>0, <1>7 DEF Hashed, AllParsed, AllSaved, ManifestFails, TakeDiff, WriteManifest,
                WriteFails, Saved, SkipUnreadable, HashFails, ParseFails, OpenTemp,
                OpenRefused, Edit, vars, TypeOK
  <2>3. QED
    BY <2>1, <2>2 DEF Own, OwnEntries, Parsed
<1>8. ASSUME NEW k \in Keys, NEW l \in Keys, Misname(k, l)
      PROVE  Own'
  <2>1. \A m \in Keys : entry'[m] = IF m = l THEN entry[k] ELSE IF m = k THEN None ELSE entry[m]
    BY <1>0, <1>8 DEF Misname, TypeOK
  <2>2. None \notin Entries /\ l.build = k.build
    BY <1>8, SentinelAssumption DEF Misname
  <2>3. /\ build' = build /\ pc' = pc /\ result' = result /\ seen' = seen
    BY <1>8 DEF Misname
  <2>4. QED
    BY <2>1, <2>2, <2>3 DEF Own, OwnEntries, Parsed
<1>9. QED
  BY <1>1, <1>2, <1>3, <1>4, <1>5, <1>6, <1>7, <1>8 DEF Next, Run, Environment

LEMMA ClosedStep == Typed /\ Closed /\ [Next]_vars => Closed'
<1> SUFFICES ASSUME Typed, Closed, [Next]_vars PROVE Closed'
  OBVIOUS
<1> USE DEF Goto, config
<1> DEFINE Late == {"save", "diff", "manifest", "done"}
<1>0. TypeOK
  BY DEF Typed
<1>1. ASSUME NEW p \in Procs, AllParsed(p)
      PROVE  Closed'
  BY <1>0, <1>1 DEF AllParsed, Closed, Task, TypeOK
<1>2. ASSUME NEW p \in Procs,
             /\ \A q \in Procs : q # p =>
                   pc'[q] = pc[q] /\ result'[q] = result[q] /\ seen'[q] = seen[q]
             /\ pc'[p] \notin Late
      PROVE  Closed'
  BY <1>2 DEF Closed, Task
<1>3. ASSUME /\ result' = result /\ seen' = seen
             /\ \A q \in Procs : pc'[q] \in Late => pc[q] \in Late
      PROVE  Closed'
  BY <1>3 DEF Closed, Task
<1>4. ASSUME NEW p \in Procs, NEW f \in Paths, Hash(p, f) \/ ParseOne(p, f)
      PROVE  Closed'
  BY <1>0, <1>2, <1>4 DEF Hash, ParseOne, TypeOK
<1>5. ASSUME NEW p \in Procs, Leave(p)
      PROVE  Closed'
  BY <1>0, <1>2, <1>5 DEF Leave, TypeOK
<1>6. ASSUME \/ \E p \in Procs : \/ Hashed(p) \/ AllSaved(p) \/ ManifestFails(p) \/ TakeDiff(p)
                               \/ WriteManifest(p) \/ WriteFails(p) \/ Replace(p)
                               \/ \E b \in Builds, c \in BOOLEAN : Start(p, b, c)
             \/ \E p \in Procs, f \in Paths :
                    \/ SkipUnreadable(p, f) \/ HashFails(p, f) \/ ParseFails(p, f)
                    \/ OpenTemp(p, f) \/ OpenRefused(p, f)
             \/ Environment
             \/ UNCHANGED vars
      PROVE  Closed'
  <2>1. result' = result /\ seen' = seen
    BY <1>6 DEF Hashed, AllSaved, ManifestFails, TakeDiff, WriteManifest, WriteFails,
                Replace, Saved, Start, SkipUnreadable, HashFails, ParseFails, OpenTemp,
                OpenRefused, Environment, Edit, Damage, Misname, vars
  <2>2. \A q \in Procs : pc'[q] \in Late => pc[q] \in Late
    <3>1. CASE pc' = pc
      BY <3>1
    <3>2. CASE \E p \in Procs : \/ Goto(p, "idle", "hash") \/ Goto(p, "hash", "parse")
                               \/ Goto(p, "hash", "failed") \/ Goto(p, "parse", "failed")
                               \/ Goto(p, "save", "failed") \/ Goto(p, "manifest", "failed")
      BY <1>0, <3>2 DEF TypeOK
    <3>3. CASE \E p \in Procs : \/ Goto(p, "save", "diff") \/ Goto(p, "diff", "manifest")
                               \/ Goto(p, "manifest", "done")
      BY <1>0, <3>3 DEF TypeOK
    <3>4. QED
      BY <1>6, <3>1, <3>2, <3>3
         DEF Hashed, AllSaved, ManifestFails, TakeDiff, WriteManifest, WriteFails,
             Replace, Saved, Start, SkipUnreadable, HashFails, ParseFails, OpenTemp,
             OpenRefused, Environment, Edit, Damage, Misname, vars
  <2>3. QED
    BY <1>3, <2>1, <2>2
<1>7. QED
  BY <1>1, <1>4, <1>5, <1>6 DEF Next, Run

(* A failed or overtaken worker is never a silent drop, and no result is    *)
(* filed under another path, language or parser.                           *)
THEOREM NeverDropped == Spec => []NothingDropped
<1>1. Spec => [](Typed /\ Own /\ Closed)
  BY TypedInit, TypedStep, OwnInit, OwnStep, ClosedStep, PTL DEF Spec
<1>2. Own /\ Closed => NothingDropped
  BY DEF Own, Closed, Task, NothingDropped
<1>3. QED
  BY <1>1, <1>2, PTL
-----------------------------------------------------------------------------
(* Files change between runs only, or vanish.  Every run then knows the one *)
(* content of each file: what pass 1 hashed, what a worker parsed, and what  *)
(* the entry it saves is named after are the same.                         *)
Faithful ==
    /\ CacheFaithful
    /\ \A p \in Procs, f \in Paths :
          /\ seen[p][f] # None /\ file[f] # None => seen[p][f] = file[f]
          /\ seen[p][f] # None /\ rested[p] => seen[p][f] = file[f]
          /\ result[p][f] # None => result[p][f] = Parsed(f, seen[p][f], build[p])
          /\ pc[p] = "idle" => result[p][f] = None /\ seen[p][f] = None

(* Pass 1 reads every file there is before it ends.                         *)
Covered ==
    \A p \in Procs :
        /\ pc[p] \notin {"idle", "failed"} =>
              \A f \in Paths : file[f] # None => f \in todo[p] \/ seen[p][f] # None
        /\ pc[p] \in {"parse", "save", "diff", "manifest", "done"} => todo[p] = {}

LEMMA FaithfulInit == Init => Faithful /\ Covered
BY SentinelAssumption DEF Init, Faithful, CacheFaithful, Covered, Nothing

LEMMA FaithfulStep ==
    MidRun \subseteq {None} /\ Typed /\ Faithful /\ [Next]_vars => Faithful'
<1> SUFFICES ASSUME MidRun \subseteq {None}, Typed, Faithful, [Next]_vars PROVE Faithful'
  OBVIOUS
<1> USE DEF Goto, config
<1>0. TypeOK /\ Pending
  BY DEF Typed
<1>1. ASSUME NEW p \in Procs, NEW b \in Builds, NEW c \in BOOLEAN, Start(p, b, c)
      PROVE  Faithful'
  <2>1. /\ entry' = entry /\ result' = result /\ seen' = seen /\ file' = file
        /\ pc[p] = "idle" /\ pc'[p] = "hash"
        /\ \A q \in Procs : q # p => /\ build'[q] = build[q] /\ pc'[q] = pc[q]
                                    /\ rested'[q] = rested[q]
    BY <1>0, <1>1 DEF Start, TypeOK
  <2>2. \A f \in Paths : result[p][f] = None /\ seen[p][f] = None
    BY <2>1 DEF Faithful
  <2>3. \A q \in Procs, f \in Paths :
           result[q][f] # None => result[q][f] = Parsed(f, seen[q][f], build'[q])
    BY <2>1, <2>2 DEF Faithful
  <2>4. QED
    BY <2>1, <2>2, <2>3 DEF Faithful, CacheFaithful, Parsed
<1>2. ASSUME NEW p \in Procs, NEW f \in Paths, Hash(p, f)
      PROVE  Faithful'
  <2>1. Get(p, f) # None => Get(p, f) = Parsed(f, file[f], build[p])
    <3>1. SUFFICES ASSUME Get(p, f) # None
                   PROVE  Get(p, f) = Parsed(f, file[f], build[p])
      OBVIOUS
    <3> DEFINE k == Key(f, file[f], build[p])
    <3>2. PICK e : e = entry[k]
      OBVIOUS
    <3>3. /\ k \in Keys /\ e \in Entries /\ e.content = file[f] /\ e.language = Language[f]
          /\ Get(p, f) = [path |-> f, content |-> e.records.content,
                          language |-> e.records.language, build |-> e.records.build]
      BY <1>0, <1>2, <3>1, <3>2, GetType DEF Hash
    <3>4. e.records = [content |-> file[f], language |-> Language[f], build |-> k.build]
      BY <3>2, <3>3 DEF Faithful, CacheFaithful
    <3>5. k.build = build[p]
      BY DEF Key
    <3>6. QED
      BY <3>3, <3>4, <3>5 DEF Parsed
  <2>2. /\ entry' = entry /\ build' = build /\ pc' = pc /\ pc[p] = "hash" /\ file' = file
        /\ rested' = rested
        /\ \A q \in Procs, g \in Paths :
              /\ result'[q][g] = IF q = p /\ g = f THEN Get(p, f) ELSE result[q][g]
              /\ seen'[q][g] = IF q = p /\ g = f THEN file[f] ELSE seen[q][g]
    BY <1>0, <1>2 DEF Hash, TypeOK
  <2>3. QED
    BY <2>1, <2>2 DEF Faithful, CacheFaithful, Parsed
<1>3. ASSUME NEW p \in Procs, NEW f \in Paths, ParseOne(p, f)
      PROVE  Faithful'
  <2>1. /\ entry' = entry /\ build' = build /\ pc' = pc /\ pc[p] = "parse"
        /\ seen' = seen /\ file' = file /\ rested' = rested
        /\ \A q \in Procs, g \in Paths :
              result'[q][g] = IF q = p /\ g = f THEN Parsed(f, file[f], build[p])
                              ELSE result[q][g]
    BY <1>0, <1>3 DEF ParseOne, TypeOK
  <2>2. file[f] = seen[p][f]
    BY <1>3 DEF ParseOne, Task, Faithful
  <2>3. QED
    BY <2>1, <2>2 DEF Faithful, CacheFaithful, Parsed
<1>4. ASSUME NEW p \in Procs, Replace(p)
      PROVE  Faithful'
  <2> DEFINE f == saving[p]
             k == Key(f, seen[p][f], build[p])
             r == result[p][f]
  <2>1. f \in Paths /\ seen[p][f] \in Contents /\ build[p] \in Builds /\ r \in Results
    BY <1>4, SavedType DEF Replace, Saved
  <2>2. k \in Keys
    BY <2>1, KeyType
  <2>3. [content |-> r.content, language |-> r.language, build |-> r.build]
          = [content |-> seen[p][f], language |-> Language[f], build |-> k.build]
    <3>1. r # None /\ seen[p][f] # None
      BY <2>1, SentinelAssumption
    <3>2. r = Parsed(f, seen[p][f], build[p])
      BY <2>1, <3>1 DEF Faithful
    <3>3. QED
      BY <3>2 DEF Parsed, Key
  <2> DEFINE e == [content |-> seen[p][f], language |-> Language[f],
                   records |-> [content |-> seen[p][f], language |-> Language[f], build |-> k.build]]
  <2>4. \A l \in Keys : entry'[l] = IF l = k THEN e ELSE entry[l]
    BY <1>0, <1>4, <2>2, <2>3 DEF Replace, TypeOK
  <2>5. /\ build' = build /\ pc' = pc /\ result' = result /\ seen' = seen /\ file' = file
        /\ rested' = rested
    BY <1>4 DEF Replace, Saved
  <2>6. e # Torn
    <3>1. e \in Entries
      BY <2>1, <2>2, LanguageAssumption DEF Entries, Keys, Key
    <3>2. QED
      BY <3>1, SentinelAssumption
  <2>7. CacheFaithful'
    BY <2>4, <2>6 DEF Faithful, CacheFaithful
  <2>8. QED
    BY <2>5, <2>7 DEF Faithful, Parsed
<1>5. ASSUME NEW k \in Keys, NEW d \in Damages, Damage(k, d)
      PROVE  Faithful'
  <2>1. d # Torn /\ d \notin Entries
    BY SentinelAssumption
  <2>2. QED
    BY <1>0, <1>5, <2>1 DEF Damage, TypeOK, Faithful, CacheFaithful, Parsed
<1>6. ASSUME NEW p \in Procs, Leave(p)
      PROVE  Faithful'
  <2>1. /\ entry' = entry /\ build' = build /\ file' = file
        /\ \A q \in Procs : q # p =>
              rested'[q] = rested[q] /\ result'[q] = result[q] /\ seen'[q] = seen[q] /\ pc'[q] = pc[q]
        /\ \A f \in Paths : result'[p][f] = None /\ seen'[p][f] = None
    BY <1>0, <1>6 DEF Leave, TypeOK, Nothing
  <2>2. QED
    BY <2>1 DEF Faithful, CacheFaithful, Parsed
<1>7. ASSUME NEW f \in Paths, NEW c \in Contents \union {None}, Edit(f, c)
      PROVE  Faithful'
  <2>1. /\ entry' = entry /\ result' = result /\ seen' = seen /\ pc' = pc /\ build' = build
        /\ \A q \in Procs : rested'[q] => pc[q] = "idle"
        /\ \A g \in Paths : file'[g] = IF g = f THEN c ELSE file[g]
    BY <1>0, <1>7 DEF Edit, TypeOK
  <2>2. CASE c = None
    BY <2>1, <2>2 DEF Faithful, CacheFaithful, Parsed
  <2>3. CASE \A q \in Procs : pc[q] = "idle"
    BY <2>1, <2>3 DEF Faithful, CacheFaithful, Parsed
  <2>4. QED
    BY <1>7, <2>2, <2>3 DEF Edit, Quiet
<1>8. ASSUME \/ \E p \in Procs : \/ Hashed(p) \/ AllParsed(p) \/ AllSaved(p) \/ ManifestFails(p)
                               \/ TakeDiff(p) \/ WriteManifest(p) \/ WriteFails(p)
             \/ \E p \in Procs, f \in Paths :
                    \/ SkipUnreadable(p, f) \/ HashFails(p, f) \/ ParseFails(p, f)
                    \/ OpenTemp(p, f) \/ OpenRefused(p, f)
             \/ UNCHANGED vars
      PROVE  Faithful'
  <2>1. /\ entry' = entry /\ build' = build /\ result' = result /\ seen' = seen
        /\ file' = file /\ rested' = rested
    BY <1>8 DEF Hashed, AllParsed, AllSaved, ManifestFails, TakeDiff, WriteManifest,
                WriteFails, Saved, SkipUnreadable, HashFails, ParseFails, OpenTemp,
                OpenRefused, vars
  <2>2. \A q \in Procs : pc'[q] = "idle" => pc[q] = "idle"
    BY <1>0, <1>8 DEF Hashed, AllParsed, AllSaved, ManifestFails, TakeDiff, WriteManifest,
                WriteFails, Saved, SkipUnreadable, HashFails, ParseFails, OpenTemp,
                OpenRefused, vars, TypeOK
  <2>3. QED
    BY <2>1, <2>2 DEF Faithful, CacheFaithful, Parsed
<1>9. ASSUME NEW k \in Keys, NEW l \in Keys, Misname(k, l)
      PROVE  Faithful'
  <2>1. \A m \in Keys : entry'[m] = IF m = l THEN entry[k] ELSE IF m = k THEN None ELSE entry[m]
    BY <1>0, <1>9 DEF Misname, TypeOK
  <2>2. None \notin Entries /\ None # Torn /\ l.build = k.build
    BY <1>9, SentinelAssumption DEF Misname
  <2>3. CacheFaithful'
    BY <2>1, <2>2 DEF Faithful, CacheFaithful
  <2>4. QED
    BY <1>9, <2>3 DEF Misname, Faithful, Parsed
<1>10. QED
  BY <1>1, <1>2, <1>3, <1>4, <1>5, <1>6, <1>7, <1>8, <1>9 DEF Next, Run, Environment

LEMMA CoveredStep ==
    MidRun \subseteq {None} /\ Typed /\ Covered /\ [Next]_vars => Covered'
<1> SUFFICES ASSUME MidRun \subseteq {None}, Typed, Covered, [Next]_vars PROVE Covered'
  OBVIOUS
<1> USE DEF Goto, config
<1>0. TypeOK
  BY DEF Typed
<1>1. ASSUME NEW p \in Procs, NEW b \in Builds, NEW c \in BOOLEAN, Start(p, b, c)
      PROVE  Covered'
  BY <1>0, <1>1 DEF Start, TypeOK, Covered
<1>2. ASSUME NEW p \in Procs, NEW f \in Paths, Hash(p, f) \/ SkipUnreadable(p, f)
      PROVE  Covered'
  <2>1. /\ pc' = pc /\ file' = file /\ pc[p] = "hash"
        /\ \A q \in Procs : q # p => todo'[q] = todo[q] /\ seen'[q] = seen[q]
        /\ todo'[p] = todo[p] \ {f}
        /\ \A g \in Paths : g # f => seen'[p][g] = seen[p][g]
        /\ file[f] # None => seen'[p][f] # None
    BY <1>0, <1>2 DEF Hash, SkipUnreadable, TypeOK
  <2>2. QED
    BY <2>1 DEF Covered
<1>3. ASSUME NEW p \in Procs, Hashed(p)
      PROVE  Covered'
  BY <1>0, <1>3 DEF Hashed, TypeOK, Covered
<1>4. ASSUME NEW p \in Procs, Leave(p)
      PROVE  Covered'
  BY <1>0, <1>4 DEF Leave, TypeOK, Covered
<1>5. ASSUME NEW f \in Paths, NEW c \in Contents \union {None}, Edit(f, c)
      PROVE  Covered'
  <2>1. /\ todo' = todo /\ seen' = seen /\ pc' = pc
        /\ \A g \in Paths : file'[g] = IF g = f THEN c ELSE file[g]
        /\ c = None \/ \A q \in Procs : pc[q] = "idle"
    BY <1>0, <1>5 DEF Edit, Quiet, TypeOK
  <2>2. QED
    BY <2>1 DEF Covered
<1>6. ASSUME \/ \E p \in Procs : \/ AllParsed(p) \/ AllSaved(p) \/ ManifestFails(p) \/ TakeDiff(p)
                               \/ WriteManifest(p) \/ WriteFails(p) \/ Replace(p)
             \/ \E p \in Procs, f \in Paths :
                    \/ HashFails(p, f) \/ ParseOne(p, f) \/ ParseFails(p, f)
                    \/ OpenTemp(p, f) \/ OpenRefused(p, f)
             \/ \E k \in Keys, d \in Damages : Damage(k, d)
             \/ \E k, l \in Keys : Misname(k, l)
             \/ UNCHANGED vars
      PROVE  Covered'
  <2>1. todo' = todo /\ seen' = seen /\ file' = file
    BY <1>6 DEF AllParsed, AllSaved, ManifestFails, TakeDiff, WriteManifest, WriteFails,
                Replace, Saved, HashFails, ParseOne, ParseFails, OpenTemp, OpenRefused,
                Damage, Misname, vars
  <2>2. \A q \in Procs :
           /\ pc'[q] \notin {"idle", "failed"} => pc[q] \notin {"idle", "failed"}
           /\ pc'[q] \in {"parse", "save", "diff", "manifest", "done"} =>
                 pc[q] \in {"parse", "save", "diff", "manifest", "done"}
    <3>1. CASE \E p \in Procs : \/ AllParsed(p) \/ AllSaved(p) \/ ManifestFails(p)
                               \/ TakeDiff(p) \/ WriteManifest(p)
      BY <1>0, <3>1
         DEF AllParsed, AllSaved, ManifestFails, TakeDiff, WriteManifest, TypeOK
    <3>2. CASE \E p \in Procs, f \in Paths :
                  HashFails(p, f) \/ ParseFails(p, f) \/ OpenRefused(p, f)
      BY <1>0, <3>2 DEF HashFails, ParseFails, OpenRefused, TypeOK
    <3>3. CASE pc' = pc
      BY <3>3
    <3>4. QED
      BY <1>6, <3>1, <3>2, <3>3
         DEF WriteFails, Replace, Saved, ParseOne, OpenTemp, Damage, Misname, vars
  <2>3. QED
    BY <2>1, <2>2 DEF Covered
<1>7. QED
  BY <1>1, <1>2, <1>3, <1>4, <1>5, <1>6 DEF Next, Run, Environment

(* When files do no more than vanish during runs, no kill, failed write, spoiled entry   *)
(* or concurrent run ever leaves an entry with records of something else    *)
(* than it says, nor of another parser than its name does.                  *)
THEOREM FaithfulCache == MidRun \subseteq {None} /\ Spec => []CacheFaithful
<1> SUFFICES ASSUME MidRun \subseteq {None} PROVE Spec => []CacheFaithful
  OBVIOUS
<1>1. Typed /\ Faithful /\ [Next]_vars => Faithful'
  BY FaithfulStep
<1>2. Spec => []Faithful
  BY <1>1, TypedInit, TypedStep, FaithfulInit, PTL DEF Spec
<1>3. Faithful => CacheFaithful
  BY DEF Faithful
<1>4. QED
  BY <1>2, <1>3, PTL

(* A cached run returns what a cold one returns.                            *)
THEOREM WarmRuns == MidRun \subseteq {None} /\ Spec => []WarmIsCold
<1> SUFFICES ASSUME MidRun \subseteq {None} PROVE Spec => []WarmIsCold
  OBVIOUS
<1> DEFINE Inv == Typed /\ Closed /\ Faithful /\ Covered
<1>1. Init => Inv
  BY TypedInit, OwnInit, FaithfulInit
<1>2. Inv /\ [Next]_vars => Inv'
  BY TypedStep, ClosedStep, FaithfulStep, CoveredStep
<1>3. Inv => WarmIsCold
  <2> SUFFICES ASSUME Inv, NEW p \in Procs, pc[p] = "done", rested[p], NEW f \in Paths
               PROVE  result[p][f] = IF file[f] = None THEN None
                                     ELSE Parsed(f, file[f], build[p])
    BY DEF WarmIsCold
  <2>1. CASE file[f] = None
    <3>1. seen[p][f] = None
      BY <2>1 DEF Faithful
    <3>2. QED
      BY <2>1, <3>1 DEF Typed, Pending
  <2>2. CASE file[f] # None
    BY <2>2 DEF Covered, Closed, Task, Faithful
  <2>3. QED
    BY <2>1, <2>2
<1>4. QED
  BY <1>1, <1>2, <1>3, PTL DEF Spec
=============================================================================
