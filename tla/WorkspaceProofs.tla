-------------------------- MODULE WorkspaceProofs --------------------------
(* What holds in a workspace whatever the number of commands, repositories,      *)
(* releases and shims, and whoever dies: the user's files are kept, nobody is in *)
(* its own way, the registry keeps what it owes, and a graph is of one extract,  *)
(* a whole one for who asks, if a single actor extracts it.                      *)
EXTENDS Workspace, FiniteSetTheorems, WellFoundedInduction, TLAPS

\* The variables that are functions of actors or targets, as far as the proofs look.
Shaped ==
    /\ pc = [a \in Actors |-> pc[a]]
    /\ handle = [a \in Actors |-> handle[a]]
    /\ answer = [a \in Actors |-> answer[a]]
    /\ loaded = [a \in Actors |-> loaded[a]]
    /\ text = [t \in Targets |-> text[t]]
    /\ aim = [a \in Actors |-> aim[a]]
    /\ edits \in Nat

USE DEF fileVars, regVars, shimVars, local, vars

LEMMA ShapedAlways == Spec => []Shaped
<1>1. Init => Shaped
  BY DEF Init, Shaped, FileInit, RegInit, ShimInit
<1>2. ASSUME Shaped, [Next]_vars
      PROVE  Shaped'
  <2>1. CASE UNCHANGED vars
    BY <1>2, <2>1 DEF Shaped
  <2>2. CASE UserEdit
    BY <1>2, <2>2 DEF Shaped, UserEdit, Edit
  <2>3. ASSUME NEW a \in Actors, Step(a)
        PROVE  Shaped'
    <3>1. edits' = edits
      BY <2>3 DEF Step, Hit, Start, WipeDb, WipeWal, Connect, WriteBatch, WriteIndex, CloseGraph,
         WriteShim, LoseShim, Record, LoadRegistry, TruncateRegistry, Finish, Locked, Collide, Die, CallOpen,
         ToolRelease, ToolOpen, ReadClose, CannotOpen, Ask, AskHeld, PruneLoad, PruneLook, PruneSave
    <3>2. pc' = [b \in Actors |-> pc'[b]]
      BY <1>2, <2>3 DEF Shaped, Goes, Step, Hit, Start, WipeDb, WipeWal, Connect, WriteBatch, WriteIndex,
         CloseGraph, WriteShim, LoseShim, Record, LoadRegistry, TruncateRegistry, Finish, Locked, Collide, Die,
         CallOpen, ToolRelease, ToolOpen, ReadClose, CannotOpen, Ask, AskHeld, PruneLoad, PruneLook, PruneSave
    <3>3. handle' = [b \in Actors |-> handle'[b]]
      BY <1>2, <2>3 DEF Shaped, Open, OpenNow, Close, Drop, UnlinkDb, UnlinkWal, Insert, BuildIndex,
         Step, Hit, Start, WipeDb, WipeWal, Connect, WriteBatch, WriteIndex,
         CloseGraph, WriteShim, LoseShim, Record, LoadRegistry, TruncateRegistry, Finish, Locked, Collide, Die,
         CallOpen, ToolRelease, ToolOpen, ReadClose, CannotOpen, Ask, AskHeld, PruneLoad, PruneLook, PruneSave
    <3>4. answer' = [b \in Actors |-> answer'[b]]
      BY <1>2, <2>3 DEF Shaped, Answers, Refused, OpenNow,
         Step, Hit, Start, WipeDb, WipeWal, Connect, WriteBatch, WriteIndex,
         CloseGraph, WriteShim, LoseShim, Record, LoadRegistry, TruncateRegistry, Finish, Locked, Collide, Die,
         CallOpen, ToolRelease, ToolOpen, ReadClose, CannotOpen, Ask, AskHeld, PruneLoad, PruneLook, PruneSave
    <3>5. loaded' = [b \in Actors |-> loaded'[b]]
      BY <1>2, <2>3 DEF Shaped, Load, Truncate, Write, Register, Narrow, Prune, Forget,
         Step, Hit, Start, WipeDb, WipeWal, Connect, WriteBatch, WriteIndex,
         CloseGraph, WriteShim, LoseShim, Record, LoadRegistry, TruncateRegistry, Finish, Locked, Collide, Die,
         CallOpen, ToolRelease, ToolOpen, ReadClose, CannotOpen, Ask, AskHeld, PruneLoad, PruneLook, PruneSave
    <3>6. text' = [t \in Targets |-> text'[t]]
      BY <1>2, <2>3 DEF Shaped, BeginShims, Visit, Choose, Inspect, Empty, Fill,
         Step, Hit, Start, WipeDb, WipeWal, Connect, WriteBatch, WriteIndex,
         CloseGraph, WriteShim, LoseShim, Record, LoadRegistry, TruncateRegistry, Finish, Locked, Collide, Die,
         CallOpen, ToolRelease, ToolOpen, ReadClose, CannotOpen, Ask, AskHeld, PruneLoad, PruneLook, PruneSave
    <3>7. aim' = [b \in Actors |-> aim'[b]]
      BY <1>2, <2>3 DEF Shaped, BeginShims, Visit, Choose, Inspect, Empty, Fill, Aims, Leaves,
         Step, Hit, Start, WipeDb, WipeWal, Connect, WriteBatch, WriteIndex,
         CloseGraph, WriteShim, LoseShim, Record, LoadRegistry, TruncateRegistry, Finish, Locked, Collide, Die,
         CallOpen, ToolRelease, ToolOpen, ReadClose, CannotOpen, Ask, AskHeld, PruneLoad, PruneLook, PruneSave
    <3> QED
      BY <1>2, <3>1, <3>2, <3>3, <3>4, <3>5, <3>6, <3>7 DEF Shaped
  <2> QED
    BY <1>2, <2>1, <2>2, <2>3 DEF Next
<1> QED
  BY <1>1, <1>2, PTL DEF Spec
-----------------------------------------------------------------------------
(* Who is about to empty or fill a target did not find a text of the user's      *)
(* there: it found none, or one with the mark.                                   *)
Aim(x) == x = [target |-> x.target, found |-> x.found, next |-> x.next]
Aimed == \A a \in Actors : /\ Aim(aim[a])
                           /\ aim[a].next \in {"empty", "fill"} => aim[a].found # Foreign

\* What the steps at a target do to the aims and to the texts.
LEMMA AimStep ==
    ASSUME Shaped, Aimed, NEW a \in Actors, NEW refresh, Visit(a, refresh)
    PROVE  /\ Aimed'
           /\ \A t \in Targets : text'[t] # text[t] =>
                 aim[a].target = t /\ aim[a].found # Foreign /\ aim'[a] # aim[a]
<1>1. ~Owned(Foreign) /\ Nothing # Foreign /\ Aim(NoAim) /\ NoAim.next = "choose"
  BY DEF Owned, Foreign, Nothing, Aim, NoAim
<1> SUFFICES /\ Aim(aim'[a])
             /\ aim'[a].next \in {"empty", "fill"} => aim'[a].found # Foreign
             /\ \A b \in Actors \ {a} : aim'[b] = aim[b]
             /\ \A t \in Targets : text'[t] # text[t] =>
                   aim[a].target = t /\ aim[a].found # Foreign /\ aim'[a] # aim[a]
  BY DEF Aimed
<1>2. CASE Choose(a)
  BY <1>1, <1>2 DEF Choose, Aims, Shaped, Aim
<1>3. CASE Inspect(a, refresh)
  <2>1. text' = text
    BY <1>3 DEF Inspect
  <2>2. CASE Leaves(a)
    BY <1>1, <2>1, <2>2 DEF Leaves, Shaped
  <2>3. CASE ~Leaves(a)
    BY <1>1, <1>3, <2>1, <2>3 DEF Inspect, Aims, Shaped, Aim
  <2> QED
    BY <2>2, <2>3
<1>4. CASE Empty(a)
  <2>1. /\ aim[a].next = "empty" /\ aim'[a] = [aim[a] EXCEPT !.next = "fill"]
        /\ \A b \in Actors \ {a} : aim'[b] = aim[b]
        /\ \A t \in Targets : text'[t] # text[t] => aim[a].target = t
    BY <1>4 DEF Empty, Shaped
  <2>2. aim[a].found # Foreign /\ Aim(aim[a])
    BY <2>1 DEF Aimed
  <2>3. PICK t, f : aim[a] = [target |-> t, found |-> f, next |-> "empty"]
    BY <2>1, <2>2 DEF Aim
  <2>4. aim'[a] = [target |-> t, found |-> f, next |-> "fill"]
    BY <2>1, <2>3
  <2> QED
    BY <2>1, <2>2, <2>3, <2>4 DEF Aim
<1>5. CASE Fill(a)
  <2>1. /\ aim[a].next = "fill" /\ aim'[a] = NoAim
        /\ \A b \in Actors \ {a} : aim'[b] = aim[b]
    BY <1>5 DEF Fill, Leaves, Shaped
  <2>2. PICK new : text' = [text EXCEPT ![aim[a].target] = new]
    BY <1>5 DEF Fill
  <2>3. aim[a].found # Foreign /\ aim'[a] # aim[a]
    BY <1>1, <2>1 DEF Aimed
  <2>4. \A t \in Targets : text'[t] # text[t] => aim[a].target = t
    BY <2>2 DEF Shaped
  <2> QED
    BY <1>1, <2>1, <2>3, <2>4
<1> QED
  BY <1>2, <1>3, <1>4, <1>5 DEF Visit

LEMMA OtherSteps ==
    ASSUME NEW a \in Actors, Step(a), ~WriteShim(a)
    PROVE  text' = text /\ (aim' = aim \/ aim' = [aim EXCEPT ![a] = NoAim])
BY DEF BeginShims, Step, Hit, Start, WipeDb, WipeWal, Connect, WriteBatch, WriteIndex,
   CloseGraph, LoseShim, Record, LoadRegistry, TruncateRegistry, Finish, Locked, Collide, Die,
   CallOpen, ToolRelease, ToolOpen, ReadClose, CannotOpen, Ask, AskHeld, PruneLoad, PruneLook, PruneSave

(* A file without the mark that a command found at a target is not changed by    *)
(* it, however many are at it, whoever dies and whatever the user does meanwhile  *)
(* (emit/shims.py: write_shims); what the user puts there after a command has     *)
(* looked is not covered, and neither is a text of the user's that has the mark.  *)
THEOREM UserTextKept == Spec => UserTextIsKept
<1>1. Init => Aimed
  BY DEF Init, ShimInit, NoAim, Aimed, Aim
<1>2. ASSUME Shaped, Aimed, [Next]_vars
      PROVE  /\ Aimed'
             /\ \A t \in Targets : text[t] = Foreign /\ text'[t] # Foreign =>
                   \/ edits' # edits
                   \/ \E a \in Actors :
                         aim[a].target = t /\ aim[a].found # Foreign /\ aim'[a] # aim[a]
  <2>1. CASE UNCHANGED vars
    BY <1>2, <2>1 DEF Aimed
  <2>2. CASE UserEdit
    <3>1. aim' = aim /\ edits' # edits
      BY <1>2, <2>2 DEF UserEdit, Edit, Shaped
    <3> QED
      BY <1>2, <3>1 DEF Aimed
  <2>3. ASSUME NEW a \in Actors, WriteShim(a)
        PROVE  /\ Aimed'
               /\ \A t \in Targets : text'[t] # text[t] =>
                     aim[a].target = t /\ aim[a].found # Foreign /\ aim'[a] # aim[a]
    BY <1>2, <2>3, AimStep DEF WriteShim
  <2>4. ASSUME NEW a \in Actors, Step(a), ~WriteShim(a)
        PROVE  Aimed' /\ text' = text
    <3>1. NoAim.next = "choose" /\ Aim(NoAim)
      BY DEF NoAim, Aim
    <3>2. text' = text /\ \A b \in Actors : aim'[b] = aim[b] \/ aim'[b] = NoAim
      BY <1>2, <2>4, OtherSteps DEF Shaped
    <3> QED
      BY <1>2, <3>1, <3>2 DEF Aimed
  <2>5. CASE \E a \in Actors : Step(a)
    <3>1. PICK a \in Actors : Step(a)
      BY <2>5
    <3>2. CASE WriteShim(a)
      BY <2>3, <3>2
    <3>3. CASE ~WriteShim(a)
      BY <2>4, <3>1, <3>3
    <3> QED
      BY <3>2, <3>3
  <2> QED
    BY <1>2, <2>1, <2>2, <2>5 DEF Next
<1>3. Shaped /\ Aimed /\ [Next]_vars =>
        [\A t \in Targets : text[t] = Foreign /\ text'[t] # Foreign =>
            \/ edits' # edits
            \/ \E a \in Actors :
                  aim[a].target = t /\ aim[a].found # Foreign /\ aim'[a] # aim[a]]_vars
  BY <1>2
<1> QED
  BY <1>1, <1>2, <1>3, ShapedAlways, PTL DEF Spec, UserTextIsKept
-----------------------------------------------------------------------------
(* Who has a store open: between two commands only a shell, and within one only  *)
(* who writes, closes or reads.                                                  *)
Handless == {"wipe", "wipe wal", "connect", "tool", "shims", "load", "truncate", "save",
             "look", "prune", "dead"}
Hands ==
    \A a \in Actors :
        /\ pc[a] \in Handless \/ (pc[a] = "idle" /\ Role[a] # "shell") => ~Holds(a)
        /\ a \notin answer[a].by

LEMMA NotAmongHolders ==
    ASSUME NEW a \in Actors, ~Holds(a), NEW f
    PROVE  a \notin Holders(a, f)
BY DEF Holds, Holders

\* A step leaves the handles of others, and what they were answered, alone.
LEMMA OthersKeep ==
    ASSUME Shaped, NEW a \in Actors, Step(a), NEW b \in Actors, b # a
    PROVE  pc'[b] = pc[b] /\ handle'[b] = handle[b] /\ answer'[b] = answer[b]
<1>1. pc'[b] = pc[b]
  BY DEF Shaped, Goes, Step, Hit, Start, WipeDb, WipeWal, Connect, WriteBatch, WriteIndex,
         CloseGraph, WriteShim, LoseShim, Record, LoadRegistry, TruncateRegistry, Finish, Locked, Collide, Die,
         CallOpen, ToolRelease, ToolOpen, ReadClose, CannotOpen, Ask, AskHeld, PruneLoad, PruneLook, PruneSave
<1>2. handle'[b] = handle[b]
  BY DEF Shaped, Open, OpenNow, Close, Drop, UnlinkDb, UnlinkWal, Insert, BuildIndex,
         Step, Hit, Start, WipeDb, WipeWal, Connect, WriteBatch, WriteIndex,
         CloseGraph, WriteShim, LoseShim, Record, LoadRegistry, TruncateRegistry, Finish, Locked, Collide, Die,
         CallOpen, ToolRelease, ToolOpen, ReadClose, CannotOpen, Ask, AskHeld, PruneLoad, PruneLook, PruneSave
<1>3. answer'[b] = answer[b]
  BY DEF Shaped, Answers, Refused, OpenNow,
         Step, Hit, Start, WipeDb, WipeWal, Connect, WriteBatch, WriteIndex,
         CloseGraph, WriteShim, LoseShim, Record, LoadRegistry, TruncateRegistry, Finish, Locked, Collide, Die,
         CallOpen, ToolRelease, ToolOpen, ReadClose, CannotOpen, Ask, AskHeld, PruneLoad, PruneLook, PruneSave
<1> QED
  BY <1>1, <1>2, <1>3

LEMMA HandsStep ==
    ASSUME Shaped, Hands, NEW a \in Actors, Step(a)
    PROVE  /\ pc'[a] \in Handless \/ (pc'[a] = "idle" /\ Role[a] # "shell") => ~Holds(a)'
           /\ a \notin answer'[a].by
<1> USE DEF Hands, Holds, Handless
<1>0. /\ pc[a] \in Handless \/ (pc[a] = "idle" /\ Role[a] # "shell") => ~Holds(a)
      /\ a \notin answer[a].by
  OBVIOUS
<1> HIDE DEF Hands
<1>1. ASSUME Close(a) PROVE ~Holds(a)'
  BY <1>1 DEF Close, Closed, Shaped
<1>2. ASSUME Refused(a), ~Holds(a) PROVE a \notin answer'[a].by
  BY <1>2, NotAmongHolders DEF Refused, NoAnswer, Shaped
<1>3. CASE Hit(a) \/ Start(a)
  BY <1>0, <1>1, <1>3 DEF Hit, Start, Goes, Shaped
<1>4. CASE WipeDb(a) \/ WipeWal(a)
  BY <1>0, <1>4 DEF WipeDb, WipeWal, UnlinkDb, UnlinkWal, Goes, Shaped
<1>5. CASE Connect(a)
  BY <1>0, <1>5 DEF Connect, Goes, Shaped
<1>6. CASE WriteBatch(a) \/ WriteIndex(a)
  BY <1>0, <1>6 DEF WriteBatch, WriteIndex, Insert, BuildIndex, Goes, Shaped
<1>7. CASE CloseGraph(a) \/ Collide(a)
  BY <1>0, <1>1, <1>7 DEF CloseGraph, Collide, Goes, Shaped
<1>8. CASE WriteShim(a) \/ LoseShim(a) \/ Record(a) \/ LoadRegistry(a) \/ TruncateRegistry(a) \/ Finish(a)
  BY <1>0, <1>8 DEF WriteShim, LoseShim, Ended, Record, LoadRegistry, TruncateRegistry, Finish, Goes, Shaped
<1>9. CASE Locked(a)
  <2>1. ~Holds(a)
    BY <1>0, <1>9 DEF Locked
  <2> QED
    BY <1>2, <1>9, <2>1 DEF Locked
<1>10. CASE Die(a)
  BY <1>0, <1>10 DEF Die, Drop, Closed, Shaped
<1>11. CASE CallOpen(a) \/ ToolOpen(a)
  BY <1>0, <1>11 DEF CallOpen, ToolOpen, Goes, Shaped
<1>12. CASE ToolRelease(a)
  BY <1>0, <1>1, <1>12 DEF ToolRelease, Goes, Shaped
<1>13. CASE ReadClose(a)
  BY <1>1, <1>13 DEF ReadClose, Answers, Goes, Shaped
<1>14. CASE CannotOpen(a)
  <2>1. ~Holds(a)
    BY <1>0, <1>14 DEF CannotOpen
  <2> QED
    BY <1>2, <1>14, <2>1 DEF CannotOpen
<1>15. CASE Ask(a)
  BY <1>0, <1>15 DEF Ask, Shaped
<1>16. CASE AskHeld(a)
  BY <1>0, <1>16 DEF AskHeld, Answers, BuildIndex, Shaped
<1>17. CASE PruneLoad(a) \/ PruneLook(a) \/ PruneSave(a)
  BY <1>0, <1>17 DEF PruneLoad, PruneLook, PruneSave, Goes, Shaped
<1> QED
  BY <1>3, <1>4, <1>5, <1>6, <1>7, <1>8, <1>9, <1>10, <1>11, <1>12, <1>13, <1>14, <1>15, <1>16, <1>17
     DEF Step

LEMMA HandsAlways == Spec => []Hands
<1>1. Init => Hands
  BY DEF Init, FileInit, Hands, Holds, Closed, NoAnswer, Handless
<1>2. ASSUME Shaped, Hands, [Next]_vars
      PROVE  Hands'
  <2>1. CASE UNCHANGED vars
    BY <1>2, <2>1 DEF Hands, Holds
  <2>2. CASE UserEdit
    <3>1. UNCHANGED <<pc, handle, answer>>
      BY <2>2 DEF UserEdit
    <3> QED
      BY <1>2, <3>1 DEF Hands, Holds
  <2>3. ASSUME NEW a \in Actors, Step(a)
        PROVE  Hands'
    <3> SUFFICES ASSUME NEW b \in Actors
                 PROVE  /\ pc'[b] \in Handless \/ (pc'[b] = "idle" /\ Role[b] # "shell") => ~Holds(b)'
                        /\ b \notin answer'[b].by
      BY DEF Hands
    <3>1. CASE b = a
      BY <1>2, <2>3, <3>1, HandsStep
    <3>2. CASE b # a
      BY <1>2, <2>3, <3>2, OthersKeep DEF Hands, Holds
    <3> QED
      BY <3>1, <3>2
  <2> QED
    BY <1>2, <2>1, <2>2, <2>3 DEF Next
<1> QED
  BY <1>1, <1>2, ShapedAlways, PTL DEF Spec

(* No command or thread is refused the graph because of a store it has open      *)
(* itself (cli/interactive/shell.py hands its store back before it extracts or   *)
(* calls a tool).                                                                *)
THEOREM NobodyInItsWay == Spec => []NotInItsOwnWay
<1>1. Hands => NotInItsOwnWay
  BY DEF Hands, NotInItsOwnWay
<1> QED
  BY <1>1, HandsAlways, PTL
-----------------------------------------------------------------------------
(* The registry. An update is under way from its load to its save; in between,   *)
(* what it loaded has everything that is owed.                                   *)
Updated  == {"truncate", "save", "look", "prune"}
Saving(a) == pc[a] \in {"save", "prune"}

Updates(a) ==
    /\ pc[a] \in Updated => loaded[a] \subseteq Repos /\ owed \subseteq loaded[a]
    /\ pc[a] \notin Updated => loaded[a] = Free
    /\ pc[a] \in {"look", "prune"} => Role[a] = "prune"

Ledger ==
    /\ registry = Torn \/ registry \subseteq Repos
    /\ owed \subseteq Repos
    /\ registry # Torn => owed \subseteq registry
    /\ registry = Torn => owed = {} \/ \E a \in Actors : Saving(a)
    /\ \A a \in Actors : Updates(a)

LEMMA Distinct ==
    /\ \A s \in SUBSET Repos : s # Torn /\ s # Free
    /\ \A a \in Actors : RepoOf[a] \in Repos
BY RegistryAssumption DEF Torn, Free

\* A step outside an update neither begins one nor touches the registry.
LEMMA Elsewhere ==
    ASSUME Shaped, Ledger, NEW a \in Actors, Step(a),
           ~LoadRegistry(a), ~TruncateRegistry(a), ~Finish(a), ~Die(a),
           ~PruneLoad(a), ~PruneLook(a), ~PruneSave(a)
    PROVE  /\ UNCHANGED regVars
           /\ pc[a] = pc'[a] \/ (pc[a] \notin Updated /\ pc'[a] \notin Updated)
<1>1. UNCHANGED regVars
  BY DEF Step, Hit, Start, WipeDb, WipeWal, Connect, WriteBatch, WriteIndex,
         CloseGraph, WriteShim, LoseShim, Record, Locked, Collide,
         CallOpen, ToolRelease, ToolOpen, ReadClose, CannotOpen, Ask, AskHeld
<1>2. pc[a] = pc'[a] \/ (pc[a] \notin Updated /\ pc'[a] \notin Updated)
  BY DEF Shaped, Goes, Updated, Ended, Step, Hit, Start, WipeDb, WipeWal, Connect, WriteBatch, WriteIndex,
         CloseGraph, WriteShim, LoseShim, Record, Locked, Collide,
         CallOpen, ToolRelease, ToolOpen, ReadClose, CannotOpen, Ask, AskHeld
<1> QED
  BY <1>1, <1>2

\* A save: what is owed after it is in the file, and in what others have loaded.
LEMMA WriteStep ==
    ASSUME Shaped, Ledger, NEW a \in Actors, NEW repos \in SUBSET Repos, NEW promised \in SUBSET repos,
           Write(a, repos, promised), pc' = [pc EXCEPT ![a] = "idle"]
    PROVE  Ledger'
<1>1. /\ registry' = repos /\ registry' # Torn
      /\ owed' \subseteq repos /\ owed' \subseteq Repos
      /\ \A b \in Actors \ {a} : loaded[b] # Free => owed' \subseteq loaded[b]
  BY Distinct DEF Write
<1>2. /\ pc'[a] = "idle" /\ loaded'[a] = Free
      /\ \A b \in Actors \ {a} : pc'[b] = pc[b] /\ loaded'[b] = loaded[b]
  BY DEF Write, Shaped
<1>3. Updates(a)'
  BY <1>2 DEF Updates, Updated
<1>4. ASSUME NEW b \in Actors \ {a}
      PROVE  Updates(b)'
  <2>1. Updates(b)
    BY DEF Ledger
  <2>2. pc[b] \in Updated => loaded[b] # Free
    BY <2>1, Distinct DEF Updates
  <2> QED
    BY <1>1, <1>2, <2>1, <2>2 DEF Updates
<1> QED
  BY <1>1, <1>3, <1>4 DEF Ledger

LEMMA LoadStep ==
    ASSUME Shaped, Ledger, NEW a \in Actors, Load(a), pc[a] \notin Updated,
           NEW next \in {"truncate", "look"}, pc' = [pc EXCEPT ![a] = next],
           next = "look" => Role[a] = "prune"
    PROVE  Ledger'
<1>1. /\ registry' = registry /\ owed' \subseteq owed
      /\ loaded'[a] = Read /\ pc'[a] = next
      /\ registry = Torn => owed' = {}
  BY DEF Load, Shaped
<1>2. \A c \in Actors \ {a} : pc'[c] = pc[c] /\ loaded'[c] = loaded[c]
  BY DEF Load, Shaped
<1>3. Read \subseteq Repos /\ owed' \subseteq Read
  BY <1>1 DEF Read, Ledger
<1>4. Updates(a)'
  BY <1>1, <1>3 DEF Updates, Updated
<1>5. ASSUME NEW c \in Actors \ {a}
      PROVE  Updates(c)'
  BY <1>1, <1>2 DEF Ledger, Updates
<1> QED
  BY <1>1, <1>4, <1>5 DEF Ledger

\* The file is emptied by who is then to write it.
LEMMA EmptyStep ==
    ASSUME Shaped, Ledger, NEW a \in Actors, pc[a] \in {"truncate", "look"},
           NEW next \in {"save", "prune"}, next = "save" <=> pc[a] = "truncate",
           pc' = [pc EXCEPT ![a] = next], registry' = Torn, NEW keep,
           owed' = owed \intersect keep, loaded' = [loaded EXCEPT ![a] = loaded[a] \intersect keep]
    PROVE  Ledger'
<1>1. /\ pc'[a] = next /\ loaded'[a] = loaded[a] \intersect keep
      /\ \A c \in Actors \ {a} : pc'[c] = pc[c] /\ loaded'[c] = loaded[c]
  BY DEF Shaped
<1>2. Saving(a)'
  BY <1>1 DEF Saving
<1>3. Updates(a)'
  BY <1>1 DEF Ledger, Updates, Updated
<1>4. ASSUME NEW c \in Actors \ {a}
      PROVE  Updates(c)'
  BY <1>1 DEF Ledger, Updates
<1>5. owed' \subseteq Repos
  BY DEF Ledger
<1> QED
  BY <1>2, <1>3, <1>4, <1>5 DEF Ledger

LEMMA ForgetStep ==
    ASSUME Shaped, Ledger, NEW a \in Actors, Forget(a, OthersSave(a)), NEW next \in {"idle", "dead"},
           pc' = [pc EXCEPT ![a] = next]
    PROVE  Ledger'
<1>1. /\ pc'[a] = next /\ loaded'[a] = Free
      /\ \A c \in Actors \ {a} : pc'[c] = pc[c] /\ loaded'[c] = loaded[c]
      /\ registry' = registry /\ owed' \subseteq owed
  BY DEF Shaped, Forget
<1>2. registry' = Torn => owed' = {} \/ \E c \in Actors : Saving(c)'
  <2>1. CASE OthersSave(a)
    BY <1>1, <2>1 DEF OthersSave, Saving
  <2>2. CASE ~OthersSave(a)
    BY <1>1, <2>2 DEF Forget
  <2> QED
    BY <2>1, <2>2
<1>3. Updates(a)'
  BY <1>1 DEF Updates, Updated
<1>4. ASSUME NEW c \in Actors \ {a}
      PROVE  Updates(c)'
  BY <1>1 DEF Ledger, Updates
<1> QED
  BY <1>1, <1>2, <1>3, <1>4 DEF Ledger

(* An entry of the registry is kept, whoever loads, prunes, saves or dies, unless *)
(* a repository of the same name is registered, its graph is gone, an update that *)
(* has not loaded it saves, or a process dies in a save with nobody else at one   *)
(* (registry.py, `list --prune`). What all overlapping updates loaded is kept.    *)
THEOREM OwedIsListed == Spec => []RegistryOwes
<1>1. Init => Ledger
  BY Distinct DEF Init, RegInit, Ledger, Updates, Updated, Saving
<1>2. ASSUME Shaped, Ledger, [Next]_vars
      PROVE  Ledger'
  <2>1. CASE UNCHANGED vars
    BY <1>2, <2>1 DEF Ledger, Updates, Saving
  <2>2. CASE UserEdit
    BY <1>2, <2>2 DEF UserEdit, Ledger, Updates, Saving
  <2>3. ASSUME NEW a \in Actors, Step(a)
        PROVE  Ledger'
    <3>1. CASE LoadRegistry(a)
      BY <1>2, <3>1, LoadStep DEF LoadRegistry, Goes, Updated
    <3>2. CASE PruneLoad(a)
      BY <1>2, <3>2, LoadStep DEF PruneLoad, Goes, Updated
    <3>3. CASE TruncateRegistry(a)
      <4>1. /\ loaded' = [loaded EXCEPT ![a] = loaded[a] \intersect (loaded[a] \union owed)]
            /\ owed' = owed \intersect (loaded[a] \union owed)
        <5>1. loaded[a] \intersect (loaded[a] \union owed) = loaded[a]
          OBVIOUS
        <5>2. owed \intersect (loaded[a] \union owed) = owed
          OBVIOUS
        <5> QED
          BY <1>2, <3>3, <5>1, <5>2 DEF TruncateRegistry, Truncate, Shaped
      <4> QED
        BY <1>2, <3>3, <4>1, EmptyStep DEF TruncateRegistry, Truncate, Goes
    <3>4. CASE PruneLook(a)
      <4>1. CASE loaded[a] \subseteq Alive
        BY <1>2, <3>4, <4>1, ForgetStep DEF PruneLook
      <4>2. CASE ~(loaded[a] \subseteq Alive)
        BY <1>2, <3>4, <4>2, EmptyStep DEF PruneLook, Narrow
      <4> QED
        BY <4>1, <4>2
    <3>5. CASE Finish(a)
      <4>1. /\ pc[a] = "save" /\ pc' = [pc EXCEPT ![a] = "idle"]
            /\ Write(a, Others(loaded[a], RepoOf[a]) \union {RepoOf[a]},
                        Others(owed, RepoOf[a]) \union {RepoOf[a]})
        BY <3>5 DEF Finish, Goes, Register
      <4>2. owed \subseteq loaded[a] /\ loaded[a] \subseteq Repos
        BY <1>2, <4>1 DEF Ledger, Updates, Updated
      <4>3. /\ Others(loaded[a], RepoOf[a]) \union {RepoOf[a]} \in SUBSET Repos
            /\ Others(owed, RepoOf[a]) \union {RepoOf[a]}
                 \in SUBSET (Others(loaded[a], RepoOf[a]) \union {RepoOf[a]})
        BY <4>2, Distinct DEF Others
      <4> QED
        BY <1>2, <4>1, <4>3, WriteStep
    <3>6. CASE PruneSave(a)
      <4>1. loaded[a] \in SUBSET Repos /\ owed \in SUBSET loaded[a]
        BY <1>2, <3>6 DEF PruneSave, Goes, Ledger, Updates, Updated
      <4> QED
        BY <1>2, <3>6, <4>1, WriteStep DEF PruneSave, Prune, Goes
    <3>7. CASE Die(a)
      <4>1. CASE pc[a] \in {"truncate", "save"}
        BY <1>2, <3>7, <4>1, ForgetStep DEF Die
      <4>2. CASE pc[a] \notin {"truncate", "save"}
        <5>1. pc[a] \notin Updated /\ UNCHANGED regVars /\ pc' = [pc EXCEPT ![a] = "dead"]
          BY <1>2, <3>7, <4>2 DEF Die, Ledger, Updates, Updated
        <5>2. pc'[a] = "dead" /\ \A b \in Actors \ {a} : pc'[b] = pc[b]
          BY <1>2, <5>1 DEF Shaped
        <5>3. \A b \in Actors : Saving(b)' <=> Saving(b)
          BY <5>1, <5>2 DEF Saving, Updated
        <5> QED
          BY <1>2, <5>1, <5>2, <5>3 DEF Ledger, Updates, Updated
      <4> QED
        BY <4>1, <4>2
    <3>8. CASE ~(\/ LoadRegistry(a) \/ TruncateRegistry(a) \/ Finish(a) \/ Die(a)
                 \/ PruneLoad(a) \/ PruneLook(a) \/ PruneSave(a))
      <4>1. /\ UNCHANGED regVars
            /\ pc[a] = pc'[a] \/ (pc[a] \notin Updated /\ pc'[a] \notin Updated)
            /\ \A b \in Actors \ {a} : pc'[b] = pc[b]
        BY <1>2, <2>3, <3>8, Elsewhere, OthersKeep
      <4>2. \A b \in Actors : (pc'[b] = pc[b] \/ (pc[b] \notin Updated /\ pc'[b] \notin Updated))
        BY <4>1
      <4>3. \A b \in Actors : Saving(b)' <=> Saving(b)
        BY <4>2 DEF Saving, Updated
      <4> QED
        BY <1>2, <4>1, <4>2, <4>3 DEF Ledger, Updates, Updated
    <3> QED
      BY <3>1, <3>2, <3>3, <3>4, <3>5, <3>6, <3>7, <3>8
  <2> QED
    BY <1>2, <2>1, <2>2, <2>3 DEF Next
<1>3. Ledger => RegistryOwes
  BY DEF Ledger, Updates, Updated, Saving, RegistryOwes
<1> QED
  BY <1>1, <1>2, <1>3, ShapedAlways, PTL DEF Spec
-----------------------------------------------------------------------------
(* The files under a graph's name, when no two commands or threads at work on    *)
(* one repository are of the same process. A store then keeps every other one    *)
(* from its file, though not from its log: a log outlives the file it was made   *)
(* for (extract wipes one name after the other) and is replayed into the next.   *)
Apart == \A a, b \in Playing : RepoOf[a] = RepoOf[b] /\ OsProcess[a] = OsProcess[b] => a = b

One(rows) == \A x, y \in rows : x[1] = y[1] /\ \A b \in 1..x[2] : <<x[1], b>> \in rows

\* The files that have a name or are open, and the logs.
Dbs(r)  == ({db[r]} \union {handle[a].db : a \in {b \in Actors : RepoOf[b] = r}}) \ {0}
Logs(r) == ({wal[r]} \union {handle[a].wal : a \in {b \in Actors : RepoOf[b] = r}}) \ {0}

Numbered ==
    /\ files \in Seq(SUBSET (Nat \X (1..Batches)))
    /\ db \in [Repos -> 0..Len(files)] /\ wal \in [Repos -> 0..Len(files)]
    /\ \A a \in Actors : handle[a] = Closed \/ handle[a] \in [db : 1..Len(files), wal : 1..Len(files)]

\* No file is a log, and none belongs to two repositories.
Parted ==
    \A r, s \in Repos : /\ Dbs(r) \intersect Logs(s) = {}
                        /\ r # s => Dbs(r) \intersect Dbs(s) = {} /\ Logs(r) \intersect Logs(s) = {}

Alone == \A a, b \in Actors : Holds(a) /\ handle[a].db = handle[b].db => a = b

\* Logs and named files are of one extract each; of a named file and a log that will
\* join it one is empty, and if it is the log, nobody else can write into it.
LogsSound  == \A r \in Repos : \A l \in Logs(r) : One(files[l])
NamesSound ==
    \A r \in Repos : db[r] # 0 =>
        /\ One(files[db[r]])
        /\ \/ wal[r] = 0
           \/ files[db[r]] = {}
           \/ files[wal[r]] = {} /\ \A a \in Actors : handle[a].wal = wal[r] => handle[a].db = db[r]
StoresSound ==
    \A a \in Actors : Holds(a) /\ handle[a].db = db[RepoOf[a]] =>
        /\ wal[RepoOf[a]] \in {0, handle[a].wal}
        /\ \/ files[handle[a].db] = {}
           \/ files[handle[a].wal] = {} /\ \A b \in Actors \ {a} : handle[b].wal # handle[a].wal

\* An extract finds no rows of its own before it writes, and can write nothing into
\* a file that has some.
Making == {"wipe", "wipe wal", "connect", "write"}
Numbers ==
    /\ gen \in Nat
    /\ \A f \in DOMAIN files : \A x \in files[f] : x[1] <= gen
    /\ \A a \in Actors : pc[a] \in Making =>
         /\ run[a].gen \in 1..gen
         /\ \A b \in Actors \ {a} : pc[b] \in Making => run[b].gen # run[a].gen
New(a)     == \A f \in DOMAIN files : \A x \in files[f] : x[1] # run[a].gen
Blocked(a) == (\E x \in files[handle[a].db] : x[2] = 1) /\ \A x \in Stored(a) : x[1] # run[a].gen
Writers ==
    \A a \in Actors :
        /\ pc[a] \in Making \ {"write"} => New(a)
        /\ pc[a] = "write" => Holds(a) /\ (files[handle[a].db] = {} \/ Blocked(a))

Players == /\ cast \in Casts /\ runs \in [Actors -> Nat]
           /\ run = [a \in Actors |-> [gen |-> run[a].gen, since |-> run[a].since, refresh |-> run[a].refresh]]
           /\ \A a \in Actors : Holds(a) \/ pc[a] # "idle" => a \in Playing

\* What a step does to the files, and to what an extract is known by.
Named == <<platform, files, db, wal, handle>>
LEMMA FileSteps ==
    ASSUME Shaped, Hands, NEW a \in Actors, Step(a)
    PROVE  \/ UNCHANGED Named
           \/ Close(a)
           \/ Drop(a)
           \/ UnlinkDb(a) \/ UnlinkWal(a)
           \/ Open(a) /\ ~Holds(a) /\ (pc[a] # "idle" \/ Begins(a))
           \/ WriteBatch(a)
BY DEF Named, Hands, Handless, Goes, OpenNow, BuildIndex, Step, Hit, Start, WipeDb, WipeWal, Connect, WriteBatch, WriteIndex,
         CloseGraph, WriteShim, LoseShim, Record, LoadRegistry, TruncateRegistry, Finish, Locked, Collide, Die, CallOpen,
         ToolRelease, ToolOpen, ReadClose, CannotOpen, Ask, AskHeld, PruneLoad, PruneLook, PruneSave

LEMMA GenSteps ==
    ASSUME Shaped, Players, gen \in Nat, NEW a \in Actors, Step(a)
    PROVE  /\ gen' \in {gen, gen + 1} /\ cast' = cast /\ a \in Playing /\ Players'
           /\ \A b \in Actors \ {a} : run'[b] = run[b]
           /\ pc'[a] \in Making => \/ pc[a] \in Making /\ run'[a].gen = run[a].gen
                                   \/ pc'[a] = "wipe" /\ gen' = gen + 1 /\ run'[a].gen = gen'
           /\ pc'[a] = "write" => WriteBatch(a) \/ Connect(a)
<1>1. gen' \in {gen, gen + 1} /\ cast' = cast
  BY DEF Step, Hit, Start, WipeDb, WipeWal, Connect, WriteBatch, WriteIndex,
         CloseGraph, WriteShim, LoseShim, Record, LoadRegistry, TruncateRegistry, Finish, Locked, Collide, Die, CallOpen,
         ToolRelease, ToolOpen, ReadClose, CannotOpen, Ask, AskHeld, PruneLoad, PruneLook, PruneSave
<1>2. a \in Playing
  <2>1. pc[a] # "idle" \/ Holds(a) \/ Begins(a)
    BY DEF Goes, Step, Hit, Start, WipeDb, WipeWal, Connect, WriteBatch, WriteIndex,
         CloseGraph, WriteShim, LoseShim, Record, LoadRegistry, TruncateRegistry, Finish, Locked, Collide, Die, CallOpen,
         ToolRelease, ToolOpen, ReadClose, CannotOpen, Ask, AskHeld, PruneLoad, PruneLook, PruneSave
  <2>2. runs[a] \in Nat /\ cast.runs[a] \in Nat
    BY CastAssumption DEF Players
  <2> QED
    BY <2>1, <2>2 DEF Begins, Playing, Players
<1>3. runs' \in [Actors -> Nat]
  <2>1. runs' = runs \/ runs' = [runs EXCEPT ![a] = @ + 1]
    BY DEF Begins, Step, Hit, Start, WipeDb, WipeWal, Connect, WriteBatch, WriteIndex,
         CloseGraph, WriteShim, LoseShim, Record, LoadRegistry, TruncateRegistry, Finish, Locked, Collide, Die, CallOpen,
         ToolRelease, ToolOpen, ReadClose, CannotOpen, Ask, AskHeld, PruneLoad, PruneLook, PruneSave
  <2> QED
    BY <2>1 DEF Players
<1>4. \/ run' = run
      \/ Start(a) /\ gen' = gen + 1 /\ \E x : run' = [run EXCEPT ![a] = [NoRun EXCEPT !.gen = gen + 1, !.refresh = x]]
      \/ Hit(a) /\ \E x : run' = [run EXCEPT ![a] = [NoRun EXCEPT !.refresh = x]]
      \/ Connect(a) /\ run' = [run EXCEPT ![a].since = gen]
  <2>1. CASE Start(a)
    BY <2>1 DEF Start
  <2>2. CASE Hit(a)
    BY <2>2 DEF Hit
  <2>3. CASE Connect(a)
    BY <2>3 DEF Connect
  <2>4. CASE ~Start(a) /\ ~Hit(a) /\ ~Connect(a)
    BY <2>4 DEF Step, WipeDb, WipeWal, WriteBatch, WriteIndex,
         CloseGraph, WriteShim, LoseShim, Record, LoadRegistry, TruncateRegistry, Finish, Locked, Collide, Die, CallOpen,
         ToolRelease, ToolOpen, ReadClose, CannotOpen, Ask, AskHeld, PruneLoad, PruneLook, PruneSave
  <2> QED
    BY <2>1, <2>2, <2>3, <2>4
<1>5. /\ run' = [b \in Actors |-> [gen |-> run'[b].gen, since |-> run'[b].since, refresh |-> run'[b].refresh]]
      /\ \A b \in Actors \ {a} : run'[b] = run[b]
  BY <1>4 DEF Players, NoRun
<1>5a. /\ Start(a) => gen' = gen + 1 /\ run'[a].gen = gen'
       /\ run'[a].gen = run[a].gen \/ Hit(a) \/ Start(a)
  <2>1. ASSUME Start(a)
        PROVE  gen' = gen + 1 /\ run'[a].gen = gen'
    BY <2>1 DEF Start, Players, NoRun
  <2>2. ASSUME run' = [run EXCEPT ![a].since = gen]
        PROVE  run'[a].gen = run[a].gen
    BY <2>2 DEF Players
  <2> QED
    BY <1>4, <2>1, <2>2
<1>6. Players'
  <2>1. \A b \in Actors : b # a => pc'[b] = pc[b] /\ handle'[b] = handle[b]
    BY OthersKeep
  <2> QED
    BY <1>1, <1>2, <1>3, <1>5, <2>1 DEF Players, Playing, Holds
<1>7. /\ pc'[a] \in Making => pc[a] \in Making \/ Start(a)
      /\ Hit(a) => pc'[a] \notin Making
      /\ Start(a) => pc'[a] = "wipe"
      /\ pc'[a] = "write" => WriteBatch(a) \/ Connect(a)
  BY DEF Shaped, Goes, Making, Ended, Step, Hit, Start, WipeDb, WipeWal, Connect, WriteBatch, WriteIndex,
         CloseGraph, WriteShim, LoseShim, Record, LoadRegistry, TruncateRegistry, Finish, Locked, Collide, Die, CallOpen,
         ToolRelease, ToolOpen, ReadClose, CannotOpen, Ask, AskHeld, PruneLoad, PruneLook, PruneSave
<1>8. pc'[a] \in Making => \/ pc[a] \in Making /\ run'[a].gen = run[a].gen
                           \/ pc'[a] = "wipe" /\ gen' = gen + 1 /\ run'[a].gen = gen'
  BY <1>7, <1>5a
<1> QED
  BY <1>1, <1>2, <1>5, <1>6, <1>7, <1>8

\* Open: the files that have the names, or new and empty ones.
LEMMA Opened ==
    ASSUME Shaped, Numbered, Parted, NEW a \in Actors, Open(a)
    PROVE  \E d, w \in 1..Len(files') :
              LET r == RepoOf[a]
              IN /\ db' = [db EXCEPT ![r] = d] /\ wal' = [wal EXCEPT ![r] = w]
                 /\ handle' = [handle EXCEPT ![a] = [db |-> d, wal |-> w]]
                 /\ d = db[r] \/ (db[r] = 0 /\ d \notin 1..Len(files) /\ files'[d] = {})
                 /\ w = wal[r] \/ (wal[r] = 0 /\ w \notin 1..Len(files) /\ files'[w] = {})
                 /\ d # w /\ Len(files) <= Len(files')
                 /\ \A f \in 1..Len(files) : files'[f] = files[f]
                 /\ \A f \in Len(files) + 1 .. Len(files') : files'[f] = {}
                 /\ files' \in Seq(SUBSET (Nat \X (1..Batches)))
<1> DEFINE r == RepoOf[a]
           d == IF db[r] # 0 THEN db[r] ELSE Len(files) + 1
           w == IF wal[r] # 0 THEN wal[r] ELSE IF db[r] # 0 THEN Len(files) + 1 ELSE Len(files) + 2
           S == {d, w} \ {db[r], wal[r]}
           n == Cardinality(S)
<1>1. /\ r \in Repos /\ db[r] \in 0..Len(files) /\ wal[r] \in 0..Len(files) /\ Len(files) \in Nat
      /\ files = [i \in 1..Len(files) |-> files[i]]
  BY RegistryAssumption DEF Numbered
<1>2. db[r] # wal[r] \/ db[r] = 0
  BY <1>1 DEF Parted, Dbs, Logs
<1>3. /\ db' = [db EXCEPT ![r] = d] /\ wal' = [wal EXCEPT ![r] = w]
      /\ handle' = [handle EXCEPT ![a] = [db |-> d, wal |-> w]]
      /\ files' = files \o [i \in 1..n |-> {}]
  BY DEF Open
<1>4. /\ S = {d, w} \ {db[r], wal[r]} /\ n = Cardinality(S)
      /\ db[r] # 0 => d = db[r]
      /\ wal[r] # 0 => w = wal[r]
      /\ db[r] = 0 => d = Len(files) + 1
      /\ wal[r] = 0 => w = IF db[r] # 0 THEN Len(files) + 1 ELSE Len(files) + 2
  BY <1>1
<1> HIDE DEF d, w, S, n
<1>4a. /\ n \in {0, 1, 2}
       /\ db[r] = 0 /\ wal[r] = 0 => n = 2
       /\ db[r] = 0 <=> wal[r] # 0 => n = 1
  <2>1. CASE db[r] # 0 /\ wal[r] # 0
    BY <1>4, <2>1, FS_EmptySet
  <2>2. CASE db[r] # 0 /\ wal[r] = 0
    <3>1. S = {w}
      BY <1>1, <1>4, <2>2
    <3> QED
      BY <1>4, <2>2, <3>1, FS_Singleton
  <2>3. CASE db[r] = 0 /\ wal[r] # 0
    <3>1. S = {d}
      BY <1>1, <1>4, <2>3
    <3> QED
      BY <1>4, <2>3, <3>1, FS_Singleton
  <2>4. CASE db[r] = 0 /\ wal[r] = 0
    <3>1. S = {d} \union {w} /\ w \notin {d}
      BY <1>1, <1>4, <2>4
    <3>2. IsFiniteSet({d}) /\ Cardinality({d}) = 1
      BY FS_Singleton
    <3>3. Cardinality({d} \union {w}) = 1 + 1
      BY <3>1, <3>2, FS_AddElement
    <3>4. n = 1 + 1
      BY <1>4, <3>1, <3>3, Zenon
    <3> QED
      BY <2>4, <3>4
  <2> QED
    BY <2>1, <2>2, <2>3, <2>4
<1>5. /\ files' \in Seq(SUBSET (Nat \X (1..Batches))) /\ Len(files') = Len(files) + n
      /\ \A f \in 1..Len(files) : files'[f] = files[f]
      /\ \A f \in Len(files) + 1 .. Len(files) + n : files'[f] = {}
  <2>1. [i \in 1..n |-> {}] \in Seq(SUBSET (Nat \X (1..Batches))) /\ Len([i \in 1..n |-> {}]) = n
    BY <1>4a
  <2> QED
    BY <1>1, <1>3, <1>4a, <2>1 DEF Numbered
<1>6. /\ d \in 1..Len(files') /\ (d = db[r] \/ (db[r] = 0 /\ d \notin 1..Len(files) /\ files'[d] = {}))
  <2>1. CASE db[r] # 0
    BY <1>1, <1>4, <1>4a, <1>5, <2>1
  <2>2. CASE db[r] = 0
    <3>1. d \in Len(files) + 1 .. Len(files) + n
      BY <1>1, <1>4, <1>4a, <2>2
    <3> QED
      BY <1>1, <1>4a, <1>5, <2>2, <3>1
  <2> QED
    BY <2>1, <2>2
<1>7. /\ w \in 1..Len(files') /\ (w = wal[r] \/ (wal[r] = 0 /\ w \notin 1..Len(files) /\ files'[w] = {}))
  <2>1. CASE wal[r] # 0
    BY <1>1, <1>4, <1>4a, <1>5, <2>1
  <2>2. CASE wal[r] = 0
    <3>1. w \in Len(files) + 1 .. Len(files) + n
      BY <1>1, <1>4, <1>4a, <2>2
    <3> QED
      BY <1>1, <1>4a, <1>5, <2>2, <3>1
  <2> QED
    BY <2>1, <2>2
<1>8. d # w
  BY <1>1, <1>2, <1>4
<1>9. \A f \in Len(files) + 1 .. Len(files') : files'[f] = {}
  BY <1>4a, <1>5
<1>10. Len(files) <= Len(files')
  BY <1>1, <1>4a, <1>5
<1> USE <1>6, <1>7
<1> WITNESS d \in 1..Len(files'), w \in 1..Len(files')
<1> QED
  BY <1>3, <1>5, <1>8, <1>9, <1>10

Sound == Numbered /\ Parted /\ Alone /\ LogsSound /\ NamesSound /\ StoresSound

\* Where the files of an open store are, and that its log is nobody's file.
LEMMA Places ==
    ASSUME Numbered, Parted, NEW a \in Actors, Holds(a)
    PROVE  /\ RepoOf[a] \in Repos
           /\ handle[a].db \in 1..Len(files) /\ handle[a].wal \in 1..Len(files)
           /\ handle[a].db \in Dbs(RepoOf[a]) /\ handle[a].wal \in Logs(RepoOf[a])
           /\ handle[a] = [db |-> handle[a].db, wal |-> handle[a].wal]
           /\ handle[a].db # handle[a].wal /\ handle[a].db # 0 /\ handle[a].wal # 0
<1>1. RepoOf[a] \in Repos /\ handle[a] \in [db : 1..Len(files), wal : 1..Len(files)]
  BY RegistryAssumption DEF Numbered, Holds, Closed
<1>2. Len(files) \in Nat
  BY DEF Numbered
<1>3. handle[a].db \in Dbs(RepoOf[a]) /\ handle[a].wal \in Logs(RepoOf[a])
  BY <1>1, <1>2 DEF Dbs, Logs
<1>4. handle[a].db # 0 /\ handle[a].wal # 0
  BY <1>1, <1>2
<1> QED
  BY <1>1, <1>3, <1>4 DEF Parted

LEMMA Apartness ==
    ASSUME Numbered, Parted, NEW a \in Actors, Holds(a), NEW r \in Repos
    PROVE  /\ db[r] # 0 => db[r] \in Dbs(r) /\ db[r] \in 1..Len(files) /\ db[r] # handle[a].wal
           /\ wal[r] # 0 => wal[r] \in Logs(r) /\ wal[r] \in 1..Len(files) /\ wal[r] # handle[a].db
           /\ db[r] = handle[a].db => r = RepoOf[a]
           /\ wal[r] = handle[a].wal => r = RepoOf[a]
           /\ handle[a].db \notin Logs(r)
           /\ handle[a].wal \in Logs(r) => r = RepoOf[a]
<1>1. /\ db[r] # 0 => db[r] \in Dbs(r) /\ db[r] \in 1..Len(files)
      /\ wal[r] # 0 => wal[r] \in Logs(r) /\ wal[r] \in 1..Len(files)
  BY DEF Dbs, Logs, Numbered
<1>2. /\ RepoOf[a] \in Repos /\ Len(files) \in Nat
      /\ handle[a].db \in Dbs(RepoOf[a]) /\ handle[a].wal \in Logs(RepoOf[a])
      /\ handle[a].db # 0 /\ handle[a].wal # 0
  <2>1. Len(files) \in Nat
    BY DEF Numbered
  <2>2. /\ RepoOf[a] \in Repos
        /\ handle[a].db \in 1..Len(files) /\ handle[a].wal \in 1..Len(files)
        /\ handle[a].db \in Dbs(RepoOf[a]) /\ handle[a].wal \in Logs(RepoOf[a])
    BY Places
  <2> HIDE DEF Holds
  <2> QED
    BY <2>1, <2>2
<1>3. handle[a].db \notin Logs(r) /\ handle[a].wal \notin Dbs(r)
  BY <1>2 DEF Parted
<1>4. /\ handle[a].db \in Dbs(r) => r = RepoOf[a]
      /\ handle[a].wal \in Logs(r) => r = RepoOf[a]
  BY <1>2 DEF Parted
<1> QED
  BY <1>1, <1>2, <1>3, <1>4

LEMMA Fewer ==
    ASSUME Parted, \A r \in Repos : Dbs(r)' \subseteq Dbs(r) /\ Logs(r)' \subseteq Logs(r)
    PROVE  Parted'
BY DEF Parted

LEMMA SameFiles ==
    ASSUME Sound, UNCHANGED Named
    PROVE  Sound'
<1> USE DEF Named
<1>1. \A r \in Repos : Dbs(r)' = Dbs(r) /\ Logs(r)' = Logs(r)
  BY DEF Dbs, Logs
<1>2. Numbered' /\ Alone'
  BY DEF Sound, Numbered, Alone, Holds
<1>3. Parted' /\ LogsSound'
  BY <1>1 DEF Sound, Parted, LogsSound
<1>4. NamesSound' /\ StoresSound'
  BY DEF Sound, NamesSound, StoresSound, Holds
<1> QED
  BY <1>2, <1>3, <1>4 DEF Sound

\* close: the log joins the file.
LEMMA Closes ==
    ASSUME Shaped, Numbered, Parted, NEW a \in Actors, Close(a), Holds(a)
    PROVE  LET d == handle[a].db w == handle[a].wal r == RepoOf[a]
           IN /\ r \in Repos /\ d \in 1..Len(files) /\ w \in 1..Len(files) /\ d # w /\ Len(files) \in Nat
              /\ d \in Dbs(r) /\ w \in Logs(r)
              /\ db' = db /\ handle'[a] = Closed /\ ~Holds(a)'
              /\ \A b \in Actors \ {a} : handle'[b] = handle[b] /\ (Holds(b)' <=> Holds(b))
              /\ Len(files') = Len(files) /\ files' \in Seq(SUBSET (Nat \X (1..Batches)))
              /\ files'[d] = files[d] \union files[w] /\ files'[w] = {}
              /\ \A f \in 1..Len(files) : f # d /\ f # w => files'[f] = files[f]
              /\ \A s \in Repos : wal'[s] = wal[s] \/ (wal'[s] = 0 /\ s = r)
              /\ wal'[r] # w
              /\ Numbered' /\ Parted'
              /\ \A s \in Repos : Dbs(s)' \subseteq Dbs(s) /\ Logs(s)' \subseteq Logs(s)
<1> DEFINE d == handle[a].db
           w == handle[a].wal
           r == RepoOf[a]
<1>1. /\ r \in Repos /\ d \in 1..Len(files) /\ w \in 1..Len(files) /\ d # w /\ Len(files) \in Nat
      /\ d \in Dbs(r) /\ w \in Logs(r)
  <2>1. Len(files) \in Nat
    BY DEF Numbered
  <2> QED
    BY <2>1, Places
<1>2. /\ db' = db /\ files' = [files EXCEPT ![d] = files[d] \union files[w], ![w] = {}]
      /\ wal' = [wal EXCEPT ![r] = IF @ = w THEN 0 ELSE @]
      /\ handle' = [handle EXCEPT ![a] = Closed]
  BY DEF Close, Content, Holds, Closed
<1>3. /\ handle'[a] = Closed /\ \A b \in Actors \ {a} : handle'[b] = handle[b]
      /\ ~Holds(a)' /\ \A b \in Actors \ {a} : Holds(b)' <=> Holds(b)
  BY <1>2 DEF Shaped, Closed, Holds
<1>4. /\ Len(files') = Len(files)
      /\ files' \in Seq(SUBSET (Nat \X (1..Batches)))
      /\ files'[d] = files[d] \union files[w] /\ files'[w] = {}
      /\ \A f \in 1..Len(files) : f # d /\ f # w => files'[f] = files[f]
  BY <1>1, <1>2 DEF Numbered
<1>5. /\ wal' \in [Repos -> 0..Len(files)]
      /\ \A s \in Repos : wal'[s] = wal[s] \/ (wal'[s] = 0 /\ s = r)
      /\ wal'[r] # w
  BY <1>1, <1>2 DEF Numbered
<1>6. Numbered'
  BY <1>2, <1>3, <1>4, <1>5 DEF Numbered
<1>7. \A s \in Repos : Dbs(s)' \subseteq Dbs(s) /\ Logs(s)' \subseteq Logs(s)
  BY <1>2, <1>3, <1>5 DEF Dbs, Logs, Closed
<1>8. Parted'
  BY <1>7, Fewer
<1> HIDE DEF d, w, r
<1> QED
  BY <1>1, <1>2, <1>3, <1>4, <1>5, <1>6, <1>7, <1>8 DEF d, w, r

LEMMA CloseKeeps ==
    ASSUME Shaped, Sound, NEW a \in Actors, Close(a)
    PROVE  Sound'
<1> USE DEF Sound
<1>1. CASE ~Holds(a)
  <2>1. UNCHANGED <<platform, files, db, wal, handle>>
    BY <1>1 DEF Close, Holds, Closed, Numbered, Shaped
  <2> QED
    BY <2>1, SameFiles DEF Named
<1>2. CASE Holds(a)
  <2> DEFINE d == handle[a].db
             w == handle[a].wal
             r == RepoOf[a]
  <2>1. /\ r \in Repos /\ d \in 1..Len(files) /\ w \in 1..Len(files) /\ d # w /\ Len(files) \in Nat
        /\ d \in Dbs(r) /\ w \in Logs(r)
    BY <1>2, Closes
  <2>2. db' = db
    BY <1>2, Closes
  <2>3. /\ handle'[a] = Closed /\ \A b \in Actors \ {a} : handle'[b] = handle[b]
        /\ ~Holds(a)' /\ \A b \in Actors \ {a} : Holds(b)' <=> Holds(b)
    BY <1>2, Closes
  <2>4. /\ Len(files') = Len(files)
        /\ files'[d] = files[d] \union files[w] /\ files'[w] = {}
        /\ \A f \in 1..Len(files) : f # d /\ f # w => files'[f] = files[f]
    BY <1>2, Closes
  <2>5. /\ \A s \in Repos : wal'[s] = wal[s] \/ (wal'[s] = 0 /\ s = r)
        /\ wal'[r] # w
    BY <1>2, Closes
  <2>6. Numbered' /\ Parted'
    BY <1>2, Closes
  <2>7. \A s \in Repos : Dbs(s)' \subseteq Dbs(s) /\ Logs(s)' \subseteq Logs(s)
    BY <1>2, Closes
  <2>8. Alone'
    <3>1. ASSUME NEW b \in Actors, NEW c \in Actors, Holds(b)', handle'[b].db = handle'[c].db
          PROVE  b = c
      <4>1. b # a /\ handle'[c].db # 0
        BY <2>3, <3>1 DEF Holds
      <4>2. c # a
        BY <2>3, <4>1 DEF Closed
      <4> QED
        BY <2>3, <3>1, <4>1, <4>2 DEF Alone
    <3> QED
      BY <3>1 DEF Alone
  <2>9. ASSUME NEW s \in Repos, NEW l \in Logs(s)'
        PROVE  One(files'[l])
    <3>1. l \in Logs(s) /\ l # d
      BY <2>1, <2>7, <1>2, Apartness
    <3>2. l \in 1..Len(files)
      BY <2>1, <3>1 DEF Logs, Numbered, Closed
    <3> QED
      BY <2>4, <3>1, <3>2 DEF LogsSound, One
  <2>10. ASSUME NEW s \in Repos, db[s] # 0
         PROVE  One(files'[db[s]])
    <3>1. CASE db[s] = d
      <4>1. s = r /\ (files[d] = {} \/ files[w] = {})
        BY <1>2, <2>1, <3>1, Apartness DEF StoresSound
      <4>2. files'[d] = files[d] \/ files'[d] = files[w]
        BY <2>4, <4>1
      <4> QED
        BY <2>1, <2>10, <3>1, <4>2 DEF NamesSound, LogsSound
    <3>2. CASE db[s] # d
      BY <1>2, <2>4, <2>10, <3>2, Apartness DEF NamesSound
    <3> QED
      BY <3>1, <3>2
  <2>11. ASSUME NEW s \in Repos, db[s] # 0, wal'[s] # 0
         PROVE  \/ files'[db[s]] = {}
                \/ files'[wal'[s]] = {} /\ \A b \in Actors : handle'[b].wal = wal'[s] => handle'[b].db = db[s]
    <3>1. wal[s] # w /\ wal[s] = wal'[s] /\ wal[s] # 0
      BY <1>2, <2>1, <2>5, <2>11, Apartness
    <3>2. db[s] # d
      BY <1>2, <2>1, <2>11, <3>1, Apartness DEF StoresSound
    <3>3. files'[db[s]] = files[db[s]] /\ files'[wal[s]] = files[wal[s]]
      BY <1>2, <2>1, <2>4, <2>11, <3>1, <3>2, Apartness
    <3> QED
      BY <2>3, <2>11, <3>1, <3>3 DEF NamesSound, Closed
  <2>12. ASSUME NEW b \in Actors, Holds(b)', handle'[b].db = db[RepoOf[b]]
         PROVE  /\ wal'[RepoOf[b]] \in {0, handle'[b].wal}
                /\ \/ files'[handle'[b].db] = {}
                   \/ files'[handle'[b].wal] = {} /\ \A c \in Actors \ {b} : handle'[c].wal # handle'[b].wal
    <3>1. b # a /\ Holds(b) /\ handle'[b] = handle[b]
      BY <2>3, <2>12
    <3>2. RepoOf[b] \in Repos /\ handle[b].db \in 1..Len(files) /\ handle[b].wal \in 1..Len(files)
      BY <3>1, Places
    <3>3. handle[b].db # d
      BY <1>2, <3>1 DEF Alone
    <3>4. handle[b].db # w /\ handle[b].wal # d
      BY <1>2, <2>12, <3>1, <3>2, Places, Apartness
    <3>5. files'[handle[b].db] = files[handle[b].db]
      BY <2>4, <3>2, <3>3, <3>4
    <3>6. files'[handle[b].wal] = files[handle[b].wal] \/ files'[handle[b].wal] = {}
      BY <2>4, <3>2, <3>4
    <3>7. wal'[RepoOf[b]] \in {0, handle[b].wal}
      BY <2>5, <2>12, <3>1, <3>2 DEF StoresSound
    <3>8. handle'[a].wal = 0
      BY <2>3 DEF Closed
    <3>9. ASSUME \A c \in Actors \ {b} : handle[c].wal # handle[b].wal
          PROVE  \A c \in Actors \ {b} : handle'[c].wal # handle'[b].wal
      BY <2>3, <3>1, <3>2, <3>8, <3>9
    <3> QED
      BY <2>12, <3>1, <3>5, <3>6, <3>7, <3>9 DEF StoresSound
  <2>13. LogsSound'
    BY <2>9 DEF LogsSound
  <2>13a. NamesSound'
    <3> SUFFICES ASSUME NEW s \in Repos, db'[s] # 0
                 PROVE  /\ One(files'[db'[s]])
                        /\ \/ wal'[s] = 0
                           \/ files'[db'[s]] = {}
                           \/ /\ files'[wal'[s]] = {}
                              /\ \A b \in Actors : handle'[b].wal = wal'[s] => handle'[b].db = db'[s]
      BY DEF NamesSound
    <3>1. db' = db
      BY <2>2
    <3>2. db[s] # 0
      BY <3>1
    <3> QED
      BY <2>10, <2>11, <3>1, <3>2
  <2>14. StoresSound'
    BY <2>2, <2>12 DEF StoresSound
  <2> QED
    BY <2>6, <2>8, <2>13, <2>14, <2>13a
<1> QED
  BY <1>1, <1>2

LEMMA Drops ==
    ASSUME Shaped, Numbered, Parted, NEW a \in Actors, Drop(a)
    PROVE  /\ UNCHANGED <<files, db, wal>>
           /\ handle'[a] = Closed /\ ~Holds(a)'
           /\ \A b \in Actors \ {a} : handle'[b] = handle[b] /\ (Holds(b)' <=> Holds(b))
           /\ Numbered' /\ Parted'
           /\ \A s \in Repos : Dbs(s)' \subseteq Dbs(s) /\ Logs(s)' \subseteq Logs(s)
<1>1. /\ UNCHANGED <<files, db, wal>>
      /\ handle'[a] = Closed /\ ~Holds(a)'
      /\ \A b \in Actors \ {a} : handle'[b] = handle[b] /\ (Holds(b)' <=> Holds(b))
  BY DEF Drop, Shaped, Holds, Closed
<1>2. Numbered'
  BY <1>1 DEF Numbered
<1>3. \A s \in Repos : Dbs(s)' \subseteq Dbs(s) /\ Logs(s)' \subseteq Logs(s)
  BY <1>1 DEF Dbs, Logs, Closed
<1> QED
  BY <1>1, <1>2, <1>3, Fewer

LEMMA DropKeeps ==
    ASSUME Shaped, Sound, NEW a \in Actors, Drop(a)
    PROVE  Sound'
<1> USE DEF Sound
<1>1. /\ UNCHANGED <<files, db, wal>>
      /\ handle'[a] = Closed /\ ~Holds(a)'
      /\ \A b \in Actors \ {a} : handle'[b] = handle[b] /\ (Holds(b)' <=> Holds(b))
  BY Drops
<1>2. Numbered' /\ Parted'
  BY Drops
<1>4. LogsSound'
  BY <1>1, Drops DEF LogsSound
<1>5. Alone'
  BY <1>1 DEF Alone, Holds, Closed
<1>6. NamesSound'
  BY <1>1 DEF NamesSound, Closed
<1>7. ASSUME NEW b \in Actors, Holds(b)', handle'[b].db = db[RepoOf[b]]
      PROVE  /\ wal[RepoOf[b]] \in {0, handle'[b].wal}
             /\ \/ files[handle'[b].db] = {}
                \/ files[handle'[b].wal] = {} /\ \A c \in Actors \ {b} : handle'[c].wal # handle'[b].wal
  <2>1. b # a /\ Holds(b) /\ handle'[b] = handle[b] /\ handle'[a].wal = 0
    BY <1>1, <1>7 DEF Closed
  <2>3. handle[b].wal # 0
    BY <2>1, Places
  <2> QED
    BY <1>1, <1>7, <2>1, <2>3 DEF StoresSound
<1>8. StoresSound'
  BY <1>1, <1>7 DEF StoresSound
<1> QED
  BY <1>2, <1>4, <1>5, <1>6, <1>8

LEMMA Unlinks ==
    ASSUME Numbered, Parted, UNCHANGED <<files, handle>>, NEW r \in Repos,
           db' = db \/ db' = [db EXCEPT ![r] = 0], wal' = wal \/ wal' = [wal EXCEPT ![r] = 0]
    PROVE  /\ \A s \in Repos : db'[s] \in {0, db[s]} /\ wal'[s] \in {0, wal[s]}
           /\ \A s \in Repos \ {r} : db'[s] = db[s] /\ wal'[s] = wal[s]
           /\ Numbered' /\ Parted'
           /\ \A s \in Repos : Dbs(s)' \subseteq Dbs(s) /\ Logs(s)' \subseteq Logs(s)
<1>1. /\ \A s \in Repos : db'[s] \in {0, db[s]} /\ wal'[s] \in {0, wal[s]}
      /\ \A s \in Repos \ {r} : db'[s] = db[s] /\ wal'[s] = wal[s]
      /\ db' = [s \in Repos |-> db'[s]] /\ wal' = [s \in Repos |-> wal'[s]]
  BY DEF Numbered
<1>2. Numbered'
  <2>1. Len(files) \in Nat
    BY DEF Numbered
  <2>2. \A s \in Repos : db'[s] \in 0..Len(files) /\ wal'[s] \in 0..Len(files)
    BY <1>1, <2>1 DEF Numbered
  <2> QED
    BY <1>1, <2>2 DEF Numbered
<1>3. \A s \in Repos : Dbs(s)' \subseteq Dbs(s) /\ Logs(s)' \subseteq Logs(s)
  BY <1>1 DEF Dbs, Logs
<1> QED
  BY <1>1, <1>2, <1>3, Fewer

LEMMA UnlinkKeeps ==
    ASSUME Shaped, Sound, UNCHANGED <<files, handle>>, NEW r \in Repos,
           db' = db \/ db' = [db EXCEPT ![r] = 0], wal' = wal \/ wal' = [wal EXCEPT ![r] = 0]
    PROVE  Sound'
<1> USE DEF Sound
<1>1. \A s \in Repos : db'[s] \in {0, db[s]} /\ wal'[s] \in {0, wal[s]}
  BY Unlinks
<1>2. Numbered' /\ Parted'
  BY Unlinks
<1>3. \A s \in Repos : Dbs(s)' \subseteq Dbs(s) /\ Logs(s)' \subseteq Logs(s)
  BY Unlinks
<1>4. LogsSound' /\ Alone'
  BY <1>3 DEF LogsSound, Alone, Holds
<1>5. NamesSound'
  BY <1>1 DEF NamesSound
<1>6. \A a \in Actors : Holds(a) => RepoOf[a] \in Repos /\ handle[a].db # 0
  BY RegistryAssumption DEF Holds
<1>7. StoresSound'
  BY <1>1, <1>6 DEF StoresSound, Holds
<1> QED
  BY <1>2, <1>4, <1>5, <1>7

LEMMA Opens ==
    ASSUME Shaped, Numbered, Parted, NEW a \in Actors, Open(a)
    PROVE  LET d == db'[RepoOf[a]] w == wal'[RepoOf[a]] r == RepoOf[a]
           IN /\ r \in Repos /\ d \in 1..Len(files') /\ w \in 1..Len(files')
              /\ Len(files) \in Nat /\ Len(files') \in Nat /\ Len(files) <= Len(files')
              /\ handle'[a] = [db |-> d, wal |-> w] /\ d # 0 /\ w # 0 /\ d # w
              /\ \A b \in Actors \ {a} : handle'[b] = handle[b] /\ (Holds(b)' <=> Holds(b))
              /\ \A s \in Repos \ {r} : db'[s] = db[s] /\ wal'[s] = wal[s]
              /\ d = db[r] \/ (db[r] = 0 /\ d \notin 1..Len(files) /\ files'[d] = {})
              /\ w = wal[r] \/ (wal[r] = 0 /\ w \notin 1..Len(files) /\ files'[w] = {})
              /\ \A f \in 1..Len(files) : files'[f] = files[f]
              /\ files' \in Seq(SUBSET (Nat \X (1..Batches)))
              /\ Numbered' /\ Parted'
              /\ \A s \in Repos : Dbs(s) \subseteq 1..Len(files) /\ Logs(s) \subseteq 1..Len(files)
              /\ \A s \in Repos : \A x :
                   /\ x \in Dbs(s)'  => x \in Dbs(s)  \/ (s = r /\ x = d /\ x \notin 1..Len(files))
                   /\ x \in Logs(s)' => x \in Logs(s) \/ (s = r /\ x = w /\ x \notin 1..Len(files))
<1> DEFINE r == RepoOf[a]
<1>1. r \in Repos /\ Len(files) \in Nat /\ db[r] \in 0..Len(files) /\ wal[r] \in 0..Len(files)
  BY RegistryAssumption DEF Numbered
<1>2. PICK d, w \in 1..Len(files') :
         /\ db' = [db EXCEPT ![r] = d] /\ wal' = [wal EXCEPT ![r] = w]
         /\ handle' = [handle EXCEPT ![a] = [db |-> d, wal |-> w]]
         /\ d = db[r] \/ (db[r] = 0 /\ d \notin 1..Len(files) /\ files'[d] = {})
         /\ w = wal[r] \/ (wal[r] = 0 /\ w \notin 1..Len(files) /\ files'[w] = {})
         /\ d # w /\ Len(files) <= Len(files')
         /\ \A f \in 1..Len(files) : files'[f] = files[f]
         /\ \A f \in Len(files) + 1 .. Len(files') : files'[f] = {}
         /\ files' \in Seq(SUBSET (Nat \X (1..Batches)))
  BY Opened, Zenon
<1>3. /\ handle'[a] = [db |-> d, wal |-> w]
      /\ \A b \in Actors \ {a} : handle'[b] = handle[b] /\ (Holds(b)' <=> Holds(b))
      /\ db'[r] = d /\ wal'[r] = w /\ \A s \in Repos \ {r} : db'[s] = db[s] /\ wal'[s] = wal[s]
      /\ Len(files') \in Nat /\ d # 0 /\ w # 0
  BY <1>1, <1>2 DEF Shaped, Numbered, Holds
<1>4. \A s \in Repos : Dbs(s) \subseteq 1..Len(files) /\ Logs(s) \subseteq 1..Len(files)
  <2>1. \A s \in Repos : db[s] \in 0..Len(files) /\ wal[s] \in 0..Len(files)
    BY DEF Numbered
  <2>2. \A b \in Actors : handle[b].db \in 0..Len(files) /\ handle[b].wal \in 0..Len(files)
    BY <1>1 DEF Numbered, Closed
  <2> QED
    BY <1>1, <2>1, <2>2 DEF Dbs, Logs
<1>5. ASSUME NEW s \in Repos, NEW x
      PROVE  /\ x \in Dbs(s)'  => x \in Dbs(s)  \/ (s = r /\ x = d /\ x \notin 1..Len(files))
             /\ x \in Logs(s)' => x \in Logs(s) \/ (s = r /\ x = w /\ x \notin 1..Len(files))
  BY <1>1, <1>2, <1>3 DEF Dbs, Logs
<1>6. Numbered'
  <2>1. db' \in [Repos -> 0..Len(files')] /\ wal' \in [Repos -> 0..Len(files')]
    BY <1>1, <1>2, <1>3 DEF Numbered
  <2>2. \A b \in Actors : handle'[b] = Closed \/ handle'[b] \in [db : 1..Len(files'), wal : 1..Len(files')]
    BY <1>1, <1>2, <1>3 DEF Numbered
  <2> QED
    BY <1>2, <2>1, <2>2 DEF Numbered
<1>7. Parted'
  <2>1. ASSUME NEW s \in Repos, NEW t \in Repos, NEW x \in Dbs(s)'
        PROVE  x \notin Logs(t)' /\ (s # t => x \notin Dbs(t)')
    BY <1>2, <1>4, <1>5, <2>1 DEF Parted
  <2>2. ASSUME NEW s \in Repos, NEW t \in Repos, s # t, NEW x \in Logs(s)'
        PROVE  x \notin Logs(t)'
    BY <1>4, <1>5, <2>2 DEF Parted
  <2> QED
    BY <2>1, <2>2 DEF Parted
<1> HIDE DEF r
<1> QED
  BY <1>1, <1>2, <1>3, <1>4, <1>5, <1>6, <1>7 DEF r

LEMMA OpenKeeps ==
    ASSUME Shaped, Sound, Players, Apart, NEW a \in Playing, Open(a), ~Holds(a)
    PROVE  Sound'
<1> USE DEF Sound
<1> DEFINE r == RepoOf[a]
<1>1. a \in Actors /\ r \in Repos /\ Len(files) \in Nat /\ db[r] \in 0..Len(files) /\ wal[r] \in 0..Len(files)
  BY RegistryAssumption DEF Numbered, Playing
<1>2. PICK d, w \in 1..Len(files') :
         /\ db' = [db EXCEPT ![r] = d] /\ wal' = [wal EXCEPT ![r] = w]
         /\ handle' = [handle EXCEPT ![a] = [db |-> d, wal |-> w]]
         /\ d = db[r] \/ (db[r] = 0 /\ d \notin 1..Len(files) /\ files'[d] = {})
         /\ w = wal[r] \/ (wal[r] = 0 /\ w \notin 1..Len(files) /\ files'[w] = {})
         /\ d # w /\ Len(files) <= Len(files')
         /\ \A f \in 1..Len(files) : files'[f] = files[f]
         /\ \A f \in Len(files) + 1 .. Len(files') : files'[f] = {}
         /\ files' \in Seq(SUBSET (Nat \X (1..Batches)))
  <2>1. Numbered /\ Parted
    OBVIOUS
  <2> QED
    BY <1>1, <2>1, Opened, Zenon
<1>3. /\ handle'[a] = [db |-> d, wal |-> w]
      /\ \A b \in Actors \ {a} : handle'[b] = handle[b] /\ (Holds(b)' <=> Holds(b))
      /\ db'[r] = d /\ wal'[r] = w /\ \A s \in Repos \ {r} : db'[s] = db[s] /\ wal'[s] = wal[s]
      /\ Len(files') \in Nat /\ d # 0 /\ w # 0
  BY <1>1, <1>2 DEF Shaped, Numbered, Holds
<1>4. \A s \in Repos : Dbs(s) \subseteq 1..Len(files) /\ Logs(s) \subseteq 1..Len(files)
  BY Opens DEF Playing
<1>5. ASSUME NEW b \in Actors \ {a}, Holds(b)
      PROVE  handle[b].db # d /\ handle[b].db # 0
  <2>1. handle[b].db \in 1..Len(files)
    BY <1>5, Places
  <2>2. CASE db[r] # 0
    <3>1. d = db[r]
      BY <1>2, <2>2
    <3>2. ASSUME handle[b].db = d
          PROVE  FALSE
      <4>1. RepoOf[b] = r
        BY <1>1, <1>5, <3>1, <3>2, Apartness
      <4>2. OsProcess[b] # OsProcess[a]
        BY <1>5, <4>1 DEF Players, Apart
      <4>3. b \in Holders(a, db[r])
        BY <1>5, <2>2, <3>1, <3>2, <4>2 DEF Holders
      <4> QED
        BY <4>3 DEF Open
    <3> QED
      BY <1>5, <3>2 DEF Holds
  <2>3. CASE db[r] = 0
    BY <1>1, <1>2, <2>1, <2>3
  <2> QED
    BY <2>2, <2>3
<1>6. ASSUME NEW s \in Repos, NEW x
      PROVE  /\ x \in Dbs(s)'  => x \in Dbs(s)  \/ (s = r /\ x = d /\ x \notin 1..Len(files))
             /\ x \in Logs(s)' => x \in Logs(s) \/ (s = r /\ x = w /\ x \notin 1..Len(files))
  BY <1>1, <1>3, Opens
<1>8. Numbered' /\ Parted'
  BY <1>1, Opens
<1>9. Alone'
  BY <1>3, <1>5 DEF Alone, Holds
<1>10. LogsSound'
  <2>1. ASSUME NEW s \in Repos, NEW l \in Logs(s)'
        PROVE  One(files'[l])
    <3>1. CASE l \in Logs(s)
      BY <1>2, <1>4, <3>1 DEF LogsSound
    <3>2. CASE files'[l] = {}
      BY <3>2 DEF One
    <3> QED
      BY <1>1, <1>2, <1>3, <1>6, <2>1, <3>1, <3>2
  <2> QED
    BY <2>1 DEF LogsSound
<1>11. ASSUME NEW s \in Repos, s # r
       PROVE  wal[s] # w \/ wal[s] = 0
  <2>1. wal[s] # 0 => wal[s] \in Logs(s)'
    BY <1>3, <1>11 DEF Logs
  <2>2. w \in Logs(r)'
    BY <1>1, <1>3 DEF Logs
  <2> QED
    BY <1>1, <1>8, <1>11, <2>1, <2>2 DEF Parted
<1>12. ASSUME NEW b \in Actors \ {a}, handle[b].wal = w
       PROVE  wal[r] = w /\ Holds(b)
  <2>1. Holds(b) /\ handle[b].wal \in 1..Len(files)
    BY <1>1, <1>3, <1>12 DEF Numbered, Closed, Holds
  <2> QED
    BY <1>2, <1>12, <2>1
<1>13. NamesSound'
  <2> SUFFICES ASSUME NEW s \in Repos, db'[s] # 0
               PROVE  /\ One(files'[db'[s]])
                      /\ \/ wal'[s] = 0
                         \/ files'[db'[s]] = {}
                         \/ /\ files'[wal'[s]] = {}
                            /\ \A b \in Actors : handle'[b].wal = wal'[s] => handle'[b].db = db'[s]
    BY DEF NamesSound
  <2>1. CASE s # r
    <3>1. /\ db'[s] = db[s] /\ wal'[s] = wal[s] /\ db[s] \in 1..Len(files)
          /\ wal[s] # 0 => wal[s] \in 1..Len(files)
      BY <1>1, <1>3, <2>1 DEF Numbered
    <3>2. files'[db[s]] = files[db[s]] /\ (wal[s] # 0 => files'[wal[s]] = files[wal[s]])
      BY <1>2, <3>1
    <3>3. wal[s] # 0 => handle'[a].wal # wal[s]
      BY <1>3, <1>11, <2>1
    <3> QED
      BY <1>3, <3>1, <3>2, <3>3 DEF NamesSound
  <2>2. CASE s = r
    <3>1. CASE d # db[r]
      BY <1>2, <1>3, <2>2, <3>1 DEF One
    <3>2. CASE d = db[r]
      <4>1. files'[d] = files[d] /\ One(files[d])
        BY <1>1, <1>2, <1>3, <3>2 DEF NamesSound, Numbered
      <4>2. ASSUME wal[r] # 0, files[d] # {}
            PROVE  /\ files'[w] = {}
                   /\ \A b \in Actors : handle'[b].wal = w => handle'[b].db = d
        <5>1. w = wal[r] /\ files'[w] = files[w]
          BY <1>1, <1>2, <4>2
        <5>2. files[w] = {} /\ \A b \in Actors : handle[b].wal = w => handle[b].db = d
          BY <1>1, <1>3, <3>2, <4>2, <5>1 DEF NamesSound
        <5> QED
          BY <1>3, <5>1, <5>2
      <4>3. ASSUME wal[r] = 0
            PROVE  /\ files'[w] = {}
                   /\ \A b \in Actors : handle'[b].wal = w => handle'[b].db = d
        BY <1>2, <1>3, <1>12, <4>3
      <4> QED
        BY <1>3, <2>2, <4>1, <4>2, <4>3
    <3> QED
      BY <3>1, <3>2
  <2> QED
    BY <2>1, <2>2
<1>14. StoresSound'
  <2> SUFFICES ASSUME NEW b \in Actors, Holds(b)', handle'[b].db = db'[RepoOf[b]]
               PROVE  /\ wal'[RepoOf[b]] \in {0, handle'[b].wal}
                      /\ \/ files'[handle'[b].db] = {}
                         \/ /\ files'[handle'[b].wal] = {}
                            /\ \A c \in Actors \ {b} : handle'[c].wal # handle'[b].wal
    BY DEF StoresSound
  <2>1. CASE b # a
    <3>1. Holds(b) /\ handle'[b] = handle[b] /\ RepoOf[b] # r /\ RepoOf[b] \in Repos
      BY <1>3, <1>5, <2>1, RegistryAssumption
    <3>2. handle[b].db \in 1..Len(files) /\ handle[b].wal \in 1..Len(files) /\ handle[b].wal \in Logs(RepoOf[b])
      BY <3>1, Places
    <3>3. handle[b].wal # w
      BY <1>1, <1>2, <1>12, <2>1, <3>1, Apartness
    <3>4. /\ db'[RepoOf[b]] = db[RepoOf[b]] /\ wal'[RepoOf[b]] = wal[RepoOf[b]]
          /\ files'[handle[b].db] = files[handle[b].db] /\ files'[handle[b].wal] = files[handle[b].wal]
      BY <1>2, <1>3, <3>1, <3>2
    <3>5. /\ wal[RepoOf[b]] \in {0, handle[b].wal}
          /\ \/ files[handle[b].db] = {}
             \/ files[handle[b].wal] = {} /\ \A c \in Actors \ {b} : handle[c].wal # handle[b].wal
      BY <3>1, <3>4 DEF StoresSound
    <3>6. handle'[a].wal = w /\ \A c \in Actors \ {a} : handle'[c] = handle[c]
      BY <1>3
    <3> QED
      BY <3>1, <3>3, <3>4, <3>5, <3>6
  <2>2. CASE b = a
    <3>1. CASE d # db[r]
      BY <1>2, <1>3, <2>2, <3>1
    <3>2. CASE d = db[r] /\ files[d] = {}
      <4>1. handle'[b].db = d /\ handle'[b].wal = w /\ wal'[RepoOf[b]] = w
        BY <1>3, <2>2
      <4>2. files'[d] = {}
        BY <1>1, <1>2, <3>2
      <4> QED
        BY <4>1, <4>2
    <3>3. CASE d = db[r] /\ files[d] # {}
      <4>1. files'[w] = {}
        <5>1. CASE wal[r] = 0
          BY <1>2, <5>1, <1>3
        <5>2. CASE wal[r] # 0
          <6>1. files[wal[r]] = {}
            BY <1>1, <1>3, <3>3, <5>2 DEF NamesSound
          <6> QED
            BY <1>1, <1>2, <5>2, <6>1
        <5> QED
          BY <5>1, <5>2
      <4>2. ASSUME NEW c \in Actors \ {a}, handle'[c].wal = w
            PROVE  FALSE
        <5>1. handle[c].wal = w /\ wal[r] = w /\ Holds(c)
          BY <1>3, <1>12, <4>2
        <5>2. handle[c].db = d
          BY <1>1, <1>3, <3>3, <5>1 DEF NamesSound
        <5> QED
          BY <1>5, <4>2, <5>1, <5>2
      <4> QED
        BY <1>3, <2>2, <4>1, <4>2
    <3> QED
      BY <3>1, <3>2, <3>3
  <2> QED
    BY <2>1, <2>2
<1> QED
  BY <1>8, <1>9, <1>10, <1>13, <1>14

\* A set of natural numbers has a least one.
LEMMA Least ==
    ASSUME NEW T \in SUBSET Nat, T # {}
    PROVE  \E m \in T : \A n \in T : m <= n
<1>1. PICK m \in T : \A n \in T : <<n, m>> \notin OpToRel(<, Nat)
  BY NatLessThanWellFounded, WFMin, Zenon
<1>2. \A n \in T : ~(n < m)
  BY <1>1, Zenon DEF OpToRel
<1>3. m \in Nat /\ \A n \in T : n \in Nat
  OBVIOUS
<1>4. \A n \in T : m <= n
  BY <1>2, <1>3
<1> QED
  BY <1>4

\* What was written in order is an initial segment of the batches.
LEMMA Segment ==
    ASSUME NEW D \in SUBSET (1..Batches), \A n \in D : 1..n \subseteq D
    PROVE  \E k \in 0..Batches : D = 1..k /\ Cardinality(D) = k
<1> DEFINE T == {n \in 1..Batches + 1 : n \notin D}
<1>1. T \subseteq Nat /\ Batches + 1 \in T
  BY FileAssumption
<1>2. PICK m \in T : \A y \in T : m <= y
  BY <1>1, Least
<1>3. \A y \in T : ~(y < m)
  BY <1>1, <1>2
<1>4. m - 1 \in 0..Batches /\ m \notin D
  BY FileAssumption
<1>5. D = 1..m - 1
  <2>1. ASSUME NEW n \in D
        PROVE  n <= m - 1
    <3>1. m \notin 1..n
      BY <1>4
    <3> QED
      BY <3>1, FileAssumption
  <2>2. ASSUME NEW n \in 1..m - 1
        PROVE  n \in D
    BY <1>3, FileAssumption
  <2>3. D \subseteq Nat \ {0} /\ m - 1 \in Nat
    BY <1>4, FileAssumption
  <2>4. D \subseteq 1..m - 1
    BY <2>1, <2>3
  <2> QED
    BY <2>2, <2>4
<1>6. Cardinality(D) = m - 1
  BY <1>4, <1>5, FS_Interval, FileAssumption
<1> QED
  BY <1>4, <1>5, <1>6

\* What an extract can write next to what is in its store.
LEMMA NextBatch ==
    ASSUME Sound, Numbers, Writers, NEW a \in Actors, pc[a] = "write",
           Written(a) # 1..Batches, ~Collides(a, Cardinality(Written(a)) + 1)
    PROVE  /\ files[handle[a].db] = {}
           /\ Cardinality(Written(a)) + 1 \in 1..Batches
           /\ One(files[handle[a].wal] \union {<<run[a].gen, Cardinality(Written(a)) + 1>>})
<1> DEFINE log == files[handle[a].wal]
           row == <<run[a].gen, Cardinality(Written(a)) + 1>>
<1>1. /\ Holds(a) /\ handle[a].db \in 1..Len(files) /\ handle[a].wal \in 1..Len(files)
      /\ handle[a].wal \in Logs(RepoOf[a]) /\ RepoOf[a] \in Repos
  BY Places DEF Writers, Sound
<1>2. /\ One(log) /\ log \subseteq Nat \X (1..Batches)
      /\ files[handle[a].db] \subseteq Nat \X (1..Batches)
  BY <1>1 DEF Sound, LogsSound, Numbered
<1>3. \A x \in log : <<x[1], 1>> \in log
  BY <1>2, FileAssumption DEF One
<1>4. ASSUME Written(a) = {}
      PROVE  Cardinality(Written(a)) + 1 = 1 /\ \A x \in Stored(a) : x[2] # 1
  <2>1. Cardinality(Written(a)) = 0
    BY <1>4, FS_EmptySet
  <2> QED
    BY <2>1 DEF Collides
<1>5. files[handle[a].db] = {}
  <2>1. CASE Blocked(a)
    <3>1. Written(a) = {}
      BY <2>1 DEF Blocked, Written
    <3> QED
      BY <1>4, <2>1, <3>1 DEF Blocked, Stored, Content
  <2> QED
    BY <2>1 DEF Writers
<1>6. Written(a) = {x[2] : x \in {y \in log : y[1] = run[a].gen}}
  BY <1>5 DEF Written, Stored, Content
<1>7. CASE Written(a) = {}
  <2>1. log = {}
    <3>1. \A x \in log : x \in Stored(a)
      BY DEF Stored, Content
    <3>2. ASSUME NEW x \in log
          PROVE  FALSE
      <4>1. <<x[1], 1>> \in log
        BY <1>3, <3>2
      <4> QED
        BY <1>4, <1>7, <3>1, <4>1
    <3> QED
      BY <3>2
  <2>2. log \union {row} = {<<run[a].gen, 1>>}
    BY <1>4, <1>7, <2>1
  <2>3. One({<<run[a].gen, 1>>})
    BY DEF One
  <2>4. One(log \union {row})
    BY <2>2, <2>3, Zenon
  <2> QED
    BY <1>4, <1>5, <1>7, <2>4, FileAssumption
<1>8. CASE Written(a) # {}
  <2>1. \A x \in log : x[1] = run[a].gen
    BY <1>2, <1>6, <1>8 DEF One
  <2>2. Written(a) = {x[2] : x \in log}
    BY <1>6, <2>1
  <2>3. \A n \in Written(a) : n \in 1..Batches /\ <<run[a].gen, n>> \in log
    BY <1>2, <2>1, <2>2
  <2>4. \A n \in Written(a) : 1..n \subseteq Written(a)
    <3>1. ASSUME NEW n \in Written(a), NEW m \in 1..n
          PROVE  m \in Written(a)
      <4>1. <<run[a].gen, m>> \in log
        BY <1>2, <2>3, <3>1 DEF One
      <4> QED
        BY <2>2, <4>1
    <3> QED
      BY <3>1
  <2>5. PICK k \in 0..Batches : Written(a) = 1..k /\ Cardinality(Written(a)) = k
    BY <2>3, <2>4, Segment
  <2>6. k + 1 \in 1..Batches
    BY <2>5, FileAssumption
  <2>7. row = <<run[a].gen, k + 1>>
    BY <2>5
  <2>8. \A b \in 1..k + 1 : <<run[a].gen, b>> \in log \union {row}
    BY <2>3, <2>5, <2>7
  <2>9. \A x \in log \union {row} : x[1] = run[a].gen /\ x[2] \in 1..k + 1
    <3>1. ASSUME NEW x \in log
          PROVE  x[1] = run[a].gen /\ x[2] \in 1..k
      BY <2>1, <2>2, <2>5, <3>1
    <3> QED
      BY <2>7, <3>1
  <2>10. One(log \union {row})
    BY <2>8, <2>9 DEF One
  <2> QED
    BY <1>5, <2>5, <2>6, <2>10
<1> QED
  BY <1>7, <1>8

LEMMA BatchKeeps ==
    ASSUME Shaped, Sound, Numbers, Writers, NEW a \in Actors, WriteBatch(a)
    PROVE  Sound' /\ UNCHANGED <<db, wal, handle>> /\ files'[handle[a].db] = {}
<1> DEFINE w == handle[a].wal
           row == <<run[a].gen, Cardinality(Written(a)) + 1>>
<1>1. /\ pc[a] = "write" /\ files' = [files EXCEPT ![w] = @ \union {row}]
      /\ UNCHANGED <<db, wal, handle>>
      /\ Written(a) # 1..Batches /\ ~Collides(a, Cardinality(Written(a)) + 1)
  BY DEF WriteBatch, Insert
<1>2. /\ files[handle[a].db] = {} /\ One(files[w] \union {row}) /\ row[2] \in 1..Batches
  BY <1>1, NextBatch
<1>3. Holds(a) /\ run[a].gen \in Nat
  <2>1. Holds(a)
    BY <1>1 DEF Writers
  <2>2. run[a].gen \in 1..gen /\ gen \in Nat
    BY <1>1 DEF Numbers, Making
  <2> QED
    BY <2>1, <2>2
<1>4. /\ w \in 1..Len(files) /\ handle[a].db \in 1..Len(files) /\ handle[a].db # w
      /\ w \in Logs(RepoOf[a]) /\ Len(files) \in Nat
  <2>1. Len(files) \in Nat
    BY DEF Sound, Numbered
  <2> QED
    BY <1>3, <2>1, Places DEF Sound
<1>5. row \in Nat \X (1..Batches)
  BY <1>2, <1>3
<1> HIDE DEF row, w
<1>6. /\ files' \in Seq(SUBSET (Nat \X (1..Batches))) /\ Len(files') = Len(files)
      /\ files'[w] = files[w] \union {row}
      /\ \A f \in 1..Len(files) : f # w => files'[f] = files[f]
  BY <1>1, <1>4, <1>5 DEF Sound, Numbered
<1>7. Numbered'
  BY <1>1, <1>6 DEF Sound, Numbered
<1>8. \A r \in Repos : Dbs(r)' = Dbs(r) /\ Logs(r)' = Logs(r)
  BY <1>1 DEF Dbs, Logs
<1>9. Parted' /\ Alone'
  BY <1>1, <1>8 DEF Sound, Parted, Alone, Holds
<1>10. \A r \in Repos : /\ db[r] # 0 => db[r] # w /\ db[r] \in 1..Len(files)
                        /\ wal[r] # 0 => wal[r] \in 1..Len(files)
  BY <1>3, Apartness DEF Sound, w
<1>11. LogsSound'
  <2>1. ASSUME NEW r \in Repos, NEW l \in Logs(r)
        PROVE  One(files'[l])
    <3>1. l \in 1..Len(files)
      <4>1. \A b \in Actors : handle[b].wal \in 0..Len(files)
        BY <1>4 DEF Sound, Numbered, Closed
      <4>2. wal[r] \in 0..Len(files)
        BY DEF Sound, Numbered
      <4> QED
        BY <1>4, <4>1, <4>2 DEF Logs
    <3>2. CASE l = w
      BY <1>2, <1>6, <3>2, Zenon DEF w
    <3>3. CASE l # w
      BY <1>6, <3>1, <3>3 DEF Sound, LogsSound
    <3> QED
      BY <3>2, <3>3
  <2> QED
    BY <1>8, <2>1 DEF LogsSound
<1>12. NamesSound'
  <2>1. ASSUME NEW r \in Repos, db[r] # 0
        PROVE  /\ One(files'[db[r]])
               /\ \/ wal[r] = 0
                  \/ files'[db[r]] = {}
                  \/ files'[wal[r]] = {} /\ \A b \in Actors : handle[b].wal = wal[r] => handle[b].db = db[r]
    <3>1. files'[db[r]] = files[db[r]]
      BY <1>6, <1>10, <2>1
    <3>2. CASE wal[r] = w
      BY <1>2, <2>1, <3>1, <3>2 DEF Sound, NamesSound, w
    <3>3. CASE wal[r] # w
      BY <1>6, <1>10, <2>1, <3>1, <3>3 DEF Sound, NamesSound
    <3> QED
      BY <3>2, <3>3
  <2> QED
    BY <1>1, <2>1 DEF NamesSound
<1>13. StoresSound'
  <2>1. ASSUME NEW b \in Actors, Holds(b), handle[b].db = db[RepoOf[b]]
        PROVE  /\ wal[RepoOf[b]] \in {0, handle[b].wal}
               /\ \/ files'[handle[b].db] = {}
                  \/ files'[handle[b].wal] = {} /\ \A c \in Actors \ {b} : handle[c].wal # handle[b].wal
    <3>1. handle[b].db # w /\ handle[b].db \in 1..Len(files) /\ handle[b].wal \in 1..Len(files)
      BY <1>10, <2>1, Places DEF Sound, Holds
    <3>2. files'[handle[b].db] = files[handle[b].db]
      BY <1>6, <3>1
    <3>3. CASE handle[b].wal = w
      BY <1>2, <2>1, <3>2, <3>3 DEF Sound, StoresSound, w
    <3>4. CASE handle[b].wal # w
      BY <1>6, <2>1, <3>1, <3>2, <3>4 DEF Sound, StoresSound
    <3> QED
      BY <3>3, <3>4
  <2> QED
    BY <1>1, <2>1 DEF StoresSound, Holds
<1> QED
  BY <1>1, <1>2, <1>4, <1>6, <1>7, <1>9, <1>11, <1>12, <1>13 DEF Sound

LEMMA SoundStep ==
    ASSUME Shaped, Hands, Players, Apart, Sound, Numbers, Writers, NEW a \in Actors, Step(a)
    PROVE  Sound'
<1>1. RepoOf[a] \in Repos
  BY RegistryAssumption
<1>2. CASE UnlinkDb(a) \/ UnlinkWal(a)
  BY <1>1, <1>2, UnlinkKeeps DEF UnlinkDb, UnlinkWal
<1>4. a \in Playing
  BY GenSteps DEF Numbers
<1> QED
  BY <1>2, <1>4, FileSteps, SameFiles, CloseKeeps, DropKeeps, OpenKeeps, BatchKeeps

\* What others find in the files: nothing new but the rows of an extract that writes.
LEMMA OthersFind ==
    ASSUME Shaped, Hands, Sound, NEW a \in Actors, Step(a)
    PROVE  /\ \A f \in DOMAIN files' : \A x \in files'[f] :
                 \/ \E g \in DOMAIN files : x \in files[g]
                 \/ pc[a] = "write" /\ x[1] = run[a].gen
           /\ \A b \in Actors \ {a} : Holds(b) =>
                 /\ Holds(b)' /\ handle'[b] = handle[b]
                 /\ files'[handle[b].db] = files[handle[b].db]
                 /\ \A x \in files'[handle[b].wal] :
                       x \in files[handle[b].wal] \/ (pc[a] = "write" /\ x[1] = run[a].gen)
<1>1. /\ Len(files) \in Nat /\ files = [f \in 1..Len(files) |-> files[f]]
      /\ files \in Seq(SUBSET (Nat \X (1..Batches)))
  BY DEF Sound, Numbered
<1>2. ASSUME NEW b \in Actors \ {a}, Holds(b)
      PROVE  /\ Holds(b)' /\ handle'[b] = handle[b]
             /\ handle[b].db \in 1..Len(files) /\ handle[b].wal \in 1..Len(files)
             /\ Holds(a) => /\ handle[b].db # handle[a].db /\ handle[b].db # handle[a].wal
                            /\ handle[b].wal # handle[a].db
  <2>1. Holds(b)' /\ handle'[b] = handle[b]
    BY <1>2, OthersKeep DEF Holds
  <2>2. handle[b].db \in 1..Len(files) /\ handle[b].wal \in 1..Len(files)
        /\ handle[b].db \in Dbs(RepoOf[b]) /\ handle[b].wal \in Logs(RepoOf[b]) /\ RepoOf[b] \in Repos
    BY <1>2, Places DEF Sound
  <2>3. Holds(a) => /\ handle[a].db \in Dbs(RepoOf[a]) /\ handle[a].wal \in Logs(RepoOf[a])
                    /\ RepoOf[a] \in Repos
    BY Places DEF Sound
  <2> QED
    BY <1>2, <2>1, <2>2, <2>3 DEF Sound, Alone, Parted
<1>3. CASE UNCHANGED files
  BY <1>1, <1>2, <1>3
<1>4. CASE Close(a) /\ Holds(a)
  <2> DEFINE d == handle[a].db
             w == handle[a].wal
  <2>1. d \in 1..Len(files) /\ w \in 1..Len(files) /\ d # w
    BY <1>4, Places DEF Sound
  <2>2. files' = [files EXCEPT ![d] = files[d] \union files[w], ![w] = {}]
    BY <1>4 DEF Close, Content, Holds, Closed
  <2> HIDE DEF d, w
  <2>3. DOMAIN files' = 1..Len(files) /\ \A f \in 1..Len(files) :
           files'[f] = IF f = w THEN {} ELSE IF f = d THEN files[d] \union files[w] ELSE files[f]
    BY <1>1, <2>1, <2>2
  <2>4. \A f \in DOMAIN files' : \A x \in files'[f] : \E g \in DOMAIN files : x \in files[g]
    BY <1>1, <2>1, <2>3
  <2>5. ASSUME NEW b \in Actors \ {a}, Holds(b)
        PROVE  /\ files'[handle[b].db] = files[handle[b].db]
               /\ \A x \in files'[handle[b].wal] : x \in files[handle[b].wal]
    BY <1>2, <1>4, <2>3, <2>5 DEF d, w
  <2> QED
    BY <1>2, <2>4, <2>5
<1>5. CASE Open(a)
  <2>1. /\ Len(files) <= Len(files') /\ files' \in Seq(SUBSET (Nat \X (1..Batches)))
        /\ \A f \in 1..Len(files) : files'[f] = files[f]
        /\ \A f \in Len(files) + 1 .. Len(files') : files'[f] = {}
    BY <1>5, Opened DEF Sound
  <2>2. \A f \in DOMAIN files' : \A x \in files'[f] : \E g \in DOMAIN files : x \in files[g]
    <3>1. DOMAIN files' = 1..Len(files') /\ Len(files') \in Nat /\ DOMAIN files = 1..Len(files)
      BY <1>1, <2>1
    <3> QED
      BY <1>1, <2>1, <3>1
  <2>3. ASSUME NEW b \in Actors \ {a}, Holds(b)
        PROVE  files'[handle[b].db] = files[handle[b].db] /\ files'[handle[b].wal] = files[handle[b].wal]
    BY <1>2, <2>1, <2>3
  <2> QED
    BY <1>2, <2>2, <2>3
<1>6. CASE WriteBatch(a)
  <2>1. pc[a] = "write" /\ files' = [files EXCEPT ![handle[a].wal] = @ \union {<<run[a].gen, Cardinality(Written(a)) + 1>>}]
    BY <1>6 DEF WriteBatch, Insert
  <2>2. DOMAIN files' = 1..Len(files) /\ \A f \in 1..Len(files) : \A x \in files'[f] :
           x \in files[f] \/ x[1] = run[a].gen
    BY <1>1, <2>1
  <2>3. \A f \in 1..Len(files) : f # handle[a].wal => files'[f] = files[f]
    BY <1>1, <2>1
  <2>4. ASSUME NEW b \in Actors \ {a}, Holds(b)
        PROVE  handle[b].db # handle[a].wal
    <3>1. CASE Holds(a)
      BY <1>2, <2>4, <3>1
    <3>2. CASE ~Holds(a)
      BY <1>2, <2>4, <3>2 DEF Sound, Numbered, Closed, Holds
    <3> QED
      BY <3>1, <3>2
  <2> QED
    BY <1>1, <1>2, <2>1, <2>2, <2>3, <2>4
<1> QED
  BY <1>3, <1>4, <1>5, <1>6, FileSteps DEF Named, Close, Drop, UnlinkDb, UnlinkWal, Holds, Sound, Numbered, Closed

LEMMA NumbersStep ==
    ASSUME Shaped, Hands, Players, Sound, Numbers, NEW a \in Actors, Step(a)
    PROVE  Numbers'
<1>1. gen \in Nat /\ gen' \in Nat /\ gen <= gen' /\ gen' \in {gen, gen + 1}
  BY GenSteps DEF Numbers
<1>2. /\ \A b \in Actors \ {a} : run'[b] = run[b] /\ pc'[b] = pc[b]
      /\ pc'[a] \in Making => \/ pc[a] \in Making /\ run'[a].gen = run[a].gen
                              \/ gen' = gen + 1 /\ run'[a].gen = gen'
  BY <1>1, GenSteps, OthersKeep
<1>3. ASSUME NEW f \in DOMAIN files', NEW x \in files'[f]
      PROVE  x[1] <= gen'
  <2>1. CASE \E g \in DOMAIN files : x \in files[g]
    <3>1. x[1] \in Nat /\ x[1] <= gen
      BY <2>1 DEF Sound, Numbered, Numbers
    <3> QED
      BY <1>1, <3>1
  <2>2. CASE pc[a] = "write" /\ x[1] = run[a].gen
    <3>1. run[a].gen \in 1..gen
      BY <2>2 DEF Numbers, Making
    <3> QED
      BY <1>1, <2>2, <3>1
  <2> QED
    BY <1>3, <2>1, <2>2, OthersFind
<1>4. ASSUME NEW b \in Actors, pc'[b] \in Making
      PROVE  /\ run'[b].gen \in 1..gen'
             /\ (run'[b].gen = run[b].gen /\ pc[b] \in Making) \/ (run'[b].gen = gen + 1 /\ b = a)
  <2>1. pc[b] \in Making => run[b].gen \in 1..gen
    BY DEF Numbers
  <2> QED
    BY <1>1, <1>2, <1>4, <2>1
<1>5. ASSUME NEW b \in Actors, NEW c \in Actors \ {b}, pc'[b] \in Making, pc'[c] \in Making
      PROVE  run'[b].gen # run'[c].gen
  <2>1. /\ pc[b] \in Making => run[b].gen \in 1..gen
        /\ pc[c] \in Making => run[c].gen \in 1..gen
        /\ pc[b] \in Making /\ pc[c] \in Making => run[b].gen # run[c].gen
    BY DEF Numbers
  <2>2. /\ (run'[b].gen = run[b].gen /\ pc[b] \in Making) \/ (run'[b].gen = gen + 1 /\ b = a)
        /\ (run'[c].gen = run[c].gen /\ pc[c] \in Making) \/ (run'[c].gen = gen + 1 /\ c = a)
    BY <1>4, <1>5
  <2> QED
    BY <1>1, <1>5, <2>1, <2>2
<1> QED
  BY <1>1, <1>3, <1>4, <1>5 DEF Numbers

LEMMA WritersStep ==
    ASSUME Shaped, Hands, Players, Sound, Numbers, Writers, NEW a \in Actors, Step(a)
    PROVE  Writers'
<1>1. /\ gen \in Nat /\ \A b \in Actors \ {a} : run'[b] = run[b] /\ pc'[b] = pc[b]
      /\ pc'[a] \in Making => \/ pc[a] \in Making /\ run'[a].gen = run[a].gen
                              \/ pc'[a] = "wipe" /\ gen' = gen + 1 /\ run'[a].gen = gen'
      /\ pc'[a] = "write" => WriteBatch(a) \/ Connect(a)
  <2>1. gen \in Nat
    BY DEF Numbers
  <2> QED
    BY <2>1, GenSteps, OthersKeep
<1>2. /\ \A f \in DOMAIN files' : \A x \in files'[f] :
            \/ \E g \in DOMAIN files : x \in files[g]
            \/ pc[a] = "write" /\ x[1] = run[a].gen
      /\ \A b \in Actors \ {a} : Holds(b) =>
            /\ Holds(b)' /\ handle'[b] = handle[b]
            /\ files'[handle[b].db] = files[handle[b].db]
            /\ \A x \in files'[handle[b].wal] :
                  x \in files[handle[b].wal] \/ (pc[a] = "write" /\ x[1] = run[a].gen)
  BY OthersFind
<1>3. ASSUME NEW b \in Actors \ {a}, pc[b] \in Making, pc[a] = "write"
      PROVE  run[b].gen # run[a].gen
  BY <1>3 DEF Numbers, Making
<1>4. ASSUME NEW b \in Actors, pc'[b] \in Making \ {"write"}
      PROVE  New(b)'
  <2>1. CASE pc[b] \in Making \ {"write"} /\ run'[b].gen = run[b].gen /\ (b = a => pc[a] # "write")
    <3>1. New(b) /\ (pc[a] = "write" => run[a].gen # run[b].gen)
      BY <1>3, <2>1 DEF Writers
    <3> QED
      BY <1>2, <2>1, <3>1 DEF New
  <2>2. CASE gen' = gen + 1 /\ run'[b].gen = gen'
    <3>1. \A f \in DOMAIN files : \A x \in files[f] : x[1] \in Nat /\ x[1] <= gen
      BY DEF Numbers, Sound, Numbered
    <3>2. pc[a] = "write" => run[a].gen \in 1..gen
      BY DEF Numbers, Making
    <3> QED
      BY <1>1, <1>2, <2>2, <3>1, <3>2 DEF New
  <2>3. b = a \/ b # a
    OBVIOUS
  <2>4. pc[a] = "write" => pc'[a] \notin Making \ {"write"}
    BY DEF Shaped, Goes, Making, Ended, Step, Hit, Start, WipeDb, WipeWal, Connect, WriteBatch, WriteIndex,
         CloseGraph, WriteShim, LoseShim, Record, LoadRegistry, TruncateRegistry, Finish, Locked, Collide, Die, CallOpen,
         ToolRelease, ToolOpen, ReadClose, CannotOpen, Ask, AskHeld, PruneLoad, PruneLook, PruneSave
  <2> QED
    BY <1>1, <1>4, <2>1, <2>2, <2>3, <2>4
<1>5. ASSUME NEW b \in Actors, pc'[b] = "write"
      PROVE  Holds(b)' /\ (files'[handle'[b].db] = {} \/ Blocked(b)')
  <2>1. CASE b # a
    <3>1. pc[b] = "write" /\ Holds(b) /\ (files[handle[b].db] = {} \/ Blocked(b)) /\ run'[b] = run[b]
      BY <1>1, <1>5, <2>1 DEF Writers
    <3>2. pc[a] = "write" => run[a].gen # run[b].gen
      BY <1>3, <2>1, <3>1 DEF Making
    <3>3. ASSUME Blocked(b)
          PROVE  Blocked(b)'
      BY <1>2, <2>1, <3>1, <3>2, <3>3 DEF Blocked, Stored, Content
    <3> QED
      BY <1>2, <2>1, <3>1, <3>3
  <2>2. CASE b = a /\ WriteBatch(a)
    <3>1. pc[a] = "write" /\ Holds(a)
      BY <2>2 DEF WriteBatch, Writers
    <3> QED
      BY <2>2, <3>1, BatchKeeps DEF Holds
  <2>3. CASE b = a /\ Connect(a)
    <3>1. pc[a] = "connect" /\ Open(a) /\ New(a) /\ run'[a].gen = run[a].gen
      BY <1>1, <1>5, <2>3 DEF Connect, Goes, Making, Writers
    <3>2. PICK d, w \in 1..Len(files') :
             /\ handle' = [handle EXCEPT ![a] = [db |-> d, wal |-> w]]
             /\ d = db[RepoOf[a]] \/ (db[RepoOf[a]] = 0 /\ d \notin 1..Len(files) /\ files'[d] = {})
             /\ \A f \in 1..Len(files) : files'[f] = files[f]
             /\ files' \in Seq(SUBSET (Nat \X (1..Batches)))
      BY <3>1, Opened DEF Sound
    <3>3. /\ handle'[a] = [db |-> d, wal |-> w] /\ Len(files') \in Nat /\ d # 0 /\ Holds(a)'
          /\ DOMAIN files = 1..Len(files) /\ Len(files) \in Nat /\ DOMAIN files' = 1..Len(files')
      BY <3>2 DEF Shaped, Holds, Sound, Numbered
    <3>4. \A f \in 1..Len(files') : \A x \in files'[f] : x[1] # run[a].gen
      BY <1>2, <3>1, <3>3 DEF New
    <3>5. ASSUME d = db[RepoOf[a]], files'[d] # {}
          PROVE  \E x \in files'[d] : x[2] = 1
      <4>1. RepoOf[a] \in Repos /\ d \in 1..Len(files) /\ files'[d] = files[d]
        BY <3>2, <3>3, <3>5, RegistryAssumption DEF Sound, Numbered
      <4>2. One(files[d]) /\ files[d] \subseteq Nat \X (1..Batches)
        BY <3>3, <3>5, <4>1 DEF Sound, NamesSound, Numbered
      <4>3. PICK x \in files[d] : x[2] \in 1..Batches
        BY <3>5, <4>1, <4>2
      <4>4. <<x[1], 1>> \in files[d]
        BY <4>2, <4>3, FileAssumption DEF One
      <4> QED
        BY <4>1, <4>4
    <3> QED
      BY <2>3, <3>1, <3>2, <3>3, <3>4, <3>5 DEF Blocked, Stored, Content
  <2> QED
    BY <1>1, <1>5, <2>1, <2>2, <2>3
<1> QED
  BY <1>4, <1>5 DEF Writers

(* The rows under a graph's name are of one extract, and from its first batch on, *)
(* whoever wiped, filled, opened or died in between (pipeline: extract removes,   *)
(* creates and fills a graph with no lock of its own; the store's file lock and   *)
(* primary keys are all that stands between two extracts).                        *)
THEOREM GraphIsOfOneExtract == Spec => [](Apart => GraphOfOneExtract)
<1> DEFINE Inv == Players /\ gen \in Nat /\ (Apart => Sound /\ Numbers /\ Writers)
<1>1. Init => Inv
  <2> SUFFICES ASSUME Init PROVE Inv
    OBVIOUS
  <2>1. Players
    BY DEF Init, FileInit, Players, NoRun, Holds, Closed
  <2>2. /\ files = <<>> /\ Len(files) = 0 /\ files \in Seq(SUBSET (Nat \X (1..Batches)))
        /\ db = [r \in Repos |-> 0] /\ wal = [r \in Repos |-> 0] /\ handle = [a \in Actors |-> Closed]
        /\ gen = 0 /\ pc = [a \in Actors |-> "idle"]
    BY DEF Init, FileInit
  <2>3. Numbered /\ Alone /\ LogsSound /\ NamesSound /\ StoresSound
    BY <2>2 DEF Numbered, Alone, Holds, Closed, LogsSound, Logs, NamesSound, StoresSound
  <2>4. Parted
    BY <2>2 DEF Parted, Dbs, Logs, Closed
  <2>5. Numbers /\ Writers /\ gen \in Nat
    BY <2>2 DEF Numbers, Writers, Making
  <2> QED
    BY <2>1, <2>3, <2>4, <2>5 DEF Sound
<1>2. ASSUME Shaped, Hands, Inv, [Next]_vars
      PROVE  Inv'
  <2>1. CASE UNCHANGED vars
    <3>1. Apart' <=> Apart
      BY <2>1 DEF Apart, Playing
    <3>2. Players'
      BY <1>2, <2>1 DEF Players, Playing, Holds
    <3>3. Numbers /\ Writers => Numbers' /\ Writers'
      BY <2>1 DEF Numbers, Writers, New, Blocked, Stored, Content, Holds
    <3> QED
      BY <1>2, <2>1, <3>1, <3>2, <3>3, SameFiles DEF Named
  <2>2. CASE UserEdit
    <3>1. UNCHANGED <<cast, pc, run, runs, files, handle>>
      BY <2>2 DEF UserEdit
    <3>2. Players' /\ (Apart' <=> Apart)
      BY <1>2, <3>1 DEF Players, Playing, Holds, Apart
    <3>3. gen' = gen \/ gen' = gen + 1
      BY <2>2 DEF UserEdit
    <3>4. ASSUME Numbers, Writers, Sound
          PROVE  Numbers' /\ Writers'
      <4>1. Writers'
        BY <3>1, <3>4 DEF Writers, New, Blocked, Stored, Content, Holds
      <4>2. \A f \in DOMAIN files : \A x \in files[f] : x[1] \in Nat /\ x[1] <= gen
        BY <3>4 DEF Numbers, Sound, Numbered
      <4> QED
        BY <3>1, <3>3, <3>4, <4>1, <4>2 DEF Numbers
    <3>5. ASSUME Sound
          PROVE  Sound'
      <4>1. \/ UNCHANGED <<db, wal>>
            \/ \E r \in Repos : db' = [db EXCEPT ![r] = 0] /\ wal' = [wal EXCEPT ![r] = 0]
        BY <2>2 DEF UserEdit
      <4>2. UNCHANGED platform
        BY <2>2 DEF UserEdit
      <4> QED
        BY <1>2, <3>1, <3>5, <4>1, <4>2, SameFiles, UnlinkKeeps DEF Named
    <3> QED
      BY <1>2, <3>2, <3>3, <3>4, <3>5
  <2>3. ASSUME NEW a \in Actors, Step(a)
        PROVE  Inv'
    <3>1. Players' /\ gen' \in Nat /\ cast' = cast
      BY <1>2, <2>3, GenSteps
    <3>2. Apart' <=> Apart
      BY <3>1 DEF Apart, Playing
    <3>3. ASSUME Apart
          PROVE  Sound' /\ Numbers' /\ Writers'
      BY <1>2, <2>3, <3>3, SoundStep, NumbersStep, WritersStep
    <3> QED
      BY <3>1, <3>2, <3>3
  <2> QED
    BY <1>2, <2>1, <2>2, <2>3 DEF Next
<1>3. ASSUME Inv, Apart
      PROVE  GraphOfOneExtract
  <2> SUFFICES ASSUME NEW r \in Repos
               PROVE  One((IF db[r] = 0 THEN {} ELSE files[db[r]]) \union (IF wal[r] = 0 THEN {} ELSE files[wal[r]]))
    BY DEF GraphOfOneExtract, One
  <2>1. wal[r] # 0 => One(files[wal[r]])
    <3>1. wal[r] # 0 => wal[r] \in Logs(r)
      BY DEF Logs
    <3> QED
      BY <1>3, <3>1 DEF Sound, LogsSound
  <2>2. db[r] # 0 => /\ One(files[db[r]])
                     /\ wal[r] = 0 \/ files[db[r]] = {} \/ files[wal[r]] = {}
    BY <1>3 DEF Sound, NamesSound
  <2> QED
    BY <2>1, <2>2 DEF One
<1> QED
  <2>1. Inv => (Apart => GraphOfOneExtract)
    BY <1>3
  <2> HIDE DEF Inv
  <2> QED
    BY <1>1, <1>2, <2>1, ShapedAlways, HandsAlways, PTL DEF Spec
-----------------------------------------------------------------------------
(* A repository that one actor alone extracts, whoever shares a process: what is  *)
(* read of its graph is a whole one, and the actor's own if it asks itself.       *)
Sole(w) == FillersOf(RepoOf[w]) \subseteq {w}

\* Who fills a graph, who has it open, and what an extract is known by.
Working == {"wipe", "wipe wal", "connect", "write", "close", "shims", "load", "truncate", "save", "tool"}
Manned ==
    \A a \in Actors : /\ pc[a] \in Working => Role[a] \in {"extract", "shell"}
                      /\ pc[a] \in {"write", "close", "reading"} => Holds(a)
Counted == gen \in Nat /\ \A a \in Actors : run[a].gen \in 0..gen /\ run[a].since \in 0..gen

Tables == index = [r \in Repos |-> index[r]] /\ done = [a \in Actors |-> done[a]]

Laid == Players /\ Manned /\ Counted /\ Tables /\ Numbered /\ Parted

LEMMA SamePlaces ==
    ASSUME Numbered, Parted, UNCHANGED <<files, db, wal, handle>>
    PROVE  Numbered' /\ Parted'
<1>1. \A r \in Repos : Dbs(r)' = Dbs(r) /\ Logs(r)' = Logs(r)
  BY DEF Dbs, Logs
<1> QED
  BY <1>1 DEF Numbered, Parted

LEMMA BatchIsLaid ==
    ASSUME Laid, NEW a \in Actors, WriteBatch(a)
    PROVE  /\ Holds(a) /\ pc[a] = "write" /\ UNCHANGED <<db, wal, handle, local>>
           /\ Cardinality(Written(a)) + 1 \in 1..Batches
           /\ Len(files') = Len(files)
           /\ files'[handle[a].wal] = files[handle[a].wal] \union {<<run[a].gen, Cardinality(Written(a)) + 1>>}
           /\ \A f \in 1..Len(files) : f # handle[a].wal => files'[f] = files[f]
           /\ Numbered' /\ Parted'
<1> DEFINE n == Cardinality(Written(a)) + 1
           w == handle[a].wal
<1>1. /\ pc[a] = "write" /\ files' = [files EXCEPT ![w] = @ \union {<<run[a].gen, n>>}]
      /\ UNCHANGED <<db, wal, handle, local>> /\ Written(a) # 1..Batches
  BY DEF WriteBatch, Insert
<1>2. Holds(a) /\ run[a].gen \in Nat
  BY <1>1 DEF Laid, Manned, Counted
<1>3. w \in 1..Len(files) /\ handle[a].db \in 1..Len(files) /\ Len(files) \in Nat
  <2>1. Len(files) \in Nat
    BY DEF Laid, Numbered
  <2> QED
    BY <1>2, <2>1, Places DEF Laid
<1>4. n \in 1..Batches
  <2>1. Written(a) \subseteq 1..Batches
    BY <1>3 DEF Written, Stored, Content, Laid, Numbered
  <2>2. IsFiniteSet(1..Batches) /\ Cardinality(1..Batches) = Batches
    BY FS_Interval, FileAssumption
  <2>3. /\ IsFiniteSet(Written(a)) /\ Cardinality(Written(a)) <= Batches
        /\ Cardinality(Written(a)) # Batches
    BY <1>1, <2>1, <2>2, FS_Subset
  <2>4. Cardinality(Written(a)) \in Nat
    BY <2>3, FS_CardinalityType
  <2> QED
    BY <2>3, <2>4, FileAssumption
<1> HIDE DEF n, w
<1>5. /\ files' \in Seq(SUBSET (Nat \X (1..Batches))) /\ Len(files') = Len(files)
      /\ files'[w] = files[w] \union {<<run[a].gen, n>>}
      /\ \A f \in 1..Len(files) : f # w => files'[f] = files[f]
  BY <1>1, <1>2, <1>3, <1>4 DEF Laid, Numbered
<1>6. Numbered'
  BY <1>1, <1>5 DEF Laid, Numbered
<1>7. Parted'
  <2>1. \A r \in Repos : Dbs(r)' = Dbs(r) /\ Logs(r)' = Logs(r)
    BY <1>1 DEF Dbs, Logs
  <2> QED
    BY <2>1 DEF Laid, Parted
<1> QED
  BY <1>1, <1>2, <1>4, <1>5, <1>6, <1>7 DEF n, w

LEMMA MannedStep ==
    ASSUME Shaped, Laid, NEW a \in Actors, Step(a)
    PROVE  Manned'
<1>1. /\ pc[a] \in Working => Role[a] \in {"extract", "shell"}
      /\ pc[a] \in {"write", "close", "reading"} => Holds(a)
  BY DEF Laid, Manned
<1>2. pc'[a] \in Working => Role[a] \in {"extract", "shell"}
  BY <1>1 DEF Shaped, Working, Goes, Ended, Step, Hit, Start, WipeDb, WipeWal, Connect, WriteBatch,
     WriteIndex, CloseGraph, WriteShim, LoseShim, Record, LoadRegistry, TruncateRegistry, Finish, Locked, Collide, Die,
     CallOpen, ToolRelease, ToolOpen, ReadClose, CannotOpen, Ask, AskHeld, PruneLoad, PruneLook, PruneSave
<1>3. pc'[a] \in {"write", "close", "reading"} =>
         \/ Open(a)
         \/ pc[a] \in {"write", "close", "reading"} /\ handle' = handle
  BY DEF Shaped, Goes, Ended, OpenNow, Insert, BuildIndex, Step, Hit, Start, WipeDb, WipeWal, Connect,
     WriteBatch, WriteIndex, CloseGraph, WriteShim, LoseShim, Record, LoadRegistry, TruncateRegistry, Finish, Locked, Collide,
     Die, CallOpen, ToolRelease, ToolOpen, ReadClose, CannotOpen, Ask, AskHeld, PruneLoad, PruneLook, PruneSave
<1>4. pc'[a] \in {"write", "close", "reading"} => Holds(a)'
  <2>1. CASE handle' = handle /\ Holds(a)
    BY <2>1 DEF Holds
  <2>2. ASSUME Open(a)
        PROVE  Holds(a)'
    <3>1. Numbered /\ Parted
      BY DEF Laid
    <3>2. handle'[a] = [db |-> db'[RepoOf[a]], wal |-> wal'[RepoOf[a]]] /\ db'[RepoOf[a]] # 0
      BY <2>2, <3>1, Opens, Zenon
    <3> QED
      BY <3>2 DEF Holds
  <2> QED
    BY <1>1, <1>3, <2>1, <2>2
<1> QED
  BY <1>2, <1>4, OthersKeep DEF Laid, Manned, Holds

LEMMA LaidStep ==
    ASSUME Shaped, Hands, Laid, NEW a \in Actors, Step(a)
    PROVE  Laid'
<1>1. RepoOf[a] \in Repos
  BY RegistryAssumption
<1>2. /\ Players' /\ gen \in Nat /\ gen' \in {gen, gen + 1}
      /\ \A b \in Actors \ {a} : run'[b] = run[b]
  BY GenSteps DEF Laid, Counted
<1>3. Counted'
  <2>1. \/ run' = run
        \/ gen' = gen + 1 /\ \E x : run' = [run EXCEPT ![a] = [NoRun EXCEPT !.gen = gen + 1, !.refresh = x]]
        \/ \E x : run' = [run EXCEPT ![a] = [NoRun EXCEPT !.refresh = x]]
        \/ run' = [run EXCEPT ![a].since = gen]
    BY DEF Step, Hit, Start, WipeDb, WipeWal, Connect, WriteBatch, WriteIndex,
         CloseGraph, WriteShim, LoseShim, Record, LoadRegistry, TruncateRegistry, Finish, Locked, Collide, Die, CallOpen,
         ToolRelease, ToolOpen, ReadClose, CannotOpen, Ask, AskHeld, PruneLoad, PruneLook, PruneSave
  <2>2. run'[a].gen \in 0..gen' /\ run'[a].since \in 0..gen'
    <3>1. run[a].gen \in 0..gen /\ run[a].since \in 0..gen
      BY DEF Laid, Counted
    <3>2. run = [b \in Actors |-> [gen |-> run[b].gen, since |-> run[b].since, refresh |-> run[b].refresh]]
      BY DEF Laid, Players
    <3>3. CASE run' = [run EXCEPT ![a].since = gen]
      <4>1. run'[a].gen = run[a].gen /\ run'[a].since = gen
        BY <3>2, <3>3
      <4> QED
        BY <1>2, <3>1, <4>1
    <3>4. CASE \E x : run' = [run EXCEPT ![a] = [NoRun EXCEPT !.refresh = x]]
      <4>1. run'[a].gen = 0 /\ run'[a].since = 0
        BY <3>2, <3>4 DEF NoRun
      <4> QED
        BY <1>2, <4>1
    <3>5. CASE /\ gen' = gen + 1
               /\ \E x : run' = [run EXCEPT ![a] = [NoRun EXCEPT !.gen = gen + 1, !.refresh = x]]
      <4>1. run'[a].gen = gen + 1 /\ run'[a].since = 0
        BY <3>2, <3>5 DEF NoRun
      <4> QED
        BY <1>2, <3>5, <4>1
    <3>6. CASE run' = run
      BY <1>2, <3>1, <3>6
    <3> QED
      BY <2>1, <3>3, <3>4, <3>5, <3>6, Zenon
  <2> QED
    BY <1>2, <2>2 DEF Laid, Counted
<1>4. Tables'
  <2>1. index' = index \/ \E x : index' = [index EXCEPT ![RepoOf[a]] = x]
    BY DEF Open, OpenNow, Close, Drop, UnlinkDb, UnlinkWal, Insert, BuildIndex, Step, Hit, Start, WipeDb, WipeWal,
       Connect, WriteBatch, WriteIndex, CloseGraph, WriteShim, LoseShim, Record, LoadRegistry, TruncateRegistry, Finish, Locked,
       Collide, Die, CallOpen, ToolRelease, ToolOpen, ReadClose, CannotOpen, Ask, AskHeld, PruneLoad, PruneLook,
       PruneSave
  <2>2. done' = done \/ \E x : done' = [done EXCEPT ![a] = x]
    BY DEF Step, Hit, Start, WipeDb, WipeWal,
       Connect, WriteBatch, WriteIndex, CloseGraph, WriteShim, LoseShim, Record, LoadRegistry, TruncateRegistry, Finish, Locked,
       Collide, Die, CallOpen, ToolRelease, ToolOpen, ReadClose, CannotOpen, Ask, AskHeld, PruneLoad, PruneLook,
       PruneSave
  <2> QED
    BY <2>1, <2>2 DEF Laid, Tables
<1>5. Numbered' /\ Parted'
  <2>1. ASSUME UNCHANGED Named PROVE Numbered' /\ Parted'
    BY <2>1, SamePlaces DEF Named, Laid
  <2>2. ASSUME Close(a) PROVE Numbered' /\ Parted'
    <3>1. CASE ~Holds(a)
      <4>1. UNCHANGED <<files, db, wal, handle>>
        BY <2>2, <3>1 DEF Close, Holds, Closed, Laid, Numbered, Shaped
      <4> QED
        BY <4>1, SamePlaces DEF Laid
    <3> QED
      BY <2>2, <3>1, Closes DEF Laid
  <2>3. ASSUME Drop(a) PROVE Numbered' /\ Parted'
    BY <2>3, Drops DEF Laid
  <2>4. ASSUME UnlinkDb(a) \/ UnlinkWal(a) PROVE Numbered' /\ Parted'
    BY <1>1, <2>4, Unlinks DEF Laid, UnlinkDb, UnlinkWal
  <2>5. ASSUME Open(a) PROVE Numbered' /\ Parted'
    BY <2>5, Opens DEF Laid
  <2>6. ASSUME WriteBatch(a) PROVE Numbered' /\ Parted'
    BY <2>6, BatchIsLaid
  <2> QED
    BY <2>1, <2>2, <2>3, <2>4, <2>5, <2>6, FileSteps
<1> QED
  BY <1>2, <1>3, <1>4, <1>5, MannedStep DEF Laid

LEMMA LaidAlways == Spec => []Laid
<1>1. ASSUME Init
      PROVE  Laid
  <2>1. Players
    BY <1>1 DEF Init, FileInit, Players, NoRun, Holds, Closed
  <2>2. Manned /\ Counted /\ Tables
    BY <1>1 DEF Init, FileInit, Manned, Working, Counted, Tables, NoRun
  <2>3. /\ files = <<>> /\ Len(files) = 0 /\ files \in Seq(SUBSET (Nat \X (1..Batches)))
        /\ db = [r \in Repos |-> 0] /\ wal = [r \in Repos |-> 0] /\ handle = [a \in Actors |-> Closed]
    BY <1>1 DEF Init, FileInit
  <2>4. Numbered
    BY <2>3 DEF Numbered
  <2>5. Parted
    BY <2>3 DEF Parted, Dbs, Logs, Closed
  <2> QED
    BY <2>1, <2>2, <2>4, <2>5 DEF Laid
<1>2. ASSUME Shaped, Hands, Laid, [Next]_vars
      PROVE  Laid'
  <2>1. CASE UNCHANGED vars
    <3>1. Players' /\ Manned' /\ Counted' /\ Tables'
      BY <1>2, <2>1 DEF Laid, Players, Playing, Holds, Manned, Counted, Tables
    <3> QED
      BY <1>2, <2>1, <3>1, SamePlaces DEF Laid
  <2>2. CASE UserEdit
    <3>1. UNCHANGED <<cast, pc, run, runs, files, handle, index, done>>
      BY <2>2 DEF UserEdit
    <3>2. Players' /\ Manned' /\ Tables'
      BY <1>2, <3>1 DEF Laid, Players, Playing, Manned, Holds, Tables
    <3>3. Counted'
      <4>1. gen' = gen \/ gen' = gen + 1
        BY <2>2 DEF UserEdit
      <4> QED
        BY <1>2, <3>1, <4>1 DEF Laid, Counted
    <3>4. Numbered' /\ Parted'
      <4>1. \/ UNCHANGED <<db, wal>>
            \/ \E r \in Repos : db' = [db EXCEPT ![r] = 0] /\ wal' = [wal EXCEPT ![r] = 0]
        BY <2>2 DEF UserEdit
      <4>2. CASE UNCHANGED <<db, wal>>
        BY <1>2, <3>1, <4>2, SamePlaces DEF Laid
      <4> QED
        BY <1>2, <3>1, <4>1, <4>2, Unlinks DEF Laid
    <3> QED
      BY <3>2, <3>3, <3>4 DEF Laid
  <2> QED
    BY <1>2, <2>1, <2>2, LaidStep DEF Next
<1> QED
  BY <1>1, <1>2, ShapedAlways, HandsAlways, PTL DEF Spec
-----------------------------------------------------------------------------
Filling    == {"wipe wal", "connect", "write", "close", "shims", "load", "truncate", "save"}
Ending     == {"shims", "load", "truncate", "save"}
Writing(w) == pc[w] \in {"write", "close"}
AllOf(g)   == {<<g, b>> : b \in 1..Batches}

\* No log that would join file d has rows.
Clear(r, d) ==
    /\ \A b \in Actors : RepoOf[b] = r /\ handle[b].db = d => files[handle[b].wal] = {}
    /\ db[r] = d /\ wal[r] # 0 => files[wal[r]] = {}

\* Stores that were opened when the graph was whole.
Reader(w, b) == RepoOf[b] = RepoOf[w] /\ Holds(b) /\ b \notin early /\ ~(b = w /\ Writing(w))

\* The graph has been removed since w opened it.
Later(w) == \E e \in wiped : e[1] = RepoOf[w] /\ e[2] > run[w].since

Seen(w) ==
    \A b \in Actors : Reader(w, b) =>
        /\ Clear(RepoOf[w], handle[b].db)
        /\ \E g \in Nat : files[handle[b].db] = AllOf(g)
        /\ Writing(w) => handle[b].db # handle[w].db
Finished(w, g) ==
    LET r == RepoOf[w] IN db[r] # 0 /\ Clear(r, db[r]) /\ files[db[r]] = AllOf(g)
Kept(w) == Lacking(RepoOf[w]) \/ (Finished(w, done[w]) /\ pc[w] \notin Filling)
Own(w)  == Reader(w, w) => files[handle[w].db] = AllOf(done[w])

\* Only its own log has rows, unless it died over it.
Settled(w, l) == files[l] = {} \/ (Writing(w) /\ l = handle[w].wal) \/ pc[w] = "dead"
Logged(w)     == \A l \in Logs(RepoOf[w]) : Settled(w, l)
Fresh(w) ==
    LET r == RepoOf[w]
    IN pc[w] \in {"wipe wal", "connect"} =>
        /\ \A b \in Actors : Reader(w, b) => handle[b].db # db[r]
        /\ db[r] # 0 => files[db[r]] = {}
        /\ pc[w] = "connect" =>
             \A b \in Actors : RepoOf[b] = r /\ handle[b].wal = wal[r] /\ wal[r] # 0 => handle[b].db = db[r]
Filled(w) ==
    LET r == RepoOf[w]
    IN Writing(w) =>
        /\ \E k \in 0..Batches : /\ Stored(w) = {<<run[w].gen, b>> : b \in 1..k}
                                 /\ pc[w] = "close" => k = Batches
        /\ \A b \in Actors : RepoOf[b] = r /\ handle[b].wal = handle[w].wal => handle[b].db = handle[w].db
        /\ wal[r] = handle[w].wal => db[r] = handle[w].db
        /\ Later(w) \/ db[r] = handle[w].db
Stays(w)   == pc[w] \in Ending => Later(w) \/ Finished(w, run[w].gen)
Indexed(w) ==
    LET r == RepoOf[w]
    IN /\ done[w] # 0 /\ pc[w] \notin Ending \union {"close", "dead"} /\ Role[w] = "shell"
            => index[r] = {done[w]}
       /\ pc[w] \in Ending \union {"close"} => index[r] = {run[w].gen}
Ends(w)    == done[w] \in Nat

Lone(w) == /\ Seen(w) /\ Kept(w) /\ Own(w) /\ Logged(w)
           /\ Fresh(w) /\ Filled(w) /\ Stays(w) /\ Indexed(w) /\ Ends(w)

\* What others do to the files of a repository, and all that an actor does to them but
\* write, close what it wrote, and finish.
NewFile(f) == f # 0 /\ f \notin 1..Len(files) /\ files'[f] = {}
Handled(r) ==
    /\ \A b \in Actors : RepoOf[b] = r =>
         \/ handle'[b] = handle[b]
         \/ handle'[b] = Closed
         \/ ~Holds(b) /\ handle'[b] = [db |-> db'[r], wal |-> wal'[r]] /\ db'[r] # 0 /\ wal'[r] # 0
    /\ db'[r] = db[r] \/ (db[r] = 0 /\ NewFile(db'[r])) \/ db'[r] = 0
    /\ wal'[r] = wal[r] \/ (wal[r] = 0 /\ NewFile(wal'[r])) \/ wal'[r] = 0
    /\ \A l \in Logs(r) : files'[l] \in {files[l], {}}
    /\ \A d \in Dbs(r) : Clear(r, d) => files'[d] = files[d]
ClearNext(r, d) ==
    /\ \A b \in Actors : RepoOf[b] = r /\ handle'[b].db = d => files'[handle'[b].wal] = {}
    /\ db'[r] = d /\ wal'[r] # 0 => files'[wal'[r]] = {}

\* Who opened the graph while it was missing is marked; what is removed is on the list.
Marked(r) ==
    \A b \in Actors : RepoOf[b] = r /\ b \notin early' /\ Holds(b)'
                      => IF Holds(b) THEN b \notin early ELSE ~Lacking(r)
Listed(w) ==
    LET r == RepoOf[w]
    IN /\ \A e \in wiped : e[1] = r => e \in wiped'
       /\ db[r] # 0 /\ db'[r] = 0 => /\ \E e \in wiped' : e[1] = r /\ e[2] \in Nat /\ e[2] > gen
                                     /\ wal'[r] = 0 \/ pc[w] = "wipe"

Passes(w) ==
    LET r == RepoOf[w]
    IN \/ pc'[w] = pc[w] /\ run'[w] = run[w]
       \/ pc[w] \in Ending /\ pc'[w] \in Ending /\ run'[w] = run[w]
       \/ pc[w] \in Ending /\ pc'[w] = "idle" /\ Role[w] # "shell"
       \/ pc[w] = "wipe" /\ pc'[w] = "wipe wal" /\ db'[r] = 0 /\ Lacking(r)'
       \/ pc[w] = "wipe wal" /\ pc'[w] = "connect" /\ wal'[r] = 0
       \/ pc[w] \notin Ending \union {"write", "close", "dead"} /\ pc'[w] \notin Filling
       \/ pc'[w] = "dead" /\ handle'[w] = Closed

LEMMA HandlesAndNames ==
    ASSUME Numbered
    PROVE  /\ Len(files) \in Nat
           /\ \A r \in Repos : /\ db[r] \in 0..Len(files) /\ wal[r] \in 0..Len(files)
                               /\ db[r] # 0 => db[r] \in Dbs(r)
                               /\ wal[r] # 0 => wal[r] \in Logs(r)
           /\ \A b \in Actors :
                /\ RepoOf[b] \in Repos
                /\ ~Holds(b) => handle[b] = Closed /\ handle[b].db = 0 /\ handle[b].wal = 0
                /\ Holds(b) => /\ handle[b].db \in 1..Len(files) /\ handle[b].wal \in 1..Len(files)
                               /\ handle[b].db \in Dbs(RepoOf[b]) /\ handle[b].wal \in Logs(RepoOf[b])
                               /\ handle[b].db # 0 /\ handle[b].wal # 0
<1>1. Len(files) \in Nat
  BY DEF Numbered
<1>2. \A b \in Actors : /\ RepoOf[b] \in Repos
                        /\ handle[b] = Closed \/ handle[b] \in [db : 1..Len(files), wal : 1..Len(files)]
  BY RegistryAssumption DEF Numbered
<1>3. ASSUME NEW r \in Repos
      PROVE  /\ db[r] \in 0..Len(files) /\ wal[r] \in 0..Len(files)
             /\ db[r] # 0 => db[r] \in Dbs(r)
             /\ wal[r] # 0 => wal[r] \in Logs(r)
  BY DEF Numbered, Dbs, Logs
<1>4. ASSUME NEW b \in Actors, Holds(b)
      PROVE  /\ handle[b].db \in 1..Len(files) /\ handle[b].wal \in 1..Len(files)
             /\ handle[b].db # 0 /\ handle[b].wal # 0
  BY <1>1, <1>2, <1>4 DEF Holds, Closed
<1>5. ASSUME NEW b \in Actors, Holds(b)
      PROVE  handle[b].db \in Dbs(RepoOf[b]) /\ handle[b].wal \in Logs(RepoOf[b])
  BY <1>4, <1>5 DEF Dbs, Logs
<1>6. ASSUME NEW b \in Actors, ~Holds(b)
      PROVE  handle[b] = Closed /\ handle[b].db = 0 /\ handle[b].wal = 0
  BY <1>1, <1>2, <1>6 DEF Holds, Closed
<1> QED
  BY <1>1, <1>2, <1>3, <1>4, <1>5, <1>6

LEMMA DbsAndLogs ==
    ASSUME Numbered, NEW r \in Repos
    PROVE  Dbs(r) \subseteq 1..Len(files) /\ Logs(r) \subseteq 1..Len(files)
<1>1. Len(files) \in Nat /\ db[r] \in 0..Len(files) /\ wal[r] \in 0..Len(files)
  BY HandlesAndNames
<1>2. ASSUME NEW b \in Actors
      PROVE  handle[b].db \in 0..Len(files) /\ handle[b].wal \in 0..Len(files)
  BY <1>1, HandlesAndNames
<1> QED
  BY <1>1, <1>2 DEF Dbs, Logs

LEMMA ClearStays ==
    ASSUME Numbered, NEW r \in Repos, Handled(r), NEW d \in Dbs(r), d \in 1..Len(files), Clear(r, d)
    PROVE  ClearNext(r, d) /\ files'[d] = files[d]
<1>1. db'[r] = d => db[r] = d
  BY DEF Handled, NewFile
<1>2. \A l \in Logs(r) : files[l] = {} => files'[l] = {}
  BY DEF Handled
<1>3. db[r] = d /\ wal'[r] # 0 => files'[wal'[r]] = {}
  BY <1>2, HandlesAndNames DEF Handled, NewFile, Clear
<1>4. ASSUME NEW b \in Actors, RepoOf[b] = r, handle'[b].db = d
      PROVE  files'[handle'[b].wal] = {}
  <2>1. d # 0
    BY HandlesAndNames
  <2>2. CASE handle'[b] = handle[b]
    <3>1. Holds(b) /\ files[handle[b].wal] = {}
      BY <1>4, <2>1, <2>2 DEF Holds, Clear
    <3>2. handle[b].wal \in Logs(r)
      BY <1>4, <3>1, HandlesAndNames
    <3> QED
      BY <1>2, <2>2, <3>1, <3>2
  <2>3. CASE handle'[b] = Closed
    BY <1>4, <2>1, <2>3 DEF Closed
  <2>4. CASE handle'[b] = [db |-> db'[r], wal |-> wal'[r]] /\ wal'[r] # 0
    <3>1. db'[r] = d /\ handle'[b].wal = wal'[r]
      BY <1>4, <2>4
    <3> QED
      BY <1>1, <1>3, <2>4, <3>1
  <2> QED
    BY <1>4, <2>2, <2>3, <2>4 DEF Handled
<1>5. files'[d] = files[d]
  BY DEF Handled
<1> QED
  BY <1>1, <1>3, <1>4, <1>5 DEF ClearNext

\* Every log was one before, or is new.
LEMMA LogsStay ==
    ASSUME Numbered, NEW r \in Repos, Handled(r), NEW l \in Logs(r)'
    PROVE  l \in Logs(r) \/ files'[l] = {}
<1>1. CASE l = wal'[r] /\ l # 0
  BY <1>1, HandlesAndNames DEF Handled, NewFile
<1>2. ASSUME NEW b \in Actors, RepoOf[b] = r, l = handle'[b].wal, l # 0
      PROVE  l \in Logs(r) \/ files'[l] = {}
  <2>1. CASE handle'[b] = handle[b]
    BY <1>2, <2>1 DEF Logs
  <2>2. handle'[b] # Closed
    BY <1>2 DEF Closed
  <2>3. CASE handle'[b] = [db |-> db'[r], wal |-> wal'[r]]
    BY <1>1, <1>2, <2>3
  <2> QED
    BY <1>2, <2>1, <2>2, <2>3 DEF Handled
<1> QED
  BY <1>1, <1>2 DEF Logs

\* Such a step keeps the invariant.
LEMMA LoneKeeps ==
    ASSUME Laid, NEW w \in Actors, Lone(w), Handled(RepoOf[w]), Marked(RepoOf[w]), Listed(w), Passes(w),
           done'[w] = done[w],
           index'[RepoOf[w]] = index[RepoOf[w]] \/ (done[w] = 0 /\ pc'[w] \notin Ending \union {"close"}),
           Writing(w)' => Stored(w)' = Stored(w) /\ handle'[w] = handle[w]
    PROVE  Lone(w)'
<1> DEFINE r == RepoOf[w]
<1>1. r \in Repos /\ Numbered
  BY HandlesAndNames DEF Laid
<1>2. Len(files) \in Nat /\ db[r] \in 0..Len(files) /\ wal[r] \in 0..Len(files)
  BY <1>1, HandlesAndNames
<1>3. ASSUME NEW b \in Actors, RepoOf[b] = r, Holds(b)
      PROVE  /\ handle[b].db \in 1..Len(files) /\ handle[b].wal \in 1..Len(files)
             /\ handle[b].db \in Dbs(r) /\ handle[b].wal \in Logs(r)
             /\ handle[b].db # 0 /\ handle[b].wal # 0
  BY <1>1, <1>3, HandlesAndNames
<1>4. db[r] # 0 => db[r] \in Dbs(r) /\ db[r] \in 1..Len(files)
  BY <1>1, <1>2, HandlesAndNames
<1>5. \A d \in Dbs(r) : d \in 1..Len(files) /\ Clear(r, d) => ClearNext(r, d) /\ files'[d] = files[d]
  BY <1>1, ClearStays
<1>6. Lacking(r) => Lacking(r)'
  BY DEF Listed, Lacking
<1>7. /\ ~Lacking(r) => Finished(w, done[w]) /\ pc[w] \notin Filling
      /\ pc[w] \in Filling => Lacking(r)
  BY DEF Lone, Kept
<1>8. Writing(w)' => Writing(w) /\ pc'[w] = pc[w] /\ run'[w] = run[w]
  BY DEF Passes, Writing, Filling, Ending
\* A store that is a reader's after the step was so before it, or has just opened the whole graph.
<1>9. ASSUME NEW b \in Actors, Reader(w, b)'
      PROVE  \/ Reader(w, b) /\ handle'[b] = handle[b]
             \/ ~Holds(b) /\ ~Lacking(r) /\ db'[r] = db[r] /\ handle'[b].db = db[r]
  <2>1. RepoOf[b] = r /\ Holds(b)' /\ b \notin early' /\ ~(b = w /\ Writing(w)')
    BY <1>9 DEF Reader
  <2>2. handle'[b] # Closed
    BY <2>1 DEF Holds, Closed
  <2>3. CASE handle'[b] = handle[b]
    <3>1. Holds(b) /\ b \notin early
      BY <2>1, <2>3 DEF Marked, Holds
    <3>2. ~(b = w /\ Writing(w))
      <4>1. ASSUME b = w, Writing(w) PROVE FALSE
        <5>1. pc'[w] = pc[w] \/ handle'[w] = Closed
          BY <4>1 DEF Passes, Writing, Ending
        <5> QED
          BY <2>1, <2>2, <4>1, <5>1 DEF Writing
      <4> QED
        BY <4>1
    <3> QED
      BY <2>1, <2>3, <3>1, <3>2 DEF Reader
  <2>4. CASE /\ ~Holds(b) /\ handle'[b] = [db |-> db'[r], wal |-> wal'[r]]
             /\ db'[r] # 0 /\ wal'[r] # 0
    <3>1. ~Lacking(r)
      BY <2>1, <2>4 DEF Marked
    <3>2. db[r] # 0
      BY <1>7, <3>1 DEF Finished
    <3>3. db'[r] = db[r]
      BY <2>4, <3>2 DEF Handled
    <3> QED
      BY <2>4, <3>1, <3>3
  <2> QED
    BY <2>1, <2>2, <2>3, <2>4 DEF Handled
\* A finished graph stays one, unless it is removed.
<1>10. ASSUME NEW g, Finished(w, g), db'[r] # 0
       PROVE  db'[r] = db[r] /\ ClearNext(r, db[r]) /\ files'[db[r]] = AllOf(g)
  <2>1. db[r] # 0 /\ Clear(r, db[r]) /\ files[db[r]] = AllOf(g)
    BY <1>10 DEF Finished
  <2>2. db'[r] = db[r]
    BY <1>10, <2>1 DEF Handled
  <2> QED
    BY <1>4, <1>5, <2>1, <2>2
<1>11. Seen(w)'
  <2> SUFFICES ASSUME NEW b \in Actors, Reader(w, b)'
               PROVE  /\ Clear(r, handle[b].db)'
                      /\ \E g \in Nat : files'[handle'[b].db] = AllOf(g)
                      /\ Writing(w)' => handle'[b].db # handle'[w].db
    BY DEF Seen, AllOf
  <2>1. CASE Reader(w, b) /\ handle'[b] = handle[b]
    <3>1. /\ Clear(r, handle[b].db) /\ \E g \in Nat : files[handle[b].db] = AllOf(g)
          /\ Writing(w) => handle[b].db # handle[w].db
          /\ RepoOf[b] = r /\ Holds(b)
      BY <2>1 DEF Lone, Seen, Reader
    <3>2. ClearNext(r, handle[b].db) /\ files'[handle[b].db] = files[handle[b].db]
      BY <1>3, <1>5, <3>1
    <3>3. Clear(r, handle[b].db)'
      BY <2>1, <3>2 DEF Clear, ClearNext
    <3> QED
      BY <1>8, <2>1, <3>1, <3>2, <3>3
  <2>2. CASE ~Lacking(r) /\ db'[r] = db[r] /\ handle'[b].db = db[r]
    <3>1. Finished(w, done[w]) /\ pc[w] \notin Filling /\ db[r] # 0
      BY <1>7, <2>2 DEF Finished
    <3>2. ClearNext(r, db[r]) /\ files'[db[r]] = AllOf(done[w])
      BY <1>10, <2>2, <3>1
    <3>3. Clear(r, handle[b].db)'
      BY <2>2, <3>2 DEF Clear, ClearNext
    <3>4. ~Writing(w)'
      BY <1>8, <3>1 DEF Writing, Filling
    <3>5. done[w] \in Nat
      BY DEF Lone, Ends
    <3> QED
      BY <2>2, <3>2, <3>3, <3>4, <3>5
  <2> QED
    BY <1>9, <2>1, <2>2
<1>12. Kept(w)'
  <2>1. CASE Lacking(r)
    BY <1>6, <2>1 DEF Kept
  <2>2. CASE ~Lacking(r) /\ db'[r] = 0
    <3>1. db[r] # 0
      BY <1>7, <2>2 DEF Finished
    <3>2. Lacking(r)'
      BY <2>2, <3>1 DEF Listed, Lacking
    <3> QED
      BY <3>2 DEF Kept
  <2>3. CASE ~Lacking(r) /\ db'[r] # 0
    <3>1. db'[r] = db[r] /\ ClearNext(r, db[r]) /\ files'[db[r]] = AllOf(done[w])
      BY <1>7, <1>10, <2>3
    <3>2. Finished(w, done[w])'
      BY <2>3, <3>1 DEF Finished, Clear, ClearNext, AllOf
    <3>3. pc'[w] \notin Filling \/ Lacking(r)'
      BY <1>7, <2>3 DEF Passes, Filling, Ending
    <3> QED
      BY <3>2, <3>3 DEF Kept
  <2> QED
    BY <2>1, <2>2, <2>3
<1>13. Own(w)'
  <2> SUFFICES ASSUME Reader(w, w)'
               PROVE  files'[handle'[w].db] = AllOf(done[w])
    BY DEF Own, AllOf
  <2>1. CASE Reader(w, w) /\ handle'[w] = handle[w]
    <3>1. Clear(r, handle[w].db) /\ files[handle[w].db] = AllOf(done[w]) /\ Holds(w)
      BY <2>1 DEF Lone, Seen, Own, Reader
    <3> QED
      BY <1>3, <1>5, <2>1, <3>1
  <2>2. CASE ~Lacking(r) /\ db'[r] = db[r] /\ handle'[w].db = db[r]
    <3>1. Finished(w, done[w]) /\ db[r] # 0
      BY <1>7, <2>2 DEF Finished
    <3> QED
      BY <1>10, <2>2, <3>1
  <2> QED
    BY <1>9, <2>1, <2>2
<1>14. \A l \in Logs(r)' : l \in Logs(r) \/ files'[l] = {}
  BY <1>1, LogsStay
<1>15. Logged(w)'
  <2> SUFFICES ASSUME NEW l \in Logs(r)'
               PROVE  files'[l] = {} \/ (Writing(w)' /\ l = handle'[w].wal) \/ pc'[w] = "dead"
    BY DEF Logged, Settled
  <2>1. CASE l \in Logs(r)
    <3>1. files[l] = {} \/ (Writing(w) /\ l = handle[w].wal) \/ pc[w] = "dead"
      BY <2>1 DEF Lone, Logged, Settled
    <3>2. files[l] = {} => files'[l] = {}
      BY <2>1 DEF Handled
    <3>3. pc[w] = "dead" => pc'[w] = "dead"
      BY DEF Passes, Ending
    <3>4. Writing(w) => (Writing(w)' /\ handle'[w] = handle[w]) \/ pc'[w] = "dead"
      BY DEF Passes, Writing, Ending
    <3> QED
      BY <3>1, <3>2, <3>3, <3>4
  <2> QED
    BY <1>14, <2>1
<1>16. Fresh(w)'
  <2>0. SUFFICES ASSUME pc'[w] \in {"wipe wal", "connect"}
                 PROVE  /\ \A b \in Actors : Reader(w, b)' => handle'[b].db # db'[r]
                        /\ db'[r] # 0 => files'[db'[r]] = {}
                        /\ pc'[w] = "connect" =>
                             \A b \in Actors : RepoOf[b] = r /\ handle'[b].wal = wal'[r] /\ wal'[r] # 0
                                               => handle'[b].db = db'[r]
    BY DEF Fresh
  <2>1. /\ pc[w] \in {"wipe", "wipe wal", "connect"}
        /\ pc[w] = "wipe" => db'[r] = 0
        /\ pc'[w] = "connect" => pc[w] = "connect" \/ wal'[r] = 0
    BY <2>0 DEF Passes, Filling, Ending
  <2>2. \A l \in Logs(r) : files[l] = {}
    BY <2>1 DEF Lone, Logged, Settled, Writing
  <2>3. \A d \in Dbs(r) : d \in 1..Len(files) => files'[d] = files[d]
    <3>1. ASSUME NEW d \in Dbs(r), d \in 1..Len(files)
          PROVE  Clear(r, d)
      <4>0. d # 0
        BY <1>2, <3>1
      <4>1. \A b \in Actors : RepoOf[b] = r /\ handle[b].db = d => handle[b].wal \in Logs(r)
        BY <1>3, <4>0 DEF Holds
      <4>2. wal[r] # 0 => wal[r] \in Logs(r)
        BY <1>1, HandlesAndNames
      <4> QED
        BY <2>2, <4>1, <4>2 DEF Clear
    <3> QED
      BY <1>5, <3>1
  <2>4. ASSUME NEW b \in Actors, Reader(w, b)', handle'[b].db = db'[r]
        PROVE  FALSE
    <3>0. Holds(b)'
      BY <2>4 DEF Reader
    <3>1. db'[r] # 0
      BY <2>4, <3>0 DEF Holds
    <3>2. pc[w] \in {"wipe wal", "connect"}
      BY <2>1, <3>1
    <3>3. Lacking(r)
      BY <1>7, <3>2 DEF Filling
    <3>4. Reader(w, b) /\ handle'[b] = handle[b]
      BY <1>9, <2>4, <3>3
    <3>5. handle[b].db # db[r] /\ RepoOf[b] = r /\ Holds(b)
      BY <3>2, <3>4 DEF Lone, Fresh, Reader
    <3>6. handle[b].db \in 1..Len(files)
      BY <1>3, <3>5
    <3> QED
      BY <2>4, <3>1, <3>4, <3>5, <3>6 DEF Handled, NewFile
  <2>5. ASSUME db'[r] # 0
        PROVE  files'[db'[r]] = {}
    <3>1. pc[w] \in {"wipe wal", "connect"}
      BY <2>1, <2>5
    <3>2. CASE db'[r] = db[r]
      <4>1. files[db[r]] = {}
        BY <2>5, <3>1, <3>2 DEF Lone, Fresh
      <4> QED
        BY <1>4, <2>3, <2>5, <3>2, <4>1
    <3> QED
      BY <2>5, <3>2 DEF Handled, NewFile
  <2>6. ASSUME pc'[w] = "connect", NEW b \in Actors, RepoOf[b] = r, handle'[b].wal = wal'[r], wal'[r] # 0
        PROVE  handle'[b].db = db'[r]
    <3>1. pc[w] = "connect"
      BY <2>1, <2>6
    <3>2. CASE handle'[b] = handle[b]
      <4>1. Holds(b)
        BY <1>1, <2>6, <3>2, HandlesAndNames
      <4>2. handle[b].wal \in 1..Len(files) /\ handle[b].db # 0
        BY <1>3, <2>6, <4>1
      <4>3. wal'[r] = wal[r]
        BY <2>6, <3>2, <4>2 DEF Handled, NewFile
      <4>4. handle[b].db = db[r]
        BY <2>6, <3>1, <3>2, <4>3 DEF Lone, Fresh
      <4>5. db[r] # 0 /\ (db'[r] = 0 => wal'[r] = 0)
        BY <3>1, <4>2, <4>4 DEF Listed
      <4> QED
        BY <2>6, <3>2, <4>4, <4>5 DEF Handled
    <3>3. CASE handle'[b] = Closed
      BY <2>6, <3>3 DEF Closed
    <3>4. CASE handle'[b] = [db |-> db'[r], wal |-> wal'[r]]
      BY <3>4
    <3> QED
      BY <2>6, <3>2, <3>3, <3>4 DEF Handled
  <2> QED
    BY <2>4, <2>5, <2>6
<1>17. Later(w) /\ run'[w] = run[w] => Later(w)'
  BY DEF Later, Listed
<1>18. ASSUME db[r] # 0, db'[r] = 0, run'[w] = run[w]
       PROVE  Later(w)'
  <2>1. \E e \in wiped' : e[1] = r /\ e[2] \in Nat /\ e[2] > gen
    BY <1>18 DEF Listed
  <2>2. run[w].since \in 0..gen /\ gen \in Nat
    BY DEF Laid, Counted
  <2>3. PICK e \in wiped' : e[1] = r /\ e[2] \in Nat /\ e[2] > gen
    BY <2>1
  <2>4. e[2] > run[w].since
    BY <2>2, <2>3
  <2> QED
    BY <1>18, <2>3, <2>4 DEF Later
<1>19. Filled(w)'
  <2> SUFFICES ASSUME Writing(w)'
               PROVE  /\ \E k \in 0..Batches : /\ Stored(w)' = {<<run'[w].gen, b>> : b \in 1..k}
                                               /\ pc'[w] = "close" => k = Batches
                      /\ \A b \in Actors : RepoOf[b] = r /\ handle'[b].wal = handle'[w].wal
                                           => handle'[b].db = handle'[w].db
                      /\ wal'[r] = handle'[w].wal => db'[r] = handle'[w].db
                      /\ Later(w)' \/ db'[r] = handle'[w].db
    BY DEF Filled
  <2>1. /\ Writing(w) /\ pc'[w] = pc[w] /\ run'[w] = run[w]
        /\ Stored(w)' = Stored(w) /\ handle'[w] = handle[w]
    BY <1>8
  <2>2. /\ \E k \in 0..Batches : /\ Stored(w) = {<<run[w].gen, b>> : b \in 1..k}
                                 /\ pc[w] = "close" => k = Batches
        /\ \A b \in Actors : RepoOf[b] = r /\ handle[b].wal = handle[w].wal => handle[b].db = handle[w].db
        /\ wal[r] = handle[w].wal => db[r] = handle[w].db
        /\ Later(w) \/ db[r] = handle[w].db
    BY <2>1 DEF Lone, Filled
  <2>3. Holds(w)
    BY <2>1 DEF Laid, Manned, Writing
  <2>4. handle[w].wal \in 1..Len(files) /\ handle[w].wal # 0 /\ handle[w].db # 0
    BY <1>3, <2>3
  <2>5. ASSUME wal'[r] = handle[w].wal
        PROVE  db'[r] = handle[w].db
    <3>1. wal'[r] = wal[r]
      BY <2>4, <2>5 DEF Handled, NewFile
    <3>2. db[r] = handle[w].db /\ db[r] # 0
      BY <2>2, <2>4, <2>5, <3>1
    <3>3. db'[r] # 0
      BY <2>1, <2>4, <2>5, <3>2 DEF Listed, Writing
    <3> QED
      BY <3>2, <3>3 DEF Handled
  <2>6. ASSUME NEW b \in Actors, RepoOf[b] = r, handle'[b].wal = handle[w].wal
        PROVE  handle'[b].db = handle[w].db
    <3>1. CASE handle'[b] = handle[b]
      BY <2>2, <2>6, <3>1
    <3>2. CASE handle'[b] = Closed
      BY <2>4, <2>6, <3>2 DEF Closed
    <3>3. CASE handle'[b] = [db |-> db'[r], wal |-> wal'[r]]
      BY <2>5, <2>6, <3>3
    <3> QED
      BY <2>6, <3>1, <3>2, <3>3 DEF Handled
  <2>7. Later(w)' \/ db'[r] = handle[w].db
    <3>1. CASE db[r] = handle[w].db
      <4>1. db'[r] = db[r] \/ db'[r] = 0
        BY <2>4, <3>1 DEF Handled
      <4> QED
        BY <1>18, <2>1, <2>4, <3>1, <4>1
    <3> QED
      BY <1>17, <2>1, <2>2, <3>1
  <2> QED
    BY <2>1, <2>2, <2>5, <2>6, <2>7
<1>20. Stays(w)'
  <2> SUFFICES ASSUME pc'[w] \in Ending
               PROVE  Later(w)' \/ (Finished(w, run[w].gen)' /\ run'[w] = run[w])
    BY DEF Stays, Finished, AllOf
  <2>1. pc[w] \in Ending /\ run'[w] = run[w]
    BY DEF Passes, Ending, Filling
  <2>2. CASE Later(w)
    BY <1>17, <2>1, <2>2
  <2>3. CASE Finished(w, run[w].gen) /\ db'[r] = 0
    <3>1. db[r] # 0
      BY <2>3 DEF Finished
    <3> QED
      BY <1>18, <2>1, <2>3, <3>1
  <2>4. CASE Finished(w, run[w].gen) /\ db'[r] # 0
    <3>1. db'[r] = db[r] /\ ClearNext(r, db[r]) /\ files'[db[r]] = AllOf(run[w].gen)
      BY <1>10, <2>4
    <3>2. Finished(w, run[w].gen)'
      BY <2>1, <2>4, <3>1 DEF Finished, Clear, ClearNext, AllOf
    <3> QED
      BY <2>1, <3>2
  <2> QED
    BY <2>1, <2>2, <2>3, <2>4 DEF Lone, Stays
<1>21. Indexed(w)'
  <2>1. /\ index'[r] = index[r] \/ (done[w] = 0 /\ pc'[w] \notin Ending \union {"close"})
        /\ done'[w] = done[w]
    OBVIOUS
  <2>2. pc'[w] \in Ending \union {"close"} => pc[w] \in Ending \union {"close"} /\ run'[w] = run[w]
    BY DEF Passes, Ending, Filling
  <2>3. pc'[w] \notin Ending \union {"close", "dead"} /\ Role[w] = "shell"
          => pc[w] \notin Ending \union {"close", "dead"}
    BY DEF Passes, Ending, Filling
  <2> QED
    BY <2>1, <2>2, <2>3 DEF Lone, Indexed
<1>22. Ends(w)'
  BY DEF Lone, Ends
<1> QED
  BY <1>11, <1>12, <1>13, <1>15, <1>16, <1>19, <1>20, <1>21, <1>22 DEF Lone

\* Whose steps are of that kind: closing ...
LEMMA CloseIsHandled ==
    ASSUME Shaped, Laid, NEW w \in Actors, Lone(w), NEW a \in Actors, RepoOf[a] = RepoOf[w], Close(a)
    PROVE  /\ Handled(RepoOf[w])
           /\ Writing(w) /\ a # w => Stored(w)' = Stored(w) /\ handle'[w] = handle[w]
           /\ handle'[a] = Closed /\ db' = db
<1> DEFINE r == RepoOf[w]
<1>0. Numbered /\ Parted /\ r \in Repos
  BY RegistryAssumption DEF Laid
<1>1. CASE ~Holds(a)
  <2>1. handle[a] = Closed
    BY <1>0, <1>1, HandlesAndNames
  <2>2. UNCHANGED <<files, db, wal, handle>>
    BY <2>1 DEF Close, Shaped
  <2> QED
    BY <2>1, <2>2 DEF Handled, Stored, Content
<1>2. CASE Holds(a)
  <2> DEFINE d == handle[a].db
             l == handle[a].wal
  <2>1. /\ d \in 1..Len(files) /\ l \in 1..Len(files) /\ d # l /\ d \in Dbs(r) /\ l \in Logs(r)
        /\ db' = db /\ handle'[a] = Closed
        /\ \A b \in Actors \ {a} : handle'[b] = handle[b]
        /\ files'[d] = files[d] \union files[l] /\ files'[l] = {}
        /\ \A f \in 1..Len(files) : f # d /\ f # l => files'[f] = files[f]
        /\ \A s \in Repos : wal'[s] = wal[s] \/ (wal'[s] = 0 /\ s = r)
    BY <1>0, <1>2, Closes, Zenon
  <2>2. \A f \in Dbs(r) : f # l /\ f \in 1..Len(files)
    BY <1>0, <2>1, DbsAndLogs DEF Parted
  <2>3. \A f \in Logs(r) : f # d /\ f \in 1..Len(files)
    BY <1>0, <2>1, DbsAndLogs DEF Parted
  <2>4. \A f \in Logs(r) : files'[f] \in {files[f], {}}
    BY <2>1, <2>3
  <2>5. ASSUME NEW f \in Dbs(r), Clear(r, f)
        PROVE  files'[f] = files[f]
    <3>1. f = d => files[l] = {}
      BY <2>5 DEF Clear
    <3> QED
      BY <2>1, <2>2, <3>1
  <2>6. Handled(r)
    BY <1>0, <2>1, <2>4, <2>5 DEF Handled
  <2>7. ASSUME Writing(w), a # w
        PROVE  Stored(w)' = Stored(w) /\ handle'[w] = handle[w]
    <3> DEFINE D == handle[w].db
               L == handle[w].wal
    <3>1. handle'[w] = handle[w] /\ Holds(w)
      BY <2>1, <2>7 DEF Laid, Manned, Writing
    <3>2. D \in Dbs(r) /\ L \in Logs(r)
      BY <1>0, <3>1, HandlesAndNames
    <3>3. D # l /\ L # d /\ D \in 1..Len(files) /\ L \in 1..Len(files)
      BY <2>2, <2>3, <3>2
    <3>4. files[l] = {} \/ l = L
      BY <2>1, <2>7 DEF Lone, Logged, Settled, Writing
    <3>5. l = L => d = D
      BY <2>7 DEF Lone, Filled
    <3>6. files'[D] \union files'[L] = files[D] \union files[L]
      BY <2>1, <3>3, <3>4, <3>5
    <3> QED
      BY <3>1, <3>6 DEF Stored, Content
  <2> QED
    BY <2>1, <2>6, <2>7
<1> QED
  BY <1>1, <1>2

\* ... opening ...
LEMMA OpenIsHandled ==
    ASSUME Shaped, Laid, NEW w \in Actors, NEW a \in Actors, RepoOf[a] = RepoOf[w], Open(a), ~Holds(a)
    PROVE  /\ Handled(RepoOf[w]) /\ db'[RepoOf[w]] # 0
           /\ Writing(w) => Stored(w)' = Stored(w) /\ handle'[w] = handle[w]
           /\ \A b \in Actors \ {a} : Holds(b)' <=> Holds(b)
<1> DEFINE r == RepoOf[w]
           d == db'[r]
           l == wal'[r]
<1>0. Numbered /\ Parted /\ r \in Repos
  BY RegistryAssumption DEF Laid
<1>1. /\ handle'[a] = [db |-> d, wal |-> l] /\ d # 0 /\ l # 0
      /\ \A b \in Actors \ {a} : handle'[b] = handle[b] /\ (Holds(b)' <=> Holds(b))
      /\ d = db[r] \/ (db[r] = 0 /\ d \notin 1..Len(files) /\ files'[d] = {})
      /\ l = wal[r] \/ (wal[r] = 0 /\ l \notin 1..Len(files) /\ files'[l] = {})
      /\ \A f \in 1..Len(files) : files'[f] = files[f]
      /\ Dbs(r) \subseteq 1..Len(files) /\ Logs(r) \subseteq 1..Len(files)
  <2>1. LET e == db'[RepoOf[a]] m == wal'[RepoOf[a]]
        IN /\ handle'[a] = [db |-> e, wal |-> m] /\ e # 0 /\ m # 0
           /\ \A b \in Actors \ {a} : handle'[b] = handle[b] /\ (Holds(b)' <=> Holds(b))
           /\ e = db[RepoOf[a]] \/ (db[RepoOf[a]] = 0 /\ e \notin 1..Len(files) /\ files'[e] = {})
           /\ m = wal[RepoOf[a]] \/ (wal[RepoOf[a]] = 0 /\ m \notin 1..Len(files) /\ files'[m] = {})
           /\ \A f \in 1..Len(files) : files'[f] = files[f]
    BY <1>0, Opens, Zenon
  <2> QED
    BY <1>0, <2>1, DbsAndLogs
<1>2. Handled(r)
  <2>1. \A f \in Logs(r) : files'[f] \in {files[f], {}}
    BY <1>1
  <2>2. \A f \in Dbs(r) : files'[f] = files[f]
    BY <1>1
  <2>3. d = db[r] \/ (db[r] = 0 /\ NewFile(d))
    BY <1>1 DEF NewFile
  <2>4. l = wal[r] \/ (wal[r] = 0 /\ NewFile(l))
    BY <1>1 DEF NewFile
  <2>5. \A b \in Actors : \/ handle'[b] = handle[b]
                          \/ ~Holds(b) /\ handle'[b] = [db |-> d, wal |-> l] /\ d # 0 /\ l # 0
    BY <1>1
  <2> QED
    BY <2>1, <2>2, <2>3, <2>4, <2>5 DEF Handled
<1>3. ASSUME Writing(w)
      PROVE  Stored(w)' = Stored(w) /\ handle'[w] = handle[w]
  <2>1. Holds(w)
    BY <1>3 DEF Laid, Manned, Writing
  <2>2. handle'[w] = handle[w]
    BY <1>1, <2>1
  <2>3. handle[w].db \in 1..Len(files) /\ handle[w].wal \in 1..Len(files)
    BY <1>0, <2>1, HandlesAndNames
  <2> QED
    BY <1>1, <2>2, <2>3 DEF Stored, Content
<1> QED
  BY <1>1, <1>2, <1>3

\* ... dying, removing and leaving alone.
LEMMA RestIsHandled ==
    ASSUME NEW w \in Actors, files' = files, NEW a \in Actors,
           handle' = handle \/ (Shaped /\ handle' = [handle EXCEPT ![a] = Closed]),
           db'[RepoOf[w]] \in {db[RepoOf[w]], 0}, wal'[RepoOf[w]] \in {wal[RepoOf[w]], 0}
    PROVE  /\ Handled(RepoOf[w])
           /\ handle' = handle \/ a # w => Stored(w)' = Stored(w) /\ handle'[w] = handle[w]
<1>1. \A b \in Actors : handle'[b] = handle[b] \/ (b = a /\ handle'[b] = Closed)
  BY DEF Shaped
<1>2. Handled(RepoOf[w])
  BY <1>1 DEF Handled
<1> QED
  BY <1>1, <1>2 DEF Stored, Content

\* An actor's step, its files and its marks at once.
LEMMA StepIsOne ==
    ASSUME Shaped, Hands, NEW a \in Actors, Step(a), ~Connect(a), ~Finish(a), ~WriteBatch(a)
    PROVE  /\ wiped \subseteq wiped' /\ done' = done
           /\ \/ OpenNow(a) /\ ~Holds(a)
              \/ early' = early /\ (UNCHANGED Named \/ Close(a) \/ Drop(a) \/ UnlinkWal(a))
              \/ early' = early /\ WipeDb(a)
<1>1. wiped \subseteq wiped' /\ done' = done
  BY DEF Step, Hit, Start, WipeDb, WipeWal, WriteIndex, CloseGraph, WriteShim, LoseShim, Record, LoadRegistry,
     TruncateRegistry, Locked, Collide, Die, CallOpen, ToolRelease, ToolOpen, ReadClose, CannotOpen, Ask, AskHeld,
     PruneLoad, PruneLook, PruneSave
<1>2. \/ OpenNow(a) /\ ~Holds(a)
      \/ early' = early /\ (UNCHANGED Named \/ Close(a) \/ Drop(a) \/ UnlinkWal(a))
      \/ early' = early /\ WipeDb(a)
  <2>1. CASE CallOpen(a) \/ ToolOpen(a) \/ Ask(a)
    BY <2>1 DEF Hands, Handless, Goes, CallOpen, ToolOpen, Ask
  <2>2. CASE WipeDb(a)
    BY <2>2 DEF WipeDb
  <2>3. CASE \/ Start(a) \/ WipeWal(a) \/ CloseGraph(a) \/ Collide(a) \/ Die(a)
             \/ ToolRelease(a) \/ ReadClose(a)
    BY <2>3 DEF Named, Start, WipeWal, CloseGraph, Collide, Die, ToolRelease, ReadClose
  <2>4. CASE \/ Hit(a) \/ WriteIndex(a) \/ WriteShim(a) \/ LoseShim(a) \/ Record(a) \/ LoadRegistry(a) \/ TruncateRegistry(a)
             \/ Locked(a) \/ CannotOpen(a) \/ AskHeld(a) \/ PruneLoad(a) \/ PruneLook(a) \/ PruneSave(a)
    BY <2>4 DEF Named, BuildIndex, Hit, WriteIndex, WriteShim, LoseShim, Record, LoadRegistry, TruncateRegistry, Locked,
       CannotOpen, AskHeld, PruneLoad, PruneLook, PruneSave
  <2> QED
    BY <2>1, <2>2, <2>3, <2>4 DEF Step
<1> QED
  BY <1>1, <1>2

LEMMA StepIsHandled ==
    ASSUME Shaped, Hands, Laid, NEW w \in Actors, Lone(w), Sole(w), NEW a \in Actors, RepoOf[a] = RepoOf[w],
           Step(a), ~Connect(a), ~Finish(a), ~WriteBatch(a)
    PROVE  /\ Handled(RepoOf[w]) /\ Marked(RepoOf[w]) /\ Listed(w)
           /\ Writing(w) /\ a # w => Stored(w)' = Stored(w) /\ handle'[w] = handle[w]
<1> DEFINE r == RepoOf[w]
<1>1. r \in Repos /\ gen \in Nat
  BY RegistryAssumption DEF Laid, Counted
<1>2. wiped \subseteq wiped'
  BY StepIsOne
<1>3. CASE OpenNow(a) /\ ~Holds(a)
  <2>1. Open(a) /\ early' = IF Lacking(r) THEN early \union {a} ELSE early \ {a}
    BY <1>3 DEF OpenNow
  <2>2. /\ Handled(r) /\ db'[r] # 0
        /\ Writing(w) => Stored(w)' = Stored(w) /\ handle'[w] = handle[w]
        /\ \A b \in Actors \ {a} : Holds(b)' <=> Holds(b)
    BY <1>3, <2>1, OpenIsHandled, Zenon
  <2>3. Marked(r)
    BY <1>3, <2>1, <2>2 DEF Marked
  <2>4. Listed(w)
    BY <1>2, <2>2 DEF Listed
  <2> QED
    BY <2>2, <2>3, <2>4
<1>4. ASSUME early' = early, \A b \in Actors : Holds(b)' => Holds(b)
      PROVE  Marked(r)
  BY <1>4 DEF Marked
<1>5. CASE early' = early /\ Close(a)
  <2>1. /\ Handled(r) /\ db' = db /\ handle'[a] = Closed
        /\ Writing(w) /\ a # w => Stored(w)' = Stored(w) /\ handle'[w] = handle[w]
    BY <1>5, CloseIsHandled
  <2>2. \A b \in Actors : Holds(b)' => Holds(b)
    BY <2>1, OthersKeep DEF Holds, Closed
  <2>3. Listed(w)
    BY <1>2, <2>1 DEF Listed
  <2> QED
    BY <1>4, <1>5, <2>1, <2>2, <2>3
<1>6. CASE early' = early /\ WipeDb(a)
  <2>1. /\ files' = files /\ handle' = handle /\ wal' = wal /\ db'[r] = 0 /\ pc[a] = "wipe"
        /\ <<r, gen + 1>> \in wiped'
    BY <1>1, <1>6 DEF WipeDb, UnlinkDb, Laid, Numbered, Goes
  <2>2. Handled(r) /\ (Writing(w) => Stored(w)' = Stored(w) /\ handle'[w] = handle[w])
    BY <2>1, RestIsHandled
  <2>3. a = w
    <3>1. a \in Playing /\ Role[a] \in {"extract", "shell"}
      BY <2>1 DEF Laid, Players, Manned, Working
    <3> QED
      BY <3>1 DEF Sole, FillersOf
  <2>4. \E e \in wiped' : e[1] = r /\ e[2] \in Nat /\ e[2] > gen
    BY <1>1, <2>1
  <2>5. Listed(w)
    BY <1>2, <2>1, <2>3, <2>4 DEF Listed
  <2> QED
    BY <1>4, <1>6, <2>1, <2>2, <2>5 DEF Holds
<1>7. CASE early' = early /\ (UNCHANGED Named \/ Drop(a) \/ UnlinkWal(a))
  <2>1. /\ files' = files /\ db' = db
        /\ wal'[r] \in {wal[r], 0}
        /\ handle' = handle \/ handle' = [handle EXCEPT ![a] = Closed]
    BY <1>1, <1>7 DEF Named, Drop, UnlinkWal, Laid, Numbered
  <2>2. Handled(r) /\ (a # w => Stored(w)' = Stored(w) /\ handle'[w] = handle[w])
    BY <2>1, RestIsHandled
  <2>3. \A b \in Actors : Holds(b)' => Holds(b)
    BY <2>1 DEF Shaped, Holds, Closed
  <2>4. Listed(w)
    BY <1>2, <2>1 DEF Listed
  <2> QED
    BY <1>4, <1>7, <2>2, <2>3, <2>4
<1> QED
  BY <1>3, <1>5, <1>6, <1>7, StepIsOne

\* Another actor at work on the repository.
LEMMA OthersKeepLone ==
    ASSUME Shaped, Hands, Laid, NEW w \in Actors, Lone(w), Sole(w), NEW a \in Actors, RepoOf[a] = RepoOf[w],
           Step(a), a # w
    PROVE  Lone(w)'
<1>1. a \in Playing /\ run'[w] = run[w]
  BY GenSteps DEF Laid, Counted
<1>2. Role[a] \notin {"extract", "shell"}
  BY <1>1 DEF Sole, FillersOf
<1>3. pc[a] \notin Working
  BY <1>2 DEF Laid, Manned
<1>4. /\ ~Connect(a) /\ ~Finish(a) /\ ~WriteBatch(a) /\ ~WriteIndex(a) /\ ~AskHeld(a)
      /\ index' = index
  BY <1>2, <1>3 DEF Working, Goes, Open, OpenNow, Close, Step, Hit, Start, WipeDb, WipeWal, Connect, WriteBatch,
     WriteIndex, CloseGraph, WriteShim, LoseShim, Record, LoadRegistry, TruncateRegistry, Finish, Locked, Collide, Die,
     CallOpen, ToolRelease, ToolOpen, ReadClose, CannotOpen, Ask, AskHeld, PruneLoad, PruneLook, PruneSave
<1>5. done' = done
  BY <1>4, StepIsOne
<1>6. pc'[w] = pc[w]
  BY OthersKeep
<1>7. /\ Handled(RepoOf[w]) /\ Marked(RepoOf[w]) /\ Listed(w)
      /\ Writing(w) => Stored(w)' = Stored(w) /\ handle'[w] = handle[w]
  BY <1>4, StepIsHandled
<1>8. Passes(w)
  BY <1>1, <1>6 DEF Passes
<1>9. Writing(w)' => Writing(w)
  BY <1>6 DEF Writing
<1> QED
  BY <1>4, <1>5, <1>7, <1>8, <1>9, LoneKeeps

\* What the filler does besides opening, filling, closing and finishing.
LEMMA RestOfLone ==
    ASSUME Shaped, Hands, Laid, NEW w \in Actors, Lone(w), Sole(w), Step(w), ~Connect(w), ~Finish(w),
           ~WriteBatch(w), ~WriteIndex(w), ~CloseGraph(w), ~Collide(w)
    PROVE  Lone(w)'
<1> DEFINE r == RepoOf[w]
<1>1. /\ Handled(r) /\ Marked(r) /\ Listed(w)
  BY StepIsHandled
<1>2. done' = done
  BY StepIsOne
<1>3. run'[w] = run[w] \/ Hit(w) \/ Start(w)
  BY DEF Step, Hit, Start, WipeDb, WipeWal, WriteShim, LoseShim, Record, LoadRegistry, TruncateRegistry, Locked, Die, CallOpen,
     ToolRelease, ToolOpen, ReadClose, CannotOpen, Ask, AskHeld, PruneLoad, PruneLook, PruneSave
<1>4. Passes(w) /\ ~Writing(w)'
  <2>1. CASE Die(w)
    BY <2>1 DEF Die, Drop, Shaped, Passes, Writing
  <2>2. CASE WipeDb(w)
    <3>1. r \in Repos
      BY RegistryAssumption
    <3>2. db'[r] = 0 /\ pc[w] = "wipe" /\ pc'[w] = "wipe wal"
      BY <2>2, <3>1 DEF WipeDb, UnlinkDb, Goes, Shaped, Laid, Numbered
    <3>3. Lacking(r)'
      <4>1. <<r, gen + 1>> \in wiped'
        BY <2>2 DEF WipeDb
      <4> QED
        BY <4>1 DEF Lacking
    <3> QED
      BY <3>2, <3>3 DEF Passes, Writing
  <2>3. CASE WipeWal(w)
    <3>1. r \in Repos
      BY RegistryAssumption
    <3>2. wal'[r] = 0 /\ pc[w] = "wipe wal" /\ pc'[w] = "connect"
      BY <2>3, <3>1 DEF WipeWal, UnlinkWal, Goes, Shaped, Laid, Numbered
    <3> QED
      BY <3>2 DEF Passes, Writing
  <2>4. CASE LoseShim(w)
    <3>1. Holds(w) <=> Holds(w)'
      BY <2>4 DEF LoseShim, Holds
    <3>2. ~Holds(w) /\ pc[w] \in Ending /\ pc'[w] = Ended(w)
      BY <2>4 DEF LoseShim, Hands, Handless, Ending, Shaped
    <3>3. handle'[w] = Closed
      BY <2>4, <3>2, HandlesAndNames DEF LoseShim, Laid
    <3> QED
      BY <3>2, <3>3 DEF Passes, Writing, Ended
  <2>5. CASE ~Die(w) /\ ~WipeDb(w) /\ ~WipeWal(w) /\ ~LoseShim(w)
    <3>1. \/ pc[w] \in Ending /\ pc'[w] \in Ending /\ run'[w] = run[w]
          \/ pc[w] \notin Ending \union {"write", "close", "dead"} /\ pc'[w] \notin Filling
      BY <2>5 DEF Shaped, Ending, Filling, Ended, Goes, Step, Hit, Start, WriteShim, Record, LoadRegistry,
         TruncateRegistry, Locked, CallOpen, ToolRelease, ToolOpen, ReadClose, CannotOpen, Ask, AskHeld, PruneLoad,
         PruneLook, PruneSave
    <3> QED
      BY <3>1 DEF Passes, Writing, Ending, Filling
  <2> QED
    BY <2>1, <2>2, <2>3, <2>4, <2>5
<1>5. index'[r] = index[r] \/ (done[w] = 0 /\ pc'[w] \notin Ending \union {"close"})
  <2>1. CASE AskHeld(w)
    <3>1. pc[w] = "idle" /\ pc'[w] = "idle" /\ (index[r] = Absent \/ index' = index)
      BY <2>1 DEF AskHeld
    <3>2. done[w] # 0 => index[r] # Absent
      BY <2>1, <3>1 DEF AskHeld, Lone, Indexed, Ending, Absent
    <3> QED
      BY <3>1, <3>2 DEF Ending
  <2>2. CASE ~AskHeld(w)
    BY <2>2 DEF Open, OpenNow, Close, Drop, UnlinkDb, UnlinkWal, Step, Hit, Start, WipeDb, WipeWal, WriteShim, LoseShim, Record,
       LoadRegistry, TruncateRegistry, Locked, Die, CallOpen, ToolRelease, ToolOpen, ReadClose, CannotOpen, Ask,
       PruneLoad, PruneLook, PruneSave
  <2> QED
    BY <2>1, <2>2
<1> QED
  BY <1>1, <1>2, <1>4, <1>5, LoneKeeps

\* It opens the graph: an empty one.
LEMMA ConnectKeepsLone ==
    ASSUME Shaped, Hands, Laid, NEW w \in Actors, Lone(w), Connect(w)
    PROVE  Lone(w)'
<1> DEFINE r == RepoOf[w]
           d == db'[r]
           l == wal'[r]
<1>1. /\ pc[w] = "connect" /\ pc'[w] = "write" /\ Open(w) /\ UNCHANGED <<early, wiped, done>> /\ index' = index
      /\ r \in Repos /\ Numbered
  BY RegistryAssumption DEF Connect, Goes, Shaped, Open, Laid
<1>2. ~Holds(w)
  BY <1>1 DEF Hands, Handless
<1>3. Handled(r) /\ d # 0
  BY <1>1, <1>2, OpenIsHandled
<1>4. /\ handle'[w] = [db |-> d, wal |-> l] /\ Holds(w)' /\ l # 0
      /\ \A b \in Actors \ {w} : handle'[b] = handle[b]
      /\ d = db[r] \/ (db[r] = 0 /\ NewFile(d))
      /\ l = wal[r] \/ (wal[r] = 0 /\ NewFile(l))
      /\ \A f \in 1..Len(files) : files'[f] = files[f]
  <2>1. LET e == db'[RepoOf[w]] m == wal'[RepoOf[w]]
        IN /\ handle'[w] = [db |-> e, wal |-> m] /\ e # 0 /\ m # 0
           /\ \A b \in Actors \ {w} : handle'[b] = handle[b] /\ (Holds(b)' <=> Holds(b))
           /\ e = db[RepoOf[w]] \/ (db[RepoOf[w]] = 0 /\ e \notin 1..Len(files) /\ files'[e] = {})
           /\ m = wal[RepoOf[w]] \/ (wal[RepoOf[w]] = 0 /\ m \notin 1..Len(files) /\ files'[m] = {})
           /\ \A f \in 1..Len(files) : files'[f] = files[f]
    BY <1>1, Opens, Zenon DEF Laid
  <2>2. Holds(w)'
    BY <2>1 DEF Holds
  <2> QED
    BY <2>1, <2>2 DEF NewFile
<1>5. Lacking(r) /\ Lacking(r)'
  BY <1>1 DEF Lone, Kept, Filling, Lacking
<1>6. \A m \in Logs(r) : files[m] = {}
  BY <1>1 DEF Lone, Logged, Settled, Writing
<1>7. /\ \A b \in Actors : Reader(w, b) => handle[b].db # db[r]
      /\ db[r] # 0 => files[db[r]] = {}
      /\ \A b \in Actors : RepoOf[b] = r /\ handle[b].wal = wal[r] /\ wal[r] # 0 => handle[b].db = db[r]
  BY <1>1 DEF Lone, Fresh
<1>8. ASSUME NEW b \in Actors, Reader(w, b)'
      PROVE  /\ b # w /\ handle'[b] = handle[b] /\ Reader(w, b)
             /\ handle[b].db \in 1..Len(files) /\ handle[b].db \in Dbs(r)
  <2>1. b # w
    BY <1>1, <1>8 DEF Reader, Writing
  <2>2. handle'[b] = handle[b] /\ Reader(w, b)
    BY <1>1, <1>4, <1>8, <2>1 DEF Reader, Holds
  <2> QED
    BY <1>1, <2>1, <2>2, HandlesAndNames DEF Reader
<1>9. Seen(w)'
  <2> SUFFICES ASSUME NEW b \in Actors, Reader(w, b)'
               PROVE  /\ Clear(r, handle[b].db)'
                      /\ \E g \in Nat : files'[handle'[b].db] = AllOf(g)
                      /\ handle'[b].db # d
    BY <1>4 DEF Seen, AllOf
  <2>1. /\ handle'[b] = handle[b] /\ Clear(r, handle[b].db)
        /\ \E g \in Nat : files[handle[b].db] = AllOf(g)
    BY <1>8 DEF Lone, Seen
  <2>2. ClearNext(r, handle[b].db) /\ files'[handle[b].db] = files[handle[b].db]
    BY <1>1, <1>3, <1>8, <2>1, ClearStays
  <2>3. Clear(r, handle[b].db)'
    BY <2>1, <2>2 DEF Clear, ClearNext
  <2>4. handle[b].db # d
    BY <1>4, <1>7, <1>8 DEF NewFile
  <2> QED
    BY <2>1, <2>2, <2>3, <2>4
<1>10. Logged(w)'
  <2>1. \A m \in Logs(r)' : m \in Logs(r) \/ files'[m] = {}
    BY <1>1, <1>3, LogsStay
  <2>2. \A m \in Logs(r) : files'[m] = {}
    BY <1>1, <1>4, <1>6, DbsAndLogs
  <2> QED
    BY <2>1, <2>2 DEF Logged, Settled
<1>11. Filled(w)'
  <2>1. files'[d] = {}
    <3>1. db[r] # 0 => db[r] \in 1..Len(files)
      BY <1>1, HandlesAndNames
    <3> QED
      BY <1>3, <1>4, <1>7, <3>1 DEF NewFile
  <2>2. files'[l] = {}
    <3>1. wal[r] # 0 => wal[r] \in 1..Len(files) /\ wal[r] \in Logs(r)
      BY <1>1, HandlesAndNames
    <3> QED
      BY <1>4, <1>6, <3>1 DEF NewFile
  <2>3. ASSUME NEW b \in Actors, RepoOf[b] = r, handle'[b].wal = l
        PROVE  handle'[b].db = d
    <3>1. CASE b = w
      BY <1>4, <3>1
    <3>2. CASE b # w
      <4>1. handle'[b] = handle[b] /\ handle[b].wal = l
        BY <1>4, <2>3, <3>2
      <4>2. handle[b].db # 0 /\ l \in 1..Len(files)
        BY <1>1, <1>4, <4>1, HandlesAndNames
      <4>3. wal[r] = l
        BY <1>4, <4>2 DEF NewFile
      <4>4. handle[b].db = db[r]
        BY <1>4, <1>7, <2>3, <4>1, <4>3
      <4> QED
        BY <1>4, <4>1, <4>2, <4>4
    <3> QED
      BY <3>1, <3>2
  <2>4. Stored(w)' = {<<run'[w].gen, b>> : b \in 1..0}
    BY <1>4, <2>1, <2>2 DEF Stored, Content
  <2>5. 0 \in 0..Batches /\ pc'[w] # "close"
    BY <1>1, FileAssumption
  <2> QED
    BY <1>4, <2>3, <2>4, <2>5 DEF Filled
<1>12. Kept(w)' /\ Own(w)' /\ Fresh(w)' /\ Stays(w)' /\ Indexed(w)' /\ Ends(w)'
  <2>1. Kept(w)' /\ Own(w)'
    BY <1>1, <1>5, <1>8 DEF Kept, Own
  <2>2. Fresh(w)' /\ Stays(w)'
    BY <1>1 DEF Fresh, Stays, Ending
  <2>3. Indexed(w)' /\ Ends(w)'
    BY <1>1 DEF Lone, Indexed, Ends, Ending
  <2> QED
    BY <2>1, <2>2, <2>3
<1> QED
  BY <1>9, <1>10, <1>11, <1>12 DEF Lone

\* While it fills the graph its store has the first batches of its own, and no others.
LEMMA WhatIsWritten ==
    ASSUME Laid, NEW w \in Actors, Writing(w), NEW k \in 0..Batches,
           Stored(w) = {<<run[w].gen, b>> : b \in 1..k}
    PROVE  /\ Written(w) = 1..k /\ Cardinality(Written(w)) = k
           /\ Written(w) # 1..Batches => k + 1 \in 1..Batches /\ ~Collides(w, k + 1)
<1>1. k \in Nat /\ Batches \in Nat \ {0}
  BY FileAssumption
<1>2. Written(w) = 1..k
  <2>1. ASSUME NEW b \in 1..k
        PROVE  b \in Written(w)
    <3> DEFINE x == <<run[w].gen, b>>
    <3>1. x \in Stored(w) /\ x[1] = run[w].gen /\ x[2] = b
      OBVIOUS
    <3> HIDE DEF x
    <3> QED
      BY <3>1 DEF Written
  <2>2. ASSUME NEW b \in Written(w)
        PROVE  b \in 1..k
    BY DEF Written
  <2> QED
    BY <2>1, <2>2
<1>3. Cardinality(1..k) = k
  BY <1>1, FS_Interval
<1>4. ASSUME NEW x \in Stored(w)
      PROVE  x[2] # k + 1
  BY <1>1
<1> QED
  BY <1>1, <1>2, <1>3, <1>4 DEF Collides

LEMMA NoCollision ==
    ASSUME Laid, NEW w \in Actors, Lone(w)
    PROVE  ~Collide(w)
<1> SUFFICES ASSUME Collide(w)
             PROVE  FALSE
  OBVIOUS
<1>1. Writing(w) /\ Written(w) # 1..Batches /\ Collides(w, Cardinality(Written(w)) + 1)
  BY DEF Collide, Writing
<1>2. PICK k \in 0..Batches : Stored(w) = {<<run[w].gen, b>> : b \in 1..k}
  BY <1>1 DEF Lone, Filled
<1> QED
  BY <1>1, <1>2, WhatIsWritten

\* Its log is nobody's who reads.
LEMMA BatchKeepsLone ==
    ASSUME Shaped, Hands, Laid, NEW w \in Actors, Lone(w), WriteBatch(w)
    PROVE  Lone(w)'
<1> DEFINE r == RepoOf[w]
           d == handle[w].db
           l == handle[w].wal
<1>1. /\ Holds(w) /\ pc[w] = "write" /\ UNCHANGED <<db, wal, handle, local>> /\ Numbered /\ Parted
      /\ files'[l] = files[l] \union {<<run[w].gen, Cardinality(Written(w)) + 1>>}
      /\ \A f \in 1..Len(files) : f # l => files'[f] = files[f]
      /\ index' = index /\ r \in Repos /\ Written(w) # 1..Batches
  <2>1. /\ Holds(w) /\ pc[w] = "write" /\ UNCHANGED <<db, wal, handle, local>>
        /\ files'[handle[w].wal] = files[handle[w].wal] \union {<<run[w].gen, Cardinality(Written(w)) + 1>>}
        /\ \A f \in 1..Len(files) : f # handle[w].wal => files'[f] = files[f]
    BY BatchIsLaid, Zenon
  <2>2. index' = index /\ r \in Repos /\ Written(w) # 1..Batches
    BY RegistryAssumption DEF WriteBatch, Insert
  <2> QED
    BY <2>1, <2>2 DEF Laid
<1>2. /\ d \in 1..Len(files) /\ l \in 1..Len(files) /\ d \in Dbs(r) /\ l \in Logs(r) /\ d # 0 /\ l # 0
  BY <1>1, HandlesAndNames
<1>3. \A f \in Dbs(r) : f # l /\ f \in 1..Len(files) /\ files'[f] = files[f]
  BY <1>1, <1>2, DbsAndLogs DEF Parted
<1>4. /\ \A b \in Actors : RepoOf[b] = r /\ handle[b].wal = l => handle[b].db = d
      /\ wal[r] = l => db[r] = d
      /\ Later(w) \/ db[r] = d
  BY <1>1 DEF Lone, Filled, Writing
<1>5. PICK k \in 0..Batches : Stored(w) = {<<run[w].gen, b>> : b \in 1..k}
  BY <1>1 DEF Lone, Filled, Writing
<1>6. Writing(w) /\ Writing(w)' /\ \A b \in Actors : Reader(w, b)' <=> Reader(w, b)
  BY <1>1 DEF Writing, Reader, Holds
<1>7. ASSUME NEW f \in Dbs(r), f # d, Clear(r, f)
      PROVE  Clear(r, f)'
  <2>1. ASSUME NEW b \in Actors, RepoOf[b] = r, handle[b].db = f
        PROVE  files'[handle[b].wal] = {}
    <3>1. handle[b].wal # l /\ files[handle[b].wal] = {}
      BY <1>4, <1>7, <2>1 DEF Clear
    <3>2. f # 0
      BY <1>3, <1>7 DEF Dbs
    <3>3. Holds(b)
      BY <2>1, <3>2 DEF Holds
    <3>4. handle[b].wal \in 1..Len(files)
      BY <1>1, <3>3, HandlesAndNames
    <3> QED
      BY <1>1, <3>1, <3>4
  <2>2. ASSUME db[r] = f, wal[r] # 0
        PROVE  files'[wal[r]] = {}
    <3>1. wal[r] # l /\ files[wal[r]] = {}
      BY <1>4, <1>7, <2>2 DEF Clear
    <3>2. wal[r] \in Logs(r)
      BY <1>1, <2>2, HandlesAndNames
    <3> QED
      BY <1>1, <3>1, <3>2, DbsAndLogs
  <2> QED
    BY <1>1, <2>1, <2>2 DEF Clear
<1>8. Seen(w)'
  <2> SUFFICES ASSUME NEW b \in Actors, Reader(w, b)
               PROVE  /\ Clear(r, handle[b].db)'
                      /\ \E g \in Nat : files'[handle[b].db] = AllOf(g)
                      /\ handle[b].db # d
    BY <1>1, <1>6 DEF Seen, AllOf
  <2>1. /\ Clear(r, handle[b].db) /\ handle[b].db # d
        /\ \E g \in Nat : files[handle[b].db] = AllOf(g)
        /\ RepoOf[b] = r /\ Holds(b)
    BY <1>6 DEF Lone, Seen, Reader
  <2>2. handle[b].db \in Dbs(r)
    BY <1>1, <2>1, HandlesAndNames
  <2>3. Clear(r, handle[b].db)'
    BY <1>1, <1>7, <2>1, <2>2 DEF Clear
  <2> QED
    BY <1>3, <2>1, <2>2, <2>3
<1>9. Logged(w)'
  <2>1. Logs(r)' = Logs(r)
    BY <1>1 DEF Logs
  <2>2. ASSUME NEW m \in Logs(r), m # l
        PROVE  files'[m] = {}
    <3>1. files[m] = {}
      BY <1>1, <2>2 DEF Lone, Logged, Settled
    <3> QED
      BY <1>1, <2>2, <3>1, DbsAndLogs
  <2> QED
    BY <1>1, <1>6, <2>1, <2>2 DEF Logged, Settled
<1>10. Filled(w)'
  <2>1. k + 1 \in 0..Batches /\ Cardinality(Written(w)) = k
    BY <1>1, <1>5, <1>6, WhatIsWritten
  <2>2. Stored(w)' = Stored(w) \union {<<run[w].gen, k + 1>>}
    BY <1>1, <1>2, <1>3, <2>1 DEF Stored, Content
  <2>3. Stored(w)' = {<<run[w].gen, b>> : b \in 1..(k + 1)}
    <3>1. k \in Nat
      OBVIOUS
    <3> QED
      BY <1>5, <2>2, <3>1
  <2>4. Later(w)' <=> Later(w)
    BY <1>1 DEF Later
  <2>5. run'[w] = run[w] /\ pc'[w] = "write" /\ handle' = handle /\ db' = db /\ wal' = wal
    BY <1>1
  <2> QED
    BY <1>4, <2>1, <2>3, <2>4, <2>5 DEF Filled
<1>11. Kept(w)' /\ Own(w)' /\ Fresh(w)' /\ Stays(w)' /\ Indexed(w)' /\ Ends(w)'
  <2>1. Lacking(r)'
    BY <1>1 DEF Lone, Kept, Filling, Lacking
  <2>2. Own(w)'
    BY <1>6 DEF Own, Reader
  <2>3. Fresh(w)' /\ Stays(w)'
    BY <1>1 DEF Fresh, Stays, Ending
  <2>4. Indexed(w)' /\ Ends(w)'
    BY <1>1 DEF Lone, Indexed, Ends
  <2> QED
    BY <2>1, <2>2, <2>3, <2>4 DEF Kept
<1> QED
  BY <1>8, <1>9, <1>10, <1>11 DEF Lone

LEMMA IndexKeepsLone ==
    ASSUME Shaped, Hands, Laid, NEW w \in Actors, Lone(w), WriteIndex(w)
    PROVE  Lone(w)'
<1> DEFINE r == RepoOf[w]
<1>1. /\ pc[w] = "write" /\ pc'[w] = "close" /\ UNCHANGED <<files, db, wal, handle, run, early, wiped, done>>
      /\ Written(w) = 1..Batches /\ index' = [index EXCEPT ![r] = Extracts(Stored(w))] /\ r \in Repos
  BY RegistryAssumption DEF WriteIndex, BuildIndex, Goes, Shaped
<1>2. PICK k \in 0..Batches : Stored(w) = {<<run[w].gen, b>> : b \in 1..k}
  BY <1>1 DEF Lone, Filled, Writing
<1>3. k = Batches
  <2>1. 1..k = 1..Batches
    BY <1>1, <1>2, WhatIsWritten DEF Writing
  <2> QED
    BY <2>1, FileAssumption
<1>4. Extracts(Stored(w)) = {run[w].gen}
  <2>1. 1 \in 1..k
    BY <1>3, FileAssumption
  <2>2. <<run[w].gen, 1>> \in Stored(w)
    BY <1>2, <2>1
  <2>3. run[w].gen \in Extracts(Stored(w))
    BY <2>2 DEF Extracts
  <2>4. \A x \in Stored(w) : x[1] = run[w].gen
    BY <1>2
  <2> QED
    BY <2>3, <2>4 DEF Extracts
<1>5. /\ Writing(w) /\ Writing(w)' /\ \A b \in Actors : Reader(w, b)' <=> Reader(w, b)
      /\ \A d : Clear(r, d)' <=> Clear(r, d)
      /\ Later(w)' <=> Later(w)
  BY <1>1 DEF Writing, Reader, Holds, Clear, Later
<1>6. Seen(w)'
  BY <1>1, <1>5 DEF Lone, Seen, AllOf, Clear
<1>7. Kept(w)' /\ Own(w)'
  <2>1. Lacking(r)'
    BY <1>1 DEF Lone, Kept, Filling, Lacking
  <2> QED
    BY <1>5, <2>1 DEF Kept, Own, Reader
<1>8. Logged(w)'
  BY <1>1, <1>5 DEF Lone, Logged, Settled, Logs
<1>9. Filled(w)'
  <2>1. Stored(w)' = Stored(w)
    BY <1>1 DEF Stored, Content
  <2> QED
    BY <1>1, <1>2, <1>3, <1>5, <2>1 DEF Lone, Filled
<1>10. Fresh(w)' /\ Stays(w)'
  BY <1>1 DEF Fresh, Stays, Ending
<1>11. Indexed(w)' /\ Ends(w)'
  <2>1. index'[r] = {run[w].gen}
    BY <1>1, <1>4 DEF Laid, Tables
  <2> QED
    BY <1>1, <2>1 DEF Lone, Indexed, Ends, Ending
<1> QED
  BY <1>6, <1>7, <1>8, <1>9, <1>10, <1>11 DEF Lone

\* It closes the graph: the whole extract is in the file, if that still has the name.
LEMMA CloseKeepsLone ==
    ASSUME Shaped, Hands, Laid, NEW w \in Actors, Lone(w), CloseGraph(w)
    PROVE  Lone(w)'
<1> DEFINE r == RepoOf[w]
           d == handle[w].db
           l == handle[w].wal
<1>1. /\ pc[w] = "close" /\ pc'[w] = "shims" /\ Close(w) /\ UNCHANGED <<run, early, wiped, done>> /\ index' = index
      /\ r \in Repos /\ Numbered /\ Parted
  BY RegistryAssumption DEF CloseGraph, Close, Goes, Shaped, Laid
<1>2. Holds(w) /\ Writing(w) /\ ~Writing(w)'
  BY <1>1 DEF Laid, Manned, Writing
<1>3. /\ Handled(r) /\ handle'[w] = Closed /\ db' = db
  BY <1>1, CloseIsHandled
<1>4. /\ d \in 1..Len(files) /\ l \in 1..Len(files) /\ d \in Dbs(r) /\ l \in Logs(r) /\ d # 0 /\ l # 0
  BY <1>1, <1>2, HandlesAndNames
<1>5. files'[d] = Stored(w) /\ files'[l] = {} /\ Numbered'
  <2>1. /\ files'[handle[w].db] = files[handle[w].db] \union files[handle[w].wal]
        /\ files'[handle[w].wal] = {} /\ Numbered'
    BY <1>1, <1>2, Closes, Zenon
  <2> QED
    BY <2>1 DEF Stored, Content
<1>6. Stored(w) = AllOf(run[w].gen)
  BY <1>1, <1>2 DEF Lone, Filled, AllOf
<1>7. ASSUME NEW b \in Actors, Reader(w, b)'
      PROVE  b # w /\ handle'[b] = handle[b] /\ Reader(w, b) /\ handle[b].db \in 1..Len(files) /\ handle[b].db \in Dbs(r)
  <2>1. b # w /\ handle'[b] # Closed
    BY <1>3, <1>7 DEF Reader, Holds, Closed
  <2>2. handle'[b] = handle[b]
    BY <1>1, <2>1 DEF Close, Shaped
  <2>3. Reader(w, b)
    BY <1>1, <1>7, <2>1, <2>2 DEF Reader, Holds
  <2> QED
    BY <1>1, <2>1, <2>2, <2>3, HandlesAndNames DEF Reader
<1>8. Seen(w)'
  <2> SUFFICES ASSUME NEW b \in Actors, Reader(w, b)'
               PROVE  /\ Clear(r, handle[b].db)'
                      /\ \E g \in Nat : files'[handle'[b].db] = AllOf(g)
    BY <1>2 DEF Seen, AllOf
  <2>1. /\ handle'[b] = handle[b] /\ Clear(r, handle[b].db)
        /\ \E g \in Nat : files[handle[b].db] = AllOf(g)
    BY <1>7 DEF Lone, Seen
  <2>2. ClearNext(r, handle[b].db) /\ files'[handle[b].db] = files[handle[b].db]
    BY <1>1, <1>3, <1>7, <2>1, ClearStays
  <2> QED
    BY <2>1, <2>2 DEF Clear, ClearNext
<1>9. \A m \in Logs(r)' : files'[m] = {}
  <2>1. \A m \in Logs(r)' : m \in Logs(r) \/ files'[m] = {}
    BY <1>1, <1>3, LogsStay
  <2>2. ASSUME NEW m \in Logs(r)
        PROVE  files'[m] = {}
    <3>1. files[m] = {} \/ m = l
      BY <1>1 DEF Lone, Logged, Settled
    <3> QED
      BY <1>3, <1>5, <3>1 DEF Handled
  <2> QED
    BY <2>1, <2>2
<1>10. Stays(w)'
  <2>1. CASE Later(w)
    BY <1>1, <2>1 DEF Later, Stays
  <2>2. CASE db[r] = d
    <3>1. Clear(r, db[r])'
      <4>1. ASSUME NEW b \in Actors, RepoOf[b] = r, handle'[b].db = db'[r]
            PROVE  files'[handle'[b].wal] = {}
        <5>1. Holds(b)'
          BY <1>3, <1>4, <2>2, <4>1 DEF Holds
        <5>2. handle'[b].wal # 0
          <6>1. handle'[b] \in [db : 1..Len(files'), wal : 1..Len(files')] /\ Len(files') \in Nat
            BY <1>5, <5>1 DEF Numbered, Holds, Closed
          <6> QED
            BY <6>1
        <5>3. handle'[b].wal \in Logs(r)'
          BY <4>1, <5>2 DEF Logs
        <5> QED
          BY <1>9, <5>3
      <4>2. wal'[r] # 0 => files'[wal'[r]] = {}
        BY <1>9 DEF Logs
      <4> QED
        BY <4>1, <4>2 DEF Clear
    <3>2. /\ db'[r] = d /\ db'[r] # 0 /\ files'[db'[r]] = AllOf(run'[w].gen)
      BY <1>1, <1>3, <1>4, <1>5, <1>6, <2>2
    <3> QED
      BY <3>1, <3>2 DEF Stays, Finished, AllOf
  <2> QED
    BY <1>2, <2>1, <2>2 DEF Lone, Filled
<1>11. Kept(w)' /\ Own(w)' /\ Logged(w)'
  <2>1. Lacking(r)'
    BY <1>1 DEF Lone, Kept, Filling, Lacking
  <2> QED
    BY <1>7, <1>9, <2>1 DEF Kept, Own, Logged, Settled
<1>12. Fresh(w)' /\ Filled(w)'
  BY <1>1, <1>2 DEF Fresh, Filled
<1>13. Indexed(w)' /\ Ends(w)'
  BY <1>1 DEF Lone, Indexed, Ends, Ending
<1> QED
  BY <1>8, <1>10, <1>11, <1>12, <1>13 DEF Lone

\* It ends well: what has the name is its extract, or the graph is missing again.
LEMMA FinishKeepsLone ==
    ASSUME Shaped, Hands, Laid, NEW w \in Actors, Lone(w), Finish(w)
    PROVE  Lone(w)'
<1> DEFINE r == RepoOf[w]
<1>1. /\ pc[w] = "save" /\ pc'[w] = "idle" /\ UNCHANGED <<run, early, files, db, wal, handle, index>>
      /\ done'[w] = run[w].gen /\ wiped' = wiped \ {<<r, g>> : g \in 0..run[w].since}
      /\ run[w].since \in Nat /\ run[w].gen \in Nat
  BY DEF Finish, Goes, Shaped, Laid, Tables, Counted
<1>2. /\ ~Holds(w) /\ ~Writing(w) /\ ~Writing(w)' /\ \A b \in Actors : Reader(w, b)' <=> Reader(w, b)
      /\ \A d : Clear(r, d)' <=> Clear(r, d)
  BY <1>1 DEF Hands, Handless, Writing, Reader, Holds, Clear
<1>3. Seen(w)'
  BY <1>1, <1>2 DEF Lone, Seen, AllOf, Clear
<1>4. Kept(w)'
  <2>1. CASE Later(w)
    <3>1. PICK e \in wiped : e[1] = r /\ e[2] > run[w].since
      BY <2>1 DEF Later
    <3>2. \A g \in 0..run[w].since : e # <<r, g>>
      BY <1>1, <3>1
    <3>3. e \in wiped'
      BY <1>1, <3>1, <3>2
    <3> QED
      BY <3>1, <3>3 DEF Kept, Lacking
  <2>2. CASE Finished(w, run[w].gen)
    BY <1>1, <2>2 DEF Kept, Finished, Filling, AllOf, Clear
  <2> QED
    BY <1>1, <2>1, <2>2 DEF Lone, Stays, Ending
<1>5. Own(w)' /\ Fresh(w)' /\ Filled(w)' /\ Stays(w)'
  BY <1>1, <1>2 DEF Own, Reader, Fresh, Filled, Stays, Ending
<1>6. Logged(w)'
  BY <1>1, <1>2 DEF Lone, Logged, Settled, Logs
<1>7. Indexed(w)' /\ Ends(w)'
  BY <1>1 DEF Lone, Indexed, Ends, Ending
<1> QED
  BY <1>3, <1>4, <1>5, <1>6, <1>7 DEF Lone

\* Who works on another repository leaves the files, the names and the marks of this one alone.
LEMMA FarFromFiles ==
    ASSUME Shaped, Hands, Laid, NEW a \in Actors, Step(a), NEW s \in Repos, s # RepoOf[a]
    PROVE  /\ db'[s] = db[s] /\ wal'[s] = wal[s] /\ index'[s] = index[s]
           /\ \A f \in Dbs(s) \union Logs(s) : files'[f] = files[f]
<1>0. Numbered /\ Parted /\ RepoOf[a] \in Repos
  BY RegistryAssumption DEF Laid
<1>1. index'[s] = index[s]
  <2>1. index' = index \/ \E x : index' = [index EXCEPT ![RepoOf[a]] = x]
    BY DEF Open, OpenNow, Close, Drop, UnlinkDb, UnlinkWal, Insert, BuildIndex, Step, Hit, Start, WipeDb, WipeWal,
       Connect, WriteBatch, WriteIndex, CloseGraph, WriteShim, LoseShim, Record, LoadRegistry, TruncateRegistry, Finish, Locked,
       Collide, Die, CallOpen, ToolRelease, ToolOpen, ReadClose, CannotOpen, Ask, AskHeld, PruneLoad, PruneLook,
       PruneSave
  <2> QED
    BY <2>1 DEF Laid, Tables
<1>2. \A f \in Dbs(s) \union Logs(s) : f \in 1..Len(files)
  BY <1>0, DbsAndLogs
<1>3. \A f \in Dbs(s) \union Logs(s) : f \notin Dbs(RepoOf[a]) \union Logs(RepoOf[a])
  BY <1>0 DEF Parted
<1>4. CASE UNCHANGED Named \/ Drop(a)
  BY <1>1, <1>4 DEF Named, Drop
<1>5. CASE Close(a)
  <2>1. CASE ~Holds(a)
    <3>1. handle[a] = Closed
      BY <1>0, <2>1, HandlesAndNames
    <3>2. UNCHANGED <<files, db, wal>>
      BY <1>5, <3>1 DEF Close
    <3> QED
      BY <1>1, <3>2
  <2>2. CASE Holds(a)
    <3>1. LET d == handle[a].db l == handle[a].wal r == RepoOf[a]
          IN /\ d \in Dbs(r) /\ l \in Logs(r) /\ db' = db
             /\ \A f \in 1..Len(files) : f # d /\ f # l => files'[f] = files[f]
             /\ \A t \in Repos : wal'[t] = wal[t] \/ (wal'[t] = 0 /\ t = r)
      BY <1>0, <1>5, <2>2, Closes, Zenon
    <3> QED
      BY <1>1, <1>2, <1>3, <3>1
  <2> QED
    BY <2>1, <2>2
<1>6. CASE UnlinkDb(a) \/ UnlinkWal(a)
  BY <1>1, <1>6 DEF UnlinkDb, UnlinkWal, Laid, Numbered
<1>7. CASE Open(a)
  <2>1. LET r == RepoOf[a]
        IN /\ \A t \in Repos \ {r} : db'[t] = db[t] /\ wal'[t] = wal[t]
           /\ \A f \in 1..Len(files) : files'[f] = files[f]
    BY <1>0, <1>7, Opens, Zenon
  <2> QED
    BY <1>1, <1>2, <2>1
<1>8. CASE WriteBatch(a)
  <2>1. /\ Holds(a) /\ UNCHANGED <<db, wal>>
        /\ \A f \in 1..Len(files) : f # handle[a].wal => files'[f] = files[f]
    BY <1>8, BatchIsLaid, Zenon
  <2>2. handle[a].wal \in Logs(RepoOf[a])
    BY <1>0, <2>1, HandlesAndNames
  <2> QED
    BY <1>1, <1>2, <1>3, <2>1, <2>2
<1> QED
  BY <1>4, <1>5, <1>6, <1>7, <1>8, FileSteps

LEMMA FarFromLone ==
    ASSUME Shaped, Hands, Laid, NEW w \in Actors, Lone(w), NEW a \in Actors, RepoOf[a] # RepoOf[w], Step(a)
    PROVE  Lone(w)'
<1> DEFINE r == RepoOf[w]
<1>0. r \in Repos /\ a # w /\ Numbered
  BY RegistryAssumption DEF Laid
<1>1. /\ db'[r] = db[r] /\ wal'[r] = wal[r] /\ index'[r] = index[r]
      /\ \A f \in Dbs(r) \union Logs(r) : files'[f] = files[f]
  BY <1>0, FarFromFiles
<1>2. \A b \in Actors : RepoOf[b] = r => pc'[b] = pc[b] /\ handle'[b] = handle[b]
  BY OthersKeep
<1>3. run'[w] = run[w]
  BY <1>0, GenSteps DEF Laid, Counted
<1>4. /\ \A e \in wiped : e[1] = r => e \in wiped'
      /\ done'[w] = done[w]
      /\ \A b \in Actors : RepoOf[b] = r /\ b \notin early' => b \notin early
  <2>1. CASE Finish(a)
    BY <1>0, <2>1 DEF Finish, Laid, Tables
  <2>2. CASE Connect(a) \/ WriteBatch(a)
    BY <2>2 DEF Connect, WriteBatch
  <2>3. CASE ~Finish(a) /\ ~Connect(a) /\ ~WriteBatch(a)
    <3>1. wiped \subseteq wiped' /\ done' = done
      BY <2>3, StepIsOne
    <3>2. early' = early \/ early' = early \union {a} \/ early' = early \ {a}
      BY <2>3, StepIsOne DEF OpenNow
    <3> QED
      BY <3>1, <3>2
  <2> QED
    BY <2>1, <2>2, <2>3
<1>5. Handled(r)
  BY <1>1, <1>2 DEF Handled
<1>6. Marked(r) /\ Listed(w) /\ Passes(w)
  BY <1>1, <1>2, <1>3, <1>4 DEF Marked, Listed, Passes, Holds
<1>7. Writing(w)' => Stored(w)' = Stored(w) /\ handle'[w] = handle[w]
  <2>1. ASSUME Writing(w)'
        PROVE  Stored(w)' = Stored(w)
    <3>1. Holds(w) /\ handle'[w] = handle[w]
      BY <1>2, <2>1 DEF Laid, Manned, Writing
    <3>2. handle[w].db \in Dbs(r) /\ handle[w].wal \in Logs(r)
      BY <1>0, <3>1, HandlesAndNames
    <3> QED
      BY <1>1, <3>1, <3>2 DEF Stored, Content
  <2> QED
    BY <1>2, <2>1
<1> QED
  BY <1>1, <1>4, <1>5, <1>6, <1>7, LoneKeeps

LEMMA UserKeepsLone ==
    ASSUME Laid, NEW w \in Actors, Lone(w), UserEdit
    PROVE  Lone(w)'
<1> DEFINE r == RepoOf[w]
<1>1. /\ UNCHANGED <<files, handle, index, pc, run, early, done>> /\ wiped \subseteq wiped'
      /\ r \in Repos /\ gen \in Nat
  BY RegistryAssumption DEF UserEdit, Laid, Counted
<1>2. \/ UNCHANGED <<db, wal>>
      \/ \E s \in Repos : /\ db' = [db EXCEPT ![s] = 0] /\ wal' = [wal EXCEPT ![s] = 0]
                          /\ <<s, gen + 1>> \in wiped'
  BY DEF UserEdit
<1>3. \/ db'[r] = db[r] /\ wal'[r] = wal[r]
      \/ db'[r] = 0 /\ wal'[r] = 0 /\ <<r, gen + 1>> \in wiped'
  BY <1>1, <1>2 DEF Laid, Numbered
<1>4. Handled(r) /\ Stored(w)' = Stored(w)
  BY <1>1, <1>3, RestIsHandled
<1>5. Listed(w)
  <2>1. <<r, gen + 1>> \in wiped' => \E e \in wiped' : e[1] = r /\ e[2] \in Nat /\ e[2] > gen
    BY <1>1
  <2> QED
    BY <1>1, <1>3, <2>1 DEF Listed
<1>6. Marked(r) /\ Passes(w)
  BY <1>1 DEF Marked, Passes, Holds
<1> QED
  BY <1>1, <1>4, <1>5, <1>6, LoneKeeps

\* Whoever steps: a repository with one filler stays in order.
LoneOnes == \A w \in Actors : Sole(w) => Lone(w)

LEMMA LoneStart ==
    ASSUME Init, NEW w \in Actors
    PROVE  Lone(w)
<1> DEFINE r == RepoOf[w]
<1>1. /\ pc[w] = "idle" /\ done[w] = 0 /\ wiped = {<<s, 0>> : s \in Repos} /\ r \in Repos
      /\ \A b \in Actors : handle[b] = Closed /\ ~Holds(b)
      /\ \A s \in Repos : db[s] = 0 /\ wal[s] = 0
  BY RegistryAssumption DEF Init, FileInit, Holds, Closed
<1>2. Lacking(r)
  <2>1. <<r, 0>> \in wiped
    BY <1>1
  <2> QED
    BY <2>1 DEF Lacking
<1>3. Logs(r) = {}
  BY <1>1 DEF Logs, Closed
<1>4. Seen(w) /\ Kept(w) /\ Own(w) /\ Logged(w)
  BY <1>1, <1>2, <1>3 DEF Seen, Kept, Own, Logged, Reader
<1>5. Fresh(w) /\ Filled(w) /\ Stays(w) /\ Indexed(w) /\ Ends(w)
  BY <1>1 DEF Fresh, Filled, Stays, Indexed, Ends, Writing, Ending
<1> QED
  BY <1>4, <1>5 DEF Lone

LEMMA LoneStep ==
    ASSUME Shaped, Hands, Laid, LoneOnes, NEW a \in Actors, Step(a)
    PROVE  LoneOnes'
<1>1. cast' = cast
  BY GenSteps DEF Laid, Counted
<1> SUFFICES ASSUME NEW w \in Actors, Sole(w)
             PROVE  Lone(w)'
  BY <1>1 DEF LoneOnes, Sole, FillersOf, Playing
<1>2. Lone(w)
  BY DEF LoneOnes
<1>3. CASE RepoOf[a] # RepoOf[w]
  BY <1>2, <1>3, FarFromLone
<1>4. CASE RepoOf[a] = RepoOf[w] /\ a # w
  BY <1>2, <1>4, OthersKeepLone
<1>5. CASE a = w
  <2>1. CASE Connect(w)
    BY <1>2, <2>1, ConnectKeepsLone
  <2>2. CASE WriteBatch(w)
    BY <1>2, <2>2, BatchKeepsLone
  <2>3. CASE WriteIndex(w)
    BY <1>2, <2>3, IndexKeepsLone
  <2>4. CASE CloseGraph(w)
    BY <1>2, <2>4, CloseKeepsLone
  <2>5. CASE Finish(w)
    BY <1>2, <2>5, FinishKeepsLone
  <2>6. CASE ~Connect(w) /\ ~Finish(w) /\ ~WriteBatch(w) /\ ~WriteIndex(w) /\ ~CloseGraph(w)
    BY <1>2, <1>5, <2>6, NoCollision, RestOfLone
  <2> QED
    BY <2>1, <2>2, <2>3, <2>4, <2>5, <2>6
<1> QED
  BY <1>3, <1>4, <1>5

LEMMA LoneAlways == Spec => []LoneOnes
<1>1. Init => LoneOnes
  BY LoneStart DEF LoneOnes
<1>2. ASSUME Shaped, Hands, Laid, LoneOnes, [Next]_vars
      PROVE  LoneOnes'
  <2>1. CASE UserEdit
    <3>1. cast' = cast
      BY <2>1 DEF UserEdit
    <3> SUFFICES ASSUME NEW w \in Actors, Sole(w)
                 PROVE  Lone(w)'
      BY <3>1 DEF LoneOnes, Sole, FillersOf, Playing
    <3> QED
      BY <1>2, <2>1, UserKeepsLone DEF LoneOnes
  <2>2. CASE \E a \in Actors : Step(a)
    BY <1>2, <2>2, LoneStep
  <2>3. CASE UNCHANGED vars
    <3> SUFFICES ASSUME NEW w \in Actors, Sole(w)
                 PROVE  Lone(w)'
      BY <2>3 DEF LoneOnes, Sole, FillersOf, Playing
    <3>1. Lone(w) /\ RepoOf[w] \in Repos
      BY <1>2, RegistryAssumption DEF LoneOnes
    <3>2. Handled(RepoOf[w]) /\ Stored(w)' = Stored(w)
      BY <2>3, <3>1, RestIsHandled
    <3>3. Marked(RepoOf[w]) /\ Listed(w) /\ Passes(w)
      BY <2>3 DEF Marked, Listed, Passes, Holds
    <3> QED
      BY <1>2, <2>3, <3>1, <3>2, <3>3, LoneKeeps
  <2> QED
    BY <1>2, <2>1, <2>2, <2>3 DEF Next
<1> QED
  BY <1>1, <1>2, ShapedAlways, HandsAlways, LaidAlways, PTL DEF Spec

\* A query is answered from the store of the actor that asks.
LEMMA WhoAnswers ==
    ASSUME Shaped, Laid, NEW a \in Actors, Next,
           answer'[a] # answer[a], answer'[a].kind \in {"tool", "question"}
    PROVE  /\ Holds(a) /\ pc[a] \in {"reading", "idle"} /\ answer'[a].rows = Stored(a)
           /\ answer'[a].kind = "question" => /\ pc[a] = "idle"
                                              /\ index[RepoOf[a]] # Absent
                                                   => answer'[a].index = index[RepoOf[a]]
<1>1. answer' # answer
  OBVIOUS
<1>2. ~UserEdit
  BY <1>1 DEF UserEdit
<1>3. Step(a)
  BY <1>2, OthersKeep DEF Next
<1>4. ~Refused(a)
  <2>1. SUFFICES ASSUME Refused(a) PROVE FALSE
    OBVIOUS
  <2>2. answer'[a].kind = "refused"
    BY <2>1 DEF Refused, Shaped, NoAnswer
  <2> QED
    BY <2>2
<1>5. ReadClose(a) \/ AskHeld(a)
  <2>1. ~(Hit(a) \/ Start(a) \/ WipeDb(a) \/ WipeWal(a) \/ Connect(a) \/ WriteBatch(a))
    BY <1>1 DEF Hit, Start, WipeDb, WipeWal, Connect, WriteBatch
  <2>2. ~(WriteIndex(a) \/ CloseGraph(a) \/ WriteShim(a) \/ LoseShim(a) \/ Record(a) \/ LoadRegistry(a))
    BY <1>1 DEF WriteIndex, CloseGraph, WriteShim, LoseShim, Record, LoadRegistry
  <2>3. ~(TruncateRegistry(a) \/ Finish(a) \/ Locked(a) \/ Collide(a) \/ Die(a))
    BY <1>1, <1>4 DEF TruncateRegistry, Finish, Locked, Collide, Die
  <2>4. ~(CallOpen(a) \/ ToolRelease(a) \/ ToolOpen(a) \/ CannotOpen(a) \/ Ask(a))
    BY <1>1, <1>4 DEF CallOpen, ToolRelease, ToolOpen, CannotOpen, Ask
  <2>5. ~(PruneLoad(a) \/ PruneLook(a) \/ PruneSave(a))
    BY <1>1 DEF PruneLoad, PruneLook, PruneSave
  <2> QED
    BY <1>3, <2>1, <2>2, <2>3, <2>4, <2>5 DEF Step
<1>6. CASE ReadClose(a)
  <2>1. Holds(a) /\ pc[a] = "reading"
    BY <1>6 DEF ReadClose, Goes, Laid, Manned
  <2>2. answer'[a].rows = Stored(a) /\ answer'[a].kind = "tool"
    BY <1>6 DEF ReadClose, Answers, Shaped
  <2> QED
    BY <2>1, <2>2
<1>7. CASE AskHeld(a)
  <2>1. Holds(a) /\ pc[a] = "idle"
    BY <1>7 DEF AskHeld
  <2>2. answer'[a].rows = Stored(a) /\ (index[RepoOf[a]] # Absent => answer'[a].index = index[RepoOf[a]])
    BY <1>7 DEF AskHeld, Answers, Shaped
  <2> QED
    BY <2>1, <2>2
<1> QED
  BY <1>5, <1>6, <1>7

\* What a store that was opened on a whole graph holds.
LEMMA ReadersSee ==
    ASSUME Laid, LoneOnes, NEW a \in Actors, NEW w \in Actors, Sole(w), RepoOf[w] = RepoOf[a],
           Holds(a), pc[a] \in {"reading", "idle"}, a \notin early
    PROVE  /\ \E g \in Nat : Stored(a) = AllOf(g)
           /\ a = w => Stored(a) = AllOf(done[a])
<1>1. Lone(w) /\ Reader(w, a)
  BY DEF LoneOnes, Reader, Writing
<1>2. /\ Clear(RepoOf[w], handle[a].db)
      /\ \E g \in Nat : files[handle[a].db] = AllOf(g)
      /\ a = w => files[handle[a].db] = AllOf(done[a])
  BY <1>1 DEF Lone, Seen, Own
<1>3. files[handle[a].wal] = {}
  BY <1>2 DEF Clear
<1> QED
  BY <1>2, <1>3 DEF Stored, Content

LEMMA ExtractsOfAll ==
    ASSUME NEW g
    PROVE  Extracts(AllOf(g)) = {g}
<1>1. <<g, 1>> \in AllOf(g)
  BY FileAssumption DEF AllOf
<1>2. \A x \in AllOf(g) : x[1] = g
  BY DEF AllOf
<1>3. g \in Extracts(AllOf(g))
  BY <1>1 DEF Extracts
<1> QED
  BY <1>2, <1>3 DEF Extracts

\* With one actor that extracts a repository, every query of it sees all that one
\* extract stored, unless its store was opened when there was no whole graph: whoever
\* asks, dies, prunes or deletes, in whatever processes, and however often.
LoneAnswersAreWhole ==
    [][\A a, w \in Actors : /\ answer'[a] # answer[a] /\ answer'[a].kind \in {"tool", "question"}
                            /\ FillersOf(RepoOf[a]) \subseteq {w}
                            => Whole(answer'[a].rows) \/ a \in early]_vars

\* cli/interactive/shell.py and mcp_server/server.py open the graph that emit wiped and
\* filled again: the case of `AnswersAreWhole` with at most one who does so.
THEOREM LoneAnswers == Spec => LoneAnswersAreWhole
<1>1. ASSUME Shaped, Laid, LoneOnes, [Next]_vars
      PROVE  [\A a, w \in Actors : /\ answer'[a] # answer[a] /\ answer'[a].kind \in {"tool", "question"}
                                   /\ FillersOf(RepoOf[a]) \subseteq {w}
                                   => Whole(answer'[a].rows) \/ a \in early]_vars
  <2> SUFFICES ASSUME Next, NEW a \in Actors, NEW w \in Actors,
                      answer'[a] # answer[a], answer'[a].kind \in {"tool", "question"},
                      FillersOf(RepoOf[a]) \subseteq {w}, a \notin early
               PROVE  Whole(answer'[a].rows)
    BY <1>1
  <2>1. Holds(a) /\ pc[a] \in {"reading", "idle"} /\ answer'[a].rows = Stored(a)
    BY <1>1, WhoAnswers
  <2>2. \E v \in Actors : Sole(v) /\ RepoOf[v] = RepoOf[a]
    <3>1. CASE RepoOf[w] = RepoOf[a]
      BY <3>1 DEF Sole
    <3>2. CASE RepoOf[w] # RepoOf[a]
      BY <3>2 DEF Sole, FillersOf
    <3> QED
      BY <3>1, <3>2
  <2>3. PICK g \in Nat : Stored(a) = AllOf(g)
    BY <1>1, <2>1, <2>2, ReadersSee
  <2>4. g \in Extracts(Stored(a))
    BY <2>3, ExtractsOfAll
  <2> QED
    BY <2>1, <2>3, <2>4 DEF Whole, AllOf
<1> QED
  BY <1>1, ShapedAlways, LaidAlways, LoneAlways, PTL DEF Spec, LoneAnswersAreWhole

\* What a shell answers after an extract of its own is from that extract, the rows and
\* the index, when nobody else extracts its repository.
THEOREM OwnExtract == Spec => OwnExtractIsSeen
<1>1. ASSUME Shaped, Laid, LoneOnes, [Next]_vars
      PROVE  [\A a \in Actors :
                /\ answer'[a] # answer[a] /\ answer'[a].kind \in {"tool", "question"}
                /\ Role[a] = "shell" /\ done[a] # 0 /\ a \notin early
                /\ FillersOf(RepoOf[a]) \subseteq {a}
                => /\ Extracts(answer'[a].rows) = {done[a]}
                   /\ answer'[a].kind = "question" => answer'[a].index = {done[a]}]_vars
  <2> SUFFICES ASSUME Next, NEW a \in Actors,
                      answer'[a] # answer[a], answer'[a].kind \in {"tool", "question"},
                      Role[a] = "shell", done[a] # 0, a \notin early, Sole(a)
               PROVE  /\ Extracts(answer'[a].rows) = {done[a]}
                      /\ answer'[a].kind = "question" => answer'[a].index = {done[a]}
    BY <1>1 DEF Sole
  <2>1. /\ Holds(a) /\ pc[a] \in {"reading", "idle"} /\ answer'[a].rows = Stored(a)
        /\ answer'[a].kind = "question" => /\ pc[a] = "idle"
                                           /\ index[RepoOf[a]] # Absent
                                                => answer'[a].index = index[RepoOf[a]]
    BY <1>1, WhoAnswers
  <2>2. Stored(a) = AllOf(done[a])
    BY <1>1, <2>1, ReadersSee
  <2>3. Extracts(answer'[a].rows) = {done[a]}
    BY <2>1, <2>2, ExtractsOfAll
  <2>4. index[RepoOf[a]] = {done[a]}
    <3>1. Lone(a)
      BY <1>1 DEF LoneOnes
    <3> QED
      BY <2>1, <3>1 DEF Lone, Indexed, Ending
  <2>5. index[RepoOf[a]] # Absent
    BY <2>4 DEF Absent
  <2> QED
    BY <2>1, <2>3, <2>4, <2>5
<1> QED
  BY <1>1, ShapedAlways, LaidAlways, LoneAlways, PTL DEF Spec, OwnExtractIsSeen
=============================================================================
