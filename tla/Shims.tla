------------------------------- MODULE Shims -------------------------------
(* The files for editors and agents that an extract leaves in the repository:    *)
(* written when absent, rewritten on request when they are recognised as ours. A *)
(* text is nothing, the user's own, torn, or what a release wrote, which the user *)
(* may have edited since. The mark by which ours are recognised is a word, which  *)
(* an edited one still has and a text of the user's own may have.                *)
EXTENDS Integers, FiniteSets, Participants

CONSTANT Targets

VARIABLES text,      \* of each target
          targets,   \* those a run has still to look at
          aim,       \* the one it is at, what it found there, and what comes next
          stale      \* those it reported as out of date

shimVars == <<text, targets, aim, stale>>

Nothing == <<"nothing", 0>>
Foreign == <<"foreign", 0>>
Mention == <<"mention", 0>>     \* the user's own, with the mark in it
Cut     == <<"cut", 0>>
Ours(v)   == <<"ours", v>>
Edited(v) == <<"edited", v>>

NoAim == [target |-> "none", found |-> Nothing, next |-> "choose"]

\* Mutant: whatever is there is taken for ours.
OwnedAny(t) == t # Nothing

\* The mark is in the text.
Owned(t) == t[1] \in {"ours", "edited", "mention"}

ShimInit ==
    /\ text = [t \in Targets |-> Nothing]
    /\ targets = [a \in Actors |-> {}] /\ stale = [a \in Actors |-> {}]
    /\ aim = [a \in Actors |-> NoAim]

\* None when the option is off.
BeginShims(a, wanted) ==
    /\ targets' = [targets EXCEPT ![a] = IF wanted THEN Targets ELSE {}]
    /\ stale' = [stale EXCEPT ![a] = {}]
    /\ aim' = [aim EXCEPT ![a] = NoAim]
    /\ UNCHANGED text

Aims(a, t, found, next) == aim' = [aim EXCEPT ![a] = [target |-> t, found |-> found, next |-> next]]
Leaves(a) == aim' = [aim EXCEPT ![a] = NoAim]

\* Is there such a file? ...
Choose(a) ==
    /\ aim[a].next = "choose"
    /\ \E t \in targets[a] :
        /\ targets' = [targets EXCEPT ![a] = @ \ {t}]
        /\ Aims(a, t, Nothing, IF text[t] = Nothing THEN "empty" ELSE "read")
    /\ UNCHANGED <<text, stale>>

\* ... what is in it, is it ours and out of date, and may it be rewritten? ...
Inspect(a, refresh) ==
    LET t   == aim[a].target
        due == Owned(text[t]) /\ text[t] # Ours(Release[a])
    IN /\ aim[a].next = "read" /\ text[t] # Nothing
       /\ IF due /\ refresh THEN Aims(a, t, text[t], "empty") ELSE Leaves(a)
       /\ stale' = [stale EXCEPT ![a] = IF due /\ ~refresh THEN @ \union {t} ELSE @]
       /\ UNCHANGED <<text, targets>>

Vanished(a) == aim[a].next = "read" /\ text[aim[a].target] = Nothing

\* ... The file is emptied, whatever it holds by now, ...
Empty(a) ==
    /\ aim[a].next = "empty"
    /\ text' = [text EXCEPT ![aim[a].target] = Cut]
    /\ aim' = [aim EXCEPT ![a].next = "fill"]
    /\ UNCHANGED <<targets, stale>>

\* ... and filled. Who wrote to it meanwhile has put another file in its place, or
\* the two are mixed up; a deleted file is filled and gone.
Fill(a) ==
    LET t == aim[a].target
    IN /\ aim[a].next = "fill" /\ Leaves(a)
       /\ \E new \in {text[t], Ours(Release[a]), Edited(Release[a])} :
            /\ text[t] = Cut => new = Ours(Release[a])
            /\ text[t] = Nothing => new = Nothing
            /\ text' = [text EXCEPT ![t] = new]
       /\ UNCHANGED <<targets, stale>>

Visit(a, refresh) == Choose(a) \/ Inspect(a, refresh) \/ Empty(a) \/ Fill(a)

\* The user deletes a target, replaces it, or edits what is there.
Edit(t) ==
    /\ \E new \in {Nothing, Foreign, Mention}
                    \union {Edited(v) : v \in {v \in {text[t][2]} : Owned(text[t])}} :
        new # text[t] /\ text' = [text EXCEPT ![t] = new]
    /\ UNCHANGED <<targets, aim, stale>>
=============================================================================
