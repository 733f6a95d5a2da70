------------------------------ MODULE AmqpTopic ------------------------------
(***************************************************************************)
(* When an AMQP topic binding matches a routing key                        *)
(* (contracts/messaging/normalize.py).  The program turns the binding into *)
(* a regular expression; a broker compares word by word.  A binding and a  *)
(* key are sequences of words, "*" and "#" are the two wildcards.          *)
(***************************************************************************)
EXTENDS Naturals, Sequences

(* Ways to cut a text of n characters into m consecutive pieces: piece i is  *)
(* what lies between cut[i - 1] and cut[i].                                *)
Cuts(m, n) == {cut \in [0..m -> 0..n] :
                 cut[0] = 0 /\ cut[m] = n /\ \A i \in 1..m : cut[i - 1] <= cut[i]}

(* The broker's rule: "*" is one word, "#" any number of them.              *)
BrokerMatches(binding, key) ==
    \E cut \in Cuts(Len(binding), Len(key)) : \A i \in 1..Len(binding) :
        \/ binding[i] = "#"
        \/ /\ cut[i] = cut[i - 1] + 1
           /\ binding[i] \in {"*", key[cut[i]]}

(* The text of a key: its words at the odd places, dots at the even ones.    *)
Odd(n) == n % 2 = 1

(* Mutant: a "#" leaves the dot next to it to the other words.              *)
PieceOwnDots(binding, key, i, a, b) ==
    IF binding[i] = "#" THEN b = a \/ (~Odd(a) /\ Odd(b - a))
    ELSE /\ b = a + (IF i > 1 THEN 2 ELSE 1)
         /\ Odd(b)
         /\ binding[i] \in {"*", key[(b + 1) \div 2]}

(* What the i-th word of a binding has become in the regular expression, and *)
(* whether it matches the text after place a up to place b.  A "#" takes in *)
(* the dot before it or, as the first word, the dot after it, unless the   *)
(* second word is a "#" that has taken that one already.                   *)
Piece(binding, key, i, a, b) ==
    LET leading == Len(binding) > 1 /\ binding[1] = "#" /\ binding[2] # "#"
        dotted  == i > 1 /\ ~(i = 2 /\ leading)
    IN IF binding[i] = "#"
       THEN \/ b = a
            \/ i > 1            /\ Odd(a) /\ ~Odd(b - a)    \* (\.[^.]+)*
            \/ i = 1 /\ leading /\ ~Odd(a) /\ ~Odd(b - a)   \* ([^.]+\.)*
            \/ i = 1 /\ ~leading /\ ~Odd(a) /\ Odd(b - a)   \* ([^.]+(\.[^.]+)*)?
       ELSE /\ b = a + (IF dotted THEN 2 ELSE 1)
            /\ Odd(b)
            /\ binding[i] \in {"*", key[(b + 1) \div 2]}

amqp_binding_matches(binding, key) ==
    LET text == IF key = <<>> THEN 0 ELSE 2 * Len(key) - 1
    IN \E cut \in Cuts(Len(binding), text) :
         \A i \in 1..Len(binding) : Piece(binding, key, i, cut[i - 1], cut[i])

(* "#.#." and something after it: the one kind of binding that the           *)
(* expression and the broker do not read alike (the first "#" takes a word, *)
(* and the second leaves a dot to be matched).                             *)
Repeats(b) == Len(b) > 1 /\ b[1] = "#" /\ b[2] = "#" /\ \E i \in 1..Len(b) : b[i] # "#"

amqp_match_kind(binding, key) ==
    IF binding = key THEN "exact"
    ELSE IF amqp_binding_matches(binding, key) THEN "wildcard" ELSE "none"
=============================================================================
