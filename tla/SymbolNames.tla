----------------------------- MODULE SymbolNames -----------------------------
(***************************************************************************)
(* The local qualified names that the static extractors give to a place of *)
(* a file (static/tags.py, inheritance.py, injection.py, persistence.py).  *)
(* A place is the sequence of the named classes and functions around it,   *)
(* outermost first, <<>> outside all of them; a Go or Rust method is       *)
(* inside its receiver's type, wherever that is declared.  A name is a     *)
(* sequence too, <<>> the synthetic `<module>' of a file.                  *)
(***************************************************************************)
EXTENDS Naturals, Sequences, FiniteSets

Place(Names) == Seq([kind : {"class", "function"}, name : Names])

Inner(seq) == seq[Len(seq)]
Outer(seq) == SubSeq(seq, 1, Len(seq) - 1)
IsClass(part) == part.kind = "class"
NamesOf(place) == [i \in 1..Len(place) |-> place[i].name]

(* The names of the classes of a place: the k-th is that of the class with   *)
(* k - 1 before it.                                                        *)
Classes(place) ==
    LET upto(n) == Cardinality({i \in 1..n : IsClass(place[i])})
        kth(k)  == CHOOSE i \in 1..Len(place) : IsClass(place[i]) /\ upto(i) = k
    IN [k \in 1..upto(Len(place)) |-> place[kth(k)].name]

(* _parent_chain: the classes around a declaration, whatever functions are  *)
(* between them.                                                           *)
DefName(place) == Classes(Outer(place)) \o <<Inner(place).name>>

(* _enclosing_scope_qn: the name of what a call is in.                      *)
ScopeName(place) == IF place = <<>> THEN <<>> ELSE DefName(place)

(* The name a class has as a child (inheritance.py), and as a model         *)
(* (persistence.py): Python's is dotted, that of others is its own.        *)
TypeName(language, place) ==
    IF language = "python" THEN Classes(place) ELSE <<Inner(place).name>>

(* The name an injection site has: in Python that of a function with        *)
(* everything around it, in Java that of a class alone.                    *)
InjectorName(language, place) ==
    IF language = "python" THEN NamesOf(place) ELSE <<Inner(place).name>>
=============================================================================
