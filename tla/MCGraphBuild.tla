---------------------------- MODULE MCGraphBuild ----------------------------
(* Small repositories for GraphBuild: one family for each thing that is     *)
(* resolved.                                                               *)
EXTENDS GraphBuild, TLC

File(path, ext) == [path |-> path, ext |-> ext]
Fn(name)  == [kind |-> "function", name |-> name]
Cls(name) == [kind |-> "class", name |-> name]
Decl(file, place) == [file |-> file, place |-> place]
Import(file, from, up, rest, names, alias) ==
    [file |-> file, from |-> from, up |-> up, rest |-> rest, ext |-> "", names |-> names,
     alias |-> alias, reexport |-> FALSE]
N(name, alias) == [name |-> name, alias |-> alias]
Nothing == [files |-> <<>>, decls |-> {}, imports |-> <<>>, bare |-> {}, dotted |-> {},
            parents |-> {}, deps |-> {}, models |-> {}, commits |-> {}]

(* Python: module p/m calls f from a method, and its siblings and p/__init__ *)
(* may have an f as well.                                                  *)
M == File(<<"p", "m">>, "py")
P == File(<<"p", "__init__">>, "py")
A == File(<<"p", "a">>, "py")
B == File(<<"src", "p", "a">>, "py")
Method == <<Cls("C"), Fn("m")>>
OwnF == {{}, {Decl(M, <<Fn("f")>>)}, {Decl(M, <<Cls("C"), Fn("f")>>)},
         {Decl(M, <<Fn("f")>>), Decl(M, <<Cls("C"), Fn("f")>>)},
         {Decl(M, <<Cls("C"), Fn("k"), Fn("f")>>), Decl(M, <<Fn("f")>>)},
         {Decl(M, <<Cls("C"), Fn("m"), Fn("f")>>)}}
OtherF == SUBSET {Decl(f, <<Fn("f")>>) : f \in {P, A, B}} \union
          {{Decl(A, <<Cls("D")>>), Decl(A, <<Cls("D"), Fn("f")>>)} \union S :
              S \in {{}, {Decl(B, <<Cls("D")>>), Decl(B, <<Cls("D"), Fn("f")>>)}}}
PyImports == {<<>>,
    << Import(M, "here", 0, <<"a">>, {N("f", "")}, "") >>,
    << Import(M, "here", 0, <<"a">>, {N("f", "g")}, "") >>,
    << Import(M, "here", 0, <<"a">>, {N("*", "")}, "") >>,
    << Import(M, "here", 0, <<>>, {N("f", "")}, "") >>,
    << Import(M, "here", 1, <<"p", "a">>, {N("f", "")}, "") >>,
    << Import(M, "root", 0, <<"p", "a">>, {N("f", "")}, ""),
       Import(M, "here", 0, <<>>, {N("f", "")}, "") >>,
    << Import(M, "root", 0, <<"p", "a">>, {}, "D") >>,
    << Import(M, "root", 0, <<"src", "p", "a">>, {}, "") >>,
    << Import(M, "outside", 0, <<"a">>, {N("f", "")}, "") >>}
PyCalls ==
    {[Nothing EXCEPT !.files = <<P, A, M, B>>,
                     !.decls = {Decl(M, <<Cls("C")>>), Decl(M, Method)} \union o \union e,
                     !.imports = i,
                     !.bare = {[file |-> M, place |-> Method, name |-> n] : n \in {"f", "g"}} \union
                              {[file |-> M, place |-> p, name |-> "f"] :
                                 p \in {<<Fn("lost")>>, <<Cls("C")>>, <<Fn("m"), Cls("C"), Fn("m")>>}},
                     !.dotted = {[file |-> M, place |-> Method, receiver |-> r, name |-> "f"] :
                                   r \in {"self", "D", "a", ""}} ] :
        o \in OwnF, e \in OtherF, i \in PyImports}

(* Java: an interface in one of two packages, and classes that implement it *)
(* and have it injected.                                                   *)
I == File(<<"x", "I">>, "java")
J == File(<<"y", "I">>, "java")
S1 == File(<<"x", "S">>, "java")
S2 == File(<<"x", "T">>, "java")
U == File(<<"x", "U">>, "java")
Of(file, place, name, kind) == [file |-> file, place |-> place, name |-> name, kind |-> kind]
Java == {Decl(S1, <<Cls("S")>>), Decl(S2, <<Cls("T")>>), Decl(U, <<Cls("U")>>)}
Heritage == {Of(S1, <<Cls("S")>>, "I", "implements"), Of(S2, <<Cls("T")>>, "I", "implements"),
             Of(S2, <<Cls("T")>>, "S", "extends"), Of(S2, <<Cls("T")>>, "S", "implements")}
Nested == {Of(S2, <<Cls("T"), Cls("N")>>, "I", "implements")}
Spring(heritage) ==
    {[Nothing EXCEPT !.files = <<I, S1, S2, U, J>>,
        !.decls = Java \union {Decl(f, <<Cls("I")>>) : f \in i} \union {Decl(p.file, p.place) : p \in h},
        !.parents = h,
        !.imports = im,
        !.deps = {[file |-> U, place |-> <<Cls("U")>>, name |-> n] : n \in w},
        !.models = {[file |-> S1, place |-> <<Cls("S")>>, table |-> "s", conf |-> "EXTRACTED"]}] :
      h \in heritage, i \in {{I}, {J}, {I, J}}, w \in {{"I"}, {"S"}, {"I", "S"}, {"Gone"}},
      im \in {<<>>, << Import(U, "root", 0, <<"y", "I">>, {N("I", "")}, "") >>}}

(* FastAPI: handlers of the module, of a class and of an app factory.       *)
Handlers == {<<Fn("h")>>, <<Cls("C"), Fn("h")>>, <<Fn("create_app"), Fn("h")>>}
FastApi(places) ==
    {[Nothing EXCEPT !.files = <<P, A, M>>,
        !.decls = {Decl(A, <<Fn("db")>>), Decl(M, <<Cls("C")>>), Decl(M, <<Fn("create_app")>>),
                   Decl(M, place), Decl(M, <<Cls("C"), Cls("Meta")>>)},
        !.imports = << Import(M, "here", 0, <<"a">>, {N("db", "")}, "") >>,
        !.deps = {[file |-> M, place |-> place, name |-> "db"]},
        !.parents = {Of(M, <<Cls("C"), Cls("Meta")>>, "C", "extends")},
        !.models = {[file |-> M, place |-> <<Cls("C")>>, table |-> "c", conf |-> "INFERRED"]}] :
       place \in places}

(* One import in every language with modules, from a directory to its      *)
(* neighbour, and the methods of a type that is declared elsewhere.        *)
Pair(ext, from, up, rest, more) ==
    LET here == File(<<"s", "u", "m">>, ext)
        there == File(<<"s", "v", "a">>, ext)
    IN [Nothing EXCEPT !.files = <<here>> \o <<there>> \o more,
          !.decls = {Decl(there, <<Fn("f")>>), Decl(here, <<Fn("g")>>),
                     Decl(here, <<Cls("R"), Fn("m")>>)} \union
                    {Decl(more[i], <<Fn("f")>>) : i \in 1..Len(more)},
          !.imports = << Import(here, from, up, rest, {N("f", "")}, "") >>,
          !.bare = {[file |-> here, place |-> <<Fn("g")>>, name |-> "f"]},
          !.dotted = {[file |-> here, place |-> <<Cls("R"), Fn("m")>>, receiver |-> "self",
                       name |-> "m"]}]
Languages ==
    {Pair("ts", "here", 1, <<"v", "a">>, <<File(<<"s", "v", "a">>, "js")>>),
     Pair("tsx", "here", 1, <<"v", "a">>, <<File(<<"v", "a">>, "ts")>>),
     Pair("pyi", "here", 1, <<"v", "a">>, <<>>),
     Pair("js", "here", 1, <<"v">>, <<File(<<"s", "v", "index">>, "js")>>),
     Pair("java", "root", 0, <<"v", "a">>, <<File(<<"w", "a">>, "java")>>),
     Pair("java", "root", 0, <<"v", "a", "f">>, <<>>),
     Pair("rs", "root", 0, <<"v", "a", "f">>, <<File(<<"s", "v", "a", "mod">>, "rs")>>),
     Pair("go", "root", 0, <<"s", "v">>, <<File(<<"s", "v", "b">>, "go")>>),
     Pair("dart", "here", 1, <<"v", "a">>, <<>>),
     Pair("c", "here", 1, <<"v", "a">>, <<File(<<"s", "v", "a">>, "h")>>)}

(* An abstract class of TypeScript has parents and no symbol.               *)
Abstract ==
    LET t == File(<<"s", "t">>, "ts")
    IN {[Nothing EXCEPT !.files = <<t>>, !.decls = {Decl(t, <<Cls("B")>>)},
                        !.parents = {Of(t, <<Cls("A")>>, "B", "extends")}]}

(* Three commits of two authors over two sources and a file that is none.   *)
Commits ==
    {[Nothing EXCEPT !.files = <<A, M>>,
        !.commits = {[sha |-> 1, author |-> "x", files |-> c], [sha |-> 2, author |-> "y", files |-> d],
                     [sha |-> 3, author |-> "x", files |-> e]}] :
       c \in SUBSET {A, M}, d, e \in SUBSET {A, M, J}}

MCEdited == FastApi({<<Fn("h")>>})
MCRepos == PyCalls \union Languages \union Commits \union Abstract \union FastApi(Handlers) \union
           Spring((SUBSET Heritage) \union {Nested, Nested \union Heritage})
=============================================================================
