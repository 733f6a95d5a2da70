----------------------------- MODULE ImportPaths -----------------------------
(***************************************************************************)
(* The file an import means (static/resolver.py, _resolve_import_to_file). *)
(* A file is its path without the suffix, and the suffix.  An import has   *)
(* the file it is in, its module path - `from' the importer's directory    *)
(* ("here", `up' levels above it), from the top of the repository ("root") *)
(* or from elsewhere ("outside": a package, a system header, a Java        *)
(* wildcard) - and a suffix when it spells one.  Nothing is left of the    *)
(* path in Python's `from . import' alone.                                 *)
(***************************************************************************)
EXTENDS Naturals, Sequences

LanguageOf ==
    [py |-> "python", pyi |-> "python", ts |-> "typescript", tsx |-> "tsx", js |-> "javascript",
     jsx |-> "javascript", mjs |-> "javascript", cjs |-> "javascript", java |-> "java",
     rs |-> "rust", go |-> "go", swift |-> "swift", dart |-> "dart", c |-> "c", h |-> "c"]
Language(file) == LanguageOf[file.ext]
Scripts == <<"ts", "tsx", "js", "jsx", "mjs", "cjs">>

EndsWith(path, tail) ==
    Len(tail) <= Len(path) /\ SubSeq(path, Len(path) - Len(tail) + 1, Len(path)) = tail

(* What an import asks for in one attempt: a path from the top of the       *)
(* repository, or one below any directory.                                 *)
At(path, ext)    == [path |-> path, ext |-> ext, below |-> FALSE]
Below(path, ext) == [path |-> path, ext |-> ext, below |-> TRUE]
Fits(file, ask) ==
    /\ file.ext = ask.ext
    /\ IF ask.below THEN EndsWith(file.path, ask.path) ELSE file.path = ask.path

Directory(file) == SubSeq(file.path, 1, Len(file.path) - 1)
Ancestor(dir, up) == SubSeq(dir, 1, IF up < Len(dir) THEN Len(dir) - up ELSE 0)

(* _normalize_relative, and the walk of the leading dots in Python.         *)
Base(imp) ==
    (IF imp.from = "here" THEN Ancestor(Directory(imp.file), imp.up) ELSE <<>>) \o imp.rest

(* The attempts of each language, in order; those of one set are equal.     *)
PythonAsks(imp) ==
    LET package == Base(imp) \o <<"__init__">>
    IN << {At(Base(imp), "py")}, {At(package, "py")} >> \o
       (IF imp.from = "here" THEN <<>>
        ELSE << {Below(Base(imp), "py"), Below(package, "py")} >>)

ScriptAsks(imp) ==
    IF imp.ext # "" THEN << {At(Base(imp), imp.ext)} >>
    ELSE [i \in 1..Len(Scripts) |-> {At(Base(imp), Scripts[i])}] \o
         [i \in 1..Len(Scripts) |-> {At(Base(imp) \o <<"index">>, Scripts[i])}]

(* The whole path, then the path without its last part, which may be an     *)
(* item of the module.                                                     *)
Lengths(path) == IF Len(path) > 1 THEN << path, SubSeq(path, 1, Len(path) - 1) >> ELSE <<path>>
JavaAsks(imp) == [i \in 1..Len(Lengths(imp.rest)) |-> {Below(Lengths(imp.rest)[i], "java")}]
RustAsks(imp) ==
    [i \in 1..(2 * Len(Lengths(imp.rest))) |->
        LET path == Lengths(imp.rest)[(i + 1) \div 2]
        IN {Below(IF i % 2 = 1 THEN path ELSE path \o <<"mod">>, "rs")}]

CAsks(imp) == << {At(Base(imp), imp.ext)} >>
DartAsks(imp) == << {At(Base(imp), IF imp.ext = "" THEN "dart" ELSE imp.ext)} >>

Asks(imp) ==
    IF imp.from = "outside" THEN <<>>
    ELSE CASE Language(imp.file) = "python" -> PythonAsks(imp)
           [] Language(imp.file) \in {"typescript", "tsx", "javascript"} -> ScriptAsks(imp)
           [] Language(imp.file) = "java" -> JavaAsks(imp)
           [] Language(imp.file) = "rust" -> RustAsks(imp)
           [] Language(imp.file) = "c" -> CAsks(imp)
           [] Language(imp.file) = "dart" -> DartAsks(imp)
           [] OTHER -> <<>>

(* The first file, in the order of the inventory, of the first attempt that *)
(* fits any; as a set of one file, or none.                                *)
Target(files, imp) ==
    LET hits(i)  == {n \in 1..Len(files) : \E ask \in Asks(imp)[i] : Fits(files[n], ask)}
        tries    == {i \in 1..Len(Asks(imp)) : hits(i) # {}}
        least(S) == CHOOSE m \in S : \A n \in S : m <= n
    IN IF tries = {} THEN {} ELSE {files[least(hits(least(tries)))]}
=============================================================================
