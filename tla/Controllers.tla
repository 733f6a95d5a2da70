----------------------------- MODULE Controllers -----------------------------
(***************************************************************************)
(* Routes that are methods of classes (contracts/http/providers/spring.py, *)
(* nestjs.py, flask_appbuilder.py, jaxrs.py). A repository has files,      *)
(* declarations and imports, as the Resolver takes them, and classes, in   *)
(* the order they are visited; a class has members, in order, and a member *)
(* the verbs and paths of its annotations.                                 *)
(***************************************************************************)
EXTENDS HttpPaths, Resolver

CONSTANT MaxSubresourceDepth   \* 6 in the code

None == <<"none">>             \* an annotation or an attribute that is not there
\* What an annotation's path is read as: none where it is computed.
Given(path) == IF path \in {None, Computed} THEN <<>> ELSE path
ApiVersion == "v1"

MethodOf(class, member) == Symbol(class.file, <<class.name, member.name>>)

Trimmed(path) == LET front == {i \in 1..Len(path) : path[i] # "/"}
                 IN IF front = {} THEN <<>> ELSE TrimRight(From(path, Min(front)))
Rooted(path) == IF path = <<>> THEN <<>> ELSE <<"/">> \o path
\* Mutant: the parts as they are written.
JoinPathsBare(prefix, path) == prefix \o path

\* _join of nestjs.py and jaxrs.py: one slash before each part.
JoinPaths(prefix, path) ==
    LET joined == Rooted(Trimmed(prefix)) \o Rooted(Trimmed(path))
    IN IF joined = <<>> THEN <<"/">> ELSE joined

\* The last path that an annotation gives; "*" for a mapping without a method.
PathOf(member) ==
    LET given == {i \in 1..Len(member.annos) : Given(member.annos[i].path) # <<>>}
    IN IF given = {} THEN <<>> ELSE member.annos[Max(given)].path
AnnoVerbs(anno) == IF anno.verbs = {} THEN {"*"} ELSE anno.verbs

\* Spring: every class counts, the path follows the prefix as it is written.
SpringRoutes(class, member) ==
    UNION {Declared(verb, Given(class.path) \o PathOf(member), MethodOf(class, member), "EXTRACTED")
             : verb \in UNION {AnnoVerbs(member.annos[i]) : i \in 1..Len(member.annos)}}

\* NestJS: of a controller only, each decorator for itself.
NestRoutes(class, member) ==
    IF class.path = None THEN {}
    ELSE UNION {UNION {Declared(verb, JoinPaths(Given(class.path), Given(anno.path)),
                                      MethodOf(class, member), "EXTRACTED") : verb \in anno.verbs} : anno \in ToSet(member.annos)}

\* Flask-AppBuilder, _api_prefix: the base that the class names, or its resource, or
\* else its own name without the suffix.
FabBase(class) ==
    LET version == IF class.version = None THEN <<ApiVersion>> ELSE class.version
        api(name) == <<"/", "api", "/">> \o version \o <<"/">> \o name
    IN IF class.base # None THEN [path |-> class.base, conf |-> "EXTRACTED"]
       ELSE IF class.resource # None THEN [path |-> api(class.resource), conf |-> "EXTRACTED"]
       ELSE [path |-> api(class.stem), conf |-> "INFERRED"]

FabRoutes(class, member) ==
    IF ~class.api THEN {}
    ELSE UNION {UNION {Declared(verb, FabBase(class).path \o anno.path, MethodOf(class, member),
                                FabBase(class).conf)
                         : verb \in (IF anno.verbs = {} THEN {"get"} ELSE anno.verbs)}
                  : anno \in {a \in ToSet(member.annos) : a.path # None}}

\* One set of contracts for each method, in the order of the walk.
ByMember(classes, Routes(_, _)) ==
    Firsts(FlattenSeq([c \in 1..Len(classes) |->
        [m \in 1..Len(classes[c].members) |-> Routes(classes[c], classes[c].members[m])]]))
-----------------------------------------------------------------------------
(* JAX-RS. A method with a path and no verb is a locator: the class that it *)
(* returns serves what is below its path.                                  *)
NotResources == {"void", "Response", "String", "boolean", "int", "long", "double", "float",
                 "char", "byte", "short"}
Locator(member) ==
    member.verbs = {} /\ member.path # None /\ member.returns \notin NotResources

Indexes(classes, Test(_)) ==
    SelectSeq([c \in 1..Len(classes) |-> c], LAMBDA c : Test(classes[c]))

\* _resolve_resource_class: the classes of that name, of the files that the name means
\* if any is among them; for an interface, the one class that implements it.
Resources(r, file, name) ==
    LET named  == Indexes(r.classes, LAMBDA class : class.name = name)
        behind == Indexes(r.classes, LAMBDA class : name \in class.implements)
        narrow(files) == LET meant == SelectSeq(named, LAMBDA c : r.classes[c].file \in files)
                         IN IF meant = <<>> THEN named ELSE meant
        concrete(classes) ==
            [classes |-> classes, conf |-> IF Len(classes) > 1 THEN "AMBIGUOUS" ELSE "EXTRACTED"]
    IN IF named # <<>> THEN concrete(narrow({f.file : f \in NameFiles(r, file, name)}))
       ELSE [classes |-> IF Len(behind) = 1 THEN behind ELSE <<>>, conf |-> "INFERRED"]

Leaf(class, member, prefix, conf) ==
    UNION {Declared(verb, JoinPaths(prefix, Given(member.path)), MethodOf(class, member), conf) : verb \in member.verbs}

\* _emit_class_routes: what a class serves below a prefix, as a sequence of sets, at a
\* depth and with the classes that were visited on the way to it.
ClassRoutes(r) ==
    LET id(c) == <<r.classes[c].file, r.classes[c].name>>
        routes[c \in DOMAIN r.classes, prefix \in Seq(STRING), conf \in Grades, depth \in Nat,
               visited \in SUBSET {id(t) : t \in DOMAIN r.classes}] ==
            LET class == r.classes[c]
                seen  == visited \union {id(c)}
                through(below, found) ==
                    LET fresh == SelectSeq(found.classes, LAMBDA t : id(t) \notin seen)
                    IN IF found.classes = <<>> \/ depth >= MaxSubresourceDepth
                       THEN <<Declared("*", below, Nowhere, "AMBIGUOUS")>>
                       ELSE FlattenSeq([i \in 1..Len(fresh) |->
                                routes[fresh[i], below, Weaker(conf, found.conf), depth + 1, seen]])
                of(member) == IF member.verbs # {} THEN <<Leaf(class, member, prefix, conf)>>
                              ELSE IF Locator(member)
                              THEN through(JoinPaths(prefix, Given(member.path)), Resources(r, class.file, member.returns))
                              ELSE <<>>
            IN FlattenSeq([m \in 1..Len(class.members) |-> of(class.members[m])])
    IN routes

\* Mutant: the application's path is left out.
AppPrefixNone(r) == <<>>

\* The one @ApplicationPath; of several that differ, none.
AppPrefix(r) ==
    LET paths == {Given(r.classes[c].app) : c \in {k \in DOMAIN r.classes : r.classes[k].app # None}}
    IN IF Cardinality(paths) = 1 THEN CHOOSE p \in paths : TRUE ELSE <<>>

ResourceRoutes(r) ==
    Firsts(FlattenSeq([c \in 1..Len(r.classes) |->
        IF r.classes[c].path = None THEN <<>>
        ELSE ClassRoutes(r)[c, JoinPaths(AppPrefix(r), Given(r.classes[c].path)), "EXTRACTED", 0, {}]]))
=============================================================================
