---------------------------- MODULE MCExtractors ----------------------------
(* Small repositories for Extractors, a family for each kind of extractor.   *)
EXTENDS Extractors, TLC

MCLowerCase == [Users |-> "users", ORDERS |-> "orders"]
MCVerbOf == [get |-> "get", GET |-> "get", post |-> "post", POST |-> "post", delete |-> "delete"]

SeqsOf(S, n) == UNION {[1..k -> S] : k \in 0..n}

(* Paths of up to three parts, in every notation.                            *)
Word(text) == [kind |-> "word", text |-> text, notation |-> "none"]
Number == [kind |-> "number", text |-> "42", notation |-> "none"]
Hole(notation) == [kind |-> "hole", text |-> "id", notation |-> notation]
Routes == {Word("users"), Word("Users"), Number} \union {Hole(n) : n \in {"angle", "colon", "brace", "bracket"}}
Called == {Word("users"), Word("Users"), Number, Hole("template"), Hole("brace")}
Hosts == {<<>>, <<"https", ":", "/", "/", "host">>, <<"https", ":", "/", "/", "host", ":", "8000">>, <<"/", "/", "host">>}
Paths ==
    [route : SeqsOf(Routes, 2), end : {<<>>, <<"/">>}, call : SeqsOf(Called, 2), host : Hosts, query : {<<>>, <<"?", "q">>}]
    \union [route : SeqsOf(Routes, 3) \ SeqsOf(Routes, 2), end : {<<>>}, call : SeqsOf(Called, 3) \ SeqsOf(Called, 2),
            host : {<<>>}, query : {<<"/", "#", "users">>}]

(* Applications of three files; routers of one name or of two.               *)
App(prefix) == [kind |-> "app", prefix |-> prefix]
Router(prefix) == [kind |-> "router", prefix |-> prefix]
Route(object, verbs, path, handler) ==
    [object |-> object, verbs |-> verbs, listed |-> TRUE, path |-> path, named |-> TRUE, handler |-> handler]
Hung(name, of, into, prefix) == [name |-> name, of |-> of, into |-> into, prefix |-> prefix]
V1 == <<"/", "v1">>
Own(framework) == IF framework = "express" THEN {NoPrefix} ELSE {NoPrefix, <<"/", "u">>}
AppsOf(framework) ==
    {[framework |-> framework,
      files |-> <<[objects |-> [app |-> App(NoPrefix)], routes |-> <<Route("app", {"get"}, <<"/", "health">>, "health"),
                                                                       Route("app", {}, <<"/", "a">>, "a")>>,
                   mounts |-> M],
                  [objects |-> [r |-> Router(p)], routes |-> <<Route("r", {"get", "post"}, <<"/", "x">>, "x"),
                                                                [Route("r", {"get"}, path, "y") EXCEPT !.named = named]>>,
                   mounts |-> N],
                  [objects |-> IF name = "r" THEN [r |-> Router(q)] ELSE [s |-> Router(q)],
                   routes |-> <<Route(name, {"delete"}, <<"/", ":", "id">>, "z"), Route("gone", {"get"}, V1, "z")>>,
                   mounts |-> {}]>>]
        : p \in Own(framework), q \in Own(framework), path \in {<<"/">>, Computed}, named \in BOOLEAN, name \in {"r", "s"},
          M \in SUBSET {Hung("r", 2, <<1, "app">>, NoPrefix), Hung("r", 2, <<1, "app">>, V1), Hung("r", 3, <<1, "app">>, Computed),
                        Hung("s", 3, <<1, "app">>, Computed)},
          N \in SUBSET {Hung("s", 3, <<2, "r">>, <<"/", "s">>), Hung("r", 2, <<1, "app">>, <<"/", "v2">>)}}
Sound(a) == \A m \in UNION {a.files[f].mounts : f \in 1..3} : m.name \in DOMAIN a.files[m.of].objects
Apps == {a \in UNION {AppsOf(f) : f \in {"fastapi", "flask", "express"}} : Sound(a)}

(* One controller with two methods.                                          *)
Java(path) == [path |-> path, ext |-> "java"]
F1 == Java(<<"a", "One">>)
F2 == Java(<<"a", "Two">>)
F3 == Java(<<"b", "Two">>)
Anno(verbs, path) == [verbs |-> verbs, path |-> path]
Methods(paths) == [1..2 -> {[name |-> n, annos |-> <<Anno(v, p)>>] : n \in {"m", "n"}, v \in {{}, {"get"}, {"post"}}, p \in paths}]
Written == {<<>>, <<"/">>, <<"x">>, <<"/", "x">>, <<"/", "x", "/">>, Computed}
Twice(paths) == {<<[name |-> "m", annos |-> <<Anno({"get"}, p), Anno({v}, q)>>]>> : v \in {"get", "post"}, p \in paths, q \in paths}
Controlled ==
    {[framework |-> f, classes |-> <<[file |-> F1, name |-> "C", path |-> p, members |-> m]>>]
        : f \in {"spring", "nestjs"}, p \in Written \union {None},
          m \in Methods(Written) \union Twice(Written)}
    \union
    {[framework |-> "fab",
      classes |-> <<[file |-> F1, name |-> "C", api |-> a, version |-> v, base |-> b, resource |-> r, stem |-> <<"stem">>,
                     members |-> m]>>]
        : a \in BOOLEAN, v \in {None, <<"v2">>}, b \in {None, <<"/", "base">>}, r \in {None, <<"res">>},
          m \in Methods({None, <<"/", "x">>, <<"/">>}) \union Twice({None, <<"/", "x">>, <<"/">>})}

(* Resource classes that lead to each other, through interfaces too.         *)
Verbed(name, path) == [name |-> name, verbs |-> {"get"}, path |-> path, returns |-> "Response"]
Onward(path, returns) == [name |-> "to", verbs |-> {}, path |-> path, returns |-> returns]
Class(file, name, path, app, implements, members) ==
    [file |-> file, name |-> name, path |-> path, app |-> app, implements |-> implements, members |-> members]
Brings(file, rest, name) ==
    [file |-> file, from |-> "root", up |-> 0, rest |-> rest, ext |-> "", names |-> {[name |-> name, alias |-> ""]},
     alias |-> "", reexport |-> FALSE]
Resourced ==
    {[files |-> <<F1, F2, F3>>, decls |-> {[file |-> F2, place |-> <<[kind |-> "class", name |-> "Two"]>>],
                                           [file |-> F3, place |-> <<[kind |-> "class", name |-> "Two"]>>]},
      imports |-> i,
      classes |-> <<Class(F1, "One", <<"/", "one">>, a, {}, <<Verbed("list", None), Onward(<<"two">>, t)>>),
                    Class(F2, "Two", p, b, g, <<Verbed("get", <<"{", "id", "}">>), Onward(<<"/", "one">>, back)>>),
                    Class(F3, "Two", None, None, h, <<Verbed("get", <<"/", "x">>), Onward(<<"/", "far">>, "Two")>>)>>]
        : i \in {<<>>, << Brings(F1, <<"b", "Two">>, "Two") >>}, a \in {None, <<"/", "api">>}, b \in {None, <<"rest">>, Computed},
          t \in {"Two", "I", "Lost", "String"}, p \in {None, <<"/", "two">>}, back \in {"One", "Two", "I"},
          g \in {{}, {"I"}}, h \in {{}, {"I"}}}

(* Three configurations of Django that include each other, by module, by a   *)
(* variable or not at all, and a view set behind a router.                   *)
Py(path) == [path |-> path, ext |-> "py"]
Top == Py(<<"top", "urls">>)
Mid == Py(<<"mid", "urls">>)
Low == Py(<<"low", "urls">>)
ViewFile == Py(<<"mid", "views">>)
Entry(k, path, target) ==
    [kind |-> k, regex |-> FALSE, path |-> path, view |-> [module |-> <<>>, member |-> "view"], target |-> target]
Shown(path, module) == [Entry("route", path, <<>>) EXCEPT !.view.module = module]
Wrapped(path) == [Entry("route", path, <<>>) EXCEPT !.view = NoView]
Matched(path) == [Entry("route", path, <<>>) EXCEPT !.regex = TRUE]
Goes(from, target, prefix) ==
    {<<>>, <<Entry("module", prefix, target)>>, <<Entry("variable", prefix, "urls")>>, <<Entry("router", prefix, "router")>>}
    \union {<<[Entry("module", <<"^", "v", "\\", "d">>, target) EXCEPT !.regex = TRUE]>>}
Conf(entries, standard) ==
    [entries |-> entries,
     routers |-> [router |-> [standard |-> standard,
                              regs |-> <<[prefix |-> <<"sets", "/">>, view |-> [module |-> <<"views">>, member |-> "Set"]],
                                         [prefix |-> <<"sets">>, view |-> [module |-> <<>>, member |-> "Gone"]],
                                         [prefix |-> <<"none">>, view |-> NoView]>>]]]
Is(k, name) == [kind |-> k, name |-> name]
Takes(file, from, rest, name, alias) ==
    [file |-> file, from |-> from, up |-> 0, rest |-> rest, ext |-> "", names |-> {[name |-> name, alias |-> alias]},
     alias |-> "", reexport |-> FALSE]
DjangoRepos ==
    {[files |-> <<Low, Mid, Top, ViewFile>>,
      decls |-> {[file |-> ViewFile, place |-> <<Is("function", "view")>>], [file |-> ViewFile, place |-> <<Is("class", "Set")>>],
                 [file |-> ViewFile, place |-> <<Is("class", "Set"), Is("function", "get")>>]},
      imports |-> <<Takes(Top, "root", <<"mid">>, "urls", ""), Takes(Mid, "root", <<"low">>, "urls", ""),
                    Takes(Low, "root", <<"low">>, "urls", ""),
                    Takes(Mid, "here", <<>>, "views", ""), Takes(Low, "root", <<"mid">>, "views", "")>>,
      confs |-> (Top :> Conf(<<Matched(<<"^", "h", "/", Group, "$">>)>> \o t, TRUE))
                @@ (Mid :> Conf(<<Shown(<<"x", "/">>, <<"views">>), Wrapped(<<"z">>)>> \o m, FALSE))
                @@ (Low :> Conf(l \o <<Shown(<<"y", "/", "<", "int", ":", "id", ">">>, w)>>, TRUE)),
      actions |-> a]
        : t \in {x \o y : x, y \in Goes(Top, <<"mid", "urls">>, <<"a", "/">>)}
                \union Goes(Top, <<"low", "urls">>, <<"b", "/">>),
          m \in Goes(Mid, <<"low", "urls">>, <<"c", "/">>), l \in Goes(Low, <<"top", "urls">>, <<>>),
          w \in {<<"views">>, <<"mid", "views">>, <<"lost">>},
          a \in {{}, {[file |-> ViewFile, class |-> "Set", name |-> "extra", detail |-> d, verbs |-> {"post"}] : d \in BOOLEAN}}}

(* Calls.                                                                    *)
U1 == <<"/", "users">>
U2 == <<"https", ":", "/", "/", "host", "/", "users", "/", "42">>
Text(url) == [kind |-> "text", text |-> url]
Object(props) == [kind |-> "object", props |-> props]
OneUrl(url) == {Text(url), Object([url |-> url]), Object([url |-> url, method |-> "POST"]), Object([endpoint |-> url, type |-> "GET"]),
                Object([path |-> url, method |-> "get"]), Object([url |-> url, endpoint |-> U1])}
Script == [language : {"javascript", "typescript"},
           on : {"", "axios", "$", "http", "this.http", "api"},
           name : {"fetch", "axios", "get", "post", "ajax", "getJSON", "request", "query", "useQuery"},
           args : {<<>>, <<Dynamic>>}
                  \union {<<a>> : a \in OneUrl(U1) \union OneUrl(U2)}
                  \union {<<a, Object([method |-> "POST"])>> : a \in OneUrl(U2)}
                  \union {<<[kind |-> "builder", returns |-> a]>> : a \in OneUrl(U2)}
                  \union {<<[kind |-> "hook", calls |-> <<[on |-> "", name |-> "log", args |-> <<>>],
                                                           [on |-> "axios", name |-> "get", args |-> <<a>>]>>]>> : a \in OneUrl(U2)}]
Pythonic == [language : {"python"}, on : {"requests", "client", "dict"}, name : {"get", "request", "items"},
             args : {<<Text(U1)>>, <<[kind |-> "fstring", text |-> U1]>>, <<Text(<<"POST">>), Text(U2)>>, <<Dynamic>>}]
Javan == [language : {"java"}, on : {"restTemplate", "webClient", "interface", "map"},
          name : {"getForObject", "put", "exchange", "uri", "get"}, before : {"get", "of"}, prefix : {<<>>, <<"/", "api">>},
          args : {<<Text(U1)>>, <<Text(U2), [kind |-> "verb", text |-> "POST"]>>}]

(* A proto file, a servicer and a stub, in one directory or two.             *)
Refs == [dir : {<<"a">>, <<"a", "b">>}, import : {"none", "flat"}, up : {0}, package : {<<>>}, module : {"m", "n"}]
        \union [dir : {<<"a">>, <<"a", "b">>}, import : {"relative"}, up : 0..1, package : {<<>>, <<"b">>}, module : {"m"}]
        \union [dir : {<<"a">>}, import : {"package"}, up : {0}, package : {<<"a">>, <<"a", "b">>}, module : {"m"}]
Protos == {p \in Refs : p.import = "none"}
With(r, f) == f @@ r
Grpc == {[proto |-> With(p, [rpcs |-> {<<"S", "get">>, <<"S", "put">>, <<"T", "get">>}]),
          class |-> With(c, [service |-> s, methods |-> {"get", "_help"}, private |-> {"_help"}]),
          stub |-> With(b, [service |-> "S", called |-> {"get", "put", "_help"}])]
            : p \in Protos, c \in Refs, b \in Refs, s \in {"S", "T"}}

(* Up to three registrations in two registries, with a cap of two.           *)
Regs == [registry : {"A"}, form : {"decorator", "entry"}, given : {"literal"}, key : {AnyKey, 1, 2}, name : {3},
         symbol : {1, 2}, line : {1}]
        \union [registry : {"A"}, form : {"decorator"}, given : {"none", "computed"}, key : {AnyKey}, name : {3},
                symbol : {1, 2}, line : {1}]
        \union [registry : {"A", "B"}, form : {"entry"}, given : {"literal", "computed"}, key : {1}, name : {1},
                symbol : {3}, line : {1}]
Registries == {[regs |-> [i \in DOMAIN rs |-> [rs[i] EXCEPT !.line = i]], site |-> [registry |-> "A", key |-> k]]
                 : rs \in SeqsOf(Regs, 3), k \in {{}, {AnyKey}, {1}, {3}}}

ToolNames == {<<"get", "-", "it">>, <<"get", "/", ".", "it">>, <<"get", "_", "it">>, <<"get">>, <<>>}
Givens == {"keyword", "position", "computed", "none"}
Servers == {[file |-> [tools |-> {[function |-> m, given |-> g, name |-> n, on |-> o, symbol |-> 1],
                                  [function |-> m, given |-> "none", name |-> <<>>, on |-> "mcp", symbol |-> 2]}, servers |-> s],
             called |-> c] : n \in ToolNames, m \in ToolNames \ {<<>>}, g \in Givens, o \in {"mcp", "app", "other"},
                             s \in {{}, {"app"}}, c \in ToolNames}

(* What a function publishes and another subscribes to.                      *)
Publishes == [name : {"send"}, producer : BOOLEAN, topic : {"", "t"}, exchange : {""}, key : {""}]
             \union [name : {"basic_publish"}, producer : {FALSE}, topic : {""}, exchange : {"", "e", "x", Variable}, key : {"", "q", "k"}]
Subscribes == [name : {"subscribe", "listener"}, consumer : BOOLEAN, topics : {{}, {"t"}, {"t", "u"}}, queue : {""},
               exchange : {""}, key : {""}]
              \union [name : {"basic_consume", "queue_declare", "queue_bind"}, consumer : {FALSE}, topics : {{}}, queue : {"", "q"},
                      exchange : {Variable, "e"}, key : {"", "q", "k"}]
Binds == {s \in Subscribes : s.name = "queue_bind" /\ s.queue = ""}
Messages == {[publishes |-> p, subscribes |-> s] : p \in SeqsOf(Publishes, 2), s \in SeqsOf(Subscribes, 1)}
            \union {[publishes |-> p, subscribes |-> s] : p \in SeqsOf(Publishes, 1), s \in [1..2 -> Binds]}

MCRepos ==
    [paths |-> Paths, mounts |-> Apps, controllers |-> Controlled, resources |-> Resourced, confs |-> DjangoRepos,
     calls |-> Script \union Pythonic \union Javan, grpc |-> Grpc, registry |-> Registries, tools |-> Servers,
     messages |-> Messages]
=============================================================================
