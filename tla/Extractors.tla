----------------------------- MODULE Extractors -----------------------------
(***************************************************************************)
(* The contract extractors (contracts/http, grpc, dispatch, mcp and        *)
(* messaging) at work on a repository: what each finds in it. The contracts *)
(* are then joined (Contracts).                                            *)
(***************************************************************************)
EXTENDS Mounts, Controllers, UrlConfs, ClientCalls, Channels

CONSTANT Repos     \* for each kind of extractor, the repositories it may look at

Names          == STRING
Registrations  == [registry : STRING, form : STRING, given : STRING, key : Nat, name : Nat, symbol : Nat, line : Nat]
PublishCalls   == [name : STRING, producer : BOOLEAN, topic : STRING, exchange : STRING, key : STRING]
SubscribeCalls == [name : STRING, consumer : BOOLEAN, topics : SUBSET STRING, queue : STRING,
                   exchange : STRING, key : STRING]

(* Of the kinds that are proved about: what is a sequence in the source is  *)
(* one here, and a call has at most one literal key.                       *)
ASSUME ReposAssumption ==
    /\ FanoutCap \in Nat
    /\ \A r \in Repos["calls"] : r.args \in Seq(ToSet(r.args))
    /\ \A r \in Repos["grpc"] : \A ref \in {r.proto, r.class, r.stub} :
         ref.dir \in Seq(Names) /\ ref.package \in Seq(Names) /\ ref.module \in Names /\ ref.up \in Nat
    /\ \A r \in Repos["grpc"] : r.proto.rpcs \subseteq Names \X Names
    /\ \A r \in Repos["registry"] :
         r.regs \in Seq(Registrations) /\ \A j, k \in r.site.key : j = k
    /\ \A r \in Repos["messages"] :
         r.publishes \in Seq(PublishCalls) /\ r.subscribes \in Seq(SubscribeCalls)

VARIABLES kind,    \* which extractors are at work
          repo,    \* the repository, as far as they look at it
          found,   \* what they have found
          pc
extractorsVars == <<kind, repo, found, pc>>

ExtractorsInit ==
    /\ kind \in DOMAIN Repos /\ repo \in Repos[kind]
    /\ found = {} /\ pc = "scan"

Scan(k, contracts) ==
    /\ pc = "scan" /\ kind = k
    /\ found' = contracts /\ pc' = "done"
    /\ UNCHANGED <<kind, repo>>

(* A path as it is written: parts in the notation of each, after the host,  *)
(* before a query.                                                         *)
Spelled(part) ==
    IF part.kind # "hole" THEN <<part.text>> ELSE
    CASE part.notation = "angle"    -> <<"<", "int", ":", part.text, ">">>
      [] part.notation = "colon"    -> <<":", part.text>>
      [] part.notation = "brace"    -> <<"{", part.text, "}">>
      [] part.notation = "bracket"  -> <<"[", part.text, "]">>
      [] part.notation = "template" -> <<"$", "{", part.text, "}">>
Path(parts) == FlattenSeq([i \in 1..Len(parts) |-> <<"/">> \o Spelled(parts[i])])

Normalise == Scan("paths", {[route |-> ProviderPath(Path(repo.route) \o repo.end),
                             call  |-> ConsumerPath(repo.host \o Path(repo.call) \o repo.query)]})
Mount     == Scan("mounts", MountContracts(repo.framework, repo.files))
Control   == Scan("controllers", CASE repo.framework = "spring" -> ByMember(repo.classes, SpringRoutes)
                                   [] repo.framework = "nestjs" -> ByMember(repo.classes, NestRoutes)
                                   [] repo.framework = "fab"    -> ByMember(repo.classes, FabRoutes))
Locate    == Scan("resources", ResourceRoutes(repo))
Configure == Scan("confs", DjangoRoutes(repo))
Call      == Scan("calls", Claims(repo))
Generate  == Scan("grpc", {[declared |-> ProtoContracts(repo.proto), served |-> ServicerContracts(repo.class),
                            called |-> StubContracts(repo.stub)]})
Dispatch  == Scan("registry", {[served |-> RegistryContracts(repo.regs), called |-> DispatchId(repo.site)]})
Tools     == Scan("tools", {[served |-> ToolContracts(repo.file), called |-> ToolName(repo.called)]})
Message   == Scan("messages", {[sent   |-> OfFunction(repo.publishes, PublishSite),
                                served |-> OfFunction(repo.subscribes, SubscribeSites)]})

ExtractorsNext ==
    \/ Normalise \/ Mount \/ Control \/ Locate \/ Configure
    \/ Call \/ Generate \/ Dispatch \/ Tools \/ Message

ExtractorsSpec == ExtractorsInit /\ [][ExtractorsNext]_extractorsVars

Done(k) == pc = "done" /\ kind = k

(***************************** properties ***********************************)
Small(text) == IF text \in DOMAIN LowerCase THEN LowerCase[text] ELSE text

\* May a call with part b mean the route with part a there? A declared number is
\* never meant: in a call every number is a parameter.
Alike(a, b) ==
    CASE a.kind = "hole" -> b.kind \in {"hole", "number"}
      [] a.kind = "word" -> b.kind = "word" /\ Small(a.text) = Small(b.text)
      [] OTHER           -> FALSE

\* A route and a call have one key exactly if their parts are alike one by one,
\* whatever the notations of parameters, the host, the query and the case.
KeysAgree ==
    Done("paths") => \A keys \in found :
        keys.route = keys.call
            <=> Len(repo.route) = Len(repo.call) /\ \A i \in DOMAIN repo.route : Alike(repo.route[i], repo.call[i])

(* Where an object is really served: an application at its prefix, a router *)
(* below each object that it is mounted into. A mount says whose object it *)
(* is (`of') and into what it goes (`into'), which the extractors do not   *)
(* know.                                                                   *)
PrefixAt(m, object) ==
    IF repo.framework = "flask"
    THEN IF m.prefix = NoPrefix THEN Literal(object.prefix) ELSE m.prefix
    ELSE (IF m.prefix = NoPrefix THEN <<>> ELSE m.prefix) \o Literal(object.prefix)
MountsOf(f, o) == {m \in UNION {repo.files[g].mounts : g \in DOMAIN repo.files} : m.of = f /\ m.name = o}
Places(f, o) ==
    LET object(g, n) == repo.files[g].objects[n]
        into(m) == object(m.into[1], m.into[2])
        at(m)   == PrefixAt(m, object(f, o))
    IN IF object(f, o).kind = "app" THEN {[base |-> Literal(object(f, o).prefix), known |-> TRUE]}
       ELSE UNION {IF into(m).kind = "app" THEN {[base |-> at(m), known |-> m.prefix # Computed]}
                   ELSE {[base |-> PrefixAt(n, into(m)) \o at(m), known |-> FALSE]
                           : n \in MountsOf(m.into[1], m.into[2])} : m \in MountsOf(f, o)}

\* Every endpoint that an application serves has a contract for its handler, at its
\* path, or at a path that ends alike where a mount's prefix is computed or a router
\* is mounted into a router (then a path of parameters alone may have none); and where
\* a router has a name of its own, what its handlers are said to serve they serve, or it
\* is mounted nowhere.
ServedIsEmitted ==
    Done("mounts") => \A f \in DOMAIN repo.files : \A route \in ToSet(repo.files[f].routes) :
        route.path # Computed /\ route.object \in DOMAIN repo.files[f].objects =>
            LET places == Places(f, route.object)
                full(p) == ProviderPath(p.base \o route.path)
                tells(c, p) == /\ c.symbol = HandlerOf(repo.framework, f, route)
                               /\ IF p.known THEN c.id[2] = full(p) ELSE IsSuffix(TrimRight(ProviderPath(route.path)), c.id[2])
                others  == {g \in DOMAIN repo.files : route.object \in DOMAIN repo.files[g].objects}
            IN /\ \A p \in places : \A verb \in VerbsOf(repo.framework, route) :
                    Noise(IF p.known THEN full(p) ELSE ProviderPath(route.path)) \/ \E c \in found : tells(c, p) /\ c.id[1] = verb
               /\ others = {f} /\ places # {} =>
                    \A c \in found : c.symbol = HandlerOf(repo.framework, f, route) =>
                        \E p \in places : tells(c, p)

Told == {<<c.id, c.symbol>> : c \in found}

(* What a controller's method serves: its path below the class's, with one  *)
(* slash before each word.                                                 *)
Words(path) == SelectSeq(path, LAMBDA token : token # "/")
Slashed(path) == FlattenSeq([i \in 1..Len(Words(path)) |-> <<"/", Words(path)[i]>>])
BelowClass(class) ==
    IF repo.framework # "fab" THEN Given(class.path)
    ELSE IF class.base # None THEN class.base
    ELSE <<"/", "api", "/">> \o (IF class.version = None THEN <<"v1">> ELSE class.version) \o <<"/">>
                  \o (IF class.resource = None THEN class.stem ELSE class.resource)
Serves(class) ==
    CASE repo.framework = "spring" -> TRUE
      [] repo.framework = "nestjs" -> class.path # None
      [] repo.framework = "fab"    -> class.api
VerbsServed(anno) ==
    IF anno.verbs # {} \/ repo.framework = "nestjs" THEN anno.verbs
    ELSE IF repo.framework = "fab" THEN {"get"} ELSE {"*"}

MethodSites == UNION {{class} \X ToSet(class.members) : class \in {c \in ToSet(repo.classes) : Serves(c)}}
\* The annotations that map a method: Flask-AppBuilder's have a literal path.
Maps(site) == {a \in ToSet(site[2].annos) : repo.framework = "fab" => a.path # None}
Whole(site, anno) == BelowClass(site[1]) \o anno.path
OfLiterals(site) ==
    repo.framework # "fab" => Computed \notin {site[1].path} \union {a.path : a \in Maps(site)}
\* What is below the class meets it with one slash, if the framework does not see to it;
\* Spring maps a method once.
Tidy(site) ==
    /\ \A a \in Maps(site) : repo.framework # "nestjs" => TrimRight(Whole(site, a)) = Slashed(Whole(site, a))
    /\ repo.framework = "spring" => \A a, b \in Maps(site) : a.path = b.path

\* A method of a serving class has the contracts of what its annotations, each for
\* itself, serve and no others, if all the paths are literals and meet their class's
\* with one slash and a method of Spring has one path; nothing else has contracts.
MethodsAreServed ==
    Done("controllers") =>
        LET named(symbol) == {s \in MethodSites : MethodOf(s[1], s[2]) = symbol}
            serves(s) == UNION {{<<v, Slashed(Whole(s, a))>> : v \in VerbsServed(a)}
                                  : a \in {b \in Maps(s) : ~Noise(Slashed(Whole(s, b)))}}
        IN /\ \A c \in found : named(c.symbol) # {}
           /\ \A symbol \in {MethodOf(s[1], s[2]) : s \in MethodSites} :
                (\A s \in named(symbol) : OfLiterals(s) /\ Tidy(s)) =>
                    {t[1] : t \in {x \in Told : x[2] = symbol}} = UNION {serves(s) : s \in named(symbol)}

\* Not so: spring.py:8 and nestjs.py:15 say that a computed path is dropped, and its
\* method is shown at the path of its class.
ComputedPathsAreDropped ==
    Done("controllers") =>
        \A c \in found : \E s \in MethodSites : MethodOf(s[1], s[2]) = c.symbol /\ OfLiterals(s)

(* What is reached from the resource classes with a path of their own: in n *)
(* steps, each through a locator to a class that is not on the way yet.    *)
ClassId(c) == <<repo.classes[c].file, repo.classes[c].name>>
Locators(c) == {m \in ToSet(repo.classes[c].members) : Locator(m)}
Targets(c, m) == Resources(repo, repo.classes[c].file, m.returns)
Reached ==
    LET apps == {Given(class.app) : class \in {c \in ToSet(repo.classes) : c.app # None}}
        root == IF \E p \in apps : apps = {p} THEN UNION {{p} : p \in apps} ELSE {<<>>}
        reach[n \in 0..MaxSubresourceDepth] ==
            IF n = 0
            THEN {[at |-> c, path |-> JoinPaths(p, Given(repo.classes[c].path)), conf |-> "EXTRACTED", way |-> {ClassId(c)}]
                    : c \in {x \in DOMAIN repo.classes : repo.classes[x].path # None}, p \in root}
            ELSE UNION {UNION {{[at |-> t, path |-> JoinPaths(w.path, Given(m.path)), conf |-> Weaker(w.conf, Targets(w.at, m).conf),
                                 way |-> w.way \union {ClassId(t)}]
                                  : t \in {c \in ToSet(Targets(w.at, m).classes) : ClassId(c) \notin w.way}}
                               : m \in Locators(w.at)} : w \in reach[n - 1]}
    IN reach

\* The methods of the classes that are reached have contracts at their paths, below
\* the application's, each as sure as one of the ways to it (a computed path counts as
\* none); where a way is cut or leads to no known class there is a contract of any verb
\* without a handler; there are no others.
ResourcesAreReached ==
    Done("resources") => \A reached \in {Reached} :
        LET ways  == UNION {reached[n] : n \in 0..MaxSubresourceDepth}
            ends  == UNION {{<<w, m>> : m \in {x \in Locators(w.at) : Targets(w.at, x).classes = <<>>
                                                                     \/ w \in reached[MaxSubresourceDepth]}} : w \in ways}
            leafs == UNION {UNION {Leaf(repo.classes[w.at], m, w.path, w.conf) : m \in ToSet(repo.classes[w.at].members)}
                              : w \in ways}
            holes == UNION {Declared("*", JoinPaths(e[1].path, Given(e[2].path)), Nowhere, "AMBIGUOUS") : e \in ends}
        IN /\ found \subseteq leafs \union holes
           /\ Told = {<<c.id, c.symbol>> : c \in leafs \union holes}

(* The configurations of Django that lead to each other, and the ways from  *)
(* one that none leads to.                                                 *)
LedTo(f, e) == IncludeTarget(repo, f, e)
Leads == UNION {UNION {{<<f, g>> : g \in LedTo(f, e)} : e \in ToSet(Entries(repo.confs[f]))} : f \in DOMAIN repo.confs}
Tops == {f \in DOMAIN repo.confs : \A g \in DOMAIN repo.confs : <<g, f>> \notin Leads}
Ways ==
    LET ways[n \in 0..Cardinality(DOMAIN repo.confs)] ==
            IF n = 0 THEN {[at |-> f, path |-> <<>>, on |-> {f}] : f \in Tops}
            ELSE UNION {UNION {{[at |-> g, path |-> w.path \o Prefix(e), on |-> w.on \union {g}]
                                  : g \in {h \in LedTo(w.at, e) : h \in DOMAIN repo.confs /\ h \notin w.on}}
                               : e \in ToSet(Entries(repo.confs[w.at]))} : w \in ways[n - 1]}
    IN UNION {ways[n] : n \in DOMAIN ways}

\* What a configuration has at the end of a way to it.
ServedOn(w) ==
    UNION {CASE e.kind = "route" -> IF e.view = NoView THEN {} ELSE RouteOf(repo, w.at, e, w.path)
             [] e.kind \in {"router", "variable"} /\ LedTo(w.at, e) = {} ->
                    UNION ToSet(RouterOf(repo, w.at, e.target, w.path \o Prefix(e)))
             [] OTHER -> {} : e \in ToSet(Entries(repo.confs[w.at]))}

\* Every route whose view is a name, and every router, of a configuration has its
\* contracts below the prefixes of each way to it from the top, and there are no others;
\* no configuration is left without a way to it unless configurations lead to each other
\* in a circle.
RoutesAreServed ==
    Done("confs") => \A ways \in {Ways} :
        /\ \A all \in {UNION {ServedOn(w) : w \in ways}} :
            found \subseteq all /\ Told = {<<c.id, c.symbol>> : c \in all}
        /\ \/ DOMAIN repo.confs = {w.at : w \in ways}
           \/ \A leads \in {Leads} : \E C \in (SUBSET DOMAIN repo.confs) \ {{}} : \A f \in C : \E g \in C : <<g, f>> \in leads

\* Not so: django.py:41-43 says that a route whose view cannot be resolved has an
\* endpoint without a handler; one whose view is a lambda or wrapped has none.
EveryRouteIsShown ==
    Done("confs") => \A w \in Ways : \A e \in ToSet(Entries(repo.confs[w.at])) :
        LET path == ProviderPath(w.path \o Prefix(e))
        IN e.kind = "route" /\ ~Noise(path) => \E c \in found : c.id[2] = path

\* Extractors that claim one call agree on what it asks for and how sure that is, if
\* it names its URL once; what axios is asked is not claimed as a configured client.
CallersAgree ==
    Done("calls") =>
        LET urls == {i \in DOMAIN repo.args : IsObject(repo.args[i]) /\ Has(repo.args[i], "url") /\ Has(repo.args[i], "endpoint")}
        IN /\ ~ {"fetch", "configured"} \subseteq {c.by : c \in found}
           /\ urls = {} => \A c, d \in found : c.verb = d.verb /\ c.path = d.path /\ c.conf = d.conf

(* Where the module is that a reference means, if it is known.              *)
Location(ref) ==
    [dir |-> IF ref.import = "relative" THEN SubSeq(ref.dir, 1, Len(ref.dir) - ref.up) \o ref.package ELSE ref.dir,
     module |-> ref.module]

\* What is called on a stub meets what a servicer or a proto file has exactly if they
\* mean one module, service and method; a module imported by its package meets only
\* what is imported alike.
CallsMeetServices ==
    Done("grpc") => \A f \in found : \A of \in {"declared", "served"} :
        LET side == IF of = "served" THEN repo.class
                    ELSE [import |-> "none", dir |-> repo.proto.dir, module |-> repo.proto.module]
            has  == IF of = "declared" THEN {m \in repo.stub.called : <<repo.stub.service, m>> \in repo.proto.rpcs}
                    ELSE IF repo.class.service = repo.stub.service
                    THEN repo.stub.called \intersect (repo.class.methods \ repo.class.private) ELSE {}
            one  == IF "package" \in {side.import, repo.stub.import}
                    THEN side.import = repo.stub.import /\ side.package = repo.stub.package /\ side.module = repo.stub.module
                    ELSE Location(side) = Location(repo.stub)
        IN {id[3] : id \in f[of] \intersect f.called} = IF one THEN has ELSE {}

(* What a name that is called meets. Of what is registered in the registry  *)
(* where it is called, the key that the source tells, and where it stands   *)
(* in the order of the handlers.                                           *)
Met(f)      == {c.symbol : c \in {x \in f.served : x.id = f.called}}
Mine        == {r \in ToSet(repo.regs) : r.registry = repo.site.registry}
OwnKey(reg) == {k \in {KeyOf(reg)} : reg.given = "literal" \/ (reg.form = "decorator" /\ reg.given = "none")}
Standing(reg) == <<KeyOf(reg), reg.symbol, reg.line>>
HandlersOf(regs) == {r.symbol : r \in regs}

KeyMeets(key, mine, met) ==
    /\ HandlersOf({r \in mine : key \in OwnKey(r)}) \subseteq met
    /\ met \subseteq HandlersOf({r \in mine : OwnKey(r) \in {{key}, {}}})
\* Where the key is not known here: of all, what counts against the cap at a handler or
\* before it.
CapMeets(all, met) ==
    LET before(x) == {r \in all : r.symbol \in met /\ KeyOf(r) <= KeyOf(x)}
    IN /\ met \subseteq HandlersOf(all) /\ Cardinality(met) <= FanoutCap
       /\ \A x \in all : x.symbol \notin met =>
            Cardinality({Standing(r) : r \in before(x)}) >= FanoutCap /\ met \subseteq HandlersOf(before(x))

\* A literal key that is called meets every handler that is known to be registered under
\* it in its registry, and no other but those whose own key is computed; a key that is
\* not known meets as many handlers of the registry as the cap allows, and misses one
\* only if so many registrations of handlers that it meets stand there or before it (a
\* literal that reads like any key is the exception).
KeysMeet ==
    Done("registry") => \A f \in found :
        LET all == {r \in Mine : Registers(r)}
        IN IF repo.site.key # {} THEN \A key \in repo.site.key : key # AnyKey => KeyMeets(key, Mine, Met(f))
           ELSE (\A r \in all : KeyOf(r) # AnyKey) => CapMeets(all, Met(f))

\* Not so: registrations.py:252 says that handlers are deduplicated before the cap; one
\* that is registered twice counts twice, and another is missed below the cap.
HandlersFillTheCap ==
    Done("registry") => \A f \in found :
        LET all == HandlersOf({r \in Mine : Registers(r)})
        IN repo.site.key = {} /\ Cardinality(Met(f)) < FanoutCap => all \subseteq Met(f)

(* A tool that a server of the file offers; its name, where it is known; the *)
(* words of a name.                                                        *)
Offered(t) == IF repo.file.servers = {} THEN t.on \in {"mcp", "server"} ELSE t.on \in repo.file.servers
OwnName(t) == CASE t.given = "keyword" -> {t.name} [] t.given = "none" -> {t.function} [] OTHER -> {}
WordsOf(name) == SelectSeq(name, LAMBDA token : token \notin Separators \union {"_"})

\* A tool that is called by its very name is met, and what is met has the words that are
\* called, in this order, or a name that is given by position or computed.
ToolsMeet ==
    Done("tools") => \A f \in found :
        /\ \A t \in repo.file.tools : Offered(t) /\ repo.called # <<>> /\ repo.called \in OwnName(t) => t.symbol \in Met(f)
        /\ \A s \in Met(f) : \E t \in repo.file.tools :
            t.symbol = s /\ Offered(t) /\ \A name \in OwnName(t) : WordsOf(name) = WordsOf(repo.called)

\* A name that is called meets what was registered or is offered by that name.
NamesMeet == KeysMeet /\ ToolsMeet

(* What one call publishes comes to another, or may come to it where names   *)
(* are not literals ("" or Variable), for all that is known: a broker brings *)
(* a topic to those who ask for it, what is sent to the default exchange to  *)
(* the queue that the key names, and what is sent to another exchange to    *)
(* those who bind the key to it (a plain one here).                         *)
Subscribing(s) == (s.name = "subscribe" /\ s.consumer) \/ s.name = "listener"
Consuming(s) == s.name \in {"basic_consume", "queue_declare"}
Comes(p, s) ==
    \/ p.name = "send" /\ p.producer /\ p.topic # "" /\ Subscribing(s) /\ p.topic \in s.topics
    \/ p.name = "basic_publish" /\ p.exchange = "" /\ p.key # "" /\ Consuming(s) /\ s.queue = p.key
    \/ /\ p.name = "basic_publish" /\ p.exchange \notin {"", Variable} /\ p.key # ""
       /\ s.name = "queue_bind" /\ s.exchange = p.exchange /\ s.key = p.key
Maybe(a, b, unknown) == a = b \/ {a, b} \intersect unknown # {}
MayCome(p, s) ==
    \/ p.name = "send" /\ p.producer /\ Subscribing(s) /\ \E t \in s.topics : Maybe(p.topic, t, {""})
    \/ p.name = "basic_publish" /\ p.exchange \in {"", Variable} /\ Consuming(s) /\ Maybe(p.key, s.queue, {""})
    \/ /\ p.name = "basic_publish" /\ p.exchange # ""
       /\ s.name = "queue_bind" /\ Maybe(p.exchange, s.exchange, {Variable}) /\ Maybe(p.key, s.key, {""})

\* Linked by their contracts (base.py, join and reconcile_amqp).
Meeting(f) ==
    \E c \in f.sent, d \in f.served : c.id = d.id /\ (c.id[1] = "amqp" => Maybe(c.match, d.match, {""}))
\* The first call of a function that names its exchange.
FirstOn(calls, i) == \A j \in 1..(i - 1) : calls[j].exchange # calls[i].exchange

\* A function that publishes and one that subscribes are linked only if what a call of
\* the one publishes may come to a call of the other, by exchange and key; and they are
\* if it is known to come there, unless an earlier call of either names the exchange.
ChannelsMeet ==
    Done("messages") => \A f \in found :
        /\ Meeting(f) => \E p \in ToSet(repo.publishes), s \in ToSet(repo.subscribes) : MayCome(p, s)
        /\ \A i \in DOMAIN repo.publishes, j \in DOMAIN repo.subscribes :
            /\ Comes(repo.publishes[i], repo.subscribes[j])
            /\ repo.subscribes[j].name = "queue_bind" => FirstOn(repo.publishes, i) /\ FirstOn(repo.subscribes, j)
            => Meeting(f)
=============================================================================
