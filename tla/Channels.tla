------------------------------ MODULE Channels ------------------------------
(***************************************************************************)
(* The contracts that are not HTTP: gRPC services by their generated       *)
(* module, tools of registries and of MCP servers by name, messages by     *)
(* topic, queue or exchange (contracts/grpc, dispatch, mcp, messaging).    *)
(***************************************************************************)
EXTENDS SequencesExt, FiniteSetsExt

CONSTANT FanoutCap      \* 25 in the code

(* gRPC. A reference to a service is in a directory; `import' says how its  *)
(* module gets into the file: flat, relative (`up' directories), by a       *)
(* dotted package, or by nothing that was seen.                            *)

\* Mutant: a sibling is known by its name alone.
FlatModuleBare(dir, name) == <<"path", <<name>>>>

\* grpc_flat_module_id: a sibling of the file.
FlatModule(dir, name) == <<"path", Append(dir, name)>>

\* grpc_module_alias_table, _qualify_module and grpc_resolve_module.
ModuleOf(ref) ==
    CASE ref.import = "package"  -> <<"dotted", Append(ref.package, ref.module)>>
      [] ref.import = "relative" ->
            <<"path", SubSeq(ref.dir, 1, IF ref.up < Len(ref.dir) THEN Len(ref.dir) - ref.up ELSE 0)
                      \o ref.package \o <<ref.module>>>>
      [] OTHER -> FlatModule(ref.dir, ref.module)

\* proto_scan: protoc puts the module beside the file.
ProtoModule(proto) == FlatModule(proto.dir, proto.module)

GrpcId(module, service, method) == <<module, service, method>>
ProtoContracts(proto) == {GrpcId(ProtoModule(proto), s[1], s[2]) : s \in proto.rpcs}
\* A servicer's methods but the private ones; what is called on a stub.
ServicerContracts(class) ==
    {GrpcId(ModuleOf(class), class.service, m) : m \in class.methods \ class.private}
StubContracts(stub) == {GrpcId(ModuleOf(stub), stub.service, m) : m \in stub.called}
-----------------------------------------------------------------------------
(* Registries. Registrations are numbered in the order of the scan; each is *)
(* a decorator, or an entry of a dictionary, and has a registry, a handler  *)
(* and a key, which is a literal, computed, or none. Keys and handlers sort *)
(* as numbers do.                                                          *)
AnyKey == 0
\* A decorator without a literal key registers the function's name.
KeyOf(reg) == IF reg.given = "literal" THEN reg.key ELSE reg.name
\* An entry counts with a literal key only.
Registers(reg) == reg.form = "decorator" \/ reg.given = "literal"
Registered(regs) ==
    {[registry |-> r.registry, key |-> KeyOf(r), symbol |-> r.symbol, line |-> r.line]
        : r \in {x \in ToSet(regs) : Registers(x)}}

\* Mutant: the cap is on registrations as they are found.
FannedOutFound(regs, registry) ==
    Registered(SubSeq(regs, 1, IF Len(regs) < FanoutCap THEN Len(regs) ELSE FanoutCap))
    \intersect {x \in Registered(regs) : x.registry = registry}

\* The handlers of a registry that a key unknown here may mean: the first of them.
FannedOut(regs, registry) ==
    LET all    == {x \in Registered(regs) : x.registry = registry}
        before(x, y) == \/ x.key < y.key
                        \/ x.key = y.key /\ x.symbol < y.symbol
                        \/ x.key = y.key /\ x.symbol = y.symbol /\ x.line < y.line
    IN {x \in all : Cardinality({y \in all : before(y, x)}) < FanoutCap}

\* extract_registry_providers: each handler by its key, and under any key.
RegistryContracts(regs) ==
    {[id |-> <<x.registry, x.key>>, symbol |-> x.symbol] : x \in Registered(regs)}
    \union UNION {{[id |-> <<name, AnyKey>>, symbol |-> x.symbol] : x \in FannedOut(regs, name)}
                    : name \in {x.registry : x \in Registered(regs)}}

\* dispatch_sites: a literal key, or any.
DispatchId(site) == <<site.registry, IF site.key = {} THEN AnyKey ELSE CHOOSE k \in site.key : TRUE>>
-----------------------------------------------------------------------------
(* MCP. A name is a sequence of tokens, separators among them. A tool is a  *)
(* function with a name, to which its decorator may give another one: by    *)
(* keyword, by position, or a computed one.                                *)
Separators == {".", "/", "-"}

\* normalize_tool_name: a run of separators is one underscore.
ToolName(name) ==
    FlattenSeq([i \in 1..Len(name) |->
        IF name[i] \notin Separators THEN <<name[i]>>
        ELSE IF i > 1 /\ name[i - 1] \in Separators THEN <<>> ELSE <<"_">>])

\* Only a literal that is given by keyword is read.
ReadName(tool) == IF tool.given = "keyword" THEN tool.name ELSE tool.function

\* A decorator counts on a server of the file, or where it has none by convention.
ToolContracts(file) ==
    {[id |-> ToolName(ReadName(t)), symbol |-> t.symbol] : t \in
        {x \in file.tools : /\ ToolName(ReadName(x)) # <<>>
                            /\ IF file.servers = {} THEN x.on \in {"mcp", "server"} ELSE x.on \in file.servers}}
-----------------------------------------------------------------------------
(* Messages. Topics, queues and keys are "" when they are absent or no      *)
(* literals; an exchange that is no literal is Variable, and read as absent. *)
(* `match' is the routing key of an AMQP exchange, or what is bound to it.  *)
Variable == "(variable)"
Exchange(call) == IF call.exchange = Variable THEN "" ELSE call.exchange
Site(kind, name, match) == {[id |-> <<kind, name>>, match |-> match]}

\* Mutant: a message goes to the queue that its key names, whatever the exchange.
PublishSiteQueue(call) ==
    CASE call.name = "send" /\ call.producer /\ call.topic # "" -> Site("topic", call.topic, "")
      [] call.name = "basic_publish" /\ call.key # "" -> Site("queue", call.key, "")
      [] call.name = "basic_publish" /\ Exchange(call) # "" -> Site("amqp", Exchange(call), call.key)
      [] OTHER -> {}

\* publishers._classify; `produce' is `send'.
PublishSite(call) ==
    CASE call.name = "send" /\ call.producer /\ call.topic # "" -> Site("topic", call.topic, "")
      [] call.name = "basic_publish" /\ Exchange(call) # "" -> Site("amqp", Exchange(call), call.key)
      [] call.name = "basic_publish" /\ Exchange(call) = "" /\ call.key # "" -> Site("queue", call.key, "")
      [] OTHER -> {}

\* subscribers._py_channels, and Java's listeners.
SubscribeSites(call) ==
    CASE (call.name = "subscribe" /\ call.consumer) \/ call.name = "listener" ->
            UNION {Site("topic", t, "") : t \in call.topics}
      [] call.name \in {"basic_consume", "queue_declare"} /\ call.queue # "" -> Site("queue", call.queue, "")
      [] call.name = "queue_bind" /\ Exchange(call) # "" -> Site("amqp", Exchange(call), call.key)
      [] OTHER -> {}

\* The contracts of the calls of one function, in order: the first of an id is kept,
\* with its match.
OfFunction(calls, Sites(_)) ==
    UNION {{c \in Sites(calls[i]) : \A j \in 1..(i - 1) : \A d \in Sites(calls[j]) : d.id # c.id}
            : i \in DOMAIN calls}
=============================================================================
