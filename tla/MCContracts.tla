----------------------------- MODULE MCContracts -----------------------------
(* Small repositories for Contracts: one HTTP path, one rpc, one exchange.  *)
EXTENDS Contracts, TLC

CONSTANTS h1, h2, u1, u2

Verb == "http::GET::/x"
Verbless == "http::*::/x"
Rpc == "grpc::S/m"
Exchange == "amqp::e"

MCIds      == {Verb, Verbless, Rpc, Exchange}
MCProtocol == Verb :> "http" @@ Verbless :> "http" @@ Rpc :> "grpc" @@ Exchange :> "amqp"
MCWildcard == Verb :> Verbless @@ Verbless :> Verbless

Site(id, s, c, k, at) == [id |-> id, symbol |-> s, conf |-> c, spec |-> s = Unlocated,
                          key |-> k, at |-> at]
Tiers == {"EXTRACTED", "INFERRED"}

(* Some symbol, or none, is not a node of the graph.                        *)
Graphs == {Symbols} \union {Symbols \ {s} : s \in Symbols}

(* One site at most per id and symbol: all of the sets that choose one.     *)
Chosen(S) == {T \in SUBSET S : \A s, t \in T : s.id = t.id /\ s.symbol = t.symbol => s = t}

HttpCode ==
    [provided : Chosen({Site(i, h, c, <<>>, 1) : i \in {Verb, Verbless}, h \in {h1, h2}, c \in Tiers}),
     called : Chosen({Site(Verb, u1, c, <<>>, 1) : c \in Tiers} \union
                     {Site(i, u2, "INFERRED", <<>>, 2) : i \in {Verb, Verbless}}),
     documented : SUBSET {Verb}, graph : Graphs]

GrpcCode ==
    [provided : Chosen({Site(Rpc, h, c, <<>>, 1) : h \in {h1, h2}, c \in Tiers} \union
                       {Site(Rpc, Unlocated, "EXTRACTED", <<>>, 1)}),
     called : Chosen({Site(Rpc, u1, c, <<>>, 1) : c \in Tiers}),
     documented : {{}}, graph : Graphs]

Words(n, W) == UNION {[1..k -> W] : k \in 0..n}
MCKeys == Words(3, {"a", "b", "*", "#"})

(* All the bindings of a few words, against all keys; and two subscribers   *)
(* against two publishers, or two bindings of one.                          *)
OneBinding ==
    [provided : {{Site(Exchange, h1, "EXTRACTED", k, 1)} : k \in MCKeys},
     called : {{Site(Exchange, u1, "EXTRACTED", k, 1)} : k \in Words(3, {"a", "b"})},
     documented : {{}}, graph : {Symbols}]
Some == {<<>>, <<"a", "b">>, <<"a", "*">>, <<"*", "b">>, <<"#">>, <<"b">>}
TwoBindings ==
    [provided : {{Site(Exchange, h1, "EXTRACTED", k, 1), Site(Exchange, h2, "EXTRACTED", j, 1)} :
                   k \in Some, j \in Some},
     called : {{Site(Exchange, u1, "EXTRACTED", k, 1), Site(Exchange, u2, "EXTRACTED", j, 1)} :
                   k, j \in {<<>>, <<"a", "b">>, <<"b">>}},
     documented : {{}}, graph : {Symbols}]
SecondBinding ==
    [provided : {{Site(Exchange, h1, "EXTRACTED", k, 1), Site(Exchange, h1, "EXTRACTED", j, 2)} :
                   k, j \in {<<"a", "*">>, <<"#", "b">>, <<"b">>}},
     called : {{Site(Exchange, u1, "EXTRACTED", k, 1)} : k \in {<<"a", "b">>, <<"b">>}},
     documented : {{}}, graph : {Symbols}]

MCCodebases == HttpCode \union GrpcCode \union OneBinding \union TwoBindings \union SecondBinding
=============================================================================
