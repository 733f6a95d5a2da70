------------------------------ MODULE Contracts ------------------------------
(***************************************************************************)
(* Cross-boundary contracts (contracts/base.py and ContractPhase of        *)
(* pipeline/phases.py): what the extractors and the specifications say of  *)
(* endpoints is reconciled, calls are joined to the handlers of the same   *)
(* contract id, AMQP links are pruned by their keys, and BuildGraphPhase   *)
(* turns the rest into Endpoint nodes and HANDLES, CALLS_ENDPOINT and      *)
(* ROUTES_TO edges of the graph.                                           *)
(*                                                                         *)
(* A site is a place that declares or calls a contract id.  `at' is its    *)
(* place in the walk of the extractor that finds it, `key' its AMQP words  *)
(* (<<>> when they are not literal), `spec' whether it is an rpc of a      *)
(* .proto file, which no symbol of the graph stands for.                   *)
(***************************************************************************)
EXTENDS AmqpTopic

CONSTANTS
    Ids,           \* contract ids
    Protocol,      \* of an id: "http", "grpc", "amqp", ...
    Wildcard,      \* the verb-less id of the path of an HTTP id
    Symbols,
    Unlocated,     \* the synthetic symbol of what only a specification knows
    Keys,          \* sequences of words
    Codebases      \* repositories: the sites in them, OpenAPI operations, and
                   \* the symbols that became nodes of the graph

Confidences == {"EXTRACTED", "INFERRED", "AMBIGUOUS"}
Sites == [id : Ids, symbol : Symbols \union {Unlocated}, conf : {"EXTRACTED", "INFERRED"},
          spec : BOOLEAN, key : Keys, at : Nat]
Links == [consumer : Symbols, provider : Symbols \union {Unlocated}, id : Ids,
          conf : Confidences]

Http(id) == Protocol[id] = "http"
Amqp(id) == Protocol[id] = "amqp"

ASSUME IdAssumption ==
    /\ Wildcard \in [{id \in Ids : Http(id)} -> {id \in Ids : Http(id)}]
    /\ Unlocated \notin Symbols
    /\ <<>> \in Keys
    /\ \A k \in Keys : k \in Seq({k[i] : i \in DOMAIN k})

(* Calls and handlers have the symbol around them, rpcs and OpenAPI         *)
(* operations none; the sites of an id in a symbol are found one by one.    *)
ASSUME CodebaseAssumption ==
    \A code \in Codebases :
        /\ code.provided \subseteq Sites
        /\ code.called \subseteq {s \in Sites : s.symbol # Unlocated /\ ~s.spec}
        /\ code.documented \subseteq {id \in Ids : Http(id)}
        /\ code.graph \subseteq Symbols
        /\ \A s \in code.provided :
             /\ s.spec <=> s.symbol = Unlocated
             /\ s.spec => ~Http(s.id) /\ ~Amqp(s.id)
        /\ \A S \in {code.provided, code.called} : \A s \in S : \E first \in S :
             /\ first.id = s.id /\ first.symbol = s.symbol
             /\ \A t \in S : t.id = s.id /\ t.symbol = s.symbol =>
                  t = first \/ first.at < t.at

VARIABLES
    code,          \* the repository
    stage,
    providers, consumers,
    links,
    endpoints,
    handles, calls, routes    \* edges

vars == <<code, stage, providers, consumers, links, endpoints, handles, calls, routes>>

Stages == {"extract", "openapi", "collapse", "join", "amqp", "endpoints", "persist", "done"}

TypeOK ==
    /\ code \in Codebases
    /\ stage \in Stages
    /\ providers \subseteq Sites
    /\ consumers \subseteq {s \in Sites : s.symbol # Unlocated /\ ~s.spec}
    /\ links \subseteq Links
    /\ endpoints \subseteq [id : Ids, spec : BOOLEAN]
    /\ handles \union calls \subseteq [symbol : Symbols, id : Ids, conf : Confidences]
    /\ routes \subseteq {l \in Links : l.provider # Unlocated}

Init ==
    /\ code \in Codebases
    /\ stage = "extract"
    /\ providers = {} /\ consumers = {} /\ links = {} /\ endpoints = {}
    /\ handles = {} /\ calls = {} /\ routes = {}
-----------------------------------------------------------------------------
(* An extractor reports the first site of a contract id in a symbol.        *)
FirstSites(S) ==
    {s \in S : \A t \in S : t.id = s.id /\ t.symbol = s.symbol => s.at <= t.at}

Extract ==
    /\ stage = "extract"
    /\ providers' = FirstSites(code.provided)
    /\ consumers' = FirstSites(code.called)
    /\ stage' = "openapi"
    /\ UNCHANGED <<code, links, endpoints, handles, calls, routes>>

(* reconcile_with_specs: operations of an OpenAPI file mark the handlers of  *)
(* their id; one without a handler becomes a provider of its own.          *)
OnlyDocumented(id) ==
    [id |-> id, symbol |-> Unlocated, conf |-> "EXTRACTED", spec |-> TRUE,
     key |-> <<>>, at |-> 0]

FoldSpecs ==
    /\ stage = "openapi"
    /\ providers' =
         {[p EXCEPT !.spec = p.spec \/ p.id \in code.documented] : p \in providers} \union
         {OnlyDocumented(id) : id \in code.documented \ {p.id : p \in providers}}
    /\ stage' = "collapse"
    /\ UNCHANGED <<code, consumers, links, endpoints, handles, calls, routes>>

(* reconcile_spec_backed: a specification of handlers that are there is    *)
(* dropped, and marks them.                                                *)
Collapse ==
    /\ stage = "collapse"
    /\ LET both == {p.id : p \in {q \in providers : q.spec}} \intersect
                   {p.id : p \in {q \in providers : ~q.spec}}
       IN providers' =
            {p \in providers : p.id \notin both} \union
            {[p EXCEPT !.spec = TRUE] : p \in {q \in providers : q.id \in both /\ ~q.spec}}
    /\ stage' = "join"
    /\ UNCHANGED <<code, consumers, links, endpoints, handles, calls, routes>>
-----------------------------------------------------------------------------
Of(id) == {p \in providers : p.id = id}

(* Mutant: calls join the exact id alone.                                   *)
MatchedExactly(c) == Of(c.id)

(* The providers a call is joined to: those of its id or, for an HTTP call  *)
(* without any, those that leave the verb open.                            *)
IsFallback(c) == Of(c.id) = {} /\ Http(c.id)
Matched(c)    == IF IsFallback(c) THEN Of(Wildcard[c.id]) ELSE Of(c.id)

(* Mutant: a unique fallback is as good as an exact match.                  *)
LinkConfidenceUncapped(c, p) ==
    IF \E q \in Matched(c) : q # p THEN "AMBIGUOUS"
    ELSE IF p.spec \/ (c.conf = "EXTRACTED" /\ p.conf = "EXTRACTED") THEN "EXTRACTED"
    ELSE "INFERRED"

(* _link_confidence.                                                       *)
LinkConfidence(c, p) ==
    IF \E q \in Matched(c) : q # p THEN "AMBIGUOUS"
    ELSE IF IsFallback(c) THEN "INFERRED"
    ELSE IF p.spec \/ (c.conf = "EXTRACTED" /\ p.conf = "EXTRACTED") THEN "EXTRACTED"
    ELSE "INFERRED"

(* join: every call with every provider it matches.                         *)
Join ==
    /\ stage = "join"
    /\ links' = UNION {{[consumer |-> c.symbol, provider |-> p.symbol, id |-> c.id,
                         conf |-> LinkConfidence(c, p)] : p \in Matched(c)} : c \in consumers}
    /\ stage' = "amqp"
    /\ UNCHANGED <<code, providers, consumers, endpoints, handles, calls, routes>>

(* How sure an AMQP link is, from the words on its two sides; "none" when   *)
(* they cannot meet.                                                       *)
MatchKind(l) ==
    LET routing == (CHOOSE c \in consumers : c.id = l.id /\ c.symbol = l.consumer).key
        binding == (CHOOSE p \in providers : p.id = l.id /\ p.symbol = l.provider).key
    IN IF routing = <<>> \/ binding = <<>> THEN "indeterminate"
       ELSE amqp_match_kind(binding, routing)

(* reconcile_amqp: what cannot meet is dropped, what is left rated anew.    *)
ReconcileAmqp ==
    /\ stage = "amqp"
    /\ LET pruned     == {l \in links : Amqp(l.id) => MatchKind(l) # "none"}
           ambiguous(l) == \E m \in pruned :
                             m.consumer = l.consumer /\ m.id = l.id /\ m.provider # l.provider
           confidence(l) == IF ~Amqp(l.id) THEN l.conf
                            ELSE IF ambiguous(l) THEN "AMBIGUOUS"
                            ELSE IF MatchKind(l) = "exact" THEN "EXTRACTED" ELSE "INFERRED"
       IN links' = {[l EXCEPT !.conf = confidence(l)] : l \in pruned}
    /\ stage' = "endpoints"
    /\ UNCHANGED <<code, providers, consumers, endpoints, handles, calls, routes>>
-----------------------------------------------------------------------------
(* _build_endpoints: one node for each id that is provided or called.       *)
BuildEndpoints ==
    /\ stage = "endpoints"
    /\ endpoints' = {[id |-> s.id, spec |-> \E t \in Of(s.id) : t.spec] :
                       s \in providers \union consumers}
    /\ stage' = "persist"
    /\ UNCHANGED <<code, providers, consumers, links, handles, calls, routes>>

(* Mutant: only the calling side of a route is checked.                     *)
PersistUnlocated ==
    /\ stage = "persist"
    /\ handles' = {[symbol |-> p.symbol, id |-> p.id, conf |-> p.conf] :
                     p \in {q \in providers : q.symbol \in code.graph}}
    /\ calls' = {[symbol |-> c.symbol, id |-> c.id,
                  conf |-> IF [id |-> c.id, spec |-> TRUE] \in endpoints
                           THEN "EXTRACTED" ELSE c.conf] :
                   c \in {d \in consumers : d.symbol \in code.graph}}
    /\ routes' = {l \in links : l.consumer \in code.graph}
    /\ stage' = "done"
    /\ UNCHANGED <<code, providers, consumers, links, endpoints>>

(* BuildGraphPhase: edges between nodes the graph has.                      *)
Persist ==
    /\ stage = "persist"
    /\ handles' = {[symbol |-> p.symbol, id |-> p.id, conf |-> p.conf] :
                     p \in {q \in providers : q.symbol \in code.graph}}
    /\ calls' = {[symbol |-> c.symbol, id |-> c.id,
                  conf |-> IF [id |-> c.id, spec |-> TRUE] \in endpoints
                           THEN "EXTRACTED" ELSE c.conf] :
                   c \in {d \in consumers : d.symbol \in code.graph}}
    /\ routes' = {l \in links : l.consumer \in code.graph /\ l.provider \in code.graph}
    /\ stage' = "done"
    /\ UNCHANGED <<code, providers, consumers, links, endpoints>>

Next == Extract \/ FoldSpecs \/ Collapse \/ Join \/ ReconcileAmqp \/ BuildEndpoints \/ Persist

Spec == Init /\ [][Next]_vars
-----------------------------------------------------------------------------
Joined == stage \in {"endpoints", "persist", "done"}

(* What a reader of the code and its specifications knows of an id.         *)
Handlers(id)  == {s.symbol : s \in {t \in code.provided : t.id = id /\ ~t.spec}}
Described(id) == id \in code.documented \/ \E s \in code.provided : s.id = id /\ s.spec
LinksOf(c)    == {l \in links : l.consumer = c.symbol /\ l.id = c.id}

(* A link is AMBIGUOUS exactly when its call has a link to someone else: no *)
(* candidate is picked, and none that was pruned leaves its mark           *)
(* (base.py: "surface all, never pick one").                               *)
AmbiguityIsKept ==
    Joined => \A l \in links :
        l.conf = "AMBIGUOUS" <=> \E m \in links :
            m.consumer = l.consumer /\ m.id = l.id /\ m.provider # l.provider

(* An endpoint that a specification describes and one handler implements is *)
(* one endpoint: its calls have one link, to the handler, and it is sure   *)
(* (reconcile_with_specs, reconcile_spec_backed).                          *)
DocumentedIsSure ==
    Joined => \A c \in code.called : \A h \in Symbols :
        Described(c.id) /\ Handlers(c.id) = {h} =>
            LinksOf(c) = {[consumer |-> c.symbol, provider |-> h, id |-> c.id,
                           conf |-> "EXTRACTED"]}

(* What the graph calls EXTRACTED can be pointed at in the code: a call and *)
(* a handler of the very id, nobody else it might reach, and a             *)
(* specification, literals on both sides or equal AMQP keys.               *)
SureRoutesAreProven ==
    \A r \in routes : r.conf = "EXTRACTED" =>
        /\ \A l \in links : l.consumer = r.consumer /\ l.id = r.id => l = r
        /\ \E c \in code.called, p \in code.provided :
             /\ c.symbol = r.consumer /\ p.symbol = r.provider
             /\ c.id = r.id /\ p.id = r.id
             /\ IF Amqp(r.id) THEN c.key = p.key
                ELSE Described(r.id) \/ (c.conf = "EXTRACTED" /\ p.conf = "EXTRACTED")

(* A broker takes a message of c to the binding p, if both keys are known.   *)
BrokerDelivers(c, p) ==
    c.id = p.id /\ (c.key = <<>> \/ p.key = <<>> \/ BrokerMatches(p.key, c.key))
Joins(l, c, p) == l.consumer = c.symbol /\ l.provider = p.symbol /\ l.id = c.id

(* No AMQP link joins a publisher and a subscriber unless a broker takes one *)
(* of its messages to one of its bindings. The other way round: where it    *)
(* does there is a link, if the two are the first sites of the exchange in  *)
(* their functions, and the binding does not start with "#.#." and go on.   *)
KeysDecide ==
    Joined =>
        /\ \A l \in links : Amqp(l.id) =>
             \E c \in code.called, p \in code.provided : Joins(l, c, p) /\ BrokerDelivers(c, p)
        /\ \A c \in FirstSites(code.called), p \in FirstSites(code.provided) :
             Amqp(c.id) /\ BrokerDelivers(c, p) /\ ~Repeats(p.key) => \E l \in links : Joins(l, c, p)

(* normalize.py:11-16: a routing key "matches the binding pattern under AMQP *)
(* topic rules", and only a "provable non-match" is dropped. Not so for a   *)
(* second site of the exchange in a function, nor for a binding as above.   *)
MatchesAreLinked ==
    Joined => \A c \in code.called, p \in code.provided :
        Amqp(c.id) /\ BrokerDelivers(c, p) => \E l \in links : Joins(l, c, p)

(* A call of an endpoint that code in the graph handles has a route to it.  *)
(* A handler that leaves the verb open counts when no other handles the    *)
(* verb and no specification mentions it.                                  *)
Reaches(c, h) ==
    ~Amqp(c.id) /\ (h \in Handlers(c.id) \/
                    (Http(c.id) /\ Handlers(c.id) = {} /\ h \in Handlers(Wildcard[c.id])))
Routed(c, h) == \E r \in routes : r.consumer = c.symbol /\ r.provider = h /\ r.id = c.id
HandledCallsAreRouted ==
    stage = "done" => \A c \in code.called, h \in code.graph :
        c.symbol \in code.graph /\ Reaches(c, h) =>
            Routed(c, h) \/ (Handlers(c.id) = {} /\ c.id \in code.documented)

(* base.py: the fallback is there "so a Spring bare @RequestMapping still   *)
(* joins"; a specification that mentions the verb should not undo it.      *)
BareMappingsStillJoin ==
    stage = "done" => \A c \in code.called, h \in code.graph :
        c.symbol \in code.graph /\ Reaches(c, h) => Routed(c, h)

(* Each edge has its Endpoint node, and each call and handler in the graph  *)
(* has its edge; a call of a described endpoint is sure, wherever it goes. *)
NothingDangles ==
    stage = "done" =>
        /\ \A e \in handles \union calls \union routes : \E n \in endpoints : n.id = e.id
        /\ \A c \in code.called : c.symbol \in code.graph =>
             \E e \in calls : e.symbol = c.symbol /\ e.id = c.id /\
                              (Described(c.id) => e.conf = "EXTRACTED")
        /\ \A p \in code.provided : p.symbol \in code.graph =>
             \E e \in handles : e.symbol = p.symbol /\ e.id = p.id
(* EXTRACTED and AMBIGUOUS mean what they say, on links and on routes, after *)
(* the folding, the collapse, the join and the pruning.                    *)
CertaintyIsEarned == AmbiguityIsKept /\ DocumentedIsSure /\ SureRoutesAreProven

(* A call that has a handler in the graph is routed to it, over edges whose *)
(* endpoints are there.                                                    *)
CallsAreRouted == HandledCallsAreRouted /\ NothingDangles

=============================================================================
