----------------------------- MODULE ClientCalls -----------------------------
(***************************************************************************)
(* Calls of HTTP clients (contracts/http/consumers/). Eight extractors     *)
(* look at every call, each for the shapes it knows, Java's for those of   *)
(* two clients: there are nine. A call has the object it is made on ("" for *)
(* none), the name that is called and its arguments: a text, an object with *)
(* string properties, a function with the calls in its body, or something  *)
(* else.                                                                   *)
(***************************************************************************)
EXTENDS HttpPaths

CONSTANT VerbOf        \* the verb that a text names, in whatever case

Dynamic == [kind |-> "other"]
IsText(arg)   == arg.kind \in {"text", "fstring"}   \* Python's with interpolations among them
IsObject(arg) == arg.kind = "object"
Arg(call, i) == IF i <= Len(call.args) THEN call.args[i] ELSE Dynamic
Has(object, key) == key \in DOMAIN object.props
Verb(text, default) == IF text \in DOMAIN VerbOf THEN VerbOf[text] ELSE default
MethodIn(arg, keys) ==
    LET given == {i \in DOMAIN keys : IsObject(arg) /\ Has(arg, keys[i])}
    IN IF given = {} THEN "get" ELSE Verb(arg.props[keys[Min(given)]], "get")

\* What an extractor reads off a call: a verb and the text of a URL, or nothing.
Read(verb, url) == {[verb |-> verb, url |-> url]}
\* _url_from: a text, or the url of an object.
UrlOf(verb, arg) ==
    IF IsText(arg) THEN Read(verb, arg.text)
    ELSE IF IsObject(arg) /\ Has(arg, "url") THEN Read(verb, arg.props["url"]) ELSE {}

\* fetch_axios.py, _classify: the verb of a call and the argument that has the URL.
Fetching(call) ==
    LET one == Arg(call, 1)
        site(verb) == {[verb |-> verb, arg |-> one]}
    IN IF call.args = <<>> THEN {}
       ELSE CASE call.on = "" /\ call.name = "fetch" -> site(MethodIn(Arg(call, 2), <<"method">>))
              [] call.on = "" /\ call.name = "axios" /\ IsObject(one) -> site(MethodIn(one, <<"method">>))
              [] call.on = "axios" /\ call.name \in HttpVerbs -> site(call.name)
              [] OTHER -> {}
FetchAxios(call) == UNION {UrlOf(site.verb, site.arg) : site \in Fetching(call)}

\* _object_url: the first of three properties of an object.
UrlKeys == <<"endpoint", "url", "path">>
UrlsOf(arg) == {i \in DOMAIN UrlKeys : IsObject(arg) /\ Has(arg, UrlKeys[i])}
ObjectUrl(arg) == arg.props[UrlKeys[Min(UrlsOf(arg))]]

\* Mutant: what axios is asked is claimed too, by its method.
ConfiguredAxios(call) ==
    LET one == Arg(call, 1)
    IN IF call.on = "" \/ UrlsOf(one) = {} \/ call.name \notin HttpVerbs \union {"request"} THEN {}
       ELSE Read(MethodIn(one, <<"method">>), ObjectUrl(one))

\* configured_client.py, _classify: any object but axios, whose verb is called with an
\* endpoint, a url or a path.
Configured(call) ==
    LET one == Arg(call, 1)
    IN IF call.on \in {"", "axios"} \/ UrlsOf(one) = {} THEN {}
       ELSE IF call.name \in HttpVerbs THEN Read(call.name, ObjectUrl(one))
       ELSE IF call.name = "request" THEN Read(MethodIn(one, <<"method">>), ObjectUrl(one))
       ELSE {}

\* jquery.py.
JQuery(call) ==
    LET one == Arg(call, 1)
    IN IF call.on \notin {"$", "jQuery"} THEN {}
       ELSE CASE call.name \in {"get", "getJSON"} -> UrlOf("get", one)
              [] call.name = "post" -> UrlOf("post", one)
              [] call.name = "ajax" /\ IsObject(one) -> UrlOf(MethodIn(one, <<"method", "type">>), one)
              [] OTHER -> {}

\* angular_http.py: in TypeScript, on what is called http, by itself or as a property.
AngularHttp(call) ==
    IF call.language = "typescript" /\ call.on \in {"http", "this.http"} /\ call.name \in HttpVerbs
    THEN UrlOf(call.name, Arg(call, 1)) ELSE {}

\* rtk_query.py: of a builder, the query that its object holds returns.
RtkQuery(call) ==
    LET one == Arg(call, 1)
    IN IF call.on # "" /\ call.name \in {"query", "mutation"} /\ one.kind = "builder"
       THEN UrlOf(IF IsObject(one.returns) THEN MethodIn(one.returns, <<"method">>) ELSE "get", one.returns)
       ELSE {}

\* react_query.py: of a hook, the first call in its function that fetches.
ReactQuery(call) ==
    LET one   == Arg(call, 1)
        sites == IF call.on = "" /\ call.name \in {"useQuery", "useMutation"} /\ one.kind = "hook"
                 THEN {i \in DOMAIN one.calls : Fetching(one.calls[i]) # {}} ELSE {}
    IN IF sites = {} THEN {} ELSE FetchAxios(one.calls[Min(sites)])
-----------------------------------------------------------------------------
\* The argument of a Python call that has the URL.
Asked(call) == IF call.name = "request" THEN Arg(call, 2) ELSE Arg(call, 1)

\* py_requests.py: of the modules by name, or of what is called like a client.
Requests(call) ==
    LET one == Arg(call, 1)
        url == Asked(call)
        verb == CASE call.name \in HttpVerbs -> call.name
                  [] call.name = "request" /\ IsText(one) -> Verb(one.text[1], "")
                  [] OTHER -> ""
    IN IF call.on \in {"requests", "httpx", "client", "session"} /\ verb # "" /\ IsText(url)
       THEN Read(verb, url.text) ELSE {}
Guessed(call) == call.on \in {"client", "session"}

\* java_clients.py: RestTemplate by the method or by the verb it is given, a fluent
\* client by the verb before, a Feign interface by the annotation and its prefix.
RestMethods == [getForObject |-> "get", getForEntity |-> "get", postForObject |-> "post",
                put |-> "put", delete |-> "delete", patchForObject |-> "patch"]
JavaClient(call) ==
    LET one == Arg(call, 1)
        verb == CASE call.name = "uri" -> Verb(call.before, "")
                  [] call.name = "exchange" -> IF Arg(call, 2).kind = "verb" THEN Verb(Arg(call, 2).text, "") ELSE ""
                  [] call.name \in DOMAIN RestMethods -> RestMethods[call.name]
                  [] OTHER -> ""
    IN IF call.on \in {"restTemplate", "webClient"} /\ verb # "" /\ IsText(one)
       THEN Read(verb, one.text) ELSE {}
Feign(call) ==
    LET verb == Verb(call.name, "")
    IN IF call.on = "interface" /\ verb # "" THEN Read(verb, call.prefix \o Arg(call, 1).text) ELSE {}
-----------------------------------------------------------------------------
Clients == {"fetch", "configured", "rtk", "react-query", "angular", "jquery", "requests", "java", "feign"}
ReadBy(client, call) ==
    CASE client = "fetch" -> FetchAxios(call)       [] client = "configured" -> Configured(call)
      [] client = "rtk" -> RtkQuery(call)           [] client = "react-query" -> ReactQuery(call)
      [] client = "angular" -> AngularHttp(call)    [] client = "jquery" -> JQuery(call)
      [] client = "requests" -> Requests(call)      [] client = "java" -> JavaClient(call)
      [] client = "feign" -> Feign(call)
LanguagesOf(client) ==
    CASE client = "requests" -> {"python"} [] client \in {"java", "feign"} -> {"java"}
      [] client = "angular" -> {"typescript"} [] OTHER -> {"javascript", "typescript"}

\* A path with a parameter is a guess, as is a client by its name, or what an f-string
\* asks for.
General(path) == \E i \in 1..Len(path) : From(path, i) # <<>> /\ StartsWith(From(path, i), Param)
CallConfidence(client, call, path) ==
    IF General(path) \/ (client = "requests" /\ (Guessed(call) \/ Asked(call).kind = "fstring")) THEN "INFERRED" ELSE "EXTRACTED"

\* What the extractors say of a call.
Claims(call) ==
    UNION {{[by |-> client, verb |-> read.verb, path |-> ConsumerPath(read.url),
             conf |-> CallConfidence(client, call, ConsumerPath(read.url))]
              : read \in {x \in ReadBy(client, call) : ~Noise(ConsumerPath(x.url))}}
           : client \in {c \in Clients : call.language \in LanguagesOf(c)}}
=============================================================================
