----------------------------- MODULE HttpPaths -----------------------------
(***************************************************************************)
(* The key of an HTTP path (contracts/http/normalize.py): what a route     *)
(* declaration and the URL of a call are reduced to, so that the two meet. *)
(* A path is a sequence of tokens: slashes, the marks of the notations for *)
(* parameters, of queries and of schemes, and words; a run of digits is a  *)
(* word of its own.                                                        *)
(***************************************************************************)
EXTENDS SequencesExt

CONSTANTS Digits,      \* the words that are runs of digits
          LowerCase    \* the lower case of the words that have capitals

Param == <<"{", "param", "}">>
Computed == <<"computed">>   \* a path that is not a literal
NoiseWords ==
    {"health", "healthz", "healthcheck", "ping", "status", "livez", "readyz", "ready", "live",
     "metrics", "favicon.ico"}
HttpVerbs == {"get", "post", "put", "delete", "patch", "head", "options", "trace"}

From(s, i) == SubSeq(s, i, Len(s))
UpTo(s, i) == SubSeq(s, 1, i)

\* The first position from i on of a token of S; one past the end if there is none.
NextOf(s, i, S) ==
    LET at == {j \in i..Len(s) : s[j] \in S}
    IN IF at = {} THEN Len(s) + 1 ELSE Min(at)

StartsWith(s, head) == IsPrefix(head, s)

\* _pathname: what follows the host of an absolute or protocol-relative URL.
Pathname(s) ==
    LET host == IF Len(s) > 3 /\ SubSeq(s, 2, 4) = <<":", "/", "/">> THEN 5
                ELSE IF StartsWith(s, <<"/", "/">>) THEN 3 ELSE 0
        slash == NextOf(s, host, {"/"})
    IN IF host = 0 THEN s ELSE IF slash > Len(s) THEN <<"/">> ELSE From(s, slash)

\* Without the slashes at the end.
TrimRight(s) ==
    LET kept == {0} \union {i \in 1..Len(s) : s[i] # "/"} IN UpTo(s, Max(kept))

Lower(s) == [i \in 1..Len(s) |-> IF s[i] \in DOMAIN LowerCase THEN LowerCase[s[i]] ELSE s[i]]

\* _base_normalize.
BasePath(s) ==
    LET bare    == Lower(UpTo(s, NextOf(s, 1, {"?", "#"}) - 1))
        rooted  == IF StartsWith(bare, <<"/">>) THEN bare ELSE <<"/">> \o bare
        trimmed == TrimRight(rooted)
    IN IF trimmed = <<>> THEN <<"/">> ELSE trimmed

\* Where the match of a pattern that begins at i ends; 0 where none begins.
Enclosed(s, open, close) ==
    [i \in 1..Len(s) |->
        LET inner == i + Len(open)
            last  == NextOf(s, inner, {close})
        IN IF StartsWith(From(s, i), open) /\ inner < last /\ last <= Len(s) THEN last ELSE 0]

Coloned(s) ==
    [i \in 1..Len(s) |->
        IF s[i] = ":" /\ i < Len(s) /\ s[i + 1] # "/" THEN NextOf(s, i, {"/"}) - 1 ELSE 0]

Numbers(s) ==
    [i \in 1..Len(s) |->
        IF s[i] \in Digits /\ i > 1 /\ s[i - 1] = "/" /\ (i = Len(s) \/ s[i + 1] = "/") THEN i ELSE 0]

\* re.sub: the matches, from left to right, become parameters.
Replaced(s, ends) ==
    LET rest[i \in 1..(Len(s) + 1)] ==
            IF i > Len(s) THEN <<>>
            ELSE IF ends[i] = 0 THEN <<s[i]>> \o rest[i + 1]
            ELSE Param \o rest[ends[i] + 1]
    IN rest[1]

\* _collapse_params, of a route declaration; of a call, a template before and
\* numbers after it.
Collapsed(s) ==
    LET angle   == Replaced(s, Enclosed(s, <<"<">>, ">"))
        colon   == Replaced(angle, Coloned(angle))
        brace   == Replaced(colon, Enclosed(colon, <<"{">>, "}"))
    IN Replaced(brace, Enclosed(brace, <<"[">>, "]"))

\* Mutant: a declared number is a parameter too.
ProviderPathNumbered(s) == LET p == Collapsed(BasePath(s)) IN Replaced(p, Numbers(p))

ProviderPath(s) == Collapsed(BasePath(s))

ConsumerPath(s) ==
    LET base  == BasePath(Pathname(s))
        plain == Collapsed(Replaced(base, Enclosed(base, <<"$", "{">>, "}")))
    IN Replaced(plain, Numbers(plain))

\* The parts between slashes.
Segments(s) ==
    {SubSeq(s, i, NextOf(s, i, {"/"}) - 1) : i \in {k \in 1..Len(s) : k = 1 \/ s[k - 1] = "/"}}

\* is_noise_path: no path of an application, or one that every route would match.
Noise(path) ==
    \/ path \in {<<>>, <<"/">>} \union {<<"/", word>> : word \in NoiseWords}
    \/ \A part \in Segments(path) \ {<<>>} : part = Param

-----------------------------------------------------------------------------
(* What an extractor finds: contracts, of which the first of an id in a     *)
(* symbol is kept. `sets' are those of the sites it visits, in order.       *)
Nowhere == <<>>   \* the symbol of a route whose handler is not known

Contract(verb, path, symbol, conf) ==
    IF Noise(path) THEN {} ELSE {[id |-> <<verb, path>>, symbol |-> symbol, conf |-> conf]}
Declared(verb, raw, symbol, conf) == Contract(verb, ProviderPath(raw), symbol, conf)

SameKey(a, b) == a.id = b.id /\ a.symbol = b.symbol
Firsts(sets) ==
    UNION {{c \in sets[i] : \A j \in 1..(i - 1) : \A d \in sets[j] : ~SameKey(c, d)} : i \in DOMAIN sets}

Grades == {"EXTRACTED", "INFERRED", "AMBIGUOUS"}
Rank(conf) == CASE conf = "EXTRACTED" -> 2 [] conf = "INFERRED" -> 1 [] conf = "AMBIGUOUS" -> 0
Weaker(a, b) == IF Rank(a) <= Rank(b) THEN a ELSE b
=============================================================================
