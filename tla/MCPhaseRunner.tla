--------------------------- MODULE MCPhaseRunner ---------------------------
(* Instances of PhaseRunner: the eight phases of default_phases, and ways    *)
(* three phases can depend on one another.                                 *)
EXTENDS PhaseRunner, TLC

LOCAL INSTANCE SequencesExt

Phase(n, d) == [name |-> n, depends_on |-> d, reads |-> {d[k] : k \in DOMAIN d}]

DefaultPhases ==
    << [name |-> "inventory", depends_on |-> <<>>, reads |-> {}],
       [name |-> "parse", depends_on |-> <<"inventory">>, reads |-> {"inventory"}],
       [name |-> "static", depends_on |-> <<"inventory", "parse">>,
        reads |-> {"inventory", "parse"}],
       [name |-> "contracts", depends_on |-> <<"parse", "static">>,
        reads |-> {"inventory", "static"}],
       [name |-> "flatten", depends_on |-> <<"inventory">>, reads |-> {}],
       [name |-> "history", depends_on |-> <<"inventory">>, reads |-> {}],
       [name |-> "build_graph", depends_on |-> <<"inventory", "static", "contracts", "history">>,
        reads |-> {"inventory", "static", "contracts", "history"}],
       [name |-> "emit",
        depends_on |-> <<"inventory", "static", "flatten", "history", "build_graph">>,
        reads |-> {"inventory", "static", "flatten", "history", "build_graph"}] >>
DefaultNames == {DefaultPhases[i].name : i \in 1..8}

(* In the order default_phases declares them, and the other way round.      *)
DefaultLists == {DefaultPhases, Reverse(DefaultPhases)}

(* Three phases, two of them perhaps of one name, that depend on nothing, on *)
(* one name or on two, themselves and names nobody has among them.          *)
SmallNames == {"inventory", "parse", "static"}
SmallDepends ==
    {<<>>} \union {<<n>> : n \in SmallNames \union {"emit"}} \union
    {<<"inventory", "inventory">>, <<"inventory", "static">>, <<"static", "parse">>}
SmallLists ==
    {<<>>} \union
    {<<Phase("inventory", x), Phase(n, y), Phase("static", z)>> :
        n \in {"inventory", "parse"}, x, y, z \in SmallDepends}

MCLists == DefaultLists \union SmallLists
=============================================================================
