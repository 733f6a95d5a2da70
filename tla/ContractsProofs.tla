--------------------------- MODULE ContractsProofs ---------------------------
(***************************************************************************)
(* Theorems about Contracts, and after them about the Extractors that feed *)
(* it (Scanned).  For Contracts the argument follows the pipeline: what    *)
(* the extractors keep, what the two reconciliations make of it            *)
(* (Reconciled), what the join and the pruning make of that (Linked), the  *)
(* edges, and the keys of AMQP links, word by word (Repeats, Pruned).      *)
(***************************************************************************)
EXTENDS Contracts, Extractors, FiniteSetTheorems, SequenceTheorems, WellFoundedInduction, TLAPS

(* One first site stands for every site.                                    *)
LEMMA FirstThere ==
  ASSUME code \in Codebases, NEW S \in {code.provided, code.called}, NEW s \in S
  PROVE  \E t \in FirstSites(S) : t.id = s.id /\ t.symbol = s.symbol
<1>1. S \subseteq Sites
  BY CodebaseAssumption
<1>2. PICK first \in S :
        /\ first.id = s.id /\ first.symbol = s.symbol
        /\ \A t \in S : t.id = s.id /\ t.symbol = s.symbol => t = first \/ first.at < t.at
  BY CodebaseAssumption
<1>3. first \in FirstSites(S)
  BY <1>1, <1>2 DEF FirstSites, Sites
<1> QED
  BY <1>2, <1>3

LEMMA FirstIsOne ==
  ASSUME code \in Codebases, NEW S \in {code.provided, code.called},
         NEW s \in FirstSites(S), NEW t \in FirstSites(S),
         s.id = t.id, s.symbol = t.symbol
  PROVE  s = t
<1>1. S \subseteq Sites
  BY CodebaseAssumption
<1>2. s \in S /\ t \in S /\ s.at = t.at
  BY <1>1 DEF FirstSites, Sites
<1>3. PICK first \in S :
        /\ first.id = s.id /\ first.symbol = s.symbol
        /\ \A u \in S : u.id = s.id /\ u.symbol = s.symbol => u = first \/ first.at < u.at
  BY <1>2, CodebaseAssumption
<1> QED
  BY <1>1, <1>2, <1>3 DEF FirstSites, Sites
-----------------------------------------------------------------------------
LEMMA CodeTypes ==
  ASSUME code \in Codebases
  PROVE  /\ code.provided \subseteq Sites
         /\ code.called \subseteq {s \in Sites : s.symbol # Unlocated /\ ~s.spec}
         /\ code.documented \subseteq {id \in Ids : Http(id)}
         /\ code.graph \subseteq Symbols
         /\ \A s \in code.provided :
              /\ s.spec <=> s.symbol = Unlocated
              /\ s.spec => ~Http(s.id) /\ ~Amqp(s.id)
BY CodebaseAssumption

LEMMA LinkTypes ==
  ASSUME TypeOK, NEW c \in consumers, NEW p \in Matched(c)
  PROVE  /\ p \in providers
         /\ LinkConfidence(c, p) \in Confidences
         /\ [consumer |-> c.symbol, provider |-> p.symbol, id |-> c.id,
             conf |-> LinkConfidence(c, p)] \in Links
<1>1. p \in providers
  BY DEF Matched, Of
<1>2. LinkConfidence(c, p) \in Confidences
  BY DEF LinkConfidence, Confidences
<1> QED
  BY <1>1, <1>2 DEF TypeOK, Sites, Links

(* Sites, links and edges keep their types; routes have located ends        *)
(* (BuildGraphPhase's filter on valid_symbol_qns).                         *)
THEOREM TypeCorrect == Spec => []TypeOK
<1>1. Init => TypeOK
  BY DEF Init, TypeOK, Stages
<1>2. ASSUME TypeOK, [Next]_vars
      PROVE  TypeOK'
  <2> USE <1>2, CodeTypes DEF TypeOK, Stages
  <2>1. CASE Extract
    BY <2>1 DEF Extract, FirstSites
  <2>2. CASE FoldSpecs
    <3>1. \A p \in providers :
            [p EXCEPT !.spec = p.spec \/ p.id \in code.documented] \in Sites
      BY DEF Sites
    <3>2. \A id \in code.documented : OnlyDocumented(id) \in Sites
      BY IdAssumption DEF OnlyDocumented, Sites
    <3> QED
      BY <2>2, <3>1, <3>2 DEF FoldSpecs
  <2>3. CASE Collapse
    <3>1. \A p \in providers : [p EXCEPT !.spec = TRUE] \in Sites
      BY DEF Sites
    <3> QED
      BY <2>3, <3>1 DEF Collapse
  <2>4. CASE Join
    BY <2>4, LinkTypes DEF Join
  <2>5. CASE ReconcileAmqp
    <3>1. \A l \in links, k \in Confidences : [l EXCEPT !.conf = k] \in Links
      BY DEF Links
    <3>2. \A l \in links : l.conf \in Confidences
      BY DEF Links
    <3> DEFINE pruned == {l \in links : Amqp(l.id) => MatchKind(l) # "none"}
               ambiguous(l) == \E m \in pruned :
                                 m.consumer = l.consumer /\ m.id = l.id /\ m.provider # l.provider
               confidence(l) == IF ~Amqp(l.id) THEN l.conf
                                ELSE IF ambiguous(l) THEN "AMBIGUOUS"
                                ELSE IF MatchKind(l) = "exact" THEN "EXTRACTED" ELSE "INFERRED"
    <3>5. links' = {[l EXCEPT !.conf = confidence(l)] : l \in pruned}
      BY <2>5, Zenon DEF ReconcileAmqp
    <3> HIDE DEF ambiguous
    <3>6. \A l \in pruned : l \in links /\ confidence(l) \in Confidences
      BY <3>2 DEF Confidences
    <3> HIDE DEF pruned, confidence
    <3>3. links' \subseteq Links
      BY <3>1, <3>5, <3>6
    <3>4. stage' = "endpoints" /\ UNCHANGED <<code, providers, consumers, endpoints, handles, calls, routes>>
      BY <2>5 DEF ReconcileAmqp
    <3> QED
      BY <3>3, <3>4
  <2>6. CASE BuildEndpoints
    <3>1. \A s \in providers \union consumers :
            [id |-> s.id, spec |-> \E t \in Of(s.id) : t.spec] \in [id : Ids, spec : BOOLEAN]
      BY DEF Sites
    <3> QED
      BY <2>6, <3>1 DEF BuildEndpoints
  <2>7. CASE Persist
    <3> DEFINE Edges == [symbol : Symbols, id : Ids, conf : Confidences]
    <3>1. \A p \in providers : p.symbol \in code.graph =>
            [symbol |-> p.symbol, id |-> p.id, conf |-> p.conf] \in Edges
      BY DEF Sites, Confidences
    <3>2. \A c \in consumers : \A k \in {"EXTRACTED", c.conf} : c.symbol \in code.graph =>
            [symbol |-> c.symbol, id |-> c.id, conf |-> k] \in Edges
      BY DEF Sites, Confidences
    <3>3. \A l \in links : l.provider \in code.graph => l.provider # Unlocated
      BY IdAssumption
    <3>4. handles' \union calls' \subseteq Edges
      BY <2>7, <3>1, <3>2 DEF Persist
    <3>5. routes' \subseteq {l \in Links : l.provider # Unlocated}
      BY <2>7, <3>3 DEF Persist
    <3> QED
      BY <2>7, <3>4, <3>5 DEF Persist
  <2> QED
    BY <2>1, <2>2, <2>3, <2>4, <2>5, <2>6, <2>7 DEF Next, vars
<1> QED
  BY <1>1, <1>2, PTL DEF Spec
-----------------------------------------------------------------------------
Declarations == FirstSites(code.provided)

Folded ==
    {[p EXCEPT !.spec = p.spec \/ p.id \in code.documented] : p \in Declarations} \union
    {OnlyDocumented(id) : id \in code.documented \ {p.id : p \in Declarations}}

(* What the reconciliations make of the sites: one provider for each        *)
(* handler, marked when its id is described, and one without a symbol for  *)
(* each id that is described and not handled.                              *)
Reconciled(P) ==
    /\ \A p \in P : p.symbol # Unlocated =>
         /\ p.spec <=> Described(p.id)
         /\ \E s \in Declarations : ~s.spec /\ s.id = p.id /\ s.symbol = p.symbol /\
                            s.conf = p.conf /\ s.key = p.key
    /\ \A s \in Declarations : ~s.spec => \E p \in P : p.id = s.id /\ p.symbol = s.symbol
    /\ \A p \in P : p.symbol = Unlocated =>
         p.spec /\ Described(p.id) /\ Handlers(p.id) = {} /\ ~Amqp(p.id)
    /\ \A p, q \in P : p.id = q.id /\ p.symbol = q.symbol => p = q
    /\ \A id \in Ids : Described(id) => \E p \in P : p.id = id /\ p.spec

Sourced ==
    /\ stage # "extract" => consumers = FirstSites(code.called)
    /\ stage = "openapi" => providers = Declarations
    /\ stage = "collapse" => providers = Folded
    /\ stage \in {"join", "amqp", "endpoints", "persist", "done"} => Reconciled(providers)

LEMMA KeptFacts ==
  ASSUME code \in Codebases
  PROVE  /\ Declarations \subseteq code.provided
         /\ Declarations \subseteq Sites
         /\ \A s \in Declarations : s.spec <=> s.symbol = Unlocated
         /\ \A s \in Declarations : s.spec => s.id \notin code.documented
         /\ \A s, t \in Declarations : s.id = t.id /\ s.symbol = t.symbol => s = t
         /\ \A id : id \in {s.id : s \in {t \in code.provided : t.spec}} <=>
                    id \in {s.id : s \in {t \in Declarations : t.spec}}
         /\ \A id : Handlers(id) = {s.symbol : s \in {t \in Declarations : t.id = id /\ ~t.spec}}
<1> USE CodeTypes DEF Declarations
<1>1. Declarations \subseteq code.provided /\ Declarations \subseteq Sites
  BY DEF FirstSites
<1>2. \A s, t \in Declarations : s.id = t.id /\ s.symbol = t.symbol => s = t
  BY FirstIsOne
<1>3. \A s \in code.provided : \E t \in Declarations : t.id = s.id /\ t.symbol = s.symbol /\ t.spec = s.spec
  <2> TAKE s \in code.provided
  <2>1. PICK t \in Declarations : t.id = s.id /\ t.symbol = s.symbol
    BY FirstThere
  <2>2. (t.spec <=> s.spec) /\ t.spec \in BOOLEAN /\ s.spec \in BOOLEAN
    BY <1>1, <2>1 DEF Sites
  <2> QED
    BY <2>1, <2>2
<1>4. \A id : id \in {s.id : s \in {t \in code.provided : t.spec}} <=>
              id \in {s.id : s \in {t \in Declarations : t.spec}}
  BY <1>1, <1>3
<1>5. \A id : Handlers(id) = {s.symbol : s \in {t \in Declarations : t.id = id /\ ~t.spec}}
  BY <1>1, <1>3 DEF Handlers
<1>6. \A s \in Declarations : s.spec => s.id \notin code.documented
  BY <1>1
<1>7. \A s \in Declarations : s.spec <=> s.symbol = Unlocated
  BY <1>1
<1> QED
  BY <1>1, <1>2, <1>4, <1>5, <1>6, <1>7

LEMMA FoldedReconciled ==
  ASSUME code \in Codebases, providers = Folded, Collapse
  PROVE  Reconciled(providers')
<1> DEFINE both == {p.id : p \in {q \in Folded : q.spec}} \intersect
                   {p.id : p \in {q \in Folded : ~q.spec}}
<1> DEFINE P == {p \in Folded : p.id \notin both} \union
                {[p EXCEPT !.spec = TRUE] : p \in {q \in Folded : q.id \in both /\ ~q.spec}}
<1> DEFINE Marked(s) == [s EXCEPT !.spec = Described(s.id)]
<1>1. providers' = P
  BY DEF Collapse
<1>2. \A id : Described(id) <=> id \in code.documented \/ \E s \in Declarations : s.id = id /\ s.spec
  BY KeptFacts DEF Described
<1>3. \A id \in code.documented : id \notin both
  BY KeptFacts DEF Folded, OnlyDocumented, Sites
<1>4. \A id : id \in both <=> id \notin code.documented /\
                 (\E s \in Declarations : s.id = id /\ s.spec) /\ (\E s \in Declarations : s.id = id /\ ~s.spec)
  BY <1>3, KeptFacts DEF Folded, OnlyDocumented, Sites
<1> HIDE DEF both
<1> DEFINE Only(p) == /\ p.symbol = Unlocated /\ p.spec /\ Described(p.id)
                      /\ Handlers(p.id) = {} /\ ~Amqp(p.id)
                      /\ \/ p.id \in code.documented /\ p = OnlyDocumented(p.id)
                         \/ p \in Declarations
<1> HIDE DEF P
<1>5. ASSUME NEW p \in P
      PROVE  (\E s \in Declarations : ~s.spec /\ p = Marked(s)) \/ Only(p)
  <2>1. CASE \E id \in code.documented \ {s.id : s \in Declarations} : p = OnlyDocumented(id)
    BY <2>1, <1>2, KeptFacts, CodeTypes DEF OnlyDocumented, Http, Amqp
  <2>2. CASE p.id \notin both /\
             \E s \in Declarations : p = [s EXCEPT !.spec = s.spec \/ s.id \in code.documented]
    <3>1. PICK s \in Declarations : p = [s EXCEPT !.spec = s.spec \/ s.id \in code.documented]
      BY <2>2
    <3>2. s \in Sites /\ p.id = s.id /\ p.symbol = s.symbol
      BY <3>1, KeptFacts DEF Sites
    <3>3. CASE s.spec
      <4>1. p = s
        BY <3>1, <3>2, <3>3 DEF Sites
      <4>2. s \in code.provided /\ s.symbol = Unlocated /\ ~Amqp(s.id) /\ Described(s.id)
        BY <3>3, <1>2, KeptFacts, CodeTypes
      <4>3. Handlers(s.id) = {}
        BY <3>2, <3>3, <2>2, <1>4, KeptFacts
      <4> QED
        BY <4>1, <4>2, <4>3, <3>3
    <3>4. CASE ~s.spec
      <4>1. Described(s.id) = (s.spec \/ s.id \in code.documented)
        BY <3>2, <3>4, <2>2, <1>2, <1>4 DEF Described
      <4>2. p = Marked(s)
        BY <4>1, <3>1
      <4> QED
        BY <4>2, <3>4
    <3> QED
      BY <3>3, <3>4
  <2>3. CASE \E q \in Folded : q.id \in both /\ ~q.spec /\ p = [q EXCEPT !.spec = TRUE]
    <3>1. PICK q \in Folded : q.id \in both /\ ~q.spec /\ p = [q EXCEPT !.spec = TRUE]
      BY <2>3
    <3>2. PICK s \in Declarations : q = [s EXCEPT !.spec = s.spec \/ s.id \in code.documented]
      BY <3>1 DEF Folded, OnlyDocumented
    <3>3. s \in Sites /\ q.id = s.id /\ q.spec = (s.spec \/ s.id \in code.documented)
      BY <3>2, KeptFacts DEF Sites
    <3>4. ~s.spec /\ Described(s.id)
      BY <3>1, <3>3, <1>2, <1>4
    <3>5. p = Marked(s)
      BY <3>1, <3>2, <3>3, <3>4 DEF Sites
    <3> QED
      BY <3>4, <3>5
  <2> QED
    BY <2>1, <2>2, <2>3 DEF P, Folded
<1>6. ASSUME NEW s \in Declarations, ~s.spec
      PROVE  Marked(s) \in P
  <2> DEFINE q == [s EXCEPT !.spec = s.spec \/ s.id \in code.documented]
  <2>1. s \in Sites /\ q \in Folded /\ q.id = s.id /\ q.spec = (s.id \in code.documented)
    BY <1>6, KeptFacts DEF Folded, Sites
  <2>2. CASE s.id \in both
    <3>1. Marked(s) = [q EXCEPT !.spec = TRUE] /\ ~q.spec
      BY <2>1, <2>2, <1>2, <1>4 DEF Sites
    <3> QED
      BY <3>1, <2>1, <2>2 DEF P
  <2>3. CASE s.id \notin both
    <3>1. Described(s.id) = (s.id \in code.documented)
      BY <1>6, <2>3, <1>2, <1>4 DEF Described
    <3>2. Marked(s) = q
      BY <3>1, <1>6, <2>1 DEF Sites
    <3> QED
      BY <3>2, <2>1, <2>3 DEF P
  <2> QED
    BY <2>2, <2>3
<1>7. \A s \in Declarations : /\ Marked(s).id = s.id /\ Marked(s).symbol = s.symbol
                     /\ Marked(s).conf = s.conf /\ Marked(s).key = s.key
                     /\ Marked(s).spec = Described(s.id)
  BY KeptFacts DEF Sites
<1> HIDE DEF Marked
<1>8. \A p \in P : p.symbol # Unlocated =>
         /\ p.spec <=> Described(p.id)
         /\ \E s \in Declarations : ~s.spec /\ s.id = p.id /\ s.symbol = p.symbol /\
                            s.conf = p.conf /\ s.key = p.key
  BY <1>5, <1>7
<1>9. \A s \in Declarations : ~s.spec => \E p \in P : p.id = s.id /\ p.symbol = s.symbol
  BY <1>6, <1>7
<1>10. \A p \in P : p.symbol = Unlocated => Only(p)
  BY <1>5, <1>7, KeptFacts
<1>11. \A p, q \in P : p.id = q.id /\ p.symbol = q.symbol => p = q
  <2> TAKE p, q \in P
  <2> HAVE p.id = q.id /\ p.symbol = q.symbol
  <2>1. CASE p.symbol = Unlocated
    BY <2>1, <1>10, KeptFacts
  <2>2. CASE p.symbol # Unlocated
    <3>1. PICK s \in Declarations, t \in Declarations : p = Marked(s) /\ q = Marked(t)
      BY <2>2, <1>5
    <3> QED
      BY <3>1, <1>7, KeptFacts
  <2> QED
    BY <2>1, <2>2
<1>12. \A id \in Ids : Described(id) => \E p \in P : p.id = id /\ p.spec
  <2> SUFFICES ASSUME NEW id \in Ids, Described(id)
               PROVE  \E p \in P : p.id = id /\ p.spec
    OBVIOUS
  <2>1. CASE \E s \in Declarations : s.id = id /\ ~s.spec
    BY <2>1, <1>6, <1>7
  <2>2. CASE ~(\E s \in Declarations : s.id = id /\ ~s.spec) /\ \E s \in Declarations : s.id = id /\ s.spec
    <3>1. PICK s \in Declarations : s.id = id /\ s.spec
      BY <2>2
    <3>2. s = [s EXCEPT !.spec = s.spec \/ s.id \in code.documented]
      BY <3>1, KeptFacts DEF Sites
    <3>3. s \in Folded /\ s.id \notin both
      BY <3>1, <3>2, <2>2, <1>4 DEF Folded
    <3> QED
      BY <3>1, <3>3 DEF P
  <2>3. CASE ~\E s \in Declarations : s.id = id
    <3>1. OnlyDocumented(id) \in Folded /\ id \notin both
      BY <2>3, <1>2, <1>4 DEF Folded
    <3> QED
      BY <3>1 DEF P, OnlyDocumented
  <2> QED
    BY <2>1, <2>2, <2>3
<1> QED
  BY <1>1, <1>8, <1>9, <1>10, <1>11, <1>12 DEF Reconciled

LEMMA SourcedCorrect == Spec => [](TypeOK /\ Sourced)
<1>1. Init => Sourced
  BY DEF Init, Sourced
<1>2. ASSUME TypeOK, Sourced, [Next]_vars
      PROVE  Sourced'
  <2> USE <1>2 DEF TypeOK, Stages, Sourced
  <2>1. CASE Extract
    BY <2>1 DEF Extract, Declarations
  <2>2. CASE FoldSpecs
    BY <2>2 DEF FoldSpecs, Folded, Declarations
  <2>3. CASE Collapse
    <3>1. stage = "collapse" /\ stage' = "join" /\ code' = code /\ consumers' = consumers
      BY <2>3 DEF Collapse
    <3>2. Reconciled(providers')
      BY <2>3, <3>1, FoldedReconciled
    <3>3. Reconciled(providers)'
      BY <3>1, <3>2 DEF Reconciled, Declarations, Described, Handlers
    <3> QED
      BY <3>1, <3>3
  <2>4. CASE Join \/ ReconcileAmqp \/ BuildEndpoints \/ Persist \/ UNCHANGED vars
    <3>1. /\ code' = code /\ providers' = providers /\ consumers' = consumers
          /\ \/ stage' = stage
             \/ stage \in {"join", "amqp", "endpoints", "persist"} /\
                stage' \in {"amqp", "endpoints", "persist", "done"}
      BY <2>4 DEF Join, ReconcileAmqp, BuildEndpoints, Persist, vars
    <3>2. Reconciled(providers)' <=> Reconciled(providers)
      BY <3>1 DEF Reconciled, Declarations, Described, Handlers
    <3> QED
      BY <3>1, <3>2 DEF Declarations, Folded
  <2> QED
    BY <2>1, <2>2, <2>3, <2>4 DEF Next
<1> QED
  BY <1>1, <1>2, TypeCorrect, PTL DEF Spec
-----------------------------------------------------------------------------
(* What the join makes of the reconciled providers ...                      *)
LinkOf(c, p) == [consumer |-> c.symbol, provider |-> p.symbol, id |-> c.id,
                 conf |-> LinkConfidence(c, p)]
Pairs(l, c, p) == l.consumer = c.symbol /\ l.provider = p.symbol /\ l.id = c.id

(* ... and what pruning leaves of it: links of calls to providers they      *)
(* match, all of them but on AMQP exchanges.                               *)
Linked ==
    /\ \A l \in links : \E c \in consumers : \E p \in Matched(c) :
         /\ Pairs(l, c, p)
         /\ ~Amqp(l.id) => l = LinkOf(c, p)
         /\ Amqp(l.id) /\ l.conf = "EXTRACTED" => c.key = p.key
    /\ \A c \in consumers : \A p \in Matched(c) : ~Amqp(c.id) => LinkOf(c, p) \in links
    /\ \A l, m \in links :
         l.consumer = m.consumer /\ l.provider = m.provider /\ l.id = m.id => l = m

LinkInv ==
    /\ stage = "amqp" => links = UNION {{LinkOf(c, p) : p \in Matched(c)} : c \in consumers}
    /\ Joined => Linked /\ AmbiguityIsKept

(* Calls and providers are known by their id and symbol.                    *)
LEMMA SiteIsOne ==
  ASSUME TypeOK, Sourced, stage \in {"amqp", "endpoints", "persist", "done"}
  PROVE  /\ \A c, d \in consumers : c.id = d.id /\ c.symbol = d.symbol => c = d
         /\ \A p, q \in providers : p.id = q.id /\ p.symbol = q.symbol => p = q
         /\ \A c \in consumers : \A p, q \in Matched(c) : p.symbol = q.symbol => p = q
         /\ \A c \in consumers : Matched(c) \subseteq providers
<1>1. \A c, d \in consumers : c.id = d.id /\ c.symbol = d.symbol => c = d
  BY FirstIsOne DEF TypeOK, Sourced
<1>2. \A p, q \in providers : p.id = q.id /\ p.symbol = q.symbol => p = q
  BY DEF Sourced, Reconciled
<1>3. \A c \in consumers : \A p, q \in Matched(c) :
        p \in providers /\ q \in providers /\ p.id = q.id
  BY DEF Matched, Of
<1> QED
  BY <1>1, <1>2, <1>3

(* An AMQP link that survives as exact has equal keys.                      *)
LEMMA ExactKeys ==
  ASSUME TypeOK, Sourced, stage = "amqp",
         NEW l \in links, NEW c \in consumers, NEW p \in Matched(c), Pairs(l, c, p), Amqp(l.id),
         MatchKind(l) = "exact"
  PROVE  c.key = p.key
<1>1. p \in providers /\ p.id = l.id /\ p.symbol = l.provider
  BY DEF Matched, Of, Pairs, IsFallback, Http, Amqp
<1>2. (CHOOSE d \in consumers : d.id = l.id /\ d.symbol = l.consumer) = c
  BY SiteIsOne DEF Pairs
<1>3. (CHOOSE q \in providers : q.id = l.id /\ q.symbol = l.provider) = p
  BY <1>1, SiteIsOne
<1>4. amqp_match_kind(p.key, c.key) = "exact" => p.key = c.key
  BY DEF amqp_match_kind
<1> QED
  BY <1>2, <1>3, <1>4 DEF MatchKind

(* Of the links the join makes, one is ambiguous exactly when its call has  *)
(* another.                                                                *)
LEMMA JoinIsAmbiguous ==
  ASSUME TypeOK, Sourced, stage = "amqp",
         NEW c \in consumers, NEW p \in Matched(c)
  PROVE  LinkConfidence(c, p) = "AMBIGUOUS" <=> \E q \in Matched(c) : q.symbol # p.symbol
<1>1. (\E q \in Matched(c) : q # p) <=> (\E q \in Matched(c) : q.symbol # p.symbol)
  BY SiteIsOne
<1> QED
  BY <1>1 DEF LinkConfidence

LEMMA PruningLinks ==
  ASSUME TypeOK, Sourced, LinkInv, ReconcileAmqp
  PROVE  (Linked /\ AmbiguityIsKept)'
<1> DEFINE pruned == {l \in links : Amqp(l.id) => MatchKind(l) # "none"}
<1> DEFINE ambiguous(l) == \E m \in pruned :
             m.consumer = l.consumer /\ m.id = l.id /\ m.provider # l.provider
<1> DEFINE confidence(l) == IF ~Amqp(l.id) THEN l.conf
                            ELSE IF ambiguous(l) THEN "AMBIGUOUS"
                            ELSE IF MatchKind(l) = "exact" THEN "EXTRACTED" ELSE "INFERRED"
<1> DEFINE Rated(l) == [l EXCEPT !.conf = confidence(l)]
<1>1. /\ stage = "amqp"
      /\ links' = {Rated(l) : l \in pruned}
      /\ consumers' = consumers /\ providers' = providers /\ stage' = "endpoints"
  BY DEF ReconcileAmqp
<1>2. links = UNION {{LinkOf(c, p) : p \in Matched(c)} : c \in consumers}
  BY <1>1 DEF LinkInv
<1>3. \A l \in pruned : \E c \in consumers : \E p \in Matched(c) : l = LinkOf(c, p)
  BY <1>2
<1>4. \A c \in consumers : \A p \in Matched(c) :
        /\ LinkOf(c, p) \in links
        /\ Pairs(LinkOf(c, p), c, p)
        /\ LinkOf(c, p).conf = LinkConfidence(c, p)
  BY <1>2 DEF LinkOf, Pairs
<1>5. \A l \in pruned :
        /\ Rated(l).consumer = l.consumer /\ Rated(l).provider = l.provider
        /\ Rated(l).id = l.id /\ Rated(l).conf = confidence(l)
        /\ ~Amqp(l.id) => Rated(l) = l
  BY DEF TypeOK, Links
<1>11. \A l : l \in pruned <=> l \in links /\ (Amqp(l.id) => MatchKind(l) # "none")
  OBVIOUS
<1>12. \A l \in pruned :
         /\ ~Amqp(l.id) => confidence(l) = l.conf
         /\ Amqp(l.id) => (confidence(l) = "AMBIGUOUS" <=> ambiguous(l))
         /\ Amqp(l.id) /\ confidence(l) = "EXTRACTED" => MatchKind(l) = "exact"
  OBVIOUS
<1>13. \A l : ambiguous(l) <=> \E m \in pruned :
             m.consumer = l.consumer /\ m.id = l.id /\ m.provider # l.provider
  OBVIOUS
<1> HIDE DEF Rated, confidence, ambiguous, pruned
<1>6. ASSUME NEW l \in pruned
      PROVE  \E c \in consumers : \E p \in Matched(c) :
               /\ Pairs(Rated(l), c, p)
               /\ ~Amqp(l.id) => Rated(l) = LinkOf(c, p)
               /\ Amqp(l.id) /\ Rated(l).conf = "EXTRACTED" => c.key = p.key
  <2>0. PICK c \in consumers : \E p \in Matched(c) : l = LinkOf(c, p) /\ Pairs(l, c, p)
    BY <1>3, <1>4
  <2>1. PICK p \in Matched(c) : l = LinkOf(c, p) /\ Pairs(l, c, p)
    BY <2>0
  <2>2. Pairs(Rated(l), c, p)
    BY <2>1, <1>5 DEF Pairs
  <2>3. ~Amqp(l.id) => Rated(l) = LinkOf(c, p)
    BY <2>1, <1>5
  <2>4. Amqp(l.id) /\ Rated(l).conf = "EXTRACTED" => c.key = p.key
    BY <2>1, <1>1, <1>5, <1>11, <1>12, ExactKeys
  <2> QED
    BY <2>2, <2>3, <2>4
<1>7. \A c \in consumers : \A p \in Matched(c) : ~Amqp(c.id) => LinkOf(c, p) \in links'
  <2> SUFFICES ASSUME NEW c \in consumers, NEW p \in Matched(c), ~Amqp(c.id)
               PROVE  LinkOf(c, p) \in links'
    OBVIOUS
  <2>1. LinkOf(c, p) \in pruned /\ ~Amqp(LinkOf(c, p).id)
    BY <1>4, <1>11 DEF Pairs
  <2> QED
    BY <2>1, <1>1, <1>5
<1>8. ASSUME NEW l \in pruned
      PROVE  confidence(l) = "AMBIGUOUS" <=> ambiguous(l)
  <2>1. CASE Amqp(l.id)
    BY <2>1, <1>12
  <2>2. CASE ~Amqp(l.id)
    <3>0. PICK c \in consumers : \E p \in Matched(c) : l = LinkOf(c, p) /\ Pairs(l, c, p)
      BY <1>3, <1>4
    <3>1. PICK p \in Matched(c) : l = LinkOf(c, p) /\ Pairs(l, c, p)
      BY <3>0
    <3>2. confidence(l) = "AMBIGUOUS" <=> \E q \in Matched(c) : q.symbol # p.symbol
      BY <2>2, <3>1, <1>1, <1>4, <1>12, JoinIsAmbiguous
    <3>3. ASSUME NEW q \in Matched(c), q.symbol # p.symbol
          PROVE  ambiguous(l)
      BY <2>2, <3>1, <3>3, <1>4, <1>11, <1>13 DEF Pairs
    <3>4. ASSUME NEW m \in pruned,
                 m.consumer = l.consumer, m.id = l.id, m.provider # l.provider
          PROVE  \E q \in Matched(c) : q.symbol # p.symbol
      <4>0. PICK d \in consumers : \E q \in Matched(d) : Pairs(m, d, q)
        BY <1>3, <1>4
      <4>1. PICK q \in Matched(d) : Pairs(m, d, q)
        BY <4>0
      <4>2. d = c
        BY <3>1, <3>4, <4>1, <1>1, SiteIsOne DEF Pairs
      <4> QED
        BY <3>1, <3>4, <4>1, <4>2 DEF Pairs
    <3> QED
      BY <3>2, <3>3, <3>4, <1>13
  <2> QED
    BY <2>1, <2>2
<1>9. \A l \in links' : l.conf = "AMBIGUOUS" <=> \E m \in links' :
            m.consumer = l.consumer /\ m.id = l.id /\ m.provider # l.provider
  BY <1>1, <1>5, <1>8, <1>13
<1>14. \A l, m \in pruned :
         l.consumer = m.consumer /\ l.provider = m.provider /\ l.id = m.id => l = m
  <2> SUFFICES ASSUME NEW l \in pruned, NEW m \in pruned,
                      l.consumer = m.consumer, l.provider = m.provider, l.id = m.id
               PROVE  l = m
    OBVIOUS
  <2>1. PICK c \in consumers : \E p \in Matched(c) : l = LinkOf(c, p) /\ Pairs(l, c, p)
    BY <1>3, <1>4
  <2>2. PICK d \in consumers : \E p \in Matched(d) : m = LinkOf(d, p) /\ Pairs(m, d, p)
    BY <1>3, <1>4
  <2>3. c = d
    BY <2>1, <2>2, <1>1, SiteIsOne DEF Pairs
  <2> QED
    BY <2>1, <2>2, <2>3, <1>1, SiteIsOne DEF Pairs
<1>15. \A l, m \in links' :
         l.consumer = m.consumer /\ l.provider = m.provider /\ l.id = m.id => l = m
  BY <1>1, <1>5, <1>14
<1>16. \A l \in links' : \E c \in consumers : \E p \in Matched(c) :
         /\ Pairs(l, c, p)
         /\ ~Amqp(l.id) => l = LinkOf(c, p)
         /\ Amqp(l.id) /\ l.conf = "EXTRACTED" => c.key = p.key
  BY <1>1, <1>5, <1>6
<1>10. Linked'
  <2>1. (\A l \in links : \E c \in consumers : \E p \in Matched(c) :
           /\ Pairs(l, c, p)
           /\ ~Amqp(l.id) => l = LinkOf(c, p)
           /\ Amqp(l.id) /\ l.conf = "EXTRACTED" => c.key = p.key)'
    BY <1>1, <1>16 DEF Matched, Of, IsFallback, LinkOf, LinkConfidence, Pairs
  <2>2. (\A c \in consumers : \A p \in Matched(c) : ~Amqp(c.id) => LinkOf(c, p) \in links)'
    BY <1>1, <1>7 DEF Matched, Of, IsFallback, LinkOf, LinkConfidence
  <2>3. (\A l, m \in links :
           l.consumer = m.consumer /\ l.provider = m.provider /\ l.id = m.id => l = m)'
    BY <1>15
  <2> QED
    BY <2>1, <2>2, <2>3 DEF Linked
<1> QED
  BY <1>9, <1>10 DEF AmbiguityIsKept

LEMMA LinkedCorrect == Spec => [](TypeOK /\ Sourced /\ LinkInv)
<1>1. Init => LinkInv
  BY DEF Init, LinkInv, Joined
<1>2. ASSUME TypeOK, Sourced, LinkInv, [Next]_vars
      PROVE  LinkInv'
  <2> USE <1>2
  <2>1. CASE Extract \/ FoldSpecs \/ Collapse
    BY <2>1 DEF Extract, FoldSpecs, Collapse, LinkInv, Joined
  <2>2. CASE Join
    BY <2>2 DEF Join, LinkInv, Joined, LinkOf, Matched, LinkConfidence, IsFallback, Of
  <2>3. CASE ReconcileAmqp
    BY <2>3, PruningLinks DEF ReconcileAmqp, LinkInv
  <2>4. CASE BuildEndpoints \/ Persist \/ UNCHANGED vars
    <3>1. /\ providers' = providers /\ consumers' = consumers /\ links' = links
          /\ \/ stage' = stage
             \/ Joined /\ stage' \in {"persist", "done"}
      BY <2>4 DEF BuildEndpoints, Persist, vars, Joined
    <3> QED
      BY <3>1 DEF LinkInv, Joined, Linked, AmbiguityIsKept, Pairs, LinkOf, Matched,
                  LinkConfidence, IsFallback, Of
  <2> QED
    BY <2>1, <2>2, <2>3, <2>4 DEF Next
<1> QED
  BY <1>1, <1>2, SourcedCorrect, PTL DEF Spec

(* A link is AMBIGUOUS exactly when its call has a link to someone else     *)
(* (join, reconcile_amqp).                                                 *)
THEOREM KeepsAmbiguity == Spec => []AmbiguityIsKept
<1>1. LinkInv => AmbiguityIsKept
  BY DEF LinkInv, AmbiguityIsKept
<1> QED
  BY <1>1, LinkedCorrect, PTL
-----------------------------------------------------------------------------
(* The graph is made of what is there when it is built.                     *)
GraphInv ==
    /\ stage \in {"persist", "done"} =>
         endpoints = {[id |-> s.id, spec |-> \E t \in Of(s.id) : t.spec] :
                        s \in providers \union consumers}
    /\ stage # "done" => routes = {}
    /\ stage = "done" =>
         /\ routes = {l \in links : l.consumer \in code.graph /\ l.provider \in code.graph}
         /\ handles = {[symbol |-> p.symbol, id |-> p.id, conf |-> p.conf] :
                         p \in {q \in providers : q.symbol \in code.graph}}
         /\ calls = {[symbol |-> c.symbol, id |-> c.id,
                      conf |-> IF [id |-> c.id, spec |-> TRUE] \in endpoints
                               THEN "EXTRACTED" ELSE c.conf] :
                       c \in {d \in consumers : d.symbol \in code.graph}}

LEMMA GraphCorrect == Spec => []GraphInv
<1>1. Init => GraphInv
  BY DEF Init, GraphInv
<1>2. ASSUME GraphInv, [Next]_vars
      PROVE  GraphInv'
  <2> USE <1>2 DEF GraphInv
  <2>1. CASE Extract \/ FoldSpecs \/ Collapse \/ Join \/ ReconcileAmqp
    BY <2>1 DEF Extract, FoldSpecs, Collapse, Join, ReconcileAmqp
  <2>2. CASE BuildEndpoints
    BY <2>2 DEF BuildEndpoints, Of
  <2>3. CASE Persist
    <3>1. stage = "persist" /\ stage' = "done" /\ UNCHANGED <<code, providers, consumers, links, endpoints>>
      BY <2>3 DEF Persist
    <3>2. endpoints' = {[id |-> s.id, spec |-> \E t \in Of(s.id) : t.spec] :
                          s \in providers \union consumers}'
      BY <3>1 DEF Of
    <3> QED
      BY <2>3, <3>1, <3>2 DEF Persist
  <2>4. CASE UNCHANGED vars
    <3>1. UNCHANGED <<code, stage, providers, consumers, links, endpoints, handles, calls, routes>>
      BY <2>4 DEF vars
    <3>2. \A id : Of(id)' = Of(id)
      BY <3>1 DEF Of
    <3> QED
      BY <3>1, <3>2
  <2> QED
    BY <2>1, <2>2, <2>3, <2>4 DEF Next
<1> QED
  BY <1>1, <1>2, PTL DEF Spec
-----------------------------------------------------------------------------
(* Every call has a consumer, every handler a provider, and no provider is  *)
(* a located one without being a handler.                                  *)
LEMMA SitesSurvive ==
  ASSUME TypeOK, Sourced, Joined
  PROVE  /\ \A c \in code.called : \E d \in consumers : d.id = c.id /\ d.symbol = c.symbol
         /\ consumers \subseteq code.called
         /\ \A id : \A h \in Handlers(id) : \E p \in providers : p.id = id /\ p.symbol = h
         /\ \A p \in providers : p.symbol # Unlocated => p.symbol \in Handlers(p.id)
         /\ \A p \in providers : p.symbol = Unlocated => Handlers(p.id) = {}
         /\ \A id : Described(id) => id \in Ids /\ ~Amqp(id)
<1> USE DEF TypeOK, Sourced, Joined
<1>1. consumers = FirstSites(code.called) /\ Reconciled(providers) /\ code \in Codebases
  BY DEF Stages
<1>2. \A c \in code.called : \E d \in consumers : d.id = c.id /\ d.symbol = c.symbol
  BY <1>1, FirstThere
<1>3. consumers \subseteq code.called
  BY <1>1 DEF FirstSites
<1>4. \A id : \A h \in Handlers(id) : \E p \in providers : p.id = id /\ p.symbol = h
  BY <1>1, KeptFacts DEF Reconciled
<1>5. \A p \in providers : p.symbol # Unlocated => p.symbol \in Handlers(p.id)
  BY <1>1, KeptFacts DEF Reconciled
<1>6. \A p \in providers : p.symbol = Unlocated => Handlers(p.id) = {}
  BY <1>1 DEF Reconciled
<1>7. \A id : Described(id) => id \in Ids /\ ~Amqp(id)
  BY <1>1, CodeTypes DEF Described, Http, Amqp, Sites
<1> QED
  BY <1>2, <1>3, <1>4, <1>5, <1>6, <1>7

(* An endpoint that is described and has one handler has one sure link for  *)
(* each call (reconcile_with_specs, reconcile_spec_backed, join).          *)
THEOREM SureDocumentation == Spec => []DocumentedIsSure
<1>1. ASSUME TypeOK, Sourced, LinkInv
      PROVE  DocumentedIsSure
  <2> SUFFICES ASSUME Joined, NEW c \in code.called, NEW h \in Symbols,
                      Described(c.id), Handlers(c.id) = {h}
               PROVE  LinksOf(c) = {[consumer |-> c.symbol, provider |-> h, id |-> c.id,
                                     conf |-> "EXTRACTED"]}
    BY DEF DocumentedIsSure
  <2> USE <1>1
  <2>1. stage \in {"amqp", "endpoints", "persist", "done"} /\ Reconciled(providers)
    BY DEF Joined, Sourced
  <2>2. PICK d \in consumers : d.id = c.id /\ d.symbol = c.symbol
    BY SitesSurvive
  <2>10. h \in Handlers(c.id)
    OBVIOUS
  <2>3. PICK p \in providers : p.id = c.id /\ p.symbol = h
    BY <2>10, SitesSurvive
  <2>4. Of(c.id) = {p}
    BY <2>1, <2>3, SitesSurvive, SiteIsOne DEF Of
  <2>5. ~IsFallback(d) /\ Matched(d) = {p}
    BY <2>2, <2>4 DEF IsFallback, Matched
  <2>6. p.spec
    BY <2>1, <2>3, SitesSurvive, IdAssumption DEF Reconciled
  <2>7. LinkOf(d, p) = [consumer |-> c.symbol, provider |-> h, id |-> c.id, conf |-> "EXTRACTED"]
    BY <2>2, <2>3, <2>5, <2>6 DEF LinkOf, LinkConfidence
  <2>8. ~Amqp(c.id) /\ LinkOf(d, p) \in links
    BY <2>2, <2>5, SitesSurvive DEF LinkInv, Linked
  <2>9. ASSUME NEW l \in links, l.consumer = c.symbol, l.id = c.id
        PROVE  l = LinkOf(d, p)
    <3>1. PICK e \in consumers : \E q \in Matched(e) : Pairs(l, e, q) /\ l = LinkOf(e, q)
      BY <2>8, <2>9 DEF LinkInv, Linked
    <3>2. e = d
      BY <2>1, <2>2, <2>9, <3>1, SiteIsOne DEF Pairs
    <3> QED
      BY <2>5, <3>1, <3>2
  <2> QED
    BY <2>7, <2>8, <2>9 DEF LinksOf
<1> QED
  BY <1>1, LinkedCorrect, PTL
-----------------------------------------------------------------------------
(* What a located provider and a described id stand for in the sources.     *)
LEMMA Pointed ==
  ASSUME TypeOK, Sourced, Joined
  PROVE  /\ \A p \in providers : p.symbol # Unlocated =>
              \E s \in code.provided : s.id = p.id /\ s.symbol = p.symbol /\
                                      s.conf = p.conf /\ s.key = p.key
         /\ \A p \in providers : p.spec => Described(p.id)
<1>1. Reconciled(providers) /\ code \in Codebases
  BY DEF TypeOK, Sourced, Joined, Stages
<1>2. \A p \in providers : p.symbol # Unlocated =>
        \E s \in code.provided : s.id = p.id /\ s.symbol = p.symbol /\
                                s.conf = p.conf /\ s.key = p.key
  BY <1>1, KeptFacts DEF Reconciled
<1>3. \A p \in providers : p.spec => Described(p.id)
  BY <1>1 DEF Reconciled
<1> QED
  BY <1>2, <1>3

(* An EXTRACTED route has a call and a handler of its very id in the code,  *)
(* no rival, and a proof: a specification, literals or equal keys (join,   *)
(* reconcile_amqp, BuildGraphPhase).                                       *)
THEOREM SureRoutes == Spec => []SureRoutesAreProven
<1>1. ASSUME TypeOK, Sourced, LinkInv, GraphInv
      PROVE  SureRoutesAreProven
  <2> USE <1>1
  <2> SUFFICES ASSUME NEW r \in routes, r.conf = "EXTRACTED"
               PROVE  /\ \A l \in links : l.consumer = r.consumer /\ l.id = r.id => l = r
                      /\ \E c \in code.called, p \in code.provided :
                           /\ c.symbol = r.consumer /\ p.symbol = r.provider
                           /\ c.id = r.id /\ p.id = r.id
                           /\ IF Amqp(r.id) THEN c.key = p.key
                              ELSE Described(r.id) \/ (c.conf = "EXTRACTED" /\ p.conf = "EXTRACTED")
    BY DEF SureRoutesAreProven
  <2>1. /\ stage = "done" /\ Joined /\ Linked /\ AmbiguityIsKept
        /\ r \in links /\ r.provider # Unlocated
    BY DEF GraphInv, LinkInv, Joined, TypeOK
  <2>2. \A l \in links : l.consumer = r.consumer /\ l.id = r.id => l = r
    BY <2>1 DEF AmbiguityIsKept, Linked
  <2>3. PICK c \in consumers : \E p \in Matched(c) :
          /\ Pairs(r, c, p)
          /\ ~Amqp(r.id) => r = LinkOf(c, p)
          /\ Amqp(r.id) => c.key = p.key
    BY <2>1 DEF Linked
  <2>4. PICK p \in Matched(c) :
          /\ Pairs(r, c, p)
          /\ ~Amqp(r.id) => r = LinkOf(c, p)
          /\ Amqp(r.id) => c.key = p.key
    BY <2>3
  <2>5. ~Amqp(r.id) => LinkConfidence(c, p) = "EXTRACTED"
    BY <2>4 DEF LinkOf
  <2>6. ~IsFallback(c)
    BY <2>4, <2>5 DEF LinkConfidence, Pairs, IsFallback, Http, Amqp
  <2>7. p \in providers /\ p.id = r.id /\ p.symbol = r.provider /\ c.id = r.id
    BY <2>4, <2>6 DEF Matched, Of, Pairs
  <2>8. ~Amqp(r.id) => p.spec \/ (c.conf = "EXTRACTED" /\ p.conf = "EXTRACTED")
    BY <2>5 DEF LinkConfidence
  <2>9. PICK s \in code.provided : s.id = p.id /\ s.symbol = p.symbol /\
                                  s.conf = p.conf /\ s.key = p.key
    BY <2>1, <2>7, Pointed
  <2>10. p.spec => Described(r.id)
    BY <2>1, <2>7, Pointed
  <2>11. c \in code.called /\ c.symbol = r.consumer
    BY <2>1, <2>4, SitesSurvive DEF Pairs
  <2> QED
    BY <2>2, <2>4, <2>7, <2>8, <2>9, <2>10, <2>11
<1> QED
  BY <1>1, LinkedCorrect, GraphCorrect, PTL

(* Every edge has its Endpoint, every located call and handler its edge,    *)
(* and calls of a described endpoint are EXTRACTED (_build_endpoints,      *)
(* BuildGraphPhase).                                                       *)
THEOREM EdgesHaveEndpoints == Spec => []NothingDangles
<1>1. ASSUME TypeOK, Sourced, LinkInv, GraphInv
      PROVE  NothingDangles
  <2> USE <1>1
  <2> SUFFICES ASSUME stage = "done"
               PROVE  /\ \A e \in handles \union calls \union routes :
                           \E n \in endpoints : n.id = e.id
                      /\ \A c \in code.called : c.symbol \in code.graph =>
                           \E e \in calls : e.symbol = c.symbol /\ e.id = c.id /\
                                            (Described(c.id) => e.conf = "EXTRACTED")
                      /\ \A p \in code.provided : p.symbol \in code.graph =>
                           \E e \in handles : e.symbol = p.symbol /\ e.id = p.id
    BY DEF NothingDangles
  <2>1. Joined /\ Linked /\ Reconciled(providers)
    BY DEF Joined, LinkInv, Sourced
  <2>0. /\ endpoints = {[id |-> s.id, spec |-> \E t \in Of(s.id) : t.spec] :
                          s \in providers \union consumers}
        /\ handles = {[symbol |-> p.symbol, id |-> p.id, conf |-> p.conf] :
                        p \in {q \in providers : q.symbol \in code.graph}}
        /\ calls = {[symbol |-> c.symbol, id |-> c.id,
                     conf |-> IF [id |-> c.id, spec |-> TRUE] \in endpoints
                              THEN "EXTRACTED" ELSE c.conf] :
                      c \in {d \in consumers : d.symbol \in code.graph}}
    BY DEF GraphInv
  <2>2. \A s \in providers \union consumers : \E n \in endpoints : n.id = s.id
    <3> TAKE s \in providers \union consumers
    <3>1. [id |-> s.id, spec |-> \E t \in Of(s.id) : t.spec] \in endpoints
      BY <2>0
    <3> QED
      BY <3>1
  <2>3. \A e \in handles : \E n \in endpoints : n.id = e.id
    <3>1. \A e \in handles : \E p \in providers : e.id = p.id
      BY <2>0
    <3> QED
      BY <2>2, <3>1
  <2>4. \A e \in calls : \E n \in endpoints : n.id = e.id
    <3> DEFINE Sure(c) == IF [id |-> c.id, spec |-> TRUE] \in endpoints
                          THEN "EXTRACTED" ELSE c.conf
    <3>0. calls = {[symbol |-> c.symbol, id |-> c.id, conf |-> Sure(c)] :
                     c \in {d \in consumers : d.symbol \in code.graph}}
      BY <2>0
    <3> HIDE DEF Sure
    <3>1. \A e \in calls : \E c \in consumers : e.id = c.id
      BY <3>0
    <3> QED
      BY <2>2, <3>1
  <2>5. ASSUME NEW e \in routes
        PROVE  \E n \in endpoints : n.id = e.id
    <3>1. e \in links
      BY <2>5 DEF GraphInv
    <3>2. \E c \in consumers : e.id = c.id
      BY <2>1, <3>1 DEF Linked, Pairs
    <3> QED
      BY <2>2, <3>2
  <2>6. ASSUME NEW c \in code.called, c.symbol \in code.graph
        PROVE  \E e \in calls : e.symbol = c.symbol /\ e.id = c.id /\
                               (Described(c.id) => e.conf = "EXTRACTED")
    <3>1. PICK d \in consumers : d.id = c.id /\ d.symbol = c.symbol
      BY <2>1, SitesSurvive
    <3> DEFINE sure == [id |-> d.id, spec |-> TRUE] \in endpoints
    <3> DEFINE e == [symbol |-> d.symbol, id |-> d.id,
                     conf |-> IF sure THEN "EXTRACTED" ELSE d.conf]
    <3>2. e \in calls
      BY <2>6, <3>1 DEF GraphInv
    <3>3. ASSUME Described(c.id)
          PROVE  sure
      <4>1. PICK p \in providers : p.id = c.id /\ p.spec
        BY <2>1, <3>3, SitesSurvive DEF Reconciled
      <4>2. \E t \in Of(p.id) : t.spec
        BY <4>1 DEF Of
      <4>3. [id |-> p.id, spec |-> \E t \in Of(p.id) : t.spec] \in endpoints
        BY DEF GraphInv
      <4> QED
        BY <3>1, <4>1, <4>2, <4>3
    <3> HIDE DEF sure
    <3> QED
      BY <3>1, <3>2, <3>3
  <2>7. ASSUME NEW p \in code.provided, p.symbol \in code.graph
        PROVE  \E e \in handles : e.symbol = p.symbol /\ e.id = p.id
    <3>1. p.symbol \in Handlers(p.id)
      BY <2>7, CodeTypes, IdAssumption DEF Handlers, TypeOK
    <3>2. PICK q \in providers : q.id = p.id /\ q.symbol = p.symbol
      BY <2>1, <3>1, SitesSurvive
    <3>3. [symbol |-> q.symbol, id |-> q.id, conf |-> q.conf] \in handles
      BY <2>0, <2>7, <3>2
    <3> QED
      BY <3>2, <3>3
  <2> QED
    BY <2>3, <2>4, <2>5, <2>6, <2>7
<1> QED
  BY <1>1, LinkedCorrect, GraphCorrect, PTL

(* Every located call of an endpoint with a located handler is routed to    *)
(* it, the fallback's exception apart (join, BuildGraphPhase).             *)
THEOREM HandledCalls == Spec => []HandledCallsAreRouted
<1>1. ASSUME TypeOK, Sourced, LinkInv, GraphInv
      PROVE  HandledCallsAreRouted
  <2> USE <1>1
  <2> SUFFICES ASSUME stage = "done", NEW c \in code.called, NEW h \in code.graph,
                      c.symbol \in code.graph, Reaches(c, h),
                      ~(Handlers(c.id) = {} /\ c.id \in code.documented)
               PROVE  Routed(c, h)
    BY DEF HandledCallsAreRouted
  <2>1. /\ Joined /\ Linked /\ Reconciled(providers) /\ ~Amqp(c.id)
        /\ h # Unlocated /\ c \in Sites
    BY CodeTypes, IdAssumption DEF Joined, LinkInv, Sourced, TypeOK, Reaches
  <2>2. PICK d \in consumers : d.id = c.id /\ d.symbol = c.symbol
    BY <2>1, SitesSurvive
  <2>3. \E p \in Matched(d) : p.symbol = h
    <3>1. CASE h \in Handlers(c.id)
      <4>1. PICK p \in providers : p.id = c.id /\ p.symbol = h
        BY <2>1, <3>1, SitesSurvive
      <4> QED
        BY <2>2, <4>1 DEF Matched, Of, IsFallback
    <3>2. CASE Http(c.id) /\ Handlers(c.id) = {} /\ h \in Handlers(Wildcard[c.id])
      <4>1. PICK p \in providers : p.id = Wildcard[c.id] /\ p.symbol = h
        BY <2>1, <3>2, SitesSurvive
      <4>2. ~Described(c.id)
        BY <3>2, CodeTypes DEF Described, TypeOK
      <4>3. Of(c.id) = {}
        <5> SUFFICES ASSUME NEW q \in providers, q.id = c.id
                     PROVE  FALSE
          BY DEF Of
        <5>1. q.symbol = Unlocated
          BY <2>1, <3>2, SitesSurvive
        <5> QED
          BY <5>1, <4>2, <2>1 DEF Reconciled
      <4> QED
        BY <2>2, <3>2, <4>1, <4>3 DEF Matched, Of, IsFallback
    <3> QED
      BY <3>1, <3>2 DEF Reaches
  <2>4. PICK p \in Matched(d) : p.symbol = h
    BY <2>3
  <2>5. LinkOf(d, p) \in links
    BY <2>1, <2>2, <2>4 DEF Linked
  <2>6. /\ LinkOf(d, p).consumer = c.symbol /\ LinkOf(d, p).provider = h
        /\ LinkOf(d, p).id = c.id
    BY <2>2, <2>4 DEF LinkOf
  <2>7. LinkOf(d, p) \in routes
    BY <2>5, <2>6 DEF GraphInv
  <2> QED
    BY <2>6, <2>7 DEF Routed
<1> QED
  BY <1>1, LinkedCorrect, GraphCorrect, PTL
(* EXTRACTED and AMBIGUOUS mean what they say, after all the passes.         *)
THEOREM EarnedCertainty == Spec => []CertaintyIsEarned
<1>1. AmbiguityIsKept /\ DocumentedIsSure /\ SureRoutesAreProven => CertaintyIsEarned
  BY DEF CertaintyIsEarned
<1>2. QED
  BY <1>1, KeepsAmbiguity, SureDocumentation, SureRoutes, PTL

(* A call that has a handler is routed, over edges whose endpoints are there. *)
THEOREM RoutedCalls == Spec => []CallsAreRouted
<1>1. HandledCallsAreRouted /\ NothingDangles => CallsAreRouted
  BY DEF CallsAreRouted
<1>2. QED
  BY <1>1, HandledCalls, EdgesHaveEndpoints, PTL
-----------------------------------------------------------------------------
(* A set of natural numbers has a least one.                                *)
LEMMA Least ==
  ASSUME NEW S \in SUBSET Nat, S # {}
  PROVE  \E k \in S : \A j \in S : k <= j
<1>1. PICK k \in S : \A j \in S : <<j, k>> \notin OpToRel(<, Nat)
  BY NatLessThanWellFounded, WFMin, Zenon
<1>2. \A j \in S : ~(j < k)
  BY <1>1 DEF OpToRel
<1> QED
  BY <1>2

(* A later cut lies further on.                                             *)
LEMMA CutsRise ==
  ASSUME NEW m \in Nat, NEW n \in Nat, NEW cut \in Cuts(m, n),
         NEW j \in 1..m, NEW i \in j..m
  PROVE  cut[j] <= cut[i]
<1>1. /\ \A k \in 1..m : cut[k] \in Nat
      /\ \A k \in 1..m : cut[k - 1] <= cut[k]
  BY DEF Cuts
<1> DEFINE low == {k \in j..m : cut[k] < cut[j]}
<1>2. SUFFICES ASSUME low # {} PROVE FALSE
  <2>1. cut[i] \in Nat /\ cut[j] \in Nat /\ i \notin low
    BY <1>1, <1>2
  <2> QED
    BY <2>1
<1>3. low \in SUBSET Nat
  OBVIOUS
<1>4. PICK k \in low : \A l \in low : k <= l
  BY <1>2, <1>3, Least
<1>5. k \in j..m /\ cut[k] < cut[j]
  BY <1>4
<1>6. k # j /\ k - 1 \in j..m /\ k - 1 \in 1..m
  BY <1>1, <1>5
<1>7. k - 1 \in low
  BY <1>1, <1>5, <1>6
<1> QED
  BY <1>4, <1>5, <1>7

(* The regular expression matches no key that a broker would not deliver:   *)
(* the words that end at a place in the text (amqp_binding_matches).       *)
LEMMA MatchesAreDelivered ==
  ASSUME NEW binding, NEW key, Len(binding) \in Nat, Len(key) \in Nat \ {0}, key # <<>>,
         amqp_binding_matches(binding, key)
  PROVE  BrokerMatches(binding, key)
<1> DEFINE m == Len(binding)
           n == Len(key)
<1>1. PICK cut \in Cuts(m, 2 * n - 1) :
        \A i \in 1..m : Piece(binding, key, i, cut[i - 1], cut[i])
  BY DEF amqp_binding_matches
<1> HIDE DEF m, n
<1>0. m \in Nat /\ n \in Nat \ {0}
  BY DEF m, n
<1>2. /\ cut \in [0..m -> 0..(2 * n - 1)]
      /\ cut[0] = 0 /\ cut[m] = 2 * n - 1
      /\ \A i \in 1..m : cut[i - 1] <= cut[i]
  BY <1>1 DEF Cuts
<1> DEFINE words == [i \in 0..m |-> (cut[i] + 1) \div 2]
<1>5. \A i \in 0..m : cut[i] \in 0..(2 * n - 1) /\ words[i] = (cut[i] + 1) \div 2
  BY <1>2
<1>6. \A i \in 1..m : i \in 0..m /\ i - 1 \in 0..m
  BY <1>0
<1>3. words \in Cuts(m, n)
  <2>1. \A i \in 0..m : words[i] \in 0..n
    BY <1>0, <1>5
  <2>2. words[0] = 0 /\ words[m] = n
    BY <1>0, <1>2, <1>5
  <2>3. \A i \in 1..m : words[i - 1] <= words[i]
    <3> TAKE i \in 1..m
    <3>1. cut[i - 1] <= cut[i] /\ cut[i - 1] \in Nat /\ cut[i] \in Nat
      BY <1>2, <1>5, <1>6
    <3>2. words[i] = (cut[i] + 1) \div 2 /\ words[i - 1] = (cut[i - 1] + 1) \div 2
      BY <1>5, <1>6
    <3> QED
      BY <3>1, <3>2
  <2>4. words \in [0..m -> 0..n]
    BY <2>1
  <2> QED
    BY <2>2, <2>3, <2>4 DEF Cuts
<1>4. ASSUME NEW i \in 1..m, binding[i] # "#"
      PROVE  words[i] = words[i - 1] + 1 /\ binding[i] \in {"*", key[words[i]]}
  <2> DEFINE a == cut[i - 1]
             b == cut[i]
  <2>1. a \in Nat /\ b \in Nat /\ words[i] = (b + 1) \div 2 /\ words[i - 1] = (a + 1) \div 2
    BY <1>5, <1>6
  <2>2. /\ b = a + 1 \/ b = a + 2
        /\ Odd(b)
        /\ binding[i] \in {"*", key[(b + 1) \div 2]}
    BY <1>1, <1>4 DEF Piece
  <2> HIDE DEF a, b, words
  <2> QED
    BY <2>1, <2>2 DEF Odd
<1> QED
  BY <1>3, <1>4 DEF BrokerMatches, m, n

(* A binding not of the kind of Repeats matches what a broker would deliver. Where *)
(* a word ends in the text depends on whether the first "#" takes the dot. *)
LEMMA DeliveredMatch ==
  ASSUME NEW binding, NEW key, Len(binding) \in Nat, Len(key) \in Nat \ {0}, key # <<>>,
         ~Repeats(binding), BrokerMatches(binding, key)
  PROVE  amqp_binding_matches(binding, key)
<1> DEFINE m == Len(binding)
           n == Len(key)
           leading == m > 1 /\ binding[1] = "#" /\ binding[2] # "#"
<1>1. PICK words \in Cuts(m, n) :
        \A i \in 1..m : \/ binding[i] = "#"
                        \/ words[i] = words[i - 1] + 1 /\ binding[i] \in {"*", key[words[i]]}
  BY DEF BrokerMatches
<1>10. ASSUME NEW cut \in Cuts(m, 2 * n - 1),
              \A i \in 1..m : Piece(binding, key, i, cut[i - 1], cut[i])
       PROVE  amqp_binding_matches(binding, key)
  BY <1>10 DEF amqp_binding_matches
<1> DEFINE Fitting(i, a, b) ==
             LET dotted == i > 1 /\ ~(i = 2 /\ leading) IN
             IF binding[i] = "#"
             THEN \/ b = a
                  \/ i > 1            /\ Odd(a) /\ ~Odd(b - a)
                  \/ i = 1 /\ leading /\ ~Odd(a) /\ ~Odd(b - a)
                  \/ i = 1 /\ ~leading /\ ~Odd(a) /\ Odd(b - a)
             ELSE /\ b = a + (IF dotted THEN 2 ELSE 1)
                  /\ Odd(b)
                  /\ binding[i] \in {"*", key[(b + 1) \div 2]}
<1>11. \A i : \A a, b : Fitting(i, a, b) => Piece(binding, key, i, a, b)
  BY Zenon DEF Piece
<1>12. m > 1 /\ binding[1] = "#" /\ ~leading => \A i \in 1..m : binding[i] = "#"
  BY DEF Repeats
<1>0. m \in Nat /\ n \in Nat \ {0}
  OBVIOUS
<1>13. leading => m > 1 /\ binding[1] = "#" /\ binding[2] # "#"
  OBVIOUS
<1>14. leading \in BOOLEAN
  OBVIOUS
<1> HIDE DEF m, n, leading, Fitting
<1>2. /\ words \in [0..m -> 0..n]
      /\ words[0] = 0 /\ words[m] = n
      /\ \A i \in 1..m : words[i - 1] <= words[i]
  BY <1>1 DEF Cuts
<1>15. m > 0
  BY <1>0, <1>2
<1>3. CASE \A i \in 1..m : binding[i] = "#"
  <2> DEFINE cut == [i \in 0..m |-> IF i = 0 THEN 0 ELSE 2 * n - 1]
  <2>1. cut \in Cuts(m, 2 * n - 1)
    BY <1>0, <1>15 DEF Cuts
  <2>2. ASSUME NEW i \in 1..m PROVE Piece(binding, key, i, cut[i - 1], cut[i])
    <3>1. cut[i] = 2 * n - 1 /\ cut[i - 1] = IF i = 1 THEN 0 ELSE 2 * n - 1
      BY <1>0
    <3>2. ~leading
      BY <1>3, <1>13, <1>0
    <3> HIDE DEF cut
    <3> QED
      BY <3>1, <3>2, <1>0, <1>3, <1>11 DEF Odd, Fitting
  <2> QED
    BY <2>1, <2>2, <1>10
<1>6. \A i \in 1..m : i \in 0..m /\ i - 1 \in 0..m /\ words[i] \in 0..n /\ words[i - 1] \in 0..n
  BY <1>0, <1>2
<1>4. CASE leading
  <2> DEFINE cut == [i \in 0..m |-> IF i < 2 THEN 2 * words[i] ELSE 2 * words[i] - 1]
  <2>0. m > 1 /\ binding[1] = "#" /\ words[2] = words[1] + 1
    <3>1. m > 1 /\ 2 \in 1..m /\ binding[1] = "#" /\ binding[2] # "#"
      BY <1>4, <1>13, <1>0
    <3>2. words[2] = words[2 - 1] + 1
      BY <1>1, <3>1
    <3> QED
      BY <3>1, <3>2
  <2>1. \A i \in 2..m : words[i] > 0 /\ words[i] > words[1]
    <3> TAKE i \in 2..m
    <3>1. words[2] <= words[i]
      BY <1>0, <2>0, CutsRise
    <3>2. words[1] \in 0..n /\ words[i] \in 0..n
      BY <1>0, <1>6, <2>0
    <3> QED
      BY <3>1, <3>2, <2>0, <1>0
  <2>2. \A i \in 0..m : cut[i] = IF i < 2 THEN 2 * words[i] ELSE 2 * words[i] - 1
    OBVIOUS
  <2>3. words[1] < n
    BY <2>0, <2>1, <1>0, <1>2
  <2>4. \A i \in 0..m : cut[i] \in 0..(2 * n - 1)
    <3> TAKE i \in 0..m
    <3>1. CASE i < 2
      <4>1. cut[i] = 2 * words[i] /\ (i = 0 \/ i = 1)
        BY <3>1, <2>2
      <4>2. words[i] \in Nat /\ words[i] < n
        BY <4>1, <2>3, <1>0, <1>2
      <4> HIDE DEF cut
      <4> QED
        BY <4>1, <4>2, <1>0
    <3>2. CASE i >= 2
      <4>1. words[i] \in 0..n /\ words[i] > 0
        BY <3>2, <2>1, <1>6, <1>0
      <4> QED
        BY <3>2, <4>1, <2>2, <1>0
    <3> QED
      BY <3>1, <3>2, <1>0
  <2>5. cut \in [0..m -> 0..(2 * n - 1)]
    BY <2>4
  <2>6. cut[0] = 0 /\ cut[m] = 2 * n - 1
    BY <2>0, <2>2, <1>0, <1>2
  <2> HIDE DEF cut
  <2>7. ASSUME NEW i \in 1..m
        PROVE  cut[i - 1] <= cut[i] /\ Piece(binding, key, i, cut[i - 1], cut[i])
    <3>0. Fitting(i, cut[i - 1], cut[i]) => Piece(binding, key, i, cut[i - 1], cut[i])
      BY <1>11, Zenon
    <3>1. /\ words[i] \in 0..n /\ words[i - 1] \in 0..n /\ words[i - 1] <= words[i]
          /\ binding[i] # "#" => words[i] = words[i - 1] + 1
          /\ binding[i] # "#" => binding[i] \in {"*", key[words[i]]}
          /\ cut[i] = IF i < 2 THEN 2 * words[i] ELSE 2 * words[i] - 1
          /\ cut[i - 1] = IF i - 1 < 2 THEN 2 * words[i - 1] ELSE 2 * words[i - 1] - 1
      BY <1>1, <1>2, <1>6, <2>2
    <3>2. CASE i = 1
      <4>1. cut[i] = 2 * words[1] /\ cut[i - 1] = 0 /\ binding[i] = "#" /\ words[1] \in Nat
        BY <3>1, <3>2, <2>0, <1>2
      <4>2. ~Odd(cut[i - 1]) /\ ~Odd(cut[i] - cut[i - 1])
        BY <4>1 DEF Odd
      <4> QED
        BY <4>1, <4>2, <3>2, <1>4, <3>0 DEF Fitting
    <3>3. CASE i = 2
      <4>1. /\ cut[i] = 2 * words[2] - 1 /\ cut[i - 1] = 2 * words[1] /\ words[2] = words[1] + 1
            /\ words[1] \in Nat /\ binding[i] # "#" /\ binding[i] \in {"*", key[words[2]]}
        BY <3>1, <3>3, <2>0, <1>4, <1>13
      <4>2. cut[i] = cut[i - 1] + 1 /\ Odd(cut[i]) /\ (cut[i] + 1) \div 2 = words[2] /\ cut[i - 1] \in Nat
        BY <4>1 DEF Odd
      <4>3. binding[i] # "#" /\ binding[i] \in {"*", key[(cut[i] + 1) \div 2]}
        BY <4>1, <4>2
      <4>4. Fitting(i, cut[i - 1], cut[i])
        BY <4>2, <4>3, <3>3, <1>4 DEF Fitting
      <4> QED
        BY <4>2, <4>4, <3>0
    <3>4. CASE i > 2
      <4>1. words[i - 1] > 0 /\ i - 1 \in 2..m
        BY <3>4, <2>1, <1>0
      <4>2. cut[i] = 2 * words[i] - 1 /\ cut[i - 1] = 2 * words[i - 1] - 1
        BY <3>1, <3>4
      <4>3. Odd(cut[i - 1]) /\ Odd(cut[i]) /\ ~Odd(cut[i] - cut[i - 1])
            /\ (cut[i] + 1) \div 2 = words[i]
        BY <3>1, <4>1, <4>2 DEF Odd
      <4>6. cut[i - 1] <= cut[i]
        BY <3>1, <4>2
      <4>4. CASE binding[i] = "#"
        BY <4>4, <4>3, <4>6, <3>4, <3>0 DEF Fitting
      <4>5. CASE binding[i] # "#"
        <5>1. cut[i] = cut[i - 1] + 2
          BY <4>5, <4>2, <3>1
        <5>2. binding[i] \in {"*", key[(cut[i] + 1) \div 2]}
          BY <4>5, <4>3, <3>1
        <5> QED
          BY <5>1, <5>2, <4>5, <4>3, <4>6, <3>4, <3>0 DEF Fitting
      <4> QED
        BY <4>4, <4>5
    <3> QED
      BY <3>2, <3>3, <3>4
  <2>8. cut \in Cuts(m, 2 * n - 1)
    BY <2>5, <2>6, <2>7 DEF Cuts
  <2> QED
    BY <2>7, <2>8, <1>10
<1>5. CASE ~leading /\ (m = 1 \/ binding[1] # "#")
  <2> DEFINE cut == [i \in 0..m |-> IF words[i] = 0 THEN 0 ELSE 2 * words[i] - 1]
  <2>1. \A i \in 1..m : words[i] > 0
    <3> TAKE i \in 1..m
    <3>1. words[1] > 0
      <4>1. CASE m = 1
        BY <4>1, <1>0, <1>2
      <4>2. CASE binding[1] # "#"
        <5>1. 1 \in 1..m /\ words[1] = words[1 - 1] + 1
          BY <4>2, <1>1, <1>0, <1>15
        <5> QED
          BY <5>1, <1>2
      <4> QED
        BY <4>1, <4>2, <1>5
    <3>2. words[1] <= words[i]
      BY <1>0, <1>15, CutsRise
    <3> QED
      BY <3>1, <3>2, <1>6, <1>15, <1>0
  <2>2. \A i \in 0..m : cut[i] = IF words[i] = 0 THEN 0 ELSE 2 * words[i] - 1
    OBVIOUS
  <2>4. \A i \in 0..m : cut[i] \in 0..(2 * n - 1)
    BY <2>2, <1>2, <1>0
  <2>5. cut \in [0..m -> 0..(2 * n - 1)]
    BY <2>4
  <2>6. cut[0] = 0 /\ cut[m] = 2 * n - 1
    BY <2>2, <1>0, <1>2
  <2> HIDE DEF cut
  <2>7. ASSUME NEW i \in 1..m
        PROVE  cut[i - 1] <= cut[i] /\ Piece(binding, key, i, cut[i - 1], cut[i])
    <3>0. Fitting(i, cut[i - 1], cut[i]) => Piece(binding, key, i, cut[i - 1], cut[i])
      BY <1>11, Zenon
    <3>1. /\ words[i] \in 0..n /\ words[i - 1] \in 0..n /\ words[i - 1] <= words[i]
          /\ binding[i] # "#" => words[i] = words[i - 1] + 1
          /\ binding[i] # "#" => binding[i] \in {"*", key[words[i]]}
          /\ cut[i] = 2 * words[i] - 1 /\ words[i] > 0
          /\ cut[i - 1] = IF words[i - 1] = 0 THEN 0 ELSE 2 * words[i - 1] - 1
      BY <1>1, <1>2, <1>6, <2>1, <2>2
    <3>2. Odd(cut[i]) /\ (cut[i] + 1) \div 2 = words[i] /\ cut[i] \in Nat /\ cut[i - 1] \in Nat
      BY <3>1 DEF Odd
    <3>3. CASE i = 1
      <4>1. cut[i - 1] = 0 /\ words[i - 1] = 0
        BY <3>3, <2>6, <1>2
      <4>2. ~Odd(cut[i - 1]) /\ Odd(cut[i] - cut[i - 1]) /\ cut[i - 1] <= cut[i]
        BY <4>1, <3>2 DEF Odd
      <4>3. CASE binding[i] = "#"
        BY <4>2, <4>3, <3>3, <1>5, <3>0 DEF Fitting
      <4>4. CASE binding[i] # "#"
        <5>1. cut[i] = cut[i - 1] + 1
          BY <4>1, <4>4, <3>1
        <5>2. binding[i] \in {"*", key[(cut[i] + 1) \div 2]}
          BY <4>4, <3>1, <3>2
        <5> QED
          BY <5>1, <5>2, <4>2, <4>4, <3>2, <3>3, <3>0 DEF Fitting
      <4> QED
        BY <4>3, <4>4
    <3>4. CASE i > 1
      <4>1. words[i - 1] > 0 /\ cut[i - 1] = 2 * words[i - 1] - 1
        BY <3>1, <3>4, <2>1, <1>0
      <4>2. Odd(cut[i - 1]) /\ ~Odd(cut[i] - cut[i - 1]) /\ cut[i - 1] <= cut[i]
        BY <3>1, <4>1 DEF Odd
      <4>3. CASE binding[i] = "#"
        BY <4>2, <4>3, <3>4, <3>0 DEF Fitting
      <4>4. CASE binding[i] # "#"
        <5>1. cut[i] = cut[i - 1] + 2
          BY <4>1, <4>4, <3>1
        <5>2. binding[i] \in {"*", key[(cut[i] + 1) \div 2]}
          BY <4>4, <3>1, <3>2
        <5> QED
          BY <5>1, <5>2, <4>2, <4>4, <3>2, <3>4, <1>5, <3>0 DEF Fitting
      <4> QED
        BY <4>3, <4>4
    <3> QED
      BY <3>3, <3>4
  <2>8. cut \in Cuts(m, 2 * n - 1)
    BY <2>5, <2>6, <2>7 DEF Cuts
  <2> QED
    BY <2>7, <2>8, <1>10
<1>7. leading \/ (~leading /\ (m = 1 \/ binding[1] # "#")) \/ \A i \in 1..m : binding[i] = "#"
  BY <1>0, <1>12, <1>15
<1> QED
  BY <1>3, <1>4, <1>5, <1>7
-----------------------------------------------------------------------------
LEMMA KeyTypes ==
  ASSUME NEW k \in Keys
  PROVE  Len(k) \in Nat /\ (k # <<>> => Len(k) \in Nat \ {0})
<1>1. k \in Seq({k[i] : i \in DOMAIN k})
  BY IdAssumption
<1> QED
  BY <1>1

(* A binding that is the key itself is delivered, wildcards or not.         *)
LEMMA KindDecides ==
  ASSUME NEW binding \in Keys, NEW key \in Keys, binding # <<>>, key # <<>>
  PROVE  /\ amqp_match_kind(binding, key) # "none" => BrokerMatches(binding, key)
         /\ BrokerMatches(binding, key) /\ ~Repeats(binding) =>
              amqp_match_kind(binding, key) # "none"
<1>1. Len(binding) \in Nat /\ Len(key) \in Nat \ {0}
  BY KeyTypes
<1>2. ASSUME binding = key
      PROVE  BrokerMatches(binding, key)
  <2> DEFINE m == Len(binding)
             cut == [i \in 0..m |-> i]
  <2>1. cut \in Cuts(m, m)
    BY <1>1, <1>2 DEF Cuts
  <2>2. \A i \in 1..m : cut[i] = cut[i - 1] + 1 /\ cut[i] = i
    BY <1>1, <1>2
  <2> HIDE DEF cut
  <2>3. \A i \in 1..m : cut[i] = cut[i - 1] + 1 /\ binding[i] \in {"*", key[cut[i]]}
    BY <1>2, <2>2
  <2> QED
    BY <1>2, <2>1, <2>3 DEF BrokerMatches
<1>3. amqp_match_kind(binding, key) # "none" <=>
        binding = key \/ amqp_binding_matches(binding, key)
  BY DEF amqp_match_kind
<1> QED
  BY <1>1, <1>2, <1>3, MatchesAreDelivered, DeliveredMatch

(* The words of an AMQP link are those of its two sites.                    *)
LEMMA LinkKind ==
  ASSUME TypeOK, Sourced, stage = "amqp",
         NEW l, NEW c \in consumers, NEW p \in Matched(c), Pairs(l, c, p), Amqp(l.id)
  PROVE  MatchKind(l) = IF c.key = <<>> \/ p.key = <<>> THEN "indeterminate"
                        ELSE amqp_match_kind(p.key, c.key)
<1>1. p \in providers /\ p.id = l.id /\ p.symbol = l.provider
  BY DEF Matched, Of, Pairs, IsFallback, Http, Amqp
<1> DEFINE caller  == CHOOSE d \in consumers : d.id = l.id /\ d.symbol = l.consumer
           handler == CHOOSE q \in providers : q.id = l.id /\ q.symbol = l.provider
<1>2. caller = c
  BY SiteIsOne DEF Pairs
<1>3. handler = p
  BY <1>1, SiteIsOne
<1>4. MatchKind(l) = IF caller.key = <<>> \/ handler.key = <<>> THEN "indeterminate"
                     ELSE amqp_match_kind(handler.key, caller.key)
  BY DEF MatchKind
<1> HIDE DEF caller, handler
<1> QED
  BY <1>2, <1>3, <1>4

(* What the pruning keeps: the links whose keys meet, and all of them.      *)
Meets(c, p) == c.key = <<>> \/ p.key = <<>> \/ amqp_match_kind(p.key, c.key) # "none"
Pruned ==
    Joined => \A c \in consumers : \A p \in providers :
        c.id = p.id /\ Amqp(c.id) =>
            ((\E l \in LinksOf(c) : l.provider = p.symbol) <=> Meets(c, p))

LEMMA PruningDecides ==
  ASSUME TypeOK, Sourced, LinkInv, ReconcileAmqp
  PROVE  Pruned'
<1> DEFINE pruned == {l \in links : Amqp(l.id) => MatchKind(l) # "none"}
<1> DEFINE ambiguous(l) == \E m \in pruned :
             m.consumer = l.consumer /\ m.id = l.id /\ m.provider # l.provider
           confidence(l) == IF ~Amqp(l.id) THEN l.conf
                            ELSE IF ambiguous(l) THEN "AMBIGUOUS"
                            ELSE IF MatchKind(l) = "exact" THEN "EXTRACTED" ELSE "INFERRED"
           Rated(l) == [l EXCEPT !.conf = confidence(l)]
<1>5. /\ stage = "amqp"
      /\ consumers' = consumers /\ providers' = providers
      /\ links' = {Rated(l) : l \in pruned}
  BY DEF ReconcileAmqp
<1>6. \A l \in pruned :
        Rated(l).consumer = l.consumer /\ Rated(l).provider = l.provider /\ Rated(l).id = l.id
  BY DEF TypeOK, Links
<1> HIDE DEF Rated, confidence, ambiguous
<1>1. /\ stage = "amqp"
      /\ consumers' = consumers /\ providers' = providers
      /\ \A l \in links' : \E m \in pruned :
           l.consumer = m.consumer /\ l.provider = m.provider /\ l.id = m.id
      /\ \A m \in pruned : \E l \in links' :
           l.consumer = m.consumer /\ l.provider = m.provider /\ l.id = m.id
  BY <1>5, <1>6
<1>2. links = UNION {{LinkOf(c, p) : p \in Matched(c)} : c \in consumers}
  BY <1>1 DEF LinkInv
<1>3. \A l : l \in pruned <=> l \in links /\ (Amqp(l.id) => MatchKind(l) # "none")
  OBVIOUS
<1> HIDE DEF pruned
<1>4. ASSUME NEW c \in consumers, NEW p \in providers, c.id = p.id, Amqp(c.id)
      PROVE  (\E l \in links' : l.consumer = c.symbol /\ l.id = c.id /\ l.provider = p.symbol)
                <=> Meets(c, p)
  <2>1. p \in Matched(c)
    BY <1>4 DEF Matched, Of, IsFallback
  <2>2. Pairs(LinkOf(c, p), c, p) /\ LinkOf(c, p) \in links
    BY <1>2, <2>1 DEF Pairs, LinkOf
  <2>3. \A l : Pairs(l, c, p) => (MatchKind(l) # "none" <=> Meets(c, p))
    BY <1>1, <1>4, <2>1, LinkKind DEF Meets, Pairs
  <2>4. \A l : Pairs(l, c, p) => Amqp(l.id)
    BY <1>4 DEF Pairs
  <2>5. ASSUME NEW l \in links', l.consumer = c.symbol, l.id = c.id, l.provider = p.symbol
        PROVE  Meets(c, p)
    <3>1. PICK m \in pruned : Pairs(m, c, p)
      BY <1>1, <2>5 DEF Pairs
    <3> QED
      BY <3>1, <1>3, <2>3, <2>4
  <2>6. ASSUME Meets(c, p)
        PROVE  \E l \in links' : l.consumer = c.symbol /\ l.id = c.id /\ l.provider = p.symbol
    <3>1. LinkOf(c, p) \in pruned
      BY <2>2, <2>3, <2>6, <1>3
    <3> QED
      BY <3>1, <2>2, <1>1 DEF Pairs
  <2> QED
    BY <2>5, <2>6
<1> QED
  BY <1>1, <1>4 DEF Pruned, LinksOf, Meets

LEMMA PrunedCorrect == Spec => []Pruned
<1>1. Init => Pruned
  BY DEF Init, Pruned, Joined
<1>2. ASSUME TypeOK, Sourced, LinkInv, Pruned, [Next]_vars
      PROVE  Pruned'
  <2> USE <1>2
  <2>1. CASE Extract \/ FoldSpecs \/ Collapse \/ Join
    BY <2>1 DEF Extract, FoldSpecs, Collapse, Join, Pruned, Joined
  <2>2. CASE ReconcileAmqp
    BY <2>2, PruningDecides
  <2>3. CASE BuildEndpoints \/ Persist \/ UNCHANGED vars
    <3>1. /\ providers' = providers /\ consumers' = consumers /\ links' = links
          /\ Joined
          \/ stage' = stage
      BY <2>3 DEF BuildEndpoints, Persist, vars, Joined
    <3> QED
      BY <2>3, <3>1 DEF Pruned, Joined, LinksOf, Meets, BuildEndpoints, Persist, vars
  <2> QED
    BY <2>1, <2>2, <2>3 DEF Next
<1> QED
  BY <1>1, <1>2, LinkedCorrect, PTL DEF Spec

(* The first sites of the sources are the sites the pruning sees.           *)
LEMMA FirstSitesMeet ==
  ASSUME TypeOK, Sourced, Pruned, Joined,
         NEW c \in FirstSites(code.called), NEW p \in FirstSites(code.provided),
         c.id = p.id, Amqp(c.id)
  PROVE  /\ (\E l \in LinksOf(c) : l.provider = p.symbol) <=> Meets(c, p)
         /\ c.key \in Keys /\ p.key \in Keys /\ p \in code.provided
<1>1. code \in Codebases /\ Reconciled(providers) /\ consumers = FirstSites(code.called)
  BY DEF TypeOK, Sourced, Joined
<1>2. /\ p \in Declarations /\ p \in code.provided /\ p \in Sites
      /\ c \in code.called /\ c \in Sites
  BY <1>1, CodeTypes DEF Declarations, FirstSites
<1>3. ~p.spec /\ p.symbol # Unlocated
  BY <1>1, <1>2, CodeTypes
<1>4. PICK q \in providers : q.id = p.id /\ q.symbol = p.symbol
  BY <1>1, <1>2, <1>3 DEF Reconciled
<1>5. PICK s \in Declarations : s.id = q.id /\ s.symbol = q.symbol /\ s.key = q.key
  BY <1>1, <1>3, <1>4 DEF Reconciled
<1>6. s = p
  BY <1>1, <1>2, <1>4, <1>5, KeptFacts
<1>7. q.key = p.key
  BY <1>5, <1>6
<1>8. (\E l \in LinksOf(c) : l.provider = q.symbol) <=> Meets(c, q)
  BY <1>1, <1>4 DEF Pruned
<1> QED
  BY <1>2, <1>4, <1>7, <1>8 DEF Meets, Sites

(* Whatever sites the sources have, no AMQP link stands for a delivery that a *)
(* broker would not make; and between first sites of an exchange, where it   *)
(* would make one there is a link, unless the binding starts with "#.#." and *)
(* goes on (join, reconcile_amqp, amqp_binding_matches).                    *)
THEOREM KeysAreDecided == Spec => []KeysDecide
<1>1. ASSUME TypeOK, Sourced, LinkInv, Pruned
      PROVE  KeysDecide
  <2> USE <1>1
  <2>1. ASSUME Joined, NEW l \in links, Amqp(l.id)
        PROVE  \E c \in code.called, p \in code.provided : Joins(l, c, p) /\ BrokerDelivers(c, p)
    <3>1. Linked
      BY <2>1 DEF LinkInv
    <3>2. PICK c \in consumers : \E p \in Matched(c) : Pairs(l, c, p)
      BY <3>1, <2>1 DEF Linked
    <3>3. PICK p \in Matched(c) : Pairs(l, c, p)
      BY <3>2
    <3>4. p \in providers /\ p.id = l.id /\ p.symbol = l.provider
      BY <2>1, <3>3 DEF Matched, Of, Pairs, IsFallback, Http, Amqp
    <3>5. /\ c \in code.called /\ c.id = l.id /\ c.symbol = l.consumer
          /\ c.key \in Keys
      BY <2>1, <3>3, SitesSurvive, CodeTypes DEF Pairs, TypeOK, Sites
    <3>6. p.symbol # Unlocated
      BY <2>1, <3>4 DEF Sourced, Reconciled, Joined
    <3>7. PICK s \in code.provided : s.id = p.id /\ s.symbol = p.symbol /\ s.key = p.key
      BY <2>1, <3>4, <3>6, Pointed
    <3>8. s.key \in Keys
      BY <3>7, CodeTypes DEF TypeOK, Sites
    <3>9. Meets(c, p)
      BY <2>1, <3>4, <3>5 DEF Pruned, LinksOf
    <3>10. BrokerDelivers(c, s)
      BY <3>4, <3>5, <3>7, <3>8, <3>9, KindDecides DEF Meets, BrokerDelivers
    <3> QED
      BY <3>4, <3>5, <3>7, <3>10 DEF Joins
  <2>2. ASSUME Joined, NEW c \in FirstSites(code.called), NEW p \in FirstSites(code.provided),
               Amqp(c.id), BrokerDelivers(c, p), ~Repeats(p.key)
        PROVE  \E l \in links : Joins(l, c, p)
    <3>1. /\ (\E l \in LinksOf(c) : l.provider = p.symbol) <=> Meets(c, p)
          /\ c.key \in Keys /\ p.key \in Keys
      BY <2>2, FirstSitesMeet DEF BrokerDelivers
    <3>2. Meets(c, p)
      BY <2>2, <3>1, KindDecides DEF Meets, BrokerDelivers
    <3> QED
      BY <3>1, <3>2 DEF LinksOf, Joins
  <2> QED
    BY <2>1, <2>2 DEF KeysDecide
<1> QED
  BY <1>1, LinkedCorrect, PrunedCorrect, PTL
-----------------------------------------------------------------------------
(* The extractors (Extractors).                                             *)

(* What the extractors of a kind have found, once they are done.            *)
Finds(k, contracts) == kind = k /\ pc = "done" => found = contracts
Scanned ==
  /\ repo \in Repos[kind]
  /\ Finds("messages", {[sent   |-> OfFunction(repo.publishes, PublishSite),
                         served |-> OfFunction(repo.subscribes, SubscribeSites)]})
  /\ Finds("tools", {[served |-> ToolContracts(repo.file), called |-> ToolName(repo.called)]})
  /\ Finds("registry", {[served |-> RegistryContracts(repo.regs), called |-> DispatchId(repo.site)]})
  /\ Finds("grpc", {[declared |-> ProtoContracts(repo.proto), served |-> ServicerContracts(repo.class),
                     called |-> StubContracts(repo.stub)]})
  /\ Finds("calls", Claims(repo))

LEMMA ScannedAlways == ExtractorsSpec => []Scanned
<1>1. ExtractorsInit => Scanned
  BY DEF ExtractorsInit, Scanned, Finds
<1>2. ASSUME Scanned, [ExtractorsNext]_extractorsVars
      PROVE  Scanned'
  <2>1. CASE UNCHANGED extractorsVars
    BY <1>2, <2>1 DEF extractorsVars, Scanned, Finds
  <2>2. CASE Normalise \/ Mount \/ Control \/ Locate \/ Configure
    BY <1>2, <2>2 DEF Normalise, Mount, Control, Locate, Configure, Scan, Scanned, Finds
  <2>3. CASE Call
    BY <1>2, <2>3 DEF Call, Scan, Scanned, Finds
  <2>4. CASE Generate
    BY <1>2, <2>4 DEF Generate, Scan, Scanned, Finds
  <2>5. CASE Dispatch
    BY <1>2, <2>5 DEF Dispatch, Scan, Scanned, Finds
  <2>6. CASE Tools
    BY <1>2, <2>6 DEF Tools, Scan, Scanned, Finds
  <2>7. CASE Message
    BY <1>2, <2>7 DEF Message, Scan, Scanned, Finds
  <2> QED
    BY <1>2, <2>1, <2>2, <2>3, <2>4, <2>5, <2>6, <2>7 DEF ExtractorsNext
<1> QED
  BY <1>1, <1>2, PTL DEF ExtractorsSpec
-----------------------------------------------------------------------------
(* Of the calls of a function, the first with an id stands for all of it.   *)
First(S, j, d) == \A k \in 1..(j - 1) : \A e \in S[k] : e.id # d.id
LEMMA FirstOfId ==
  ASSUME NEW n \in Nat, NEW S
  PROVE  \A i \in 1..n : \A c \in S[i] : \E j \in 1..n : \E d \in S[j] :
           d.id = c.id /\ First(S, j, d)
<1> SUFFICES ASSUME NEW i \in 1..n, NEW c \in S[i]
             PROVE  \E j \in 1..n : \E d \in S[j] :
                      d.id = c.id /\ First(S, j, d)
  OBVIOUS
<1> DEFINE T == {j \in 1..n : \E d \in S[j] : d.id = c.id}
<1>1. T \in SUBSET Nat /\ i \in T
  OBVIOUS
<1>2. PICK j \in T : \A k \in T : j <= k
  BY <1>1, Least
<1>3. PICK d \in S[j] : d.id = c.id
  BY <1>2
<1>4. \A k \in 1..(j - 1) : \A e \in S[k] : e.id # d.id
  BY <1>2, <1>3
<1> QED
  BY <1>2, <1>3, <1>4 DEF First

LEMMA PublishedIds ==
  ASSUME NEW made \in Seq(PublishCalls), NEW i \in DOMAIN made, NEW c \in PublishSite(made[i])
  PROVE  /\ \E d \in OfFunction(made, PublishSite) : d.id = c.id
         /\ (\A k \in 1..(i - 1) : \A e \in PublishSite(made[k]) : e.id # c.id) => c \in OfFunction(made, PublishSite)
<1>1. PICK n \in Nat : DOMAIN made = 1..n
  OBVIOUS
<1>2. PICK S : \A k \in 1..n : S[k] = PublishSite(made[k])
  <2>1. \A k \in 1..n : [x \in DOMAIN made |-> PublishSite(made[x])][k] = PublishSite(made[k])
    BY <1>1
  <2> QED
    BY <2>1
<1>3. PICK j \in 1..n : \E d \in S[j] : d.id = c.id /\ First(S, j, d)
  <2>1. \A a \in 1..n : \A b \in S[a] : \E j \in 1..n : \E d \in S[j] : d.id = b.id /\ First(S, j, d)
    BY FirstOfId
  <2> QED
    BY <1>1, <1>2, <2>1
<1>4. PICK d \in S[j] : d.id = c.id /\ First(S, j, d)
  BY <1>3
<1>5. /\ j \in DOMAIN made /\ d \in PublishSite(made[j])
      /\ \A k \in 1..(j - 1) : \A e \in PublishSite(made[k]) : e.id # d.id
  BY <1>1, <1>2, <1>3, <1>4 DEF First
<1> QED
  BY <1>4, <1>5 DEF OfFunction

LEMMA SubscribedIds ==
  ASSUME NEW made \in Seq(SubscribeCalls), NEW i \in DOMAIN made, NEW c \in SubscribeSites(made[i])
  PROVE  /\ \E d \in OfFunction(made, SubscribeSites) : d.id = c.id
         /\ (\A k \in 1..(i - 1) : \A e \in SubscribeSites(made[k]) : e.id # c.id) => c \in OfFunction(made, SubscribeSites)
<1>1. PICK n \in Nat : DOMAIN made = 1..n
  OBVIOUS
<1>2. PICK S : \A k \in 1..n : S[k] = SubscribeSites(made[k])
  <2>1. \A k \in 1..n : [x \in DOMAIN made |-> SubscribeSites(made[x])][k] = SubscribeSites(made[k])
    BY <1>1
  <2> QED
    BY <2>1
<1>3. PICK j \in 1..n : \E d \in S[j] : d.id = c.id /\ First(S, j, d)
  <2>1. \A a \in 1..n : \A b \in S[a] : \E j \in 1..n : \E d \in S[j] : d.id = b.id /\ First(S, j, d)
    BY FirstOfId
  <2> QED
    BY <1>1, <1>2, <2>1
<1>4. PICK d \in S[j] : d.id = c.id /\ First(S, j, d)
  BY <1>3
<1>5. /\ j \in DOMAIN made /\ d \in SubscribeSites(made[j])
      /\ \A k \in 1..(j - 1) : \A e \in SubscribeSites(made[k]) : e.id # d.id
  BY <1>1, <1>2, <1>3, <1>4 DEF First
<1> QED
  BY <1>4, <1>5 DEF OfFunction

LEMMA PairOf ==
  ASSUME NEW i, NEW a, NEW b, NEW x, NEW y, i = <<a, b>>, i = <<x, y>>
  PROVE  a = x /\ b = y
  OBVIOUS

(* The channel of a call.                                                   *)
LEMMA ChannelOf ==
  ASSUME NEW p \in PublishCalls, NEW c
  PROVE  c \in PublishSite(p) <=>
           \/ p.name = "send" /\ p.producer /\ p.topic # "" /\ c = [id |-> <<"topic", p.topic>>, match |-> ""]
           \/ p.name = "basic_publish" /\ Exchange(p) # "" /\ c = [id |-> <<"amqp", Exchange(p)>>, match |-> p.key]
           \/ /\ p.name = "basic_publish" /\ Exchange(p) = "" /\ p.key # ""
              /\ c = [id |-> <<"queue", p.key>>, match |-> ""]
<1>1. p.producer \in BOOLEAN
  BY DEF PublishCalls
<1>2. PICK x : x = Exchange(p)
  OBVIOUS
<1>3. CASE p.name = "send" /\ p.producer /\ p.topic # ""
  BY <1>3 DEF PublishSite, Site
<1>4. CASE p.name = "basic_publish" /\ x # ""
  BY <1>2, <1>4 DEF PublishSite, Site
<1>5. CASE p.name = "basic_publish" /\ x = "" /\ p.key # ""
  BY <1>2, <1>5 DEF PublishSite, Site
<1>6. ASSUME /\ ~(p.name = "send" /\ p.producer /\ p.topic # "")
             /\ ~(p.name = "basic_publish" /\ x # "")
             /\ ~(p.name = "basic_publish" /\ x = "" /\ p.key # "")
      PROVE  PublishSite(p) = {}
  BY <1>2, <1>6 DEF PublishSite
<1> QED
  BY <1>1, <1>2, <1>3, <1>4, <1>5, <1>6

LEMMA ChannelsOf ==
  ASSUME NEW s \in SubscribeCalls, NEW c
  PROVE  c \in SubscribeSites(s) <=>
           \/ Subscribing(s) /\ \E t \in s.topics : c = [id |-> <<"topic", t>>, match |-> ""]
           \/ Consuming(s) /\ s.queue # "" /\ c = [id |-> <<"queue", s.queue>>, match |-> ""]
           \/ s.name = "queue_bind" /\ Exchange(s) # "" /\ c = [id |-> <<"amqp", Exchange(s)>>, match |-> s.key]
<1>1. s.consumer \in BOOLEAN
  BY DEF SubscribeCalls
<1>2. PICK x : x = Exchange(s)
  OBVIOUS
<1>3. CASE Subscribing(s)
  <2>1. SubscribeSites(s) = UNION {Site("topic", t, "") : t \in s.topics}
    BY <1>3 DEF SubscribeSites, Subscribing
  <2>2. c \in SubscribeSites(s) <=> \E t \in s.topics : c = [id |-> <<"topic", t>>, match |-> ""]
    BY <2>1 DEF Site
  <2> QED
    BY <1>3, <2>2 DEF Subscribing, Consuming
<1>4. CASE Consuming(s) /\ s.queue # ""
  BY <1>4 DEF SubscribeSites, Site, Subscribing, Consuming
<1>5. CASE s.name = "queue_bind" /\ x # ""
  BY <1>2, <1>5 DEF SubscribeSites, Site, Subscribing, Consuming
<1>6. ASSUME ~Subscribing(s), ~(Consuming(s) /\ s.queue # ""), ~(s.name = "queue_bind" /\ x # "")
      PROVE  SubscribeSites(s) = {}
  BY <1>2, <1>6 DEF SubscribeSites, Subscribing, Consuming
<1> QED
  BY <1>1, <1>2, <1>3, <1>4, <1>5, <1>6 DEF Subscribing

(* Two calls with a channel in common, and keys that may agree, may be of   *)
(* one message.                                                             *)
LEMMA OnlyWhatMayCome ==
  ASSUME NEW p \in PublishCalls, NEW s \in SubscribeCalls, NEW c \in PublishSite(p), NEW d \in SubscribeSites(s),
         c.id = d.id, (\E x : c.id = <<"amqp", x>>) => Maybe(c.match, d.match, {""})
  PROVE  MayCome(p, s)
<1>1. CASE p.name = "send" /\ p.producer /\ p.topic # "" /\ c = [id |-> <<"topic", p.topic>>, match |-> ""]
  <2>1. c.id = <<"topic", p.topic>>
    BY <1>1
  <2>2. Subscribing(s) /\ p.topic \in s.topics
    <3>1. CASE Subscribing(s) /\ \E t \in s.topics : d = [id |-> <<"topic", t>>, match |-> ""]
      <4>1. PICK t \in s.topics : d = [id |-> <<"topic", t>>, match |-> ""]
        BY <3>1
      <4>2. c.id = <<"topic", t>>
        BY <4>1
      <4>3. p.topic = t
        BY <2>1, <4>2, PairOf
      <4> QED
        BY <3>1, <4>3
    <3>2. ASSUME NEW way \in {"queue", "amqp"}, NEW y, NEW z, d = [id |-> <<way, y>>, match |-> z]
          PROVE  FALSE
      <4>1. c.id = <<way, y>>
        BY <3>2
      <4> QED
        BY <2>1, <3>2, <4>1, PairOf
    <3> QED
      BY <3>1, <3>2, ChannelsOf
  <2> QED
    BY <1>1, <2>2 DEF MayCome, Maybe
<1>2. CASE p.name = "basic_publish" /\ Exchange(p) # "" /\ c = [id |-> <<"amqp", Exchange(p)>>, match |-> p.key]
  <2>1. c.id = <<"amqp", Exchange(p)>> /\ c.match = p.key
    BY <1>2
  <2>2. s.name = "queue_bind" /\ Exchange(s) = Exchange(p) /\ d.match = s.key
    <3>1. CASE s.name = "queue_bind" /\ Exchange(s) # "" /\ d = [id |-> <<"amqp", Exchange(s)>>, match |-> s.key]
      <4>1. c.id = <<"amqp", Exchange(s)>>
        BY <3>1
      <4>2. c.id = <<"amqp", Exchange(p)>>
        BY <2>1
      <4>3. Exchange(p) = Exchange(s)
        BY <4>1, <4>2, PairOf
      <4>4. d.match = s.key
        BY <3>1
      <4> QED
        BY <3>1, <4>3, <4>4
    <3>2. ASSUME NEW way \in {"queue", "topic"}, NEW y, NEW z, d = [id |-> <<way, y>>, match |-> z]
          PROVE  FALSE
      <4>1. c.id = <<way, y>>
        BY <3>2
      <4>2. c.id = <<"amqp", Exchange(p)>>
        BY <2>1
      <4>3. way = "amqp"
        BY <4>1, <4>2, PairOf
      <4> QED
        BY <4>3
    <3> QED
      BY <3>1, <3>2, ChannelsOf
  <2>3. Maybe(p.key, s.key, {""})
    <3>1. \E x : c.id = <<"amqp", x>>
      BY <2>1
    <3> QED
      BY <2>1, <2>2, <3>1
  <2>4. p.exchange # "" /\ p.exchange = s.exchange
    BY <1>2, <2>2 DEF Exchange
  <2> QED
    BY <1>2, <2>2, <2>3, <2>4 DEF MayCome, Maybe
<1>3. CASE /\ p.name = "basic_publish" /\ Exchange(p) = "" /\ p.key # ""
           /\ c = [id |-> <<"queue", p.key>>, match |-> ""]
  <2>1. c.id = <<"queue", p.key>>
    BY <1>3
  <2>2. Consuming(s) /\ s.queue = p.key
    <3>1. CASE Consuming(s) /\ s.queue # "" /\ d = [id |-> <<"queue", s.queue>>, match |-> ""]
      <4>1. c.id = <<"queue", s.queue>>
        BY <3>1
      <4>2. p.key = s.queue
        BY <2>1, <4>1, PairOf
      <4> QED
        BY <3>1, <4>2
    <3>2. ASSUME NEW way \in {"amqp", "topic"}, NEW y, NEW z, d = [id |-> <<way, y>>, match |-> z]
          PROVE  FALSE
      <4>1. c.id = <<way, y>>
        BY <3>2
      <4> QED
        BY <2>1, <3>2, <4>1, PairOf
    <3> QED
      BY <3>1, <3>2, ChannelsOf
  <2>3. p.exchange \in {"", Variable}
    BY <1>3 DEF Exchange
  <2> QED
    BY <1>3, <2>2, <2>3 DEF MayCome, Maybe
<1> QED
  BY <1>1, <1>2, <1>3, ChannelOf

(* Publishers and subscribers of messages are linked only where a broker may *)
(* bring a message from the one to the other, and always where it does by   *)
(* the first calls on an exchange (publishers, subscribers, reconcile_amqp). *)
THEOREM ChannelsAlwaysMeet == ExtractorsSpec => []ChannelsMeet
<1>1. Scanned => ChannelsMeet
  <2> SUFFICES ASSUME Scanned, Done("messages"), NEW f \in found
               PROVE  /\ Meeting(f) => \E p \in ToSet(repo.publishes), s \in ToSet(repo.subscribes) : MayCome(p, s)
                      /\ \A i \in DOMAIN repo.publishes, j \in DOMAIN repo.subscribes :
                          /\ Comes(repo.publishes[i], repo.subscribes[j])
                          /\ repo.subscribes[j].name = "queue_bind" => FirstOn(repo.publishes, i) /\ FirstOn(repo.subscribes, j)
                          => Meeting(f)
    BY DEF ChannelsMeet
  <2>1. repo \in Repos["messages"]
    BY DEF Scanned, Done
  <2>2. PICK ps \in Seq(PublishCalls), ss \in Seq(SubscribeCalls) : ps = repo.publishes /\ ss = repo.subscribes
    BY <2>1, ReposAssumption
  <2>3. f = [sent   |-> OfFunction(repo.publishes, PublishSite),
             served |-> OfFunction(repo.subscribes, SubscribeSites)]
    BY DEF Scanned, Finds, Done
  <2>4. f.sent = OfFunction(ps, PublishSite) /\ f.served = OfFunction(ss, SubscribeSites)
    BY <2>2, <2>3
  <2>5. ASSUME Meeting(f)
        PROVE  \E p \in ToSet(ps), s \in ToSet(ss) : MayCome(p, s)
    <3>1. PICK c \in f.sent, d \in f.served : c.id = d.id /\ (c.id[1] = "amqp" => Maybe(c.match, d.match, {""}))
      BY <2>5 DEF Meeting
    <3>2. PICK i \in DOMAIN ps : c \in PublishSite(ps[i])
      BY <2>4 DEF OfFunction
    <3>3. PICK j \in DOMAIN ss : d \in SubscribeSites(ss[j])
      BY <2>4 DEF OfFunction
    <3>4. MayCome(ps[i], ss[j])
      <4>1. ps[i] \in PublishCalls /\ ss[j] \in SubscribeCalls
        BY <2>2
      <4>2. (\E x : c.id = <<"amqp", x>>) => c.id[1] = "amqp"
        OBVIOUS
      <4> QED
        BY <3>1, <3>2, <3>3, <4>1, <4>2, OnlyWhatMayCome
    <3> QED
      BY <3>4 DEF ToSet
  <2>6. ASSUME NEW i \in DOMAIN ps, NEW j \in DOMAIN ss, Comes(ps[i], ss[j]),
               ss[j].name = "queue_bind" => FirstOn(ps, i) /\ FirstOn(ss, j)
        PROVE  Meeting(f)
    <3>1. PICK p \in PublishCalls, s \in SubscribeCalls : p = ps[i] /\ s = ss[j]
      BY <2>2
    <3>2. ASSUME NEW way \in {"topic", "queue"}, NEW y,
                 NEW c \in PublishSite(p), NEW d \in SubscribeSites(s), c.id = <<way, y>>, d.id = <<way, y>>
          PROVE  Meeting(f)
      <4>1. PICK a \in f.sent : a.id = c.id
        <5>1. c \in PublishSite(ps[i])
          BY <3>1
        <5>2. \E a \in OfFunction(ps, PublishSite) : a.id = c.id
          BY <5>1, PublishedIds
        <5> QED
          BY <2>4, <5>2
      <4>2. PICK b \in f.served : b.id = d.id
        <5>1. d \in SubscribeSites(ss[j])
          BY <3>1
        <5>2. \E b \in OfFunction(ss, SubscribeSites) : b.id = d.id
          BY <5>1, SubscribedIds
        <5> QED
          BY <2>4, <5>2
      <4>3. a.id = b.id /\ a.id[1] # "amqp"
        BY <3>2, <4>1, <4>2
      <4> QED
        BY <4>3 DEF Meeting
    <3>3. CASE p.name = "send" /\ p.producer /\ p.topic # "" /\ Subscribing(s) /\ p.topic \in s.topics
      <4>1. PICK c : c = [id |-> <<"topic", p.topic>>, match |-> ""]
        OBVIOUS
      <4>2. c \in PublishSite(p) /\ c \in SubscribeSites(s) /\ c.id = <<"topic", p.topic>>
        BY <3>3, <4>1, ChannelOf, ChannelsOf
      <4> QED
        BY <3>2, <4>2
    <3>4. CASE p.name = "basic_publish" /\ p.exchange = "" /\ p.key # "" /\ Consuming(s) /\ s.queue = p.key
      <4>1. PICK c : c = [id |-> <<"queue", p.key>>, match |-> ""]
        OBVIOUS
      <4>2. Exchange(p) = ""
        BY <3>4 DEF Exchange
      <4>3. c \in PublishSite(p) /\ c \in SubscribeSites(s) /\ c.id = <<"queue", p.key>>
        BY <3>4, <4>1, <4>2, ChannelOf, ChannelsOf
      <4> QED
        BY <3>2, <4>3
    <3>5. CASE /\ p.name = "basic_publish" /\ p.exchange \notin {"", Variable} /\ p.key # ""
               /\ s.name = "queue_bind" /\ s.exchange = p.exchange /\ s.key = p.key
      <4>1. PICK c : c = [id |-> <<"amqp", p.exchange>>, match |-> p.key]
        OBVIOUS
      <4>2. Exchange(p) = p.exchange /\ Exchange(s) = p.exchange /\ p.exchange # ""
        BY <3>5 DEF Exchange
      <4>3. c \in PublishSite(p) /\ c \in SubscribeSites(s) /\ c.id = <<"amqp", p.exchange>>
        BY <3>5, <4>1, <4>2, ChannelOf, ChannelsOf
      <4>4. \A k \in 1..(i - 1) : \A e \in PublishSite(ps[k]) : e.id # c.id
        <5> SUFFICES ASSUME NEW k \in 1..(i - 1), NEW e \in PublishSite(ps[k]), e.id = c.id
                     PROVE  FALSE
          OBVIOUS
        <5>1. PICK q \in PublishCalls : q = ps[k]
          BY <2>2
        <5>2. CASE Exchange(q) # "" /\ e = [id |-> <<"amqp", Exchange(q)>>, match |-> q.key]
          <6>1. e.id = <<"amqp", Exchange(q)>>
            BY <5>2
          <6>2. Exchange(q) = p.exchange
            BY <4>3, <6>1, PairOf
          <6>3. q.exchange = p.exchange
            BY <4>2, <6>2 DEF Exchange
          <6> QED
            BY <2>6, <3>1, <3>5, <5>1, <6>3 DEF FirstOn
        <5>3. ASSUME NEW way \in {"topic", "queue"}, NEW y, e = [id |-> <<way, y>>, match |-> ""]
              PROVE  FALSE
          <6>1. e.id = <<way, y>>
            BY <5>3
          <6> QED
            BY <4>3, <6>1
        <5> QED
          BY <5>1, <5>2, <5>3, ChannelOf
      <4>5. \A k \in 1..(j - 1) : \A e \in SubscribeSites(ss[k]) : e.id # c.id
        <5> SUFFICES ASSUME NEW k \in 1..(j - 1), NEW e \in SubscribeSites(ss[k]), e.id = c.id
                     PROVE  FALSE
          OBVIOUS
        <5>1. PICK q \in SubscribeCalls : q = ss[k]
          BY <2>2
        <5>2. CASE Exchange(q) # "" /\ e = [id |-> <<"amqp", Exchange(q)>>, match |-> q.key]
          <6>1. e.id = <<"amqp", Exchange(q)>>
            BY <5>2
          <6>2. Exchange(q) = p.exchange
            BY <4>3, <6>1, PairOf
          <6>3. q.exchange = s.exchange
            BY <3>5, <4>2, <6>2 DEF Exchange
          <6> QED
            BY <2>6, <3>1, <3>5, <5>1, <6>3 DEF FirstOn
        <5>3. ASSUME NEW way \in {"topic", "queue"}, NEW y, e = [id |-> <<way, y>>, match |-> ""]
              PROVE  FALSE
          <6>1. e.id = <<way, y>>
            BY <5>3
          <6> QED
            BY <4>3, <6>1
        <5>4. \/ \E t \in q.topics : e = [id |-> <<"topic", t>>, match |-> ""]
              \/ e = [id |-> <<"queue", q.queue>>, match |-> ""]
              \/ Exchange(q) # "" /\ e = [id |-> <<"amqp", Exchange(q)>>, match |-> q.key]
          BY <5>1, ChannelsOf
        <5> QED
          BY <5>2, <5>3, <5>4
      <4>6. c \in f.sent
        BY <2>4, <3>1, <4>3, <4>4, PublishedIds
      <4>7. c \in f.served
        BY <2>4, <3>1, <4>3, <4>5, SubscribedIds
      <4> QED
        BY <4>6, <4>7 DEF Meeting, Maybe
    <3> QED
      BY <2>6, <3>1, <3>3, <3>4, <3>5 DEF Comes
  <2> QED
    BY <2>2, <2>5, <2>6
<1> QED
  BY <1>1, ScannedAlways, PTL
-----------------------------------------------------------------------------
(* gRPC: two references have one module exactly if they mean one.           *)
Reference(r) == r.dir \in Seq(Names) /\ r.package \in Seq(Names) /\ r.module \in Names /\ r.up \in Nat

LEMMA LocationModule ==
  ASSUME NEW r, Reference(r), r.import # "package"
  PROVE  /\ Location(r).dir \in Seq(Names) /\ Location(r).module = r.module
         /\ ModuleOf(r) = <<"path", Append(Location(r).dir, r.module)>>
<1>1. CASE r.import = "relative"
  <2>1. PICK d : d = SubSeq(r.dir, 1, Len(r.dir) - r.up)
    OBVIOUS
  <2>2. d \in Seq(Names) /\ d = SubSeq(r.dir, 1, IF r.up < Len(r.dir) THEN Len(r.dir) - r.up ELSE 0)
    BY <2>1 DEF Reference
  <2>3. d \o r.package \in Seq(Names)
    BY <2>2 DEF Reference
  <2>4. (d \o r.package) \o <<r.module>> = Append(d \o r.package, r.module)
    BY <2>3, AppendIsConcat DEF Reference
  <2> QED
    BY <1>1, <2>1, <2>2, <2>3, <2>4 DEF Location, ModuleOf
<1>2. CASE r.import # "relative"
  BY <1>2 DEF Location, ModuleOf, FlatModule, Reference
<1> QED
  BY <1>1, <1>2

LEMMA OneModule ==
  ASSUME NEW r, NEW s, Reference(r), Reference(s)
  PROVE  ModuleOf(r) = ModuleOf(s)
           <=> IF "package" \in {r.import, s.import}
               THEN r.import = s.import /\ r.package = s.package /\ r.module = s.module
               ELSE Location(r) = Location(s)
<1>1. CASE r.import = "package" /\ s.import = "package"
  <2>1. Append(r.package, r.module) = Append(s.package, s.module) <=> r.package = s.package /\ r.module = s.module
    <3>1. PICK d, e, m, n : /\ d \in Seq(Names) /\ e \in Seq(Names) /\ m \in Names /\ n \in Names
                            /\ d = r.package /\ e = s.package /\ m = r.module /\ n = s.module
      BY DEF Reference
    <3>2. d \in Seq(Names) /\ e \in Seq(Names) /\ m \in Names /\ n \in Names
      BY <3>1
    <3>3. Append(d, m) = Append(e, n) <=> d = e /\ m = n
      BY <3>2
    <3> QED
      BY <3>1, <3>3
  <2> QED
    BY <1>1, <2>1 DEF ModuleOf
<1>2. CASE r.import = "package" /\ s.import # "package"
  <2>1. ModuleOf(s)[1] = "path"
    BY <1>2, LocationModule
  <2> QED
    BY <1>2, <2>1 DEF ModuleOf
<1>3. CASE r.import # "package" /\ s.import = "package"
  <2>1. ModuleOf(r)[1] = "path"
    BY <1>3, LocationModule
  <2> QED
    BY <1>3, <2>1 DEF ModuleOf
<1>4. CASE r.import # "package" /\ s.import # "package"
  <2>1. PICK d : d = Location(r).dir /\ d \in Seq(Names) /\ ModuleOf(r) = <<"path", Append(d, r.module)>>
                  /\ Location(r).module = r.module
    BY <1>4, LocationModule
  <2>2. PICK e : e = Location(s).dir /\ e \in Seq(Names) /\ ModuleOf(s) = <<"path", Append(e, s.module)>>
                  /\ Location(s).module = s.module
    BY <1>4, LocationModule
  <2>3. Append(d, r.module) = Append(e, s.module) <=> d = e /\ r.module = s.module
    <3>1. PICK m, n : m \in Names /\ n \in Names /\ m = r.module /\ n = s.module
      BY DEF Reference
    <3>2. d \in Seq(Names) /\ e \in Seq(Names) /\ m \in Names /\ n \in Names
      BY <2>1, <2>2, <3>1
    <3>3. Append(d, m) = Append(e, n) <=> d = e /\ m = n
      BY <3>2
    <3> QED
      BY <3>1, <3>3
  <2>4. Location(r) = [dir |-> d, module |-> r.module] /\ Location(s) = [dir |-> e, module |-> s.module]
    BY <2>1, <2>2 DEF Location
  <2> QED
    BY <1>4, <2>1, <2>2, <2>3, <2>4
<1> QED
  BY <1>1, <1>2, <1>3, <1>4

(* What is called on a stub meets what a servicer or a proto file has        *)
(* exactly if they mean one module, service and method (grpc_extractor).    *)
THEOREM CallsAlwaysMeetServices == ExtractorsSpec => []CallsMeetServices
<1>1. Scanned => CallsMeetServices
  <2> SUFFICES ASSUME Scanned, Done("grpc"), NEW f \in found, NEW of \in {"declared", "served"}
               PROVE  LET side == IF of = "served" THEN repo.class
                                  ELSE [import |-> "none", dir |-> repo.proto.dir, module |-> repo.proto.module]
                          has  == IF of = "declared" THEN {m \in repo.stub.called : <<repo.stub.service, m>> \in repo.proto.rpcs}
                                  ELSE IF repo.class.service = repo.stub.service
                                  THEN repo.stub.called \intersect (repo.class.methods \ repo.class.private) ELSE {}
                          one  == IF "package" \in {side.import, repo.stub.import}
                                  THEN side.import = repo.stub.import /\ side.package = repo.stub.package /\ side.module = repo.stub.module
                                  ELSE Location(side) = Location(repo.stub)
                      IN {id[3] : id \in f[of] \intersect f.called} = IF one THEN has ELSE {}
    BY DEF CallsMeetServices
  <2>1. repo \in Repos["grpc"]
    BY DEF Scanned, Done
  <2>2. /\ Reference(repo.class) /\ Reference(repo.stub) /\ Reference(repo.proto)
        /\ repo.proto.rpcs \subseteq Names \X Names
    BY <2>1, ReposAssumption DEF Reference
  <2>3. f = [declared |-> ProtoContracts(repo.proto), served |-> ServicerContracts(repo.class),
             called |-> StubContracts(repo.stub)]
    BY DEF Scanned, Finds, Done
  <2>4. PICK stub, class, proto : stub = repo.stub /\ class = repo.class /\ proto = repo.proto
    OBVIOUS
  <2>5. PICK there : there = ModuleOf(stub)
    OBVIOUS
  <2>6. f.called = {<<there, stub.service, m>> : m \in stub.called}
    BY <2>3, <2>4, <2>5 DEF StubContracts, GrpcId
  <2>7. CASE of = "declared"
    <3>1. PICK here : here = ModuleOf([import |-> "none", dir |-> proto.dir, module |-> proto.module])
      OBVIOUS
    <3>2. f.declared = {<<here, s[1], s[2]>> : s \in proto.rpcs}
      BY <2>3, <2>4, <3>1 DEF ProtoContracts, ProtoModule, ModuleOf, GrpcId
    <3>3. {id[3] : id \in f.declared \intersect f.called}
            = IF here = there THEN {m \in stub.called : <<stub.service, m>> \in proto.rpcs} ELSE {}
      <4>1. ASSUME NEW m
            PROVE  (\E id \in f.declared \intersect f.called : id[3] = m)
                     <=> here = there /\ m \in stub.called /\ <<stub.service, m>> \in proto.rpcs
        <5>1. (\E id \in f.called : id \in f.declared /\ id[3] = m)
                <=> m \in stub.called /\ <<there, stub.service, m>> \in f.declared
          BY <2>6
        <5>2. <<there, stub.service, m>> \in f.declared
                <=> here = there /\ \E s \in proto.rpcs : s[1] = stub.service /\ s[2] = m
          BY <3>2
        <5>3. (\E s \in proto.rpcs : s[1] = stub.service /\ s[2] = m) <=> <<stub.service, m>> \in proto.rpcs
          BY <2>2, <2>4
        <5> QED
          BY <5>1, <5>2, <5>3
      <4> QED
        BY <4>1
    <3>4. here = there <=> IF "package" = stub.import THEN FALSE
                           ELSE Location([import |-> "none", dir |-> proto.dir, module |-> proto.module]) = Location(stub)
      <4>1. PICK side : side = [import |-> "none", dir |-> proto.dir, module |-> proto.module, package |-> <<>>, up |-> 0]
        OBVIOUS
      <4>2. Reference(side)
        BY <2>2, <2>4, <4>1 DEF Reference
      <4>3. side.import = "none" /\ side.dir = proto.dir /\ side.module = proto.module
        BY <4>1
      <4>4. here = ModuleOf(side)
        BY <3>1, <4>3 DEF ModuleOf
      <4>5. Location([import |-> "none", dir |-> proto.dir, module |-> proto.module]) = Location(side)
        BY <4>3 DEF Location
      <4> QED
        BY <2>2, <2>4, <2>5, <4>2, <4>3, <4>4, <4>5, OneModule
    <3> QED
      BY <2>4, <2>7, <3>3, <3>4
  <2>8. CASE of = "served"
    <3>1. PICK here : here = ModuleOf(class)
      OBVIOUS
    <3>2. f.served = {<<here, class.service, m>> : m \in class.methods \ class.private}
      BY <2>3, <2>4, <3>1 DEF ServicerContracts, GrpcId
    <3>3. {id[3] : id \in f.served \intersect f.called}
            = IF here = there
              THEN IF class.service = stub.service THEN stub.called \intersect (class.methods \ class.private) ELSE {}
              ELSE {}
      <4>1. ASSUME NEW m
            PROVE  (\E id \in f.served \intersect f.called : id[3] = m)
                     <=> here = there /\ class.service = stub.service
                         /\ m \in stub.called /\ m \in class.methods \ class.private
        <5>1. (\E id \in f.called : id \in f.served /\ id[3] = m)
                <=> m \in stub.called /\ <<there, stub.service, m>> \in f.served
          BY <2>6
        <5>2. <<there, stub.service, m>> \in f.served
                <=> here = there /\ class.service = stub.service /\ m \in class.methods \ class.private
          BY <3>2
        <5> QED
          BY <5>1, <5>2
      <4> QED
        BY <4>1
    <3>4. here = there
            <=> IF "package" \in {class.import, stub.import}
                THEN class.import = stub.import /\ class.package = stub.package /\ class.module = stub.module
                ELSE Location(class) = Location(stub)
      BY <2>2, <2>4, <2>5, <3>1, OneModule
    <3> QED
      BY <2>4, <2>8, <3>3, <3>4
  <2> QED
    BY <2>7, <2>8
<1> QED
  BY <1>1, ScannedAlways, PTL
-----------------------------------------------------------------------------
(* Clients: what each extractor knows a call by.                            *)
Lone(S) == \A x, y \in S : x = y

LEMMA LoneUrl ==
  ASSUME NEW verb, NEW arg
  PROVE  /\ Lone(UrlOf(verb, arg))
         /\ \A x \in UrlOf(verb, arg) :
              /\ x.verb = verb
              /\ \/ IsText(arg) /\ x.url = arg.text
                 \/ IsObject(arg) /\ Has(arg, "url") /\ x.url = arg.props["url"]
BY DEF UrlOf, Read, Lone

LEMMA FetchShape ==
  ASSUME NEW call
  PROVE  /\ Lone(FetchAxios(call))
         /\ FetchAxios(call) # {} => \/ call.on = "" /\ call.name \in {"fetch", "axios"}
                                     \/ call.on = "axios" /\ call.name \in HttpVerbs
<1>1. Lone(Fetching(call))
  BY DEF Fetching, Lone
<1>2. Fetching(call) # {} => \/ call.on = "" /\ call.name \in {"fetch", "axios"}
                             \/ call.on = "axios" /\ call.name \in HttpVerbs
  BY DEF Fetching
<1>3. \A site \in Fetching(call) : Lone(UrlOf(site.verb, site.arg))
  BY LoneUrl
<1>4. Lone(FetchAxios(call))
  BY <1>1, <1>3 DEF FetchAxios, Lone
<1>5. FetchAxios(call) # {} => Fetching(call) # {}
  BY DEF FetchAxios
<1> QED
  BY <1>2, <1>4, <1>5

LEMMA ConfiguredShape ==
  ASSUME NEW call
  PROVE  /\ Lone(Configured(call))
         /\ \A x \in Configured(call) :
              /\ call.on \notin {"", "axios"} /\ UrlsOf(Arg(call, 1)) # {}
              /\ x.url = ObjectUrl(Arg(call, 1))
              /\ \/ call.name \in HttpVerbs /\ x.verb = call.name
                 \/ call.name = "request"
<1> DEFINE one == Arg(call, 1)
<1>1. CASE call.on \in {"", "axios"} \/ UrlsOf(one) = {} \/ call.name \notin HttpVerbs \union {"request"}
  <2>1. Configured(call) = {}
    BY <1>1 DEF Configured
  <2> QED
    BY <2>1 DEF Lone
<1>2. CASE /\ ~(call.on \in {"", "axios"} \/ UrlsOf(one) = {})
           /\ call.name \in HttpVerbs
  <2>1. Configured(call) = {[verb |-> call.name, url |-> ObjectUrl(one)]}
    BY <1>2 DEF Configured, Read
  <2> QED
    <3>1. call.on \notin {"", "axios"} /\ UrlsOf(one) # {}
      BY <1>2
    <3>2. \A x \in Configured(call) : x.url = ObjectUrl(one) /\ x.verb = call.name
      BY <2>1
    <3>3. Lone(Configured(call))
      BY <2>1 DEF Lone
    <3> QED
      BY <1>2, <3>1, <3>2, <3>3
<1>3. CASE /\ ~(call.on \in {"", "axios"} \/ UrlsOf(one) = {})
           /\ call.name \notin HttpVerbs /\ call.name = "request"
  <2>1. Configured(call) = {[verb |-> MethodIn(one, <<"method">>), url |-> ObjectUrl(one)]}
    BY <1>3 DEF Configured, Read
  <2> QED
    <3>1. call.on \notin {"", "axios"} /\ UrlsOf(one) # {}
      BY <1>3
    <3>2. \A x \in Configured(call) : x.url = ObjectUrl(one)
      BY <2>1
    <3>3. Lone(Configured(call))
      BY <2>1 DEF Lone
    <3> QED
      BY <1>3, <3>1, <3>2, <3>3
<1> QED
  BY <1>1, <1>2, <1>3

LEMMA JQueryShape ==
  ASSUME NEW call
  PROVE  /\ Lone(JQuery(call))
         /\ \A x \in JQuery(call) :
              /\ call.on \in {"$", "jQuery"} /\ call.name \in {"get", "getJSON", "post", "ajax"}
              /\ \/ IsText(Arg(call, 1))
                 \/ /\ IsObject(Arg(call, 1)) /\ Has(Arg(call, 1), "url") /\ x.url = Arg(call, 1).props["url"]
                    /\ call.name \in {"get", "post"} => x.verb = call.name
<1>1. CASE call.on \notin {"$", "jQuery"}
  <2>1. JQuery(call) = {}
    BY <1>1 DEF JQuery
  <2> QED
    BY <2>1 DEF Lone
<1>2. CASE call.on \in {"$", "jQuery"} /\ call.name \in {"get", "getJSON"}
  <2>1. JQuery(call) = UrlOf("get", Arg(call, 1))
    BY <1>2 DEF JQuery
  <2> QED
    BY <1>2, <2>1, LoneUrl
<1>3. CASE call.on \in {"$", "jQuery"} /\ call.name = "post"
  <2>1. JQuery(call) = UrlOf("post", Arg(call, 1))
    BY <1>3 DEF JQuery
  <2> QED
    BY <1>3, <2>1, LoneUrl
<1>4. CASE call.on \in {"$", "jQuery"} /\ call.name \notin {"get", "getJSON", "post"}
  <2>1. CASE call.name = "ajax" /\ IsObject(Arg(call, 1))
    <3>1. JQuery(call) = UrlOf(MethodIn(Arg(call, 1), <<"method", "type">>), Arg(call, 1))
      BY <1>4, <2>1 DEF JQuery
    <3> QED
      BY <1>4, <2>1, <3>1, LoneUrl
  <2>2. CASE ~(call.name = "ajax" /\ IsObject(Arg(call, 1)))
    BY <1>4, <2>2 DEF JQuery, Lone
  <2> QED
    BY <2>1, <2>2
<1> QED
  BY <1>1, <1>2, <1>3, <1>4

LEMMA AngularShape ==
  ASSUME NEW call
  PROVE  /\ Lone(AngularHttp(call))
         /\ \A x \in AngularHttp(call) :
              /\ call.on \in {"http", "this.http"} /\ call.name \in HttpVerbs /\ x.verb = call.name
              /\ \/ IsText(Arg(call, 1))
                 \/ IsObject(Arg(call, 1)) /\ Has(Arg(call, 1), "url") /\ x.url = Arg(call, 1).props["url"]
BY LoneUrl DEF AngularHttp, Lone

LEMMA RtkShape ==
  ASSUME NEW call
  PROVE  /\ Lone(RtkQuery(call))
         /\ RtkQuery(call) # {} => /\ call.on # "" /\ call.name \in {"query", "mutation"}
                                   /\ Arg(call, 1).kind = "builder"
<1>1. CASE call.on # "" /\ call.name \in {"query", "mutation"} /\ Arg(call, 1).kind = "builder"
  <2>1. \E v : RtkQuery(call) = UrlOf(v, Arg(call, 1).returns)
    BY <1>1 DEF RtkQuery
  <2>2. \A v : Lone(UrlOf(v, Arg(call, 1).returns))
    BY LoneUrl
  <2> QED
    BY <1>1, <2>1, <2>2
<1>2. CASE ~(call.on # "" /\ call.name \in {"query", "mutation"} /\ Arg(call, 1).kind = "builder")
  <2>1. RtkQuery(call) = {}
    BY <1>2 DEF RtkQuery
  <2> QED
    BY <2>1 DEF Lone
<1> QED
  BY <1>1, <1>2

LEMMA ReactShape ==
  ASSUME NEW call
  PROVE  /\ Lone(ReactQuery(call))
         /\ ReactQuery(call) # {} => call.on = "" /\ call.name \in {"useQuery", "useMutation"}
<1>1. \A c : Lone(FetchAxios(c))
  BY FetchShape
<1>2. PICK sites : sites = IF call.on = "" /\ call.name \in {"useQuery", "useMutation"} /\ Arg(call, 1).kind = "hook"
                           THEN {i \in DOMAIN Arg(call, 1).calls : Fetching(Arg(call, 1).calls[i]) # {}} ELSE {}
  OBVIOUS
<1>3. ReactQuery(call) = IF sites = {} THEN {} ELSE FetchAxios(Arg(call, 1).calls[Min(sites)])
  BY <1>2 DEF ReactQuery
<1>4. CASE sites = {}
  BY <1>3, <1>4 DEF Lone
<1>5. CASE sites # {}
  <2>1. call.on = "" /\ call.name \in {"useQuery", "useMutation"}
    BY <1>2, <1>5
  <2>2. \E c : ReactQuery(call) = FetchAxios(c)
    BY <1>3, <1>5
  <2> QED
    BY <1>1, <2>1, <2>2
<1> QED
  BY <1>4, <1>5

LEMMA JavaShapes ==
  ASSUME NEW call
  PROVE  /\ Lone(Requests(call)) /\ Lone(JavaClient(call)) /\ Lone(Feign(call))
         /\ JavaClient(call) # {} => call.on # "interface"
         /\ Feign(call) # {} => call.on = "interface"
<1>1. Lone(Requests(call))
  BY DEF Requests, Read, Lone
<1>2. Lone(JavaClient(call)) /\ (JavaClient(call) # {} => call.on # "interface")
  BY DEF JavaClient, Read, Lone
<1>3. Lone(Feign(call)) /\ (Feign(call) # {} => call.on = "interface")
  BY DEF Feign, Read, Lone
<1> QED
  BY <1>1, <1>2, <1>3

(* What two extractors read off one call is the same.                       *)
LEMMA FirstUrl ==
  ASSUME NEW arg, UrlsOf(arg) # {}, ~Has(arg, "endpoint"), Has(arg, "url")
  PROVE  ObjectUrl(arg) = arg.props["url"]
<1>1. UrlsOf(arg) \subseteq {2, 3} /\ 2 \in UrlsOf(arg)
  BY DEF UrlsOf, UrlKeys
<1>2. Min(UrlsOf(arg)) = 2
  BY <1>1 DEF Min
<1> QED
  BY <1>2 DEF ObjectUrl, UrlKeys

LEMMA ReadsAgree ==
  ASSUME NEW call, NEW a \in Clients, NEW b \in Clients,
         call.language \in LanguagesOf(a), call.language \in LanguagesOf(b),
         NEW x \in ReadBy(a, call), NEW y \in ReadBy(b, call)
  PROVE  /\ ~(a = "fetch" /\ b = "configured")
         /\ (IsObject(Arg(call, 1)) => ~(Has(Arg(call, 1), "url") /\ Has(Arg(call, 1), "endpoint")))
              => x.verb = y.verb /\ x.url = y.url
         /\ a # b => a # "requests" /\ b # "requests"
<1>1. \A c \in Clients : Lone(ReadBy(c, call))
  <2>1. Lone(FetchAxios(call)) /\ Lone(Configured(call)) /\ Lone(RtkQuery(call)) /\ Lone(ReactQuery(call))
    BY FetchShape, ConfiguredShape, RtkShape, ReactShape
  <2>2. Lone(AngularHttp(call)) /\ Lone(JQuery(call)) /\ Lone(Requests(call)) /\ Lone(JavaClient(call)) /\ Lone(Feign(call))
    BY AngularShape, JQueryShape, JavaShapes
  <2> QED
    BY <2>1, <2>2 DEF ReadBy, Clients
<1>2. CASE a = b
  BY <1>1, <1>2 DEF Lone
<1>3. CASE a # b
  <2>1. /\ a \notin {"requests", "java", "feign"} /\ b \notin {"requests", "java", "feign"}
    <3>1. ~(a \in {"java", "feign"} /\ b \in {"java", "feign"})
      <4>1. ReadBy("java", call) = JavaClient(call) /\ ReadBy("feign", call) = Feign(call)
        BY DEF ReadBy
      <4> QED
        BY <1>3, <4>1, JavaShapes
    <3> QED
      BY <1>3, <3>1 DEF LanguagesOf, Clients
  <2>2. ReadBy("fetch", call) # {} => \/ call.on = "" /\ call.name \in {"fetch", "axios"}
                                      \/ call.on = "axios" /\ call.name \in HttpVerbs
    BY FetchShape DEF ReadBy
  <2>3. \A z \in ReadBy("configured", call) :
              /\ call.on \notin {"", "axios"} /\ UrlsOf(Arg(call, 1)) # {}
              /\ z.url = ObjectUrl(Arg(call, 1))
              /\ \/ call.name \in HttpVerbs /\ z.verb = call.name
                 \/ call.name = "request"
    BY ConfiguredShape DEF ReadBy
  <2>4. ReadBy("rtk", call) # {} => /\ call.on # "" /\ call.name \in {"query", "mutation"}
                                    /\ Arg(call, 1).kind = "builder"
    BY RtkShape DEF ReadBy
  <2>5. ReadBy("react-query", call) # {} => call.on = "" /\ call.name \in {"useQuery", "useMutation"}
    BY ReactShape DEF ReadBy
  <2>6. \A z \in ReadBy("angular", call) :
              /\ call.on \in {"http", "this.http"} /\ call.name \in HttpVerbs /\ z.verb = call.name
              /\ \/ IsText(Arg(call, 1))
                 \/ IsObject(Arg(call, 1)) /\ Has(Arg(call, 1), "url") /\ z.url = Arg(call, 1).props["url"]
    BY AngularShape DEF ReadBy
  <2>7. \A z \in ReadBy("jquery", call) :
              /\ call.on \in {"$", "jQuery"} /\ call.name \in {"get", "getJSON", "post", "ajax"}
              /\ \/ IsText(Arg(call, 1))
                 \/ /\ IsObject(Arg(call, 1)) /\ Has(Arg(call, 1), "url") /\ z.url = Arg(call, 1).props["url"]
                    /\ call.name \in {"get", "post"} => z.verb = call.name
    BY JQueryShape DEF ReadBy
  <2>8. UrlsOf(Arg(call, 1)) # {} => IsObject(Arg(call, 1)) /\ Arg(call, 1).kind # "builder" /\ ~IsText(Arg(call, 1))
    BY DEF UrlsOf, IsObject, IsText
  <2>9. ASSUME NEW c \in {"angular", "jquery"}, NEW z \in ReadBy(c, call), NEW w \in ReadBy("configured", call),
               ~(Has(Arg(call, 1), "url") /\ Has(Arg(call, 1), "endpoint"))
        PROVE  z.verb = w.verb /\ z.url = w.url
    <3>1. Has(Arg(call, 1), "url") /\ z.url = Arg(call, 1).props["url"] /\ z.verb = call.name /\ w.verb = call.name
      BY <2>3, <2>6, <2>7, <2>8 DEF HttpVerbs
    <3>2. w.url = Arg(call, 1).props["url"]
      BY <2>3, <2>9, <3>1, FirstUrl
    <3> QED
      BY <3>1, <3>2
  <2>10. \/ a = "configured" /\ b \in {"angular", "jquery"}
         \/ b = "configured" /\ a \in {"angular", "jquery"}
    <3>1. a \in {"fetch", "configured", "rtk", "react-query", "angular", "jquery"}
          /\ b \in {"fetch", "configured", "rtk", "react-query", "angular", "jquery"}
      BY <2>1 DEF Clients
    <3> QED
      BY <1>3, <2>2, <2>3, <2>4, <2>5, <2>6, <2>7, <2>8, <3>1 DEF HttpVerbs
  <2>11. IsObject(Arg(call, 1))
    BY <2>3, <2>8, <2>10
  <2> QED
    BY <2>1, <2>9, <2>10, <2>11
<1> QED
  BY <1>1, <1>2, <1>3

(* Extractors that claim one call agree on what it asks for and how sure    *)
(* that is; what axios is asked is not claimed as a configured client       *)
(* (consumers/configured_client.py).                                        *)
THEOREM CallersAlwaysAgree == ExtractorsSpec => []CallersAgree
<1>1. Scanned => CallersAgree
  <2> SUFFICES ASSUME Scanned, Done("calls")
               PROVE  LET urls == {i \in DOMAIN repo.args : IsObject(repo.args[i]) /\ Has(repo.args[i], "url") /\ Has(repo.args[i], "endpoint")}
                      IN /\ ~ {"fetch", "configured"} \subseteq {c.by : c \in found}
                         /\ urls = {} => \A c, d \in found : c.verb = d.verb /\ c.path = d.path /\ c.conf = d.conf
    BY DEF CallersAgree
  <2>1. found = Claims(repo)
    BY DEF Scanned, Finds, Done
  <2>2. \A c \in found : \E a \in Clients : \E x \in ReadBy(a, repo) :
          /\ repo.language \in LanguagesOf(a)
          /\ c.by = a /\ c.verb = x.verb /\ c.path = ConsumerPath(x.url)
          /\ c.conf = CallConfidence(a, repo, ConsumerPath(x.url))
    BY <2>1 DEF Claims
  <2>3. ASSUME NEW c \in found, NEW d \in found
        PROVE  /\ ~(c.by = "fetch" /\ d.by = "configured")
               /\ (IsObject(Arg(repo, 1)) => ~(Has(Arg(repo, 1), "url") /\ Has(Arg(repo, 1), "endpoint")))
                    => c.verb = d.verb /\ c.path = d.path /\ c.conf = d.conf
    <3>1. PICK a \in Clients : \E x \in ReadBy(a, repo) :
          /\ repo.language \in LanguagesOf(a)
          /\ c.by = a /\ c.verb = x.verb /\ c.path = ConsumerPath(x.url)
          /\ c.conf = CallConfidence(a, repo, ConsumerPath(x.url))
      BY <2>2
    <3>2. PICK b \in Clients : \E y \in ReadBy(b, repo) :
          /\ repo.language \in LanguagesOf(b)
          /\ d.by = b /\ d.verb = y.verb /\ d.path = ConsumerPath(y.url)
          /\ d.conf = CallConfidence(b, repo, ConsumerPath(y.url))
      BY <2>2
    <3>3. PICK x \in ReadBy(a, repo) :
          /\ repo.language \in LanguagesOf(a)
          /\ c.by = a /\ c.verb = x.verb /\ c.path = ConsumerPath(x.url)
          /\ c.conf = CallConfidence(a, repo, ConsumerPath(x.url))
      BY <3>1
    <3>4. PICK y \in ReadBy(b, repo) :
          /\ repo.language \in LanguagesOf(b)
          /\ d.by = b /\ d.verb = y.verb /\ d.path = ConsumerPath(y.url)
          /\ d.conf = CallConfidence(b, repo, ConsumerPath(y.url))
      BY <3>2
    <3>5. /\ ~(a = "fetch" /\ b = "configured")
          /\ (IsObject(Arg(repo, 1)) => ~(Has(Arg(repo, 1), "url") /\ Has(Arg(repo, 1), "endpoint")))
               => x.verb = y.verb /\ x.url = y.url
          /\ a # b => a # "requests" /\ b # "requests"
      BY <3>3, <3>4, ReadsAgree
    <3>6. \A path : CallConfidence(a, repo, path) = CallConfidence(b, repo, path)
      BY <3>5 DEF CallConfidence
    <3> QED
      BY <3>3, <3>4, <3>5, <3>6
  <2>4. IsObject(Arg(repo, 1)) => 1 \in DOMAIN repo.args /\ repo.args[1] = Arg(repo, 1)
    <3>1. repo.args \in Seq(ToSet(repo.args))
      BY ReposAssumption DEF Scanned, Done
    <3>2. ~IsObject(Dynamic)
      BY DEF IsObject, Dynamic
    <3> QED
      BY <3>1, <3>2 DEF Arg
  <2> QED
    BY <2>3, <2>4
<1> QED
  BY <1>1, ScannedAlways, PTL
-----------------------------------------------------------------------------
(* Registries: the handlers that a key unknown here may mean are the first   *)
(* of a strict order.                                                       *)
Registering == [registry : STRING, key : Nat, symbol : Nat, line : Nat]
Before(x, y) == \/ x.key < y.key
                \/ x.key = y.key /\ x.symbol < y.symbol
                \/ x.key = y.key /\ x.symbol = y.symbol /\ x.line < y.line
Earlier(S, x) == {y \in S : Before(y, x)}

LEMMA ImageFinite ==
  ASSUME NEW S, IsFiniteSet(S), NEW f, f = [x \in S |-> f[x]], NEW T, T = {f[x] : x \in S}
  PROVE  IsFiniteSet(T) /\ Cardinality(T) <= Cardinality(S)
<1>1. f \in Surjection(S, T)
  <2>1. f \in [S -> T]
    OBVIOUS
  <2> QED
    BY <2>1 DEF Surjection
<1> QED
  BY <1>1, FS_Surjection, Zenon

LEMMA RegisteredTypes ==
  ASSUME NEW regs \in Seq(Registrations)
  PROVE  Registered(regs) \subseteq Registering /\ IsFiniteSet(ToSet(regs)) /\ ToSet(regs) \subseteq Registrations
<1>1. ToSet(regs) \subseteq Registrations
  BY DEF ToSet
<1>2. \A r \in Registrations : KeyOf(r) \in Nat
  BY DEF KeyOf, Registrations
<1>3. Registered(regs) \subseteq Registering
  BY <1>1, <1>2 DEF Registered, Registrations, Registering
<1>4. IsFiniteSet(ToSet(regs))
  <2>1. ToSet(regs) = {regs[i] : i \in DOMAIN regs} /\ DOMAIN regs = 1..Len(regs) /\ Len(regs) \in Nat
        /\ regs = [i \in DOMAIN regs |-> regs[i]]
    BY DEF ToSet
  <2>2. IsFiniteSet(DOMAIN regs)
    <3>1. 1 \in Int /\ Len(regs) \in Int
      BY <2>1
    <3>2. IsFiniteSet(1..Len(regs))
      BY <3>1, FS_Interval, Zenon
    <3> QED
      BY <2>1, <3>2, Zenon
  <2> QED
    BY <2>1, <2>2, ImageFinite
<1> QED
  BY <1>1, <1>3, <1>4

\* What is registered in one registry, as a set of entries and as the registrations.
MineIn(regs, registry) == {r \in ToSet(regs) : r.registry = registry /\ Registers(r)}
EntriesIn(regs, registry) == {x \in Registered(regs) : x.registry = registry}
LEMMA RegisteredEntries ==
  ASSUME NEW regs \in Seq(Registrations), NEW registry
  PROVE  /\ IsFiniteSet(EntriesIn(regs, registry)) /\ IsFiniteSet(MineIn(regs, registry))
         /\ \A r \in MineIn(regs, registry) : \E x \in EntriesIn(regs, registry) :
              x.key = KeyOf(r) /\ x.symbol = r.symbol /\ x.line = r.line
         /\ \A x \in EntriesIn(regs, registry) : \E r \in MineIn(regs, registry) :
              x.key = KeyOf(r) /\ x.symbol = r.symbol /\ x.line = r.line
<1>0. PICK mine, all : mine = MineIn(regs, registry) /\ all = EntriesIn(regs, registry)
  OBVIOUS
<1>1. IsFiniteSet(mine)
  <2>1. mine \subseteq ToSet(regs)
    BY <1>0 DEF MineIn
  <2> QED
    BY <2>1, RegisteredTypes, FS_Subset
<1>2. PICK f : f = [r \in mine |-> [registry |-> r.registry, key |-> KeyOf(r), symbol |-> r.symbol, line |-> r.line]]
  OBVIOUS
<1>3. all = {f[r] : r \in mine} /\ f = [r \in mine |-> f[r]]
  BY <1>0, <1>2 DEF Registered, MineIn, EntriesIn
<1>4. IsFiniteSet(all)
  <2>1. PICK m, a : m = mine /\ a = all
    OBVIOUS
  <2>2. IsFiniteSet(m) /\ a = {f[r] : r \in m} /\ f = [r \in m |-> f[r]]
    BY <1>1, <1>3, <2>1
  <2>3. IsFiniteSet(a)
    BY <2>2, ImageFinite, Zenon
  <2> QED
    BY <2>1, <2>3
<1>5. \A r \in mine : f[r] \in all /\ f[r].key = KeyOf(r) /\ f[r].symbol = r.symbol /\ f[r].line = r.line
  BY <1>2, <1>3
<1>6. \A x \in all : \E r \in mine : x = f[r]
  BY <1>3
<1>7. \A x \in all : \E r \in mine : x.key = KeyOf(r) /\ x.symbol = r.symbol /\ x.line = r.line
  BY <1>5, <1>6
<1> QED
  BY <1>0, <1>1, <1>4, <1>5, <1>7

LEMMA FewerEarlier ==
  ASSUME NEW S, IsFiniteSet(S), S \subseteq Registering, NEW x \in S, NEW z \in S, Before(x, z)
  PROVE  /\ Cardinality(Earlier(S, x)) \in Nat /\ Cardinality(Earlier(S, z)) \in Nat
         /\ Cardinality(Earlier(S, x)) < Cardinality(Earlier(S, z))
<1>1. PICK X, Z : X = Earlier(S, x) /\ Z = Earlier(S, z)
  OBVIOUS
<1>2. X \subseteq Z /\ x \in Z /\ x \notin X /\ Z \subseteq S
  <2>1. \A y \in S : Before(y, x) => Before(y, z)
    BY DEF Before, Registering
  <2>2. ~Before(x, x)
    BY DEF Before, Registering
  <2> QED
    BY <1>1, <2>1, <2>2 DEF Earlier
<1>3. IsFiniteSet(Z) /\ Cardinality(Z) \in Nat
  BY <1>2, FS_Subset, FS_CardinalityType
<1>4. IsFiniteSet(X) /\ Cardinality(X) \in Nat
  BY <1>2, <1>3, FS_Subset, FS_CardinalityType
<1>5. Cardinality(X) <= Cardinality(Z) /\ (Cardinality(Z) = Cardinality(X) => Z = X)
  BY <1>2, <1>3, <1>4, FS_Subset
<1> QED
  BY <1>1, <1>2, <1>3, <1>4, <1>5

LEMMA FannedOutFacts ==
  ASSUME NEW regs \in Seq(Registrations), NEW registry,
         NEW all, all = {x \in Registered(regs) : x.registry = registry}, IsFiniteSet(all)
  PROVE  /\ FannedOut(regs, registry) = {x \in all : Cardinality(Earlier(all, x)) < FanoutCap}
         /\ IsFiniteSet(FannedOut(regs, registry)) /\ Cardinality(FannedOut(regs, registry)) <= FanoutCap
         /\ FannedOut(regs, registry) # all => Cardinality(FannedOut(regs, registry)) >= FanoutCap
         /\ \A x, z \in all : Before(x, z) /\ z \in FannedOut(regs, registry) => x \in FannedOut(regs, registry)
<1>1. FanoutCap \in Nat /\ all \subseteq Registering
  BY ReposAssumption, RegisteredTypes
<1>2. PICK F : F = FannedOut(regs, registry)
  OBVIOUS
<1>3. F = {x \in all : Cardinality(Earlier(all, x)) < FanoutCap}
  BY <1>2 DEF FannedOut, Earlier, Before
<1>4. \A x \in all : Cardinality(Earlier(all, x)) \in Nat
  <2> TAKE x \in all
  <2>1. Earlier(all, x) \subseteq all
    BY DEF Earlier
  <2> QED
    BY <2>1, FS_Subset, FS_CardinalityType
<1>5. IsFiniteSet(F) /\ Cardinality(F) <= FanoutCap
  <2>1. PICK f : f = [x \in F |-> Cardinality(Earlier(all, x)) + 1]
    OBVIOUS
  <2>2. f \in [F -> 1..FanoutCap]
    BY <1>1, <1>3, <1>4, <2>1
  <2>3. ASSUME NEW x \in F, NEW z \in F, x # z
        PROVE  f[x] # f[z]
    <3>1. x \in all /\ z \in all /\ x \in Registering /\ z \in Registering /\ x.registry = z.registry
      BY <1>1, <1>3
    <3>2. Before(x, z) \/ Before(z, x)
      BY <2>3, <3>1 DEF Before, Registering
    <3>3. Cardinality(Earlier(all, x)) # Cardinality(Earlier(all, z))
      BY <1>1, <3>1, <3>2, FewerEarlier
    <3> QED
      BY <1>4, <2>1, <3>1, <3>3
  <2>4. f \in Injection(F, 1..FanoutCap)
    BY <2>2, <2>3 DEF Injection, IsInjective
  <2>5. IsFiniteSet(1..FanoutCap) /\ Cardinality(1..FanoutCap) = FanoutCap
    BY <1>1, FS_Interval
  <2> QED
    BY <2>4, <2>5, FS_Injection
<1>6. ASSUME F # all
      PROVE  Cardinality(F) >= FanoutCap
  <2> DEFINE T == {Cardinality(Earlier(all, x)) : x \in all \ F}
  <2>1. T \in SUBSET Nat /\ T # {}
    BY <1>3, <1>4, <1>6
  <2>2. PICK m \in T : \A n \in T : m <= n
    <3> HIDE DEF T
    <3> QED
      BY <2>1, Least, Zenon
  <2>3. PICK z \in all \ F : m = Cardinality(Earlier(all, z))
    BY <2>2
  <2>4. Earlier(all, z) \subseteq F
    <3> SUFFICES ASSUME NEW y \in all, Before(y, z), y \notin F
                 PROVE  FALSE
      BY DEF Earlier
    <3>1. Cardinality(Earlier(all, y)) \in T
      OBVIOUS
    <3>2. Cardinality(Earlier(all, y)) < Cardinality(Earlier(all, z))
      BY <1>1, <2>3, FewerEarlier
    <3>3. Cardinality(Earlier(all, z)) <= Cardinality(Earlier(all, y))
      BY <2>2, <2>3, <3>1
    <3> QED
      BY <1>4, <3>2, <3>3
  <2>5. ~(Cardinality(Earlier(all, z)) < FanoutCap)
    BY <1>3, <2>3
  <2>6. Cardinality(Earlier(all, z)) <= Cardinality(F)
    BY <1>5, <2>4, FS_Subset
  <2>7. Cardinality(F) \in Nat /\ Cardinality(Earlier(all, z)) \in Nat
    BY <1>4, <1>5, <2>3, FS_CardinalityType
  <2> QED
    BY <1>1, <2>5, <2>6, <2>7
<1>7. ASSUME NEW x \in all, NEW z \in all, Before(x, z), z \in F
      PROVE  x \in F
  BY <1>1, <1>3, <1>7, FewerEarlier
<1> QED
  BY <1>2, <1>3, <1>5, <1>6, <1>7

(* A key that is called meets what was registered under it; one that is not  *)
(* known, the first of all up to the cap (extract_registry_providers).      *)
THEOREM KeysAlwaysMeet == ExtractorsSpec => []KeysMeet
<1>1. ASSUME Scanned, Done("registry"), NEW f \in found,
             NEW all, all = {r \in Mine : Registers(r)}
      PROVE  IF repo.site.key # {} THEN \A key \in repo.site.key : key # AnyKey => KeyMeets(key, Mine, Met(f))
             ELSE (\A r \in all : KeyOf(r) # AnyKey) => CapMeets(all, Met(f))
  <2>1. repo \in Repos["registry"]
    BY <1>1 DEF Scanned, Done
  <2>2. repo.regs \in Seq(Registrations) /\ \A j, k \in repo.site.key : j = k
    BY <2>1, ReposAssumption
  <2>3. f.served = RegistryContracts(repo.regs) /\ f.called = DispatchId(repo.site)
    BY <1>1 DEF Scanned, Finds, Done
  <2>4. PICK regs, name, keys, met : regs = repo.regs /\ name = repo.site.registry /\ keys = repo.site.key /\ met = Met(f)
    OBVIOUS
  <2> DEFINE names == {x.registry : x \in Registered(regs)}
  <2>5. PICK R, entries : R = Registered(regs) /\ entries = {x \in R : x.registry = name}
    OBVIOUS
  <2>6. all = {r \in ToSet(regs) : r.registry = name /\ Registers(r)}
    BY <1>1, <2>4 DEF Mine
  <2>7. /\ regs \in Seq(Registrations) /\ R \subseteq Registering /\ entries \subseteq Registering
        /\ IsFiniteSet(entries) /\ IsFiniteSet(all)
        /\ \A r \in all : \E x \in entries : x.key = KeyOf(r) /\ x.symbol = r.symbol /\ x.line = r.line
        /\ \A x \in entries : \E r \in all : x.key = KeyOf(r) /\ x.symbol = r.symbol /\ x.line = r.line
    <3>1. regs \in Seq(Registrations) /\ entries = {x \in Registered(regs) : x.registry = name}
      BY <2>2, <2>4, <2>5
    <3>2. R \subseteq Registering
      BY <2>5, <3>1, RegisteredTypes
    <3>3. entries \subseteq Registering
      BY <2>5, <3>2
    <3>4. /\ IsFiniteSet(entries) /\ IsFiniteSet(all)
          /\ \A r \in all : \E x \in entries : x.key = KeyOf(r) /\ x.symbol = r.symbol /\ x.line = r.line
          /\ \A x \in entries : \E r \in all : x.key = KeyOf(r) /\ x.symbol = r.symbol /\ x.line = r.line
      <4>1. PICK rs, m, es : rs = regs /\ m = all /\ es = entries
        OBVIOUS
      <4>2. rs \in Seq(Registrations)
        BY <3>1, <4>1
      <4>3. m = MineIn(rs, name)
        BY <2>6, <4>1 DEF MineIn
      <4>4. es = EntriesIn(rs, name)
        BY <3>1, <4>1 DEF EntriesIn
      <4>5. /\ IsFiniteSet(es) /\ IsFiniteSet(m)
            /\ \A r \in m : \E x \in es : x.key = KeyOf(r) /\ x.symbol = r.symbol /\ x.line = r.line
            /\ \A x \in es : \E r \in m : x.key = KeyOf(r) /\ x.symbol = r.symbol /\ x.line = r.line
        BY <4>2, <4>3, <4>4, RegisteredEntries
      <4> QED
        BY <4>1, <4>5
    <3> QED
      BY <3>1, <3>2, <3>3, <3>4
  <2>8. PICK fan : fan = FannedOut(regs, name)
    OBVIOUS
  <2>9. /\ fan \subseteq entries /\ IsFiniteSet(fan) /\ Cardinality(fan) <= FanoutCap
        /\ fan # entries => Cardinality(fan) >= FanoutCap
        /\ \A x, z \in entries : Before(x, z) /\ z \in fan => x \in fan
    BY <2>5, <2>7, <2>8, FannedOutFacts
  <2>10. \A k, s : (\E c \in f.served : c.id = <<name, k>> /\ c.symbol = s)
                     <=> \/ \E x \in entries : x.key = k /\ x.symbol = s
                         \/ k = AnyKey /\ \E x \in fan : x.symbol = s
    <3>1. f.served = {[id |-> <<x.registry, x.key>>, symbol |-> x.symbol] : x \in R}
                     \union UNION {{[id |-> <<n, AnyKey>>, symbol |-> x.symbol] : x \in FannedOut(regs, n)} : n \in names}
      BY <2>3, <2>4, <2>5 DEF RegistryContracts
    <3>2. \A c : c \in f.served
                   <=> \/ \E x \in R : c = [id |-> <<x.registry, x.key>>, symbol |-> x.symbol]
                       \/ \E n \in names : \E x \in FannedOut(regs, n) : c = [id |-> <<n, AnyKey>>, symbol |-> x.symbol]
      BY <3>1
    <3>3. fan # {} => name \in names
      BY <2>5, <2>9
    <3>4. ASSUME NEW k, NEW c \in f.served, c.id = <<name, k>>
          PROVE  \/ \E x \in entries : x.key = k /\ x.symbol = c.symbol
                 \/ k = AnyKey /\ \E x \in fan : x.symbol = c.symbol
      <4>1. CASE \E x \in R : c = [id |-> <<x.registry, x.key>>, symbol |-> x.symbol]
        BY <2>5, <3>4, <4>1
      <4>2. CASE \E n \in names : \E x \in FannedOut(regs, n) : c = [id |-> <<n, AnyKey>>, symbol |-> x.symbol]
        <5>1. PICK n \in names : \E x \in FannedOut(regs, n) : c = [id |-> <<n, AnyKey>>, symbol |-> x.symbol]
          BY <4>2
        <5>2. PICK x \in FannedOut(regs, n) : c = [id |-> <<n, AnyKey>>, symbol |-> x.symbol]
          BY <5>1
        <5>3. n = name /\ k = AnyKey /\ c.symbol = x.symbol
          BY <3>4, <5>2
        <5> QED
          BY <2>8, <5>2, <5>3
      <4> QED
        BY <3>2, <4>1, <4>2
    <3>5. ASSUME NEW x \in entries
          PROVE  \E c \in f.served : c.id = <<name, x.key>> /\ c.symbol = x.symbol
      <4>1. PICK c : c = [id |-> <<x.registry, x.key>>, symbol |-> x.symbol]
        OBVIOUS
      <4> QED
        BY <2>5, <3>2, <4>1
    <3>6. ASSUME NEW x \in fan
          PROVE  \E c \in f.served : c.id = <<name, AnyKey>> /\ c.symbol = x.symbol
      <4>1. PICK c : c = [id |-> <<name, AnyKey>>, symbol |-> x.symbol]
        OBVIOUS
      <4>2. c \in f.served
        BY <2>8, <3>2, <3>3, <4>1
      <4>3. c.id = <<name, AnyKey>> /\ c.symbol = x.symbol
        BY <4>1
      <4> QED
        BY <4>2, <4>3
    <3>7. ASSUME NEW k, NEW s, \E x \in entries : x.key = k /\ x.symbol = s
          PROVE  \E c \in f.served : c.id = <<name, k>> /\ c.symbol = s
      <4>1. PICK x \in entries : x.key = k /\ x.symbol = s
        BY <3>7
      <4>2. PICK c \in f.served : c.id = <<name, x.key>> /\ c.symbol = x.symbol
        BY <3>5
      <4> QED
        BY <4>1, <4>2
    <3>8. ASSUME NEW s, \E x \in fan : x.symbol = s
          PROVE  \E c \in f.served : c.id = <<name, AnyKey>> /\ c.symbol = s
      BY <3>6, <3>8
    <3> SUFFICES ASSUME NEW k, NEW s
                 PROVE  (\E c \in f.served : c.id = <<name, k>> /\ c.symbol = s)
                          <=> \/ \E x \in entries : x.key = k /\ x.symbol = s
                              \/ k = AnyKey /\ \E x \in fan : x.symbol = s
      OBVIOUS
    <3>9. ASSUME NEW c \in f.served, c.id = <<name, k>> /\ c.symbol = s
          PROVE  \/ \E x \in entries : x.key = k /\ x.symbol = s
                 \/ k = AnyKey /\ \E x \in fan : x.symbol = s
      <4>1. \/ \E x \in entries : x.key = k /\ x.symbol = c.symbol
            \/ k = AnyKey /\ \E x \in fan : x.symbol = c.symbol
        BY <3>4, <3>9
      <4> QED
        BY <3>9, <4>1
    <3>10. CASE \E x \in entries : x.key = k /\ x.symbol = s
      BY <3>7, <3>10
    <3>11. CASE k = AnyKey /\ \E x \in fan : x.symbol = s
      BY <3>8, <3>11
    <3> QED
      BY <3>9, <3>10, <3>11
  <2>11. \A s : s \in met <=> \E c \in f.served : c.id = f.called /\ c.symbol = s
    BY <2>4 DEF Met
  <2>12. ASSUME NEW key \in keys, key # AnyKey
         PROVE  KeyMeets(key, Mine, met)
    <3>1. f.called = <<name, key>>
      BY <2>2, <2>3, <2>4 DEF DispatchId
    <3>2. \A s : s \in met <=> \E r \in all : KeyOf(r) = key /\ r.symbol = s
      <4>1. \A s : s \in met <=> \E c \in f.served : c.id = <<name, key>> /\ c.symbol = s
        BY <2>11, <3>1
      <4>2. \A s : s \in met <=> \E x \in entries : x.key = key /\ x.symbol = s
        BY <2>10, <2>12, <4>1
      <4> QED
        BY <2>7, <4>2
    <3>3. \A r \in Mine : key \in OwnKey(r) => r \in all /\ KeyOf(r) = key
      BY <1>1 DEF OwnKey, Registers
    <3>4. \A r \in all : KeyOf(r) = key => r \in Mine /\ OwnKey(r) \in {{key}, {}}
      BY <1>1 DEF OwnKey
    <3> QED
      BY <3>2, <3>3, <3>4 DEF KeyMeets, HandlersOf
  <2>13. ASSUME keys = {}, \A r \in all : KeyOf(r) # AnyKey
         PROVE  CapMeets(all, met)
    <3>1. FanoutCap \in Nat
      BY ReposAssumption
    <3>2. f.called = <<name, AnyKey>>
      BY <2>3, <2>4, <2>13 DEF DispatchId
    <3>3. \A s : s \in met <=> \E x \in fan : x.symbol = s
      <4>1. \A x \in entries : x.key # AnyKey
        BY <2>7, <2>13
      <4>2. \A s : s \in met <=> \E c \in f.served : c.id = <<name, AnyKey>> /\ c.symbol = s
        BY <2>11, <3>2
      <4> QED
        BY <2>10, <4>1, <4>2
    <3>4. Cardinality(met) <= FanoutCap
      <4>1. PICK g : g = [x \in fan |-> x.symbol]
        OBVIOUS
      <4>2. met = {g[x] : x \in fan} /\ g = [x \in fan |-> g[x]]
        BY <3>3, <4>1
      <4>3. IsFiniteSet(met) /\ Cardinality(met) <= Cardinality(fan)
        BY <2>9, <4>2, ImageFinite, Zenon
      <4>4. Cardinality(met) \in Nat /\ Cardinality(fan) \in Nat
        BY <2>9, <4>3, FS_CardinalityType
      <4> QED
        BY <2>9, <3>1, <4>3, <4>4
    <3>5. met \subseteq HandlersOf(all)
      BY <2>7, <2>9, <3>3 DEF HandlersOf
    <3>6. ASSUME NEW x \in all, x.symbol \notin met,
                 NEW B, B = {r \in all : r.symbol \in met /\ KeyOf(r) <= KeyOf(x)}
          PROVE  Cardinality({Standing(r) : r \in B}) >= FanoutCap /\ met \subseteq HandlersOf(B)
      <4>1. PICK w \in entries : w.key = KeyOf(x) /\ w.symbol = x.symbol
        BY <2>7
      <4>2. w \notin fan
        BY <3>3, <3>6, <4>1
      <4>3. \A z \in fan : \E r \in B : z.key = KeyOf(r) /\ z.symbol = r.symbol /\ z.line = r.line
        <5> TAKE z \in fan
        <5>1. PICK r \in all : z.key = KeyOf(r) /\ z.symbol = r.symbol /\ z.line = r.line
          BY <2>7, <2>9
        <5>2. r.symbol \in met
          BY <3>3, <5>1
        <5>3. ~Before(w, z)
          BY <2>9, <4>2
        <5>4. z.key <= w.key
          BY <2>7, <2>9, <5>3 DEF Before, Registering
        <5> QED
          BY <3>6, <4>1, <5>1, <5>2, <5>4
      <4>4. met \subseteq HandlersOf(B)
        BY <3>3, <4>3 DEF HandlersOf
      <4>5. PICK S : S = {Standing(r) : r \in B}
        OBVIOUS
      <4>6. IsFiniteSet(S)
        <5>1. IsFiniteSet(B)
          <6>1. B \subseteq all
            BY <3>6
          <6> QED
            BY <2>7, <6>1, FS_Subset
        <5>2. PICK g : g = [r \in B |-> Standing(r)]
          OBVIOUS
        <5>3. S = {g[r] : r \in B} /\ g = [r \in B |-> g[r]]
          BY <4>5, <5>2
        <5> QED
          BY <5>1, <5>3, ImageFinite, Zenon
      <4>7. PICK g : g = [z \in fan |-> <<z.key, z.symbol, z.line>>]
        OBVIOUS
      <4>8. g \in [fan -> S]
        <5>1. \A z \in fan : <<z.key, z.symbol, z.line>> \in S
          BY <4>3, <4>5 DEF Standing
        <5> QED
          BY <4>7, <5>1
      <4>9. \A y, z \in fan : g[y] = g[z] => y = z
        <5>1. \A y \in fan : y \in Registering /\ y.registry = name
          BY <2>5, <2>7, <2>9
        <5> QED
          BY <4>7, <5>1 DEF Registering
      <4>10. g \in Injection(fan, S)
        BY <4>8, <4>9 DEF Injection, IsInjective
      <4>11. Cardinality(fan) <= Cardinality(S)
        BY <4>6, <4>10, FS_Injection
      <4>12. Cardinality(fan) \in Nat /\ Cardinality(S) \in Nat /\ Cardinality(fan) >= FanoutCap
        BY <2>9, <4>1, <4>2, <4>6, FS_CardinalityType
      <4> QED
        BY <3>1, <4>4, <4>5, <4>11, <4>12
    <3> QED
      BY <3>4, <3>5, <3>6 DEF CapMeets
  <2> QED
    BY <2>4, <2>12, <2>13
<1>2. Scanned => KeysMeet
  BY <1>1 DEF KeysMeet
<1> QED
  BY <1>2, ScannedAlways, PTL
=============================================================================
