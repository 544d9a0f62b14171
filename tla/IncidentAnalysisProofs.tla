----------------------- MODULE IncidentAnalysisProofs -----------------------
(***************************************************************************)
(* The conclusions of rca_engine, for any catalog, any evidence and any    *)
(* bounds.  Everything rests on one fact about the engine's pipeline: what *)
(* a rule is evaluated to is a function of the set of the raw items, so    *)
(* neither sanitisation nor normalisation, nor the order of the items or   *)
(* the clocks of their sources, has a say in it (EvaluationIs).  So is the *)
(* set of the events of the timeline (EventsAre).                          *)
(***************************************************************************)
EXTENDS IncidentAnalysis, SequenceTheorems, FiniteSetTheorems, TLAPS,
        WellFoundedInduction

Certified == collect_certified_signatures(Catalog)
Allowed == collect_allowed_attribute_keys(Catalog)

\* The item of the engine for the i-th raw one.
Sanitized(e, i) ==
    [id         |-> e.id,
     domain     |-> e.domain,
     source     |-> derive_source_token(e.source),
     event_type |-> e.event_type,
     time       |-> e.time,
     signature  |-> classify_signature(e.signature, Certified),
     attributes |-> sanitize_attributes(e.attributes, Allowed),
     raw_index  |-> i]

EngineItems(f) == normalize_evidence(validate_and_sanitize(f, Catalog))

\* The clocks that are off.
Off(f) == skewed_sources(validate_and_sanitize(f, Catalog))

EngineItem(f, i) == Normalized(Sanitized(f.evidence[i], i), Off(f))

\* What a rule is evaluated to, said of the raw items.
Symptom(e, r) ==
    LET c == classify_signature(e.signature, Certified)
    IN  /\ e.event_type \in CAUSAL_ELIGIBLE_EVENT_TYPES
        /\ \/ c.status = "CERTIFIED" /\ c.canonical \in r.signature_any
           \/ r.signature_any = {} /\ e.event_type \in r.event_type_any

Meeting(E, conditions) == {e \in E : Meets(e, conditions)}

Evaluated(r, E) ==
    [symptoms      |-> {e.id : e \in {x \in E : Symptom(x, r)}},
     supporting    |-> {e.id : e \in Meeting(E, r.supporting)},
     contradicting |-> {e.id : e \in Meeting(E, r.contradicting)},
     unresolved    |-> Meeting(E, Critical(r)) # {},
     missing       |-> {c \in r.supporting : Meeting(E, {c}) = {}},
     temporal      |-> Meeting(E, r.temporal) # {},
     sources       |-> Cardinality({e.source : e \in Meeting(E, r.supporting)})]

Known(e) == e.event_type \in ALL_EVENT_TYPES

-----------------------------------------------------------------------------
LEMMA ItemsAre ==
    ASSUME NEW f
    PROVE  EngineItems(f) = {EngineItem(f, i) : i \in DOMAIN f.evidence}
  <1>1. validate_and_sanitize(f, Catalog) = {Sanitized(f.evidence[i], i) : i \in DOMAIN f.evidence}
    BY DEF validate_and_sanitize, Sanitized, Certified, Allowed
  <1> DEFINE S == validate_and_sanitize(f, Catalog)
  <1>2. normalize_evidence(S) = {Normalized(e, Off(f)) : e \in S}
    BY DEF normalize_evidence, Off
  <1> HIDE DEF S
  <1>3. {Normalized(e, Off(f)) : e \in {Sanitized(f.evidence[i], i) : i \in DOMAIN f.evidence}}
        = {Normalized(Sanitized(f.evidence[i], i), Off(f)) : i \in DOMAIN f.evidence}
    OBVIOUS
  <1> QED
    BY <1>1, <1>2, <1>3 DEF EngineItems, EngineItem, S

\* The fields of an item that the rules look at.
LEMMA ItemFields ==
    ASSUME NEW f, NEW i \in DOMAIN f.evidence
    PROVE  /\ EngineItem(f, i).id = f.evidence[i].id
           /\ EngineItem(f, i).domain = f.evidence[i].domain
           /\ EngineItem(f, i).source = derive_source_token(f.evidence[i].source)
           /\ EngineItem(f, i).event_type = f.evidence[i].event_type
           /\ EngineItem(f, i).signature = classify_signature(f.evidence[i].signature, Certified)
           /\ EngineItem(f, i).attributes = sanitize_attributes(f.evidence[i].attributes, Allowed)
  BY DEF EngineItem, Normalized, Sanitized

\* Sanitisation drops nothing that a condition of a rule asks for.
LEMMA KeptAttributes ==
    ASSUME NEW r \in ToSet(Catalog), NEW c \in Conditions(r), NEW a
    PROVE  (/\ c.attribute \in DOMAIN sanitize_attributes(a, Allowed)
            /\ sanitize_attributes(a, Allowed)[c.attribute] = c.value)
           <=> (c.attribute \in DOMAIN a /\ a[c.attribute] = c.value)
  <1>1. c.attribute \in Allowed
    BY DEF Allowed, collect_allowed_attribute_keys
  <1>2. c.value # "text"
    BY IncidentAssumption
  <1> QED
    BY <1>1, <1>2 DEF sanitize_attributes, Restrict

LEMMA MatchIsMeets ==
    ASSUME NEW f, NEW i \in DOMAIN f.evidence, Known(f.evidence[i]),
           NEW r \in ToSet(Catalog), NEW C \in SUBSET Conditions(r)
    PROVE  (\E c \in C : _condition_matches(EngineItem(f, i), c)) <=> Meets(f.evidence[i], C)
  <1> DEFINE e == f.evidence[i]
  <1>1. e.event_type \in CAUSAL_ELIGIBLE_EVENT_TYPES <=> e.event_type # "RECOVERY"
    BY DEF Known, ALL_EVENT_TYPES, CAUSAL_ELIGIBLE_EVENT_TYPES
  <1>2. ASSUME NEW c \in C
        PROVE  _condition_matches(EngineItem(f, i), c)
               <=> /\ e.event_type # "RECOVERY"
                   /\ c.domain \in {None, e.domain}
                   /\ c.attribute \in DOMAIN e.attributes
                   /\ e.attributes[c.attribute] = c.value
    BY <1>1, ItemFields, KeptAttributes DEF _condition_matches
  <1> QED
    BY <1>2 DEF Meets

\* A field of the items that match is that field of the raw items that meet.
LEMMA Matched ==
    ASSUME NEW f, \A i \in DOMAIN f.evidence : Known(f.evidence[i]),
           NEW r \in ToSet(Catalog), NEW C \in SUBSET Conditions(r)
    PROVE  /\ {e.id : e \in Matching(EngineItems(f), C)}
                = {e.id : e \in Meeting(ToSet(f.evidence), C)}
           /\ {e.source : e \in Matching(EngineItems(f), C)}
                = {derive_source_token(e.source) : e \in Meeting(ToSet(f.evidence), C)}
           /\ Matching(EngineItems(f), C) = {} <=> Meeting(ToSet(f.evidence), C) = {}
  <1> DEFINE I == {i \in DOMAIN f.evidence : Meets(f.evidence[i], C)}
  <1>1. Matching(EngineItems(f), C) = {EngineItem(f, i) : i \in I}
    BY ItemsAre, MatchIsMeets DEF Matching
  <1>2. Meeting(ToSet(f.evidence), C) = {f.evidence[i] : i \in I}
    BY DEF Meeting, ToSet
  <1>3. I \subseteq DOMAIN f.evidence
    OBVIOUS
  <1> HIDE DEF I
  <1>4. {e.id : e \in {EngineItem(f, i) : i \in I}} = {e.id : e \in {f.evidence[i] : i \in I}}
    BY <1>3, ItemFields
  <1>5. {e.source : e \in {EngineItem(f, i) : i \in I}}
        = {derive_source_token(e.source) : e \in {f.evidence[i] : i \in I}}
    BY <1>3, ItemFields
  <1>6. {EngineItem(f, i) : i \in I} = {} <=> {f.evidence[i] : i \in I} = {}
    OBVIOUS
  <1> QED
    BY ONLY <1>1, <1>2, <1>4, <1>5, <1>6, Zenon

\* Tokens tell sources apart.
LEMMA TokensCount ==
    ASSUME NEW S, IsFiniteSet(S)
    PROVE  Cardinality({derive_source_token(s) : s \in S}) = Cardinality(S)
  <1> DEFINE T == {derive_source_token(s) : s \in S}
             g == [s \in S |-> derive_source_token(s)]
  <1>1. g \in Bijection(S, T)
    <2>1. \A s, t \in S : derive_source_token(s) = derive_source_token(t) => s = t
      BY DEF derive_source_token
    <2> QED
      BY <2>1 DEF Bijection, Injection, Surjection, IsInjective
  <1> HIDE DEF T, g
  <1>2. ExistsBijection(S, T)
    BY <1>1 DEF ExistsBijection
  <1> QED
    BY <1>2, FS_Bijection, FS_CountingElements DEF T

LEMMA ImageFinite ==
    ASSUME NEW S, IsFiniteSet(S), NEW g, DOMAIN g = S
    PROVE  LET T == {g[x] : x \in S} IN IsFiniteSet(T) /\ Cardinality(T) <= Cardinality(S)
  <1> DEFINE T == {g[x] : x \in S}
             h == [x \in S |-> g[x]]
  <1>1. h \in Surjection(S, T)
    BY DEF Surjection
  <1> HIDE DEF T, h
  <1> QED
    BY <1>1, FS_Surjection DEF T

\* A list has finitely many items.
IsList(s) == s \in Seq(ToSet(s))

LEMMA ListFinite ==
    ASSUME NEW s, IsList(s)
    PROVE  IsFiniteSet(ToSet(s))
  <1> DEFINE n == Len(s)
  <1>1. n \in Nat /\ DOMAIN s = 1..n
    BY DEF IsList
  <1> HIDE DEF n
  <1>2. IsFiniteSet(1..n)
    BY <1>1, FS_Interval
  <1>3. IsFiniteSet({s[i] : i \in 1..n})
    BY <1>1, <1>2, ImageFinite
  <1> QED
    BY <1>1, <1>3 DEF ToSet

LEMMA SourcesFinite ==
    ASSUME NEW E, IsFiniteSet(E), NEW C
    PROVE  IsFiniteSet({e.source : e \in Meeting(E, C)})
  <1>1. IsFiniteSet(Meeting(E, C))
    BY FS_Subset DEF Meeting
  <1> DEFINE M == Meeting(E, C)
             g == [e \in M |-> e.source]
  <1>2. IsFiniteSet({g[e] : e \in M})
    <2> DOMAIN g = M
      OBVIOUS
    <2> HIDE DEF g, M
    <2> QED
      BY <1>1, ImageFinite DEF M
  <1>3. {g[e] : e \in M} = {e.source : e \in M}
    OBVIOUS
  <1> QED
    BY <1>2, <1>3

(***************************************************************************)
(* A rule is evaluated on the items of the engine to what it says of the   *)
(* set of the raw items (rules.evaluate_rule after                         *)
(* intake.validate_and_sanitize and timeline.normalize_evidence).          *)
(***************************************************************************)
LEMMA EvaluationIs ==
    ASSUME NEW f, \A i \in DOMAIN f.evidence : Known(f.evidence[i]), IsList(f.evidence),
           NEW r \in ToSet(Catalog)
    PROVE  evaluate_rule(r, EngineItems(f)) = Evaluated(r, ToSet(f.evidence))
  <1> DEFINE items == EngineItems(f)
             E == ToSet(f.evidence)
             v == evaluate_rule(r, items)
             w == Evaluated(r, E)
  <1>1. /\ r.supporting \in SUBSET Conditions(r)
        /\ r.contradicting \in SUBSET Conditions(r)
        /\ Critical(r) \in SUBSET Conditions(r)
        /\ r.temporal \in SUBSET Conditions(r)
        /\ \A d \in r.supporting : {d} \in SUBSET Conditions(r)
    BY DEF Conditions, Critical
  <1>2. {e.id : e \in {x \in items : _symptom_matches(x, r)}}
        = {e.id : e \in {x \in E : Symptom(x, r)}}
    <2> DEFINE I == {i \in DOMAIN f.evidence : Symptom(f.evidence[i], r)}
    <2>1. {x \in items : _symptom_matches(x, r)} = {EngineItem(f, i) : i \in I}
      BY ItemsAre, ItemFields DEF _symptom_matches, Symptom
    <2>2. {x \in E : Symptom(x, r)} = {f.evidence[i] : i \in I}
      BY DEF ToSet
    <2>3. I \subseteq DOMAIN f.evidence
      OBVIOUS
    <2> HIDE DEF I
    <2>4. {e.id : e \in {EngineItem(f, i) : i \in I}} = {e.id : e \in {f.evidence[i] : i \in I}}
      BY <2>3, ItemFields
    <2> QED
      BY ONLY <2>1, <2>2, <2>4, Zenon
  <1>3. ASSUME NEW C \in SUBSET Conditions(r)
        PROVE  /\ {e.id : e \in Matching(items, C)} = {e.id : e \in Meeting(E, C)}
               /\ Matching(items, C) = {} <=> Meeting(E, C) = {}
    BY Matched
  <1>4. Cardinality({e.source : e \in Matching(items, r.supporting)})
        = Cardinality({e.source : e \in Meeting(E, r.supporting)})
    <2> DEFINE S == {e.source : e \in Meeting(E, r.supporting)}
    <2>1. {e.source : e \in Matching(items, r.supporting)}
          = {derive_source_token(e.source) : e \in Meeting(E, r.supporting)}
      BY <1>1, Matched
    <2>2. @ = {derive_source_token(s) : s \in S}
      OBVIOUS
    <2>3. IsFiniteSet(S)
      BY ListFinite, SourcesFinite
    <2> HIDE DEF S
    <2> QED
      BY <2>1, <2>2, <2>3, TokensCount DEF S
  <1>5. {c \in r.supporting : Matching(items, {c}) = {}}
        = {c \in r.supporting : Meeting(E, {c}) = {}}
    BY <1>1, <1>3
  <1>6. {e.id : e \in Matching(items, r.supporting)} = {e.id : e \in Meeting(E, r.supporting)}
    BY <1>1, <1>3
  <1>7. {e.id : e \in Matching(items, r.contradicting)} = {e.id : e \in Meeting(E, r.contradicting)}
    BY <1>1, <1>3
  <1>8. (Matching(items, Critical(r)) # {}) = (Meeting(E, Critical(r)) # {})
    BY <1>1, <1>3
  <1>9. (Matching(items, r.temporal) # {}) = (Meeting(E, r.temporal) # {})
    BY <1>1, <1>3
  <1>a. v = [symptoms      |-> {e.id : e \in {x \in items : _symptom_matches(x, r)}},
             supporting    |-> {e.id : e \in Matching(items, r.supporting)},
             contradicting |-> {e.id : e \in Matching(items, r.contradicting)},
             unresolved    |-> Matching(items, Critical(r)) # {},
             missing       |-> {c \in r.supporting : Matching(items, {c}) = {}},
             temporal      |-> Matching(items, r.temporal) # {},
             sources       |-> Cardinality({e.source : e \in Matching(items, r.supporting)})]
    BY DEF evaluate_rule, Critical
  <1>b. SUFFICES v = w
    OBVIOUS
  <1> HIDE DEF items, E
  <1> QED
    BY ONLY <1>2, <1>4, <1>5, <1>6, <1>7, <1>8, <1>9, <1>a, Zenon DEF Evaluated

-----------------------------------------------------------------------------
(* The conclusions *)

\* The hypotheses before ranking.
Found(E) ==
    {Hypothesis(r, Evaluated(r, E)) : r \in {x \in ToSet(Catalog) : Evaluated(x, E).symptoms # {}}}

Complete(E, D) == D \ {"malformed"} \subseteq Ids(E)

Gated(H, complete) ==
    {IF ~complete /\ h.status = "CONFIRMED"
     THEN [h EXCEPT !.status = "SUPPORTED", !.confidence = "MEDIUM",
                    !.missing = @ \cup {None}]
     ELSE h : h \in H}

Concluded(E, D) == Gated(Truncate(Found(E)).hypotheses, Complete(E, D))

Sane(f) == IsList(f.evidence) /\ \A i \in DOMAIN f.evidence : Known(f.evidence[i])

LEMMA CandidatesAre ==
    ASSUME NEW f, Sane(f)
    PROVE  candidates(Catalog, EngineItems(f)) = Found(ToSet(f.evidence))
  <1> DEFINE items == EngineItems(f)
             E == ToSet(f.evidence)
             R == ToSet(Catalog)
  <1>1. \A r \in R : evaluate_rule(r, items) = Evaluated(r, E)
    BY EvaluationIs DEF Sane
  <1>2. candidates(Catalog, items)
        = {Hypothesis(r, evaluate_rule(r, items)) : r \in {x \in R : evaluate_rule(x, items).symptoms # {}}}
    BY DEF candidates
  <1>3. {x \in R : evaluate_rule(x, items).symptoms # {}} = {x \in R : Evaluated(x, E).symptoms # {}}
    BY <1>1
  <1> HIDE DEF items, E, R
  <1> DEFINE M == {x \in R : Evaluated(x, E).symptoms # {}}
  <1>4. {Hypothesis(r, evaluate_rule(r, items)) : r \in M} = {Hypothesis(r, Evaluated(r, E)) : r \in M}
    BY <1>1
  <1> QED
    BY <1>2, <1>3, <1>4 DEF Found, items, E, R

LEMMA IdsAre ==
    ASSUME NEW f
    PROVE  Ids(EngineItems(f)) = Ids(ToSet(f.evidence))
  BY ItemsAre, ItemFields DEF Ids, ToSet

LEMMA DeclaredAre ==
    ASSUME NEW f
    PROVE  ToSet(declared_refs(f)) = ToSet(f.declared) \ {"malformed"}
  BY DEF declared_refs, RestrictValues, Restrict, ToSet

LEMMA GateIs ==
    ASSUME NEW f, NEW H
    PROVE  apply_evidence_completeness_gate(H,
                build_evidence_manifest(declared_refs(f), EngineItems(f)))
           = Gated(H, Complete(ToSet(f.evidence), ToSet(f.declared)))
  <1> DEFINE m == build_evidence_manifest(declared_refs(f), EngineItems(f))
             complete == Complete(ToSet(f.evidence), ToSet(f.declared))
  <1>1. m.completeness = "INCOMPLETE_REFS" <=> ~complete
    BY IdsAre, DeclaredAre DEF build_evidence_manifest, Complete
  <1> HIDE DEF m, complete
  <1>2. apply_evidence_completeness_gate(H, m) = Gated(H, complete)
    BY <1>1 DEF apply_evidence_completeness_gate, Gated
  <1> QED
    BY <1>2 DEF m, complete

(***************************************************************************)
(* What the engine concludes from a fixture, as a function of the set of   *)
(* its items and the set of its declared references (engine.run_rca).      *)
(***************************************************************************)
LEMMA ConclusionsAre ==
    ASSUME NEW f, Sane(f)
    PROVE  LET result == run_rca(f, Catalog)
               E == ToSet(f.evidence)
               H == Concluded(E, ToSet(f.declared))
           IN  /\ result.hypotheses = H
               /\ result.truncated = Truncate(Found(E)).truncated
               /\ result.root_cause = aggregate_root_cause(H)
               /\ result.recommendations
                     = build_recommendations(Catalog, H, aggregate_root_cause(H))
               /\ result.timeline = build_timeline(EngineItems(f))
               /\ result.domains = cross_domain_domains_involved(H, EngineItems(f))
               /\ result.limitations
                     = limitations(result.truncated, EngineItems(f), result.manifest, result.timeline)
               /\ result.manifest
                     = build_evidence_manifest(declared_refs(f), EngineItems(f))
  <1> DEFINE items == EngineItems(f)
             m == build_evidence_manifest(declared_refs(f), items)
             gen == Truncate(Found(ToSet(f.evidence)))
             H == apply_evidence_completeness_gate(gen.hypotheses, m)
  <1>1. run_rca(f, Catalog) = Analysis(Catalog, items, m)
    BY DEF run_rca, EngineItems
  <1>2. generate_hypotheses(Catalog, items) = gen
    BY CandidatesAre DEF generate_hypotheses
  <1>3. H = Concluded(ToSet(f.evidence), ToSet(f.declared))
    BY GateIs DEF Concluded
  <1>4. Analysis(Catalog, items, m)
        = Result(Catalog, items, m, build_timeline(items), gen.truncated, H)
    BY <1>2 DEF Analysis
  <1> HIDE DEF items, m, gen, H
  <1>5. LET result == Result(Catalog, items, m, build_timeline(items), gen.truncated, H)
        IN  /\ result.hypotheses = H
            /\ result.truncated = gen.truncated
            /\ result.root_cause = aggregate_root_cause(H)
            /\ result.recommendations = build_recommendations(Catalog, H, aggregate_root_cause(H))
            /\ result.timeline = build_timeline(items)
            /\ result.domains = cross_domain_domains_involved(H, items)
            /\ result.limitations = limitations(gen.truncated, items, m, build_timeline(items))
            /\ result.manifest = m
    BY DEF Result
  <1> QED
    BY <1>1, <1>3, <1>4, <1>5, Zenon DEF items, m, gen

LEMMA StatusIs ==
    ASSUME NEW r, NEW v
    PROVE  /\ Hypothesis(r, v).rule = r.id
           /\ Hypothesis(r, v).status = "CONFIRMED"
                 <=> ~v.unresolved /\ (v.temporal \/ v.sources >= r.min_sources)
  BY DEF Hypothesis, _status_and_confidence

(***************************************************************************)
(* A rule is confirmed if it is in the ranking, has no critical            *)
(* contradiction, has its sources or its temporal proof, and no declared   *)
(* reference is missing.                                                   *)
(***************************************************************************)
LEMMA ConfirmedIs ==
    ASSUME NEW f, Sane(f), NEW r \in ToSet(Catalog)
    PROVE  LET E == ToSet(f.evidence)
               v == Evaluated(r, E)
           IN  Confirmed(run_rca(f, Catalog), r.id)
               <=> /\ Complete(E, ToSet(f.declared))
                   /\ v.symptoms # {}
                   /\ Hypothesis(r, v) \in Truncate(Found(E)).hypotheses
                   /\ ~v.unresolved /\ (v.temporal \/ v.sources >= r.min_sources)
  <1> DEFINE E == ToSet(f.evidence)
             v == Evaluated(r, E)
             T == Truncate(Found(E)).hypotheses
             c == Complete(E, ToSet(f.declared))
  <1>1. run_rca(f, Catalog).hypotheses = Gated(T, c)
    BY ConclusionsAre DEF Concluded
  <1>2. T \subseteq Found(E)
    BY DEF Truncate
  <1>3. ASSUME NEW h \in T, h.rule = r.id
        PROVE  h = Hypothesis(r, v) /\ v.symptoms # {}
    <2>1. PICK s \in ToSet(Catalog) : h = Hypothesis(s, Evaluated(s, E)) /\ Evaluated(s, E).symptoms # {}
      BY <1>2, <1>3 DEF Found
    <2>2. s = r
      BY <1>3, <2>1, StatusIs, IncidentAssumption
    <2> QED
      BY <2>1, <2>2
  <1>4. ASSUME NEW h \in T
        PROVE  DOMAIN h = {"rule", "domain", "status", "confidence", "supporting", "contradicting",
                           "unresolved", "missing", "sources", "temporal"}
    BY <1>2 DEF Found, Hypothesis
  <1>5. Hypothesis(r, v).rule = r.id
        /\ (Hypothesis(r, v).status = "CONFIRMED"
               <=> ~v.unresolved /\ (v.temporal \/ v.sources >= r.min_sources))
    BY StatusIs
  <1> HIDE DEF T, c, v, E
  <1>6. ASSUME NEW g \in Gated(T, c), g.rule = r.id, g.status = "CONFIRMED"
        PROVE  c /\ g \in T
    <2>1. PICK h \in T : g = IF ~c /\ h.status = "CONFIRMED"
                             THEN [h EXCEPT !.status = "SUPPORTED", !.confidence = "MEDIUM",
                                            !.missing = @ \cup {None}]
                             ELSE h
      BY <1>6 DEF Gated
    <2>2. CASE ~c /\ h.status = "CONFIRMED"
      BY <1>4, <1>6, <2>1, <2>2
    <2>3. CASE ~(~c /\ h.status = "CONFIRMED")
      BY <1>6, <2>1, <2>3
    <2> QED
      BY <2>2, <2>3
  <1>7. ASSUME c, NEW h \in T
        PROVE  h \in Gated(T, c)
    BY <1>7 DEF Gated
  <1>8. Confirmed(run_rca(f, Catalog), r.id)
        <=> \E h \in Gated(T, c) : h.rule = r.id /\ h.status = "CONFIRMED"
    BY <1>1 DEF Confirmed
  <1>9. (\E h \in Gated(T, c) : h.rule = r.id /\ h.status = "CONFIRMED")
        <=> /\ c /\ v.symptoms # {} /\ Hypothesis(r, v) \in T
            /\ ~v.unresolved /\ (v.temporal \/ v.sources >= r.min_sources)
    BY <1>3, <1>5, <1>6, <1>7
  <1> QED
    BY <1>8, <1>9 DEF T, c, v, E

-----------------------------------------------------------------------------
(* The numbers of the bridge *)

Used(rs) == {i \in DOMAIN rs : Contributes(rs[i])}

Number(U, i) == Cardinality({j \in U : j <= i})

\* The rows that contribute are numbered from 1 without gaps.
LEMMA Numbering ==
    ASSUME NEW n \in Nat, NEW U \in SUBSET (1..n)
    PROVE  /\ IsFiniteSet(U) /\ Cardinality(U) \in Nat
           /\ \A i \in U : Number(U, i) \in 1..Cardinality(U)
           /\ \A i, j \in U : Number(U, i) = Number(U, j) => i = j
           /\ \A k \in 1..Cardinality(U) : \E i \in U : Number(U, i) = k
  <1> DEFINE Upto(i) == {j \in U : j <= i}
             c == Cardinality(U)
             g == [i \in U |-> Number(U, i)]
  <1>1. IsFiniteSet(U) /\ c \in Nat
    <2>1. IsFiniteSet(1..n)
      BY FS_Interval
    <2>2. IsFiniteSet(U)
      BY <2>1, FS_Subset
    <2> QED
      BY <2>2, FS_CardinalityType
  <1>2. ASSUME NEW i \in U
        PROVE  IsFiniteSet(Upto(i)) /\ Number(U, i) \in 1..c
    <2>1. IsFiniteSet(Upto(i)) /\ Number(U, i) <= c
      BY <1>1, FS_Subset DEF Number
    <2>2. Number(U, i) \in Nat
      BY <2>1, FS_CardinalityType DEF Number
    <2>3. Number(U, i) # 0
      <3>1. i \in Upto(i)
        OBVIOUS
      <3> HIDE DEF Upto
      <3> QED
        BY <2>1, <3>1, FS_EmptySet DEF Number, Upto
    <2> QED
      BY <1>1, <2>1, <2>2, <2>3
  <1>3. ASSUME NEW i \in U, NEW j \in U, i < j
        PROVE  Number(U, i) # Number(U, j)
    <2>1. Upto(i) \in SUBSET Upto(j) /\ j \in Upto(j) /\ j \notin Upto(i)
      <3>1. \A x \in U : x \in Int
        OBVIOUS
      <3>2. i \in Int /\ j \in Int /\ ~(j <= i) /\ j <= j
        BY <1>3, <3>1
      <3>3. \A x \in U : x <= i => x <= j
        BY <1>3, <3>1, <3>2
      <3> QED
        BY <3>2, <3>3
    <2>2. IsFiniteSet(Upto(j))
      BY <1>2
    <2>3. Number(U, i) = Cardinality(Upto(i)) /\ Number(U, j) = Cardinality(Upto(j))
      BY DEF Number
    <2> HIDE DEF Upto
    <2> QED
      BY <2>1, <2>2, <2>3, FS_Subset
  <1>4. \A i, j \in U : Number(U, i) = Number(U, j) => i = j
    BY <1>3
  <1>5. g \in Injection(U, 1..c)
    BY <1>2, <1>4 DEF Injection, IsInjective
  <1>6. IsFiniteSet(1..c) /\ Cardinality(1..c) = c
    BY <1>1, FS_Interval
  <1>7. g \in Surjection(U, 1..c)
    <2> HIDE DEF c, g
    <2> QED
      BY <1>1, <1>5, <1>6, FS_Injection DEF c
  <1>8. \A k \in 1..c : \E i \in U : Number(U, i) = k
    BY <1>7 DEF Surjection
  <1> QED
    BY <1>1, <1>2, <1>4, <1>8

\* The row with a number.
Nth(U, k) == CHOOSE i \in U : Number(U, i) = k

LEMMA FixtureIs ==
    ASSUME NEW rs
    PROVE  LET U == Used(rs) IN
           build_rca_fixture(rs)
           = [evidence |-> [k \in 1..Cardinality(U) |-> BridgeItem(rs[Nth(U, k)], k)],
              declared |-> [k \in 1..Cardinality(U) |-> EVD[k]]]
  BY DEF build_rca_fixture, Used, Nth, Number

\* A row more leaves the numbers of the others as they are.
LEMMA NumbersStay ==
    ASSUME NEW n \in Nat, NEW U \in SUBSET (1..n)
    PROVE  LET V == U \cup {n + 1} IN
           /\ Cardinality(V) = Cardinality(U) + 1
           /\ Nth(V, Cardinality(V)) = n + 1
           /\ \A k \in 1..Cardinality(U) : Nth(U, k) \in U /\ Nth(V, k) = Nth(U, k)
  <1> DEFINE V == U \cup {n + 1}
  <1>0. \A x \in U : x \in Int /\ x <= n
    OBVIOUS
  <1>1. V \in SUBSET (1..(n + 1)) /\ n + 1 \in V /\ U \subseteq V
    OBVIOUS
  <1>2. Cardinality(V) = Cardinality(U) + 1
    BY <1>0, Numbering, FS_AddElement
  <1>3. ASSUME NEW i \in U
        PROVE  Number(V, i) = Number(U, i)
    <2>1. \A j \in V : j <= i => j \in U
      <3>1. i \in Int /\ ~(n + 1 <= i)
        BY <1>0
      <3> QED
        BY <3>1
    <2>2. {j \in V : j <= i} = {j \in U : j <= i}
      BY <2>1
    <2> QED
      BY <2>2 DEF Number
  <1>4. Number(V, n + 1) = Cardinality(V)
    <2>1. \A j \in V : j <= n + 1
      BY <1>0
    <2>2. {j \in V : j <= n + 1} = V
      BY <2>1
    <2> QED
      BY <2>2 DEF Number
  <1>5. n + 1 \in Nat
    OBVIOUS
  <1> HIDE DEF V
  <1>6. \A i, j \in V : Number(V, i) = Number(V, j) => i = j
    BY <1>1, <1>5, Numbering
  <1>7. \A i, j \in U : Number(U, i) = Number(U, j) => i = j
    BY Numbering
  <1>8. Nth(V, Cardinality(V)) = n + 1
    BY <1>1, <1>4, <1>6 DEF Nth
  <1>9. ASSUME NEW k \in 1..Cardinality(U)
        PROVE  Nth(U, k) \in U /\ Nth(V, k) = Nth(U, k)
    <2>1. PICK i \in U : Number(U, i) = k
      BY Numbering
    <2>2. Nth(U, k) = i
      BY <1>7, <2>1 DEF Nth
    <2>3. Nth(V, k) = i
      BY <1>1, <1>3, <1>6, <2>1 DEF Nth
    <2> QED
      BY <2>2, <2>3
  <1> QED
    BY <1>2, <1>8, <1>9 DEF V

-----------------------------------------------------------------------------
(* The incident *)

IncidentInv ==
    /\ via \in {"file", "gateway"}
    /\ rows \in Seq(Rows)
    /\ IsList(evidence)
    /\ via = "gateway" => fixture = build_rca_fixture(rows)
    /\ Accepted => ~IntakeError(fixture) /\ out = run_rca(fixture, Catalog)

LEMMA AppendIsList ==
    ASSUME NEW s, IsList(s), NEW e
    PROVE  IsList(Append(s, e)) /\ ToSet(Append(s, e)) = ToSet(s) \cup {e}
  <1>1. s \in Seq(ToSet(s) \cup {e})
    BY DEF IsList
  <1>2. /\ Append(s, e) \in Seq(ToSet(s) \cup {e})
        /\ DOMAIN Append(s, e) = 1..(Len(s) + 1) /\ Len(s) \in Nat /\ DOMAIN s = 1..Len(s)
        /\ \A i \in 1..Len(s) : Append(s, e)[i] = s[i]
        /\ Append(s, e)[Len(s) + 1] = e
    BY <1>1, AppendProperties
  <1>3. ToSet(Append(s, e)) = ToSet(s) \cup {e}
    BY <1>2 DEF ToSet
  <1> QED
    BY <1>2, <1>3 DEF IsList

LEMMA AppendIs ==
    ASSUME NEW s, IsList(s), NEW e
    PROVE  Append(s, e) = [k \in 1..(Len(s) + 1) |-> IF k = Len(s) + 1 THEN e ELSE s[k]]
  <1>1. s \in Seq(ToSet(s) \cup {e})
    BY DEF IsList
  <1> DEFINE t == Append(s, e)
  <1>2. /\ t \in Seq(ToSet(s) \cup {e})
        /\ DOMAIN t = 1..(Len(s) + 1) /\ Len(s) \in Nat
        /\ \A i \in 1..Len(s) : t[i] = s[i]
        /\ t[Len(s) + 1] = e
    BY <1>1, AppendProperties
  <1> HIDE DEF t
  <1>3. t = [k \in 1..(Len(s) + 1) |-> t[k]]
    BY <1>2
  <1> QED
    BY <1>2, <1>3 DEF t

\* What a row more makes of the fixture of the bridge.
LEMMA BridgeGrows ==
    ASSUME NEW rs \in Seq(Rows), NEW row \in Rows
    PROVE  LET f == build_rca_fixture(rs)
               g == build_rca_fixture(Append(rs, row))
           IN  /\ IsList(f.evidence) /\ IsList(g.evidence)
               /\ \/ g = f
                  \/ \E e : g.evidence = Append(f.evidence, e)
  <1> DEFINE n == Len(rs)
             rt == Append(rs, row)
             U == Used(rs)
             V == Used(rt)
             Of(q, W) == [k \in 1..Cardinality(W) |-> BridgeItem(q[Nth(W, k)], k)]
             Names(W) == [k \in 1..Cardinality(W) |-> EVD[k]]
  <1>1. /\ n \in Nat /\ DOMAIN rs = 1..n /\ DOMAIN rt = 1..(n + 1)
        /\ \A i \in 1..n : rt[i] = rs[i]
        /\ rt[n + 1] = row
    BY AppendProperties
  <1>2. U \in SUBSET (1..n) /\ V \in SUBSET (1..(n + 1))
    BY <1>1 DEF Used
  <1>3. V = IF Contributes(row) THEN U \cup {n + 1} ELSE U
    BY <1>1 DEF Used
  <1>4. /\ build_rca_fixture(rs) = [evidence |-> Of(rs, U), declared |-> Names(U)]
        /\ build_rca_fixture(rt) = [evidence |-> Of(rt, V), declared |-> Names(V)]
    BY FixtureIs
  <1>5. Cardinality(U) \in Nat /\ Cardinality(V) \in Nat
    <2>1. n + 1 \in Nat
      BY <1>1
    <2> HIDE DEF n, U, V
    <2> QED
      BY <1>1, <1>2, <2>1, Numbering
  <1> HIDE DEF U, V, rt, n
  <1>6. IsList(Of(rs, U)) /\ IsList(Of(rt, V))
    BY <1>5 DEF IsList, ToSet
  <1>7. \A k \in 1..Cardinality(U) : Nth(U, k) \in U
    BY <1>1, <1>2, NumbersStay
  <1>a. /\ build_rca_fixture(rs).evidence = Of(rs, U)
        /\ build_rca_fixture(rt).evidence = Of(rt, V)
        /\ IsList(build_rca_fixture(rs).evidence) /\ IsList(build_rca_fixture(rt).evidence)
    BY <1>4, <1>6
  <1>b. SUFFICES \/ build_rca_fixture(rt) = build_rca_fixture(rs)
                 \/ \E e : build_rca_fixture(rt).evidence = Append(build_rca_fixture(rs).evidence, e)
    BY <1>a DEF rt
  <1>8. CASE ~Contributes(row)
    <2>1. \A k \in 1..Cardinality(U) : rt[Nth(U, k)] = rs[Nth(U, k)]
      BY <1>1, <1>2, <1>7
    <2>2. Of(rt, U) = Of(rs, U)
      BY <2>1
    <2>3. build_rca_fixture(rt) = build_rca_fixture(rs)
      BY <1>3, <1>4, <1>8, <2>2
    <2> QED
      BY <2>3
  <1>9. CASE Contributes(row)
    <2> DEFINE e == BridgeItem(row, Cardinality(V))
               old == Of(rs, U)
    <2>1. V = U \cup {n + 1}
      BY <1>3, <1>9
    <2>2. Cardinality(V) = Cardinality(U) + 1 /\ Nth(V, Cardinality(V)) = n + 1
      BY <1>1, <1>2, <2>1, NumbersStay
    <2>3. ASSUME NEW k \in 1..Cardinality(U)
          PROVE  BridgeItem(rt[Nth(V, k)], k) = BridgeItem(rs[Nth(U, k)], k)
      <3>1. Nth(V, k) = Nth(U, k) /\ Nth(U, k) \in 1..n
        BY <1>1, <1>2, <2>1, NumbersStay
      <3> QED
        BY <1>1, <3>1
    <2>4. Of(rt, V)[Cardinality(V)] = e
      BY <1>1, <1>5, <2>2
    <2>5. Len(old) = Cardinality(U) /\ IsList(old)
      BY <1>5, <1>6
    <2>6. Append(old, e) = [k \in 1..(Cardinality(U) + 1) |->
                              IF k = Cardinality(U) + 1 THEN e ELSE old[k]]
      <3> HIDE DEF old, e
      <3> QED
        BY <2>5, AppendIs
    <2>7. Of(rt, V) = Append(old, e)
      BY <1>5, <2>2, <2>3, <2>4, <2>6
    <2> HIDE DEF e, Of
    <2> QED
      BY <1>a, <2>7
  <1> QED
    BY <1>8, <1>9

LEMMA EmptyFixture == build_rca_fixture(<<>>) = [evidence |-> <<>>, declared |-> <<>>]
  <1>1. Used(<<>>) = {}
    BY DEF Used
  <1>2. Cardinality(Used(<<>>)) = 0
    BY <1>1, FS_EmptySet
  <1> QED
    BY <1>2, FixtureIs

LEMMA StepKeepsInv ==
    ASSUME IncidentInv, [Next]_vars
    PROVE  IncidentInv'
  <1> USE DEF IncidentInv, fixture, Accepted
  <1>1. ASSUME NEW e \in Items, AddEvidence(e)
        PROVE  IncidentInv'
    <2>0. evidence' = Append(evidence, e) /\ declared' = declared
      BY <1>1 DEF AddEvidence
    <2>1. fixture' = [fixture EXCEPT !.evidence = Append(@, e)]
      <3> DEFINE t == Append(evidence, e)
      <3>1. fixture' = [evidence |-> t, declared |-> declared]
        BY <2>0
      <3> HIDE DEF t
      <3>2. [fixture EXCEPT !.evidence = t] = [evidence |-> t, declared |-> declared]
        OBVIOUS
      <3> QED
        BY <3>1, <3>2 DEF t
    <2>2. /\ exit' = Analyse(fixture', out).exit
          /\ out' = Analyse(fixture', out).out
      BY <1>1, <2>1 DEF AddEvidence
    <2>3. exit' = 0 => ~IntakeError(fixture') /\ out' = run_rca(fixture', Catalog)
      BY <2>2 DEF Analyse
    <2>4. IsList(evidence')
      BY <1>1, AppendIsList DEF AddEvidence
    <2> QED
      BY <1>1, <2>3, <2>4 DEF AddEvidence
  <1>2. ASSUME NEW row \in Rows, AddRow(row)
        PROVE  IncidentInv'
    <2> DEFINE f == build_rca_fixture(rows')
    <2>1. rows' = Append(rows, row) /\ via = "gateway" /\ via' = via
      BY <1>2 DEF AddRow
    <2>2. fixture' = f
      <3>1. evidence' = f.evidence /\ declared' = f.declared
        BY <1>2, <2>1 DEF AddRow
      <3> QED
        BY <3>1, FixtureIs
    <2>3. /\ exit' = Analyse(fixture', out).exit
          /\ out' = Analyse(fixture', out).out
      BY <1>2, <2>1, <2>2 DEF AddRow
    <2>4. exit' = 0 => ~IntakeError(fixture') /\ out' = run_rca(fixture', Catalog)
      BY <2>3 DEF Analyse
    <2>5. IsList(evidence')
      BY <2>1, <2>2, BridgeGrows
    <2>6. rows' \in Seq(Rows)
      BY <2>1
    <2> QED
      BY <2>1, <2>2, <2>4, <2>5, <2>6
  <1>3. CASE UNCHANGED vars
    BY <1>3 DEF vars
  <1> QED
    BY <1>1, <1>2, <1>3 DEF Next

(***************************************************************************)
(* While the last run was accepted its file holds the conclusions of the   *)
(* evidence as it is now, and through the gateway that evidence is the     *)
(* fixture of all rows so far (rca_engine.cli, bridge.analyze).            *)
(***************************************************************************)
THEOREM IncidentInvariant == Spec => []IncidentInv
  <1>1. Init => IncidentInv
    <2> SUFFICES ASSUME Init PROVE IncidentInv
      OBVIOUS
    <2>1. evidence = <<>> /\ rows = <<>> /\ out = run_rca(fixture, Catalog)
          /\ via \in {"file", "gateway"}
      BY DEF Init
    <2>2. ~IntakeError(fixture)
      BY <2>1 DEF IntakeError, fixture
    <2>3. IsList(<<>>) /\ <<>> \in Seq(Rows)
      BY DEF IsList
    <2>4. via = "gateway" => fixture = build_rca_fixture(rows)
      BY <2>1, EmptyFixture DEF Init, fixture
    <2> QED
      BY <2>1, <2>2, <2>3, <2>4 DEF IncidentInv
  <1> QED
    BY <1>1, StepKeepsInv, PTL DEF Spec

LEMMA AcceptedIsSane ==
    ASSUME NEW f, IsList(f.evidence), ~IntakeError(f)
    PROVE  Sane(f)
  BY DEF IntakeError, Sane, Known

(***************************************************************************)
(* No cause is confirmed against a critical contradiction, without sources *)
(* or temporal proof, or while a declared reference is missing, for any    *)
(* catalog and any evidence (hypothesis._status_and_confidence,            *)
(* causality.apply_evidence_completeness_gate).                            *)
(***************************************************************************)
THEOREM IncidentConfirmedIsUncontested == Spec => []ConfirmedIsUncontested
  <1>1. IncidentInv => ConfirmedIsUncontested
    <2> SUFFICES ASSUME IncidentInv, Accepted, NEW r \in ToSet(Catalog), Confirmed(out, r.id)
                 PROVE  /\ ~\E e \in ToSet(evidence) : Meets(e, Critical(r))
                        /\ \/ \E e \in ToSet(evidence) : Meets(e, r.temporal)
                           \/ r.min_sources <= Cardinality({e.source : e \in {x \in ToSet(evidence) :
                                                                Meets(x, r.supporting)}})
                        /\ ToSet(declared) \subseteq Ids(ToSet(evidence)) \cup {"malformed"}
      BY DEF ConfirmedIsUncontested
    <2> DEFINE E == ToSet(evidence)
               v == Evaluated(r, E)
               n == Cardinality({e.source : e \in {x \in E : Meets(x, r.supporting)}})
    <2>1. /\ IsList(evidence) /\ ~IntakeError(fixture) /\ out = run_rca(fixture, Catalog)
          /\ fixture.evidence = evidence /\ fixture.declared = declared
      BY DEF IncidentInv, fixture
    <2>2. Sane(fixture)
      BY <2>1, AcceptedIsSane
    <2>3. /\ Complete(E, ToSet(declared))
          /\ ~v.unresolved /\ (v.temporal \/ v.sources >= r.min_sources)
      BY <2>1, <2>2, ConfirmedIs, Zenon
    <2>4. /\ v.unresolved <=> \E e \in E : Meets(e, Critical(r))
          /\ v.temporal <=> \E e \in E : Meets(e, r.temporal)
          /\ v.sources = n
      BY DEF Evaluated, Meeting
    <2>5. n \in Nat /\ r.min_sources \in Nat
      <3>1. IsFiniteSet({e.source : e \in Meeting(E, r.supporting)})
        BY <2>1, ListFinite, SourcesFinite
      <3> QED
        BY <3>1, FS_CardinalityType, IncidentAssumption DEF Meeting
    <2>6. ToSet(declared) \subseteq Ids(E) \cup {"malformed"}
      BY <2>3 DEF Complete
    <2> HIDE DEF E, v, n
    <2> QED
      BY <2>3, <2>4, <2>5, <2>6 DEF E, n
  <1> QED
    BY <1>1, IncidentInvariant, PTL

-----------------------------------------------------------------------------
(* Evidence that comes in *)

\* Through the gateway every declared reference is there.
LEMMA BridgeComplete ==
    ASSUME NEW rs
    PROVE  LET f == build_rca_fixture(rs)
           IN  Complete(ToSet(f.evidence), ToSet(f.declared))
  <1> DEFINE c == Cardinality(Used(rs))
             f == build_rca_fixture(rs)
  <1>1. f = [evidence |-> [k \in 1..c |-> BridgeItem(rs[Nth(Used(rs), k)], k)],
             declared |-> [k \in 1..c |-> EVD[k]]]
    BY FixtureIs
  <1>2. /\ DOMAIN f.evidence = 1..c /\ DOMAIN f.declared = 1..c
        /\ \A k \in 1..c : f.declared[k] = EVD[k] /\ f.evidence[k].id = EVD[k]
    BY <1>1 DEF BridgeItem
  <1> HIDE DEF f, c
  <1>3. ToSet(f.declared) \subseteq Ids(ToSet(f.evidence))
    BY <1>2 DEF ToSet, Ids
  <1> QED
    BY <1>3 DEF Complete, f

Completed == Complete(ToSet(evidence), ToSet(declared))

\* A step adds an item to the evidence, or none.
LEMMA StepAdds ==
    ASSUME IncidentInv, [Next]_vars
    PROVE  \/ evidence' = evidence /\ declared' = declared
           \/ \E e : /\ evidence' = Append(evidence, e)
                     /\ declared' = declared \/ (Completed /\ Completed')
  <1>1. ASSUME NEW e \in Items, AddEvidence(e)
        PROVE  evidence' = Append(evidence, e) /\ declared' = declared
    BY <1>1 DEF AddEvidence
  <1>2. ASSUME NEW row \in Rows, AddRow(row)
        PROVE  \/ evidence' = evidence /\ declared' = declared
               \/ \E e : evidence' = Append(evidence, e) /\ Completed /\ Completed'
    <2> DEFINE f == build_rca_fixture(rows)
               g == build_rca_fixture(Append(rows, row))
    <2>1. evidence' = g.evidence /\ declared' = g.declared
      BY <1>2 DEF AddRow
    <2>2. evidence = f.evidence /\ declared = f.declared
      <3>1. fixture = f /\ fixture.evidence = evidence /\ fixture.declared = declared
        BY <1>2 DEF AddRow, IncidentInv, fixture
      <3> QED
        BY <3>1
    <2>3. Completed /\ Completed'
      BY <2>1, <2>2, BridgeComplete DEF Completed
    <2>4. g = f \/ \E e : g.evidence = Append(f.evidence, e)
      BY BridgeGrows DEF IncidentInv
    <2> HIDE DEF f, g
    <2> QED
      BY <2>1, <2>2, <2>3, <2>4
  <1>3. CASE UNCHANGED vars
    BY <1>3 DEF vars
  <1> QED
    BY <1>1, <1>2, <1>3 DEF Next

\* A recovery meets no condition and is no symptom.
LEMMA RecoveryMeetsNothing ==
    ASSUME NEW E, NEW e, e.event_type = "RECOVERY", NEW r
    PROVE  Evaluated(r, E \cup {e}) = Evaluated(r, E)
  <1>1. \A C : Meeting(E \cup {e}, C) = Meeting(E, C)
    BY DEF Meeting, Meets
  <1>2. {x \in E \cup {e} : Symptom(x, r)} = {x \in E : Symptom(x, r)}
    BY DEF Symptom, CAUSAL_ELIGIBLE_EVENT_TYPES
  <1>3. {d \in r.supporting : Meeting(E \cup {e}, {d}) = {}}
        = {d \in r.supporting : Meeting(E, {d}) = {}}
    BY <1>1
  <1> DEFINE F == E \cup {e}
  <1> HIDE DEF F
  <1>4. /\ Meeting(F, r.supporting) = Meeting(E, r.supporting)
        /\ Meeting(F, r.contradicting) = Meeting(E, r.contradicting)
        /\ Meeting(F, Critical(r)) = Meeting(E, Critical(r))
        /\ Meeting(F, r.temporal) = Meeting(E, r.temporal)
        /\ {x \in F : Symptom(x, r)} = {x \in E : Symptom(x, r)}
        /\ {d \in r.supporting : Meeting(F, {d}) = {}} = {d \in r.supporting : Meeting(E, {d}) = {}}
    BY <1>1, <1>2, <1>3 DEF F
  <1>5. Evaluated(r, F) = Evaluated(r, E)
    BY ONLY <1>4, Zenon DEF Evaluated
  <1> QED
    BY <1>5 DEF F

LEMMA FoundTheSame ==
    ASSUME NEW E, NEW F, \A r \in ToSet(Catalog) : Evaluated(r, F) = Evaluated(r, E)
    PROVE  Found(F) = Found(E)
  <1> DEFINE R == ToSet(Catalog)
             M == {x \in R : Evaluated(x, E).symptoms # {}}
  <1>1. {x \in R : Evaluated(x, F).symptoms # {}} = M
    OBVIOUS
  <1>2. {Hypothesis(r, Evaluated(r, F)) : r \in M} = {Hypothesis(r, Evaluated(r, E)) : r \in M}
    OBVIOUS
  <1> HIDE DEF M
  <1> QED
    BY <1>1, <1>2 DEF Found, M

\* What a result says of the evidence ev and the declared references dec.
Says(result, ev, dec) ==
    LET E == ToSet(ev)
        H == Concluded(E, ToSet(dec))
    IN  /\ result.hypotheses = H
        /\ result.truncated = Truncate(Found(E)).truncated
        /\ result.root_cause = aggregate_root_cause(H)
        /\ result.recommendations = build_recommendations(Catalog, H, aggregate_root_cause(H))
        /\ result.truncated # {} => "truncated" \in result.limitations
        /\ \A r \in ToSet(Catalog) :
              LET v == Evaluated(r, E)
              IN  Confirmed(result, r.id)
                  <=> /\ Complete(E, ToSet(dec))
                      /\ v.symptoms # {}
                      /\ Hypothesis(r, v) \in Truncate(Found(E)).hypotheses
                      /\ ~v.unresolved /\ (v.temporal \/ v.sources >= r.min_sources)

LEMMA ResultSays ==
    ASSUME NEW ev, NEW dec, NEW result, IsList(ev),
           ~IntakeError([evidence |-> ev, declared |-> dec]),
           result = run_rca([evidence |-> ev, declared |-> dec], Catalog)
    PROVE  Says(result, ev, dec)
  <1> DEFINE f == [evidence |-> ev, declared |-> dec]
  <1>1. f.evidence = ev /\ f.declared = dec
    OBVIOUS
  <1> HIDE DEF f
  <1>2. Sane(f)
    BY <1>1, AcceptedIsSane DEF f
  <1>3. result = run_rca(f, Catalog)
    BY DEF f
  <1>4. /\ result.limitations
              = limitations(result.truncated, EngineItems(f), result.manifest, result.timeline)
        /\ result.hypotheses = Concluded(ToSet(ev), ToSet(dec))
        /\ result.truncated = Truncate(Found(ToSet(ev))).truncated
        /\ result.root_cause = aggregate_root_cause(Concluded(ToSet(ev), ToSet(dec)))
        /\ result.recommendations
              = build_recommendations(Catalog, Concluded(ToSet(ev), ToSet(dec)),
                    aggregate_root_cause(Concluded(ToSet(ev), ToSet(dec))))
    BY <1>1, <1>2, <1>3, ConclusionsAre, Zenon
  <1>5. result.truncated # {} => "truncated" \in result.limitations
    BY <1>4 DEF limitations
  <1>6. ASSUME NEW r \in ToSet(Catalog)
        PROVE  LET v == Evaluated(r, ToSet(ev))
               IN  Confirmed(result, r.id)
                   <=> /\ Complete(ToSet(ev), ToSet(dec))
                       /\ v.symptoms # {}
                       /\ Hypothesis(r, v) \in Truncate(Found(ToSet(ev))).hypotheses
                       /\ ~v.unresolved /\ (v.temporal \/ v.sources >= r.min_sources)
    BY <1>1, <1>2, <1>3, ConfirmedIs, Zenon
  <1> QED
    BY <1>4, <1>5, <1>6 DEF Says

\* So does the file of the last run, before and after a step.
LEMMA OutSays ==
    /\ IncidentInv /\ Accepted => Says(out, evidence, declared)
    /\ IncidentInv' /\ Accepted' => Says(out', evidence', declared')
  <1>1. ASSUME IncidentInv, Accepted PROVE Says(out, evidence, declared)
    BY <1>1, ResultSays DEF IncidentInv, fixture
  <1>2. ASSUME IncidentInv', Accepted' PROVE Says(out', evidence', declared')
    BY <1>2, ResultSays DEF IncidentInv, fixture
  <1> QED
    BY <1>1, <1>2

(***************************************************************************)
(* A recovery that comes in changes no hypothesis, no cause and no         *)
(* recommendation, unless it was a declared reference that was missing,    *)
(* whatever the clocks say it makes of the other items                     *)
(* (common.CAUSAL_ELIGIBLE_EVENT_TYPES).                                   *)
(***************************************************************************)
THEOREM IncidentRecoveryIsNoCause == Spec => RecoveryIsNoCause
  <1> DEFINE Ignored ==
        (/\ Len(evidence') > Len(evidence)
         /\ Last(evidence').event_type = "RECOVERY"
         /\ Last(evidence').id \notin ToSet(declared)
         /\ Accepted /\ Accepted')
          => /\ out'.hypotheses = out.hypotheses
             /\ out'.root_cause = out.root_cause
             /\ out'.recommendations = out.recommendations
  <1>1. IncidentInv /\ IncidentInv' /\ [Next]_vars => [Ignored]_vars
    <2> SUFFICES ASSUME IncidentInv, IncidentInv', [Next]_vars, Accepted, Accepted',
                        Len(evidence') > Len(evidence),
                        Last(evidence').event_type = "RECOVERY",
                        Last(evidence').id \notin ToSet(declared)
                 PROVE  /\ out'.hypotheses = out.hypotheses
                        /\ out'.root_cause = out.root_cause
                        /\ out'.recommendations = out.recommendations
      OBVIOUS
    <2>1. IsList(evidence) /\ Len(evidence) \in Nat
      BY DEF IncidentInv, IsList
    <2>2. PICK e : /\ evidence' = Append(evidence, e)
                   /\ declared' = declared \/ (Completed /\ Completed')
      BY <2>1, StepAdds
    <2>3. Last(evidence') = e
      BY <2>1, <2>2, AppendIs DEF Last
    <2> DEFINE E == ToSet(evidence)
               F == ToSet(evidence')
    <2>4. F = E \cup {e}
      BY <2>1, <2>2, AppendIsList
    <2>5. Found(F) = Found(E)
      BY <2>3, <2>4, RecoveryMeetsNothing, FoundTheSame
    <2>6. Complete(F, ToSet(declared')) <=> Complete(E, ToSet(declared))
      <3>1. CASE declared' = declared
        BY <2>3, <2>4, <3>1 DEF Complete, Ids
      <3>2. CASE Completed /\ Completed'
        BY <3>2 DEF Completed
      <3> QED
        BY <2>2, <3>1, <3>2
    <2>7. Complete(F, ToSet(declared')) = Complete(E, ToSet(declared))
      BY <2>6 DEF Complete
    <2>8. Concluded(F, ToSet(declared')) = Concluded(E, ToSet(declared))
      BY ONLY <2>5, <2>7, Zenon DEF Concluded
    <2> HIDE DEF E, F
    <2> QED
      BY <2>8, OutSays, Zenon DEF E, F, Says
  <1>2. Spec => [][Ignored]_vars
    <2> HIDE DEF Ignored
    <2> QED
      BY <1>1, IncidentInvariant, PTL DEF Spec
  <1> QED
    BY <1>2 DEF RecoveryIsNoCause

\* What an item more can do to the evaluation of a rule.
LEMMA EvaluationGrows ==
    ASSUME NEW E, IsFiniteSet(E), NEW e, NEW r \in ToSet(Catalog)
    PROVE  LET v == Evaluated(r, E)
               w == Evaluated(r, E \cup {e})
           IN  /\ v.symptoms # {} => w.symptoms # {}
               /\ v.temporal => w.temporal
               /\ v.sources >= r.min_sources => w.sources >= r.min_sources
               /\ ~v.unresolved /\ ~Meets(e, Critical(r)) => ~w.unresolved
  <1> DEFINE F == E \cup {e}
             S == {x.source : x \in Meeting(E, r.supporting)}
             T == {x.source : x \in Meeting(F, r.supporting)}
             v == Evaluated(r, E)
             w == Evaluated(r, F)
  <1>1. \A C : Meeting(E, C) \subseteq Meeting(F, C)
    BY DEF Meeting
  <1>2. IsFiniteSet(F)
    BY FS_AddElement
  <1>3. IsFiniteSet(T)
    <2> HIDE DEF F
    <2> QED
      BY <1>2, SourcesFinite
  <1>4. S \in SUBSET T
    BY <1>1
  <1>5. /\ Cardinality(S) \in Nat /\ Cardinality(T) \in Nat
        /\ Cardinality(S) <= Cardinality(T) /\ r.min_sources \in Nat
    <2> HIDE DEF S, T
    <2> QED
      BY <1>3, <1>4, FS_Subset, FS_CardinalityType, IncidentAssumption
  <1>6. v.sources = Cardinality(S) /\ w.sources = Cardinality(T)
    BY DEF Evaluated
  <1>7. v.sources >= r.min_sources => w.sources >= r.min_sources
    <2> HIDE DEF S, T, v, w
    <2> QED
      BY <1>5, <1>6
  <1>8. v.symptoms # {} => w.symptoms # {}
    BY DEF Evaluated
  <1>9. v.temporal => w.temporal
    BY <1>1 DEF Evaluated
  <1>a. ~v.unresolved /\ ~Meets(e, Critical(r)) => ~w.unresolved
    BY DEF Evaluated, Meeting
  <1> QED
    BY <1>7, <1>8, <1>9, <1>a

(***************************************************************************)
(* More evidence takes a confirmation away only by contradicting the rule, *)
(* or by better supported rules that push it beyond max_hypotheses, which  *)
(* the result then says (hypothesis.generate_hypotheses).                  *)
(***************************************************************************)
THEOREM IncidentConfirmationIsLost == Spec => ConfirmationIsLostForAReason
  <1> DEFINE Lost ==
        Accepted /\ Accepted' => \A r \in ToSet(Catalog) :
          Confirmed(out, r.id) /\ ~Confirmed(out', r.id)
          => \/ Meets(Last(evidence'), Critical(r))
             \/ r.id \in out'.truncated /\ "truncated" \in out'.limitations
  <1>1. IncidentInv /\ IncidentInv' /\ [Next]_vars => [Lost]_vars
    <2> SUFFICES ASSUME IncidentInv, IncidentInv', [Next]_vars, Accepted, Accepted',
                        NEW r \in ToSet(Catalog), Confirmed(out, r.id), ~Confirmed(out', r.id),
                        ~Meets(Last(evidence'), Critical(r))
                 PROVE  r.id \in out'.truncated /\ "truncated" \in out'.limitations
      OBVIOUS
    <2> DEFINE E == ToSet(evidence)
               F == ToSet(evidence')
               v == Evaluated(r, E)
               w == Evaluated(r, F)
    <2>1. IsList(evidence) /\ Len(evidence) \in Nat /\ IsFiniteSet(E)
      BY ListFinite DEF IncidentInv, IsList
    <2>2. /\ Complete(E, ToSet(declared)) /\ v.symptoms # {}
          /\ ~v.unresolved /\ (v.temporal \/ v.sources >= r.min_sources)
      BY OutSays, Zenon DEF Says
    <2>3. ~(/\ Complete(F, ToSet(declared')) /\ w.symptoms # {}
            /\ Hypothesis(r, w) \in Truncate(Found(F)).hypotheses
            /\ ~w.unresolved /\ (w.temporal \/ w.sources >= r.min_sources))
      BY OutSays, Zenon DEF Says
    <2>4. \E e : /\ evidence' = Append(evidence, e)
                 /\ declared' = declared \/ (Completed /\ Completed')
      <3>1. ~(evidence' = evidence /\ declared' = declared)
        <4> SUFFICES ASSUME evidence' = evidence, declared' = declared PROVE FALSE
          OBVIOUS
        <4>1. out' = out
          BY DEF IncidentInv, fixture
        <4> QED
          BY <4>1
      <3> QED
        BY <3>1, StepAdds
    <2>5. PICK e : /\ evidence' = Append(evidence, e)
                   /\ declared' = declared \/ (Completed /\ Completed')
      BY <2>4
    <2>6. Last(evidence') = e
      BY <2>1, <2>5, AppendIs DEF Last
    <2>7. F = E \cup {e}
      BY <2>1, <2>5, AppendIsList
    <2>8. Complete(F, ToSet(declared'))
      BY <2>2, <2>5, <2>7 DEF Complete, Completed, Ids
    <2>9. w.symptoms # {} /\ ~w.unresolved /\ (w.temporal \/ w.sources >= r.min_sources)
      BY <2>1, <2>2, <2>6, <2>7, EvaluationGrows, Zenon
    <2>a. Hypothesis(r, w) \notin Truncate(Found(F)).hypotheses
      BY <2>3, <2>8, <2>9
    <2>b. Hypothesis(r, w) \in Found(F)
      BY <2>9 DEF Found
    <2>c. Hypothesis(r, w).rule \in Truncate(Found(F)).truncated
      BY <2>a, <2>b DEF Truncate
    <2>d. r.id \in out'.truncated
      BY <2>c, StatusIs, OutSays DEF Says
    <2> QED
      BY <2>d, OutSays DEF Says
  <1>2. Spec => [][Lost]_vars
    <2> HIDE DEF Lost
    <2> QED
      BY <1>1, IncidentInvariant, PTL DEF Spec
  <1> QED
    BY <1>2 DEF ConfirmationIsLostForAReason

-----------------------------------------------------------------------------
(* Order by counting *)

\* What comes before x in the order R.
BeforeIn(S, R, x) == {y \in S : <<y, x>> \in R}

\* In a finite set the numbers of members before each are 0, 1, ... without gaps.
LEMMA RankingIs ==
    ASSUME NEW S, IsFiniteSet(S), NEW R,
           \A x \in S : <<x, x>> \notin R,
           \A x, y, z \in S : <<x, y>> \in R /\ <<y, z>> \in R => <<x, z>> \in R,
           \A x, y \in S : x = y \/ <<x, y>> \in R \/ <<y, x>> \in R
    PROVE  /\ Cardinality(S) \in Nat
           /\ \A x, y \in S : <<x, y>> \in R
                    <=> Cardinality(BeforeIn(S, R, x)) < Cardinality(BeforeIn(S, R, y))
           /\ \A x, y \in S :
                    Cardinality(BeforeIn(S, R, x)) = Cardinality(BeforeIn(S, R, y)) => x = y
           /\ \A x \in S : Cardinality(BeforeIn(S, R, x)) \in 0..(Cardinality(S) - 1)
           /\ \A k \in 0..(Cardinality(S) - 1) :
                    \E x \in S : Cardinality(BeforeIn(S, R, x)) = k
  <1> DEFINE B(x) == BeforeIn(S, R, x)
             P(x) == Cardinality(B(x))
             c == Cardinality(S)
             g == [x \in S |-> P(x)]
  <1>1. IsFiniteSet(S) /\ c \in Nat
    BY FS_CardinalityType
  <1>2. ASSUME NEW x \in S
        PROVE  IsFiniteSet(B(x)) /\ P(x) \in Int /\ P(x) \in 0..(c - 1)
    <2>1. B(x) \in SUBSET S /\ x \notin B(x)
      BY DEF BeforeIn
    <2> HIDE DEF B
    <2>2. IsFiniteSet(B(x)) /\ P(x) <= c /\ P(x) # c
      BY <1>1, <2>1, FS_Subset
    <2>3. P(x) \in Nat
      BY <2>2, FS_CardinalityType
    <2> HIDE DEF P
    <2> QED
      BY <1>1, <2>2, <2>3
  <1>3. ASSUME NEW x \in S, NEW y \in S, <<x, y>> \in R
        PROVE  P(x) < P(y)
    <2>1. B(x) \in SUBSET B(y) /\ x \in B(y) /\ x \notin B(x)
      BY <1>3 DEF BeforeIn
    <2> HIDE DEF B
    <2>2. P(x) <= P(y) /\ P(x) # P(y)
      BY <1>2, <2>1, FS_Subset
    <2>3. P(x) \in Int /\ P(y) \in Int
      BY <1>2
    <2> QED
      BY <2>2, <2>3
  <1>4. \A x \in S : P(x) \in Int
    BY <1>2
  <1> HIDE DEF P
  <1>5. ASSUME NEW x \in S, NEW y \in S, P(x) = P(y)
        PROVE  x = y
    <2>1. ~(P(x) < P(y)) /\ ~(P(y) < P(x))
      BY <1>4, <1>5
    <2> QED
      BY <1>3, <2>1
  <1>6. ASSUME NEW x \in S, NEW y \in S
        PROVE  <<x, y>> \in R <=> P(x) < P(y)
    <2>1. CASE <<x, y>> \in R
      BY <1>3, <2>1
    <2>2. CASE x = y
      <3>1. ~(P(x) < P(y))
        BY <1>4, <2>2
      <3> QED
        BY <2>2, <3>1
    <2>3. CASE <<y, x>> \in R
      <3>1. P(y) < P(x) /\ ~(P(x) < P(y))
        BY <1>3, <1>4, <2>3
      <3> QED
        BY <1>3, <3>1
    <2> QED
      BY <2>1, <2>2, <2>3
  <1>7. g \in Injection(S, 0..(c - 1))
    <2>1. \A x \in S : P(x) \in 0..(c - 1)
      BY <1>2
    <2> HIDE DEF c
    <2>2. g \in [S -> 0..(c - 1)]
      BY <2>1
    <2>3. \A x, y \in S : g[x] = g[y] => x = y
      BY <1>5
    <2> HIDE DEF g
    <2> QED
      BY <2>2, <2>3 DEF Injection, IsInjective
  <1>8. g \in Surjection(S, 0..(c - 1))
    <2>1. c \in Nat /\ 0 \in Int /\ c - 1 \in Int
      BY <1>1
    <2> HIDE DEF c, g
    <2>2. IsFiniteSet(0..(c - 1)) /\ Cardinality(0..(c - 1)) = c
      BY <2>1, FS_Interval
    <2> QED
      BY <1>1, <1>7, <2>2, FS_Injection DEF c
  <1>9. \A k \in 0..(c - 1) : \E x \in S : P(x) = k
    BY <1>8 DEF Surjection
  <1>10. \A x \in S : P(x) \in 0..(c - 1)
    BY <1>2
  <1> QED
    BY <1>1, <1>5, <1>6, <1>9, <1>10 DEF P

\* Items that have a time and a place of their own in the list.
Ordered(S) ==
    /\ IsFiniteSet(S)
    /\ \A e \in S : e.utc \in Int /\ e.raw_index \in Int
    /\ \A e, f \in S : e.raw_index = f.raw_index => e = f

Place(S, e) == Cardinality({f \in S : Earlier(f, e)})

\* The places in the order of time are 0, 1, ... without gaps.
LEMMA Places ==
    ASSUME NEW S, Ordered(S)
    PROVE  /\ Cardinality(S) \in Nat
           /\ \A e, f \in S : Earlier(e, f) <=> Place(S, e) < Place(S, f)
           /\ \A e, f \in S : Place(S, e) = Place(S, f) => e = f
           /\ \A e \in S : Place(S, e) \in 0..(Cardinality(S) - 1)
           /\ \A k \in 0..(Cardinality(S) - 1) : \E e \in S : Place(S, e) = k
  <1> DEFINE R == {p \in S \X S : Earlier(p[1], p[2])}
  <1>1. \A x, y \in S : <<x, y>> \in R <=> Earlier(x, y)
    OBVIOUS
  <1> HIDE DEF R
  <1>2. /\ IsFiniteSet(S)
        /\ \A x \in S : <<x, x>> \notin R
        /\ \A x, y, z \in S : <<x, y>> \in R /\ <<y, z>> \in R => <<x, z>> \in R
        /\ \A x, y \in S : x = y \/ <<x, y>> \in R \/ <<y, x>> \in R
    BY <1>1 DEF Ordered, Earlier
  <1>3. \A x \in S : Place(S, x) = Cardinality(BeforeIn(S, R, x))
    <2>1. \A x \in S : {f \in S : Earlier(f, x)} = BeforeIn(S, R, x)
      BY <1>1 DEF BeforeIn
    <2> QED
      BY <2>1 DEF Place
  <1> DEFINE Q(x) == Cardinality(BeforeIn(S, R, x))
  <1>4. /\ Cardinality(S) \in Nat
        /\ \A x, y \in S : <<x, y>> \in R <=> Q(x) < Q(y)
        /\ \A x, y \in S : Q(x) = Q(y) => x = y
        /\ \A x \in S : Q(x) \in 0..(Cardinality(S) - 1)
        /\ \A k \in 0..(Cardinality(S) - 1) : \E x \in S : Q(x) = k
    BY <1>2, RankingIs
  <1>5. \A x \in S : Place(S, x) = Q(x)
    BY <1>3
  <1> HIDE DEF Q
  <1> QED
    BY <1>1, <1>4, <1>5

\* There is a first and a last.
LEMMA FirstAndLast ==
    ASSUME NEW S, Ordered(S), S # {}
    PROVE  /\ \E e \in S : \A f \in S : f = e \/ Earlier(e, f)
           /\ \E e \in S : \A f \in S : f = e \/ Earlier(f, e)
  <1> DEFINE c == Cardinality(S)
  <1>1. c \in Nat /\ c # 0
    BY FS_CardinalityType, FS_EmptySet DEF Ordered
  <1>2. PICK e \in S : Place(S, e) = 0
    BY <1>1, Places
  <1>3. PICK l \in S : Place(S, l) = c - 1
    BY <1>1, Places
  <1>4. \A f \in S : Place(S, f) \in 0..(c - 1)
    BY Places
  <1> HIDE DEF c
  <1>5. \A f \in S : f = e \/ Place(S, e) < Place(S, f)
    BY <1>1, <1>2, <1>4, Places
  <1>6. \A f \in S : f = l \/ Place(S, f) < Place(S, l)
    BY <1>1, <1>3, <1>4, Places
  <1> QED
    BY <1>5, <1>6, Places

\* The n-th item.
LEMMA InTimeIs ==
    ASSUME NEW S, Ordered(S)
    PROVE  LET c == Cardinality(S)
           IN  /\ \A n \in 1..c : InTime(S, n) \in S
               /\ \A m, n \in 1..c : m < n => Earlier(InTime(S, m), InTime(S, n))
               /\ \A e \in S : \E n \in 1..c : InTime(S, n) = e
  <1> DEFINE c == Cardinality(S)
  <1>1. c \in Nat
    BY Places
  <1>2. ASSUME NEW n \in 1..c
        PROVE  InTime(S, n) \in S /\ Place(S, InTime(S, n)) = n - 1
    <2>1. \E e \in S : Place(S, e) = n - 1
      BY <1>1, Places
    <2> QED
      BY <2>1 DEF InTime, Place
  <1>3. ASSUME NEW e \in S
        PROVE  \E n \in 1..c : InTime(S, n) = e
    <2> DEFINE n == Place(S, e) + 1
    <2>1. n \in 1..c /\ n - 1 = Place(S, e)
      BY <1>1, Places
    <2> HIDE DEF n
    <2> QED
      BY <1>2, <2>1, Places
  <1>4. ASSUME NEW m \in 1..c, NEW n \in 1..c, m < n
        PROVE  Earlier(InTime(S, m), InTime(S, n))
    BY <1>1, <1>2, <1>4, Places
  <1> HIDE DEF c
  <1> QED
    BY <1>2, <1>3, <1>4 DEF c

\* A remainder is smaller than its divisor.
LEMMA SameWindow ==
    ASSUME NEW u \in Int, NEW v \in Int, u \div Window = v \div Window
    PROVE  v < u + Window
  BY EngineAssumption

LEMMA OrderedSubset ==
    ASSUME NEW S, Ordered(S), NEW T \in SUBSET S
    PROVE  Ordered(T)
  BY FS_Subset DEF Ordered

-----------------------------------------------------------------------------
(* The timeline as a function of the set of the raw items. *)

Readable(e) == e.time.form # "bad"

\* What IncidentAssumption says of items and rows.
Legible(e) ==
    /\ Readable(e) => e.time.at \in Int /\ e.time.at # None
    /\ derive_signature_token(e.signature) # None

LegibleList(s) ==
    /\ IsList(s)
    /\ \A i \in DOMAIN s : Legible(s[i])
    /\ \A i, j \in DOMAIN s : s[i].id = s[j].id => i = j

RawKey(e) ==
    <<e.source, e.domain, e.event_type, classify_signature(e.signature, Certified),
      e.time.at \div Window>>

RawGroup(E, e) == {x \in E : Readable(x) /\ RawKey(x) = RawKey(e)}

RawSkewed(e) ==
    LET a == sanitize_attributes(e.attributes, Allowed)
    IN  Skew \in DOMAIN a /\ a[Skew] = "beyond"

OffClocks(E) == {derive_source_token(e.source) : e \in {x \in E : RawSkewed(x)}}

RawDegraded(E, e) ==
    Readable(e) /\ (e.time.form = "naive" \/ derive_source_token(e.source) \in OffClocks(E))

RawEvent(E, e) ==
    LET M == RawGroup(E, e)
    IN  [domain     |-> e.domain,
         event_type |-> e.event_type,
         signature  |-> classify_signature(e.signature, Certified),
         utc        |-> Min({x.time.at : x \in M}),
         last_seen  |-> Max({x.time.at : x \in M}),
         count      |-> Cardinality(M),
         evidence   |-> {x.id : x \in M},
         sources    |-> {derive_source_token(x.source) : x \in M},
         degraded   |-> \E x \in M : RawDegraded(E, x)]

LEMMA OffIs ==
    ASSUME NEW f
    PROVE  Off(f) = OffClocks(ToSet(f.evidence))
  <1> DEFINE D == DOMAIN f.evidence
             S == validate_and_sanitize(f, Catalog)
  <1>1. S = {Sanitized(f.evidence[i], i) : i \in D}
    BY DEF validate_and_sanitize, Sanitized, Certified, Allowed
  <1>2. \A i \in D : /\ Sanitized(f.evidence[i], i).source = derive_source_token(f.evidence[i].source)
                     /\ Sanitized(f.evidence[i], i).attributes
                            = sanitize_attributes(f.evidence[i].attributes, Allowed)
    BY DEF Sanitized
  <1> HIDE DEF S, D
  <1>3. Off(f) = {e.source : e \in {x \in S : Skew \in DOMAIN x.attributes
                                              /\ x.attributes[Skew] = "beyond"}}
    BY DEF Off, skewed_sources, S
  <1> DEFINE I == {i \in D : RawSkewed(f.evidence[i])}
  <1>4. {x \in S : Skew \in DOMAIN x.attributes /\ x.attributes[Skew] = "beyond"}
        = {Sanitized(f.evidence[i], i) : i \in I}
    BY <1>1, <1>2 DEF RawSkewed
  <1>5. {x \in ToSet(f.evidence) : RawSkewed(x)} = {f.evidence[i] : i \in I}
    BY DEF ToSet, D
  <1>6. I \subseteq D
    OBVIOUS
  <1> HIDE DEF I
  <1>7. {e.source : e \in {Sanitized(f.evidence[i], i) : i \in I}}
        = {derive_source_token(f.evidence[i].source) : i \in I}
    BY <1>2, <1>6
  <1>8. {derive_source_token(e.source) : e \in {f.evidence[i] : i \in I}}
        = {derive_source_token(f.evidence[i].source) : i \in I}
    OBVIOUS
  <1>9. OffClocks(ToSet(f.evidence)) = {derive_source_token(e.source) : e \in {f.evidence[i] : i \in I}}
    BY <1>5 DEF OffClocks
  <1> QED
    BY <1>3, <1>4, <1>7, <1>8, <1>9

\* The fields of an item that the timeline looks at.
LEMMA ItemTimes ==
    ASSUME NEW f, LegibleList(f.evidence), NEW i \in DOMAIN f.evidence
    PROVE  LET x == EngineItem(f, i)
               e == f.evidence[i]
           IN  /\ x.raw_index = i
               /\ x.utc # None <=> Readable(e)
               /\ Readable(e) => x.utc = e.time.at /\ x.utc \in Int
               /\ x.degraded <=> RawDegraded(ToSet(f.evidence), e)
  <1> DEFINE x == EngineItem(f, i)
             e == f.evidence[i]
  <1>1. Legible(e)
    BY DEF LegibleList
  <1>2. /\ x.raw_index = i
        /\ x.utc = _parse_timestamp(e.time)
        /\ x.degraded = (x.utc # None /\ (e.time.form = "naive"
                                          \/ derive_source_token(e.source) \in Off(f)))
    BY DEF EngineItem, Normalized, Sanitized
  <1>3. _parse_timestamp(e.time) = IF Readable(e) THEN e.time.at ELSE None
    BY DEF _parse_timestamp, Readable
  <1>4. Off(f) = OffClocks(ToSet(f.evidence))
    BY OffIs
  <1> HIDE DEF x, e
  <1>5. x.utc # None <=> Readable(e)
    BY <1>1, <1>2, <1>3 DEF Legible
  <1>6. x.degraded <=> RawDegraded(ToSet(f.evidence), e)
    BY <1>2, <1>4, <1>5 DEF RawDegraded
  <1> QED
    BY <1>1, <1>2, <1>3, <1>5, <1>6 DEF Legible, x, e

\* The key keeps what it is made of apart.
LEMMA KeysAre ==
    ASSUME NEW f, LegibleList(f.evidence), NEW i \in DOMAIN f.evidence, NEW j \in DOMAIN f.evidence,
           Readable(f.evidence[i]), Readable(f.evidence[j])
    PROVE  _dedup_key(EngineItem(f, i)) = _dedup_key(EngineItem(f, j))
           <=> RawKey(f.evidence[i]) = RawKey(f.evidence[j])
  <1> DEFINE e == f.evidence[i]
             d == f.evidence[j]
             C(y) == classify_signature(y.signature, Certified)
  <1>1. \A k \in {i, j} :
            _dedup_key(EngineItem(f, k))
            = <<derive_source_token(f.evidence[k].source), f.evidence[k].domain,
                f.evidence[k].event_type, <<C(f.evidence[k]).canonical, C(f.evidence[k]).token>>,
                f.evidence[k].time.at \div Window>>
    BY ItemFields, ItemTimes DEF _dedup_key, _signature_group_key
  <1>2. derive_source_token(e.source) = derive_source_token(d.source) <=> e.source = d.source
    BY DEF derive_source_token
  <1>3. (C(e).canonical = C(d).canonical /\ C(e).token = C(d).token) => C(e) = C(d)
    <2>1. derive_signature_token(e.signature) # None /\ derive_signature_token(d.signature) # None
      BY DEF LegibleList, Legible
    <2>2. ASSUME NEW y, derive_signature_token(y.signature) # None
          PROVE  /\ C(y) = [status |-> C(y).status, canonical |-> C(y).canonical, token |-> C(y).token]
                 /\ C(y).status = IF C(y).canonical # None THEN "CERTIFIED"
                                  ELSE IF C(y).token # None THEN "UNRECOGNIZED_SIGNATURE"
                                  ELSE "INSUFFICIENT_EVIDENCE"
      <3> DEFINE sig == y.signature
      <3>1. ASSUME sig = None
            PROVE  C(y) = [status |-> "INSUFFICIENT_EVIDENCE", canonical |-> None, token |-> None]
        BY <3>1 DEF classify_signature
      <3>2. ASSUME sig # None, sig \in NumericCodes \cup Certified
            PROVE  C(y) = [status |-> "CERTIFIED", canonical |-> sig, token |-> None]
        BY <3>2 DEF classify_signature
      <3>3. ASSUME sig # None, sig \notin NumericCodes \cup Certified
            PROVE  C(y) = [status |-> "UNRECOGNIZED_SIGNATURE", canonical |-> None,
                           token |-> derive_signature_token(sig)]
        BY <3>3 DEF classify_signature
      <3> HIDE DEF C
      <3> QED
        BY <2>2, <3>1, <3>2, <3>3
    <2> QED
      BY <2>1, <2>2
  <1> HIDE DEF C, e, d
  <1>4. C(e) = C(d) => C(e).canonical = C(d).canonical /\ C(e).token = C(d).token
    OBVIOUS
  <1>5. RawKey(e) = <<e.source, e.domain, e.event_type, C(e), e.time.at \div Window>>
        /\ RawKey(d) = <<d.source, d.domain, d.event_type, C(d), d.time.at \div Window>>
    BY DEF RawKey, C
  <1> QED
    BY <1>1, <1>2, <1>3, <1>4, <1>5 DEF e, d

\* The items with a time.
LEMMA TimedAre ==
    ASSUME NEW f, LegibleList(f.evidence)
    PROVE  LET I == {i \in DOMAIN f.evidence : Readable(f.evidence[i])}
           IN  /\ Timed(EngineItems(f)) = {EngineItem(f, i) : i \in I}
               /\ Ordered(Timed(EngineItems(f)))
               /\ IsFiniteSet(I)
  <1> DEFINE I == {i \in DOMAIN f.evidence : Readable(f.evidence[i])}
             T == Timed(EngineItems(f))
             g == [i \in I |-> EngineItem(f, i)]
  <1>1. T = {EngineItem(f, i) : i \in I}
    BY ItemsAre, ItemTimes DEF Timed
  <1>2. IsFiniteSet(DOMAIN f.evidence) /\ \A i \in DOMAIN f.evidence : i \in Int
    <2>1. f.evidence \in Seq(ToSet(f.evidence))
      BY DEF LegibleList, IsList
    <2>2. DOMAIN f.evidence = 1..Len(f.evidence) /\ Len(f.evidence) \in Nat
      BY <2>1
    <2> QED
      BY <2>2, FS_Interval
  <1>3. IsFiniteSet(I)
    BY <1>2, FS_Subset
  <1>4. \A i \in I : /\ EngineItem(f, i).raw_index = i /\ i \in Int
                     /\ EngineItem(f, i).utc \in Int
    BY <1>2, ItemTimes
  <1>5. DOMAIN g = I /\ \A i \in I : g[i] = EngineItem(f, i)
    OBVIOUS
  <1> HIDE DEF I, T, g
  <1>6. IsFiniteSet({g[i] : i \in I})
    BY <1>3, <1>5, ImageFinite
  <1>7. IsFiniteSet(T)
    BY <1>1, <1>5, <1>6
  <1>8. \A x \in T : \E i \in I : x = EngineItem(f, i)
    BY <1>1
  <1>9. Ordered(T)
    BY <1>4, <1>7, <1>8 DEF Ordered
  <1> QED
    BY <1>1, <1>3, <1>9 DEF I, T

LEMMA GroupsAre ==
    ASSUME NEW f, LegibleList(f.evidence), NEW i \in DOMAIN f.evidence, Readable(f.evidence[i])
    PROVE  LET J == {j \in DOMAIN f.evidence : Readable(f.evidence[j])
                                               /\ RawKey(f.evidence[j]) = RawKey(f.evidence[i])}
           IN  /\ Group(EngineItems(f), EngineItem(f, i)) = {EngineItem(f, j) : j \in J}
               /\ RawGroup(ToSet(f.evidence), f.evidence[i]) = {f.evidence[j] : j \in J}
               /\ i \in J /\ IsFiniteSet(J)
  <1> DEFINE I == {j \in DOMAIN f.evidence : Readable(f.evidence[j])}
             J == {j \in I : RawKey(f.evidence[j]) = RawKey(f.evidence[i])}
             x == EngineItem(f, i)
  <1>1. Timed(EngineItems(f)) = {EngineItem(f, j) : j \in I} /\ IsFiniteSet(I)
    BY TimedAre
  <1>2. \A j \in I : _dedup_key(EngineItem(f, j)) = _dedup_key(x)
                     <=> RawKey(f.evidence[j]) = RawKey(f.evidence[i])
    BY KeysAre
  <1>3. RawGroup(ToSet(f.evidence), f.evidence[i]) = {f.evidence[j] : j \in J}
    BY DEF RawGroup, ToSet
  <1>4. i \in J
    OBVIOUS
  <1>5. J \in SUBSET I
    OBVIOUS
  <1>6. J = {j \in DOMAIN f.evidence : Readable(f.evidence[j])
                                       /\ RawKey(f.evidence[j]) = RawKey(f.evidence[i])}
    OBVIOUS
  <1> HIDE DEF x, I
  <1>7. Group(EngineItems(f), x) = {EngineItem(f, j) : j \in J}
    BY <1>1, <1>2 DEF Group
  <1> HIDE DEF J
  <1>8. IsFiniteSet(J)
    BY <1>1, <1>5, FS_Subset
  <1> QED
    BY <1>3, <1>4, <1>6, <1>7, <1>8 DEF x

ItemsAt(f, J) == {EngineItem(f, j) : j \in J}
RawAt(f, J) == {f.evidence[j] : j \in J}
IdsAt(f, J) == {f.evidence[j].id : j \in J}

\* A place in the list, its items and their identifiers count the same.
LEMMA CountsAre ==
    ASSUME NEW f, LegibleList(f.evidence), NEW J \in SUBSET DOMAIN f.evidence, IsFiniteSet(J)
    PROVE  /\ Cardinality(ItemsAt(f, J)) = Cardinality(J)
           /\ Cardinality(RawAt(f, J)) = Cardinality(J)
           /\ Cardinality(IdsAt(f, J)) = Cardinality(J)
  <1> DEFINE A == {EngineItem(f, j) : j \in J}
             B == {f.evidence[j] : j \in J}
             C == {f.evidence[j].id : j \in J}
             a == [j \in J |-> EngineItem(f, j)]
             b == [j \in J |-> f.evidence[j]]
             c == [j \in J |-> f.evidence[j].id]
  <1>1. a \in Bijection(J, A)
    <2>1. \A j, k \in J : EngineItem(f, j) = EngineItem(f, k) => j = k
      BY ItemTimes
    <2> QED
      BY <2>1 DEF Bijection, Injection, Surjection, IsInjective
  <1>2. \A j, k \in J : f.evidence[j].id = f.evidence[k].id => j = k
    BY DEF LegibleList
  <1>3. b \in Bijection(J, B)
    BY <1>2 DEF Bijection, Injection, Surjection, IsInjective
  <1>4. c \in Bijection(J, C)
    BY <1>2 DEF Bijection, Injection, Surjection, IsInjective
  <1> HIDE DEF A, B, C, a, b, c
  <1>5. ExistsBijection(J, A) /\ ExistsBijection(J, B) /\ ExistsBijection(J, C)
    BY <1>1, <1>3, <1>4 DEF ExistsBijection
  <1> QED
    BY <1>5, FS_Bijection DEF A, B, C, ItemsAt, RawAt, IdsAt

\* The least of some numbers.
LEMMA MinIs ==
    ASSUME NEW S \in SUBSET Int, NEW x \in S, \A y \in S : x <= y
    PROVE  Min(S) = x
  <1>1. \A y \in S : (\A z \in S : y <= z) => y = x
    OBVIOUS
  <1> QED
    BY <1>1 DEF Min

\* The event of a group is the event of its raw items.
LEMMA GroupEvent ==
    ASSUME NEW f, LegibleList(f.evidence), NEW i \in DOMAIN f.evidence, Readable(f.evidence[i]),
           EngineItem(f, i) \in Firsts(EngineItems(f))
    PROVE  TimelineEvent(EngineItem(f, i), Group(EngineItems(f), EngineItem(f, i)))
           = RawEvent(ToSet(f.evidence), f.evidence[i])
  <1> DEFINE x == EngineItem(f, i)
             e == f.evidence[i]
             E == ToSet(f.evidence)
             J == {j \in DOMAIN f.evidence : Readable(f.evidence[j])
                                             /\ RawKey(f.evidence[j]) = RawKey(f.evidence[i])}
             G == Group(EngineItems(f), x)
             M == RawGroup(E, e)
  <1>1. /\ G = {EngineItem(f, j) : j \in J} /\ M = {f.evidence[j] : j \in J}
        /\ i \in J /\ IsFiniteSet(J)
    BY GroupsAre
  <1>2. J \in SUBSET DOMAIN f.evidence
    OBVIOUS
  <1>3. \A j \in J : /\ EngineItem(f, j).utc = f.evidence[j].time.at
                     /\ f.evidence[j].time.at \in Int
                     /\ EngineItem(f, j).id = f.evidence[j].id
                     /\ EngineItem(f, j).source = derive_source_token(f.evidence[j].source)
                     /\ EngineItem(f, j).degraded <=> RawDegraded(E, f.evidence[j])
    BY ItemFields, ItemTimes
  <1>4. \A y \in G : y = x \/ Earlier(x, y)
    BY DEF Firsts
  <1> HIDE DEF J, G, M, E
  <1>5. {y.utc : y \in G} = {y.time.at : y \in M} /\ {y.time.at : y \in M} \in SUBSET Int
    BY <1>1, <1>3
  <1>6. x.utc = Min({y.time.at : y \in M})
    <2>1. x \in G /\ x.utc \in {y.utc : y \in G}
      BY <1>1
    <2>2. \A u \in {y.utc : y \in G} : x.utc <= u
      BY <1>1, <1>3, <1>4 DEF Earlier
    <2> QED
      BY <1>5, <2>1, <2>2, MinIs
  <1>7. {y.id : y \in G} = {y.id : y \in M}
    BY <1>1, <1>3
  <1>8. {y.source : y \in G} = {derive_source_token(y.source) : y \in M}
    BY <1>1, <1>3
  <1>9. (\E y \in G : y.degraded) = (\E y \in M : RawDegraded(E, y))
    BY <1>1, <1>3
  <1>10. Cardinality(G) = Cardinality(M)
    <2>1. G = ItemsAt(f, J) /\ M = RawAt(f, J)
      BY <1>1 DEF ItemsAt, RawAt
    <2>2. Cardinality(ItemsAt(f, J)) = Cardinality(J) /\ Cardinality(RawAt(f, J)) = Cardinality(J)
      BY <1>1, <1>2, CountsAre
    <2> QED
      BY ONLY <2>1, <2>2
  <1>11. /\ x.domain = e.domain /\ x.event_type = e.event_type
         /\ x.signature = classify_signature(e.signature, Certified)
    BY ItemFields
  <1> HIDE DEF x, e
  <1>12. TimelineEvent(x, G) = RawEvent(E, e)
    BY <1>5, <1>6, <1>7, <1>8, <1>9, <1>10, <1>11 DEF TimelineEvent, RawEvent, M
  <1> QED
    BY <1>12 DEF x, e, E, G

\* Each group has one first item.
LEMMA GroupHasFirst ==
    ASSUME NEW X, Ordered(Timed(X)), NEW x \in Timed(X)
    PROVE  /\ \E y \in Firsts(X) : y \in Group(X, x) /\ Group(X, y) = Group(X, x)
           /\ \A y, z \in Firsts(X) : _dedup_key(y) = _dedup_key(z) => y = z
  <1>1. Group(X, x) \in SUBSET Timed(X) /\ x \in Group(X, x)
    BY DEF Group
  <1>2. Ordered(Group(X, x))
    BY <1>1, OrderedSubset
  <1>3. PICK y \in Group(X, x) : \A z \in Group(X, x) : z = y \/ Earlier(y, z)
    BY <1>1, <1>2, FirstAndLast
  <1>4. Group(X, y) = Group(X, x)
    BY <1>3 DEF Group
  <1>5. y \in Firsts(X)
    BY <1>1, <1>3, <1>4 DEF Firsts
  <1>6. ASSUME NEW a \in Firsts(X), NEW b \in Firsts(X), _dedup_key(a) = _dedup_key(b)
        PROVE  a = b
    <2>1. a \in Group(X, b) /\ b \in Group(X, a) /\ a \in Timed(X) /\ b \in Timed(X)
      BY <1>6 DEF Firsts, Group
    <2>2. (a = b \/ Earlier(a, b)) /\ (a = b \/ Earlier(b, a))
      BY <2>1 DEF Firsts
    <2> QED
      BY <2>1, <2>2 DEF Earlier, Ordered
  <1> QED
    BY <1>4, <1>5, <1>6

LEMMA SameKeySameEvent ==
    ASSUME NEW E, NEW e, NEW d, RawKey(e) = RawKey(d)
    PROVE  RawEvent(E, e) = RawEvent(E, d)
  <1>1. e.domain = d.domain /\ e.event_type = d.event_type
        /\ classify_signature(e.signature, Certified) = classify_signature(d.signature, Certified)
    BY DEF RawKey
  <1>2. RawGroup(E, e) = RawGroup(E, d)
    BY DEF RawGroup
  <1> QED
    BY <1>1, <1>2 DEF RawEvent

\* The events of a timeline, by position and as a set.
LEMMA EventsAre ==
    ASSUME NEW f, LegibleList(f.evidence)
    PROVE  LET E == ToSet(f.evidence)
               X == EngineItems(f)
               events == build_timeline(X).events
               c == Cardinality(Firsts(X))
           IN  /\ c \in Nat /\ DOMAIN events = 1..c /\ Ordered(Firsts(X))
               /\ \A n \in 1..c : \E i \in DOMAIN f.evidence :
                     /\ Readable(f.evidence[i])
                     /\ InTime(Firsts(X), n) = EngineItem(f, i)
                     /\ EngineItem(f, i) \in Firsts(X)
                     /\ events[n] = TimelineEvent(EngineItem(f, i), Group(X, EngineItem(f, i)))
                     /\ events[n] = RawEvent(E, f.evidence[i])
               /\ ToSet(events) = {RawEvent(E, e) : e \in {x \in E : Readable(x)}}
  <1> DEFINE E == ToSet(f.evidence)
             D == DOMAIN f.evidence
             X == EngineItems(f)
             F == Firsts(X)
             events == build_timeline(X).events
             c == Cardinality(F)
             I == {i \in D : Readable(f.evidence[i])}
  <1>1. Timed(X) = {EngineItem(f, i) : i \in I} /\ Ordered(Timed(X))
    BY TimedAre
  <1>2. F \in SUBSET Timed(X)
    BY DEF Firsts
  <1>3. Ordered(F)
    BY <1>1, <1>2, OrderedSubset
  <1>4. /\ c \in Nat
        /\ \A n \in 1..c : InTime(F, n) \in F
        /\ \A x \in F : \E n \in 1..c : InTime(F, n) = x
    BY <1>3, Places, InTimeIs
  <1>5. events = [n \in 1..c |-> TimelineEvent(InTime(F, n), Group(X, InTime(F, n)))]
    BY DEF build_timeline
  <1>6. ASSUME NEW i \in I, EngineItem(f, i) \in F
        PROVE  TimelineEvent(EngineItem(f, i), Group(X, EngineItem(f, i)))
               = RawEvent(E, f.evidence[i])
    BY <1>6, GroupEvent
  <1>7. \A x \in F : \E i \in I : x = EngineItem(f, i)
    BY <1>1, <1>2
  <1>8. \A n \in 1..c : \E i \in I :
            /\ InTime(F, n) = EngineItem(f, i)
            /\ EngineItem(f, i) \in F
            /\ events[n] = TimelineEvent(EngineItem(f, i), Group(X, EngineItem(f, i)))
            /\ events[n] = RawEvent(E, f.evidence[i])
    BY <1>4, <1>5, <1>6, <1>7
  <1>9. ASSUME NEW i \in I
        PROVE  \E n \in 1..c : events[n] = RawEvent(E, f.evidence[i])
    <2> DEFINE x == EngineItem(f, i)
    <2>1. x \in Timed(X)
      BY <1>1
    <2>2. PICK y \in F : y \in Group(X, x)
      BY <1>1, <2>1, GroupHasFirst
    <2>3. PICK j \in I : y = EngineItem(f, j)
      BY <1>7
    <2>4. _dedup_key(EngineItem(f, j)) = _dedup_key(EngineItem(f, i))
      BY <2>2, <2>3 DEF Group
    <2>5. RawKey(f.evidence[j]) = RawKey(f.evidence[i])
      BY <2>4, KeysAre
    <2>6. RawEvent(E, f.evidence[j]) = RawEvent(E, f.evidence[i])
      BY <2>5, SameKeySameEvent
    <2>7. PICK n \in 1..c : InTime(F, n) = y
      BY <1>4
    <2>8. events[n] = TimelineEvent(y, Group(X, y))
      BY <1>5, <2>7
    <2> QED
      BY <1>6, <2>3, <2>6, <2>8
  <1>10. {x \in E : Readable(x)} = {f.evidence[i] : i \in I}
    BY DEF ToSet
  <1>11. DOMAIN events = 1..c
    BY <1>5
  <1> HIDE DEF I, c, F, events, E, X
  <1>12. ToSet(events) = {events[n] : n \in 1..c}
    BY <1>11 DEF ToSet
  <1>13. ToSet(events) = {RawEvent(E, e) : e \in {f.evidence[i] : i \in I}}
    BY <1>8, <1>9, <1>12
  <1>14. ToSet(events) = {RawEvent(E, e) : e \in {x \in E : Readable(x)}}
    BY <1>10, <1>13
  <1> QED
    BY <1>3, <1>4, <1>8, <1>11, <1>14 DEF I, c, F, events, E, X, D

-----------------------------------------------------------------------------
(* Two fixtures with the same items *)

LimitedBy(E, D) ==
    {"synthetic"}
    \cup (IF Truncate(Found(E)).truncated # {} THEN {"truncated"} ELSE {})
    \cup (IF \E e \in E : ~Readable(e) THEN {"unparseable"} ELSE {})
    \cup (IF ~Complete(E, D) THEN {"incomplete"} ELSE {})
    \cup (IF \E e \in E : RawDegraded(E, e) THEN {"degraded"} ELSE {})

LEMMA LimitationsAre ==
    ASSUME NEW f, Sane(f), LegibleList(f.evidence)
    PROVE  run_rca(f, Catalog).limitations = LimitedBy(ToSet(f.evidence), ToSet(f.declared))
  <1> DEFINE E == ToSet(f.evidence)
             X == EngineItems(f)
             m == build_evidence_manifest(declared_refs(f), X)
             t == build_timeline(X)
             tr == Truncate(Found(E)).truncated
  <1>1. run_rca(f, Catalog).limitations = limitations(tr, X, m, t)
    BY ConclusionsAre, Zenon
  <1>2. X = {EngineItem(f, i) : i \in DOMAIN f.evidence} /\ E = {f.evidence[i] : i \in DOMAIN f.evidence}
    BY ItemsAre DEF ToSet
  <1>3. (\E x \in X : x.utc = None) <=> (\E e \in E : ~Readable(e))
    <2> HIDE DEF X, E
    <2> QED
      BY <1>2, ItemTimes
  <1>4. t.degraded <=> \E e \in E : RawDegraded(E, e)
    <2>1. t.degraded = \E x \in X : x.degraded
      BY DEF build_timeline
    <2>2. \A i \in DOMAIN f.evidence : EngineItem(f, i).degraded <=> RawDegraded(E, f.evidence[i])
      BY ItemTimes
    <2> HIDE DEF X, E, t
    <2> QED
      BY <1>2, <2>1, <2>2
  <1>5. m.completeness # "COMPLETE" <=> ~Complete(E, ToSet(f.declared))
    BY IdsAre, DeclaredAre DEF build_evidence_manifest, Complete
  <1> HIDE DEF X, E, t, m, tr
  <1>6. limitations(tr, X, m, t)
        = {"synthetic"}
          \cup (IF tr # {} THEN {"truncated"} ELSE {})
          \cup (IF \E e \in E : ~Readable(e) THEN {"unparseable"} ELSE {})
          \cup (IF ~Complete(E, ToSet(f.declared)) THEN {"incomplete"} ELSE {})
          \cup (IF \E e \in E : RawDegraded(E, e) THEN {"degraded"} ELSE {})
    BY <1>3, <1>4, <1>5 DEF limitations
  <1> QED
    BY <1>1, <1>6 DEF LimitedBy, tr, E

\* What the result says but for the order of the events.
LEMMA SameItemsSameResult ==
    ASSUME NEW f, Sane(f), LegibleList(f.evidence),
           NEW g, Sane(g), LegibleList(g.evidence),
           ToSet(g.evidence) = ToSet(f.evidence), ToSet(g.declared) = ToSet(f.declared)
    PROVE  LET r == run_rca(f, Catalog)
               s == run_rca(g, Catalog)
           IN  /\ s.hypotheses = r.hypotheses
               /\ s.root_cause = r.root_cause
               /\ s.recommendations = r.recommendations
               /\ ToSet(s.timeline.events) = ToSet(r.timeline.events)
               /\ s.limitations = r.limitations
  <1> DEFINE r == run_rca(f, Catalog)
             s == run_rca(g, Catalog)
             E == ToSet(f.evidence)
             H == Concluded(E, ToSet(f.declared))
  <1>1. /\ r.hypotheses = H /\ r.root_cause = aggregate_root_cause(H)
        /\ r.recommendations = build_recommendations(Catalog, H, aggregate_root_cause(H))
        /\ r.timeline = build_timeline(EngineItems(f))
    BY ConclusionsAre, Zenon
  <1>2. /\ s.hypotheses = H /\ s.root_cause = aggregate_root_cause(H)
        /\ s.recommendations = build_recommendations(Catalog, H, aggregate_root_cause(H))
        /\ s.timeline = build_timeline(EngineItems(g))
    <2> DEFINE K == Concluded(ToSet(g.evidence), ToSet(g.declared))
    <2>1. K = H
      OBVIOUS
    <2>2. /\ s.hypotheses = K /\ s.root_cause = aggregate_root_cause(K)
          /\ s.recommendations = build_recommendations(Catalog, K, aggregate_root_cause(K))
          /\ s.timeline = build_timeline(EngineItems(g))
      BY ConclusionsAre, Zenon
    <2> HIDE DEF K, H, s
    <2> QED
      BY <2>1, <2>2
  <1>3. r.limitations = LimitedBy(E, ToSet(f.declared)) /\ s.limitations = LimitedBy(E, ToSet(f.declared))
    BY LimitationsAre
  <1>4. /\ ToSet(build_timeline(EngineItems(f)).events)
            = {RawEvent(E, e) : e \in {x \in E : Readable(x)}}
        /\ ToSet(build_timeline(EngineItems(g)).events)
            = {RawEvent(E, e) : e \in {x \in E : Readable(x)}}
    <2>1. ToSet(build_timeline(EngineItems(g)).events)
            = {RawEvent(ToSet(g.evidence), e) : e \in {x \in ToSet(g.evidence) : Readable(x)}}
      BY EventsAre, Zenon
    <2>2. ToSet(build_timeline(EngineItems(f)).events)
            = {RawEvent(E, e) : e \in {x \in E : Readable(x)}}
      BY EventsAre, Zenon
    <2> QED
      BY <2>1, <2>2
  <1> HIDE DEF r, s, E, H
  <1> QED
    BY <1>1, <1>2, <1>3, <1>4 DEF r, s

\* Two neighbours change places.
LEMMA SwapKeepsItems ==
    ASSUME NEW s, IsList(s), NEW i \in 1..(Len(s) - 1)
    PROVE  LET t == [s EXCEPT ![i] = s[i + 1], ![i + 1] = s[i]]
           IN  /\ IsList(t) /\ ToSet(t) = ToSet(s)
               /\ \E p \in [DOMAIN s -> DOMAIN s] :
                     /\ DOMAIN t = DOMAIN s
                     /\ \A j \in DOMAIN s : t[j] = s[p[j]]
                     /\ \A j, k \in DOMAIN s : p[j] = p[k] => j = k
  <1> DEFINE t == [s EXCEPT ![i] = s[i + 1], ![i + 1] = s[i]]
             D == DOMAIN s
             n == Len(s)
             p == [j \in D |-> IF j = i THEN i + 1 ELSE IF j = i + 1 THEN i ELSE j]
  <1>1. n \in Nat /\ D = 1..n /\ s \in Seq(ToSet(s))
    BY DEF IsList
  <1>2. i \in D /\ i + 1 \in D /\ i # i + 1
    BY <1>1
  <1>3. DOMAIN t = D
    OBVIOUS
  <1>4. t = [j \in D |-> IF j = i + 1 THEN s[i] ELSE IF j = i THEN s[i + 1] ELSE s[j]]
    BY <1>2
  <1> HIDE DEF t
  <1>5. p \in [D -> D] /\ \A j, k \in D : p[j] = p[k] => j = k
    BY <1>2
  <1>6. \A j \in D : t[j] = s[p[j]] /\ p[p[j]] = j
    BY <1>2, <1>4
  <1> HIDE DEF p
  <1>7. \A j \in D : t[j] \in ToSet(s) /\ s[j] = t[p[j]]
    BY <1>5, <1>6 DEF ToSet
  <1>8. ToSet(t) = ToSet(s)
    BY <1>3, <1>5, <1>7 DEF ToSet
  <1>9. IsList(t)
    <2>1. t = [j \in 1..n |-> t[j]] /\ \A j \in 1..n : t[j] \in ToSet(t)
      BY <1>1, <1>3, <1>4, <1>7, <1>8
    <2> QED
      BY <1>1, <2>1 DEF IsList
  <1> QED
    BY <1>3, <1>5, <1>6, <1>8, <1>9 DEF t

-----------------------------------------------------------------------------
(* The evidence is made of items that may come in and of rows. *)

LEMMA BridgeLegible ==
    ASSUME NEW rs \in Seq(Rows), NEW k \in DOMAIN build_rca_fixture(rs).evidence
    PROVE  Legible(build_rca_fixture(rs).evidence[k])
  <1> DEFINE U == Used(rs)
             row == rs[Nth(U, k)]
  <1>1. /\ DOMAIN build_rca_fixture(rs).evidence = 1..Cardinality(U)
        /\ build_rca_fixture(rs).evidence[k] = BridgeItem(row, k)
    BY FixtureIs
  <1>2. Nth(U, k) \in U
    <2>1. Len(rs) \in Nat /\ U \in SUBSET (1..Len(rs))
      BY DEF Used
    <2> HIDE DEF U
    <2>2. \E i \in U : Number(U, i) = k
      BY <1>1, <2>1, Numbering
    <2> QED
      BY <2>2 DEF Nth
  <1>3. row \in Rows /\ row.timestamp # None
    BY <1>2 DEF Used, Contributes
  <1> HIDE DEF row
  <1>4. Legible(BridgeItem(row, k))
    <2>1. BridgeItem(row, k).time = row.timestamp /\ BridgeItem(row, k).signature = row.signature
      BY DEF BridgeItem
    <2>2. /\ row.timestamp.form # "bad" => row.timestamp.at \in Int /\ row.timestamp.at # None
          /\ derive_signature_token(row.signature) # None
      BY <1>3, IncidentAssumption
    <2> QED
      BY <2>1, <2>2 DEF Legible, Readable
  <1> QED
    BY <1>1, <1>4

EvidenceLegible == \A i \in DOMAIN evidence : Legible(evidence[i])

(***************************************************************************)
(* Whatever comes in, a time that is not rejected as unreadable is one     *)
(* that can be compared (intake, bridge.build_rca_fixture).                *)
(***************************************************************************)
THEOREM IncidentEvidenceLegible == Spec => []EvidenceLegible
  <1>1. Init => EvidenceLegible
    BY DEF Init, EvidenceLegible
  <1>2. IncidentInv /\ IncidentInv' /\ EvidenceLegible /\ [Next]_vars => EvidenceLegible'
    <2> SUFFICES ASSUME IncidentInv, IncidentInv', EvidenceLegible, [Next]_vars
                 PROVE  EvidenceLegible'
      OBVIOUS
    <2>1. ASSUME NEW e \in Items, AddEvidence(e)
          PROVE  EvidenceLegible'
      <3>1. evidence' = [k \in 1..(Len(evidence) + 1) |->
                            IF k = Len(evidence) + 1 THEN e ELSE evidence[k]]
        BY <2>1, AppendIs DEF AddEvidence, IncidentInv
      <3>2. Legible(e)
        <4>1. e.time \in {x.time : x \in Items}
          OBVIOUS
        <4> QED
          BY <4>1, IncidentAssumption DEF Legible, Readable
      <3>3. DOMAIN evidence = 1..Len(evidence)
        BY DEF IncidentInv, IsList
      <3> QED
        BY <3>1, <3>2, <3>3 DEF EvidenceLegible
    <2>2. ASSUME NEW row \in Rows, AddRow(row)
          PROVE  EvidenceLegible'
      <3>1. evidence' = build_rca_fixture(rows').evidence /\ rows' \in Seq(Rows)
        BY <2>2 DEF AddRow, IncidentInv
      <3> QED
        BY <3>1, BridgeLegible DEF EvidenceLegible
    <2>3. CASE UNCHANGED vars
      BY <2>3 DEF vars, EvidenceLegible
    <2> QED
      BY <2>1, <2>2, <2>3 DEF Next
  <1> QED
    BY <1>1, <1>2, IncidentInvariant, PTL DEF Spec

LEMMA AcceptedIsLegible ==
    ASSUME IncidentInv, EvidenceLegible, Accepted
    PROVE  /\ Sane(fixture) /\ LegibleList(fixture.evidence)
           /\ fixture.evidence = evidence /\ fixture.declared = declared
           /\ out = run_rca(fixture, Catalog)
  <1>1. /\ fixture.evidence = evidence /\ fixture.declared = declared
        /\ ~IntakeError(fixture) /\ out = run_rca(fixture, Catalog) /\ IsList(fixture.evidence)
    BY DEF IncidentInv, fixture
  <1>2. \A i, j \in DOMAIN fixture.evidence : fixture.evidence[i].id = fixture.evidence[j].id => i = j
    BY <1>1 DEF IntakeError
  <1> QED
    BY <1>1, <1>2, AcceptedIsSane DEF LegibleList, EvidenceLegible

(***************************************************************************)
(* The conclusions and the events are the same in whatever order the       *)
(* evidence was written down (timeline.normalize_evidence, build_timeline).*)
(***************************************************************************)
THEOREM IncidentOrderIrrelevant == Spec => []OrderIrrelevant
  <1>1. IncidentInv /\ EvidenceLegible => OrderIrrelevant
    <2> SUFFICES ASSUME IncidentInv, EvidenceLegible, Accepted, NEW i \in 1..(Len(evidence) - 1)
                 PROVE  LET other == run_rca([fixture EXCEPT !.evidence = Swapped(i)], Catalog)
                        IN  /\ other.hypotheses = out.hypotheses
                            /\ other.root_cause = out.root_cause
                            /\ other.recommendations = out.recommendations
                            /\ ToSet(other.timeline.events) = ToSet(out.timeline.events)
                            /\ other.limitations = out.limitations
      BY DEF OrderIrrelevant
    <2> DEFINE g == [fixture EXCEPT !.evidence = Swapped(i)]
    <2>1. /\ Sane(fixture) /\ LegibleList(fixture.evidence)
          /\ fixture.evidence = evidence /\ fixture.declared = declared
          /\ out = run_rca(fixture, Catalog)
      BY AcceptedIsLegible
    <2>2. g.evidence = Swapped(i) /\ g.declared = declared
      BY DEF fixture
    <2>3. /\ IsList(Swapped(i)) /\ ToSet(Swapped(i)) = ToSet(evidence)
          /\ \E p \in [DOMAIN evidence -> DOMAIN evidence] :
                /\ DOMAIN Swapped(i) = DOMAIN evidence
                /\ \A j \in DOMAIN evidence : Swapped(i)[j] = evidence[p[j]]
                /\ \A j, k \in DOMAIN evidence : p[j] = p[k] => j = k
      BY SwapKeepsItems DEF IncidentInv, Swapped
    <2> HIDE DEF g
    <2>4. LegibleList(g.evidence)
      BY <2>1, <2>2, <2>3 DEF LegibleList
    <2>5. Sane(g)
      BY <2>1, <2>2, <2>3 DEF Sane
    <2>6. ToSet(g.evidence) = ToSet(fixture.evidence) /\ ToSet(g.declared) = ToSet(fixture.declared)
      BY <2>1, <2>2, <2>3
    <2> QED
      BY <2>1, <2>4, <2>5, <2>6, SameItemsSameResult, Zenon DEF g
  <1> QED
    BY <1>1, IncidentInvariant, IncidentEvidenceLegible, PTL

-----------------------------------------------------------------------------
(* The timeline *)

LEMMA MaxIs ==
    ASSUME NEW S \in SUBSET Int, NEW x \in S, \A y \in S : y <= x
    PROVE  Max(S) = x
  <1>1. \A y \in S : (\A z \in S : y >= z) => y = x
    OBVIOUS
  <1> QED
    BY <1>1 DEF Max

\* The members of an event: they count as their identifiers do, have one source and
\* lie within a window.
LEMMA MembersAre ==
    ASSUME NEW f, LegibleList(f.evidence), NEW i \in DOMAIN f.evidence, Readable(f.evidence[i]),
           EngineItem(f, i) \in Firsts(EngineItems(f))
    PROVE  LET ev == TimelineEvent(EngineItem(f, i), Group(EngineItems(f), EngineItem(f, i)))
           IN  /\ ev.count = Cardinality(ev.evidence)
               /\ Cardinality(ev.sources) = 1
               /\ ev.last_seen < ev.utc + Window
               /\ ev.utc = EngineItem(f, i).utc
  <1> DEFINE x == EngineItem(f, i)
             G == Group(EngineItems(f), x)
             ev == TimelineEvent(x, G)
             J == {j \in DOMAIN f.evidence : Readable(f.evidence[j])
                                             /\ RawKey(f.evidence[j]) = RawKey(f.evidence[i])}
  <1>1. G = {EngineItem(f, j) : j \in J} /\ i \in J /\ IsFiniteSet(J)
    BY GroupsAre
  <1>2. J \in SUBSET DOMAIN f.evidence
    OBVIOUS
  <1>3. /\ ev.utc = x.utc /\ ev.last_seen = Max({y.utc : y \in G})
        /\ ev.count = Cardinality(G) /\ ev.evidence = {y.id : y \in G}
        /\ ev.sources = {y.source : y \in G}
    BY DEF TimelineEvent
  <1>4. \A j \in J : EngineItem(f, j).id = f.evidence[j].id
    BY ItemFields
  <1>5. \A y \in G : _dedup_key(y) = _dedup_key(x)
    BY DEF Group
  <1>6. /\ Ordered(G)
    <2>1. Ordered(Timed(EngineItems(f)))
      BY TimedAre
    <2> QED
      BY <2>1, OrderedSubset DEF Group
  <1> HIDE DEF J, G, ev
  <1>7. Cardinality(G) = Cardinality({y.id : y \in G})
    <2>1. G = ItemsAt(f, J) /\ {y.id : y \in G} = IdsAt(f, J)
      BY <1>1, <1>4 DEF ItemsAt, IdsAt
    <2>2. Cardinality(ItemsAt(f, J)) = Cardinality(J) /\ Cardinality(IdsAt(f, J)) = Cardinality(J)
      BY <1>1, <1>2, CountsAre
    <2> QED
      BY ONLY <2>1, <2>2
  <1>8. x \in G /\ x.utc \in Int
    BY <1>1, <1>6 DEF Ordered
  <1>9. {y.source : y \in G} = {x.source}
    <2>1. \A y \in G : y.source = x.source
      BY <1>5 DEF _dedup_key
    <2> QED
      BY <1>8, <2>1
  <1>10. Max({y.utc : y \in G}) < x.utc + Window
    <2>1. PICK l \in G : \A y \in G : y = l \/ Earlier(y, l)
      BY <1>6, <1>8, FirstAndLast
    <2>2. \A y \in G : y.utc \in Int /\ y.utc <= l.utc
      BY <1>6, <2>1 DEF Ordered, Earlier
    <2>3. Max({y.utc : y \in G}) = l.utc
      <3> DEFINE S == {y.utc : y \in G}
      <3>1. S \in SUBSET Int /\ l.utc \in S /\ \A u \in S : u <= l.utc
        BY <2>1, <2>2
      <3> HIDE DEF S
      <3>2. Max(S) = l.utc
        BY <3>1, MaxIs
      <3> QED
        BY <3>2 DEF S
    <2>4. x.utc \div Window = l.utc \div Window
      BY <1>5, <2>1 DEF _dedup_key
    <2> QED
      BY <1>8, <2>1, <2>2, <2>3, <2>4, SameWindow
  <1> QED
    BY <1>3, <1>7, <1>9, <1>10, FS_Singleton DEF ev, G, x

\* The identifiers of an event tell which items are in it.
LEMMA InEvent ==
    ASSUME NEW f, LegibleList(f.evidence), NEW e \in ToSet(f.evidence), NEW d \in ToSet(f.evidence)
    PROVE  e.id \in RawEvent(ToSet(f.evidence), d).evidence
           <=> Readable(e) /\ RawKey(e) = RawKey(d)
  <1> DEFINE E == ToSet(f.evidence)
  <1>1. \A x, y \in E : x.id = y.id => x = y
    BY DEF LegibleList, ToSet
  <1>2. RawEvent(E, d).evidence = {x.id : x \in RawGroup(E, d)}
    BY DEF RawEvent
  <1> QED
    BY <1>1, <1>2 DEF RawGroup

\* Every readable item is in one event.
LEMMA InOneEvent ==
    ASSUME NEW f, LegibleList(f.evidence), NEW e \in ToSet(f.evidence), Readable(e)
    PROVE  LET events == build_timeline(EngineItems(f)).events
           IN  Cardinality({n \in DOMAIN events : e.id \in events[n].evidence}) = 1
  <1> DEFINE E == ToSet(f.evidence)
             X == EngineItems(f)
             F == Firsts(X)
             events == build_timeline(X).events
             c == Cardinality(F)
             N == {n \in DOMAIN events : e.id \in events[n].evidence}
  <1>1. /\ c \in Nat /\ DOMAIN events = 1..c /\ Ordered(F)
        /\ \A n \in 1..c : \E i \in DOMAIN f.evidence :
              /\ Readable(f.evidence[i])
              /\ InTime(F, n) = EngineItem(f, i)
              /\ EngineItem(f, i) \in F
              /\ events[n] = RawEvent(E, f.evidence[i])
        /\ ToSet(events) = {RawEvent(E, x) : x \in {y \in E : Readable(y)}}
    BY EventsAre, Zenon
  <1> HIDE DEF events, c, F, X
  <1>2. PICK n \in 1..c : events[n] = RawEvent(E, e)
    <2>1. RawEvent(E, e) \in ToSet(events)
      BY <1>1
    <2> QED
      BY <1>1, <2>1 DEF ToSet
  <1>3. n \in N
    BY <1>1, <1>2, InEvent
  <1>4. ASSUME NEW m \in N
        PROVE  m = n
    <2>1. PICK i \in DOMAIN f.evidence :
              /\ Readable(f.evidence[i]) /\ InTime(F, m) = EngineItem(f, i)
              /\ EngineItem(f, i) \in F /\ events[m] = RawEvent(E, f.evidence[i])
      BY <1>1
    <2>2. PICK j \in DOMAIN f.evidence :
              /\ Readable(f.evidence[j]) /\ InTime(F, n) = EngineItem(f, j)
              /\ EngineItem(f, j) \in F /\ events[n] = RawEvent(E, f.evidence[j])
      BY <1>1
    <2>3. f.evidence[i] \in E /\ f.evidence[j] \in E
      BY DEF ToSet
    <2>4. RawKey(e) = RawKey(f.evidence[i])
      BY <2>1, <2>3, InEvent
    <2>5. RawKey(e) = RawKey(f.evidence[j])
      BY <1>3, <2>2, <2>3, InEvent
    <2>6. _dedup_key(EngineItem(f, i)) = _dedup_key(EngineItem(f, j))
      BY <2>1, <2>2, <2>4, <2>5, KeysAre
    <2>7. EngineItem(f, i) = EngineItem(f, j)
      <3>1. /\ Ordered(Timed(X)) /\ EngineItem(f, i) \in Timed(X)
        BY <2>1, TimedAre DEF Firsts, F, X
      <3> QED
        BY <2>1, <2>2, <2>6, <3>1, GroupHasFirst DEF F
    <2>8. InTime(F, m) = InTime(F, n) /\ m \in 1..c
      BY <1>1, <2>1, <2>2, <2>7
    <2>9. ~Earlier(InTime(F, n), InTime(F, n))
      BY <1>1, <2>2 DEF Ordered, Earlier
    <2>10. ~(m < n) /\ ~(n < m)
      BY <1>1, <2>8, <2>9, InTimeIs DEF c
    <2> QED
      BY <1>1, <2>8, <2>10
  <1>5. N = {n}
    BY <1>3, <1>4
  <1> QED
    BY <1>5, FS_Singleton DEF events, X

(***************************************************************************)
(* Deduplication loses no evidence and no source, for any window           *)
(* (timeline.build_timeline).                                              *)
(***************************************************************************)
THEOREM IncidentTimelineAccounts == Spec => []TimelineAccountsForEvidence
  <1>1. IncidentInv /\ EvidenceLegible => TimelineAccountsForEvidence
    <2> SUFFICES ASSUME IncidentInv, EvidenceLegible, Accepted
                 PROVE  TimelineAccountsForEvidence
      BY DEF TimelineAccountsForEvidence
    <2> DEFINE f == fixture
               E == ToSet(evidence)
               X == EngineItems(f)
               F == Firsts(X)
               c == Cardinality(F)
               events == build_timeline(X).events
               timed == {e \in E : Readable(e)}
    <2>1. /\ Sane(f) /\ LegibleList(f.evidence) /\ f.evidence = evidence
          /\ out = run_rca(f, Catalog)
      BY AcceptedIsLegible
    <2>2. out.timeline.events = events
      BY <2>1, ConclusionsAre, Zenon
    <2>3. /\ c \in Nat /\ DOMAIN events = 1..c /\ Ordered(F)
          /\ \A n \in 1..c : \E i \in DOMAIN f.evidence :
              /\ Readable(f.evidence[i])
              /\ InTime(F, n) = EngineItem(f, i)
              /\ EngineItem(f, i) \in F
              /\ events[n] = TimelineEvent(EngineItem(f, i), Group(X, EngineItem(f, i)))
          /\ ToSet(events) = {RawEvent(E, e) : e \in timed}
      <3>1. ToSet(f.evidence) = E
        BY <2>1
      <3>2. /\ c \in Nat /\ DOMAIN events = 1..c /\ Ordered(F)
            /\ \A n \in 1..c : \E i \in DOMAIN f.evidence :
                /\ Readable(f.evidence[i])
                /\ InTime(F, n) = EngineItem(f, i)
                /\ EngineItem(f, i) \in F
                /\ events[n] = TimelineEvent(EngineItem(f, i), Group(X, EngineItem(f, i)))
        BY <2>1, EventsAre, Zenon
      <3>3. ToSet(events) = {RawEvent(ToSet(f.evidence), e)
                                : e \in {y \in ToSet(f.evidence) : Readable(y)}}
        BY <2>1, EventsAre, Zenon
      <3> QED
        BY ONLY <3>1, <3>2, <3>3
    <2>4. ASSUME NEW e \in timed
          PROVE  Cardinality({n \in DOMAIN events : e.id \in events[n].evidence}) = 1
      BY <2>1, InOneEvent
    <2>5. ASSUME NEW n \in DOMAIN events
          PROVE  /\ events[n].count = Cardinality(events[n].evidence)
                 /\ Cardinality(events[n].sources) = 1
                 /\ events[n].last_seen < events[n].utc + Window
                 /\ events[n].utc = InTime(F, n).utc
      <3>1. PICK i \in DOMAIN f.evidence :
              /\ Readable(f.evidence[i])
              /\ InTime(F, n) = EngineItem(f, i)
              /\ EngineItem(f, i) \in F
              /\ events[n] = TimelineEvent(EngineItem(f, i), Group(X, EngineItem(f, i)))
        BY <2>3
      <3> HIDE DEF events
      <3> QED
        BY <2>1, <3>1, MembersAre
    <2>6. ASSUME NEW n \in DOMAIN events, n > 1
          PROVE  events[n - 1].utc <= events[n].utc
      <3>1. n - 1 \in DOMAIN events /\ n - 1 < n
        BY <2>3, <2>6
      <3>2. Earlier(InTime(F, n - 1), InTime(F, n))
        BY <2>3, <3>1, InTimeIs
      <3>3. InTime(F, n - 1).utc \in Int /\ InTime(F, n).utc \in Int
        BY <2>3, <3>1 DEF Ordered
      <3> HIDE DEF events, F
      <3> QED
        BY <2>5, <3>1, <3>2, <3>3 DEF Earlier
    <2>7. UNION {ev.evidence : ev \in ToSet(events)} = {e.id : e \in timed}
      <3>1. \A e \in timed : e.id \in RawEvent(E, e).evidence
        BY <2>1, InEvent
      <3>2. \A e \in timed : RawEvent(E, e).evidence \subseteq {d.id : d \in timed}
        BY DEF RawEvent, RawGroup
      <3> HIDE DEF timed, E, events
      <3> QED
        BY <2>3, <3>1, <3>2
    <2>8. timed # E <=> "unparseable" \in out.limitations
      <3>1. out.limitations = LimitedBy(E, ToSet(f.declared))
        BY <2>1, LimitationsAre
      <3> QED
        BY <3>1 DEF LimitedBy
    <2>9. timed = {e \in ToSet(evidence) : e.time.form # "bad"}
      BY DEF Readable
    <2> HIDE DEF events, timed, E
    <2> QED
      BY <2>2, <2>4, <2>5, <2>6, <2>7, <2>8, <2>9 DEF TimelineAccountsForEvidence, E
  <1> QED
    BY <1>1, IncidentInvariant, IncidentEvidenceLegible, PTL
-----------------------------------------------------------------------------
(* What the adapter says of a result *)

\* Hypotheses of different rules.
Rankable(H) ==
    /\ IsFiniteSet(H)
    /\ \A h \in H : h.sources \in Int /\ h.rule \in Int
    /\ \A g, h \in H : g.rule = h.rule => g = h

\* The ranking has every hypothesis in it, and nothing else.
LEMMA RankedIs ==
    ASSUME NEW H, Rankable(H)
    PROVE  /\ Cardinality(H) \in Nat
           /\ DOMAIN Ranked(H) = 1..Cardinality(H)
           /\ \A i \in DOMAIN Ranked(H) : Ranked(H)[i] \in H
           /\ \A h \in H : \E i \in DOMAIN Ranked(H) : Ranked(H)[i] = h
  <1> DEFINE R == {p \in H \X H : Before(p[1], p[2])}
             P(h) == Cardinality({g \in H : Before(g, h)})
             c == Cardinality(H)
             At(n) == CHOOSE h \in H : P(h) = n - 1
  <1>1. \A x, y \in H : <<x, y>> \in R <=> Before(x, y)
    OBVIOUS
  <1> HIDE DEF R
  <1>2. /\ IsFiniteSet(H)
        /\ \A x \in H : <<x, x>> \notin R
        /\ \A x, y, z \in H : <<x, y>> \in R /\ <<y, z>> \in R => <<x, z>> \in R
        /\ \A x, y \in H : x = y \/ <<x, y>> \in R \/ <<y, x>> \in R
    BY <1>1 DEF Rankable, Before
  <1>3. \A x \in H : P(x) = Cardinality(BeforeIn(H, R, x))
    <2>1. \A x \in H : {g \in H : Before(g, x)} = BeforeIn(H, R, x)
      BY <1>1 DEF BeforeIn
    <2> QED
      BY <2>1
  <1>4. Ranked(H) = [n \in 1..c |-> At(n)]
    BY DEF Ranked
  <1> HIDE DEF P
  <1>5. /\ c \in Nat
        /\ \A x, y \in H : P(x) = P(y) => x = y
        /\ \A x \in H : P(x) \in 0..(c - 1)
        /\ \A k \in 0..(c - 1) : \E x \in H : P(x) = k
    BY <1>2, <1>3, RankingIs
  <1>6. ASSUME NEW n \in 1..c
        PROVE  At(n) \in H /\ P(At(n)) = n - 1
    <2>1. \E h \in H : P(h) = n - 1
      BY <1>5
    <2> QED
      BY <2>1
  <1>7. ASSUME NEW h \in H
        PROVE  \E n \in 1..c : At(n) = h
    <2>1. P(h) + 1 \in 1..c /\ (P(h) + 1) - 1 = P(h)
      BY <1>5
    <2>2. At(P(h) + 1) \in H /\ P(At(P(h) + 1)) = P(h)
      BY <1>6, <2>1
    <2> HIDE DEF At
    <2> QED
      BY <1>5, <2>1, <2>2
  <1> HIDE DEF At, c
  <1> QED
    BY <1>4, <1>5, <1>6, <1>7 DEF c

LEMMA LeastNat ==
    ASSUME NEW T \in SUBSET Nat, T # {}
    PROVE  \E n \in T : \A m \in T : n <= m
  <1> DEFINE R == OpToRel(<, Nat)
  <1>1. PICK n \in T : \A m \in T : ~(<<m, n>> \in R)
    BY NatLessThanWellFounded, WFMin
  <1>2. \A m \in T : ~(m < n)
    BY <1>1 DEF OpToRel
  <1> QED
    BY <1>2

\* A list of errors has a first one if there is one.
LEMMA FirstErrorIs ==
    ASSUME NEW errors, DOMAIN errors \in SUBSET Nat
    PROVE  FirstError(errors) # None <=> \E i \in DOMAIN errors : errors[i] # None
  <1> DEFINE raised == {i \in DOMAIN errors : errors[i] # None}
  <1>1. CASE raised = {}
    BY <1>1 DEF FirstError
  <1>2. CASE raised # {}
    <2>1. \E i \in raised : \A j \in raised : i <= j
      <3>1. raised \in SUBSET Nat
        OBVIOUS
      <3> HIDE DEF raised
      <3> QED
        BY <1>2, <3>1, LeastNat
    <2> DEFINE first == CHOOSE i \in raised : \A j \in raised : i <= j
    <2>2. first \in raised
      BY <2>1
    <2>3. FirstError(errors) = errors[first]
      BY <1>2 DEF FirstError
    <2> QED
      BY <2>2, <2>3
  <1> QED
    BY <1>1, <1>2

LEMMA FirstOfThree ==
    ASSUME NEW a, NEW b, NEW c
    PROVE  FirstError(<<a, b, c>>) # None <=> a # None \/ b # None \/ c # None
  <1> DEFINE e == <<a, b, c>>
  <1>1. DOMAIN e = 1..3 /\ e[1] = a /\ e[2] = b /\ e[3] = c
    OBVIOUS
  <1>2. DOMAIN e \in SUBSET Nat
    BY <1>1
  <1> HIDE DEF e
  <1>3. FirstError(e) # None <=> \E i \in DOMAIN e : e[i] # None
    BY <1>2, FirstErrorIs
  <1>4. (\E i \in 1..3 : e[i] # None) <=> e[1] # None \/ e[2] # None \/ e[3] # None
    OBVIOUS
  <1> QED
    BY <1>1, <1>3, <1>4 DEF e

LEMMA FirstOfFour ==
    ASSUME NEW a, NEW b, NEW c, NEW d
    PROVE  FirstError(<<a, b, c, d>>) # None <=> a # None \/ b # None \/ c # None \/ d # None
  <1> DEFINE s == <<a, b, c, d>>
  <1>1. DOMAIN s = 1..4 /\ s[1] = a /\ s[2] = b /\ s[3] = c /\ s[4] = d
    OBVIOUS
  <1>2. DOMAIN s \in SUBSET Nat
    BY <1>1
  <1> HIDE DEF s
  <1>3. FirstError(s) # None <=> \E i \in DOMAIN s : s[i] # None
    BY <1>2, FirstErrorIs
  <1>4. (\E i \in 1..4 : s[i] # None)
        <=> s[1] # None \/ s[2] # None \/ s[3] # None \/ s[4] # None
    OBVIOUS
  <1> QED
    BY <1>1, <1>3, <1>4 DEF s

LEMMA FirstOfFive ==
    ASSUME NEW a, NEW b, NEW c, NEW d, NEW e
    PROVE  FirstError(<<a, b, c, d, e>>) # None
           <=> a # None \/ b # None \/ c # None \/ d # None \/ e # None
  <1> DEFINE s == <<a, b, c, d, e>>
  <1>1. DOMAIN s = 1..5 /\ s[1] = a /\ s[2] = b /\ s[3] = c /\ s[4] = d /\ s[5] = e
    OBVIOUS
  <1>2. DOMAIN s \in SUBSET Nat
    BY <1>1
  <1> HIDE DEF s
  <1>3. FirstError(s) # None <=> \E i \in DOMAIN s : s[i] # None
    BY <1>2, FirstErrorIs
  <1>4. (\E i \in 1..5 : s[i] # None)
        <=> s[1] # None \/ s[2] # None \/ s[3] # None \/ s[4] # None \/ s[5] # None
    OBVIOUS
  <1> QED
    BY <1>1, <1>3, <1>4 DEF s

\* The manifest is refused for its identifiers or its length only.
LongManifest(m) ==
    \/ TooMany(Cardinality(DOMAIN m.declared), "refs")
    \/ TooMany(Cardinality(m.present), "refs")
    \/ TooMany(Cardinality(m.missing), "refs")

LEMMA ManifestTaken ==
    ASSUME NEW f
    PROVE  LET m == build_evidence_manifest(declared_refs(f), EngineItems(f))
           IN  ManifestError(m) # None
               <=> \/ ~IsInjective(declared_refs(f))
                   \/ ~(ToSet(declared_refs(f)) \cup Ids(ToSet(f.evidence)) \subseteq SafeIds)
                   \/ LongManifest(m)
  <1> DEFINE m == build_evidence_manifest(declared_refs(f), EngineItems(f))
             D == declared_refs(f)
             P == Ids(ToSet(f.evidence))
  <1>1. /\ m.declared = D /\ m.present = P /\ m.missing = ToSet(D) \ P
        /\ m.completeness = "COMPLETE" => m.missing = {}
    BY IdsAre DEF build_evidence_manifest
  <1> HIDE DEF m, D, P
  <1>2. ~(m.missing \cap m.present # {} \/ (m.completeness = "COMPLETE" /\ m.missing # {}))
    BY <1>1
  <1> DEFINE a == RaiseIf(\/ ~IsInjective(m.declared)
                          \/ TooMany(Cardinality(DOMAIN m.declared), "refs")
                          \/ TooMany(Cardinality(m.present), "refs")
                          \/ TooMany(Cardinality(m.missing), "refs"), "E_INPUT_INVALID")
             b == RaiseIf(~(ToSet(m.declared) \cup m.present \subseteq SafeIds), "E_INPUT_INVALID")
             c == RaiseIf(\/ m.missing \cap m.present # {}
                          \/ m.completeness = "COMPLETE" /\ m.missing # {}, "E_RCA_CONTRACT")
  <1>3. a # None <=> ~IsInjective(D) \/ LongManifest(m)
    BY <1>1, ErrorAssumption DEF RaiseIf, LongManifest
  <1>4. b # None <=> ~(ToSet(D) \cup P \subseteq SafeIds)
    BY <1>1, ErrorAssumption DEF RaiseIf
  <1>5. c = None
    BY <1>2 DEF RaiseIf
  <1>6. ManifestError(m) = FirstError(<<a, b, c>>)
    BY DEF ManifestError
  <1> HIDE DEF a, b, c
  <1>7. ManifestError(m) # None
        <=> ~IsInjective(D) \/ ~(ToSet(D) \cup P \subseteq SafeIds) \/ LongManifest(m)
    BY <1>3, <1>4, <1>5, <1>6, FirstOfThree
  <1> QED
    BY <1>7 DEF m, D, P

\* An event of items that intake accepted is refused for its length only.
LEMMA EventTaken ==
    ASSUME NEW E, NEW e \in E, e.domain \in ALLOWED_DOMAINS, e.event_type \in ALL_EVENT_TYPES,
           Ids(E) \subseteq SafeIds, Cardinality(RawEvent(E, e).sources) = 1
    PROVE  EventError(RawEvent(E, e), Certified) # None
           <=> TooMany(Cardinality(RawEvent(E, e).evidence), "ids")
  <1> DEFINE ev == RawEvent(E, e)
             a == RaiseIf(\/ ev.domain \notin ALLOWED_DOMAINS
                          \/ ev.event_type \notin ALL_EVENT_TYPES
                          \/ /\ ev.signature.status = "CERTIFIED"
                             /\ classify_signature(ev.signature.canonical, Certified).status
                                    # "CERTIFIED"
                          \/ ev.signature.status # "CERTIFIED" /\ ev.signature.canonical # None,
                          "E_RCA_CONTRACT")
             b == RaiseIf(TooMany(Cardinality(ev.sources), "sources"), "E_INPUT_INVALID")
             c == RaiseIf(\E s \in ev.sources : s.token # "SRC", "E_RCA_CONTRACT")
             d == RaiseIf(\/ TooMany(Cardinality(ev.evidence), "ids")
                          \/ ~(ev.evidence \subseteq SafeIds), "E_INPUT_INVALID")
  <1>1. LET c1 == classify_signature(e.signature, Certified)
        IN  /\ c1.status = "CERTIFIED"
                 => classify_signature(c1.canonical, Certified).status = "CERTIFIED"
            /\ c1.status # "CERTIFIED" => c1.canonical = None
    BY DEF classify_signature
  <1>2. /\ ev.domain = e.domain /\ ev.event_type = e.event_type
        /\ ev.signature = classify_signature(e.signature, Certified)
        /\ \A s \in ev.sources : s.token = "SRC"
    BY DEF RawEvent, derive_source_token
  <1>3. ev.evidence \subseteq SafeIds
    BY DEF RawEvent, RawGroup, Ids
  <1> HIDE DEF ev
  <1>4. a = None
    BY <1>1, <1>2 DEF RaiseIf
  <1>5. b = None
    <2>1. AdapterLimits["sources"] \in Nat /\ AdapterLimits["sources"] >= 1
      BY LimitsAssumption DEF LimitedLists
    <2>2. Cardinality(ev.sources) = 1
      BY DEF ev
    <2> QED
      BY <2>1, <2>2 DEF RaiseIf, TooMany
  <1>6. c = None
    BY <1>2 DEF RaiseIf
  <1>7. d # None <=> TooMany(Cardinality(ev.evidence), "ids")
    BY <1>3, ErrorAssumption DEF RaiseIf
  <1>8. EventError(ev, Certified) = FirstError(<<a, b, c, d>>)
    BY DEF EventError
  <1> HIDE DEF a, b, c, d
  <1> QED
    BY <1>4, <1>5, <1>6, <1>7, <1>8, FirstOfFour DEF ev

LongTimeline(t) ==
    \/ TooMany(Len(t.events), "events")
    \/ \E ev \in ToSet(t.events) : TooMany(Cardinality(ev.evidence), "ids")

\* So is the timeline.
LEMMA TimelineTaken ==
    ASSUME NEW f, LegibleList(f.evidence), ~IntakeError(f),
           Ids(ToSet(f.evidence)) \subseteq SafeIds
    PROVE  LET t == build_timeline(EngineItems(f))
           IN  _adapt_timeline_error(t, Catalog) # None <=> LongTimeline(t)
  <1> DEFINE E == ToSet(f.evidence)
             X == EngineItems(f)
             t == build_timeline(X)
             n == Cardinality(Firsts(X))
             errors == [i \in DOMAIN t.events |-> EventError(t.events[i], Certified)]
  <1>1. /\ n \in Nat /\ DOMAIN t.events = 1..n
        /\ \A k \in 1..n : \E i \in DOMAIN f.evidence :
              /\ Readable(f.evidence[i])
              /\ EngineItem(f, i) \in Firsts(X)
              /\ t.events[k] = TimelineEvent(EngineItem(f, i), Group(X, EngineItem(f, i)))
              /\ t.events[k] = RawEvent(E, f.evidence[i])
    BY EventsAre, Zenon
  <1>2. \A e \in E : e.domain \in ALLOWED_DOMAINS /\ e.event_type \in ALL_EVENT_TYPES
    BY DEF IntakeError, ToSet
  <1>3. ASSUME NEW k \in 1..n
        PROVE  EventError(t.events[k], Certified) # None
               <=> TooMany(Cardinality(t.events[k].evidence), "ids")
    <2>1. PICK i \in DOMAIN f.evidence :
              /\ Readable(f.evidence[i])
              /\ EngineItem(f, i) \in Firsts(X)
              /\ t.events[k] = TimelineEvent(EngineItem(f, i), Group(X, EngineItem(f, i)))
              /\ t.events[k] = RawEvent(E, f.evidence[i])
      BY <1>1
    <2>2. Cardinality(TimelineEvent(EngineItem(f, i), Group(X, EngineItem(f, i))).sources) = 1
      BY <2>1, MembersAre, Zenon
    <2>3. f.evidence[i] \in E
      BY DEF ToSet
    <2> HIDE DEF E, t
    <2>4. Cardinality(RawEvent(E, f.evidence[i]).sources) = 1
      BY <2>1, <2>2
    <2>5. EventError(RawEvent(E, f.evidence[i]), Certified) # None
          <=> TooMany(Cardinality(RawEvent(E, f.evidence[i]).evidence), "ids")
      BY <1>2, <2>3, <2>4, EventTaken DEF E
    <2> QED
      BY <2>1, <2>5
  <1> HIDE DEF E, t, n
  <1>4. DOMAIN errors \in SUBSET Nat
    BY <1>1
  <1>5. FirstError(errors) # None <=> \E i \in DOMAIN errors : errors[i] # None
    <2> HIDE DEF errors
    <2> QED
      BY <1>4, FirstErrorIs
  <1>6. FirstError(errors) # None <=> \E k \in 1..n : TooMany(Cardinality(t.events[k].evidence), "ids")
    BY <1>1, <1>3, <1>5
  <1>7. @ <=> \E ev \in ToSet(t.events) : TooMany(Cardinality(ev.evidence), "ids")
    BY <1>1 DEF ToSet
  <1>8. _adapt_timeline_error(t, Catalog)
        = IF TooMany(Len(t.events), "events") THEN "E_INPUT_INVALID" ELSE FirstError(errors)
    BY DEF _adapt_timeline_error, Certified
  <1> HIDE DEF errors
  <1>9. _adapt_timeline_error(t, Catalog) # None <=> LongTimeline(t)
    BY <1>6, <1>7, <1>8, ErrorAssumption DEF LongTimeline
  <1> QED
    BY <1>9 DEF t


Gate(h, complete) ==
    IF ~complete /\ h.status = "CONFIRMED"
    THEN [h EXCEPT !.status = "SUPPORTED", !.confidence = "MEDIUM",
                   !.missing = @ \cup {None}]
    ELSE h

\* What the engine's gate keeps of a hypothesis.
LEMMA GateKeeps ==
    ASSUME NEW r, NEW v, NEW complete
    PROVE  LET h == Hypothesis(r, v)
               g == Gate(h, complete)
           IN  /\ g.rule = r.id /\ g.domain = r.domain
               /\ g.supporting = v.supporting /\ g.contradicting = v.contradicting
               /\ g.unresolved = v.unresolved /\ g.sources = v.sources
               /\ g.status = "CONFIRMED" <=> h.status = "CONFIRMED" /\ complete
  <1> DEFINE h == Hypothesis(r, v)
             k == [h EXCEPT !.status = "SUPPORTED", !.confidence = "MEDIUM",
                            !.missing = @ \cup {None}]
  <1>1. /\ DOMAIN h = {"rule", "domain", "status", "confidence", "supporting", "contradicting",
                       "unresolved", "missing", "sources", "temporal"}
        /\ h.rule = r.id /\ h.domain = r.domain
        /\ h.supporting = v.supporting /\ h.contradicting = v.contradicting
        /\ h.unresolved = v.unresolved /\ h.sources = v.sources
    BY DEF Hypothesis
  <1> HIDE DEF h
  <1>2. /\ k.rule = h.rule /\ k.domain = h.domain
        /\ k.supporting = h.supporting /\ k.contradicting = h.contradicting
        /\ k.unresolved = h.unresolved /\ k.sources = h.sources
        /\ k.status = "SUPPORTED"
    BY <1>1
  <1> HIDE DEF k
  <1>3. CASE ~complete /\ h.status = "CONFIRMED"
    BY <1>1, <1>2, <1>3 DEF Gate, h, k
  <1>4. CASE ~(~complete /\ h.status = "CONFIRMED")
    BY <1>1, <1>4 DEF Gate, h, k
  <1> QED
    BY <1>3, <1>4

\* A hypothesis of the result, by its rule.
Tells(h, r, E, complete) ==
    LET v == Evaluated(r, E)
    IN  /\ h.rule = r.id /\ h.domain = r.domain
        /\ h.supporting = v.supporting /\ h.contradicting = v.contradicting
        /\ h.unresolved = v.unresolved /\ h.sources = v.sources
        /\ h.status = "CONFIRMED" => complete /\ ~v.unresolved

LEMMA ConcludedTells ==
    ASSUME NEW E, IsFiniteSet(E), NEW D
    PROVE  LET H == Concluded(E, D)
           IN  /\ \A h \in H : \E r \in ToSet(Catalog) : Tells(h, r, E, Complete(E, D))
               /\ Rankable(H)
  <1> DEFINE c == Complete(E, D)
             T == Truncate(Found(E)).hypotheses
             R == ToSet(Catalog)
             H == Concluded(E, D)
             Of(r) == Gate(Hypothesis(r, Evaluated(r, E)), c)
  <1>1. \A h \in T : \E r \in R : h = Hypothesis(r, Evaluated(r, E))
    BY DEF Truncate, Found
  <1>2. H = {Gate(h, c) : h \in T}
    BY DEF Concluded, Gated, Gate
  <1> HIDE DEF T, H
  <1>3. \A h \in H : \E r \in R : h = Of(r)
    BY <1>1, <1>2
  <1>4. ASSUME NEW r \in R
        PROVE  Tells(Of(r), r, E, c)
    <2> DEFINE v == Evaluated(r, E)
               g == Of(r)
    <2>1. /\ g.rule = r.id /\ g.domain = r.domain
          /\ g.supporting = v.supporting /\ g.contradicting = v.contradicting
          /\ g.unresolved = v.unresolved /\ g.sources = v.sources
          /\ g.status = "CONFIRMED" <=> Hypothesis(r, v).status = "CONFIRMED" /\ c
      <3> HIDE DEF c
      <3> QED
        BY GateKeeps
    <2>2. Hypothesis(r, v).status = "CONFIRMED" => ~v.unresolved
      BY StatusIs
    <2> HIDE DEF v, c
    <2> QED
      BY <2>1, <2>2 DEF Tells, v
  <1> HIDE DEF Of, c
  <1>5. IsFiniteSet(H)
    <2> DEFINE g == [r \in R |-> Of(r)]
    <2>1. IsFiniteSet(R)
      BY ListFinite, IncidentAssumption DEF IsList
    <2>2. IsFiniteSet({g[r] : r \in R})
      <3> DOMAIN g = R
        OBVIOUS
      <3> HIDE DEF g, R
      <3> QED
        BY <2>1, ImageFinite
    <2>3. H \in SUBSET {g[r] : r \in R}
      BY <1>3
    <2> HIDE DEF g
    <2> QED
      BY <2>2, <2>3, FS_Subset
  <1>6. ASSUME NEW r \in R
        PROVE  Of(r).sources \in Int /\ Of(r).rule = r.id /\ r.id \in Int
    <2>1. IsFiniteSet({e.source : e \in Meeting(E, r.supporting)})
      BY SourcesFinite
    <2>2. Evaluated(r, E).sources \in Nat
      BY <2>1, FS_CardinalityType DEF Evaluated
    <2> QED
      BY <1>4, <2>2, IncidentAssumption DEF Tells
  <1>7. \A g, h \in H : g.rule = h.rule => g = h
    <2> SUFFICES ASSUME NEW g \in H, NEW h \in H, g.rule = h.rule PROVE g = h
      OBVIOUS
    <2>1. PICK r \in R : g = Of(r)
      BY <1>3
    <2>2. PICK s \in R : h = Of(s)
      BY <1>3
    <2>3. r.id = s.id
      BY <1>6, <2>1, <2>2
    <2>4. r = s
      BY <2>3, IncidentAssumption
    <2> QED
      BY <2>1, <2>2, <2>4
  <1>8. Rankable(H)
    BY <1>3, <1>5, <1>6, <1>7 DEF Rankable
  <1> QED
    BY <1>3, <1>4, <1>8 DEF H, c

\* What is refused of a hypothesis: a confirmation without support, a domain nobody
\* knows, or a list that is too long.
Refused(h) ==
    \/ h.status = "CONFIRMED" /\ h.supporting = {}
    \/ h.domain \notin ALLOWED_DOMAINS
    \/ TooMany(Cardinality(h.supporting), "ids")
    \/ TooMany(Cardinality(h.contradicting), "ids")
    \/ TooMany(Cardinality(h.missing), "missing")

LEMMA HypothesisTaken ==
    ASSUME NEW h, NEW r \in ToSet(Catalog), NEW E, NEW complete, Tells(h, r, E, complete),
           NEW known, Ids(E) \subseteq known, Ids(E) \subseteq SafeIds
    PROVE  HypothesisError(h, Catalog, known) # None <=> Refused(h)
  <1> DEFINE a == RaiseIf(\/ h.domain # RuleOf(Catalog, h.rule).domain
                          \/ h.domain \notin ALLOWED_DOMAINS, "E_RCA_CONTRACT")
             b == RaiseIf(\/ TooMany(Cardinality(h.supporting), "ids")
                          \/ TooMany(Cardinality(h.contradicting), "ids")
                          \/ ~(h.supporting \cup h.contradicting \subseteq SafeIds),
                          "E_INPUT_INVALID")
             c == RaiseIf(~(h.supporting \cup h.contradicting \subseteq known), "E_REFERENCE")
             d == RaiseIf(h.status = "CONFIRMED" /\ (h.unresolved \/ h.supporting = {}),
                          "E_RCA_CONTRACT")
             e == RaiseIf(TooMany(Cardinality(h.missing), "missing"), "E_INPUT_INVALID")
  <1>1. RuleOf(Catalog, h.rule) = r
    BY IncidentAssumption DEF RuleOf, Tells
  <1>2. a # None <=> h.domain \notin ALLOWED_DOMAINS
    <2>1. h.domain = RuleOf(Catalog, h.rule).domain
      BY <1>1 DEF Tells
    <2> QED
      BY <2>1, ErrorAssumption DEF RaiseIf
  <1>3. h.supporting \cup h.contradicting \subseteq Ids(E)
    BY DEF Tells, Evaluated, Meeting, Ids
  <1>4. b # None <=> \/ TooMany(Cardinality(h.supporting), "ids")
                     \/ TooMany(Cardinality(h.contradicting), "ids")
    BY <1>3, ErrorAssumption DEF RaiseIf
  <1>5. c = None
    BY <1>3 DEF RaiseIf
  <1>6. d # None <=> h.status = "CONFIRMED" /\ h.supporting = {}
    <2>1. h.status = "CONFIRMED" => ~h.unresolved
      BY DEF Tells
    <2> QED
      BY <2>1, ErrorAssumption DEF RaiseIf
  <1>7. e # None <=> TooMany(Cardinality(h.missing), "missing")
    BY ErrorAssumption DEF RaiseIf
  <1>8. h.rule \in {s.id : s \in ToSet(Catalog)}
    BY DEF Tells
  <1>9. HypothesisError(h, Catalog, known) = FirstError(<<a, b, c, d, e>>)
    BY <1>8 DEF HypothesisError
  <1> HIDE DEF a, b, c, d, e
  <1> QED
    BY <1>2, <1>4, <1>5, <1>6, <1>7, <1>9, FirstOfFive DEF Refused

\* So is the list of them.
LEMMA HypothesesTaken ==
    ASSUME NEW E, IsFiniteSet(E), NEW D, NEW known, Ids(E) \subseteq known, Ids(E) \subseteq SafeIds
    PROVE  LET H == Concluded(E, D)
           IN  HypothesesError(H, Catalog, known) # None
               <=> TooMany(Cardinality(H), "hypotheses") \/ \E h \in H : Refused(h)
  <1> DEFINE H == Concluded(E, D)
             ranked == Ranked(H)
             e == [i \in DOMAIN ranked |-> HypothesisError(ranked[i], Catalog, known)]
  <1>1. /\ Rankable(H)
        /\ \A h \in H : \E r \in ToSet(Catalog) : Tells(h, r, E, Complete(E, D))
    BY ConcludedTells, Zenon
  <1> HIDE DEF H
  <1>2. /\ Cardinality(H) \in Nat
        /\ DOMAIN ranked = 1..Cardinality(H)
        /\ \A i \in DOMAIN ranked : ranked[i] \in H
        /\ \A h \in H : \E i \in DOMAIN ranked : ranked[i] = h
    BY <1>1, RankedIs
  <1>3. \A h \in H : HypothesisError(h, Catalog, known) # None <=> Refused(h)
    BY <1>1, HypothesisTaken
  <1>4. HypothesesError(H, Catalog, known)
        = IF TooMany(Cardinality(H), "hypotheses") THEN "E_INPUT_INVALID" ELSE FirstError(e)
    BY DEF HypothesesError
  <1> HIDE DEF ranked
  <1>5. DOMAIN e = DOMAIN ranked /\ DOMAIN e \in SUBSET Nat
    BY <1>2
  <1>6. FirstError(e) # None <=> \E i \in DOMAIN e : e[i] # None
    <2> HIDE DEF e
    <2> QED
      BY <1>5, FirstErrorIs
  <1>7. FirstError(e) # None <=> \E h \in H : Refused(h)
    BY <1>2, <1>3, <1>5, <1>6
  <1> HIDE DEF e
  <1> QED
    BY <1>4, <1>7, ErrorAssumption DEF H

\* The root cause is that of the hypotheses.
LEMMA RootCauseTaken ==
    ASSUME NEW E, IsFiniteSet(E), NEW D, NEW rca,
           rca.hypotheses = Concluded(E, D),
           rca.root_cause = aggregate_root_cause(rca.hypotheses),
           rca.manifest.completeness = "INCOMPLETE_REFS" => ~Complete(E, D)
    PROVE  RootCauseError(rca) # None
           <=> \/ TooMany(Cardinality(rca.root_cause.confirmed), "causes")
               \/ TooMany(Cardinality(rca.root_cause.competing), "causes")
  <1> DEFINE H == rca.hypotheses
             rc == rca.root_cause
             sure == With(H, "CONFIRMED")
             likely == With(H, "SUPPORTED")
             top == {h \in likely : \A g \in likely : g.sources <= h.sources}
  <1>1. /\ Rankable(H)
        /\ \A h \in H : \E r \in ToSet(Catalog) : Tells(h, r, E, Complete(E, D))
    BY ConcludedTells, Zenon
  <1> HIDE DEF H
  <1>2. rc.confirmed = RuleIds(sure) /\ rc.competing \in {{}, RuleIds(top)}
    BY DEF aggregate_root_cause, H
  <1>3. rc.completeness = CASE sure # {} -> "CONFIRMED"
                            [] sure = {} /\ likely = {} -> "INSUFFICIENT_EVIDENCE"
                            [] sure = {} /\ Cardinality(top) = 1 -> "PROBABLE"
                            [] OTHER -> "INCONCLUSIVE"
    BY DEF aggregate_root_cause, H
  <1>4. /\ rc.completeness = "CONFIRMED" => sure # {}
        /\ rc.completeness \in {"INCONCLUSIVE", "INSUFFICIENT_EVIDENCE"} => sure = {}
    BY <1>3
  <1>5. sure \in SUBSET H /\ top \in SUBSET H /\ \A h \in sure : h.status = "CONFIRMED"
    BY DEF With
  <1> HIDE DEF rc, sure, top
  <1>6. rc.confirmed \cup rc.competing \subseteq RuleIds(H)
    BY <1>2, <1>5 DEF RuleIds
  <1>7. ~(rc.completeness = "CONFIRMED" /\
            (\/ rc.confirmed = {}
             \/ \E h \in H : h.rule \in rc.confirmed /\ h.status # "CONFIRMED"
             \/ rca.manifest.completeness = "INCOMPLETE_REFS"))
    <2>1. sure # {} => rc.confirmed # {}
      BY <1>2 DEF RuleIds
    <2>2. \A h \in H : h.rule \in rc.confirmed => h.status = "CONFIRMED"
      BY <1>1, <1>2, <1>5 DEF RuleIds, Rankable
    <2>3. sure # {} => Complete(E, D)
      BY <1>1, <1>5 DEF Tells
    <2> QED
      BY <1>4, <2>1, <2>2, <2>3
  <1>8. ~(/\ rc.completeness \in {"INCONCLUSIVE", "INSUFFICIENT_EVIDENCE"}
          /\ rc.confirmed # {})
    BY <1>2, <1>4 DEF RuleIds
  <1> DEFINE a == RaiseIf(\/ TooMany(Cardinality(rc.confirmed), "causes")
                          \/ TooMany(Cardinality(rc.competing), "causes"), "E_INPUT_INVALID")
  <1>9. RootCauseError(rca) = FirstError(<<a, None, None, None>>)
    BY <1>6, <1>7, <1>8 DEF RootCauseError, RaiseIf, rc, H
  <1>10. a # None <=> \/ TooMany(Cardinality(rc.confirmed), "causes")
                      \/ TooMany(Cardinality(rc.competing), "causes")
    BY ErrorAssumption DEF RaiseIf
  <1> HIDE DEF a
  <1> QED
    BY <1>9, <1>10, FirstOfFour DEF rc

AtMost(S, n) == IsFiniteSet(S) /\ Cardinality(S) \in Nat /\ Cardinality(S) <= n

LEMMA OneMore ==
    ASSUME NEW n \in Nat, NEW m \in Nat, m = n + 1,
           NEW S, AtMost(S, n), NEW T, NEW x, T = {} \/ T = {x}
    PROVE  AtMost(S \cup T, m)
  <1>1. CASE T = {}
    <2>1. S \cup T = S
      BY <1>1
    <2> QED
      BY <2>1 DEF AtMost
  <1>2. CASE T = {x}
    <2>1. IsFiniteSet(S)
      BY DEF AtMost
    <2>2. /\ IsFiniteSet(S \cup {x})
          /\ Cardinality(S \cup {x}) = IF x \in S THEN Cardinality(S) ELSE Cardinality(S) + 1
      BY <2>1, FS_AddElement
    <2> QED
      BY <1>2, <2>2 DEF AtMost
  <1> QED
    BY <1>1, <1>2

\* There are five limitations at most.
LEMMA FewLimitations ==
    ASSUME NEW truncated, NEW items, NEW manifest, NEW timeline
    PROVE  AtMost(limitations(truncated, items, manifest, timeline), 5)
  <1> DEFINE T1 == IF truncated # {} THEN {"truncated"} ELSE {}
             T2 == IF \E e \in items : e.utc = None THEN {"unparseable"} ELSE {}
             T3 == IF manifest.completeness # "COMPLETE" THEN {"incomplete"} ELSE {}
             T4 == IF timeline.degraded THEN {"degraded"} ELSE {}
             S == {"synthetic"}
             A2 == S \cup T1
             A3 == A2 \cup T2
             A4 == A3 \cup T3
             A5 == A4 \cup T4
  <1>1. limitations(truncated, items, manifest, timeline) = A5
    BY DEF limitations
  <1>2. AtMost(S, 1)
    <2>1. IsFiniteSet(S) /\ Cardinality(S) = 1
      BY FS_Singleton, Zenon
    <2> QED
      BY <2>1 DEF AtMost
  <1> HIDE DEF S
  <1>3. AtMost(A2, 2)
    <2>1. T1 = {} \/ T1 = {"truncated"}
      OBVIOUS
    <2> HIDE DEF T1
    <2> QED
      BY <1>2, <2>1, 2 = 1 + 1, OneMore
  <1> HIDE DEF T1, A2
  <1>4. AtMost(A3, 3)
    <2>1. T2 = {} \/ T2 = {"unparseable"}
      OBVIOUS
    <2> HIDE DEF T2
    <2> QED
      BY <1>3, <2>1, 3 = 2 + 1, OneMore
  <1> HIDE DEF T2, A3
  <1>5. AtMost(A4, 4)
    <2>1. T3 = {} \/ T3 = {"incomplete"}
      OBVIOUS
    <2> HIDE DEF T3
    <2> QED
      BY <1>4, <2>1, 4 = 3 + 1, OneMore
  <1> HIDE DEF T3, A4
  <1>6. AtMost(A5, 5)
    <2>1. T4 = {} \/ T4 = {"degraded"}
      OBVIOUS
    <2> HIDE DEF T4
    <2> QED
      BY <1>5, <2>1, 5 = 4 + 1, OneMore
  <1> HIDE DEF T4, A5
  <1> QED
    BY <1>1, <1>6

\* The domains are known ones unless that of a hypothesis is not.
LEMMA KnownDomains ==
    ASSUME NEW f, ~IntakeError(f), NEW H, \A h \in H : h.domain \in ALLOWED_DOMAINS
    PROVE  ~TooMany(Cardinality(cross_domain_domains_involved(H, EngineItems(f))), "domains")
  <1> DEFINE N == cross_domain_domains_involved(H, EngineItems(f))
  <1>1. \A i \in DOMAIN f.evidence : f.evidence[i].domain \in ALLOWED_DOMAINS
    BY DEF IntakeError
  <1>2. \A e \in EngineItems(f) : e.domain \in ALLOWED_DOMAINS
    BY <1>1, ItemsAre, ItemFields
  <1>3. N \in SUBSET ALLOWED_DOMAINS
    BY <1>2 DEF cross_domain_domains_involved
  <1>4. IsFiniteSet(ALLOWED_DOMAINS)
    <2> DEFINE d == <<"oracle", "os", "rac", "asm", "dataguard", "multitenant", "rman",
                      "network", "security", "capacity", "performance">>
    <2>1. ALLOWED_DOMAINS = {d[i] : i \in 1..11} /\ DOMAIN d = 1..11
      BY DEF ALLOWED_DOMAINS
    <2>2. IsFiniteSet(1..11)
      <3> DEFINE k == 11
      <3>1. k \in Nat
        OBVIOUS
      <3> HIDE DEF k
      <3>2. IsFiniteSet(1..k)
        BY <3>1, FS_Interval
      <3> QED
        BY <3>2 DEF k
    <2>3. IsFiniteSet({d[i] : i \in 1..11})
      <3> HIDE DEF d
      <3> QED
        BY <2>1, <2>2, ImageFinite
    <2> QED
      BY ONLY <2>1, <2>3
  <1> HIDE DEF N
  <1>5. Cardinality(N) <= Cardinality(ALLOWED_DOMAINS)
    BY <1>3, <1>4, FS_Subset
  <1>6. Cardinality(N) \in Nat /\ Cardinality(ALLOWED_DOMAINS) \in Nat
    BY <1>3, <1>4, FS_Subset, FS_CardinalityType
  <1>7. AdapterLimits["domains"] \in Nat /\ AdapterLimits["domains"] >= Cardinality(ALLOWED_DOMAINS)
    BY LimitsAssumption DEF LimitedLists
  <1> QED
    BY <1>5, <1>6, <1>7 DEF TooMany, N

(***************************************************************************)
(* The adapter takes every result of the engine but those with an          *)
(* identifier of another shape or declared twice, a confirmation without   *)
(* support, a rule of no known domain, an action that is a command or a    *)
(* list that is too long (schema.adapt_rca_result).                        *)
(***************************************************************************)
LEMMA ResultTaken ==
    ASSUME NEW f, LegibleList(f.evidence), ~IntakeError(f)
    PROVE  LET result == run_rca(f, Catalog)
           IN  adapt_rca_result_error(result, Catalog) # None
               <=> \/ ~IsInjective(declared_refs(f))
                   \/ ~(ToSet(declared_refs(f)) \cup Ids(ToSet(f.evidence)) \subseteq SafeIds)
                   \/ Refusable(result)
  <1> DEFINE E == ToSet(f.evidence)
             D == ToSet(f.declared)
             H == Concluded(E, D)
             rca == run_rca(f, Catalog)
             m == build_evidence_manifest(declared_refs(f), EngineItems(f))
             t == build_timeline(EngineItems(f))
             known == rca.manifest.present
                      \cup UNION {ev.evidence : ev \in ToSet(rca.timeline.events)}
             a == ManifestError(rca.manifest)
             b == _adapt_timeline_error(rca.timeline, Catalog)
             c == HypothesesError(rca.hypotheses, Catalog, known)
             d == RootCauseError(rca)
             e == ClosingError(rca)
             Misnamed == \/ ~IsInjective(declared_refs(f))
                         \/ ~(ToSet(declared_refs(f)) \cup Ids(E) \subseteq SafeIds)
  <1>1. Sane(f)
    BY AcceptedIsSane DEF LegibleList
  <1>2. /\ rca.hypotheses = H /\ rca.manifest = m /\ rca.timeline = t
        /\ rca.root_cause = aggregate_root_cause(H)
        /\ rca.domains = cross_domain_domains_involved(H, EngineItems(f))
        /\ rca.limitations = limitations(rca.truncated, EngineItems(f), rca.manifest, rca.timeline)
    BY <1>1, ConclusionsAre, Zenon
  <1>3. IsFiniteSet(E)
    BY ListFinite DEF LegibleList
  <1> HIDE DEF rca
  <1>4. a # None <=> Misnamed \/ LongManifest(rca.manifest)
    BY <1>2, ManifestTaken, Zenon
  <1>5. ASSUME ~Misnamed
        PROVE  b # None <=> LongTimeline(rca.timeline)
    <2>1. Ids(ToSet(f.evidence)) \subseteq SafeIds
      BY <1>5
    <2> QED
      BY <1>2, <2>1, TimelineTaken, Zenon
  <1>6. ASSUME ~Misnamed
        PROVE  c # None <=> \/ TooMany(Cardinality(rca.hypotheses), "hypotheses")
                            \/ \E h \in rca.hypotheses : Refused(h)
    <2>1. m.present = Ids(E)
      BY IdsAre DEF build_evidence_manifest
    <2>2. Ids(E) \subseteq known /\ Ids(E) \subseteq SafeIds
      BY <1>2, <1>6, <2>1
    <2> HIDE DEF known, E, D
    <2>3. LET G == Concluded(E, D)
          IN  HypothesesError(G, Catalog, known) # None
              <=> TooMany(Cardinality(G), "hypotheses") \/ \E h \in G : Refused(h)
      BY <1>3, <2>2, HypothesesTaken
    <2>4. rca.hypotheses = Concluded(E, D)
      BY <1>2
    <2> QED
      BY ONLY <2>3, <2>4
  <1>7. d # None <=> \/ TooMany(Cardinality(rca.root_cause.confirmed), "causes")
                     \/ TooMany(Cardinality(rca.root_cause.competing), "causes")
    <2>1. m.completeness = "INCOMPLETE_REFS" => ~Complete(E, D)
      BY IdsAre, DeclaredAre DEF build_evidence_manifest, Complete
    <2> HIDE DEF E, D, m, H
    <2> QED
      BY <1>2, <1>3, <2>1, RootCauseTaken DEF H
  <1>8. ASSUME ~Foreign(rca)
        PROVE  e # None <=> TooMany(Len(rca.recommendations), "recommendations") \/ Unsafe(rca)
    <2> DEFINE p == RaiseIf(TooMany(Len(rca.recommendations), "recommendations"), "E_INPUT_INVALID")
               q == RaiseIf(\E r \in ToSet(rca.recommendations) : r.text = "executable",
                            "E_UNSAFE_CONTENT")
               u == RaiseIf(TooMany(Cardinality(rca.limitations), "limitations"), "E_INPUT_INVALID")
               v == RaiseIf(TooMany(Cardinality(rca.domains), "domains"), "E_INPUT_INVALID")
    <2>1. u = None
      <3>1. Cardinality(rca.limitations) <= 5 /\ Cardinality(rca.limitations) \in Nat
        BY <1>2, FewLimitations DEF AtMost
      <3>2. AdapterLimits["limitations"] \in Nat /\ AdapterLimits["limitations"] >= 5
        BY LimitsAssumption DEF LimitedLists
      <3> QED
        BY <3>1, <3>2 DEF RaiseIf, TooMany
    <2>2. v = None
      <3>1. \A h \in H : h.domain \in ALLOWED_DOMAINS
        BY <1>2, <1>8 DEF Foreign
      <3> HIDE DEF H
      <3> QED
        BY <1>2, <3>1, KnownDomains DEF RaiseIf
    <2>3. /\ p # None <=> TooMany(Len(rca.recommendations), "recommendations")
          /\ q # None <=> Unsafe(rca)
      BY ErrorAssumption DEF RaiseIf, Unsafe
    <2>4. e = FirstError(<<p, q, u, v>>)
      BY DEF ClosingError
    <2> HIDE DEF p, q, u, v, e
    <2> QED
      BY <2>1, <2>2, <2>3, <2>4, FirstOfFour
  <1>9. adapt_rca_result_error(rca, Catalog) = FirstError(<<a, b, c, d, e>>)
    BY DEF adapt_rca_result_error
  <1> HIDE DEF a, b, c, d, e, Misnamed, known
  <1>10. adapt_rca_result_error(rca, Catalog) # None
         <=> a # None \/ b # None \/ c # None \/ d # None \/ e # None
    BY <1>9, FirstOfFive
  <1> DEFINE TooManyCauses == \/ TooMany(Cardinality(rca.root_cause.confirmed), "causes")
                              \/ TooMany(Cardinality(rca.root_cause.competing), "causes")
             TooManyAdvices == TooMany(Len(rca.recommendations), "recommendations")
             TooManyHypotheses == TooMany(Cardinality(rca.hypotheses), "hypotheses")
             SomeRefused == \E h \in rca.hypotheses : Refused(h)
  <1>11. SomeRefused
         <=> \/ Unsupported(rca) \/ Foreign(rca)
             \/ \E h \in rca.hypotheses : \/ TooMany(Cardinality(h.supporting), "ids")
                                          \/ TooMany(Cardinality(h.contradicting), "ids")
                                          \/ TooMany(Cardinality(h.missing), "missing")
    BY DEF Refused, Unsupported, Foreign
  <1>12. Refusable(rca)
         <=> \/ LongManifest(rca.manifest) \/ LongTimeline(rca.timeline) \/ TooManyHypotheses
             \/ SomeRefused \/ TooManyCauses \/ TooManyAdvices \/ Unsafe(rca)
    BY <1>11 DEF Refusable, TooLong, LongManifest, LongTimeline
  <1>13. Foreign(rca) => SomeRefused
    BY <1>11
  <1> HIDE DEF TooManyCauses, TooManyAdvices, TooManyHypotheses, SomeRefused
  <1>14. adapt_rca_result_error(rca, Catalog) # None <=> Misnamed \/ Refusable(rca)
    BY <1>4, <1>5, <1>6, <1>7, <1>8, <1>10, <1>12, <1>13
       DEF TooManyCauses, TooManyAdvices, TooManyHypotheses, SomeRefused
  <1> QED
    BY <1>14 DEF rca, Misnamed

-----------------------------------------------------------------------------
(* The report of the gateway *)

\* The identifiers of the bridge never offend.
LEMMA BridgeNames ==
    ASSUME NEW rs \in Seq(Rows), Len(rs) <= MaxEvidence
    PROVE  LET f == build_rca_fixture(rs)
           IN  /\ IsInjective(declared_refs(f))
               /\ ToSet(declared_refs(f)) \cup Ids(ToSet(f.evidence)) \subseteq SafeIds
  <1> DEFINE U == Used(rs)
             n == Len(rs)
             c == Cardinality(U)
             f == build_rca_fixture(rs)
  <1>1. /\ n \in Nat /\ U \in SUBSET (1..n)
        /\ MaxEvidence \in Nat /\ n <= MaxEvidence
    BY IncidentAssumption DEF Used
  <1>2. c \in Nat /\ c <= n
    <2> HIDE DEF U, n
    <2>1. IsFiniteSet(1..n) /\ Cardinality(1..n) = n
      BY <1>1, FS_Interval
    <2>2. IsFiniteSet(U) /\ Cardinality(U) <= Cardinality(1..n)
      BY <1>1, <2>1, FS_Subset
    <2> QED
      BY <2>1, <2>2, FS_CardinalityType
  <1>3. f = [evidence |-> [k \in 1..c |-> BridgeItem(rs[Nth(U, k)], k)],
             declared |-> [k \in 1..c |-> EVD[k]]]
    BY FixtureIs
  <1>4. /\ DOMAIN f.evidence = 1..c /\ \A k \in 1..c : f.evidence[k].id = EVD[k]
        /\ f.declared = [k \in 1..c |-> EVD[k]]
    BY <1>3 DEF BridgeItem
  <1> HIDE DEF f, c, n, U
  <1>5. /\ \A k \in 1..c : EVD[k] \in SafeIds
        /\ \A k, l \in 1..c : EVD[k] = EVD[l] => k = l
    <2>1. 1..c \subseteq 1..MaxEvidence
      BY <1>1, <1>2
    <2> QED
      BY <2>1, IncidentAssumption
  <1>6. IsInjective(declared_refs(f))
    <2> DEFINE D == declared_refs(f)
    <2>1. D = [k \in {l \in DOMAIN f.declared : f.declared[l] # "malformed"} |-> f.declared[k]]
      BY DEF declared_refs, RestrictValues, Restrict
    <2>2. DOMAIN D \subseteq 1..c /\ \A k \in DOMAIN D : D[k] = EVD[k]
      BY <1>4, <2>1
    <2> HIDE DEF D
    <2>3. \A k, l \in DOMAIN D : D[k] = D[l] => k = l
      BY <1>5, <2>2
    <2>4. IsInjective(D)
      BY ONLY <2>3 DEF IsInjective
    <2> QED
      BY <2>4 DEF D
  <1>7. ToSet(declared_refs(f)) \subseteq SafeIds
    <2>1. DOMAIN f.declared = 1..c /\ \A k \in 1..c : f.declared[k] = EVD[k]
      BY <1>4
    <2>2. ToSet(f.declared) \subseteq SafeIds
      BY <1>5, <2>1 DEF ToSet
    <2>3. ToSet(declared_refs(f)) = ToSet(f.declared) \ {"malformed"}
      BY DeclaredAre
    <2> QED
      BY ONLY <2>2, <2>3
  <1>8. Ids(ToSet(f.evidence)) \subseteq SafeIds
    BY <1>4, <1>5 DEF ToSet, Ids
  <1> QED
    BY <1>6, <1>7, <1>8 DEF f

\* Without a context no declaration can be wrong.
LEMMA NoContextNoError ==
    ASSUME NEW view
    PROVE  build_change_advisory_error(view, None) = None
  <1>1. parse_change_context_error(None) = None /\ parse_change_context(None) = EmptyContext
    BY DEF parse_change_context_error, parse_change_context
  <1>2. EmptyContext.reports = <<>> /\ EmptyContext.authorizations = <<>>
    BY DEF EmptyContext
  <1> DEFINE proposed == Proposals(view, EmptyContext)
             e == [i \in DOMAIN EmptyContext.authorizations |->
                      AuthorizationError(proposed, EmptyContext.authorizations[i],
                                         EmptyContext.proposers)]
  <1>3. ToSet(EmptyContext.reports) = {}
    BY <1>2 DEF ToSet
  <1>4. DOMAIN e = {}
    BY <1>2
  <1>5. build_change_advisory_error(view, None) = FirstError(e)
    <2> HIDE DEF e, proposed
    <2> QED
      BY <1>1, <1>3 DEF build_change_advisory_error, e, proposed
  <1> HIDE DEF e
  <1>6. FirstError(e) = None
    BY <1>4 DEF FirstError
  <1> QED
    BY <1>5, <1>6

\* And no gate is passed, so no change is ready.
LEMMA NoContextNotReady ==
    ASSUME NEW view
    PROVE  build_change_advisory(view, None).readiness # "READY_FOR_HUMAN_REVIEW"
  <1> DEFINE proposed == Proposals(view, EmptyContext)
             changes == [n \in DOMAIN proposed |->
                 Authorize(Report(proposed[n], n, EmptyContext.reports), n,
                           EmptyContext.authorizations)]
             C == ToSet(changes)
             States == {"INSUFFICIENT_EVIDENCE", "BLOCKED", "REVIEW_REQUIRED"}
  <1>1. build_change_advisory(view, None) = Sealed(Advisory(view, changes))
    <2>1. parse_change_context(None) = EmptyContext
      BY DEF parse_change_context
    <2> QED
      BY <2>1 DEF build_change_advisory
  <1>2. EmptyContext.reports = <<>> /\ EmptyContext.authorizations = <<>>
        /\ EmptyContext.gates = [g \in GATES |-> "UNKNOWN"]
    BY DEF EmptyContext
  <1>3. ASSUME NEW rec, NEW n, NEW linked
        PROVE  Change(view, rec, n, linked, _gate_view(EmptyContext.gates, linked[1].domain)).readiness
               \in States
    <2> DEFINE gates == _gate_view(EmptyContext.gates, linked[1].domain)
               supporting == UNION {h.supporting : h \in ToSet(linked)}
    <2>1. gates = [g \in GATES |-> "UNKNOWN"]
      BY <1>2 DEF _gate_view, GATES
    <2>2. review_reasons(view, gates) # {}
      <3>1. "capability" \in review_reasons(view, gates)
        BY <2>1 DEF review_reasons, NON_BLOCKING, GATES
      <3> QED
        BY <3>1
    <2> HIDE DEF gates
    <2>3. Change(view, rec, n, linked, gates).readiness
          = _readiness(blockers(gates, rec, supporting), review_reasons(view, gates), supporting)
      BY DEF Change
    <2> HIDE DEF supporting
    <2> QED
      BY <2>2, <2>3 DEF _readiness, gates
  <1>4. ASSUME NEW n \in DOMAIN proposed
        PROVE  proposed[n].readiness \in States /\ "readiness" \in DOMAIN proposed[n]
    BY <1>3 DEF Proposals, Change
  <1>5. ASSUME NEW n \in DOMAIN proposed
        PROVE  changes[n].readiness = proposed[n].readiness
    <2>1. LastOn(<<>>, n) = {}
      BY DEF LastOn
    <2>2. changes[n] = Report(proposed[n], n, <<>>)
      BY <1>2, <2>1 DEF Authorize
    <2> HIDE DEF proposed, changes
    <2>3. Report(proposed[n], n, <<>>) = [proposed[n] EXCEPT !.report = @]
      BY DEF Report, ToSet
    <2> QED
      BY <1>4, <2>2, <2>3
  <1>6. \A c \in C : c.readiness \in States
    <2>1. DOMAIN changes = DOMAIN proposed
      OBVIOUS
    <2> HIDE DEF changes, proposed, States
    <2> QED
      BY <1>4, <1>5, <2>1 DEF ToSet
  <1>7. changes # <<>> => C # {}
    <2>1. DOMAIN changes = {} => changes = <<>>
      OBVIOUS
    <2> HIDE DEF changes
    <2> QED
      BY <2>1 DEF ToSet
  <1> DEFINE worst == CHOOSE c \in C : \A d \in C : Rank[c.readiness] <= Rank[d.readiness]
  <1> HIDE DEF changes, proposed, C
  <1>8. ASSUME C # {}
        PROVE  worst \in C
    <2> DEFINE T == {Rank[c.readiness] : c \in C}
    <2>1. T \in SUBSET Nat /\ T # {}
      BY <1>6, <1>8 DEF Rank
    <2>2. PICK r \in T : \A s \in T : r <= s
      <3> HIDE DEF T
      <3> QED
        BY <2>1, LeastNat
    <2>3. \E c \in C : \A d \in C : Rank[c.readiness] <= Rank[d.readiness]
      BY <2>2
    <2> QED
      BY <2>3
  <1>9. Advisory(view, changes).readiness
        = IF changes # <<>> THEN worst.readiness
          ELSE IF actionable(view) THEN "REVIEW_REQUIRED" ELSE "INSUFFICIENT_EVIDENCE"
    BY DEF Advisory, C
  <1>10. Sealed(Advisory(view, changes)).readiness = Advisory(view, changes).readiness
    BY DEF Sealed, Advisory
  <1> HIDE DEF worst
  <1> QED
    BY <1>1, <1>6, <1>7, <1>8, <1>9, <1>10

\* What the report holds, and when the engine was run.
ReportInv ==
    /\ exit = (IF IntakeError(fixture) THEN 2 ELSE 0)
    /\ via = "gateway" => Len(rows) <= MaxEvidence
    /\ report # None => via = "gateway" /\ report = AnalyzeFixture(fixture, Catalog)

\* The report on a fixture of the bridge.
LEMMA ReportIs ==
    ASSUME NEW f, LegibleList(f.evidence), IsInjective(declared_refs(f)),
           ToSet(declared_refs(f)) \cup Ids(ToSet(f.evidence)) \subseteq SafeIds
    PROVE  LET r == AnalyzeFixture(f, Catalog)
               result == run_rca(f, Catalog)
           IN  /\ r.error = "E_INSUFFICIENT_EVIDENCE" <=> f.evidence = <<>>
               /\ r.error = "E_ANALYSIS_FAILED"
                     <=> /\ f.evidence # <<>>
                         /\ IntakeError(f) \/ Refusable(result)
               /\ r.error = None => /\ r.confirmed = result.root_cause.confirmed
                                    /\ r.readiness # "READY_FOR_HUMAN_REVIEW"
  <1> DEFINE r == AnalyzeFixture(f, Catalog)
             result == run_rca(f, Catalog)
             view == adapt_rca_result(result, Catalog)
             refused == adapt_rca_result_error(result, Catalog) # None
             advised == Reported(view, build_change_advisory(view, None))
  <1>1. ~IntakeError(f) => (refused <=> Refusable(result))
    BY ResultTaken, Zenon
  <1>2. r = IF f.evidence = <<>> THEN Failed("E_INSUFFICIENT_EVIDENCE")
            ELSE IF IntakeError(f) \/ refused THEN Failed("E_ANALYSIS_FAILED")
            ELSE advised
    BY NoContextNoError DEF AnalyzeFixture, Adapt, Advise
  <1>3. /\ Failed("E_INSUFFICIENT_EVIDENCE").error = "E_INSUFFICIENT_EVIDENCE"
        /\ Failed("E_ANALYSIS_FAILED").error = "E_ANALYSIS_FAILED"
    BY DEF Failed
  <1>4. /\ advised.error = None
        /\ advised.confirmed = view.root_cause.confirmed
        /\ advised.readiness = build_change_advisory(view, None).readiness
    BY DEF Reported
  <1>5. view.root_cause = result.root_cause
    BY DEF adapt_rca_result
  <1>6. advised.readiness # "READY_FOR_HUMAN_REVIEW"
    BY <1>4, NoContextNotReady
  <1>7. /\ "E_INSUFFICIENT_EVIDENCE" # "E_ANALYSIS_FAILED"
        /\ "E_INSUFFICIENT_EVIDENCE" # None /\ "E_ANALYSIS_FAILED" # None
    BY ReportAssumption
  <1> HIDE DEF r, result, view, refused, advised
  <1> QED
    BY <1>1, <1>2, <1>3, <1>4, <1>5, <1>6, <1>7 DEF r, result

LEMMA StepKeepsReport ==
    ASSUME IncidentInv, IncidentInv', ReportInv, [Next]_vars
    PROVE  ReportInv'
  <1>1. ASSUME NEW e \in Items, AddEvidence(e)
        PROVE  ReportInv'
    <2> DEFINE g == [fixture EXCEPT !.evidence = Append(@, e)]
    <2>1. fixture' = g
      <3> DEFINE t == Append(evidence, e)
      <3>1. fixture' = [evidence |-> t, declared |-> declared]
        BY <1>1 DEF AddEvidence, fixture
      <3> HIDE DEF t
      <3>2. [fixture EXCEPT !.evidence = t] = [evidence |-> t, declared |-> declared]
        BY DEF fixture
      <3>3. g = [fixture EXCEPT !.evidence = t]
        BY DEF fixture, t
      <3> QED
        BY <3>1, <3>2, <3>3
    <2>2. exit' = Analyse(g, out).exit /\ via = "file" /\ via' = via /\ report' = report
      BY <1>1 DEF AddEvidence
    <2>3. exit' = (IF IntakeError(g) THEN 2 ELSE 0)
      BY <2>2 DEF Analyse
    <2> QED
      BY <2>1, <2>2, <2>3 DEF ReportInv
  <1>2. ASSUME NEW row \in Rows, AddRow(row)
        PROVE  ReportInv'
    <2>1. /\ via' = "gateway" /\ rows' = Append(rows, row)
          /\ Len(rows) < MaxEvidence /\ report' = analyze(rows', Catalog)
          /\ exit' = Analyse(build_rca_fixture(rows'), out).exit
      BY <1>2 DEF AddRow
    <2>2. fixture' = build_rca_fixture(rows')
      BY <2>1 DEF IncidentInv
    <2>3. exit' = (IF IntakeError(fixture') THEN 2 ELSE 0)
      BY <2>1, <2>2 DEF Analyse
    <2>4. report' = AnalyzeFixture(fixture', Catalog)
      BY <2>1, <2>2 DEF analyze
    <2>5. Len(rows') <= MaxEvidence
      BY <2>1, IncidentAssumption DEF IncidentInv
    <2> QED
      BY <2>1, <2>3, <2>4, <2>5 DEF ReportInv
  <1>3. CASE UNCHANGED vars
    BY <1>3 DEF vars, ReportInv, fixture
  <1> QED
    BY <1>1, <1>2, <1>3 DEF Next

(***************************************************************************)
(* A report is that of all the rows so far, and the engine refuses exactly *)
(* the fixtures that intake does (bridge.analyze, rca_engine.cli).         *)
(***************************************************************************)
THEOREM IncidentReport == Spec => []ReportInv
  <1>1. Init => ReportInv
    <2> SUFFICES ASSUME Init PROVE ReportInv
      OBVIOUS
    <2>1. ~IntakeError(fixture)
      BY DEF Init, IntakeError, fixture
    <2>2. Len(rows) <= MaxEvidence
      BY IncidentAssumption DEF Init
    <2> QED
      BY <2>1, <2>2 DEF Init, ReportInv
  <1> QED
    BY <1>1, StepKeepsReport, IncidentInvariant, PTL DEF Spec

(***************************************************************************)
(* The engine and the adapter agree on the contract, for every list of     *)
(* rules and evidence whose other identifiers and texts are well-formed:    *)
(* the adapter refuses exactly the results outside the contract, and       *)
(* through the gateway nothing fails but an unsupported confirmation, an    *)
(* unsafe action, a rule of no known domain or a list that is too long     *)
(* (schema.adapt_rca_result, bridge.analyze, change.build_change_advisory). *)
(***************************************************************************)
THEOREM IncidentAdapterAgrees == Spec => []AdapterAgrees
  <1>1. IncidentInv /\ EvidenceLegible /\ ReportInv => AdapterAgrees
    <2> SUFFICES ASSUME IncidentInv, EvidenceLegible, ReportInv
                 PROVE  AdapterAgrees
      OBVIOUS
    <2>1. fixture.evidence = evidence /\ fixture.declared = declared
      BY DEF fixture
    <2>2. Accepted <=> ~IntakeError(fixture)
      BY DEF ReportInv, Accepted
    <2>3. ASSUME Accepted
          PROVE  adapt_rca_result_error(out, Catalog) # None <=> OutsideContract
      <3>1. LegibleList(fixture.evidence) /\ out = run_rca(fixture, Catalog)
        BY <2>3, AcceptedIsLegible
      <3> QED
        BY <2>1, <2>2, <2>3, <3>1, ResultTaken, Zenon DEF OutsideContract
    <2>4. ASSUME report # None
          PROVE  /\ report.error = "E_INSUFFICIENT_EVIDENCE" <=> evidence = <<>>
                 /\ report.error = "E_ANALYSIS_FAILED" <=>
                       evidence # <<>> /\ (~Accepted \/ Refusable(out))
                 /\ report.error = None =>
                       /\ report.confirmed = out.root_cause.confirmed
                       /\ report.readiness # "READY_FOR_HUMAN_REVIEW"
      <3>1. /\ fixture = build_rca_fixture(rows) /\ rows \in Seq(Rows)
            /\ Len(rows) <= MaxEvidence
            /\ report = AnalyzeFixture(fixture, Catalog)
        BY <2>4 DEF IncidentInv, ReportInv
      <3>2. /\ IsInjective(declared_refs(fixture))
            /\ ToSet(declared_refs(fixture)) \cup Ids(ToSet(fixture.evidence)) \subseteq SafeIds
        BY <3>1, BridgeNames, Zenon
      <3>3. CASE IntakeError(fixture)
        <4>1. evidence # <<>>
          BY <2>1, <3>3 DEF IntakeError
        <4>2. report = Failed("E_ANALYSIS_FAILED")
          BY <2>1, <3>1, <3>3, <4>1 DEF AnalyzeFixture
        <4> QED
          BY <2>2, <3>3, <4>1, <4>2, ReportAssumption DEF Failed
      <3>4. CASE ~IntakeError(fixture)
        <4>1. LegibleList(fixture.evidence) /\ out = run_rca(fixture, Catalog) /\ Accepted
          BY <2>2, <3>4, AcceptedIsLegible
        <4> DEFINE r == AnalyzeFixture(fixture, Catalog)
                   result == run_rca(fixture, Catalog)
        <4>2. /\ r.error = "E_INSUFFICIENT_EVIDENCE" <=> fixture.evidence = <<>>
              /\ r.error = "E_ANALYSIS_FAILED"
                     <=> /\ fixture.evidence # <<>>
                         /\ IntakeError(fixture) \/ Refusable(result)
              /\ r.error = None => /\ r.confirmed = result.root_cause.confirmed
                                   /\ r.readiness # "READY_FOR_HUMAN_REVIEW"
          BY <3>2, <4>1, ReportIs, Zenon
        <4> HIDE DEF r, result
        <4>3. report = r /\ out = result
          BY <3>1, <4>1 DEF r, result
        <4> QED
          BY <2>1, <3>4, <4>1, <4>2, <4>3
      <3> QED
        BY <3>3, <3>4
    <2> QED
      BY <2>3, <2>4 DEF AdapterAgrees
  <1> QED
    BY <1>1, IncidentInvariant, IncidentEvidenceLegible, IncidentReport, PTL
=============================================================================
