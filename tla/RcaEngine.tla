------------------------------ MODULE RcaEngine ------------------------------
(***************************************************************************)
(* rca_engine: from the evidence of one incident to hypotheses, a root     *)
(* cause and recommendations (engine.run_rca).                             *)
(*                                                                         *)
(* An item of evidence keeps what the rules look at.  A time is a form     *)
(* (with an offset, naive, or not a time) and an instant.  Attributes are  *)
(* a partial function to classes of values; "text" stands for a value that *)
(* is not a scalar.  There is one incident, so a hypothesis is named by    *)
(* its rule and a token by the value it hides.  Lists whose order a field   *)
(* of their members gives (raw_index; source count and rule) are sets.     *)
(***************************************************************************)
EXTENDS Integers, SequencesExt

CONSTANTS
    None,
    NumericCodes,    \* signatures of the form ORA-NNNNN
    MaxHypotheses,   \* policy.max_hypotheses
    Window           \* policy.dedup_window_seconds

ASSUME EngineAssumption == MaxHypotheses \in Nat /\ Window \in Nat \ {0}

CAUSAL_ELIGIBLE_EVENT_TYPES ==
    {"SYMPTOM_OBSERVED", "ALERT_TRIGGERED", "CONFIG_CHANGE", "CAPACITY_EVENT",
     "INVESTIGATION_STEP"}
ALL_EVENT_TYPES == CAUSAL_ELIGIBLE_EVENT_TYPES \cup {"RECOVERY"}

ALLOWED_DOMAINS ==
    {"oracle", "os", "rac", "asm", "dataguard", "multitenant", "rman", "network",
     "security", "capacity", "performance"}

Skew == "source_clock_offset_seconds"

---------------------------------------------------------------------------
(* intake: sanitisation and the evidence manifest *)

collect_certified_signatures(rules) == UNION {r.signature_any : r \in ToSet(rules)}

Conditions(r) == r.supporting \cup r.contradicting \cup r.temporal

collect_allowed_attribute_keys(rules) ==
    {Skew} \cup {c.attribute : c \in UNION {Conditions(r) : r \in ToSet(rules)}}

derive_source_token(source) == [token |-> "SRC", of |-> source]
derive_signature_token(signature) == [token |-> "SIG", of |-> signature]

classify_signature(signature, certified) ==
    LET status == IF signature = None THEN "INSUFFICIENT_EVIDENCE"
                  ELSE IF signature \in NumericCodes \cup certified THEN "CERTIFIED"
                  ELSE "UNRECOGNIZED_SIGNATURE"
    IN  [status    |-> status,
         canonical |-> IF status = "CERTIFIED" THEN signature ELSE None,
         token     |-> IF status = "UNRECOGNIZED_SIGNATURE"
                       THEN derive_signature_token(signature) ELSE None]

\* Keys no rule reads and values that are not scalars are dropped.
sanitize_attributes(attributes, allowed) ==
    Restrict(attributes, {k \in DOMAIN attributes \cap allowed : attributes[k] # "text"})

\* What makes validate_and_sanitize raise.
IntakeError(fixture) ==
    LET items == fixture.evidence
    IN  \/ \E i \in DOMAIN items : \/ items[i].event_type \notin ALL_EVENT_TYPES
                                   \/ items[i].domain \notin ALLOWED_DOMAINS
        \/ \E i, j \in DOMAIN items : i # j /\ items[i].id = items[j].id

\* A declared reference that is not shaped as an identifier is dropped.  The others
\* keep their places, which only tell a repeated reference apart: the list is sorted.
declared_refs(fixture) == RestrictValues(fixture.declared, LAMBDA ref : ref # "malformed")

validate_and_sanitize(fixture, rules) ==
    LET certified == collect_certified_signatures(rules)
        allowed   == collect_allowed_attribute_keys(rules)
    IN  {LET e == fixture.evidence[i]
         IN  [id         |-> e.id,
              domain     |-> e.domain,
              source     |-> derive_source_token(e.source),
              event_type |-> e.event_type,
              time       |-> e.time,
              signature  |-> classify_signature(e.signature, certified),
              attributes |-> sanitize_attributes(e.attributes, allowed),
              raw_index  |-> i] : i \in DOMAIN fixture.evidence}

Ids(items) == {e.id : e \in items}

build_evidence_manifest(declared, items) ==
    LET missing == ToSet(declared) \ Ids(items)
    IN  [declared     |-> declared,
         present      |-> Ids(items),
         missing      |-> missing,
         completeness |-> IF missing = {} THEN "COMPLETE" ELSE "INCOMPLETE_REFS"]

---------------------------------------------------------------------------
(* timeline *)

_parse_timestamp(time) == IF time.form = "bad" THEN None ELSE time.at

skewed_sources(items) ==
    {e.source : e \in {x \in items : Skew \in DOMAIN x.attributes
                                     /\ x.attributes[Skew] = "beyond"}}

Normalized(e, skewed) ==
    LET utc == _parse_timestamp(e.time)
    IN  [id         |-> e.id,
         domain     |-> e.domain,
         source     |-> e.source,
         event_type |-> e.event_type,
         utc        |-> utc,
         signature  |-> e.signature,
         attributes |-> e.attributes,
         degraded   |-> utc # None /\ (e.time.form = "naive" \/ e.source \in skewed),
         raw_index  |-> e.raw_index]

\* Fault: one pass, so a clock is known to be off from its first bad item on.
normalize_evidence_OnePass(items) ==
    {Normalized(e, skewed_sources({x \in items : x.raw_index <= e.raw_index})) : e \in items}

normalize_evidence(items) ==
    LET skewed == skewed_sources(items) IN {Normalized(e, skewed) : e \in items}

\* One of the two is None, and both for an item without a signature.
_signature_group_key(e) == <<e.signature.canonical, e.signature.token>>

\* Fault: two sources that report the same event are one event.
_dedup_key_AnySource(e) ==
    <<e.domain, e.event_type, _signature_group_key(e), e.utc \div Window>>

_dedup_key(e) ==
    <<e.source, e.domain, e.event_type, _signature_group_key(e), e.utc \div Window>>

\* By time and, for equal times, in the order of the fixture.
Earlier(e, f) ==
    \/ e.utc < f.utc
    \/ e.utc = f.utc /\ e.raw_index < f.raw_index

Timed(items) == {e \in items : e.utc # None}

\* The group of an item, and the first of each group.
Group(items, e) == {f \in Timed(items) : _dedup_key(f) = _dedup_key(e)}
Firsts(items) ==
    {e \in Timed(items) : \A f \in Group(items, e) : f = e \/ Earlier(e, f)}

TimelineEvent(e, members) ==
    [domain     |-> e.domain,
     event_type |-> e.event_type,
     signature  |-> e.signature,
     utc        |-> e.utc,
     last_seen  |-> Max({f.utc : f \in members}),
     count      |-> Cardinality(members),
     evidence   |-> {f.id : f \in members},
     sources    |-> {f.source : f \in members},
     degraded   |-> \E f \in members : f.degraded]

\* The n-th item in the order of time.
InTime(items, n) ==
    CHOOSE e \in items : Cardinality({f \in items : Earlier(f, e)}) = n - 1

build_timeline(items) ==
    LET firsts   == Firsts(items)
        Event(e) == TimelineEvent(e, Group(items, e))
    IN  [events   |-> [n \in 1..Cardinality(firsts) |-> Event(InTime(firsts, n))],
         degraded |-> \E e \in items : e.degraded]

---------------------------------------------------------------------------
(* rules and hypotheses *)

\* Fault: any event may be a cause, a recovery too.
_condition_matches_AnyEvent(e, c) ==
    /\ c.domain \in {None, e.domain}
    /\ c.attribute \in DOMAIN e.attributes
    /\ e.attributes[c.attribute] = c.value

_condition_matches(e, c) ==
    /\ e.event_type \in CAUSAL_ELIGIBLE_EVENT_TYPES
    /\ c.domain \in {None, e.domain}
    /\ c.attribute \in DOMAIN e.attributes
    /\ e.attributes[c.attribute] = c.value

_symptom_matches(e, r) ==
    /\ e.event_type \in CAUSAL_ELIGIBLE_EVENT_TYPES
    /\ \/ e.signature.status = "CERTIFIED" /\ e.signature.canonical \in r.signature_any
       \/ r.signature_any = {} /\ e.event_type \in r.event_type_any

Matching(items, conditions) ==
    {e \in items : \E c \in conditions : _condition_matches(e, c)}

evaluate_rule(r, items) ==
    LET support == Matching(items, r.supporting)
    IN  [symptoms      |-> {e.id : e \in {x \in items : _symptom_matches(x, r)}},
         supporting    |-> {e.id : e \in support},
         contradicting |-> {e.id : e \in Matching(items, r.contradicting)},
         unresolved    |-> Matching(items, {c \in r.contradicting : c.critical}) # {},
         missing       |-> {c \in r.supporting : Matching(items, {c}) = {}},
         temporal      |-> Matching(items, r.temporal) # {},
         sources       |-> Cardinality({e.source : e \in support})]

\* Fault: confirmed by exactly as many sources as the rule asks for.
_status_and_confidence_Exactly(v, min_sources) ==
    IF v.unresolved
    THEN IF v.supporting # {} THEN <<"WEAKENED", "LOW">> ELSE <<"REJECTED", "INSUFFICIENT">>
    ELSE IF v.temporal \/ v.sources = min_sources THEN <<"CONFIRMED", "HIGH">>
    ELSE IF v.sources >= 1 THEN <<"SUPPORTED", "MEDIUM">>
    ELSE <<"INSUFFICIENT_EVIDENCE", "INSUFFICIENT">>

\* Fault: a temporal proof is looked at before the contradictions.
_status_and_confidence_ProofFirst(v, min_sources) ==
    IF v.temporal THEN <<"CONFIRMED", "HIGH">>
    ELSE IF v.unresolved
    THEN IF v.supporting # {} THEN <<"WEAKENED", "LOW">> ELSE <<"REJECTED", "INSUFFICIENT">>
    ELSE IF v.sources >= min_sources THEN <<"CONFIRMED", "HIGH">>
    ELSE IF v.sources >= 1 THEN <<"SUPPORTED", "MEDIUM">>
    ELSE <<"INSUFFICIENT_EVIDENCE", "INSUFFICIENT">>

_status_and_confidence(v, min_sources) ==
    IF v.unresolved
    THEN IF v.supporting # {} THEN <<"WEAKENED", "LOW">> ELSE <<"REJECTED", "INSUFFICIENT">>
    ELSE IF v.temporal \/ v.sources >= min_sources THEN <<"CONFIRMED", "HIGH">>
    ELSE IF v.sources >= 1 THEN <<"SUPPORTED", "MEDIUM">>
    ELSE <<"INSUFFICIENT_EVIDENCE", "INSUFFICIENT">>

\* The hypothesis of a rule that was evaluated to v.
Hypothesis(r, v) ==
    LET s == _status_and_confidence(v, r.min_sources)
    IN  [rule |-> r.id, domain |-> r.domain, status |-> s[1], confidence |-> s[2],
         supporting |-> v.supporting, contradicting |-> v.contradicting,
         unresolved |-> v.unresolved, missing |-> v.missing, sources |-> v.sources,
         temporal |-> v.temporal]

\* The rules with a symptom.
candidates(rules, items) ==
    LET matched == {r \in ToSet(rules) : evaluate_rule(r, items).symptoms # {}}
    IN  {Hypothesis(r, evaluate_rule(r, items)) : r \in matched}

\* The ranking: the best supported first, then by rule_id.
Before(g, h) ==
    \/ g.sources > h.sources
    \/ g.sources = h.sources /\ g.rule < h.rule

Ranked(hypotheses) ==
    [n \in 1..Cardinality(hypotheses) |->
        CHOOSE h \in hypotheses : Cardinality({g \in hypotheses : Before(g, h)}) = n - 1]

\* The first max_hypotheses of the ranking, and the rules of the others.
Truncate(all) ==
    LET kept == {h \in all : Cardinality({g \in all : Before(g, h)}) < MaxHypotheses}
    IN  [hypotheses |-> kept,
         truncated  |-> {h.rule : h \in all \ kept}]

generate_hypotheses(rules, items) == Truncate(candidates(rules, items))

---------------------------------------------------------------------------
(* causality *)

\* Fault: missing references are reported but confirm all the same.
apply_evidence_completeness_gate_Open(hypotheses, manifest) == hypotheses

\* None is the line on the declared references, missing like the conditions.
apply_evidence_completeness_gate(hypotheses, manifest) ==
    {IF manifest.completeness = "INCOMPLETE_REFS" /\ h.status = "CONFIRMED"
     THEN [h EXCEPT !.status = "SUPPORTED", !.confidence = "MEDIUM",
                    !.missing = @ \cup {None}]
     ELSE h : h \in hypotheses}

With(hypotheses, status) == {h \in hypotheses : h.status = status}
RuleIds(hypotheses) == {h.rule : h \in hypotheses}

aggregate_root_cause(hypotheses) ==
    LET confirmed == With(hypotheses, "CONFIRMED")
        supported == With(hypotheses, "SUPPORTED")
        top == {h \in supported : \A g \in supported : g.sources <= h.sources}
    IN  [completeness |-> CASE confirmed # {} -> "CONFIRMED"
                            [] confirmed = {} /\ supported = {} -> "INSUFFICIENT_EVIDENCE"
                            [] confirmed = {} /\ Cardinality(top) = 1 -> "PROBABLE"
                            [] OTHER -> "INCONCLUSIVE",
         confirmed    |-> RuleIds(confirmed),
         competing    |-> IF confirmed = {} /\ Cardinality(top) > 1 THEN RuleIds(top) ELSE {}]

RuleOf(rules, id) == CHOOSE r \in ToSet(rules) : r.id = id

\* The manual actions of the confirmed rules, in the order of the ranking; their
\* place is their number in rec_id.
build_recommendations(rules, hypotheses, root_cause) ==
    LET confirmed == Ranked({h \in hypotheses : h.rule \in root_cause.confirmed})
    IN  FlattenSeq([i \in DOMAIN confirmed |-> RuleOf(rules, confirmed[i].rule).actions])

cross_domain_domains_involved(hypotheses, items) ==
    UNION {{h.domain} \cup {e.domain : e \in {x \in items :
                                x.id \in h.supporting \cup h.contradicting}}
              : h \in hypotheses}

---------------------------------------------------------------------------
(* engine *)

limitations(truncated, items, manifest, timeline) ==
    {"synthetic"}
    \cup (IF truncated # {} THEN {"truncated"} ELSE {})
    \cup (IF \E e \in items : e.utc = None THEN {"unparseable"} ELSE {})
    \cup (IF manifest.completeness # "COMPLETE" THEN {"incomplete"} ELSE {})
    \cup (IF timeline.degraded THEN {"degraded"} ELSE {})

\* The result; the truncated rules are those its limitations name.
Result(rules, items, manifest, timeline, truncated, hypotheses) ==
    LET root_cause == aggregate_root_cause(hypotheses)
    IN  [timeline        |-> timeline,
         manifest        |-> manifest,
         hypotheses      |-> hypotheses,
         root_cause      |-> root_cause,
         recommendations |-> build_recommendations(rules, hypotheses, root_cause),
         domains         |-> cross_domain_domains_involved(hypotheses, items),
         truncated       |-> truncated,
         limitations     |-> limitations(truncated, items, manifest, timeline)]

\* The analysis of normalised items.
Analysis(rules, items, manifest) ==
    LET gen == generate_hypotheses(rules, items)
    IN  Result(rules, items, manifest, build_timeline(items), gen.truncated,
               apply_evidence_completeness_gate(gen.hypotheses, manifest))

\* For a fixture that passes intake.
run_rca(fixture, rules) ==
    LET items == normalize_evidence(validate_and_sanitize(fixture, rules))
    IN  Analysis(rules, items, build_evidence_manifest(declared_refs(fixture), items))
=============================================================================
