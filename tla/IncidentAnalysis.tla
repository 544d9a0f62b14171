-------------------------- MODULE IncidentAnalysis --------------------------
(***************************************************************************)
(* An incident while its evidence comes in, and what rca_engine makes of   *)
(* it at each moment.  The fixture is a file of people and collectors:     *)
(* items are added in any order, late, twice under one identifier, with    *)
(* times that cannot be read or clocks that are off.  The engine is run    *)
(* after each of them: it reads the file as it is and keeps nothing but    *)
(* the result it writes.  The other way to the engine is the gateway: the  *)
(* rows of a session become the fixture (bridge.analyze).                  *)
(***************************************************************************)
EXTENDS Bridge

CONSTANTS
    Catalog,      \* rules of the catalog, a sequence
    Items,        \* evidence that may come in
    Declarations, \* lists of declared_evidence_refs
    Rows,         \* rows the gateway may collect
    MaxEvidence   \* bound of the model

\* A time that can be read is a number and a token is not None, in an item or a row;
\* the identifiers of the bridge are well-formed and different; load_rules refuses a
\* catalog with two rules of one id, and these are numbers here, in the order of the
\* names; a condition asks for a scalar.
ASSUME IncidentAssumption ==
    /\ MaxEvidence \in Nat
    /\ \A t \in {e.time : e \in Items} \cup ({row.timestamp : row \in Rows} \ {None}) :
            t.form # "bad" => t.at \in Int /\ t.at # None
    /\ \A x \in Items \cup Rows : derive_signature_token(x.signature) # None
    /\ \A m, n \in 1..MaxEvidence : /\ EVD[m] \in SafeIds \ {"malformed"}
                                    /\ EVD[m] = EVD[n] => m = n
    /\ Catalog \in Seq(ToSet(Catalog))
    /\ \A r, s \in ToSet(Catalog) : r.id = s.id => r = s
    /\ \A r \in ToSet(Catalog) : /\ r.id \in Int /\ r.min_sources \in Nat
                                 /\ \A c \in Conditions(r) : c.value # "text"

VARIABLES
    via,        \* "file" or "gateway"
    rows,       \* rows collected through the gateway
    report,     \* what its analyze_incident returned, None before
    evidence,   \* the list in the fixture
    declared,   \* incident.declared_evidence_refs
    exit,       \* what the last run of rca_engine.cli returned
    out         \* the file of its --out

vars == <<via, rows, report, evidence, declared, exit, out>>

fixture == [evidence |-> evidence, declared |-> declared]

\* rca_engine.cli on a fixture: a result, or exit 2 and the old file left as it is.
Analyse(f, old) ==
    IF IntakeError(f) THEN [exit |-> 2, out |-> old]
    ELSE [exit |-> 0, out |-> run_rca(f, Catalog)]

Init ==
    /\ via \in {"file", "gateway"}
    /\ rows = <<>>
    /\ report = None
    /\ evidence = <<>>
    /\ declared \in IF via = "file" THEN Declarations ELSE {<<>>}
    /\ exit = 0
    /\ out = run_rca(fixture, Catalog)

\* An item is appended to the fixture and the engine is run again.
AddEvidence(e) ==
    LET run == Analyse([fixture EXCEPT !.evidence = Append(@, e)], out)
    IN  /\ via = "file" /\ Len(evidence) < MaxEvidence
        /\ evidence' = Append(evidence, e)
        /\ exit' = run.exit
        /\ out' = run.out
        /\ UNCHANGED <<via, rows, report, declared>>

\* A row is collected and the rows so far are analysed through the gateway, which
\* runs the engine only if one of them is evidence: until then exit and out are
\* those of a fixture without evidence, as at the start.
AddRow(row) ==
    LET f   == build_rca_fixture(Append(rows, row))
        run == Analyse(f, out)
    IN  /\ via = "gateway" /\ Len(rows) < MaxEvidence
        /\ rows' = Append(rows, row)
        /\ evidence' = f.evidence
        /\ declared' = f.declared
        /\ report' = analyze(rows', Catalog)
        /\ exit' = run.exit
        /\ out' = run.out
        /\ UNCHANGED via

Next ==
    \/ \E e \in Items : AddEvidence(e)
    \/ \E row \in Rows : AddRow(row)

Spec == Init /\ [][Next]_vars

---------------------------------------------------------------------------
Accepted == exit = 0

Confirmed(result, id) ==
    \E h \in result.hypotheses : h.rule = id /\ h.status = "CONFIRMED"

\* The item meets one of the conditions, as the rule means it: an eligible event
\* of the right domain with a scalar attribute of the right value.
Meets(e, conditions) ==
    /\ e.event_type # "RECOVERY"
    /\ \E c \in conditions : /\ c.domain \in {None, e.domain}
                             /\ c.attribute \in DOMAIN e.attributes
                             /\ e.attributes[c.attribute] = c.value

Critical(r) == {c \in r.contradicting : c.critical}

\* A cause is confirmed only if the raw evidence, whatever its order and times,
\* has no critical contradiction of its rule, two sources or a temporal proof
\* for it, and every reference declared well-formed is there
\* (hypothesis._status_and_confidence, causality.apply_evidence_completeness_gate).
ConfirmedIsUncontested ==
    Accepted => \A r \in ToSet(Catalog) : Confirmed(out, r.id) =>
        /\ ~\E e \in ToSet(evidence) : Meets(e, Critical(r))
        /\ \/ \E e \in ToSet(evidence) : Meets(e, r.temporal)
           \/ r.min_sources <= Cardinality({e.source : e \in {x \in ToSet(evidence) :
                                                Meets(x, r.supporting)}})
        /\ ToSet(declared) \subseteq Ids(ToSet(evidence)) \cup {"malformed"}

\* A recovery that comes in changes no hypothesis and no cause, unless it was a
\* declared reference that was missing (common.CAUSAL_ELIGIBLE_EVENT_TYPES:
\* "must never by itself become evidence that confirms the cause it mitigated").
RecoveryIsNoCause ==
    [][ (/\ Len(evidence') > Len(evidence)
         /\ Last(evidence').event_type = "RECOVERY"
         /\ Last(evidence').id \notin ToSet(declared)
         /\ Accepted /\ Accepted')
          => /\ out'.hypotheses = out.hypotheses
             /\ out'.root_cause = out.root_cause
             /\ out'.recommendations = out.recommendations ]_vars

Swapped(i) == [evidence EXCEPT ![i] = evidence[i + 1], ![i + 1] = evidence[i]]

\* The conclusions and the set of events do not depend on the order in which the
\* evidence was written down, so neither on the order of two neighbours (the clock
\* skew of a source is found in a pass of its own before any item is normalised).
OrderIrrelevant ==
    Accepted => \A i \in 1..(Len(evidence) - 1) :
        LET other == run_rca([fixture EXCEPT !.evidence = Swapped(i)], Catalog)
        IN  /\ other.hypotheses = out.hypotheses
            /\ other.root_cause = out.root_cause
            /\ other.recommendations = out.recommendations
            /\ ToSet(other.timeline.events) = ToSet(out.timeline.events)
            /\ other.limitations = out.limitations

\* Deduplication loses no evidence and no source: every item with a time is in
\* exactly one event, the counts add up, an event has one source, events are in the
\* order of their first item, and only items without a time are left out
\* (timeline.build_timeline).
TimelineAccountsForEvidence ==
    Accepted =>
        LET events == out.timeline.events
            timed  == {e \in ToSet(evidence) : e.time.form # "bad"}
        IN  /\ \A e \in timed : Cardinality({n \in DOMAIN events :
                                                e.id \in events[n].evidence}) = 1
            /\ UNION {ev.evidence : ev \in ToSet(events)} = {e.id : e \in timed}
            /\ \A n \in DOMAIN events :
                  /\ events[n].count = Cardinality(events[n].evidence)
                  /\ Cardinality(events[n].sources) = 1
                  /\ events[n].last_seen < events[n].utc + Window
                  /\ n > 1 => events[n - 1].utc <= events[n].utc
            /\ timed # ToSet(evidence) <=> "unparseable" \in out.limitations

\* More evidence takes a confirmation away only if it contradicts the rule, or if
\* better supported rules push the hypothesis beyond max_hypotheses, which the
\* result then says (hypothesis.generate_hypotheses).
ConfirmationIsLostForAReason ==
    [][ Accepted /\ Accepted' => \A r \in ToSet(Catalog) :
          Confirmed(out, r.id) /\ ~Confirmed(out', r.id)
          => \/ Meets(Last(evidence'), Critical(r))
             \/ r.id \in out'.truncated /\ "truncated" \in out'.limitations ]_vars

Unsupported(result) ==
    \E h \in result.hypotheses : h.status = "CONFIRMED" /\ h.supporting = {}

\* A catalog of --rules may hold text that is a command.
Unsafe(result) == \E r \in ToSet(result.recommendations) : r.text = "executable"

\* load_rules does not look at the domain of a rule.
Foreign(result) == \E h \in result.hypotheses : h.domain \notin ALLOWED_DOMAINS

\* The lists of a result that the engine does not limit, or not as the adapter does.
TooLong(result) ==
    \/ TooMany(Cardinality(DOMAIN result.manifest.declared), "refs")
    \/ TooMany(Cardinality(result.manifest.present), "refs")
    \/ TooMany(Cardinality(result.manifest.missing), "refs")
    \/ TooMany(Len(result.timeline.events), "events")
    \/ \E ev \in ToSet(result.timeline.events) : TooMany(Cardinality(ev.evidence), "ids")
    \/ TooMany(Cardinality(result.hypotheses), "hypotheses")
    \/ \E h \in result.hypotheses : \/ TooMany(Cardinality(h.supporting), "ids")
                                    \/ TooMany(Cardinality(h.contradicting), "ids")
                                    \/ TooMany(Cardinality(h.missing), "missing")
    \/ TooMany(Cardinality(result.root_cause.confirmed), "causes")
    \/ TooMany(Cardinality(result.root_cause.competing), "causes")
    \/ TooMany(Len(result.recommendations), "recommendations")

\* What the adapter refuses in the results of well-formed identifiers.
Refusable(result) ==
    Unsupported(result) \/ Unsafe(result) \/ Foreign(result) \/ TooLong(result)

\* The results the adapter cannot take although the engine produces them.
OutsideContract ==
    \/ ~IsInjective(declared_refs(fixture))
    \/ ~(ToSet(declared_refs(fixture)) \cup Ids(ToSet(evidence)) \subseteq SafeIds)
    \/ Refusable(out)

\* The two components agree on the contract: the adapter accepts every result of
\* the engine but those with an identifier of another shape, a reference declared
\* twice, a cause confirmed by temporal proof alone, an action of the catalog that
\* is a command, a rule of a domain nobody knows or a list beyond the adapter's
\* limits (schema.adapt_rca_result after engine.run_rca).  Through the gateway the
\* first two do not occur, the others are the only E_ANALYSIS_FAILED of a mapping the
\* engine knows, and a report that confirms a cause never calls a change ready.
AdapterAgrees ==
    /\ Accepted => (adapt_rca_result_error(out, Catalog) # None <=> OutsideContract)
    /\ report # None =>
         /\ report.error = "E_INSUFFICIENT_EVIDENCE" <=> evidence = <<>>
         /\ report.error = "E_ANALYSIS_FAILED" <=>
               evidence # <<>> /\ (~Accepted \/ Refusable(out))
         /\ report.error = None =>
               /\ report.confirmed = out.root_cause.confirmed
               /\ report.readiness # "READY_FOR_HUMAN_REVIEW"

\* "impossible state": no hypothesis of the engine is CONFIRMED without
\* supporting evidence (schema.py refuses one as a breach of the contract, while
\* docs/PHASE_11_RCA_EXECUTION_EVIDENCE_VALIDATION_HARDENING.md lists temporal
\* proof by itself as a way to CONFIRMED).
ConfirmedHasSupport ==
    Accepted => \A h \in out.hypotheses :
                    h.status = "CONFIRMED" => h.supporting # {} /\ ~h.unresolved
=============================================================================
