--------------------------- MODULE ChangeAdvisory ---------------------------
(***************************************************************************)
(* change_documentation_knowledge: the adapter that accepts or refuses a   *)
(* result of rca_engine (schema.adapt_rca_result), the advisory built from *)
(* it (change.build_change_advisory) and the governance report of a change *)
(* of the e-stack itself (change.build_estack_change).                     *)
(*                                                                         *)
(* A function of the code that raises AdvisoryError is an operator for the *)
(* error, None if there is none, and one for the value.  The change        *)
(* CHG-<incident>-NNN is <<"CHG", NNN>>.                                   *)
(***************************************************************************)
EXTENDS RcaEngine

CONSTANTS
    SafeIds,        \* evidence identifiers with the prefix EVD that is_safe_id asks for
    AdapterLimits   \* how many elements the adapter takes in a list of a result

\* An error is not the absence of one.
ASSUME ErrorAssumption ==
    None \notin {"E_INPUT_INVALID", "E_RCA_CONTRACT", "E_REFERENCE", "E_UNSAFE_CONTENT",
                 "E_AUTH_INVALID", "E_AUTH_DIGEST_MISMATCH", "E_AUTH_SELF_APPROVAL",
                 "E_TRANSITION_DENIED"}

\* In the code 500 refs and events, 200 ids, 100 hypotheses and recommendations, 50
\* causes and sources, 30 missing and limitations, 20 domains.  The limits of the
\* degradation reasons (the engine has three), of count and of the number of sources
\* (at most the ids) cannot be met and are left out.
LimitedLists ==
    {"refs", "events", "ids", "sources", "hypotheses", "missing", "causes",
     "recommendations", "limitations", "domains"}

\* An event has one source, there are five limitations, and the domains are those
\* of the engine.
ASSUME LimitsAssumption ==
    /\ AdapterLimits \in [LimitedLists -> Nat]
    /\ AdapterLimits["sources"] >= 1
    /\ AdapterLimits["limitations"] >= 5
    /\ AdapterLimits["domains"] >= Cardinality(ALLOWED_DOMAINS)

TooMany(n, list) == n > AdapterLimits[list]

FirstError(errors) ==
    LET raised == {i \in DOMAIN errors : errors[i] # None}
    IN  IF raised = {} THEN None ELSE errors[CHOOSE i \in raised : \A j \in raised : i <= j]

RaiseIf(condition, code) == IF condition THEN code ELSE None

---------------------------------------------------------------------------
(* schema: the view of an RCA result *)

\* id_list: too long, repeated or misshapen; what is a set here repeats nothing.
ManifestError(m) ==
    FirstError(<<
        RaiseIf(\/ ~IsInjective(m.declared)
                \/ TooMany(Cardinality(DOMAIN m.declared), "refs")
                \/ TooMany(Cardinality(m.present), "refs")
                \/ TooMany(Cardinality(m.missing), "refs"), "E_INPUT_INVALID"),
        RaiseIf(~(ToSet(m.declared) \cup m.present \subseteq SafeIds), "E_INPUT_INVALID"),
        RaiseIf(\/ m.missing \cap m.present # {}
                \/ m.completeness = "COMPLETE" /\ m.missing # {}, "E_RCA_CONTRACT")>>)

\* A certified signature is classified again, by the catalog of now.
EventError(ev, certified) ==
    FirstError(<<
        RaiseIf(\/ ev.domain \notin ALLOWED_DOMAINS
                \/ ev.event_type \notin ALL_EVENT_TYPES
                \/ /\ ev.signature.status = "CERTIFIED"
                   /\ classify_signature(ev.signature.canonical, certified).status
                          # "CERTIFIED"
                \/ ev.signature.status # "CERTIFIED" /\ ev.signature.canonical # None,
                "E_RCA_CONTRACT"),
        RaiseIf(TooMany(Cardinality(ev.sources), "sources"), "E_INPUT_INVALID"),
        RaiseIf(\E s \in ev.sources : s.token # "SRC", "E_RCA_CONTRACT"),
        RaiseIf(\/ TooMany(Cardinality(ev.evidence), "ids")
                \/ ~(ev.evidence \subseteq SafeIds), "E_INPUT_INVALID")>>)

_adapt_timeline_error(timeline, rules) ==
    LET events    == timeline.events
        certified == collect_certified_signatures(rules)
    IN  IF TooMany(Len(events), "events") THEN "E_INPUT_INVALID"
        ELSE FirstError([i \in DOMAIN events |-> EventError(events[i], certified)])

HypothesisError(h, rules, known_evidence) ==
    IF h.rule \notin {r.id : r \in ToSet(rules)} THEN "E_REFERENCE"
    ELSE FirstError(<<
        RaiseIf(\/ h.domain # RuleOf(rules, h.rule).domain
                \/ h.domain \notin ALLOWED_DOMAINS, "E_RCA_CONTRACT"),
        RaiseIf(\/ TooMany(Cardinality(h.supporting), "ids")
                \/ TooMany(Cardinality(h.contradicting), "ids")
                \/ ~(h.supporting \cup h.contradicting \subseteq SafeIds), "E_INPUT_INVALID"),
        RaiseIf(~(h.supporting \cup h.contradicting \subseteq known_evidence), "E_REFERENCE"),
        RaiseIf(h.status = "CONFIRMED" /\ (h.unresolved \/ h.supporting = {}),
                "E_RCA_CONTRACT"),
        RaiseIf(TooMany(Cardinality(h.missing), "missing"), "E_INPUT_INVALID")>>)

HypothesesError(hypotheses, rules, known_evidence) ==
    LET ranked == Ranked(hypotheses)
    IN  IF TooMany(Cardinality(hypotheses), "hypotheses") THEN "E_INPUT_INVALID"
        ELSE FirstError([i \in DOMAIN ranked |->
                 HypothesisError(ranked[i], rules, known_evidence)])

RootCauseError(rca) ==
    LET rc == rca.root_cause
    IN  FirstError(<<
        RaiseIf(\/ TooMany(Cardinality(rc.confirmed), "causes")
                \/ TooMany(Cardinality(rc.competing), "causes"), "E_INPUT_INVALID"),
        RaiseIf(~(rc.confirmed \cup rc.competing \subseteq RuleIds(rca.hypotheses)),
                "E_REFERENCE"),
        RaiseIf(rc.completeness = "CONFIRMED" /\
                    (\/ rc.confirmed = {}
                     \/ \E h \in rca.hypotheses :
                            h.rule \in rc.confirmed /\ h.status # "CONFIRMED"
                     \/ rca.manifest.completeness = "INCOMPLETE_REFS"), "E_RCA_CONTRACT"),
        RaiseIf(/\ rc.completeness \in {"INCONCLUSIVE", "INSUFFICIENT_EVIDENCE"}
                /\ rc.confirmed # {}, "E_RCA_CONTRACT")>>)

\* The recommendations and what is read after them.
ClosingError(rca) ==
    FirstError(<<
        RaiseIf(TooMany(Len(rca.recommendations), "recommendations"), "E_INPUT_INVALID"),
        RaiseIf(\E r \in ToSet(rca.recommendations) : r.text = "executable",
                "E_UNSAFE_CONTENT"),
        RaiseIf(TooMany(Cardinality(rca.limitations), "limitations"), "E_INPUT_INVALID"),
        RaiseIf(TooMany(Cardinality(rca.domains), "domains"), "E_INPUT_INVALID")>>)

adapt_rca_result_error(rca, rules) ==
    LET known == rca.manifest.present
                 \cup UNION {ev.evidence : ev \in ToSet(rca.timeline.events)}
    IN  FirstError(<<
            ManifestError(rca.manifest),
            _adapt_timeline_error(rca.timeline, rules),
            HypothesesError(rca.hypotheses, rules, known),
            RootCauseError(rca),
            ClosingError(rca)>>)

CatalogActions(rules) ==
    UNION {{<<r.id, a.summary>> : a \in ToSet(r.actions)} : r \in ToSet(rules)}

\* The first action of the catalog with that summary is this one.
CATALOGUED(rec, rules) ==
    LET all  == FlattenSeq([i \in DOMAIN rules |-> rules[i].actions])
        same == SelectSeq(all, LAMBDA a : a.summary = rec.summary)
    IN  same # <<>> /\ same[1].postcheck = rec.postcheck /\ same[1].text = rec.text

\* Hypotheses whose rule, in the catalog of now, has this very action.
hypothesis_refs(rec, hypotheses, rules) ==
    {h.rule : h \in {x \in hypotheses :
                        /\ x.status \in {"CONFIRMED", "SUPPORTED"}
                        /\ <<x.rule, rec.summary>> \in CatalogActions(rules)}}

adapt_rca_result(rca, rules) ==
    [hypotheses |-> rca.hypotheses,
     root_cause |-> rca.root_cause,
     manifest   |-> rca.manifest,
     timeline   |-> rca.timeline,
     findings   |-> [i \in DOMAIN rca.timeline.events |-> rca.timeline.events[i].evidence],
     recommendations |->
         [i \in DOMAIN rca.recommendations |->
             [action |-> rca.recommendations[i],
              refs   |-> hypothesis_refs(rca.recommendations[i], rca.hypotheses, rules)]],
     domains    |-> rca.domains \cap ALLOWED_DOMAINS,
     warnings   |-> IF \E r \in ToSet(rca.recommendations) : ~CATALOGUED(r, rules)
                    THEN {"RECOMMENDATION_TEXT_NOT_IN_RULES_CATALOG"} ELSE {},
     limitations |-> rca.limitations]

---------------------------------------------------------------------------
(* change: one proposal per recommendation *)

GATES == {"capability", "license", "privilege", "change_window"}
GateStatuses == {"PASS", "FAIL", "UNKNOWN", "NOT_APPLICABLE", "NOT_VERIFIED"}
NON_BLOCKING == {"PASS", "NOT_APPLICABLE"}

\* The context of an advisory; gates is a partial function, and a gate nobody
\* declared is UNKNOWN.
EmptyContext ==
    [gates |-> [g \in GATES |-> "UNKNOWN"], proposers |-> {}, reports |-> <<>>,
     authorizations |-> <<>>]

parse_change_context_error(ctx) ==
    IF ctx = None THEN None
    ELSE RaiseIf(\/ ~(DOMAIN ctx.gates \subseteq GATES)
                 \/ \E g \in DOMAIN ctx.gates : ctx.gates[g] \notin GateStatuses,
                 "E_INPUT_INVALID")

parse_change_context(ctx) ==
    IF ctx = None THEN EmptyContext
    ELSE [ctx EXCEPT !.gates = [g \in GATES |-> IF g \in DOMAIN @ THEN @[g] ELSE "UNKNOWN"]]

\* DOMAIN_GUIDANCE; every domain has rollback steps.
license_dependent(domain) == domain \in {"dataguard", "performance"}
breadth(domain) ==
    IF domain \in {"rac", "asm", "dataguard", "network", "security"} THEN "HIGH" ELSE "MEDIUM"

_risk_factors(view, rec, domain, contradicting) ==
    [causal_basis |-> CASE view.root_cause.completeness = "CONFIRMED" -> "LOW"
                        [] view.root_cause.completeness = "PROBABLE" -> "MEDIUM"
                        [] OTHER -> "HIGH",
     evidence_completeness |-> IF view.manifest.completeness # "COMPLETE" THEN "HIGH" ELSE "LOW",
     contradicting_evidence |-> IF contradicting # {} THEN "MEDIUM" ELSE "LOW",
     service_interruption |-> CASE rec.action.text = "disruptive" -> "HIGH"
                                [] rec.action.requires_change -> "MEDIUM"
                                [] OTHER -> "LOW",
     topology_breadth |-> breadth(domain),
     licensing |-> IF license_dependent(domain) THEN "UNKNOWN" ELSE None]

\* Fault: the licence of a licensed domain may be declared not applicable.
_gate_view_AsDeclared(gates, domain) == gates

_gate_view(gates, domain) ==
    IF license_dependent(domain) /\ gates["license"] = "NOT_APPLICABLE"
    THEN [gates EXCEPT !["license"] = "UNKNOWN"]
    ELSE gates

blockers(gates, rec, supporting) ==
    {g \in GATES : gates[g] = "FAIL"}
    \cup (IF supporting = {} THEN {"NO_EVIDENCE_REFS"} ELSE {})
    \cup (IF ~rec.action.postcheck THEN {"VALIDATION_MISSING"} ELSE {})

review_reasons(view, gates) ==
    {g \in GATES : gates[g] \notin NON_BLOCKING \cup {"FAIL"}}
    \cup (IF view.root_cause.completeness # "CONFIRMED" THEN {"CAUSE_NOT_CONFIRMED"} ELSE {})
    \cup (IF view.manifest.completeness # "COMPLETE" THEN {"EVIDENCE_INCOMPLETE"} ELSE {})

_readiness(blocking, reviewing, supporting) ==
    IF supporting = {} THEN "INSUFFICIENT_EVIDENCE"
    ELSE IF blocking # {} THEN "BLOCKED"
    ELSE IF reviewing # {} THEN "REVIEW_REQUIRED"
    ELSE "READY_FOR_HUMAN_REVIEW"

\* _steps: a precheck of the engine's, the catalog's precheck and action, and
\* its postcheck if there is one.
_steps(rec) ==
    <<"PRECHECK", "PRECHECK", "MANUAL_ACTION">>
    \o (IF rec.action.postcheck THEN <<"POSTCHECK">> ELSE <<>>)

\* The hypotheses a recommendation is linked to, the first one giving the domain:
\* by identifier, or all the confirmed ones, in the order of the ranking.
\* Recommendations come from confirmed hypotheses only, so there is one.
Linked(view, rec) ==
    IF rec.refs # {}
    THEN LET sorted == SetToSortSeq(rec.refs, <)
         IN  [i \in DOMAIN sorted |->
                 CHOOSE h \in view.hypotheses : h.rule = sorted[i]]
    ELSE Ranked({h \in view.hypotheses : h.rule \in view.root_cause.confirmed})

\* The change for a recommendation, with its linked hypotheses and its gates.
Change(view, rec, n, linked, gates) ==
    LET domain     == linked[1].domain
        supporting == UNION {h.supporting : h \in ToSet(linked)}
        contradicting == UNION {h.contradicting : h \in ToSet(linked)}
        blocking   == blockers(gates, rec, supporting)
        reviewing  == review_reasons(view, gates)
        readiness  == _readiness(blocking, reviewing, supporting)
    IN  [id         |-> <<"CHG", n>>,
         status     |-> IF readiness \in {"BLOCKED", "INSUFFICIENT_EVIDENCE"}
                        THEN "DRAFT" ELSE "REVIEW_REQUIRED",
         readiness  |-> readiness,
         blockers   |-> blocking,
         review_reasons |-> reviewing,
         hypotheses |-> {h.rule : h \in ToSet(linked)},
         findings   |-> {i \in DOMAIN view.findings : view.findings[i] \cap supporting # {}},
         evidence   |-> supporting,
         rca_state  |-> view.root_cause.completeness,
         domain     |-> domain,
         objective  |-> rec.action.summary,
         steps      |-> _steps(rec),
         risk       |-> _risk_factors(view, rec, domain, contradicting),
         gates      |-> gates,
         approval   |-> None,
         report     |-> None]

Artifact(c) == [f \in DOMAIN c \ {"status", "approval", "report"} |-> c[f]]

\* Fault: the digest covers what is proposed, not what it rests on.
content_digest_OfProposal(c) ==
    [f \in DOMAIN Artifact(c) \cap {"id", "domain", "objective", "steps", "proposer"} |-> c[f]]

\* SHA-256 of everything but the fields a decision changes.
content_digest(c) == Artifact(c)

---------------------------------------------------------------------------
(* declarations by people, and the advisory *)

verify_authorization_error(a, decision, artifact, digest, proposers) ==
    FirstError(<<
        RaiseIf(a.decision # decision, "E_AUTH_INVALID"),
        RaiseIf(a.artifact # artifact \/ a.digest # digest, "E_AUTH_DIGEST_MISMATCH"),
        RaiseIf(a.reviewer \in proposers, "E_AUTH_SELF_APPROVAL")>>)

\* One record of human_authorizations, applied to the changes so far.
AuthorizationError(changes, a, proposers) ==
    IF a.artifact \notin {c.id : c \in ToSet(changes)} THEN "E_REFERENCE"
    ELSE LET chg == changes[a.artifact[2]]
         IN  FirstError(<<
                 RaiseIf(/\ a.decision # "REJECTED"
                         /\ chg.readiness \in {"BLOCKED", "INSUFFICIENT_EVIDENCE"},
                         "E_TRANSITION_DENIED"),
                 verify_authorization_error(a, a.decision, chg.id, content_digest(chg),
                                            proposers)>>)

\* The last of the records on change n.
LastOn(records, n) ==
    {i \in DOMAIN records :
        /\ records[i].artifact[2] = n
        /\ \A j \in DOMAIN records : records[j].artifact[2] = n => j <= i}

\* Change n after all records: a later one overwrites what an earlier one left.
Authorize(c, n, records) ==
    LET a == records[CHOOSE i \in LastOn(records, n) : TRUE]
    IN  IF LastOn(records, n) = {} THEN c
        ELSE [c EXCEPT !.status = IF a.decision = "REJECTED" THEN "REJECTED"
                                  ELSE "APPROVED_BY_HUMAN",
                       !.approval = a]

Report(c, n, reports) ==
    [c EXCEPT !.report = IF n \in ToSet(reports) THEN "HUMAN_REPORTED" ELSE @]

actionable(view) == view.root_cause.completeness \in {"CONFIRMED", "PROBABLE"}

Proposing(view, rec) == actionable(view) /\ rec.action.requires_change

\* The changes a view proposes before any declaration, CHG-NNN in order.
Proposals(view, context) ==
    LET proposing == SelectSeq(view.recommendations, LAMBDA r : Proposing(view, r))
        ChangeOf(rec, n, linked) ==
            Change(view, rec, n, linked, _gate_view(context.gates, linked[1].domain))
    IN  [n \in DOMAIN proposing |-> ChangeOf(proposing[n], n, Linked(view, proposing[n]))]

build_change_advisory_error(view, context_raw) ==
    IF parse_change_context_error(context_raw) # None
    THEN parse_change_context_error(context_raw)
    ELSE LET context  == parse_change_context(context_raw)
             proposed == Proposals(view, context)
         IN  IF ~(ToSet(context.reports) \subseteq DOMAIN proposed) THEN "E_REFERENCE"
             ELSE FirstError([i \in DOMAIN context.authorizations |->
                      AuthorizationError(proposed, context.authorizations[i],
                                         context.proposers)])

Rank == [INSUFFICIENT_EVIDENCE |-> 0, BLOCKED |-> 1, REVIEW_REQUIRED |-> 2,
         READY_FOR_HUMAN_REVIEW |-> 3]

\* The digest of an advisory covers the decisions shown in its changes too.
AdvisoryDigest(advisory) == [advisory EXCEPT !.digest = None]

\* The advisory on a list of changes; it is as ready as the least ready of them.
Advisory(view, changes) ==
    LET worst == CHOOSE c \in ToSet(changes) :
                     \A d \in ToSet(changes) : Rank[c.readiness] <= Rank[d.readiness]
    IN  [type      |-> "change_advisory",
         digest    |-> None,
         changes   |-> changes,
         notes     |-> {i \in DOMAIN view.recommendations :
                           ~Proposing(view, view.recommendations[i])},
         rca_state |-> view.root_cause.completeness,
         readiness |-> IF changes # <<>> THEN worst.readiness
                       ELSE IF actionable(view) THEN "REVIEW_REQUIRED" ELSE "INSUFFICIENT_EVIDENCE",
         warnings  |-> view.warnings
                       \cup (IF ~actionable(view) THEN {"RCA_NOT_CONFIRMED_NO_CAUSE_ASSERTED"} ELSE {})
                       \cup (IF actionable(view) /\ changes = <<>>
                             THEN {"NO_CHANGE_REQUIRED_BY_RECOMMENDATIONS"} ELSE {})]

Sealed(advisory) == [advisory EXCEPT !.digest = AdvisoryDigest(advisory)]

build_change_advisory(view, context_raw) ==
    LET context  == parse_change_context(context_raw)
        proposed == Proposals(view, context)
    IN  Sealed(Advisory(view, [n \in DOMAIN proposed |->
            Authorize(Report(proposed[n], n, context.reports), n, context.authorizations)]))

---------------------------------------------------------------------------
(* change: governance of a change of the e-stack *)

ESTACK_WORKFLOW_STAGES ==
    <<"DETECT_GAP", "CHANGE_REQUEST", "GAP_ANALYSIS", "IMPACT_ANALYSIS", "PROPOSAL",
      "IMPLEMENT", "TEST", "SECURITY_VALIDATION", "REGRESSION_VALIDATION", "DOCUMENT",
      "HUMAN_REVIEW", "PROMOTE">>
HUMAN_REVIEW == 11
PROMOTE == 12
ESTACK_COMPAT_CHECKS ==
    {"version_coverage", "query_contract", "dictionary_columns", "architecture",
     "cost_and_license", "test_coverage"}

failed(stages) == {ESTACK_WORKFLOW_STAGES[i] : i \in {j \in DOMAIN stages : stages[j] = "FAIL"}}

\* Fault: a check nobody made counts as passed.
governance_state_UnknownPasses(req) ==
    IF failed(req.stages) \cap {"SECURITY_VALIDATION", "REGRESSION_VALIDATION"} # {}
    THEN "RETURNED_TO_PROPOSAL"
    ELSE IF /\ \A i \in 1..(HUMAN_REVIEW - 1) : req.stages[i] = "PASS"
            /\ failed(req.stages) = {}
            /\ \A c \in ESTACK_COMPAT_CHECKS : req.compatibility[c] # "FAIL"
    THEN "PENDING_HUMAN_REVIEW"
    ELSE IF failed(req.stages) = {} THEN "IN_PROGRESS" ELSE "BLOCKED"

governance_state(req) ==
    IF failed(req.stages) \cap {"SECURITY_VALIDATION", "REGRESSION_VALIDATION"} # {}
    THEN "RETURNED_TO_PROPOSAL"
    ELSE IF /\ \A i \in 1..(HUMAN_REVIEW - 1) : req.stages[i] = "PASS"
            /\ failed(req.stages) = {}
            /\ \A c \in ESTACK_COMPAT_CHECKS : req.compatibility[c] = "PASS"
    THEN "PENDING_HUMAN_REVIEW"
    ELSE IF failed(req.stages) = {} THEN "IN_PROGRESS" ELSE "BLOCKED"

EstackChange(req) ==
    [id         |-> <<"CHG", 0>>,
     status     |-> IF governance_state(req) = "PENDING_HUMAN_REVIEW"
                    THEN "REVIEW_REQUIRED" ELSE "DRAFT",
     governance |-> governance_state(req),
     proposer   |-> req.proposer,
     stages     |-> req.stages,
     compatibility |-> req.compatibility,
     approval   |-> None]

build_estack_change_error(req) ==
    FirstError(<<
        RaiseIf(req.stages[PROMOTE] # "NOT_RUN", "E_TRANSITION_DENIED"),
        RaiseIf(\E i, j \in DOMAIN req.stages :
                    i < j /\ req.stages[i] # "PASS" /\ req.stages[j] = "PASS",
                "E_INPUT_INVALID"),
        IF req.authorization = None THEN None
        ELSE IF governance_state(req) # "PENDING_HUMAN_REVIEW" THEN "E_TRANSITION_DENIED"
        ELSE verify_authorization_error(req.authorization, "APPROVED", <<"CHG", 0>>,
                                        content_digest(EstackChange(req)), {req.proposer})>>)

build_estack_change(req) ==
    [type   |-> "estack_change_governance",
     change |-> IF req.authorization = None THEN EstackChange(req)
                ELSE [EstackChange(req) EXCEPT !.status = "APPROVED_BY_HUMAN",
                                               !.approval = req.authorization]]
=============================================================================
