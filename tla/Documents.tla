------------------------------ MODULE Documents ------------------------------
(***************************************************************************)
(* change_documentation_knowledge.documents: the five documents, each from *)
(* one view of an RCA result, one advisory read back from disk, or one     *)
(* assessment written by people.                                           *)
(*                                                                         *)
(* A document keeps what its readers act on: the state of the root cause,  *)
(* whether it is complete, its warnings, the changes it shows and the      *)
(* hypotheses and evidence it cites.  Layout and wording are left out; the *)
(* sections a view may leave empty are named.                              *)
(***************************************************************************)
EXTENDS ChangeAdvisory

\* Fields every document has; what its source does not have is None or empty.
_base(kind, content_status, state, warnings, changes, sources) ==
    [type           |-> "document",
     kind           |-> kind,
     content_status |-> content_status,
     state          |-> state,
     warnings       |-> warnings,
     changes        |-> changes,
     sources        |-> sources]

_source_refs(view) ==
    [hypotheses |-> RuleIds(view.hypotheses),
     evidence   |-> view.manifest.present,
     missing    |-> view.manifest.missing]

NoSources == [hypotheses |-> {}, evidence |-> {}, missing |-> {}]

\* The changes a report on a view shows: those of the advisory, if there is one.
ChangesOf(advisory) == IF advisory = None THEN <<>> ELSE advisory.changes

missing_required(view) ==
    (IF view.timeline.events = <<>> THEN {"timeline", "findings"} ELSE {})
    \cup (IF view.manifest.present = {} THEN {"evidence"} ELSE {})
    \cup (IF view.hypotheses = {} THEN {"hypotheses"} ELSE {})

build_rca_report(view, advisory) ==
    _base("rca",
          IF missing_required(view) # {} \/ view.manifest.completeness # "COMPLETE"
          THEN "PARTIAL" ELSE "COMPLETE",
          view.root_cause.completeness,
          view.warnings
          \cup (IF view.timeline.degraded THEN {"TIMELINE_CONFIDENCE_DEGRADED"} ELSE {})
          \cup (IF view.manifest.missing # {} THEN {"EVIDENCE_REFERENCES_MISSING"} ELSE {})
          \cup (IF missing_required(view) # {} THEN {"REQUIRED_SECTIONS_MISSING"} ELSE {}),
          ChangesOf(advisory),
          _source_refs(view))

build_executive_summary(view, advisory) ==
    _base("executive", "COMPLETE", view.root_cause.completeness, view.warnings,
          ChangesOf(advisory), _source_refs(view))

validate_advisory_error(advisory) ==
    FirstError(<<
        RaiseIf(advisory.type # "change_advisory", "E_INPUT_INVALID"),
        RaiseIf(advisory.digest # AdvisoryDigest(advisory), "E_INPUT_INVALID")>>)

build_change_report(advisory) ==
    _base("change",
          IF advisory.changes # <<>> THEN "COMPLETE" ELSE "PARTIAL",
          advisory.rca_state,
          advisory.warnings \cup (IF advisory.changes = <<>>
                                  THEN {"NO_CHANGE_PROPOSALS_IN_ADVISORY"} ELSE {}),
          advisory.changes,
          NoSources)

parse_assessment_error(a) ==
    FirstError(<<
        RaiseIf(\E i \in DOMAIN a.findings : a.findings[i].domain \notin ALLOWED_DOMAINS,
                "E_INPUT_INVALID"),
        RaiseIf(\E i, j \in DOMAIN a.findings : i # j /\ a.findings[i].id = a.findings[j].id,
                "E_REFERENCE")>>)

build_assessment_report(a) ==
    _base("assessment",
          IF a.findings # <<>> /\ a.coverage # <<>> THEN "COMPLETE" ELSE "PARTIAL",
          None,
          (IF "UNKNOWN" \in ToSet(a.coverage) THEN {"COVERAGE_UNKNOWN_PRESENT"} ELSE {})
          \cup (IF a.findings = <<>> THEN {"NO_FINDINGS_PROVIDED"} ELSE {}),
          <<>>,
          [NoSources EXCEPT !.evidence = UNION {a.findings[i].evidence : i \in DOMAIN a.findings}])

\* No file and a file without any entry are the same: nothing was reported.
parse_review_input(review) == IF review = None THEN {} ELSE review

build_post_incident_review(view, review) ==
    LET silent == parse_review_input(review) = {}
    IN  _base("post-incident",
              IF silent THEN "PARTIAL" ELSE "COMPLETE",
              view.root_cause.completeness,
              view.warnings \cup (IF silent THEN {"REVIEW_INPUT_NOT_PROVIDED"} ELSE {}),
              <<>>,
              _source_refs(view))
=============================================================================
