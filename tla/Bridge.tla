------------------------------- MODULE Bridge -------------------------------
(***************************************************************************)
(* mcp_gateway.bridge: from the rows a session collected to a report.  It  *)
(* numbers the rows as evidence, declares all of them, and calls the       *)
(* engine, the adapter and the advisory in turn.  A row keeps the mapping  *)
(* of its collector, None if the collector has none.                       *)
(***************************************************************************)
EXTENDS ChangeAdvisory

CONSTANT EVD    \* the identifiers EVD-1, EVD-2, ... in order

\* A report that failed tells so.
ASSUME ReportAssumption == None \notin {"E_INSUFFICIENT_EVIDENCE", "E_ANALYSIS_FAILED"}

Contributes(row) == row.rca # None /\ row.timestamp # None

\* A signature that is missing or empty is left out, and so is a mapped attribute
\* whose field the row lacks.
BridgeItem(row, n) ==
    [id         |-> EVD[n],
     domain     |-> row.rca.domain,
     source     |-> row.rca.source_id,
     event_type |-> row.rca.event_type,
     time       |-> row.timestamp,
     signature  |-> row.signature,
     attributes |-> Restrict(row.fields, row.rca.attributes \cap DOMAIN row.fields)]

\* The rows that contribute are numbered in their order.
build_rca_fixture(rows) ==
    LET used   == {i \in DOMAIN rows : Contributes(rows[i])}
        Nth(n) == CHOOSE i \in used : Cardinality({j \in used : j <= i}) = n
        ns     == 1..Cardinality(used)
    IN  [evidence |-> [n \in ns |-> BridgeItem(rows[Nth(n)], n)],
         declared |-> [n \in ns |-> EVD[n]]]

Failed(code) == [error |-> code]

\* The report: the state of the root cause and of the advisory, which has no
\* context, so nobody has declared anything for it.
Reported(view, advisory) ==
    [error        |-> None,
     confirmed    |-> view.root_cause.confirmed,
     competing    |-> view.root_cause.competing,
     completeness |-> view.root_cause.completeness,
     readiness    |-> advisory.readiness,
     changes      |-> {c.id : c \in ToSet(advisory.changes)}]

Advise(view) ==
    IF build_change_advisory_error(view, None) # None THEN Failed("E_ANALYSIS_FAILED")
    ELSE Reported(view, build_change_advisory(view, None))

Adapt(rca, rules) ==
    IF adapt_rca_result_error(rca, rules) # None THEN Failed("E_ANALYSIS_FAILED")
    ELSE Advise(adapt_rca_result(rca, rules))

AnalyzeFixture(f, rules) ==
    IF f.evidence = <<>> THEN Failed("E_INSUFFICIENT_EVIDENCE")
    ELSE IF IntakeError(f) THEN Failed("E_ANALYSIS_FAILED")
    ELSE Adapt(run_rca(f, rules), rules)

analyze(rows, rules) == AnalyzeFixture(build_rca_fixture(rows), rules)
=============================================================================
