---------------------------- MODULE MCAdviceFlow ----------------------------
(***************************************************************************)
(* Two rules and three incidents: one confirmed with two items, the same   *)
(* with a third one, and one with a reference missing.  The second catalog *)
(* is the first without its second rule.                                   *)
(***************************************************************************)
EXTENDS AdviceFlow

For(d, a, v) == [domain |-> d, attribute |-> a, value |-> v]

Action(s, text) == [summary |-> s, requires_change |-> TRUE, postcheck |-> TRUE, text |-> text]

Limit == [id |-> 1, domain |-> "os", signature_any |-> {"ORA-27300"}, event_type_any |-> {},
          supporting |-> {For("os", "nproc", "high")}, contradicting |-> {}, temporal |-> {},
          min_sources |-> 2, actions |-> <<Action("raise limit", "disruptive")>>]

Latency == [id |-> 2, domain |-> "performance", signature_any |-> {"HIGH_READ"},
            event_type_any |-> {}, supporting |-> {For("performance", "read", "high")},
            contradicting |-> {}, temporal |-> {}, min_sources |-> 1,
            actions |-> <<Action("move files", "plain")>>]

MCCatalogs == {<<Limit, Latency>>, <<Limit>>}

Item(id, d, s, sig, attrs) ==
    [id |-> id, domain |-> d, source |-> s, event_type |-> "SYMPTOM_OBSERVED",
     time |-> [form |-> "utc", at |-> 1], signature |-> sig, attributes |-> attrs]

E1 == Item("E1", "os", "s1", "ORA-27300", [nproc |-> "high"])
E2 == Item("E2", "os", "s2", "ORA-27300", [nproc |-> "high"])
E3 == Item("E3", "os", "s3", "ORA-27300", [nproc |-> "high"])
E4 == Item("E4", "performance", "s1", "HIGH_READ", [read |-> "high"])

MCFixtures == {
    [evidence |-> <<E1, E2>>, declared |-> <<>>],
    [evidence |-> <<E1, E2, E3>>, declared |-> <<>>],
    [evidence |-> <<E4>>, declared |-> <<"E4">>],
    [evidence |-> <<E1, E2>>, declared |-> <<"E9">>]}

MCSafeIds == {"E1", "E2", "E3", "E4", "E9"}

\* Beyond what these incidents need.
MCAdapterLimits == [list \in LimitedLists |-> 20]

\* A context with every gate, one that names two of them, and one refused.
MCContexts == {
    [gates |-> [g \in GATES |-> IF g = "license" THEN "NOT_APPLICABLE" ELSE "PASS"],
     proposers |-> {"r1"}, reports |-> <<>>],
    [gates |-> [license |-> "PASS", change_window |-> "FAIL"], proposers |-> {}, reports |-> <<1>>],
    [gates |-> [license |-> "GRANTED"], proposers |-> {}, reports |-> <<>>]}

Stages(n, rest) == [i \in 1..12 |-> IF i <= n THEN "PASS" ELSE IF i = n + 1 THEN rest ELSE "NOT_RUN"]
Compatible == [c \in ESTACK_COMPAT_CHECKS |-> "PASS"]

Request(stages, compatibility) ==
    [stages |-> stages, compatibility |-> compatibility, proposer |-> "r1"]

MCRequests == {
    Request(Stages(10, "NOT_RUN"), Compatible),
    Request(Stages(10, "NOT_RUN"), [Compatible EXCEPT !["architecture"] = "UNKNOWN"]),
    Request(Stages(7, "FAIL"), Compatible),
    Request(Stages(11, "PASS"), Compatible)}

Finding(id) == [id |-> id, domain |-> "os", evidence |-> {"E1"}]

MCAssessments == {
    [findings |-> <<>>, coverage |-> <<"UNKNOWN">>],
    [findings |-> <<Finding("F1")>>, coverage |-> <<"SUPPORTED">>],
    [findings |-> <<Finding("F1"), Finding("F1")>>, coverage |-> <<"SUPPORTED">>]}

MCReviews == {None, {"lesson"}}

\* The properties are invariants and name no directory but the managed ones.
Symmetry == Permutations(Dirs \ Managed)
=============================================================================
