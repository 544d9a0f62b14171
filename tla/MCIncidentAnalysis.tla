------------------------- MODULE MCIncidentAnalysis -------------------------
(***************************************************************************)
(* Rules cut from the default catalog: process limit (with temporal proof),*)
(* its cgroup variant, storage latency, and one that matches an event type *)
(* and has a domain the engine does not know.                              *)
(***************************************************************************)
EXTENDS IncidentAnalysis

For(d, a, v) == [domain |-> d, attribute |-> a, value |-> v]
Against(d, a, v, c) == [domain |-> d, attribute |-> a, value |-> v, critical |-> c]

Action(s, change, text) ==
    [summary |-> s, requires_change |-> change, postcheck |-> TRUE, text |-> text]

MCCatalog == <<
    [id |-> 1, domain |-> "os", signature_any |-> {"ORA-27300"}, event_type_any |-> {},
     supporting |-> {For("os", "nproc", "high"), For(None, "fork", "yes")},
     contradicting |-> {Against("os", "nproc", "low", TRUE)},
     temporal |-> {For("os", "stopped", "yes")}, min_sources |-> 2,
     actions |-> <<Action("raise limit", TRUE, "disruptive")>>],
    [id |-> 2, domain |-> "os", signature_any |-> {"ORA-27300"}, event_type_any |-> {},
     supporting |-> {For("os", "pids", "high")},
     contradicting |-> {}, temporal |-> {}, min_sources |-> 2,
     actions |-> <<Action("raise limit", TRUE, "disruptive"),
                   Action("run script", FALSE, "executable")>>],
    [id |-> 3, domain |-> "performance", signature_any |-> {"HIGH_READ"}, event_type_any |-> {},
     supporting |-> {For("performance", "read", "high")},
     contradicting |-> {Against("os", "wait", "low", TRUE),
                        Against("network", "mtu", "bad", FALSE)},
     temporal |-> {}, min_sources |-> 1,
     actions |-> <<Action("move files", TRUE, "plain"), Action("look", FALSE, "plain")>>],
    [id |-> 4, domain |-> "storage", signature_any |-> {}, event_type_any |-> {"CONFIG_CHANGE"},
     supporting |-> {For("network", "mtu", "bad")},
     contradicting |-> {}, temporal |-> {}, min_sources |-> 2, actions |-> <<>>]>>

Item(id, d, s, t, form, at, sig, attrs) ==
    [id |-> id, domain |-> d, source |-> s, event_type |-> t,
     time |-> [form |-> form, at |-> at], signature |-> sig, attributes |-> attrs]

MCItems == {
    Item("E1", "os", "s1", "SYMPTOM_OBSERVED", "utc", 1, "ORA-27300", [nproc |-> "high"]),
    Item("E2", "os", "s2", "SYMPTOM_OBSERVED", "utc", 0, "ORA-27300",
         [fork |-> "yes", source_clock_offset_seconds |-> "beyond"]),
    Item("E3", "os", "s2", "INVESTIGATION_STEP", "naive", 1, "ORA-27300",
         [stopped |-> "yes", host |-> "text"]),
    Item("E4", "os", "s1", "SYMPTOM_OBSERVED", "utc", 0, "ORA-27300",
         [pids |-> "high", nproc |-> "text"]),
    Item("E5", "os", "s3", "RECOVERY", "utc", 1, "ORA-27300",
         [stopped |-> "yes", fork |-> "yes", wait |-> "low"]),
    Item("E6", "network", "s3", "CONFIG_CHANGE", "bad", 0, "SOME_TEXT",
         [mtu |-> "bad", fork |-> "yes"]),
    Item("E7", "performance", "s1", "ALERT_TRIGGERED", "utc", 2, "HIGH_READ",
         [read |-> "high"]),
    Item("E8", "os", "s3", "INVESTIGATION_STEP", "utc", 1, None,
         [nproc |-> "low", wait |-> "low"]),
    Item("E1", "os", "s2", "CAPACITY_EVENT", "utc", 2, None, [pids |-> "high"]),
    Item("LOG-1", "storage", "s1", "SYMPTOM_OBSERVED", "utc", 2, None, [pids |-> "high"]),
    Item("LOG-2", "os", "s2", "SYMPTOM_OBSERVED", "utc", 1, None, [pids |-> "high"])}

Mapping(d, s, t, keys) ==
    [domain |-> d, source_id |-> s, event_type |-> t, attributes |-> keys]

Limits == Mapping("os", "s1", "SYMPTOM_OBSERVED", {"nproc", "fork", "pids"})
Alert  == Mapping("os", "s2", "SYMPTOM_OBSERVED", {"pids", "fork", "stopped"})
Reads  == Mapping("performance", "s1", "ALERT_TRIGGERED", {"read"})
Restarts == Mapping("os", "s3", "RECOVERY", {"stopped", "wait"})
Mistyped == Mapping("storage", "s3", "SYMPTOM_OBSERVED", {"pids"})

Collected(rca, timestamp, sig, fields) ==
    [rca |-> rca, timestamp |-> timestamp, signature |-> sig, fields |-> fields]

At(n) == [form |-> "utc", at |-> n]

MCRows == {
    Collected(Limits, At(1), "ORA-27300", [nproc |-> "high", user |-> "text"]),
    Collected(Limits, At(0), "ORA-27300", [nproc |-> "low"]),
    Collected(Limits, At(1), "ORA-27300", [pids |-> "high"]),
    Collected(Alert, At(2), "ORA-27300", [pids |-> "high"]),
    Collected(Limits, None, "ORA-27300", [nproc |-> "high"]),
    Collected(Alert, At(1), "ORA-27300", [fork |-> "yes"]),
    Collected(Alert, At(2), "ORA-27300", [stopped |-> "yes"]),
    Collected(Reads, At(2), "HIGH_READ", [read |-> "high"]),
    Collected(Restarts, At(1), None, [stopped |-> "yes", wait |-> "low"]),
    Collected(Mistyped, At(1), None, [pids |-> "high"]),
    Collected(None, At(1), None, <<>>)}

MCEvd == <<"E1", "E2", "E3">>
MCSafeIds == {"E1", "E2", "E3", "E4", "E5", "E6", "E7", "E8", "E9"}
MCDeclarations == {<<>>, <<"E2", "malformed">>, <<"E5">>, <<"E1", "E1">>, <<"E9">>,
                    <<"E5", "E6", "E7", "E8">>}

\* Limits that a few items exceed.
MCAdapterLimits ==
    [refs |-> 3, events |-> 2, ids |-> 2, sources |-> 1, hypotheses |-> 2, missing |-> 2,
     causes |-> 2, recommendations |-> 2, limitations |-> 5, domains |-> 11]
=============================================================================
