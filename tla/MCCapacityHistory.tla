-------------------------- MODULE MCCapacityHistory --------------------------
(***************************************************************************)
(* One resource over six days of two slots, of capacity 10 and later 20,   *)
(* and a unit of two bytes besides the byte.                               *)
(***************************************************************************)
EXTENDS CapacityHistory

Sample(at, total, used) ==
    [complete |-> TRUE, target |-> "t", at |-> at, resource |-> "storage", unit |-> "b",
     total |-> total, used |-> used, percent |-> None]

MCSamples == {
    Sample(0, 20, 6), Sample(0, 10, 2), Sample(2, 10, 4), Sample(3, 10, 8), Sample(4, 10, 4), Sample(6, 10, 10),
    Sample(6, 20, 10), Sample(8, 20, 12), Sample(10, 20, 18),
    [Sample(4, 5, None) EXCEPT !.unit = "k", !.percent = 80],
    [Sample(2, 10, 6) EXCEPT !.unit = "odd"],
    [Sample(4, 10, 6) EXCEPT !.resource = "cpu", !.unit = "percent"],
    Sample(8, 10, 11), Sample(10, 0, 0), Sample(None, 10, 6),
    Sample(2, 10, NaN)}

\* A capacity that grows by 0.4 % a day.
MCDrift == {Sample(0, 1000, 500), Sample(2, 1004, 500), Sample(4, 1008, 500)}

MCFactors == [b |-> 1, k |-> 2]
MCHorizonDays == [m1 |-> 1, m3 |-> 3, m6 |-> 6]

MCPolicies == {
    [minimum_samples |-> 3, minimum_history_days |-> 3, preferred_history_days |-> 4,
     tz_offset |-> 0],
    [minimum_samples |-> 1, minimum_history_days |-> 1, preferred_history_days |-> 2,
     tz_offset |-> 1]}

MCThresholds == {0, 50, 82, 100}
=============================================================================
