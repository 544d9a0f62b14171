--------------------------- MODULE CapacityHistory ---------------------------
(***************************************************************************)
(* The history of a resource while samples of it come in, and the forecast *)
(* capacity_engine makes of it at each moment.  Samples come in any order, *)
(* late, twice for one time, impossible, in other units, before and after  *)
(* the resource was resized.  capacity_engine.cli reads the file as it is  *)
(* and overwrites its result.                                              *)
(***************************************************************************)
EXTENDS CapacityEngine

CONSTANTS
    Samples,      \* samples that may come in
    Policies,
    Thresholds,   \* a set of percentages
    MaxSamples    \* bound of the model

ASSUME HistoryAssumption ==
    /\ MaxSamples \in Nat
    /\ \A s \in Samples : /\ s.complete \in BOOLEAN /\ s.at \in Int \cup {None}
                           /\ {s.total, s.used, s.percent} \subseteq Int \cup {None, NaN}
    /\ \A p \in Policies : {p.tz_offset, p.minimum_samples, p.minimum_history_days,
                            p.preferred_history_days} \subseteq Int
    /\ Thresholds \subseteq Int

VARIABLES
    samples,   \* the list in the fixture
    policy,
    out        \* the last result

vars == <<samples, policy, out>>

Forecast(raw) == run_capacity_forecast(raw, policy, Thresholds)

Init ==
    /\ samples = <<>>
    /\ policy \in Policies
    /\ out = Forecast(samples)

\* A sample is appended to the fixture and the forecast is made again.
AddSample(s) ==
    /\ Len(samples) < MaxSamples
    /\ samples' = Append(samples, s)
    /\ out' = Forecast(samples')
    /\ UNCHANGED policy

Next == \E s \in Samples : AddSample(s)

Spec == Init /\ [][Next]_vars

---------------------------------------------------------------------------
At(i) == samples[i].at
Capacity(i) == Normalized(samples[i], i).total
DayOf(i) == LocalDay(At(i), policy.tz_offset)

\* The accepted sample j is the next one after i.
Follows(i, j) ==
    LET Before(k, l) == At(k) < At(l) \/ (At(k) = At(l) /\ k < l)
    IN  /\ Before(i, j)
        /\ ~\E k \in Accepted(samples) : Before(i, k) /\ Before(k, j)

\* The capacity did not change by more than RESIZE_RELATIVE_EPSILON.
Steady(i, j) == 200 * Abs(Capacity(j) - Capacity(i)) <= Capacity(i)

\* The forecast uses the accepted samples since the last resize, all of them and no
\* other: of two samples used the later has, but for noise, the capacity of the one
\* just before it; one left out is older than any used; and where some are left out,
\* what is used begins at a resize (segmentation.segment_after_last_event).
EpochsNeverMixed ==
    LET left == Accepted(samples) \ out.used
    IN  /\ out.used \subseteq Accepted(samples)
        /\ \A i, j \in out.used : (Follows(i, j) /\ At(i) < At(j)) => Steady(i, j)
        /\ \A i \in left, u \in out.used : At(i) < At(u)
        /\ left # {} => \E i \in Accepted(samples), u \in out.used :
                /\ Follows(i, u) /\ ~Steady(i, u)
                /\ \A v \in out.used : At(u) <= At(v)

\* "the segmentation step (capacity_engine.segmentation) already ensures total_capacity
\* is constant within the analyzed segment" (threshold.py): any two samples used have,
\* but for the noise segmentation allows, one capacity.  Only neighbours are compared,
\* so a capacity that grows in small steps is never a resize.
StableDenominator == \A i, j \in out.used : At(i) < At(j) => Steady(i, j)

\* Nothing is predicted from too little: with any horizon, date or confidence there
\* are as many different days of the present capacity, over as many days, as the
\* policy asks for (quality: "No forecast is ever produced from an
\* INSUFFICIENT/INVALID dataset").
NoForecastFromThinHistory ==
    LET days == {DayOf(i) : i \in out.used}
    IN  (\/ out.confidence # "INSUFFICIENT"
         \/ \E k \in DOMAIN out.horizons : out.horizons[k] \in {"OK", "OK_NO_INTERVAL"}
         \/ \E p \in DOMAIN out.thresholds : out.thresholds[p].status = "DATE_ESTIMATED")
        => /\ Cardinality(days) >= policy.minimum_samples
           /\ Max(days) - Min(days) + 1 >= policy.minimum_history_days

\* The daily points of the samples the forecast uses.
Points ==
    aggregate_daily(InOrder({Normalized(samples[i], i) : i \in out.used}), policy.tz_offset)

\* The verdicts on the thresholds fit the trend and each other: a date is the day,
\* not before the last one, on which the fitted line is within half a day of the
\* threshold; a lower threshold is crossed no later than a higher one; and none is
\* still ahead while a higher one is exceeded (threshold.evaluate_threshold).
ThresholdsFitTogether ==
    LET T == out.thresholds
        dated(p) == T[p].status = "DATE_ESTIMATED"
        exceeded(p) == T[p].status = "ALREADY_EXCEEDED"
        fit == fit_trend(Points, "util").fit
        Miss(p) == predict(fit, T[p].day - Head(Points).day) - p * fit.n * fit.sxx
    IN  /\ \A p \in DOMAIN T : dated(p) => /\ T[p].day >= Last(Points).day
                                          /\ 2 * Abs(Miss(p)) <= fit.n * fit.sxy
        /\ \A p, q \in DOMAIN T : (p > 0 /\ p < q) =>
              /\ exceeded(q) => exceeded(p)
              /\ dated(q) => exceeded(p) \/ (dated(p) /\ T[p].day <= T[q].day)

Neighbours(i) == [samples EXCEPT ![i] = samples[i + 1], ![i + 1] = samples[i]]

Rank(i, k) == IF k = i THEN i + 1 ELSE IF k = i + 1 THEN i ELSE k

\* The order of the file does not matter, but for two samples of one time, of which
\* the first is kept or comes first, and for the kind of unit, which the first sample sets
\* (normalization.normalize_samples sorts by time).
FileOrderIrrelevant ==
    \A i \in 1..(Len(samples) - 1) :
        LET other == Forecast(Neighbours(i))
        IN  (/\ At(i) # At(i + 1)
             /\ Kind(samples[i]) = Kind(samples[i + 1]))
            => other = [out EXCEPT !.used = {Rank(i, k) : k \in @}]
=============================================================================
