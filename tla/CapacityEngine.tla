--------------------------- MODULE CapacityEngine ---------------------------
(***************************************************************************)
(* capacity_engine: from a list of metric samples to a forecast            *)
(* (engine.run_capacity_forecast).                                         *)
(*                                                                         *)
(* The floats of the code are integers here.  Utilizations and daily means *)
(* are rounded down.  From there on nothing is: sums of squares are taken  *)
(* times the number of points and comparisons of roots are squared, so     *)
(* that no quotient is formed.  A time is a number of slots since the      *)
(* beginning of a day; percentiles and freshness, which only the report    *)
(* shows, are left out.                                                    *)
(***************************************************************************)
EXTENDS Integers, SequencesExt

CONSTANTS
    None,
    NaN,            \* a value that is no finite number
    Factors,        \* unit -> its number of bytes (_BYTE_UNIT_FACTORS), scaled down
    SlotsPerDay,
    HorizonDays,    \* days to the horizons of 1, 3 and 6 months
    SixMonths,      \* 183 in _compute_confidence
    MAX_HORIZON_DAYS,
    ZSquared        \* Z_95 squared, rounded

\* Why a sample may be excluded.
ValidationErrorType ==
    {"MISSING_REQUIRED_FIELD", "INVALID_TIMESTAMP", "DUPLICATE_TIMESTAMP",
     "INVALID_CAPACITY_INPUT", "NON_FINITE_VALUE", "NEGATIVE_USED", "USED_EXCEEDS_TOTAL",
     "UNIT_MISMATCH"}

ASSUME CapacityAssumption ==
    /\ SlotsPerDay \in Nat \ {0} /\ SixMonths \in Nat \ {0} /\ MAX_HORIZON_DAYS \in Nat
    /\ \A k \in DOMAIN HorizonDays : HorizonDays[k] \in Nat \ {0}
    /\ \A u \in DOMAIN Factors : Factors[u] \in Nat \ {0}
    /\ None \notin Int /\ None \notin ValidationErrorType /\ NaN \notin Int

Abs(n) == IF n < 0 THEN -n ELSE n

SumOf(f) == FoldFunction(+, 0, f)

---------------------------------------------------------------------------
(* normalization: each sample is kept or excluded for one reason *)

\* A time without an offset, or one that cannot be parsed, is None.
Timed(s) == s.complete /\ s.at # None

Key(s) == <<s.target, s.at>>

\* An earlier sample of the key, even one that is then excluded.
Duplicate(raw, i) == \E j \in 1..(i - 1) : Timed(raw[j]) /\ Key(raw[j]) = Key(raw[i])

convert_to_bytes(value, unit) ==
    IF unit \in DOMAIN Factors THEN value * Factors[unit] ELSE None

IsCpu(s) == s.resource = "cpu"

\* Used capacity as it was declared, or from the utilization.
Used(s) == IF s.used = None THEN (s.percent * s.total) \div 100 ELSE s.used

\* The first objection to the values of a sample, if any.
ValueError(s) ==
    IF s.total \in {None, NaN} THEN "INVALID_CAPACITY_INPUT"
    ELSE IF s.total <= 0 THEN "INVALID_CAPACITY_INPUT"
    ELSE IF s.used = NaN \/ (s.used = None /\ s.percent = NaN) THEN "NON_FINITE_VALUE"
    ELSE IF s.used = None /\ s.percent = None THEN "MISSING_REQUIRED_FIELD"
    ELSE IF Used(s) < 0 THEN "NEGATIVE_USED"
    ELSE IF 100 * Used(s) > 101 * s.total THEN "USED_EXCEEDS_TOTAL"
    ELSE IF ~IsCpu(s) /\ s.unit \notin DOMAIN Factors THEN "UNIT_MISMATCH"
    ELSE None

Kind(s) == IF ~IsCpu(s) THEN "bytes" ELSE IF s.unit = "percent" THEN "percentage" ELSE "cores"

Sound(raw) ==
    {i \in DOMAIN raw : Timed(raw[i]) /\ ~Duplicate(raw, i) /\ ValueError(raw[i]) = None}

\* The kind of the first sound sample is that of the series.
canonical_kind(raw) == Kind(raw[Min(Sound(raw))])

Issue(raw, i) ==
    IF ~raw[i].complete THEN "MISSING_REQUIRED_FIELD"
    ELSE IF raw[i].at = None THEN "INVALID_TIMESTAMP"
    ELSE IF Duplicate(raw, i) THEN "DUPLICATE_TIMESTAMP"
    ELSE IF ValueError(raw[i]) # None THEN ValueError(raw[i])
    ELSE IF Kind(raw[i]) # canonical_kind(raw) THEN "UNIT_MISMATCH"
    ELSE None

Normalized(s, i) ==
    LET Scaled(v) == IF IsCpu(s) THEN v ELSE convert_to_bytes(v, s.unit)
    IN  [at    |-> s.at,
         total |-> Scaled(s.total),
         used  |-> Scaled(Used(s)),
         util  |-> (100 * Used(s)) \div s.total,
         cpu   |-> IsCpu(s),
         kind  |-> Kind(s),
         index |-> i]

Accepted(raw) == {i \in DOMAIN raw : Issue(raw, i) = None}

\* By time; the sort is stable.
Sooner(s, t) == s.at < t.at \/ (s.at = t.at /\ s.index < t.index)

\* A set of samples as a list: the n-th one has n - 1 before it.
InOrder(S) ==
    [n \in 1..Cardinality(S) |->
        CHOOSE s \in S : Cardinality({t \in S : Sooner(t, s)}) = n - 1]

\* Fault: the samples stay in the order of the file.
normalize_samples_Unsorted(raw) ==
    SetToSortSeq({Normalized(raw[i], i) : i \in Accepted(raw)},
                 LAMBDA s, t : s.index < t.index)

normalize_samples(raw) == InOrder({Normalized(raw[i], i) : i \in Accepted(raw)})

duplicate_count(raw) ==
    Cardinality({i \in DOMAIN raw : Issue(raw, i) = "DUPLICATE_TIMESTAMP"})

---------------------------------------------------------------------------
(* segmentation and aggregation *)

\* Positions at which the capacity differs by more than 0.5 % from the one before.
detect_capacity_events(samples) ==
    {k \in 2..Len(samples) :
        200 * Abs(samples[k].total - samples[k - 1].total) > samples[k - 1].total}

\* Fault: everything after the first resize is one series.
segment_after_last_event_First(samples, events) ==
    IF events = {} THEN samples
    ELSE InOrder({s \in ToSet(samples) : s.at >= samples[Min(events)].at})

segment_after_last_event(samples, events) ==
    IF events = {} THEN samples
    ELSE InOrder({s \in ToSet(samples) : s.at >= samples[Max(events)].at})

Mean(values) == SumOf(values) \div Len(values)

LocalDay(at, tz_offset) == (at + tz_offset) \div SlotsPerDay

\* The point of day d from its samples, in their order.
Point(d, first_day, own) ==
    [day  |-> d,
     x    |-> d - first_day,
     mean |-> Mean([k \in DOMAIN own |-> own[k].used]),
     util |-> Mean([k \in DOMAIN own |-> own[k].util])]

\* A set of points as a list: the n-th one has n - 1 before it.
ByDay(P) ==
    [n \in 1..Cardinality(P) |->
        CHOOSE p \in P : Cardinality({q \in P : q.day < p.day}) = n - 1]

\* One point per day that has samples; x counts the days from the first one.
aggregate_daily(samples, tz_offset) ==
    LET days == {LocalDay(s.at, tz_offset) : s \in ToSet(samples)}
        Own(d) == InOrder({s \in ToSet(samples) : LocalDay(s.at, tz_offset) = d})
    IN  ByDay({Point(d, Min(days), Own(d)) : d \in days})

span_days(points) == Last(points).day - Head(points).day + 1

---------------------------------------------------------------------------
(* statistics *)

\* Twice the median.
Median2(values) ==
    LET n == Len(values)
        s == SortSeq(values, <)
    IN  s[(n + 1) \div 2] + s[n \div 2 + 1]

\* Positions whose modified z-score 0.6745 |v - median| / MAD exceeds 3.5, with the
\* mean deviation where the MAD is zero.
robust_outliers(values) ==
    LET n   == Len(values)
        dev == [i \in DOMAIN values |-> Abs(2 * values[i] - Median2(values))]
        mad == Median2(dev)
        sum == SumOf(dev)
    IN  IF n < 4 \/ sum = 0 THEN {}
        ELSE IF mad # 0 THEN {i \in DOMAIN values : 1349 * dev[i] > 3500 * mad}
        ELSE {i \in DOMAIN values : 1349 * n * dev[i] > 7000 * sum}

\* slope = sxy / sxx, intercept = (sy - slope * sx) / n, and res is n * sxx times
\* the sum of the squared residuals.
ols_fit(xs, ys) ==
    LET n   == Len(xs)
        Dot(u, v) == SumOf([i \in 1..n |-> u[i] * v[i]])
        sx  == SumOf(xs)
        sy  == SumOf(ys)
        sxx == n * Dot(xs, xs) - sx * sx
        sxy == n * Dot(xs, ys) - sx * sy
        tot == n * Dot(ys, ys) - sy * sy
    IN  [n |-> n, sx |-> sx, sy |-> sy, sxx |-> sxx, sxy |-> sxy, tot |-> tot,
         res |-> tot * sxx - sxy * sxy]

\* |slope| > k standard errors.
Significant(fit, k) == fit.sxy * fit.sxy * (fit.n - 2) > k * k * fit.res

classification(fit, ys) ==
    LET range == Max(ToSet(ys)) - Min(ToSet(ys))
        sign  == IF fit.sxy > 0 THEN "INCREASING" ELSE "DECREASING"
    IN  IF fit.n = 2 THEN IF fit.sxy = 0 THEN "STABLE" ELSE sign
        ELSE IF Significant(fit, 2) THEN sign
        ELSE IF 400 * fit.res > 9 * range * range * fit.n * fit.sxx * (fit.n - 2)
        THEN "VOLATILE"
        ELSE "STABLE"

\* The line through the points.
Fitted(points, ys, excluded) ==
    LET fit == ols_fit([i \in DOMAIN points |-> points[i].x], ys)
    IN  [class |-> classification(fit, ys), fit |-> fit, excluded |-> excluded]

\* The values of a field, "mean" or "util".
Values(points, field) == [i \in 1..Len(points) |-> points[i][field]]

\* Outliers are left out, but not if fewer than two points were left.
WithoutOutliers(points, field, out) ==
    IF Cardinality(out) > Len(points) - 2
    THEN Fitted(points, Values(points, field), {})
    ELSE LET kept == ByDay({p \in ToSet(points) : p.day \notin out})
         IN  Fitted(kept, Values(kept, field), out)

fit_trend(points, field) ==
    IF Len(points) < 2 THEN [class |-> "UNKNOWN", fit |-> None, excluded |-> {}]
    ELSE WithoutOutliers(points, field,
                         {points[i].day : i \in robust_outliers(Values(points, field))})

---------------------------------------------------------------------------
(* quality, thresholds, horizons and confidence *)

\* Fault: the samples are counted, not their days.
assess_quality_Samples(samples, points, policy, duplicates) ==
    IF points = <<>> THEN "INVALID"
    ELSE IF Len(samples) < policy.minimum_samples
            \/ span_days(points) < policy.minimum_history_days THEN "INSUFFICIENT"
    ELSE "GOOD"

assess_quality(samples, points, policy, duplicates) ==
    LET distinct == Len(points)
        outliers == Cardinality(robust_outliers([i \in 1..distinct |-> points[i].mean]))
    IN  IF points = <<>> THEN "INVALID"
        ELSE IF \/ distinct < policy.minimum_samples
                \/ span_days(points) < policy.minimum_history_days THEN "INSUFFICIENT"
        ELSE IF \/ duplicates > 0
                \/ 2 * distinct < span_days(points)
                \/ 5 * outliers > distinct THEN "DEGRADED"
        ELSE IF span_days(points) < policy.preferred_history_days THEN "ACCEPTABLE"
        ELSE "GOOD"

Unusable == {"INSUFFICIENT", "INVALID"}

\* round(), which takes a half to the even neighbour.
Round(num, den) ==
    LET q == num \div den
        r == 2 * (num % den)
    IN  IF r > den \/ (r = den /\ q % 2 = 1) THEN q + 1 ELSE q

\* Fault: days are counted from the first one.
days_until_FromStart(fit, percent, x_end) ==
    (fit.n * percent - fit.sy) * fit.sxx + fit.sx * fit.sxy

\* Days from the last one to the crossing, as a numerator over n * sxy.
days_until(fit, percent, x_end) ==
    (fit.n * percent - fit.sy) * fit.sxx + (fit.sx - fit.n * x_end) * fit.sxy

Status(status) == [status |-> status, day |-> None]

\* last is the last point of the segment, None for an unusable one.
evaluate_threshold(percent, trend, current, last, quality) ==
    IF percent <= 0 \/ percent > 100 THEN Status("INVALID_THRESHOLD")
    ELSE IF quality \in Unusable THEN Status("INSUFFICIENT_EVIDENCE")
    ELSE IF current >= percent THEN Status("ALREADY_EXCEEDED")
    ELSE IF trend.class = "UNKNOWN" THEN Status("INSUFFICIENT_EVIDENCE")
    ELSE IF trend.class = "VOLATILE" THEN Status("NON_MONOTONIC")
    ELSE IF trend.fit.sxy <= 0 THEN Status("NOT_EXPECTED_WITHIN_HORIZON")
    ELSE LET until == days_until(trend.fit, percent, last.x)
             per   == trend.fit.n * trend.fit.sxy
         IN  IF until <= 0 THEN Status("ALREADY_EXCEEDED")
             ELSE IF until > MAX_HORIZON_DAYS * per THEN Status("NOT_EXPECTED_WITHIN_HORIZON")
             ELSE [status |-> "DATE_ESTIMATED", day |-> last.day + Round(until, per)]

\* The prediction at x, times n * sxx.
predict(fit, x) == fit.sy * fit.sxx + (fit.n * x - fit.sx) * fit.sxy

\* The prediction interval at x reaches beyond a bound of the prediction's scale.
IntervalReaches(fit, x, bound) ==
    LET gap    == bound - predict(fit, x)
        spread == (fit.n + 1) * fit.sxx + (fit.n * x - fit.sx) * (fit.n * x - fit.sx)
    IN  ZSquared * fit.res * spread > gap * gap * (fit.n - 2)

_horizon_result(fit, x, total, is_percent) ==
    LET unit  == fit.n * fit.sxx
        limit == unit * (IF is_percent /\ total > 100 THEN 100 ELSE total)
        value == predict(fit, x)
        interval == fit.n > 2
    IN  IF \/ value < 0 \/ value > limit
           \/ interval /\ (IntervalReaches(fit, x, 0) \/ IntervalReaches(fit, x, limit))
        THEN "OUT_OF_PHYSICAL_RANGE"
        ELSE IF interval THEN "OK" ELSE "OK_NO_INTERVAL"

_compute_confidence(quality, trend, policy, span) ==
    LET fit == trend.fit
        well_fit == /\ fit.tot = 0 \/ 10 * fit.sxy * fit.sxy >= 7 * fit.sxx * fit.tot
                    /\ fit.n = 2 \/ Significant(fit, 3)
    IN  IF quality \in Unusable \/ trend.class = "UNKNOWN" THEN "INSUFFICIENT"
        ELSE IF trend.class = "VOLATILE" \/ span < policy.preferred_history_days THEN "LOW"
        ELSE IF SixMonths > 2 * span THEN "LOW"
        ELSE IF SixMonths > span THEN "MEDIUM"
        ELSE IF well_fit /\ 2 * SixMonths <= span THEN "HIGH"
        ELSE "MEDIUM"

---------------------------------------------------------------------------
(* engine *)

\* The result without a forecast.
NoForecast(quality, segment, horizon, thresholds) ==
    [data_quality |-> quality,
     used         |-> {s.index : s \in ToSet(segment)},
     trend        |-> "UNKNOWN",
     horizons     |-> [k \in DOMAIN HorizonDays |-> horizon],
     thresholds   |-> thresholds,
     confidence   |-> "INSUFFICIENT"]

\* For a segment that is good enough.
Forecasting(segment, points, quality, policy, thresholds, trend, util) ==
    LET end == Last(points)
        crossings == [p \in thresholds |-> evaluate_threshold(p, util, end.util, end, quality)]
    IN  IF trend.fit = None
        THEN NoForecast(quality, segment, "NOT_ESTIMABLE", crossings)
        ELSE [data_quality |-> quality,
              used         |-> {s.index : s \in ToSet(segment)},
              trend        |-> trend.class,
              horizons     |-> [k \in DOMAIN HorizonDays |->
                                  _horizon_result(trend.fit, end.x + HorizonDays[k],
                                                  Last(segment).total,
                                                  Last(segment).kind = "percentage")],
              thresholds   |-> crossings,
              confidence   |-> _compute_confidence(quality, trend, policy, span_days(points))]

Assessed(segment, points, quality, policy, thresholds) ==
    IF quality \in Unusable
    THEN NoForecast(quality, segment, "INSUFFICIENT_EVIDENCE",
                    [p \in thresholds |-> evaluate_threshold(p, None, None, None, quality)])
    ELSE Forecasting(segment, points, quality, policy, thresholds,
                     fit_trend(points, "mean"), fit_trend(points, "util"))

Segmented(segment, policy, thresholds, duplicates) ==
    LET points == aggregate_daily(segment, policy.tz_offset)
    IN  Assessed(segment, points, assess_quality(segment, points, policy, duplicates),
                 policy, thresholds)

run_capacity_forecast(raw, policy, thresholds) ==
    LET samples == normalize_samples(raw)
    IN  IF samples = <<>>
        THEN NoForecast("INVALID", <<>>, "INSUFFICIENT_EVIDENCE", <<>>)
        ELSE Segmented(segment_after_last_event(samples, detect_capacity_events(samples)),
                       policy, thresholds, duplicate_count(raw))
=============================================================================
