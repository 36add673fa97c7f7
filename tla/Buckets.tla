------------------------------- MODULE Buckets -------------------------------
(***************************************************************************)
(* The bucket boundaries of the Distribution views (default_views.go and   *)
(* src/unnamed/part_001), and how an observed value is bucketed by         *)
(* OpenCensus and by the Prometheus histogram that client-go's own         *)
(* metrics would be.                                                       *)
(*                                                                         *)
(* The Go literals are float64 decimals from 1e-08 to 100.  TLC integers   *)
(* cannot hold them in one fixed-point unit, so a value is a decimal       *)
(* [m |-> mantissa, e |-> exponent], normalised to a mantissa without     *)
(* trailing zeros; every literal is exact in this form.                    *)
(*                                                                         *)
(* The one variable is the value client-go observes on a summary metric   *)
(* (Observe(v) of a floatMetric, or latencyAdapter.Observe); the           *)
(* properties compare how the views' boundaries bucket it.                 *)
(***************************************************************************)
EXTENDS Integers, Sequences, TLC

CONSTANTS
    Mantissas,   \* mantissas of the observed values
    Exponents    \* decimal exponents of the observed values

VARIABLE sample  \* the value most recently observed

-----------------------------------------------------------------------------
(* Decimals.                                                               *)

RECURSIVE D(_, _)
\* The decimal m * 10^e, normalised.
D(m, e) ==
  IF m = 0 THEN [m |-> 0, e |-> 0]
  ELSE IF m % 10 = 0 THEN D(m \div 10, e + 1) ELSE [m |-> m, e |-> e]

RECURSIVE Digits(_)
Digits(m) == IF m < 10 THEN 1 ELSE 1 + Digits(m \div 10)

\* The position of the leading digit: x lies in [10^(Order(x)-1), 10^Order(x)).
Order(x) == x.e + Digits(x.m)

\* x <= y for non-negative decimals.  Of equal order, the exponents differ
\* by less than the digits of a mantissa, so the aligned mantissas are small.
Le(x, y) ==
  CASE x.m = 0                -> TRUE
    [] y.m = 0                -> FALSE
    [] Order(x) # Order(y)    -> Order(x) < Order(y)
    [] OTHER ->
         LET low == IF x.e < y.e THEN x.e ELSE y.e
         IN x.m * 10^(x.e - low) <= y.m * 10^(y.e - low)

Lt(x, y) == Le(x, y) /\ x # y

\* The decimal x multiplied by the integer factor f.
Times(x, f) == D(x.m * f, x.e)

-----------------------------------------------------------------------------
(* The boundaries in the code.                                             *)

\* DefaultPrometheusDistribution of pkg/metrics.
DefaultPrometheusDistribution ==
  << D(5, -3), D(1, -2), D(25, -3), D(5, -2), D(1, -1), D(25, -2),
     D(5, -1), D(1, 0), D(25, -1), D(5, 0), D(10, 0) >>

\* DefaultPrometheusDistribution of pkg/webhook/metrics.
WebhookPrometheusDistribution ==
  << D(5, -3), D(1, -2), D(25, -3), D(5, -2), D(1, -1), D(25, -2),
     D(5, -1), D(1, 0), D(25, -1), D(5, 0), D(10, 0) >>

\* Variant for mutation analysis: .004 mistyped as .04.
RequestLatencyBoundsTypo ==
  << D(1, -3), D(2, -3), D(4, -2), D(8, -3), D(16, -3), D(32, -3),
     D(64, -3), D(128, -3), D(256, -3), D(512, -3) >>

\* ViewRequestLatency's view.Distribution(.001, .002, 0.004, ..., .512).
RequestLatencyBounds ==
  << D(1, -3), D(2, -3), D(4, -3), D(8, -3), D(16, -3), D(32, -3),
     D(64, -3), D(128, -3), D(256, -3), D(512, -3) >>

\* ViewItemsPerList's and ViewItemsPerWatch's view.Distribution(0, 1, 5, 10, 50, 100).
ItemsPerListBounds  == << D(0, 0), D(1, 0), D(5, 0), D(10, 0), D(50, 0), D(100, 0) >>
ItemsPerWatchBounds == << D(0, 0), D(1, 0), D(5, 0), D(10, 0), D(50, 0), D(100, 0) >>

\* ViewLatency's and ViewWorkDuration's view.Distribution(1e-08, ..., 10).
QueueLatencyBounds ==
  << D(1, -8), D(1, -7), D(1, -6), D(1, -5), D(1, -4), D(1, -3),
     D(1, -2), D(1, -1), D(1, 0), D(10, 0) >>
WorkDurationBounds ==
  << D(1, -8), D(1, -7), D(1, -6), D(1, -5), D(1, -4), D(1, -3),
     D(1, -2), D(1, -1), D(1, 0), D(10, 0) >>

\* The boundaries of every Distribution view, by view.
ViewBounds ==
  [ ViewRequestLatency  |-> RequestLatencyBounds,
    ViewListsDuration   |-> DefaultPrometheusDistribution,
    ViewItemsPerList    |-> ItemsPerListBounds,
    ViewWatchesDuration |-> DefaultPrometheusDistribution,
    ViewItemsPerWatch   |-> ItemsPerWatchBounds,
    ViewLatency         |-> QueueLatencyBounds,
    ViewWorkDuration    |-> WorkDurationBounds ]
  @@ ("webhook.ViewRequestLatency" :> WebhookPrometheusDistribution)

-----------------------------------------------------------------------------
(* What the comments refer to, from the Prometheus client.                 *)

\* prometheus.ExponentialBuckets(start, factor, count): start, then each
\* bucket factor times the one before.
RECURSIVE ExponentialBuckets(_, _, _)
ExponentialBuckets(start, factor, count) ==
  IF count = 0 THEN << >>
  ELSE << start >> \o ExponentialBuckets(Times(start, factor), factor, count - 1)

\* prometheus.DefBuckets.
DefBuckets ==
  << D(5, -3), D(1, -2), D(25, -3), D(5, -2), D(1, -1), D(25, -2),
     D(5, -1), D(1, 0), D(25, -1), D(5, 0), D(10, 0) >>

-----------------------------------------------------------------------------
(* Bucketing.                                                              *)

\* OpenCensus adds x to the first bucket whose upper boundary exceeds it;
\* bucket Len(bounds)+1 holds the rest.
OCBucket(bounds, x) ==
  LET above == {i \in DOMAIN bounds : Lt(x, bounds[i])}
  IN IF above = {} THEN Len(bounds) + 1
     ELSE CHOOSE i \in above : \A j \in above : i <= j

\* The exported cumulative bucket le=bounds[i] counts x: the Prometheus
\* exporter of OpenCensus sums buckets 1..i under that label.
ExportedLe(bounds, x, i) == OCBucket(bounds, x) <= i

\* A Prometheus histogram counts x under le=bounds[i] when x <= bounds[i].
PrometheusLe(bounds, x, i) == Le(x, bounds[i])

-----------------------------------------------------------------------------
(* The observed value.                                                     *)

\* The observed values: a grid of decimals and every boundary.
Samples ==
  {D(m, e) : m \in Mantissas, e \in Exponents}
    \cup UNION {{b[i] : i \in DOMAIN b} : b \in {ViewBounds[v] : v \in DOMAIN ViewBounds}}

Init == sample \in Samples

\* client-go observes another value on a summary metric.
ObserveSample == sample' \in Samples

Spec == Init /\ [][ObserveSample]_sample

-----------------------------------------------------------------------------
(* Properties.                                                             *)

\* The boundaries, paired with what the code's comments say they equal.
Documented ==
  { << RequestLatencyBounds, ExponentialBuckets(D(1, -3), 2, 10) >>,
    << QueueLatencyBounds, ExponentialBuckets(D(10, -9), 10, 10) >>,
    << WorkDurationBounds, ExponentialBuckets(D(10, -9), 10, 10) >>,
    << DefaultPrometheusDistribution, DefBuckets >>,
    << WebhookPrometheusDistribution, DefBuckets >> }

\* The boundaries are what the code's comments and the spec say of them:
\* ViewRequestLatency's are "equivalent to" prometheus.ExponentialBuckets
\* (0.001, 2, 10), ViewLatency's and ViewWorkDuration's to
\* ExponentialBuckets(10e-9, 10, 10), both packages'
\* DefaultPrometheusDistribution are the Prometheus client's default
\* buckets, so every observed value falls in the same bucket under either;
\* and every view's boundaries ascend strictly (spec 4.5).
BoundsAsDocumented ==
  /\ \A pair \in Documented : OCBucket(pair[1], sample) = OCBucket(pair[2], sample)
  /\ \A v \in DOMAIN ViewBounds :
       \A i, j \in DOMAIN ViewBounds[v] : i < j => Lt(ViewBounds[v][i], ViewBounds[v][j])

\* Bounds "equivalent to prometheus.ExponentialBuckets" and "the same
\* buckets as the default buckets in the Prometheus client" make the
\* exported histograms the ones client-go's Prometheus metrics would be:
\* every observed value is counted under exactly the le labels a
\* Prometheus histogram with those bounds counts it under.
HistogramsMatchPrometheus ==
  \A v \in DOMAIN ViewBounds : \A i \in DOMAIN ViewBounds[v] :
    ExportedLe(ViewBounds[v], sample, i) = PrometheusLe(ViewBounds[v], sample, i)

=============================================================================
