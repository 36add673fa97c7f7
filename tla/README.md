# TLA+ model of controller-runtime's metrics adapters

This is a TLA+ model of the code under `src/`:

- `src/unnamed/part_000` is `pkg/metrics`'s client-go adapter file.
- `src/pkg/metrics/default_views.go`.
- `src/pkg/webhook/metrics/metrics.go` and `src/unnamed/part_001`, the webhook measures and views.

## 1. Inventory

### Components and their state

| Component | Source | State | Operations |
|---|---|---|---|
| Measurement catalog | part_000:35-151 | 17 `stats.Int64`/`stats.Float64` measures (name, unit), constants | none after package init |
| Tag key registry | part_000:153-172 | six `tag.Key`s built by `mustNewTagKey` (panics on an invalid name) | none after package init |
| Rest-client adapters | part_000:188-211 | stateless; the tag map is a local of each call | `latencyAdapter.Observe(verb, url, latency)`, `resultAdapter.Increment(code, method, host)` |
| Metric adapters | part_000:217-241 | `intMetric` / `floatMetric`: the measure plus the immutable `name` mutator | `Inc`, `Dec` (records ±1), `Observe(v)`, `Set(v)` (the same as Observe) |
| Metric providers | part_000:243-355 | stateless | 8 reflector and 7 workqueue factory methods: name → adapter |
| Wiring | part_000:174-178 | what client-go holds | `init()` installs the two adapters and the two providers in client-go |
| View registry | default_views.go | 17 views (name, measure, aggregation, tag keys), `DefaultViews` | handed once to `view.Register` by the program |
| Webhook metrics | webhook/metrics.go, part_001 | 2 measures, 2 tag keys, 2 views, their own `DefaultViews` | recorded by webhook server code that is not in this tree |
| OpenCensus (external) | — | a FIFO channel to a worker goroutine, and per-view rows | `tag.New`, `stats.Record`, `stats.RecordWithTags`, aggregation |

### How they interact

client-go calls the adapters synchronously, on its own goroutines:

- the rest client calls them for each request;
- a reflector calls them for each list or watch;
- a workqueue calls them for each add, get, done and retry, and from its unfinished-work loop.

Each call builds tags and hands one measurement to OpenCensus. OpenCensus checks the tags (`tag.New`) and queues the measurement. Its worker goroutine then folds it into every registered view of that measure: Count counts records, LastValue keeps the last value, Distribution buckets the values.

### What is hard

- **Concurrency.** Many goroutines call one adapter. Correctness depends on the tag map being a local of each call between `tag.New` and `stats.Record`.
- **Meaning against aggregation.** client-go gives each interface a meaning: an Inc-only counter counts; an Inc/Dec gauge holds the current value; a summary is the set of observations; a settable gauge holds the last value set. The view's aggregation must turn the records this code makes into that meaning. The workqueue depth gauge breaks this (see the findings).
- **Partial failure.** A rejected tag value makes `tag.New` fail, and the code discards the error. Observe/Increment then record with no tags at all. `RecordWithTags` records nothing.
- **Ordering.** OpenCensus drops measurements made before `view.Register`. Two same-named queues share one series.

### Properties that make each component correct

- **Adapters and providers:** once quiescent and registered, every view exports exactly the meaning of client-go's calls, one row per tag combination (`ExportedMatchesCalls`). Step by step, each call takes effect atomically with its meaning (`ImplementsViewExport`).
- **Registry:** registering both packages' `DefaultViews`, in any order and more than once, never fails (`RegistrationSucceeds`).
- **Bucket boundaries:** they ascend and bucket every value as the generators their comments name (`BoundsAsDocumented`). The exported histograms should count a value under the same `le` labels as a Prometheus histogram with those bounds (`HistogramsMatchPrometheus`, which fails on the boundaries).

## 2. Modules and state mapping

- `MetricsCatalog.tla` holds the measures, tag keys and views of `pkg/metrics` as constant operators.
  - Bucket boundaries are abstracted: a Distribution view's data is the multiset of values it received, and its bucket counts are a function of that.
- `WebhookMetrics.tla` holds the two measures, two tag keys, two views and `DefaultViews` of `pkg/webhook/metrics`. Its identifiers carry a `webhook.` prefix, because both Go packages are named `metrics`.
- `Buckets.tla` holds the boundaries of every Distribution view, as exact decimals `[m, e]` (m * 10^e), because one fixed-point unit cannot hold 1e-08 and 100 in TLC's integers. It also holds `ExponentialBuckets` and `DefBuckets` of the Prometheus client, which the comments name, and `OCBucket`, OpenCensus's choice of bucket. Its one variable, `sample`, is the value client-go observes; `ObserveSample` moves it over a grid of decimals plus every boundary. float64 rounding is not modelled: `10e-9 * 10` is taken to be exactly `1e-07`.
- `ViewExport.tla` is the abstract specification: one variable `exported[source][row]`. Each step is one client-go call through a source (an adapter, or the metrics a provider method returns), changing its row by the call's meaning. There is no queue, goroutine or tag validation in it.
- `ClientGoAdapter.tla` extends both catalogs. Its variables:
  - `pc`, `ctx`, `measurement`: per rest-client goroutine, the state between `tag.New` and `stats.Record`;
  - `pending`: OpenCensus's channel to its worker, carrying measurements and `view.Register` requests;
  - `registered`, `regErrors`: the views the worker has subscribed, and those whose registration failed;
  - `data`: the rows of each view;
  - `expected`: a ghost variable, the meaning of client-go's calls per tag row;
  - `calls`: the bounded count of calls and registrations.

  Its actions:
  - `ObserveLatency` and `IncrementResult`: the calls up to `tag.New`;
  - `StatsRecord`: the `stats.Record` line of both;
  - `CallMetric(f, name, method, x)`: client-go calls the adapter that provider method `f` returns for `name`. The whole `RecordWithTags` is one step, because it touches no shared state;
  - `ProgramRegister(views)`: the program calls `view.Register` with either package's `DefaultViews`;
  - `Worker`: the OpenCensus worker handles the oldest request: `tryRegisterView` for each view of a registration (a different view under a taken name fails), or the aggregation of a measurement into every subscribed view of its measure.

  `Init` is the state just after `init()`. The constant `RegisteredAtStart` says whether the program has already registered `metrics.DefaultViews`. The OpenCensus definitions (`TagNew`, `RecordWithTags`, `Row`, `RegisterOne`, `Fold`, `Process`, `Aggregate`, `Worker`) model the runtime and are not in the map.

  The refinement mapping (`Exported`) gives each source the rows of the view reporting it, after draining: the worker's channel is processed and every goroutine between `tag.New` and `stats.Record` is treated as having recorded. `Abs == INSTANCE ViewExport WITH exported <- Exported, ...` and `ImplementsViewExport == Abs!Spec`.
- `MCClientGoAdapter.tla` and `MCBuckets.tla` instantiate the models for TLC.
- Two reflectors or queues with one name (spec 4.4) need no instance dimension in the model. `NewMetric` is a function of the name alone, so any instance made for a name records exactly what `CallMetric` on that name records.

## 3. Runs

| Run | cfg | Expect | Shows |
|---|---|---|---|
| core_adapters | MCClientGoAdapter.cfg | pass | every view but `workqueue_depth` exports what the calls meant, and registering both packages' views never fails, under all interleavings of 2 goroutines, 2 names and 3 calls or registrations (1.11M distinct states, about 45 s) |
| refinement | MCRefinement.cfg | pass | the adapters and the worker implement `ViewExport` (1 name, 2 calls, 12.8K states, about 40 s) |
| depth_gauge | MCDepthGauge.cfg | violation | two `Inc`s on one queue's depth gauge export 1, not 2 |
| invalid_tag | MCInvalidTag.cfg | violation | a rejected URL value strips the verb as well; a rejected queue name drops the record |
| late_registration | MCLateRegistration.cfg | violation | a reflector's call made before `view.Register(metrics.DefaultViews...)` is lost for good |
| bucket_bounds | MCBuckets.cfg | pass | the boundaries ascend and bucket every value from 1e-09 to 1200 as the `ExponentialBuckets` calls and default buckets of their comments (143 states) |
| bucket_edges | MCBucketEdges.cfg | violation | a value on a boundary (0 items, 1 ms) is exported one bucket higher than Prometheus counts it |
| units | MCUnits.cfg | violation | `AddRetry` queues a retry count on a measure declared in seconds (`RecordedUnitsFitNames`, checked against the unit each measure's name states, `nameUnit` in `Measures`) |

Bounds and why they are enough:

- Two names and two tag values are enough to tell rows apart.
- Two goroutines are enough to interleave between `tag.New` and `stats.Record`.
- Three calls are enough for the two-step sequences the properties need: Inc,Inc; Set,Set; two overlapping rest calls; a call then a registration.
- The refinement run is smaller (one name, two calls), because the refinement mapping is evaluated on every step. Two calls still cover two overlapping rest-client goroutines with different tags, which is the interleaving the refinement is about. The same run with three calls and only the four rest-client and workqueue views checked had not finished after 15 minutes (303K distinct states, 205K still queued), so larger refinement instances are out of reach.
- `Names` is a symmetry set in core_adapters: names are only compared for equality. The runs with temporal properties and invalid_tag do not use symmetry.
- Floats are fixed point (10^-6), and `Seconds` converts nanoseconds into that scale.

Fairness: none. No property is a liveness property. A statement that every call eventually reaches its view would follow from weak fairness on `Worker` and `StatsRecord` alone, whose only guard is that there is work. So it would hold for any code of this shape and say nothing about this code; it is not checked. `CHECK_DEADLOCK FALSE`: the metrics layer may legitimately become idle once its callers stop.

## 4. Plan

Done: the items marked ✔.

1. ✔ `MetricsCatalog` and `ClientGoAdapter`: the adapters, providers and views, and the meaning-versus-export property.
2. ✔ `WebhookMetrics` and the program's `view.Register` calls through the worker: name clashes between the packages (`RegistrationSucceeds`), and measurements dropped before registration (late_registration).
3. ✔ `ViewExport` and its refinement by `ClientGoAdapter`, checked on every step of two overlapping rest-client goroutines.
4. ✔ `Buckets.tla`: the literal bounds against the `ExponentialBuckets` and default buckets their comments name, and OpenCensus's bucketing against Prometheus' `le`.
5. ✔ Units: every queued measurement's declared unit against the unit its measure's name states (run units).

## Not modelled

- Which value two live LastValue gauges of one name should export. Spec 4.4 calls shared tags intentional and says nothing more, so there is no property to state. What the code does is checked: the records merge (`ExportedMatchesCalls`).
- float64 arithmetic: values and bounds are exact decimals or fixed point.
- Description strings and the OpenCensus-to-Prometheus exporter beyond its bucket labels.
- The OpenCensus runtime (status "partly"). It lives outside this repository. Only what this code relies on is modelled: `tag.New`, `stats.RecordWithTags`, the worker's channel, `tryRegisterView` and the three aggregations. Its exporters, reporting period, `view.Unregister` and `SetReportingPeriod` are never called here, so they have no counterpart in the model.
- Nothing else of the repository's code is left out. Every state change of the adapters, providers, catalogs and views is an action or a constant of a module.

## 5. Findings

- **workqueue_depth** (default_views.go:103; run depth_gauge). The depth gauge records +1 and -1 deltas, but its view keeps only the last value. So the view does not export the queue depth.
- **Rejected tag values** (part_000:193, 223; run invalid_tag). One invalid value loses all of a rest call's tags, or all of a provider metric's record.
- **Boundary values** (default_views.go:53, 19; run bucket_edges). OpenCensus buckets are open above, so a value equal to a bound is exported under the next `le`. An empty list is missing from `le="0"`, and a 1 ms request is missing from `le="0.001"`. A Prometheus histogram with the same bounds counts both.
- **Units** (part_000:136, 65, 90; run units). `MeasureRetries` (`workqueue_retries_total`) counts retries but declares unit "s". `MeasureListsDuration` and `MeasureWatchDuration` (`..._duration_seconds`) record seconds but declare `stats.UnitNone`.
- **Late registration** (default_views.go:159; run late_registration). Calls made between `init()` and the program's `view.Register(metrics.DefaultViews...)` are dropped for good. Neither the spec nor the comment says that registration must come before any collaborator runs.
