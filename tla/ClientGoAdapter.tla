--------------------------- MODULE ClientGoAdapter ---------------------------
(***************************************************************************)
(* The client-go metrics adapters of pkg/metrics (src/unnamed/part_000)    *)
(* and what the OpenCensus views of default_views.go export from them.     *)
(*                                                                         *)
(* client-go reaches this code three ways, all wired by init():            *)
(*  - the rest client calls latencyAdapter.Observe and                     *)
(*    resultAdapter.Increment on its own goroutines (Callers);             *)
(*  - reflectors and workqueues obtain metrics from the two providers,     *)
(*    one per name, and call Inc/Dec/Observe/Set on them.                   *)
(* Every call hands one measurement to OpenCensus.  OpenCensus (outside    *)
(* this repository) validates the tags, queues the measurement for its     *)
(* worker goroutine and the worker folds it into every registered view of  *)
(* the measure.  The environment part of the model is that runtime; the    *)
(* ghost variable "expected" is what client-go means by its calls: the     *)
(* count of Inc, the current value of an Inc/Dec gauge, the values        *)
(* observed, the last value set.                                           *)
(***************************************************************************)
EXTENDS MetricsCatalog, WebhookMetrics, Integers, SequencesExt, BagsExt

CONSTANTS
    Names,       \* names client-go gives reflectors and workqueues
    TagValues,   \* verbs, urls, codes, methods and hosts of rest requests
    Invalid,     \* the tag values tag.Insert rejects (over 255 bytes, not printable ASCII)
    Callers,     \* rest-client goroutines
    Durations,   \* request latencies: time.Duration, in nanoseconds
    Floats,      \* float64 arguments of Observe/Set, fixed point with 10^-6 units
    Missing,     \* model value: a view's tag key absent from a measurement's tags
    CheckedViews, \* the views whose export the properties check
    RegisteredAtStart, \* whether metrics.DefaultViews is registered before client-go runs
    MaxCalls     \* bound on the calls client-go makes into the adapters

ASSUME Invalid \subseteq (TagValues \cup Names)
ASSUME MaxCalls \in Nat /\ RegisteredAtStart \in BOOLEAN

VARIABLES
    pc,          \* pc[p]: "idle", or "record" between tag.New and stats.Record
    ctx,         \* ctx[p]: the tag map tag.New returned to goroutine p
    measurement, \* measurement[p]: the measure and value p is about to record
    pending,     \* measurements and view.Register requests queued to the OpenCensus worker
    registered,  \* the views the worker has subscribed
    regErrors,   \* the views a view.Register request failed to subscribe
    data,        \* data[v]: the rows of view v, tag row -> aggregation data
    expected,    \* expected[s]: what client-go's calls through s mean, per tag row
    calls        \* number of calls client-go made

vars == <<pc, ctx, measurement, pending, registered, regErrors, data, expected, calls>>

-----------------------------------------------------------------------------
(* OpenCensus, as this code uses it.                                       *)

\* tag.Insert(k, v): a mutator adding the tag k=v.
Insert(k, v) == [key |-> k, value |-> v]

NoTags == [k \in {} |-> Missing]

\* tag.New(context.Background(), mutators...): the new tag map, or, when a
\* mutator rejects its value, the unchanged background context (no tags).
TagNew(mutators) ==
  IF \A i \in DOMAIN mutators : mutators[i].value \notin Invalid
  THEN [k \in {mutators[i].key : i \in DOMAIN mutators} |->
          mutators[CHOOSE i \in DOMAIN mutators : mutators[i].key = k].value]
  ELSE NoTags

\* A measurement as stats.Record queues it for the worker.
Measurement(m, v, tags) == [measure |-> m, value |-> v, tags |-> tags]

\* stats.RecordWithTags(ctx, mutators, m.M(v)): when tag.New fails the
\* error is returned and nothing is recorded.
RecordWithTags(mutators, m, v) ==
  IF \A i \in DOMAIN mutators : mutators[i].value \notin Invalid
  THEN Append(pending, Measurement(m, v, TagNew(mutators)))
  ELSE pending

\* The views of both packages.
AllViews == Views @@ WebhookViews

ASSUME \A v \in DOMAIN AllViews : AllViews[v].tagKeys \subseteq TagKeys \cup WebhookTagKeys

\* The row of view v a measurement with these tags falls in.
Row(v, tags) ==
  [k \in AllViews[v].tagKeys |-> IF k \in DOMAIN tags THEN tags[k] ELSE Missing]

\* f with r mapped to x, r added to the domain if absent.
Put(f, r, x) == (r :> x) @@ f
Get(f, r, default) == IF r \in DOMAIN f THEN f[r] ELSE default

\* The views view.Register(metrics.DefaultViews...) subscribed at startup.
Registered == Range(DefaultViews)

-----------------------------------------------------------------------------
(* The adapters.                                                           *)

\* client-go interfaces the provider methods return, with their methods.
InterfaceMethods ==
     ("reflectormetrics.CounterMetric"      :> {"Inc"})
  @@ ("reflectormetrics.SummaryMetric"      :> {"Observe"})
  @@ ("reflectormetrics.GaugeMetric"        :> {"Set"})
  @@ ("workqueuemetrics.GaugeMetric"        :> {"Inc", "Dec"})
  @@ ("workqueuemetrics.CounterMetric"      :> {"Inc"})
  @@ ("workqueuemetrics.SummaryMetric"      :> {"Observe"})
  @@ ("workqueuemetrics.SettableGaugeMetric" :> {"Set"})

\* Methods of the two adapter types.
AdapterMethods == [intMetric |-> {"Inc", "Dec"}, floatMetric |-> {"Observe", "Set"}]

ProviderMethod(adapter, measure, interface) ==
  [adapter |-> adapter, measure |-> measure, interface |-> interface]

\* reflectorMetricsProvider: method -> adapter type, measure, return type.
ReflectorMetricsProvider ==
  [ NewListsMetric               |-> ProviderMethod("intMetric",   "MeasureListsTotal",          "reflectormetrics.CounterMetric"),
    NewListDurationMetric        |-> ProviderMethod("floatMetric", "MeasureListsDuration",       "reflectormetrics.SummaryMetric"),
    NewItemsInListMetric         |-> ProviderMethod("floatMetric", "MeasureItemsPerList",        "reflectormetrics.SummaryMetric"),
    NewWatchesMetric             |-> ProviderMethod("intMetric",   "MeasureWatchesTotal",        "reflectormetrics.CounterMetric"),
    NewShortWatchesMetric        |-> ProviderMethod("intMetric",   "MeasureShortWatchesTotal",   "reflectormetrics.CounterMetric"),
    NewWatchDurationMetric       |-> ProviderMethod("floatMetric", "MeasureWatchDuration",       "reflectormetrics.SummaryMetric"),
    NewItemsInWatchMetric        |-> ProviderMethod("floatMetric", "MeasureItemsPerWatch",       "reflectormetrics.SummaryMetric"),
    NewLastResourceVersionMetric |-> ProviderMethod("floatMetric", "MeasureLastResourceVersion", "reflectormetrics.GaugeMetric") ]

\* Variant for mutation analysis: NewRetriesMetric bound to the webhook
\* package's MeasureTotalRequests, a measure outside this catalog.
WorkqueueMetricsProviderForeignMeasure ==
  [ NewDepthMetric                              |-> ProviderMethod("intMetric",   "MeasureDepth",          "workqueuemetrics.GaugeMetric"),
    NewAddsMetric                               |-> ProviderMethod("intMetric",   "MeasureAdds",           "workqueuemetrics.CounterMetric"),
    NewLatencyMetric                            |-> ProviderMethod("floatMetric", "MeasureLatency",        "workqueuemetrics.SummaryMetric"),
    NewWorkDurationMetric                       |-> ProviderMethod("floatMetric", "MeasureWorkDuration",   "workqueuemetrics.SummaryMetric"),
    NewRetriesMetric                            |-> ProviderMethod("intMetric",   "MeasureTotalRequests",        "workqueuemetrics.CounterMetric"),
    NewLongestRunningProcessorMicrosecondsMetric |-> ProviderMethod("floatMetric", "MeasureLongestRunning", "workqueuemetrics.SettableGaugeMetric"),
    NewUnfinishedWorkSecondsMetric              |-> ProviderMethod("floatMetric", "MeasureUnfinishedWork", "workqueuemetrics.SettableGaugeMetric") ]

\* workqueueMetricsProvider.
WorkqueueMetricsProvider ==
  [ NewDepthMetric                              |-> ProviderMethod("intMetric",   "MeasureDepth",          "workqueuemetrics.GaugeMetric"),
    NewAddsMetric                               |-> ProviderMethod("intMetric",   "MeasureAdds",           "workqueuemetrics.CounterMetric"),
    NewLatencyMetric                            |-> ProviderMethod("floatMetric", "MeasureLatency",        "workqueuemetrics.SummaryMetric"),
    NewWorkDurationMetric                       |-> ProviderMethod("floatMetric", "MeasureWorkDuration",   "workqueuemetrics.SummaryMetric"),
    NewRetriesMetric                            |-> ProviderMethod("intMetric",   "MeasureRetries",        "workqueuemetrics.CounterMetric"),
    NewLongestRunningProcessorMicrosecondsMetric |-> ProviderMethod("floatMetric", "MeasureLongestRunning", "workqueuemetrics.SettableGaugeMetric"),
    NewUnfinishedWorkSecondsMetric              |-> ProviderMethod("floatMetric", "MeasureUnfinishedWork", "workqueuemetrics.SettableGaugeMetric") ]

Providers == ReflectorMetricsProvider @@ WorkqueueMetricsProvider

\* The Go compiler's check that each returned adapter implements the interface.
ASSUME \A f \in DOMAIN Providers :
         InterfaceMethods[Providers[f].interface] \subseteq AdapterMethods[Providers[f].adapter]

\* provider.NewXMetric(name): the adapter bound to tag name=name.
NewMetric(f, name) ==
  [type |-> Providers[f].adapter, measure |-> Providers[f].measure,
   mutators |-> << Insert(TagName, name) >>]

\* intMetric.Inc, intMetric.Dec, floatMetric.Observe, floatMetric.Set:
\* the measurements queue after the call.
Inc(a)        == RecordWithTags(a.mutators, a.measure, 1)
Dec(a)        == RecordWithTags(a.mutators, a.measure, -1)
Observe(a, v) == RecordWithTags(a.mutators, a.measure, v)
Set(a, v)     == Observe(a, v)

Invoke(a, method, x) ==
  CASE method = "Inc"     -> Inc(a)
    [] method = "Dec"     -> Dec(a)
    [] method = "Observe" -> Observe(a, x)
    [] method = "Set"     -> Set(a, x)

\* time.Duration.Seconds(), in the 10^-6 fixed point of Floats.
Seconds(d) == d \div 1000

-----------------------------------------------------------------------------
(* The OpenCensus worker.                                                  *)

\* view.Register(views...) as a request on the worker's channel.
RegisterRequest(views) == [views |-> views]

\* Two views are the same to OpenCensus when measure and aggregation agree.
SameView(v, w) ==
  AllViews[v].measure = AllViews[w].measure /\ AllViews[v].aggregation = AllViews[w].aggregation

\* The worker's state: subscribed views, failed registrations, view rows.
RuntimeState == [reg |-> registered, errs |-> regErrors, data |-> data]

\* tryRegisterView: a view is subscribed unless a different view with its
\* name is; registering a subscribed view again changes nothing.
RegisterOne(st, v) ==
  IF \E w \in st.reg : AllViews[w].name = AllViews[v].name /\ ~SameView(v, w)
  THEN [st EXCEPT !.errs = @ \cup {v}]
  ELSE [st EXCEPT !.reg = @ \cup {v}]

Aggregate(aggregation, old, x) ==
  CASE aggregation = Count        -> old + 1
    [] aggregation = LastValue    -> x
    [] aggregation = Distribution -> BagAdd(old, x)

AggregationZero(aggregation) ==
  CASE aggregation = Count        -> 0
    [] aggregation = LastValue    -> 0
    [] aggregation = Distribution -> EmptyBag

\* The measurement m folded into every subscribed view of its measure;
\* a measure without one is dropped.
Fold(st, m) ==
  [st EXCEPT !.data =
     [v \in DOMAIN st.data |->
        IF v \in st.reg /\ AllViews[v].measure = m.measure
        THEN LET r == Row(v, m.tags)
                 a == AllViews[v].aggregation
             IN Put(st.data[v], r, Aggregate(a, Get(st.data[v], r, AggregationZero(a)), m.value))
        ELSE st.data[v]]]

\* tryRegisterView for each view of a view.Register request, in order.
\* (The state is bound by "s \in {st}" so that TLC computes it once.)
RECURSIVE RegisterAll(_, _)
RegisterAll(st, views) ==
  IF views = << >> THEN st
  ELSE CHOOSE out \in {RegisterAll(RegisterOne(s, Head(views)), Tail(views)) : s \in {st}} : TRUE

\* The worker's handling of one request of its channel.
Process(st, req) ==
  IF "views" \in DOMAIN req THEN RegisterAll(st, req.views) ELSE Fold(st, req)

\* The worker's handling of the requests of its channel, oldest first.
RECURSIVE ProcessAll(_, _)
ProcessAll(st, reqs) ==
  IF reqs = << >> THEN st
  ELSE CHOOSE out \in {ProcessAll(Process(s, Head(reqs)), Tail(reqs)) : s \in {st}} : TRUE

-----------------------------------------------------------------------------
(* The refinement of ViewExport.                                           *)

\* The views whose export each call's meaning is supposed to reach.
Reports ==
  [ ViewRequestLatency |-> "latencyAdapter", ViewRequestResult |-> "resultAdapter",
    ViewListsTotal |-> "NewListsMetric", ViewListsDuration |-> "NewListDurationMetric",
    ViewItemsPerList |-> "NewItemsInListMetric", ViewWatchesTotal |-> "NewWatchesMetric",
    ViewShortWatchesTotal |-> "NewShortWatchesMetric", ViewWatchesDuration |-> "NewWatchDurationMetric",
    ViewItemsPerWatch |-> "NewItemsInWatchMetric", ViewLastResourceVersion |-> "NewLastResourceVersionMetric",
    ViewDepth |-> "NewDepthMetric", ViewAdds |-> "NewAddsMetric", ViewLatency |-> "NewLatencyMetric",
    ViewWorkDuration |-> "NewWorkDurationMetric", ViewRetries |-> "NewRetriesMetric",
    ViewLongestRunning |-> "NewLongestRunningProcessorMicrosecondsMetric",
    ViewUnfinishedWork |-> "NewUnfinishedWorkSecondsMetric" ]

\* The measurements of the goroutines between tag.New and stats.Record, in
\* some order: all are Count or Distribution records, whose order is
\* invisible.
InFlight ==
  LET ps == SetToSeq({p \in Callers : pc[p] = "record"})
  IN [i \in DOMAIN ps |-> [measurement[ps[i]] EXCEPT !.tags = ctx[ps[i]]]]

\* The view rows once the worker has handled its channel and every
\* goroutine between tag.New and stats.Record has recorded.
Drained == ProcessAll(RuntimeState, pending \o InFlight).data

ExportSources == {Reports[v] : v \in CheckedViews}

\* What ViewExport's exported stands for: the drained rows of the checked
\* view reporting each source.
Exported ==
  [s \in ExportSources |-> Drained[CHOOSE v \in CheckedViews : Reports[v] = s]]

Abs == INSTANCE ViewExport
         WITH exported <- Exported, Sources <- ExportSources,
              Values <- Floats \cup {Seconds(d) : d \in Durations} \cup {0},
              MethodsOf <- [s \in ExportSources |->
                              CASE s = "latencyAdapter" -> {"Observe"}
                                [] s = "resultAdapter"  -> {"Inc"}
                                [] OTHER -> InterfaceMethods[Providers[s].interface]]

-----------------------------------------------------------------------------
(* Actions.                                                                *)

\* init() has run: the adapters are registered with client-go and nothing
\* is recorded yet; the program may have registered metrics.DefaultViews.
Init ==
  /\ pc = [p \in Callers |-> "idle"]
  /\ ctx = [p \in Callers |-> NoTags]
  /\ measurement = [p \in Callers |-> Measurement("MeasureRequestLatency", 0, NoTags)]
  /\ pending = << >>
  /\ registered = IF RegisteredAtStart THEN Registered ELSE {}
  /\ regErrors = {}
  /\ data = [v \in DOMAIN AllViews |-> << >>]
  /\ expected = [s \in DOMAIN Providers \cup {"latencyAdapter", "resultAdapter"} |-> << >>]
  /\ calls = 0

\* The meaning of a call through s on tag row r.
Expect(s, r, method, x) ==
  LET old == Get(expected[s], r, Abs!Zero(method))
  IN expected' = [expected EXCEPT ![s] = Put(@, r, Abs!Meaning(method, old, x))]

\* Variant for mutation analysis: the tag map kept in one place shared by
\* all goroutines instead of a local of the call.
ObserveLatencySharedCtx(p, verb, u, latency) ==
  /\ pc[p] = "idle" /\ calls < MaxCalls
  /\ ctx' = [q \in Callers |-> TagNew(<< Insert(TagVerb, verb), Insert(TagURL, u) >>)]
  /\ measurement' = [measurement EXCEPT ![p] =
                       Measurement("MeasureRequestLatency", Seconds(latency), NoTags)]
  /\ pc' = [pc EXCEPT ![p] = "record"]
  /\ Expect("latencyAdapter", [verb |-> verb, url |-> u],
            "Observe", Seconds(latency))
  /\ calls' = calls + 1
  /\ UNCHANGED <<pending, registered, regErrors, data>>

\* Calls of latencyAdapter.Observe(verb, u, latency) and
\* resultAdapter.Increment(code, method, host) up to tag.New: the tag map
\* is a local of the calling goroutine.
ObserveLatency(p, verb, u, latency) ==
  /\ pc[p] = "idle" /\ calls < MaxCalls
  /\ ctx' = [ctx EXCEPT ![p] = TagNew(<< Insert(TagVerb, verb), Insert(TagURL, u) >>)]
  /\ measurement' = [measurement EXCEPT ![p] =
                       Measurement("MeasureRequestLatency", Seconds(latency), NoTags)]
  /\ pc' = [pc EXCEPT ![p] = "record"]
  /\ Expect("latencyAdapter", [verb |-> verb, url |-> u],
            "Observe", Seconds(latency))
  /\ calls' = calls + 1
  /\ UNCHANGED <<pending, registered, regErrors, data>>

IncrementResult(p, code, method, host) ==
  /\ pc[p] = "idle" /\ calls < MaxCalls
  /\ ctx' = [ctx EXCEPT ![p] = TagNew(<< Insert(TagCode, code), Insert(TagMethod, method),
                                         Insert(TagHost, host) >>)]
  /\ measurement' = [measurement EXCEPT ![p] = Measurement("MeasureRequestResult", 1, NoTags)]
  /\ pc' = [pc EXCEPT ![p] = "record"]
  /\ Expect("resultAdapter", [code |-> code, method |-> method, host |-> host],
            "Inc", 0)
  /\ calls' = calls + 1
  /\ UNCHANGED <<pending, registered, regErrors, data>>

\* The rest of both calls: stats.Record(ctx, measurement).
StatsRecord(p) ==
  /\ pc[p] = "record"
  /\ pending' = Append(pending, [measurement[p] EXCEPT !.tags = ctx[p]])
  /\ pc' = [pc EXCEPT ![p] = "idle"]
  /\ UNCHANGED <<ctx, measurement, registered, regErrors, data, expected, calls>>

\* A reflector or workqueue named name calls method of the metric that
\* provider method f returned for that name.  A workqueue only decrements
\* its depth gauge when it holds an item.
CallMetric(f, name, method, x) ==
  LET iface == Providers[f].interface
      r     == [name |-> name]
  IN /\ calls < MaxCalls
     /\ method \in InterfaceMethods[iface]
     /\ method = "Dec" => Get(expected[f], r, 0) > 0
     /\ pending' = Invoke(NewMetric(f, name), method, x)
     /\ Expect(f, r, method, x)
     /\ calls' = calls + 1
     /\ UNCHANGED <<pc, ctx, measurement, registered, regErrors, data>>

\* The program hands one of the two DefaultViews slices to view.Register,
\* which queues the request on the OpenCensus worker's channel.
ProgramRegister(views) ==
  /\ calls < MaxCalls
  /\ pending' = Append(pending, RegisterRequest(views))
  /\ calls' = calls + 1
  /\ UNCHANGED <<pc, ctx, measurement, registered, regErrors, data, expected>>

\* The OpenCensus worker handles the oldest request on its channel.
Worker ==
  /\ pending # << >>
  /\ LET st == Process(RuntimeState, Head(pending))
     IN /\ registered' = st.reg
        /\ regErrors' = st.errs
        /\ data' = st.data
  /\ pending' = Tail(pending)
  /\ UNCHANGED <<pc, ctx, measurement, expected, calls>>

Next ==
  \/ \E p \in Callers, verb, u \in TagValues, d \in Durations : ObserveLatency(p, verb, u, d)
  \/ \E p \in Callers, code, method, host \in TagValues : IncrementResult(p, code, method, host)
  \/ \E p \in Callers : StatsRecord(p)
  \/ \E f \in DOMAIN Providers, name \in Names, method \in {"Inc", "Dec", "Observe", "Set"} :
       \E x \in (IF method \in {"Observe", "Set"} THEN Floats ELSE {0}) :
         CallMetric(f, name, method, x)
  \/ \E views \in {DefaultViews, WebhookDefaultViews} : ProgramRegister(views)
  \/ Worker

\* stats.Record never blocks the caller and the worker goroutine keeps
\* draining its channel.
Spec == Init /\ [][Next]_vars

-----------------------------------------------------------------------------
(* Properties.                                                             *)

Quiescent == pending = << >> /\ \A p \in Callers : pc[p] = "idle"

TypeOK ==
  /\ pc \in [Callers -> {"idle", "record"}]
  /\ \A p \in Callers : DOMAIN ctx[p] \subseteq TagKeys
  /\ \A i \in DOMAIN pending : "views" \notin DOMAIN pending[i] =>
       /\ pending[i].measure \in DOMAIN Measures
       /\ pending[i].value \in Int
       /\ DOMAIN pending[i].tags \subseteq TagKeys
  /\ registered \cup regErrors \subseteq DOMAIN AllViews
  /\ DOMAIN data = DOMAIN AllViews
  /\ DOMAIN expected = DOMAIN Providers \cup {"latencyAdapter", "resultAdapter"}
  /\ calls \in 0..MaxCalls

\* Once every call has returned, the worker has drained its queue and the
\* program has registered metrics.DefaultViews, each checked view exports exactly what client-go's calls meant: one row per
\* tag combination called with, holding the count of Inc calls, the
\* current gauge value, the multiset of observations or the last value
\* set.  It takes the provider binding the right measure and tag, the
\* adapter method recording the right value, tag.New keeping each
\* goroutine's tags apart, and the view's aggregation fitting the
\* interface's meaning.
ExportedMatchesCalls ==
  Quiescent /\ Registered \subseteq registered => \A v \in CheckedViews : data[v] = expected[Reports[v]]

\* Every step of the adapters and the worker, seen through the drained
\* views, is either invisible or one client-go call taking effect at once
\* with its meaning: the queue to the worker and the window between
\* tag.New and stats.Record never show a partial, merged or misplaced call.
ImplementsViewExport == Abs!Spec

\* No view.Register call of the program fails: the views of pkg/metrics and
\* of pkg/webhook/metrics can be registered together, in any order and
\* more than once.
RegistrationSucceeds == regErrors = {}

\* Every measurement queued to OpenCensus is recorded in the unit its
\* measure's name states (the Prometheus naming convention the spec's
\* metric names follow): a duration named _seconds is declared in
\* seconds, a count named _total carries no unit.
RecordedUnitsFitNames ==
  \A i \in DOMAIN pending :
    "measure" \in DOMAIN pending[i] =>
      Measures[pending[i].measure].unit = Measures[pending[i].measure].nameUnit

=============================================================================
