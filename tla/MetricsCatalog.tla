--------------------------- MODULE MetricsCatalog ---------------------------
(***************************************************************************)
(* The declarations of pkg/metrics: the OpenCensus measures and tag keys   *)
(* of the client-go adapters (src/unnamed/part_000) and the views of       *)
(* default_views.go.  Everything here is a constant of the process: the    *)
(* Go package-level vars are evaluated once, before main.                   *)
(*                                                                         *)
(* A measure is identified by its Go variable name and carries the value   *)
(* kind of stats.Int64 / stats.Float64 and its unit.  A view records the    *)
(* measure it aggregates, its aggregation and the tag keys it groups by.   *)
(* Bucket boundaries of Distribution views are left out: a view's data is  *)
(* modelled as the multiset of values it received, of which the bucket     *)
(* counts are a function.                                                  *)
(***************************************************************************)
EXTENDS Sequences, FiniteSets, Functions, TLC

Int64   == "Int64"
Float64 == "Float64"
UnitNone == "1"    \* stats.UnitNone

Count        == "Count"
LastValue    == "LastValue"
Distribution == "Distribution"

\* The measures of the client-go adapters, in declaration order.  The
\* measure's name string is abstracted to the unit its suffix states
\* (nameUnit): "s" for _seconds, "us" for _microseconds, none otherwise.
Measures ==
  [ MeasureRequestLatency      |-> [kind |-> Float64, unit |-> "s", nameUnit |-> "s"],
    MeasureRequestResult       |-> [kind |-> Int64,   unit |-> UnitNone, nameUnit |-> UnitNone],
    MeasureListsTotal          |-> [kind |-> Int64,   unit |-> UnitNone, nameUnit |-> UnitNone],
    MeasureListsDuration       |-> [kind |-> Float64, unit |-> UnitNone, nameUnit |-> "s"],
    MeasureItemsPerList        |-> [kind |-> Float64, unit |-> UnitNone, nameUnit |-> UnitNone],
    MeasureWatchesTotal        |-> [kind |-> Int64,   unit |-> UnitNone, nameUnit |-> UnitNone],
    MeasureShortWatchesTotal   |-> [kind |-> Int64,   unit |-> UnitNone, nameUnit |-> UnitNone],
    MeasureWatchDuration       |-> [kind |-> Float64, unit |-> UnitNone, nameUnit |-> "s"],
    MeasureItemsPerWatch       |-> [kind |-> Float64, unit |-> UnitNone, nameUnit |-> UnitNone],
    MeasureLastResourceVersion |-> [kind |-> Float64, unit |-> UnitNone, nameUnit |-> UnitNone],
    MeasureDepth               |-> [kind |-> Int64,   unit |-> UnitNone, nameUnit |-> UnitNone],
    MeasureAdds                |-> [kind |-> Int64,   unit |-> UnitNone, nameUnit |-> UnitNone],
    MeasureLatency             |-> [kind |-> Float64, unit |-> "s", nameUnit |-> "s"],
    MeasureWorkDuration        |-> [kind |-> Float64, unit |-> "s", nameUnit |-> "s"],
    MeasureRetries             |-> [kind |-> Int64,   unit |-> "s", nameUnit |-> UnitNone],
    MeasureLongestRunning      |-> [kind |-> Float64, unit |-> "us", nameUnit |-> "us"],
    MeasureUnfinishedWork      |-> [kind |-> Float64, unit |-> "s", nameUnit |-> "s"] ]

\* TagVerb .. TagName, each built by mustNewTagKey; the six names are
\* 1..255 printable ASCII bytes, so none of the panics can fire.
TagVerb   == "verb"
TagURL    == "url"
TagCode   == "code"
TagMethod == "method"
TagHost   == "host"
TagName   == "name"
TagKeys   == {TagVerb, TagURL, TagCode, TagMethod, TagHost, TagName}

\* The rest-client views.
ClientViews ==
  [ ViewRequestLatency |->
      [name |-> "rest_client_request_latency_seconds",
       measure |-> "MeasureRequestLatency", aggregation |-> Distribution,
       tagKeys |-> {TagVerb, TagURL}],
    ViewRequestResult |->
      [name |-> "rest_client_requests_total",
       measure |-> "MeasureRequestResult", aggregation |-> Count,
       tagKeys |-> {TagCode, TagMethod, TagHost}] ]

\* A view grouped by the queue or reflector name, as all the remaining ones are.
NameView(name, measure, aggregation) ==
  [name |-> name, measure |-> measure, aggregation |-> aggregation,
   tagKeys |-> {TagName}]

\* The reflector views.
ReflectorViews ==
  [ ViewListsTotal          |-> NameView("reflector_lists_total", "MeasureListsTotal", Count),
    ViewListsDuration       |-> NameView("reflector_list_duration_seconds", "MeasureListsDuration", Distribution),
    ViewItemsPerList        |-> NameView("reflector_items_per_list", "MeasureItemsPerList", Distribution),
    ViewWatchesTotal        |-> NameView("reflector_watches_total", "MeasureWatchesTotal", Count),
    ViewShortWatchesTotal   |-> NameView("reflector_short_watches_total", "MeasureShortWatchesTotal", Count),
    ViewWatchesDuration     |-> NameView("reflector_watch_duration_seconds", "MeasureWatchDuration", Distribution),
    ViewItemsPerWatch       |-> NameView("reflector_items_per_watch", "MeasureItemsPerWatch", Distribution),
    ViewLastResourceVersion |-> NameView("reflector_last_resource_version", "MeasureLastResourceVersion", LastValue) ]

\* The workqueue views.
WorkqueueViews ==
  [ ViewDepth          |-> NameView("workqueue_depth", "MeasureDepth", LastValue),
    ViewAdds           |-> NameView("workqueue_adds_total", "MeasureAdds", Count),
    ViewLatency        |-> NameView("workqueue_queue_latency_seconds", "MeasureLatency", Distribution),
    ViewWorkDuration   |-> NameView("workqueue_work_duration_seconds", "MeasureWorkDuration", Distribution),
    ViewRetries        |-> NameView("workqueue_retries_total", "MeasureRetries", Count),
    ViewLongestRunning |-> NameView("workqueue_longest_running_processor_microseconds", "MeasureLongestRunning", LastValue),
    ViewUnfinishedWork |-> NameView("workqueue_unfinished_work_seconds", "MeasureUnfinishedWork", LastValue) ]

Views == ClientViews @@ ReflectorViews @@ WorkqueueViews

\* metrics.DefaultViews, the slice a program hands to view.Register.
DefaultViews ==
  << "ViewRequestLatency", "ViewRequestResult",
     "ViewListsTotal", "ViewListsDuration", "ViewItemsPerList",
     "ViewWatchesTotal", "ViewShortWatchesTotal", "ViewWatchesDuration",
     "ViewItemsPerWatch", "ViewLastResourceVersion",
     "ViewDepth", "ViewAdds", "ViewLatency", "ViewWorkDuration",
     "ViewRetries", "ViewLongestRunning", "ViewUnfinishedWork" >>

=============================================================================
