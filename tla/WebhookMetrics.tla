--------------------------- MODULE WebhookMetrics ---------------------------
(***************************************************************************)
(* The declarations of pkg/webhook/metrics: two measures, two tag keys and *)
(* two views with their own DefaultViews (metrics.go, src/unnamed/part_001).*)
(* The package is also named metrics, so its identifiers are prefixed with *)
(* "webhook." to keep them apart from pkg/metrics' MeasureRequestLatency,   *)
(* ViewRequestLatency and DefaultViews.  The webhook server code recording *)
(* these measures is not part of this source tree.                         *)
(***************************************************************************)
EXTENDS MetricsCatalog

\* MeasureTotalRequests and MeasureRequestLatency of the webhook package.
WebhookMeasures ==
     ("webhook.MeasureTotalRequests"  :> [kind |-> Int64,   unit |-> UnitNone])
  @@ ("webhook.MeasureRequestLatency" :> [kind |-> Float64, unit |-> "s"])

\* TagWebhook and TagSucceeded, built by the package's own mustNewTagKey.
TagWebhook   == "webhook"
TagSucceeded == "succeeded"
WebhookTagKeys == {TagWebhook, TagSucceeded}

\* Variant for mutation analysis: the latency view exported under the
\* rest client's name, as a copy of pkg/metrics' ViewRequestLatency would.
WebhookViewsNameClash ==
     ("webhook.ViewTotalRequests" :>
        [name |-> "controller_runtime_webhook_requests_total",
         measure |-> "webhook.MeasureTotalRequests", aggregation |-> Count,
         tagKeys |-> {TagWebhook, TagSucceeded}])
  @@ ("webhook.ViewRequestLatency" :>
        [name |-> "rest_client_request_latency_seconds",
         measure |-> "webhook.MeasureRequestLatency", aggregation |-> Distribution,
         tagKeys |-> {TagWebhook}])

\* ViewTotalRequests and ViewRequestLatency of the webhook package.
WebhookViews ==
     ("webhook.ViewTotalRequests" :>
        [name |-> "controller_runtime_webhook_requests_total",
         measure |-> "webhook.MeasureTotalRequests", aggregation |-> Count,
         tagKeys |-> {TagWebhook, TagSucceeded}])
  @@ ("webhook.ViewRequestLatency" :>
        [name |-> "controller_runtime_webhook_latency_seconds",
         measure |-> "webhook.MeasureRequestLatency", aggregation |-> Distribution,
         tagKeys |-> {TagWebhook}])

\* The webhook package's DefaultViews.
WebhookDefaultViews == << "webhook.ViewTotalRequests", "webhook.ViewRequestLatency" >>

=============================================================================
