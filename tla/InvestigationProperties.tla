----------------------- MODULE InvestigationProperties -----------------------
(***************************************************************************)
(* What the investigation agent promises: a root cause in a report rests   *)
(* on stored evidence of its own incident and run, and is found when it    *)
(* can be; a run that can report does.                                     *)
(***************************************************************************)
EXTENDS Investigation

CONSTANT Fault   \* condition of the cluster -> its root cause, or None

Causes == { "memory_limit_oom", "deployment_references_unpullable_image",
            "unsupported_order_mode_from_configmap", "service_selector_matches_no_payment_pods",
            "excessive_cpu_work_per_order", "payment_processor_failure_mode_enabled" }

Reasons == { "", "evidence unavailable", "no supported cause", "duration budget exhausted",
             "analysis call failed", "invalid analysis output", "root cause not verified" }

IdsOf(r) == {r} \X (0..MaxTargetCollections + 1) \X (Tools \cup {"invented"})

(* Types of the runs, of the tables and of the cluster's history.          *)
TypeOK ==
    /\ pc \in [Runs -> Labels]
    /\ \A r \in Runs :
        /\ incident[r] \in profile.incidents \cup {None}
        /\ scope[r].number \in 0..MaxTargetCollections + 1
        /\ Elements(todo[r]) \subseteq Tools
        /\ Ids(Elements(batch[r])) \cup Ids(Elements(records[r])) \subseteq IdsOf(r)
        /\ seen[r] \subseteq profile.workloads
        /\ report[r].status \in {"ROOT_CAUSE_FOUND", "INSUFFICIENT_EVIDENCE"}
        /\ report[r].status = "ROOT_CAUSE_FOUND" <=> report[r].root_cause # None
        /\ report[r].reason \in Reasons
        /\ report[r].tool_calls \in 0..Cardinality(Tools) * (MaxTargetCollections + 1)
        /\ investigations[r] \in {None, report[r]}
    /\ expired \subseteq Expirable
    /\ profile \in Profiles
    /\ Elements(history) \subseteq profile.conditions /\ Len(history) \in 1..profile.changes + 1
    /\ Earlier \subseteq evidence
    /\ Ids(evidence \ Earlier) \subseteq UNION {IdsOf(r) : r \in Runs}
-----------------------------------------------------------------------------
RowsOf(r, ids) == {row \in evidence : row.id \in ids /\ row.incident = incident[r].id}

(* What a cause has to rest on, read off the scenarios' documents: which   *)
(* tool must have shown what of which resource. "any" is any resource.     *)
Grounds(cause) ==
    CASE cause = "memory_limit_oom" ->
            { <<"kubernetes_get_pods", "payments-api", "oom_killed">>,
              <<"kubernetes_get_deployment", "payments-api", "memory_limit">> }
      [] cause = "deployment_references_unpullable_image" ->
            { <<"kubernetes_get_pods", "orders-api", "waiting_for_image">>,
              <<"kubernetes_get_deployment", "orders-api", "always_pull">>,
              <<"kubernetes_get_events", "orders-api", "pull_failed">> }
      [] cause = "unsupported_order_mode_from_configmap" ->
            { <<"kubernetes_get_orders_config", "orders-config", "order_mode_unsupported">>,
              <<"kubernetes_get_deployment", "orders-api", "reads_order_mode">>,
              <<"kubernetes_get_pods", "orders-api", "crash_loop">>,
              <<"kubernetes_get_pod_logs", "any", "invalid_order_mode">> }
      [] cause = "service_selector_matches_no_payment_pods" ->
            { <<"kubernetes_get_service", "payments-api", "disconnected">>,
              <<"kubernetes_get_endpointslices", "payments-api", "no_addresses">>,
              <<"kubernetes_get_pods", "payments-api", "ready">>,
              <<"prometheus_get_demo_metric_range", "frontend", "positive">> }
      [] cause = "excessive_cpu_work_per_order" ->
            { <<"kubernetes_get_deployment", "orders-api", "cpu_burn">>,
              <<"prometheus_get_demo_metric_range", "frontend", "slow">>,
              <<"prometheus_get_demo_metric_range", "orders-api", "slow">>,
              <<"tempo_get_trace", "any", "slow_checkout">> }
      [] cause = "payment_processor_failure_mode_enabled" ->
            { <<"kubernetes_get_deployment", "payments-api", "mode_fail">>,
              <<"prometheus_get_demo_metric_range", "frontend", "positive">>,
              <<"tempo_get_trace", "any", "payment_failure">> }

(* The same of the two causes that are verified outside the demo, where    *)
(* all records are of the one workload.                                    *)
ExternalGrounds(cause) ==
    CASE cause = "memory_limit_oom" ->
            { <<"kubernetes_get_pods", "oom_recently">>,
              <<"kubernetes_get_deployment", "memory_limit">> }
      [] cause = "deployment_references_unpullable_image" ->
            { <<"kubernetes_get_pods", "waiting_for_image">>,
              <<"kubernetes_get_events", "pull_failed_recently">> }
      [] OTHER -> {}

Metrics == {"error_rate", "heap_bytes", "success_latency_avg"}
Traces  == {"slow_trace", "failed_trace", "any_trace"}

Views(tool) ==
    CASE tool = "prometheus_get_demo_metric_range"                -> Metrics
      [] tool \in {"tempo_search_demo_traces", "tempo_get_trace"} -> Traces
      [] OTHER                                                    -> {tool}

(* Tools that do not observe the workload of the collection itself.        *)
Elsewhere == {"kubernetes_get_orders_config", "kubernetes_get_pod_logs"} \cup ChangeTools

(* A row says nothing that condition w of the cluster does not show, in    *)
(* one view of the workload the row is about.                              *)
Depicts(row, w) ==
    \E workload \in profile.workloads, view \in Views(row.tool) :
        LET now == Worlds[w][workload][view]
        IN  /\ row.tool \notin Elsewhere => row.resource = workload
            /\ row.shows \subseteq now.shows
            /\ row.pod = now.pod /\ row.image = now.image /\ row.limit = now.limit

SamePod(events, rows) ==
    \A pods \in rows : pods.tool = "kubernetes_get_pods" => events.pod = pods.pod

(* What the external verifiers compare between records, so that two        *)
(* moments are not taken for one: the limit that was exceeded is the limit *)
(* in force, and the image that failed is the one that is wanted now.      *)
Correlated(cause, rows) ==
    /\ ExternalGrounds(cause) # {}
    /\ \A ground \in ExternalGrounds(cause) : \E row \in rows :
            row.tool = ground[1] /\ ground[2] \in row.shows
    /\ cause = "memory_limit_oom" => \A row, other \in rows : row.limit = other.limit
    /\ cause = "deployment_references_unpullable_image" =>
            /\ \A row, other \in rows : row.image = other.image
            /\ \A row \in rows : row.tool = "kubernetes_get_events" => SamePod(row, rows)

(* Every record a root cause cites is in the table, for this incident, and *)
(* together they show all that the cause has to rest on; whatever the      *)
(* model answered, whichever tools failed and whenever the database did.   *)
(* Those of an image pull speak of one image and one pod, and the log is   *)
(* that of the pod that crashed.  (For an OOM kill the demo compares        *)
(* neither the limits nor the time of the kill.)                           *)
RootCauseIsGrounded ==
    \A r \in Runs : profile.mode = "demo" /\ report[r].status = "ROOT_CAUSE_FOUND" =>
        LET root == report[r].root_cause  rows == RowsOf(r, root.evidence)
        IN  /\ Ids(rows) = root.evidence
            /\ \A ground \in Grounds(root.cause) : \E row \in rows :
                    /\ row.tool = ground[1]
                    /\ ground[2] \in {"any", row.resource}
                    /\ ground[3] \in row.shows
            /\ root.cause = "deployment_references_unpullable_image" =>
                    /\ Cardinality({row.image : row \in rows}) = 1
                    /\ \A row \in rows : row.tool = "kubernetes_get_events" => SamePod(row, rows)
            /\ \A log, pods \in rows :
                    log.tool = "kubernetes_get_pod_logs" /\ pods.tool = "kubernetes_get_pods" =>
                        log.resource = pods.pod

(* Every record a root cause cites was taken in this run, of a condition   *)
(* the cluster was in while the run lasted: nothing is cited that an       *)
(* earlier investigation of the incident saw.  The cluster may have changed *)
(* between two of the records; outside the demo they must still agree on   *)
(* what ties them to one event, and the kill must be of the incident.      *)
FoundCausesWereObserved ==
    \A r \in Runs : report[r].status = "ROOT_CAUSE_FOUND" =>
        LET root == report[r].root_cause  rows == RowsOf(r, root.evidence)
        IN  /\ Ids(rows) = root.evidence
            /\ \A row \in rows : \E w \in Elements(history) : Depicts(row, w)
            /\ profile.mode = "external" => Correlated(root.cause, rows)

(* A report, its root cause and its hypotheses cite only evidence that is  *)
(* stored for the report's incident and that the report lists; a           *)
(* hypothesis without such evidence is unresolved.                         *)
ReportsCiteTheirEvidence ==
    \A r \in Runs : incident[r] # None =>
        /\ Ids(RowsOf(r, report[r].evidence)) = report[r].evidence
        /\ report[r].root_cause # None => report[r].root_cause.evidence \subseteq report[r].evidence
        /\ \A i \in DOMAIN report[r].hypotheses :
             LET hypothesis == report[r].hypotheses[i]
             IN  /\ hypothesis.evidence \subseteq report[r].evidence
                 /\ hypothesis.status # "unresolved" => hypothesis.evidence # {}

(* What the collector hands over always fits the table: at most 16         *)
(* records, and no tool twice, which would void the whole batch.           *)
BatchesAreStorable ==
    \A r \in Runs : pc[r] = "save_batch" => Storable(batch[r])

(* Where Window accepts an incident whose telemetry the server may refuse: *)
(* it was resolved almost a day ago, and the window, which begins up to    *)
(* two minutes before it, reaches out of the last 24 hours at once or      *)
(* before the run is over.                                                 *)
TelemetryLost(inc) ==
    inc.started > Day - Lead - RunLimit /\ inc.resolved > Day - Hour - RunLimit

(* No call of a collection is refused: every tool it plans or goes on to   *)
(* is one that the server offers to the profile, for a workload of the     *)
(* profile and over a window the server takes, also two minutes later.     *)
(* Exempt are a demo without Argo CD, which the first call finds out, and   *)
(* the telemetry that is lost; an incident that lasts is never exempt.     *)
PlannedCallsAreServed ==
    \A r \in Runs : pc[r] = "call" =>
        \A tool \in Elements(todo[r]) :
            \/ tool = "argocd_get_application" /\ ~profile.change_sources
            \/ tool \in TimedTools /\ TelemetryLost(incident[r])
            \/ Serves(profile, tool, scope[r].workload, incident[r], RunLimit)

(* The budgets: two calls of the model, the second only as the one retry,  *)
(* and three collections of different workloads.                           *)
WithinBudgets ==
    \A r \in Runs :
        /\ report[r].llm_calls <= 1 + report[r].llm_retries
        /\ report[r].llm_retries <= 1
        /\ Cardinality(seen[r]) = scope[r].number /\ scope[r].number <= 3

-----------------------------------------------------------------------------
(* A run that began to collect ends with a stored report, however many     *)
(* tools fail and though its deadline passes, unless its process dies or   *)
(* the database refuses it.                                                *)
EveryRunReports ==
    \A r \in Runs \ (Faulty \cup Killable) :
        pc[r] \notin {"start", "failed"} ~> investigations[r] # None

ComponentOf(cause) ==
    IF cause \in {"memory_limit_oom", "service_selector_matches_no_payment_pods",
                  "payment_processor_failure_mode_enabled"}
    THEN "payments-api" ELSE "orders-api"

SeenInTelemetry ==
    { "service_selector_matches_no_payment_pods", "excessive_cpu_work_per_order",
      "payment_processor_failure_mode_enabled" }

(* A run looks where the fault is, at the metric that shows it, and in     *)
(* time: the incident is of the last 24 hours when the collection begins   *)
(* that reaches the faulty component.                                      *)
Reachable(inc, cause) ==
    /\ inc.started <= (IF inc.service = ComponentOf(cause) THEN Day ELSE Day - RunLimit)
    /\ cause \in SeenInTelemetry => ~TelemetryLost(inc)
    /\ CASE cause = "excessive_cpu_work_per_order" ->
                inc.service = "frontend" /\ inc.alert = "DemoCheckoutLatency"
          [] cause \in SeenInTelemetry \ {"excessive_cpu_work_per_order"} ->
                inc.service = "frontend" /\ inc.alert # "DemoCheckoutLatency"
          [] cause = "memory_limit_oom" -> TRUE
          [] OTHER -> inc.service # "payments-api"

(* The scenarios' promise: while a fault lasts and no tool that shows it   *)
(* fails, an investigation of an incident upstream of it, whose alert      *)
(* makes it look at the right metric, finds that root cause with an honest *)
(* model, or says that the deadline or the model was the reason not to.    *)
(* So it is up to the last second of the 24 hours, and the causes that     *)
(* Kubernetes shows are found even if the telemetry is refused.            *)
KnownFaultsAreFound ==
    \A r \in Runs :
        LET cause == Fault[history[1]]
        IN  incident[r] # None /\ incident[r].allowed /\ cause # None
              /\ Reachable(incident[r], cause)
            ~> \/ r \in expired
               \/ /\ investigations[r] # None
                  /\ \/ investigations[r].reason \in {"analysis call failed", "invalid analysis output"}
                     \/ /\ investigations[r].root_cause # None
                        /\ investigations[r].root_cause.cause = cause

(* The broken-service-selector scenario: the root cause "requires cited    *)
(* Service selector, empty EndpointSlice, ready payment pod, and frontend  *)
(* error-rate evidence" (scenarios/broken-service-selector/README.md).     *)
SelectorCauseCitesErrorRate ==
    \A r \in Runs :
        report[r].root_cause # None
          /\ report[r].root_cause.cause = "service_selector_matches_no_payment_pods" =>
        \E row \in RowsOf(r, report[r].root_cause.evidence) : row.metric = "error_rate"
=============================================================================
