------------------------ MODULE InvestigationProofs ------------------------
(***************************************************************************)
(* Machine-checked facts about investigations: any number of runs of any   *)
(* profile against any cluster, whatever its tools show, the model answers *)
(* and the tables hold of earlier runs.                                    *)
(*                                                                         *)
(* First what a root cause rests on, verifier by verifier; then the        *)
(* inductive invariant IInv and one lemma per action that keeps it; at the *)
(* end the theorems that follow from it.                                   *)
(***************************************************************************)
EXTENDS InvestigationProperties, FiniteSetTheorems, WellFoundedInduction, TLAPS

(* What is collected is a sequence, of whatever it holds.                  *)
Sequence(s) == s \in Seq(Elements(s))

LEMMA EmptySequence == Sequence(<<>>) /\ Elements(<<>>) = {}
BY DEF Sequence, Elements

LEMMA Appended ==
    ASSUME NEW s, NEW x, Sequence(s)
    PROVE  /\ Sequence(Append(s, x))
           /\ Len(s) \in Nat /\ DOMAIN s = 1..Len(s)
           /\ DOMAIN Append(s, x) = 1..(Len(s) + 1)
           /\ \A i \in DOMAIN s : Append(s, x)[i] = s[i]
           /\ Append(s, x)[Len(s) + 1] = x
           /\ Elements(Append(s, x)) = Elements(s) \cup {x}
<1> DEFINE T == Elements(s) \cup {x}
<1>1. s \in Seq(T)
    BY DEF Sequence
<1>2. /\ Len(s) \in Nat /\ DOMAIN s = 1..Len(s)
      /\ Append(s, x) \in Seq(T)
      /\ DOMAIN Append(s, x) = 1..(Len(s) + 1)
      /\ \A i \in DOMAIN s : Append(s, x)[i] = s[i]
      /\ Append(s, x)[Len(s) + 1] = x
    BY <1>1
<1>3. Elements(Append(s, x)) = T
    BY <1>2 DEF Elements
<1> QED
    BY <1>2, <1>3 DEF Sequence

LEMMA Joined ==
    ASSUME NEW s, NEW t, Sequence(s), Sequence(t)
    PROVE  /\ Sequence(s \o t)
           /\ Elements(s \o t) = Elements(s) \cup Elements(t)
<1> DEFINE T == Elements(s) \cup Elements(t)
<1>1. s \in Seq(T) /\ t \in Seq(T)
    BY DEF Sequence
<1>2. /\ Len(s) \in Nat /\ DOMAIN s = 1..Len(s)
      /\ Len(t) \in Nat /\ DOMAIN t = 1..Len(t)
      /\ s \o t \in Seq(T)
      /\ DOMAIN (s \o t) = 1..(Len(s) + Len(t))
      /\ \A i \in DOMAIN s : (s \o t)[i] = s[i]
      /\ \A i \in DOMAIN t : (s \o t)[Len(s) + i] = t[i]
      /\ \A i \in 1..(Len(s) + Len(t)) : i \notin DOMAIN s => (s \o t)[i] = t[i - Len(s)]
    BY <1>1
<1>3. \A i \in DOMAIN (s \o t) : (s \o t)[i] \in T
    BY <1>2 DEF Elements
<1>4. Elements(s \o t) \subseteq T
    BY <1>3 DEF Elements
<1>5. Elements(s) \subseteq Elements(s \o t)
    BY <1>2 DEF Elements
<1>6. ASSUME NEW i \in DOMAIN t
      PROVE  t[i] \in Elements(s \o t)
  <2>1. Len(s) + i \in DOMAIN (s \o t)
    BY <1>2
  <2> QED
    BY <1>2, <2>1 DEF Elements
<1>7. T \subseteq Elements(s \o t)
    BY <1>5, <1>6 DEF Elements
<1> QED
    BY <1>2, <1>4, <1>7 DEF Sequence

-----------------------------------------------------------------------------
LEMMA Greatest ==
    ASSUME NEW n \in Nat, NEW hits \in SUBSET (1..n), hits # {}
    PROVE  (CHOOSE i \in hits : \A j \in hits : j <= i) \in hits
<1> DEFINE below == {k \in Nat : n - k \in hits}
<1>1. below \subseteq Nat /\ below # {}
  <2>1. PICK i \in hits : TRUE
    OBVIOUS
  <2>2. n - i \in below
    BY <2>1
  <2> QED
    BY <2>2
<1>2. \E k \in below : \A l \in below : ~ (<<l, k>> \in OpToRel(<, Nat))
    BY <1>1, NatLessThanWellFounded, WFMin
<1>3. PICK k \in below : \A l \in below : ~ (l < k)
    BY <1>2 DEF OpToRel
<1>4. \A j \in hits : n - j \in below
    OBVIOUS
<1>5. n - k \in hits /\ \A j \in hits : j <= n - k
    BY <1>3, <1>4
<1> QED
    BY <1>5

LEMMA Least ==
    ASSUME NEW hits \in SUBSET Nat, hits # {}
    PROVE  (CHOOSE i \in hits : \A j \in hits : i <= j) \in hits
<1>1. \E k \in hits : \A l \in hits : ~ (<<l, k>> \in OpToRel(<, Nat))
    BY NatLessThanWellFounded, WFMin
<1>2. PICK k \in hits : \A l \in hits : ~ (l < k)
    BY <1>1 DEF OpToRel
<1>3. k \in hits /\ \A j \in hits : k <= j
    BY <1>2
<1> QED
    BY <1>3

LEMMA EvidenceFound ==
    ASSUME NEW recs, Sequence(recs), NEW cited, NEW tool, NEW resource, NEW fact,
           NEW found, found = Evidence(recs, cited, tool, resource, fact), found # None
    PROVE  /\ found \in Elements(recs) /\ found.id \in cited
           /\ found.tool = tool /\ found.resource = resource /\ fact \in found.shows
<1> DEFINE hits == {i \in DOMAIN recs : recs[i].id \in cited /\ Shows(recs[i], tool, resource, fact)}
<1>1. Len(recs) \in Nat /\ hits \in SUBSET (1..Len(recs))
    BY DEF Sequence
<1>2. hits # {} /\ found = recs[CHOOSE i \in hits : \A j \in hits : j <= i]
    BY DEF Evidence, Last
<1>3. (CHOOSE i \in hits : \A j \in hits : j <= i) \in hits
    BY <1>1, <1>2, Greatest
<1> QED
    BY <1>2, <1>3 DEF Shows, Elements

LEMMA MetricFound ==
    ASSUME NEW recs, Sequence(recs), NEW cited, NEW resource, NEW metric, NEW fact,
           NEW found, found = Metric(recs, cited, resource, metric, fact), found # None
    PROVE  /\ found \in Elements(recs) /\ found.id \in cited
           /\ found.tool = "prometheus_get_demo_metric_range"
           /\ found.resource = resource /\ fact \in found.shows
<1> DEFINE hits == {i \in DOMAIN recs :
                        /\ recs[i].id \in cited
                        /\ Shows(recs[i], "prometheus_get_demo_metric_range", resource, fact)
                        /\ recs[i].metric = metric}
<1>1. Len(recs) \in Nat /\ hits \in SUBSET (1..Len(recs))
    BY DEF Sequence
<1>2. hits # {} /\ found = recs[CHOOSE i \in hits : \A j \in hits : j <= i]
    BY DEF Metric, Last
<1>3. (CHOOSE i \in hits : \A j \in hits : j <= i) \in hits
    BY <1>1, <1>2, Greatest
<1> QED
    BY <1>2, <1>3 DEF Shows, Elements

LEMMA TraceFound ==
    ASSUME NEW recs, Sequence(recs), NEW cited, NEW fact,
           NEW found, found = Trace(recs, cited, fact), found # None
    PROVE  /\ found \in Elements(recs) /\ found.id \in cited
           /\ found.tool = "tempo_get_trace" /\ fact \in found.shows
<1> DEFINE hits == {i \in DOMAIN recs :
                        recs[i].id \in cited /\ recs[i].tool = "tempo_get_trace" /\ fact \in recs[i].shows}
<1>1. Len(recs) \in Nat /\ hits \in SUBSET (1..Len(recs))
    BY DEF Sequence
<1>2. hits # {} /\ found = recs[CHOOSE i \in hits : \A j \in hits : j <= i]
    BY DEF Trace, Last
<1>3. (CHOOSE i \in hits : \A j \in hits : j <= i) \in hits
    BY <1>1, <1>2, Greatest
<1> QED
    BY <1>2, <1>3 DEF Elements

LEMMA ScopedFound ==
    ASSUME NEW recs, Sequence(recs), NEW tool, NEW resource,
           NEW found, found = Scoped(recs, tool, resource), found # None
    PROVE  found \in Elements(recs)
<1> DEFINE hits == {i \in DOMAIN recs : recs[i].tool = tool /\ recs[i].resource = resource}
<1>1. Len(recs) \in Nat /\ hits \in SUBSET (1..Len(recs))
    BY DEF Sequence
<1>2. hits # {} /\ found = recs[CHOOSE i \in hits : \A j \in hits : j <= i]
    BY DEF Scoped, Last
<1>3. (CHOOSE i \in hits : \A j \in hits : j <= i) \in hits
    BY <1>1, <1>2, Greatest
<1> QED
    BY <1>2, <1>3 DEF Elements

-----------------------------------------------------------------------------
(* What makes a root cause grounded, said of the records it cites.         *)
Shown(cause, rows) ==
    /\ \A ground \in Grounds(cause) : \E row \in rows :
            /\ row.tool = ground[1]
            /\ ground[2] \in {"any", row.resource}
            /\ ground[3] \in row.shows
    /\ cause = "deployment_references_unpullable_image" =>
            /\ \E image : {row.image : row \in rows} = {image}
            /\ \A row \in rows : row.tool = "kubernetes_get_events" => SamePod(row, rows)
    /\ \A log, pods \in rows :
            log.tool = "kubernetes_get_pod_logs" /\ pods.tool = "kubernetes_get_pods" =>
                log.resource = pods.pod

Rests(root, rows) == root.evidence = Ids(rows)

LEMMA OOMShown ==
    ASSUME NEW recs, Sequence(recs), NEW cited,
           NEW root, root = VerifyOOM(recs, cited), root # None
    PROVE  \E rows \in SUBSET Elements(recs) : Rests(root, rows) /\ Shown(root.cause, rows)
<1> DEFINE pods   == Evidence(recs, cited, "kubernetes_get_pods", "payments-api", "oom_killed")
           deploy == Evidence(recs, cited, "kubernetes_get_deployment", "payments-api", "memory_limit")
           rows   == {pods, deploy}
<1>1. /\ None \notin rows
      /\ root = [component |-> "payments-api", cause |-> "memory_limit_oom",
                 evidence |-> {record.id : record \in rows}]
    BY DEF VerifyOOM, Supported
<1>2. /\ pods \in Elements(recs) /\ pods.tool = "kubernetes_get_pods"
      /\ pods.resource = "payments-api" /\ "oom_killed" \in pods.shows
    BY <1>1, EvidenceFound
<1>3. /\ deploy \in Elements(recs) /\ deploy.tool = "kubernetes_get_deployment"
      /\ deploy.resource = "payments-api" /\ "memory_limit" \in deploy.shows
    BY <1>1, EvidenceFound
<1> HIDE DEF pods, deploy
<1>4. Rests(root, rows) /\ root.cause = "memory_limit_oom"
    BY <1>1 DEF Rests, Ids
<1>5. Shown("memory_limit_oom", rows)
    BY <1>2, <1>3 DEF Shown, Grounds
<1> QED
    BY <1>2, <1>3, <1>4, <1>5

LEMMA ImagePullShown ==
    ASSUME NEW recs, Sequence(recs), NEW cited,
           NEW root, root = VerifyImagePull(recs, cited), root # None
    PROVE  \E rows \in SUBSET Elements(recs) : Rests(root, rows) /\ Shown(root.cause, rows)
<1> DEFINE pod    == Evidence(recs, cited, "kubernetes_get_pods", "orders-api", "waiting_for_image")
           deploy == Evidence(recs, cited, "kubernetes_get_deployment", "orders-api", "image")
           hits   == {i \in DOMAIN recs : /\ recs[i].id \in cited
                                          /\ recs[i].tool = "kubernetes_get_events"
                                          /\ recs[i].resource = "orders-api"}
           events == IF hits = {} THEN None ELSE recs[CHOOSE i \in hits : \A j \in hits : j <= i]
           rows   == {pod, deploy, events}
<1>1. /\ None \notin rows
      /\ pod.image = deploy.image /\ events.image = deploy.image /\ events.pod = pod.pod
      /\ "always_pull" \in deploy.shows /\ "pull_failed" \in events.shows
      /\ root = Supported("orders-api", "deployment_references_unpullable_image", rows)
    BY DEF VerifyImagePull, Last
<1>2. root = [component |-> "orders-api", cause |-> "deployment_references_unpullable_image",
              evidence |-> {record.id : record \in rows}]
    BY <1>1 DEF Supported
<1>3. /\ pod \in Elements(recs) /\ pod.tool = "kubernetes_get_pods"
      /\ pod.resource = "orders-api" /\ "waiting_for_image" \in pod.shows
    BY <1>1, EvidenceFound
<1>4. /\ deploy \in Elements(recs) /\ deploy.tool = "kubernetes_get_deployment"
      /\ deploy.resource = "orders-api"
    BY <1>1, EvidenceFound
<1>5. /\ events \in Elements(recs) /\ events.tool = "kubernetes_get_events"
      /\ events.resource = "orders-api"
  <2>1. Len(recs) \in Nat /\ hits \in SUBSET (1..Len(recs))
    BY DEF Sequence
  <2>2. hits # {}
    BY <1>1
  <2>3. (CHOOSE i \in hits : \A j \in hits : j <= i) \in hits
    BY <2>1, <2>2, Greatest
  <2> QED
    BY <2>2, <2>3 DEF Elements
<1> HIDE DEF pod, deploy, events
<1>6. Rests(root, rows) /\ root.cause = "deployment_references_unpullable_image"
    BY <1>2 DEF Rests, Ids
<1>7. {row.image : row \in rows} = {deploy.image}
    BY <1>1
<1>8. Shown("deployment_references_unpullable_image", rows)
  <2>1. Grounds("deployment_references_unpullable_image") =
            { <<"kubernetes_get_pods", "orders-api", "waiting_for_image">>,
              <<"kubernetes_get_deployment", "orders-api", "always_pull">>,
              <<"kubernetes_get_events", "orders-api", "pull_failed">> }
    BY DEF Grounds
  <2>2. \A row \in rows : row.tool # "kubernetes_get_pod_logs"
    BY <1>3, <1>4, <1>5
  <2>3. \A row \in rows : row.tool = "kubernetes_get_events" => SamePod(row, rows)
    BY <1>1, <1>3, <1>4, <1>5 DEF SamePod
  <2> QED
    BY <1>1, <1>3, <1>4, <1>5, <1>7, <2>1, <2>2, <2>3 DEF Shown
<1> QED
    BY <1>3, <1>4, <1>5, <1>6, <1>8

LEMMA InvalidOrderConfigShown ==
    ASSUME NEW recs, Sequence(recs), NEW cited,
           NEW root, root = VerifyInvalidOrderConfig(recs, cited), root # None
    PROVE  \E rows \in SUBSET Elements(recs) : Rests(root, rows) /\ Shown(root.cause, rows)
<1> DEFINE config == Evidence(recs, cited, "kubernetes_get_orders_config", "orders-config",
                              "order_mode_unsupported")
           deploy == Evidence(recs, cited, "kubernetes_get_deployment", "orders-api", "reads_order_mode")
           pod    == Evidence(recs, cited, "kubernetes_get_pods", "orders-api", "crash_loop")
           log    == Evidence(recs, cited, "kubernetes_get_pod_logs", pod.pod, "invalid_order_mode")
           rows   == {config, deploy, pod, log}
<1>1. /\ None \notin rows
      /\ root = [component |-> "orders-api", cause |-> "unsupported_order_mode_from_configmap",
                 evidence |-> {record.id : record \in rows}]
    BY DEF VerifyInvalidOrderConfig, Supported
<1>2. /\ config \in Elements(recs) /\ config.tool = "kubernetes_get_orders_config"
      /\ config.resource = "orders-config" /\ "order_mode_unsupported" \in config.shows
    BY <1>1, EvidenceFound
<1>3. /\ deploy \in Elements(recs) /\ deploy.tool = "kubernetes_get_deployment"
      /\ deploy.resource = "orders-api" /\ "reads_order_mode" \in deploy.shows
    BY <1>1, EvidenceFound
<1>4. /\ pod \in Elements(recs) /\ pod.tool = "kubernetes_get_pods"
      /\ pod.resource = "orders-api" /\ "crash_loop" \in pod.shows
    BY <1>1, EvidenceFound
<1>5. /\ log \in Elements(recs) /\ log.tool = "kubernetes_get_pod_logs"
      /\ log.resource = pod.pod /\ "invalid_order_mode" \in log.shows
    BY <1>1, EvidenceFound
<1> HIDE DEF config, deploy, pod, log
<1>6. Rests(root, rows) /\ root.cause = "unsupported_order_mode_from_configmap"
    BY <1>1 DEF Rests, Ids
<1>7. Grounds("unsupported_order_mode_from_configmap") =
          { <<"kubernetes_get_orders_config", "orders-config", "order_mode_unsupported">>,
            <<"kubernetes_get_deployment", "orders-api", "reads_order_mode">>,
            <<"kubernetes_get_pods", "orders-api", "crash_loop">>,
            <<"kubernetes_get_pod_logs", "any", "invalid_order_mode">> }
    BY DEF Grounds
<1>8. \A x, y \in rows : x.tool = "kubernetes_get_pod_logs" /\ y.tool = "kubernetes_get_pods" =>
                            x.resource = y.pod
    BY <1>2, <1>3, <1>4, <1>5
<1>9. Shown("unsupported_order_mode_from_configmap", rows)
    BY <1>2, <1>3, <1>4, <1>5, <1>7, <1>8 DEF Shown
<1> QED
    BY <1>2, <1>3, <1>4, <1>5, <1>6, <1>9

LEMMA BrokenServiceSelectorShown ==
    ASSUME NEW recs, Sequence(recs), NEW cited,
           NEW root, root = VerifyBrokenServiceSelector(recs, cited), root # None
    PROVE  \E rows \in SUBSET Elements(recs) : Rests(root, rows) /\ Shown(root.cause, rows)
<1> DEFINE service   == Evidence(recs, cited, "kubernetes_get_service", "payments-api", "disconnected")
           endpoints == Evidence(recs, cited, "kubernetes_get_endpointslices", "payments-api",
                                 "no_addresses")
           pods      == Evidence(recs, cited, "kubernetes_get_pods", "payments-api", "ready")
           sample    == Evidence(recs, cited, "prometheus_get_demo_metric_range", "frontend", "positive")
           rows      == {service, endpoints, pods, sample}
<1>1. /\ None \notin rows
      /\ root = [component |-> "payments-api", cause |-> "service_selector_matches_no_payment_pods",
                 evidence |-> {record.id : record \in rows}]
    BY DEF VerifyBrokenServiceSelector, Supported
<1>2. /\ service \in Elements(recs) /\ service.tool = "kubernetes_get_service"
      /\ service.resource = "payments-api" /\ "disconnected" \in service.shows
    BY <1>1, EvidenceFound
<1>3. /\ endpoints \in Elements(recs) /\ endpoints.tool = "kubernetes_get_endpointslices"
      /\ endpoints.resource = "payments-api" /\ "no_addresses" \in endpoints.shows
    BY <1>1, EvidenceFound
<1>4. /\ pods \in Elements(recs) /\ pods.tool = "kubernetes_get_pods"
      /\ pods.resource = "payments-api" /\ "ready" \in pods.shows
    BY <1>1, EvidenceFound
<1>5. /\ sample \in Elements(recs) /\ sample.tool = "prometheus_get_demo_metric_range"
      /\ sample.resource = "frontend" /\ "positive" \in sample.shows
    BY <1>1, EvidenceFound
<1> HIDE DEF service, endpoints, pods, sample
<1>6. Rests(root, rows) /\ root.cause = "service_selector_matches_no_payment_pods"
    BY <1>1 DEF Rests, Ids
<1>7. Grounds("service_selector_matches_no_payment_pods") =
          { <<"kubernetes_get_service", "payments-api", "disconnected">>,
            <<"kubernetes_get_endpointslices", "payments-api", "no_addresses">>,
            <<"kubernetes_get_pods", "payments-api", "ready">>,
            <<"prometheus_get_demo_metric_range", "frontend", "positive">> }
    BY DEF Grounds
<1>8. \A row \in rows : row.tool # "kubernetes_get_pod_logs"
    BY <1>2, <1>3, <1>4, <1>5
<1>9. Shown("service_selector_matches_no_payment_pods", rows)
    BY <1>2, <1>3, <1>4, <1>5, <1>7, <1>8 DEF Shown
<1> QED
    BY <1>2, <1>3, <1>4, <1>5, <1>6, <1>9

LEMMA ExcessiveCPUShown ==
    ASSUME NEW recs, Sequence(recs), NEW cited,
           NEW root, root = VerifyExcessiveCPU(recs, cited), root # None
    PROVE  \E rows \in SUBSET Elements(recs) : Rests(root, rows) /\ Shown(root.cause, rows)
<1> DEFINE deploy == Evidence(recs, cited, "kubernetes_get_deployment", "orders-api", "cpu_burn")
           front  == Metric(recs, cited, "frontend", "success_latency_avg", "slow")
           orders == Metric(recs, cited, "orders-api", "success_latency_avg", "slow")
           trace  == Trace(recs, cited, "slow_checkout")
           rows   == {deploy, front, orders, trace}
<1>1. /\ None \notin rows
      /\ root = [component |-> "orders-api", cause |-> "excessive_cpu_work_per_order",
                 evidence |-> {record.id : record \in rows}]
    BY DEF VerifyExcessiveCPU, Supported
<1>2. /\ deploy \in Elements(recs) /\ deploy.tool = "kubernetes_get_deployment"
      /\ deploy.resource = "orders-api" /\ "cpu_burn" \in deploy.shows
    BY <1>1, EvidenceFound
<1>3. /\ front \in Elements(recs) /\ front.tool = "prometheus_get_demo_metric_range"
      /\ front.resource = "frontend" /\ "slow" \in front.shows
    BY <1>1, MetricFound
<1>4. /\ orders \in Elements(recs) /\ orders.tool = "prometheus_get_demo_metric_range"
      /\ orders.resource = "orders-api" /\ "slow" \in orders.shows
    BY <1>1, MetricFound
<1>5. trace \in Elements(recs) /\ trace.tool = "tempo_get_trace" /\ "slow_checkout" \in trace.shows
    BY <1>1, TraceFound
<1> HIDE DEF deploy, front, orders, trace
<1>6. Rests(root, rows) /\ root.cause = "excessive_cpu_work_per_order"
    BY <1>1 DEF Rests, Ids
<1>7. Grounds("excessive_cpu_work_per_order") =
          { <<"kubernetes_get_deployment", "orders-api", "cpu_burn">>,
            <<"prometheus_get_demo_metric_range", "frontend", "slow">>,
            <<"prometheus_get_demo_metric_range", "orders-api", "slow">>,
            <<"tempo_get_trace", "any", "slow_checkout">> }
    BY DEF Grounds
<1>8. \A row \in rows : row.tool # "kubernetes_get_pod_logs"
    BY <1>2, <1>3, <1>4, <1>5
<1>9. Shown("excessive_cpu_work_per_order", rows)
    BY <1>2, <1>3, <1>4, <1>5, <1>7, <1>8 DEF Shown
<1> QED
    BY <1>2, <1>3, <1>4, <1>5, <1>6, <1>9

LEMMA PaymentFailureShown ==
    ASSUME NEW recs, Sequence(recs), NEW cited,
           NEW root, root = VerifyPaymentFailure(recs, cited), root # None
    PROVE  \E rows \in SUBSET Elements(recs) : Rests(root, rows) /\ Shown(root.cause, rows)
<1> DEFINE deploy == Evidence(recs, cited, "kubernetes_get_deployment", "payments-api", "mode_fail")
           sample == Metric(recs, cited, "frontend", "error_rate", "positive")
           trace  == Trace(recs, cited, "payment_failure")
           rows   == {deploy, sample, trace}
<1>1. /\ None \notin rows
      /\ root = [component |-> "payments-api", cause |-> "payment_processor_failure_mode_enabled",
                 evidence |-> {record.id : record \in rows}]
    BY DEF VerifyPaymentFailure, Supported
<1>2. /\ deploy \in Elements(recs) /\ deploy.tool = "kubernetes_get_deployment"
      /\ deploy.resource = "payments-api" /\ "mode_fail" \in deploy.shows
    BY <1>1, EvidenceFound
<1>3. /\ sample \in Elements(recs) /\ sample.tool = "prometheus_get_demo_metric_range"
      /\ sample.resource = "frontend" /\ "positive" \in sample.shows
    BY <1>1, MetricFound
<1>4. trace \in Elements(recs) /\ trace.tool = "tempo_get_trace" /\ "payment_failure" \in trace.shows
    BY <1>1, TraceFound
<1> HIDE DEF deploy, sample, trace
<1>5. Rests(root, rows) /\ root.cause = "payment_processor_failure_mode_enabled"
    BY <1>1 DEF Rests, Ids
<1>6. Grounds("payment_processor_failure_mode_enabled") =
          { <<"kubernetes_get_deployment", "payments-api", "mode_fail">>,
            <<"prometheus_get_demo_metric_range", "frontend", "positive">>,
            <<"tempo_get_trace", "any", "payment_failure">> }
    BY DEF Grounds
<1>7. \A row \in rows : row.tool # "kubernetes_get_pod_logs"
    BY <1>2, <1>3, <1>4
<1>8. Shown("payment_processor_failure_mode_enabled", rows)
    BY <1>2, <1>3, <1>4, <1>6, <1>7 DEF Shown
<1> QED
    BY <1>2, <1>3, <1>4, <1>5, <1>8

(* Whatever the model claims and cites, a cause comes with the records     *)
(* that show it.                                                           *)
LEMMA ClaimShown ==
    ASSUME NEW recs, Sequence(recs), NEW cited, NEW component, NEW cause,
           NEW root, root = VerifyClaim(recs, cited, component, cause), root # None
    PROVE  \E rows \in SUBSET Elements(recs) : Rests(root, rows) /\ Shown(root.cause, rows)
<1>1. root \in Verified(recs, cited)
    BY DEF VerifyClaim
<1>2. \/ root = VerifyOOM(recs, cited) \/ root = VerifyImagePull(recs, cited)
      \/ root = VerifyInvalidOrderConfig(recs, cited) \/ root = VerifyBrokenServiceSelector(recs, cited)
      \/ root = VerifyExcessiveCPU(recs, cited) \/ root = VerifyPaymentFailure(recs, cited)
    BY <1>1 DEF Verified, Verifications
<1> QED
    BY <1>2, OOMShown, ImagePullShown, InvalidOrderConfigShown, BrokenServiceSelectorShown,
       ExcessiveCPUShown, PaymentFailureShown

LEMMA ExternalRests ==
    ASSUME NEW recs, Sequence(recs), NEW workload, NEW verifiers,
           verifiers \in Seq({"kubernetes_oom", "image_pull"}),
           NEW root, root = ExternalVerifiedCause(verifiers, workload, recs), root # None
    PROVE  \E rows \in SUBSET Elements(recs) : Rests(root, rows)
<1> DEFINE deployment == Scoped(recs, "kubernetes_get_deployment", workload)
           pods       == Scoped(recs, "kubernetes_get_pods", workload)
           events     == Scoped(recs, "kubernetes_get_events", workload)
           causeOf(verifier) ==
               IF verifier = "kubernetes_oom" THEN ExternalOOM(workload, deployment, pods)
               ELSE ExternalImagePull(workload, deployment, pods, events)
           hits       == {i \in DOMAIN verifiers : causeOf(verifiers[i]) # None}
<1>1. /\ deployment # None /\ pods # None /\ hits # {}
      /\ root = causeOf(verifiers[CHOOSE i \in hits : \A j \in hits : i <= j])
    BY DEF ExternalVerifiedCause
<1>2. \/ root = ExternalOOM(workload, deployment, pods)
      \/ root = ExternalImagePull(workload, deployment, pods, events)
    BY <1>1
<1>3. deployment \in Elements(recs) /\ pods \in Elements(recs)
      /\ (events # None => events \in Elements(recs))
    BY <1>1, ScopedFound
<1> HIDE DEF deployment, pods, events
<1>4. CASE root = ExternalOOM(workload, deployment, pods)
  <2>1. root = Supported(workload, "memory_limit_oom", {pods, deployment})
    BY <1>4 DEF ExternalOOM
  <2>2. root.evidence = {record.id : record \in {pods, deployment}}
    BY <2>1 DEF Supported
  <2> QED
    BY <1>3, <2>2 DEF Rests, Ids
<1>5. CASE root = ExternalImagePull(workload, deployment, pods, events)
  <2>1. /\ root = Supported(workload, "deployment_references_unpullable_image", {deployment, pods, events})
        /\ events # None
    BY <1>5 DEF ExternalImagePull
  <2>2. root.evidence = {record.id : record \in {deployment, pods, events}}
    BY <2>1 DEF Supported
  <2> QED
    BY <1>3, <2>1, <2>2 DEF Rests, Ids
<1> QED
    BY <1>2, <1>4, <1>5

-----------------------------------------------------------------------------
(* The inductive invariant.  Each part speaks of one run, the tables and   *)
(* the profile; the last speaks of the tables alone.                       *)
Variables ==
    /\ profile \in Profiles
    /\ pc \in [Runs -> Labels]
    /\ DOMAIN incident = Runs /\ DOMAIN scope = Runs /\ DOMAIN todo = Runs
    /\ DOMAIN batch = Runs /\ DOMAIN records = Runs /\ DOMAIN seen = Runs /\ DOMAIN report = Runs

Shape(r) ==
    /\ DOMAIN scope[r] = DOMAIN NoScope /\ scope[r].number \in 0..3
    /\ DOMAIN report[r] = DOMAIN EmptyReport
    /\ todo[r] \in Seq(Tools) /\ Sequence(batch[r]) /\ Sequence(records[r])
    /\ pc[r] \notin {"start", "failed"} => incident[r] \in profile.incidents
    /\ pc[r] = "start" =>
        /\ scope[r].number = 0 /\ seen[r] = {} /\ report[r] = EmptyReport
        /\ batch[r] = <<>> /\ records[r] = <<>>

(* What is planned suits the profile; Argo CD was there if it was asked.   *)
Suits(tool) ==
    /\ tool \in {"kubernetes_get_orders_config", "prometheus_get_demo_metric_range",
                 "tempo_search_demo_traces", "tempo_get_trace", "argocd_get_application"} =>
            profile.mode = "demo"
    /\ tool \in ChangeTools \ {"argocd_get_application"} => ChangeSourcesConfigured(profile)

PlanInv(r) ==
    pc[r] = "call" =>
        /\ WindowAvailable(incident[r]) /\ scope[r].workload \in profile.workloads
        /\ \A tool \in Elements(todo[r]) : Suits(tool)

Distinct(s) == \A i, j \in DOMAIN s : s[i] = s[j] => i = j

(* No tool is called twice: those that follow a result come with it, and   *)
(* the others are in the plan once.                                        *)
Parent(tool) ==
    CASE tool = "kubernetes_get_pod_logs"     -> "kubernetes_get_pods"
      [] tool = "tempo_get_trace"             -> "tempo_search_demo_traces"
      [] tool = "argocd_get_revision_history" -> "argocd_get_application"
      [] tool = "github_get_commit"           -> "argocd_get_revision_history"
      [] tool = "github_get_diff"             -> "argocd_get_revision_history"
      [] OTHER                                -> None

Following == {"kubernetes_get_pod_logs", "tempo_get_trace", "argocd_get_revision_history",
              "github_get_commit", "github_get_diff"}

Called(r) == {record.tool : record \in Elements(batch[r])}

CallsInv(r) ==
    pc[r] \in {"call", "save_batch"} =>
        /\ \A i, j \in DOMAIN batch[r] : batch[r][i].tool = batch[r][j].tool => i = j
        /\ Distinct(todo[r])
        /\ Called(r) \cap Elements(todo[r]) = {}
        /\ \A tool \in Following \cap (Called(r) \cup Elements(todo[r])) : Parent(tool) \in Called(r)
        /\ pc[r] = "save_batch" => batch[r] # <<>>

(* A record belongs to its run and its incident; those of the stored       *)
(* collections are in the table, and the report lists exactly them.        *)
RecordsInv(r) ==
    /\ \A record \in Elements(batch[r]) :
        /\ record.id = <<r, scope[r].number, record.tool>>
        /\ record.incident = incident[r].id /\ record.tool \in Tools
    /\ \A record \in Elements(records[r]) :
        record \in evidence /\ record.id[1] = r /\ record.incident = incident[r].id
    /\ report[r].evidence = Ids(Elements(records[r]))

(* The report: its root cause and its hypotheses rest on those records.    *)
ReportInv(r) ==
    /\ report[r].status = "ROOT_CAUSE_FOUND" <=> report[r].root_cause # None
    /\ report[r].root_cause # None =>
        \E rows \in SUBSET Elements(records[r]) :
            /\ Rests(report[r].root_cause, rows)
            /\ profile.mode = "demo" => Shown(report[r].root_cause.cause, rows)
    /\ \A i \in DOMAIN report[r].hypotheses :
        /\ report[r].hypotheses[i].evidence \subseteq report[r].evidence
        /\ report[r].hypotheses[i].status # "unresolved" => report[r].hypotheses[i].evidence # {}

BudgetInv(r) ==
    /\ report[r].llm_retries \in {0, 1} /\ report[r].llm_calls \in 0..(1 + report[r].llm_retries)
    /\ pc[r] \in {"start", "call", "save_batch", "decide"} =>
        report[r].llm_calls = 0 /\ report[r].llm_retries = 0
    /\ pc[r] = "chat" => report[r].llm_calls = report[r].llm_retries
    /\ pc[r] = "answer" => report[r].llm_calls = 1 + report[r].llm_retries
    /\ pc[r] = "wait" => report[r].llm_calls = 1 /\ report[r].llm_retries = 0
    /\ IsFiniteSet(seen[r]) /\ Cardinality(seen[r]) = scope[r].number

(* IDs are unique, and the present collection's are new.                   *)
Newer(r, row) ==
    /\ pc[r] # "start"
    /\ pc[r] \in {"call", "save_batch"} => row.id[2] < scope[r].number
    /\ pc[r] = "decide" => row.id[2] <= scope[r].number

TableInv ==
    /\ \A row, other \in evidence : row.id = other.id => row = other
    /\ \A row \in evidence, r \in Runs : row.id[1] = r => row.id[2] \in Nat /\ Newer(r, row)

RunInv(r) ==
    Shape(r) /\ PlanInv(r) /\ CallsInv(r) /\ RecordsInv(r) /\ ReportInv(r) /\ BudgetInv(r)

IInv == Variables /\ (\A r \in Runs : RunInv(r)) /\ TableInv

-----------------------------------------------------------------------------
LEMMA EmptyReportFields ==
    /\ EmptyReport.status = "INSUFFICIENT_EVIDENCE"
    /\ EmptyReport.root_cause = None
    /\ EmptyReport.evidence = {}
    /\ EmptyReport.hypotheses = <<>>
    /\ EmptyReport.llm_calls = 0 /\ EmptyReport.llm_retries = 0
<1>1. EmptyReport.status = "INSUFFICIENT_EVIDENCE" /\ EmptyReport.root_cause = None
    BY DEF EmptyReport
<1>2. EmptyReport.evidence = {}
    BY DEF EmptyReport
<1>3. EmptyReport.hypotheses = <<>>
    BY DEF EmptyReport
<1>4. EmptyReport.llm_calls = 0 /\ EmptyReport.llm_retries = 0
    BY DEF EmptyReport
<1> QED
    BY <1>1, <1>2, <1>3, <1>4

LEMMA InitInv == Init => IInv
<1> SUFFICES ASSUME Init PROVE IInv
    OBVIOUS
<1>1. Variables
    BY DEF Init, Variables, Labels
<1>2. ASSUME NEW r \in Runs PROVE RunInv(r)
  <2>1. /\ pc[r] = "start" /\ incident[r] = None /\ scope[r] = NoScope /\ todo[r] = <<>>
        /\ batch[r] = <<>> /\ records[r] = <<>> /\ seen[r] = {} /\ report[r] = EmptyReport
    BY DEF Init
  <2>2. Shape(r)
    BY <2>1, EmptySequence DEF Shape, NoScope
  <2>3. PlanInv(r) /\ CallsInv(r)
    BY <2>1 DEF PlanInv, CallsInv
  <2>a. /\ report[r].status = "INSUFFICIENT_EVIDENCE" /\ report[r].root_cause = None
        /\ report[r].evidence = {} /\ report[r].hypotheses = <<>>
        /\ report[r].llm_calls = 0 /\ report[r].llm_retries = 0
    BY <2>1, EmptyReportFields
  <2>4. RecordsInv(r)
    BY <2>1, <2>a, EmptySequence DEF RecordsInv, Ids
  <2>5. ReportInv(r)
    <3>1. DOMAIN report[r].hypotheses = {}
        BY <2>a
    <3> QED
        BY <2>a, <3>1 DEF ReportInv
  <2>6. BudgetInv(r)
    <3>1. scope[r].number = 0
        BY <2>1 DEF NoScope
    <3> QED
        BY <2>1, <2>a, <3>1, FS_EmptySet DEF BudgetInv
  <2> QED
    BY <2>2, <2>3, <2>4, <2>5, <2>6 DEF RunInv
<1>3. TableInv
    BY InvestigationConstants DEF Init, TableInv
<1> QED
    BY <1>1, <1>2, <1>3 DEF IInv

Local(r) == <<pc[r], incident[r], scope[r], todo[r], batch[r], records[r], seen[r], report[r]>>

(* A run is not touched by what others do: the tables only grow.           *)
LEMMA Untouched ==
    ASSUME NEW r, RunInv(r), Local(r)' = Local(r), profile' = profile, evidence \subseteq evidence'
    PROVE  RunInv(r)'
<1>1. /\ pc'[r] = pc[r] /\ incident'[r] = incident[r] /\ scope'[r] = scope[r] /\ todo'[r] = todo[r]
      /\ batch'[r] = batch[r] /\ records'[r] = records[r] /\ seen'[r] = seen[r]
      /\ report'[r] = report[r]
    BY DEF Local
<1>2. Shape(r)' /\ BudgetInv(r)'
    BY <1>1 DEF RunInv, Shape, BudgetInv
<1>3. PlanInv(r)' /\ CallsInv(r)'
    BY <1>1 DEF RunInv, PlanInv, CallsInv, Called, Suits, Distinct
<1>4. RecordsInv(r)' /\ ReportInv(r)'
    BY <1>1 DEF RunInv, RecordsInv, ReportInv
<1> QED
    BY <1>2, <1>3, <1>4 DEF RunInv

LEMMA StepOf ==
    ASSUME IInv, NEW r \in Runs, Variables', RunInv(r)', TableInv',
           profile' = profile, evidence \subseteq evidence',
           \A q \in Runs \ {r} : Local(q)' = Local(q)
    PROVE  IInv'
BY Untouched DEF IInv

(* With the tables as they are, what was newer still is.                   *)
LEMMA TablesKept ==
    ASSUME IInv, NEW r \in Runs, evidence' = evidence,
           \A q \in Runs \ {r} : pc'[q] = pc[q] /\ scope'[q] = scope[q],
           \A row \in evidence : row.id[1] = r => Newer(r, row)'
    PROVE  TableInv'
BY DEF IInv, TableInv, Newer

(* The steps that leave the collections alone and go on with the report.   *)
LEMMA ReportingStep ==
    ASSUME IInv, NEW r \in Runs, pc[r] # "start",
           NEW label \in {"save", "chat", "answer", "wait", "reported", "failed"}, Goto(r, label),
           DOMAIN report' = Runs, DOMAIN report'[r] = DOMAIN EmptyReport,
           \A q \in Runs \ {r} : report'[q] = report[q],
           report'[r].evidence = report[r].evidence, ReportInv(r)', BudgetInv(r)',
           label # "failed" => pc[r] # "failed",
           UNCHANGED <<incident, scope, todo, batch, records, seen, profile, evidence>>
    PROVE  IInv'
<1>1. pc'[r] = label /\ \A q \in Runs \ {r} : pc'[q] = pc[q]
    BY DEF Goto, IInv, Variables
<1>2. Variables'
    BY DEF IInv, Variables, Goto, Labels
<1>3. RunInv(r)
    BY DEF IInv
<1>4. Shape(r)'
    BY <1>1, <1>3 DEF RunInv, Shape
<1>5. PlanInv(r)' /\ CallsInv(r)'
    BY <1>1 DEF PlanInv, CallsInv
<1>6. RecordsInv(r)'
    BY <1>3 DEF RunInv, RecordsInv
<1>7. TableInv'
    BY <1>1, TablesKept DEF Newer
<1>8. \A q \in Runs \ {r} : Local(q)' = Local(q)
    BY <1>1 DEF Local
<1> QED
    BY <1>2, <1>4, <1>5, <1>6, <1>7, <1>8, StepOf DEF RunInv

(* The report goes to the table as it is, with a reason.                   *)
LEMMA FinishInv ==
    ASSUME IInv, NEW r \in Runs, pc[r] \notin {"start", "failed"}, NEW reason,
           Finish(r, report[r], reason),
           UNCHANGED <<incident, scope, todo, batch, records, seen, profile, evidence>>
    PROVE  IInv'
<1>1. /\ Goto(r, "save") /\ DOMAIN report' = Runs
      /\ report'[r] = [report[r] EXCEPT !.reason = reason]
      /\ \A q \in Runs \ {r} : report'[q] = report[q]
      /\ pc'[r] = "save"
    BY DEF Finish, Goto, IInv, Variables
<1>2. DOMAIN report[r] = DOMAIN EmptyReport /\ RunInv(r)
    BY DEF IInv, RunInv, Shape
<1>3. /\ DOMAIN report'[r] = DOMAIN EmptyReport
      /\ report'[r].evidence = report[r].evidence /\ report'[r].status = report[r].status
      /\ report'[r].root_cause = report[r].root_cause
      /\ report'[r].hypotheses = report[r].hypotheses
      /\ report'[r].llm_calls = report[r].llm_calls /\ report'[r].llm_retries = report[r].llm_retries
    BY <1>1, <1>2 DEF EmptyReport
<1>4. ReportInv(r)'
    BY <1>2, <1>3 DEF RunInv, ReportInv
<1>5. BudgetInv(r)'
    BY <1>1, <1>2, <1>3 DEF RunInv, BudgetInv
<1> QED
    BY <1>1, <1>3, <1>4, <1>5, ReportingStep

-----------------------------------------------------------------------------
(* Tools to call, each once.                                               *)
Calls(s, tools) == s \in Seq(Tools) /\ Distinct(s) /\ Elements(s) = tools

LEMMA NoCalls == Calls(<<>>, {})
BY DEF Calls, Distinct, Elements

LEMMA OneCall == ASSUME NEW tool \in Tools PROVE Calls(<<tool>>, {tool})
BY DEF Calls, Distinct, Elements

LEMMA MoreCalls ==
    ASSUME NEW s, NEW t, NEW some, NEW others, Calls(s, some), Calls(t, others), some \cap others = {}
    PROVE  Calls(s \o t, some \cup others)
<1>1. s \in Seq(Tools) /\ t \in Seq(Tools)
    BY DEF Calls
<1>2. Sequence(s) /\ Sequence(t)
    BY <1>1 DEF Sequence, Elements
<1>3. Elements(s \o t) = some \cup others
    BY <1>2, Joined DEF Calls
<1>4. /\ Len(s) \in Nat /\ DOMAIN s = 1..Len(s)
      /\ Len(t) \in Nat /\ DOMAIN t = 1..Len(t)
      /\ s \o t \in Seq(Tools)
      /\ DOMAIN (s \o t) = 1..(Len(s) + Len(t))
      /\ \A i \in DOMAIN s : (s \o t)[i] = s[i]
      /\ \A i \in 1..(Len(s) + Len(t)) : i \notin DOMAIN s =>
            i - Len(s) \in DOMAIN t /\ (s \o t)[i] = t[i - Len(s)]
    BY <1>1
<1>5. \A i \in DOMAIN s : s[i] \in some
    BY DEF Calls, Elements
<1>6. \A i \in DOMAIN t : t[i] \in others
    BY DEF Calls, Elements
<1>7. ASSUME NEW i \in DOMAIN (s \o t), NEW j \in DOMAIN (s \o t), (s \o t)[i] = (s \o t)[j]
      PROVE  i = j
  <2>1. CASE i \in DOMAIN s /\ j \in DOMAIN s
    BY <1>4, <1>7, <2>1 DEF Calls, Distinct
  <2>2. CASE i \notin DOMAIN s /\ j \notin DOMAIN s
    <3>1. i - Len(s) = j - Len(s)
        BY <1>4, <1>7, <2>2 DEF Calls, Distinct
    <3> QED
        BY <1>4, <3>1
  <2>3. CASE i \in DOMAIN s /\ j \notin DOMAIN s
    BY <1>4, <1>5, <1>6, <1>7, <2>3
  <2>4. CASE i \notin DOMAIN s /\ j \in DOMAIN s
    BY <1>4, <1>5, <1>6, <1>7, <2>4
  <2> QED
    BY <2>1, <2>2, <2>3, <2>4
<1> QED
    BY <1>3, <1>4, <1>7 DEF Calls, Distinct

LEMMA RestOfCalls ==
    ASSUME NEW s, NEW tools, Calls(s, tools), s # <<>>
    PROVE  Head(s) \in tools /\ Head(s) \in Tools /\ Calls(Tail(s), tools \ {Head(s)})
<1>1. /\ s \in Seq(Tools) /\ Len(s) \in Nat \ {0} /\ DOMAIN s = 1..Len(s)
      /\ Head(s) = s[1] /\ Tail(s) \in Seq(Tools)
      /\ DOMAIN Tail(s) = 1..(Len(s) - 1)
      /\ \A i \in 1..(Len(s) - 1) : Tail(s)[i] = s[i + 1]
    BY DEF Calls
<1>2. Distinct(Tail(s))
    BY <1>1 DEF Calls, Distinct
<1>3. \A i \in DOMAIN Tail(s) : Tail(s)[i] \in tools \ {s[1]}
    BY <1>1 DEF Calls, Distinct, Elements
<1>4. \A i \in DOMAIN s : i # 1 => i - 1 \in DOMAIN Tail(s) /\ s[i] = Tail(s)[i - 1]
    BY <1>1
<1>5. Elements(Tail(s)) = tools \ {s[1]}
  <2>1. Elements(Tail(s)) \subseteq tools \ {s[1]}
    BY <1>3 DEF Elements
  <2>2. ASSUME NEW tool \in tools \ {s[1]}
        PROVE  tool \in Elements(Tail(s))
    <3>1. PICK i \in DOMAIN s : s[i] = tool
        BY DEF Calls, Elements
    <3> QED
        BY <1>4, <3>1 DEF Elements
  <2> QED
    BY <2>1, <2>2
<1> QED
    BY <1>1, <1>2, <1>5 DEF Calls, Elements

LEMMA FourCalls ==
    Calls(<<"kubernetes_get_service", "kubernetes_get_endpointslices", "kubernetes_get_pods",
            "kubernetes_get_events">>,
          {"kubernetes_get_service", "kubernetes_get_endpointslices", "kubernetes_get_pods",
           "kubernetes_get_events"})
BY DEF Calls, Distinct, Elements, Tools

(* The plan of a collection calls no tool twice, and none that follows.    *)
LEMMA PlanCalls ==
    ASSUME NEW workload, NEW includeChanges \in BOOLEAN
    PROVE  \E tools \in SUBSET (Tools \ Following) :
              /\ Calls(Plan(workload, includeChanges), tools)
              /\ \A tool \in tools : Suits(tool)
<1> DEFINE demoOnly(tool) == IF profile.mode = "demo" THEN <<tool>> ELSE <<>>
           allowed(tool)  == IF profile.mode = "demo" THEN {tool} ELSE {}
           config  == IF workload = "orders-api" THEN demoOnly("kubernetes_get_orders_config") ELSE <<>>
           config_ == IF workload = "orders-api" THEN allowed("kubernetes_get_orders_config") ELSE {}
           four    == <<"kubernetes_get_service", "kubernetes_get_endpointslices", "kubernetes_get_pods",
                        "kubernetes_get_events">>
           four_   == {"kubernetes_get_service", "kubernetes_get_endpointslices", "kubernetes_get_pods",
                       "kubernetes_get_events"}
           metric  == demoOnly("prometheus_get_demo_metric_range")
           metric_ == allowed("prometheus_get_demo_metric_range")
           search  == demoOnly("tempo_search_demo_traces")
           search_ == allowed("tempo_search_demo_traces")
           change  == IF includeChanges THEN demoOnly("argocd_get_application") ELSE <<>>
           change_ == IF includeChanges THEN allowed("argocd_get_application") ELSE {}
<1>1. ASSUME NEW tool \in Tools PROVE Calls(demoOnly(tool), allowed(tool))
    BY NoCalls, OneCall
<1>2. Calls(config, config_)
    BY <1>1, NoCalls DEF Tools
<1>3. Calls(metric, metric_) /\ Calls(search, search_)
    BY <1>1 DEF Tools
<1>4. Calls(change, change_)
    BY <1>1, NoCalls DEF Tools
<1>5. /\ config_ \subseteq {"kubernetes_get_orders_config"}
      /\ metric_ \subseteq {"prometheus_get_demo_metric_range"}
      /\ search_ \subseteq {"tempo_search_demo_traces"}
      /\ change_ \subseteq {"argocd_get_application"}
    OBVIOUS
<1>6. \A tool \in config_ \cup metric_ \cup search_ \cup change_ :
            profile.mode = "demo" /\ tool \notin ChangeTools \ {"argocd_get_application"}
    BY DEF ChangeTools
<1> HIDE DEF config, config_, metric, metric_, search, search_, change, change_
<1>7. Calls(<<"kubernetes_get_deployment">> \o config, {"kubernetes_get_deployment"} \cup config_)
    BY <1>2, <1>5, OneCall, MoreCalls DEF Tools
<1>8. Calls(<<"kubernetes_get_deployment">> \o config \o four,
            {"kubernetes_get_deployment"} \cup config_ \cup four_)
    BY <1>5, <1>7, FourCalls, MoreCalls
<1>9. Calls(<<"kubernetes_get_deployment">> \o config \o four \o metric,
            {"kubernetes_get_deployment"} \cup config_ \cup four_ \cup metric_)
    BY <1>3, <1>5, <1>8, MoreCalls
<1>10. Calls(<<"kubernetes_get_deployment">> \o config \o four \o metric \o <<"loki_get_demo_logs">>,
            {"kubernetes_get_deployment"} \cup config_ \cup four_ \cup metric_ \cup {"loki_get_demo_logs"})
    BY <1>5, <1>9, OneCall, MoreCalls DEF Tools
<1>11. Calls(<<"kubernetes_get_deployment">> \o config \o four \o metric \o <<"loki_get_demo_logs">> \o search,
            {"kubernetes_get_deployment"} \cup config_ \cup four_ \cup metric_ \cup {"loki_get_demo_logs"}
            \cup search_)
    BY <1>3, <1>5, <1>10, MoreCalls
<1>12. Calls(<<"kubernetes_get_deployment">> \o config \o four \o metric \o <<"loki_get_demo_logs">> \o search
                \o change,
            {"kubernetes_get_deployment"} \cup config_ \cup four_ \cup metric_ \cup {"loki_get_demo_logs"}
            \cup search_ \cup change_)
    BY <1>4, <1>5, <1>11, MoreCalls
<1>13. Plan(workload, includeChanges) =
            <<"kubernetes_get_deployment">> \o config \o four \o metric \o <<"loki_get_demo_logs">> \o search
                \o change
    BY DEF Plan, config, metric, search, change
<1> DEFINE all == {"kubernetes_get_deployment"} \cup config_ \cup four_ \cup metric_
                    \cup {"loki_get_demo_logs"} \cup search_ \cup change_
<1>14. all \in SUBSET (Tools \ Following)
    BY <1>5 DEF Tools, Following
<1>15. \A tool \in all : Suits(tool)
    BY <1>6 DEF Suits, ChangeTools
<1> QED
    BY <1>12, <1>13, <1>14, <1>15

-----------------------------------------------------------------------------
(* A collection begins, or the investigation ends for want of a window.    *)
LEMMA BeginInv ==
    ASSUME IInv, NEW r \in Runs, NEW inc \in profile.incidents, NEW workload, NEW metric,
           NEW includeChanges \in BOOLEAN, Begin(r, inc, workload, metric, includeChanges),
           pc[r] = "start" \/ (pc[r] = "decide" /\ incident[r] = inc),
           workload \notin seen[r], scope[r].number <= 2,
           DOMAIN incident' = Runs, incident'[r] = inc,
           \A q \in Runs \ {r} : incident'[q] = incident[q],
           UNCHANGED <<records, profile, evidence>>
    PROVE  IInv'
<1>1. RunInv(r) /\ Variables /\ TableInv
    BY DEF IInv
<1>2. /\ incident'[r] = inc
      /\ scope'[r] = [workload |-> workload, metric |-> metric,
                      number |-> scope[r].number + 1, failures |-> 0]
      /\ seen'[r] = seen[r] \cup {workload} /\ batch'[r] = <<>> /\ records'[r] = records[r]
      /\ DOMAIN scope' = Runs /\ DOMAIN seen' = Runs /\ DOMAIN batch' = Runs /\ DOMAIN incident' = Runs
      /\ \A q \in Runs \ {r} : /\ incident'[q] = incident[q] /\ scope'[q] = scope[q]
                               /\ seen'[q] = seen[q] /\ batch'[q] = batch[q]
    BY <1>1 DEF Begin, Variables
<1>3. /\ scope'[r].number = scope[r].number + 1 /\ scope'[r].workload = workload
      /\ DOMAIN scope'[r] = DOMAIN NoScope /\ scope[r].number \in 0..2
    BY <1>1, <1>2 DEF NoScope, RunInv, Shape
<1>4. /\ DOMAIN report[r] = DOMAIN EmptyReport /\ Sequence(records[r]) /\ todo[r] \in Seq(Tools)
      /\ report[r].llm_calls = 0 /\ report[r].llm_retries = 0
      /\ IsFiniteSet(seen[r]) /\ Cardinality(seen[r]) = scope[r].number
    BY <1>1 DEF RunInv, Shape, BudgetInv
<1>5. IsFiniteSet(seen'[r]) /\ Cardinality(seen'[r]) = scope'[r].number
  <2>1. /\ IsFiniteSet(seen[r] \cup {workload})
        /\ Cardinality(seen[r] \cup {workload}) = Cardinality(seen[r]) + 1
    BY <1>4, FS_AddElement
  <2> QED
    BY <1>2, <1>3, <1>4, <2>1
<1>6. \A record \in Elements(records'[r]) :
            record \in evidence' /\ record.id[1] = r /\ record.incident = incident'[r].id
  <2>1. CASE pc[r] = "start"
    <3>1. records[r] = <<>>
        BY <1>1, <2>1 DEF RunInv, Shape
    <3> QED
        BY <1>2, <3>1, EmptySequence
  <2>2. CASE pc[r] = "decide" /\ incident[r] = inc
    BY <1>1, <1>2, <2>2 DEF RunInv, RecordsInv
  <2> QED
    BY <2>1, <2>2
<1>7. \A row \in evidence : row.id[1] = r => row.id[2] < scope'[r].number
    BY <1>1, <1>3 DEF TableInv, Newer
<1>8. Elements(batch'[r]) = {} /\ Sequence(batch'[r])
    BY <1>2, EmptySequence
<1>9. CASE /\ WindowAvailable(inc) /\ workload \in profile.workloads
           /\ todo' = [todo EXCEPT ![r] = Plan(workload, includeChanges)]
           /\ Goto(r, "call") /\ UNCHANGED report
  <2>1. /\ pc'[r] = "call" /\ todo'[r] = Plan(workload, includeChanges)
        /\ pc' \in [Runs -> Labels] /\ DOMAIN todo' = Runs
        /\ \A q \in Runs \ {r} : pc'[q] = pc[q] /\ todo'[q] = todo[q]
    BY <1>1, <1>9 DEF Goto, Variables, Labels
  <2>2. PICK tools \in SUBSET (Tools \ Following) :
            Calls(todo'[r], tools) /\ \A tool \in tools : Suits(tool)
    BY <2>1, PlanCalls
  <2>3. Variables'
    BY <1>1, <1>2, <1>9, <2>1 DEF Variables
  <2>4. Shape(r)'
    BY <1>2, <1>3, <1>4, <1>8, <1>9, <2>1, <2>2 DEF Shape, Calls
  <2>5. PlanInv(r)'
    BY <1>2, <1>3, <1>9, <2>2 DEF PlanInv, Calls, Suits
  <2>6. CallsInv(r)'
    <3>1. Called(r)' = {}
        BY <1>8 DEF Called
    <3>2. \A i \in DOMAIN batch'[r] : FALSE
        BY <1>8 DEF Elements
    <3>3. Distinct(todo'[r]) /\ Elements(todo'[r]) \cap Following = {}
        BY <2>2 DEF Calls
    <3> QED
        BY <2>1, <3>1, <3>2, <3>3 DEF CallsInv
  <2>7. RecordsInv(r)'
    BY <1>1, <1>2, <1>6, <1>8, <1>9 DEF RunInv, RecordsInv
  <2>8. ReportInv(r)'
    BY <1>1, <1>2, <1>9 DEF RunInv, ReportInv
  <2>9. BudgetInv(r)'
    BY <1>4, <1>5, <1>9, <2>1 DEF BudgetInv
  <2>10. TableInv'
    BY <1>2, <1>7, <2>1, TablesKept DEF Newer
  <2>11. \A q \in Runs \ {r} : Local(q)' = Local(q)
    BY <1>2, <1>9, <2>1 DEF Local
  <2> QED
    BY <2>3, <2>4, <2>5, <2>6, <2>7, <2>8, <2>9, <2>10, <2>11, StepOf DEF RunInv
<1>10. CASE Finish(r, report[r], "evidence unavailable") /\ UNCHANGED todo
  <2>1. /\ pc'[r] = "save" /\ pc' \in [Runs -> Labels] /\ DOMAIN report' = Runs
        /\ report'[r] = [report[r] EXCEPT !.reason = "evidence unavailable"] /\ todo'[r] = todo[r]
        /\ \A q \in Runs \ {r} : pc'[q] = pc[q] /\ report'[q] = report[q]
    BY <1>1, <1>10 DEF Finish, Goto, Variables, Labels
  <2>2. /\ DOMAIN report'[r] = DOMAIN EmptyReport
        /\ report'[r].evidence = report[r].evidence /\ report'[r].status = report[r].status
        /\ report'[r].root_cause = report[r].root_cause
        /\ report'[r].hypotheses = report[r].hypotheses
        /\ report'[r].llm_calls = 0 /\ report'[r].llm_retries = 0
    BY <1>4, <2>1 DEF EmptyReport
  <2>3. Variables'
    BY <1>1, <1>2, <1>10, <2>1 DEF Variables
  <2>4. Shape(r)'
    <3>1. scope'[r].number \in 0..3
        BY <1>3
    <3>2. DOMAIN report'[r] = DOMAIN EmptyReport /\ todo'[r] \in Seq(Tools)
        BY <1>4, <2>1, <2>2
    <3>3. Sequence(batch'[r]) /\ Sequence(records'[r])
        BY <1>2, <1>4, <1>8
    <3> QED
        BY <1>2, <1>3, <2>1, <3>1, <3>2, <3>3 DEF Shape
  <2>5. PlanInv(r)' /\ CallsInv(r)'
    BY <2>1 DEF PlanInv, CallsInv
  <2>6. RecordsInv(r)'
    BY <1>1, <1>2, <1>6, <1>8, <2>2 DEF RunInv, RecordsInv
  <2>7. ReportInv(r)'
    BY <1>1, <1>2, <2>2 DEF RunInv, ReportInv
  <2>8. BudgetInv(r)'
    <3>1. report'[r].llm_calls \in 0..(1 + report'[r].llm_retries) /\ report'[r].llm_retries \in {0, 1}
        BY <2>2
    <3> QED
        BY <1>5, <2>1, <3>1 DEF BudgetInv
  <2>9. TableInv'
    BY <1>2, <2>1, TablesKept DEF Newer
  <2>10. \A q \in Runs \ {r} : Local(q)' = Local(q)
    BY <1>2, <1>10, <2>1 DEF Local
  <2> QED
    BY <2>3, <2>4, <2>5, <2>6, <2>7, <2>8, <2>9, <2>10, StepOf DEF RunInv
<1> QED
    BY <1>9, <1>10 DEF Begin

LEMMA StartInv == ASSUME IInv, NEW r \in Runs, Start(r) PROVE IInv'
<1>1. PICK inc \in profile.incidents :
        /\ incident' = [incident EXCEPT ![r] = inc]
        /\ \/ inc.allowed /\ Begin(r, inc, inc.service, InitialMetric(inc), TRUE)
           \/ /\ Goto(r, "failed")
              /\ UNCHANGED <<scope, todo, batch, seen, report>>
    BY DEF Start
<1>2. pc[r] = "start" /\ UNCHANGED <<records, profile, evidence>>
    BY DEF Start, cluster, tables
<1>3. RunInv(r) /\ Variables /\ TableInv
    BY DEF IInv
<1>4. scope[r].number = 0 /\ seen[r] = {} /\ batch[r] = <<>> /\ records[r] = <<>>
    BY <1>2, <1>3 DEF RunInv, Shape
<1>5. CASE inc.allowed /\ Begin(r, inc, inc.service, InitialMetric(inc), TRUE)
  <2>1. inc.service \notin seen[r] /\ scope[r].number <= 2 /\ TRUE \in BOOLEAN
    BY <1>4
  <2>2. /\ DOMAIN incident' = Runs /\ incident'[r] = inc
        /\ \A q \in Runs \ {r} : incident'[q] = incident[q]
        /\ UNCHANGED <<records, profile, evidence>>
    BY <1>1, <1>2, <1>3 DEF Variables
  <2>3. Begin(r, inc, inc.service, InitialMetric(inc), TRUE)
    BY <1>5
  <2> HIDE DEF Begin
  <2> QED
    BY <1>2, <2>1, <2>2, <2>3, BeginInv
<1>6. CASE Goto(r, "failed") /\ UNCHANGED <<scope, todo, batch, seen, report>>
  <2>1. /\ pc'[r] = "failed" /\ pc' \in [Runs -> Labels] /\ DOMAIN incident' = Runs
        /\ \A q \in Runs \ {r} : pc'[q] = pc[q] /\ incident'[q] = incident[q]
    BY <1>1, <1>3, <1>6 DEF Goto, Variables, Labels
  <2>2. Variables'
    BY <1>2, <1>3, <1>6, <2>1 DEF Variables
  <2>3. Shape(r)'
    BY <1>2, <1>3, <1>6, <2>1 DEF RunInv, Shape
  <2>4. PlanInv(r)' /\ CallsInv(r)'
    BY <2>1 DEF PlanInv, CallsInv
  <2>5. Elements(batch[r]) = {} /\ Elements(records[r]) = {}
    BY <1>4, EmptySequence
  <2>6. RecordsInv(r)'
    BY <1>2, <1>3, <1>6, <2>5 DEF RunInv, RecordsInv
  <2>7. ReportInv(r)' /\ BudgetInv(r)'
    BY <1>2, <1>3, <1>6, <2>1 DEF RunInv, ReportInv, BudgetInv
  <2>8. TableInv'
    BY <1>2, <1>6, <2>1, TablesKept DEF Newer
  <2>9. \A q \in Runs \ {r} : Local(q)' = Local(q)
    BY <1>2, <1>6, <2>1 DEF Local
  <2> QED
    BY <1>2, <2>2, <2>3, <2>4, <2>6, <2>7, <2>8, <2>9, StepOf DEF RunInv
<1> QED
    BY <1>1, <1>5, <1>6

(* What follows a result are calls that only it leads to.                  *)
LEMMA FollowCalls ==
    ASSUME NEW record
    PROVE  \E tools \in SUBSET {t \in Following : Parent(t) = record.tool} : Calls(Follow(record), tools)
<1>1. Follow(record) = LogOf(record) \o TraceOf(record) \o ChangesOf(record)
    BY DEF Follow
<1>2. CASE record.tool = "kubernetes_get_pods"
  <2>1. TraceOf(record) = <<>> /\ ChangesOf(record) = <<>>
    BY <1>2 DEF TraceOf, ChangesOf
  <2>2. \/ Calls(LogOf(record), {})
        \/ Calls(LogOf(record), {"kubernetes_get_pod_logs"})
    BY NoCalls, OneCall DEF LogOf, Tools
  <2>3. Parent("kubernetes_get_pod_logs") = "kubernetes_get_pods"
    BY DEF Parent
  <2>4. \/ Calls(Follow(record), {} \cup {} \cup {})
        \/ Calls(Follow(record), {"kubernetes_get_pod_logs"} \cup {} \cup {})
    BY <1>1, <2>1, <2>2, NoCalls, MoreCalls
  <2> QED
    BY <1>2, <2>3, <2>4 DEF Following
<1>3. CASE record.tool = "tempo_search_demo_traces"
  <2>1. LogOf(record) = <<>> /\ ChangesOf(record) = <<>>
    BY <1>3 DEF LogOf, ChangesOf
  <2>2. \/ Calls(TraceOf(record), {})
        \/ Calls(TraceOf(record), {"tempo_get_trace"})
    BY NoCalls, OneCall DEF TraceOf, Tools
  <2>3. Parent("tempo_get_trace") = "tempo_search_demo_traces"
    BY DEF Parent
  <2>4. \/ Calls(Follow(record), {} \cup {} \cup {})
        \/ Calls(Follow(record), {} \cup {"tempo_get_trace"} \cup {})
    BY <1>1, <2>1, <2>2, NoCalls, MoreCalls
  <2> QED
    BY <1>3, <2>3, <2>4 DEF Following
<1>4. CASE record.tool \notin {"kubernetes_get_pods", "tempo_search_demo_traces"}
  <2>1. LogOf(record) = <<>> /\ TraceOf(record) = <<>>
    BY <1>4 DEF LogOf, TraceOf
  <2>2. PICK tools \in SUBSET {t \in Following : Parent(t) = record.tool} :
            Calls(ChangesOf(record), tools)
    <3>1. CASE record.tool = "argocd_get_application"
      <4>1. Calls(ChangesOf(record), {"argocd_get_revision_history"})
        BY <3>1, OneCall DEF ChangesOf, Tools
      <4>2. Parent("argocd_get_revision_history") = "argocd_get_application"
        BY DEF Parent
      <4> QED
        BY <3>1, <4>1, <4>2 DEF Following
    <3>2. CASE record.tool = "argocd_get_revision_history" /\ "revision" \in record.shows
      <4>1. ChangesOf(record) = <<"github_get_commit", "github_get_diff">>
        BY <3>2 DEF ChangesOf
      <4>2. Calls(ChangesOf(record), {"github_get_commit", "github_get_diff"})
        BY <4>1 DEF Calls, Distinct, Elements, Tools
      <4>3. /\ Parent("github_get_commit") = "argocd_get_revision_history"
            /\ Parent("github_get_diff") = "argocd_get_revision_history"
        BY DEF Parent
      <4> QED
        BY <3>2, <4>2, <4>3 DEF Following
    <3>3. CASE ~(\/ record.tool = "argocd_get_application"
                 \/ record.tool = "argocd_get_revision_history" /\ "revision" \in record.shows)
      <4>1. ChangesOf(record) = <<>>
        BY <3>3 DEF ChangesOf
      <4> QED
        BY <4>1, NoCalls
    <3> QED
        BY <3>1, <3>2, <3>3
  <2>3. Calls(Follow(record), {} \cup {} \cup tools)
    BY <1>1, <2>1, <2>2, NoCalls, MoreCalls
  <2> QED
    BY <2>2, <2>3
<1> QED
    BY <1>2, <1>3, <1>4

(* A call that is served becomes a record, and what follows from it is     *)
(* called next.                                                            *)
LEMMA CallToolInv == ASSUME IInv, NEW r \in Runs, CallTool(r) PROVE IInv'
<1> DEFINE tool   == Head(todo[r])
           record == Observed(r, tool)
<1>1. RunInv(r) /\ Variables /\ TableInv
    BY DEF IInv
<1>2. /\ pc[r] = "call" /\ todo[r] # <<>>
      /\ UNCHANGED <<pc, incident, records, seen, report, profile, evidence>>
    BY DEF CallTool, cluster, tables
<1>3. Calls(todo[r], Elements(todo[r])) /\ tool \in Elements(todo[r]) /\ tool \in Tools
      /\ Calls(Tail(todo[r]), Elements(todo[r]) \ {tool})
  <2>1. Calls(todo[r], Elements(todo[r]))
    BY <1>1, <1>2 DEF RunInv, Shape, CallsInv, Calls
  <2> QED
    BY <1>2, <2>1, RestOfCalls
<1>4. \A q \in Runs \ {r} : todo'[q] = todo[q] /\ batch'[q] = batch[q] /\ scope'[q] = scope[q]
    BY <1>1 DEF CallTool, Variables
<1>5. DOMAIN todo' = Runs /\ DOMAIN batch' = Runs /\ DOMAIN scope' = Runs
    BY <1>1 DEF CallTool, Variables
<1>6. Variables'
    BY <1>1, <1>2, <1>5 DEF Variables
<1>7. \A q \in Runs \ {r} : Local(q)' = Local(q)
    BY <1>2, <1>4 DEF Local
<1>8. /\ scope'[r].number = scope[r].number /\ scope'[r].workload = scope[r].workload
      /\ DOMAIN scope'[r] = DOMAIN NoScope
  <2>1. DOMAIN scope[r] = DOMAIN NoScope
    BY <1>1 DEF RunInv, Shape
  <2>2. scope'[r] = scope[r] \/ scope'[r] = [scope[r] EXCEPT !.failures = scope[r].failures + 1]
    BY <1>1 DEF CallTool, Variables
  <2> QED
    BY <2>1, <2>2 DEF NoScope
<1>9. ReportInv(r)' /\ BudgetInv(r)'
    BY <1>1, <1>2, <1>8 DEF RunInv, ReportInv, BudgetInv
<1>10. TableInv'
  <2>1. \A row \in evidence : row.id[1] = r => Newer(r, row)'
    BY <1>1, <1>2, <1>8 DEF TableInv, Newer
  <2> QED
    BY <1>2, <1>4, <2>1, TablesKept
<1>11. CASE /\ Serves(profile, tool, scope[r].workload, incident[r], 0)
            /\ batch' = [batch EXCEPT ![r] = Append(@, record)]
            /\ todo' = [todo EXCEPT ![r] = Follow(record) \o Tail(@)]
  <2>1. batch'[r] = Append(batch[r], record) /\ todo'[r] = Follow(record) \o Tail(todo[r])
    BY <1>1, <1>11 DEF Variables
  <2>2. /\ record.id = <<r, scope[r].number, tool>> /\ record.incident = incident[r].id
        /\ record.tool = tool
    BY DEF Observed
  <2>3. PICK more \in SUBSET {t \in Following : Parent(t) = tool} : Calls(Follow(record), more)
    BY <2>2, FollowCalls
  <2> HIDE DEF tool, record
  <2>4. /\ Called(r) \cap Elements(todo[r]) = {}
        /\ \A t \in Following \cap (Called(r) \cup Elements(todo[r])) : Parent(t) \in Called(r)
        /\ \A i, j \in DOMAIN batch[r] : batch[r][i].tool = batch[r][j].tool => i = j
    BY <1>1, <1>2 DEF RunInv, CallsInv
  <2>5. tool \notin Called(r)
    BY <1>3, <2>4
  <2>6. more \cap (Called(r) \cup Elements(todo[r])) = {}
    BY <2>3, <2>4, <2>5
  <2>7. Calls(todo'[r], more \cup (Elements(todo[r]) \ {tool}))
    BY <1>3, <2>1, <2>3, <2>6, MoreCalls
  <2>8. Sequence(batch[r])
    BY <1>1 DEF RunInv, Shape
  <2>9. /\ Sequence(batch'[r]) /\ Elements(batch'[r]) = Elements(batch[r]) \cup {record}
        /\ Len(batch[r]) \in Nat /\ DOMAIN batch[r] = 1..Len(batch[r])
        /\ DOMAIN batch'[r] = 1..(Len(batch[r]) + 1)
        /\ \A i \in DOMAIN batch[r] : batch'[r][i] = batch[r][i]
        /\ batch'[r][Len(batch[r]) + 1] = record
    BY <2>1, <2>8, Appended
  <2>10. Called(r)' = Called(r) \cup {tool}
    BY <2>2, <2>9 DEF Called
  <2>11. Shape(r)'
    BY <1>1, <1>2, <1>8, <2>7, <2>9 DEF RunInv, Shape, Calls
  <2>12. \A t \in more : Suits(t)
    <3>1. tool \in ChangeTools => ChangeSourcesConfigured(profile)
        BY <1>11 DEF Serves
    <3>2. tool = "tempo_search_demo_traces" => profile.mode = "demo"
        BY <1>11 DEF Serves, TelemetryCallAllowed, TimedTools, ChangeTools
    <3>3. \A t \in Following :
            /\ Parent(t) \notin ChangeTools => t \notin ChangeTools
            /\ t = "tempo_get_trace" => Parent(t) = "tempo_search_demo_traces"
        BY DEF Following, Parent, ChangeTools
    <3>4. ASSUME NEW t \in more
          PROVE  Suits(t)
      <4>1. t \in Following /\ Parent(t) = tool
        BY <2>3
      <4>2. t = "tempo_get_trace" => profile.mode = "demo"
        BY <3>2, <3>3, <4>1
      <4>3. t \in ChangeTools => ChangeSourcesConfigured(profile)
        BY <3>1, <3>3, <4>1
      <4> QED
        BY <4>1, <4>2, <4>3 DEF Suits, Following
    <3> QED
        BY <3>4
  <2>13. PlanInv(r)'
    <3>1. \A t \in Elements(todo'[r]) : t \in more \/ t \in Elements(todo[r])
        BY <2>7 DEF Calls
    <3>2. \A t \in Elements(todo'[r]) : Suits(t)
        BY <1>1, <1>2, <2>12, <3>1 DEF RunInv, PlanInv
    <3> QED
        BY <1>1, <1>2, <1>8, <3>2 DEF RunInv, PlanInv, Suits
  <2>14. CallsInv(r)'
    <3>1. \A i, j \in DOMAIN batch'[r] : batch'[r][i].tool = batch'[r][j].tool => i = j
      <4>1. \A i \in DOMAIN batch[r] : batch[r][i].tool # tool
        BY <2>5 DEF Called, Elements
      <4>2. ASSUME NEW i \in DOMAIN batch'[r], NEW j \in DOMAIN batch'[r],
                   batch'[r][i].tool = batch'[r][j].tool
            PROVE  i = j
        <5>1. \A k \in DOMAIN batch'[r] : k \in DOMAIN batch[r] \/ k = Len(batch[r]) + 1
            BY <2>9
        <5>2. \A k \in DOMAIN batch[r] : batch'[r][k].tool # record.tool
            BY <2>2, <2>9, <4>1
        <5>3. CASE i \in DOMAIN batch[r] /\ j \in DOMAIN batch[r]
            BY <2>4, <2>9, <4>2, <5>3
        <5> QED
            BY <2>9, <4>2, <5>1, <5>2, <5>3
      <4> QED
        BY <4>2
    <3>2. Distinct(todo'[r]) /\ Elements(todo'[r]) = more \cup (Elements(todo[r]) \ {tool})
        BY <2>7 DEF Calls
    <3>3. Called(r)' \cap Elements(todo'[r]) = {}
        BY <1>3, <2>4, <2>6, <2>10, <3>2
    <3>4. \A t \in Following \cap (Called(r)' \cup Elements(todo'[r])) : Parent(t) \in Called(r)'
        BY <1>3, <2>3, <2>4, <2>10, <3>2
    <3> QED
        BY <1>2, <3>1, <3>2, <3>3, <3>4 DEF CallsInv
  <2>15. RecordsInv(r)'
    BY <1>1, <1>2, <1>3, <1>8, <2>2, <2>9 DEF RunInv, RecordsInv
  <2> QED
    BY <1>2, <1>6, <1>7, <1>9, <1>10, <2>11, <2>13, <2>14, <2>15, StepOf DEF RunInv
<1>12. CASE todo' = [todo EXCEPT ![r] = Tail(@)] /\ UNCHANGED batch
  <2>1. todo'[r] = Tail(todo[r]) /\ batch'[r] = batch[r]
    BY <1>1, <1>12 DEF Variables
  <2>2. todo'[r] \in Seq(Tools) /\ Distinct(todo'[r]) /\ Elements(todo'[r]) \subseteq Elements(todo[r])
    BY <1>3, <2>1 DEF Calls
  <2>3. Shape(r)'
    BY <1>1, <1>2, <1>8, <2>1, <2>2 DEF RunInv, Shape
  <2>4. PlanInv(r)'
    BY <1>1, <1>2, <1>8, <2>2 DEF RunInv, PlanInv, Suits
  <2>5. CallsInv(r)'
    BY <1>1, <1>2, <2>1, <2>2 DEF RunInv, CallsInv, Called
  <2>6. RecordsInv(r)'
    BY <1>1, <1>2, <1>8, <2>1 DEF RunInv, RecordsInv
  <2> QED
    BY <1>2, <1>6, <1>7, <1>9, <1>10, <2>3, <2>4, <2>5, <2>6, StepOf DEF RunInv
<1> QED
    BY <1>11, <1>12 DEF CallTool

LEMMA EndCallsInv == ASSUME IInv, NEW r \in Runs, EndCalls(r) PROVE IInv'
<1>1. RunInv(r) /\ Variables /\ TableInv
    BY DEF IInv
<1>2. pc[r] = "call" /\ UNCHANGED <<incident, scope, todo, batch, records, seen, profile, evidence>>
    BY DEF EndCalls, cluster, tables
<1>3. CASE Finish(r, report[r], "evidence unavailable")
    BY <1>2, <1>3, FinishInv
<1>4. CASE batch[r] # <<>> /\ Goto(r, "save_batch") /\ UNCHANGED report
  <2>1. /\ pc'[r] = "save_batch" /\ pc' \in [Runs -> Labels]
        /\ \A q \in Runs \ {r} : pc'[q] = pc[q]
    BY <1>1, <1>4 DEF Goto, Variables, Labels
  <2>2. Variables' /\ Shape(r)'
    BY <1>1, <1>2, <1>4, <2>1 DEF Variables, RunInv, Shape
  <2>3. PlanInv(r)' /\ CallsInv(r)'
    BY <1>1, <1>2, <1>4, <2>1 DEF RunInv, PlanInv, CallsInv, Called
  <2>4. RecordsInv(r)' /\ ReportInv(r)'
    BY <1>1, <1>2, <1>4 DEF RunInv, RecordsInv, ReportInv
  <2>5. BudgetInv(r)'
    BY <1>1, <1>2, <1>4, <2>1 DEF RunInv, BudgetInv
  <2>6. TableInv'
    <3>1. \A row \in evidence : row.id[1] = r => Newer(r, row)'
        BY <1>1, <1>2, <2>1 DEF TableInv, Newer
    <3> QED
        BY <1>2, <2>1, <3>1, TablesKept
  <2>7. \A q \in Runs \ {r} : Local(q)' = Local(q)
    BY <1>2, <1>4, <2>1 DEF Local
  <2> QED
    BY <1>2, <2>2, <2>3, <2>4, <2>5, <2>6, <2>7, StepOf DEF RunInv
<1> QED
    BY <1>3, <1>4 DEF EndCalls

(* A batch is in the table before the report counts on it; one whose       *)
(* commit lost its answer is in the table, and not in the report.          *)
LEMMA SaveBatchInv == ASSUME IInv, NEW r \in Runs, SaveBatch(r) PROVE IInv'
<1>1. RunInv(r) /\ Variables /\ TableInv
    BY DEF IInv
<1>2. pc[r] = "save_batch" /\ UNCHANGED <<incident, scope, todo, batch, seen, profile>>
    BY DEF SaveBatch, cluster
<1>3. CASE NotCollected(r) /\ UNCHANGED evidence
    BY <1>2, <1>3, FinishInv DEF NotCollected
<1> SUFFICES ASSUME Storable(batch[r]), evidence' = evidence \cup Elements(batch[r]),
                    Collected(r) \/ NotCollected(r)
             PROVE  IInv'
    BY <1>3 DEF SaveBatch
<1>4. \A record \in Elements(batch[r]) :
          /\ record.id = <<r, scope[r].number, record.tool>>
          /\ record.id[1] = r /\ record.id[2] = scope[r].number /\ record.id[2] \in Nat
          /\ record.incident = incident[r].id
    BY <1>1 DEF RunInv, RecordsInv, Shape
<1>5. \A row, other \in evidence' : row.id = other.id => row = other
  <2>1. ASSUME NEW row \in Elements(batch[r]), NEW other \in Elements(batch[r]), row.id = other.id
        PROVE  row = other
    <3>1. PICK i \in DOMAIN batch[r] : row = batch[r][i]
        BY DEF Elements
    <3>2. PICK j \in DOMAIN batch[r] : other = batch[r][j]
        BY DEF Elements
    <3>3. row.tool = other.tool
        BY <1>4, <2>1
    <3>4. i = j
        BY <3>1, <3>2, <3>3 DEF Storable
    <3> QED
        BY <3>1, <3>2, <3>4
  <2>2. ASSUME NEW row \in Elements(batch[r]), NEW other \in evidence
        PROVE  row.id # other.id
    BY DEF Storable, Ids
  <2> QED
    BY <1>1, <2>1, <2>2 DEF TableInv
<1>6. DOMAIN report[r] = DOMAIN EmptyReport /\ Sequence(batch[r]) /\ Sequence(records[r])
    BY <1>1 DEF RunInv, Shape
<1>7. \A q \in Runs \ {r} : \A row \in evidence' \ evidence : row.id[1] # q
    BY <1>4
<1>8. CASE Collected(r)
  <2>1. /\ pc'[r] = "decide" /\ pc' \in [Runs -> Labels]
        /\ records'[r] = records[r] \o batch[r]
        /\ DOMAIN records' = Runs /\ DOMAIN report' = Runs
        /\ \A q \in Runs \ {r} : pc'[q] = pc[q] /\ records'[q] = records[q] /\ report'[q] = report[q]
    BY <1>1, <1>8 DEF Collected, Goto, Variables, Labels
  <2>2. /\ DOMAIN report'[r] = DOMAIN EmptyReport
        /\ report'[r].evidence = report[r].evidence \cup Ids(Elements(batch[r]))
        /\ report'[r].status = report[r].status /\ report'[r].root_cause = report[r].root_cause
        /\ report'[r].hypotheses = report[r].hypotheses
        /\ report'[r].llm_calls = report[r].llm_calls /\ report'[r].llm_retries = report[r].llm_retries
    BY <1>1, <1>6, <1>8 DEF Collected, EmptyReport, Variables
  <2>3. Sequence(records'[r]) /\ Elements(records'[r]) = Elements(records[r]) \cup Elements(batch[r])
    BY <1>6, <2>1, Joined
  <2>4. Variables'
    BY <1>1, <1>2, <2>1 DEF Variables
  <2>5. Shape(r)'
    BY <1>1, <1>2, <2>1, <2>2, <2>3 DEF RunInv, Shape
  <2>6. PlanInv(r)' /\ CallsInv(r)'
    BY <2>1 DEF PlanInv, CallsInv
  <2>7. RecordsInv(r)'
    <3>1. Ids(Elements(records'[r])) = Ids(Elements(records[r])) \cup Ids(Elements(batch[r]))
        BY <2>3 DEF Ids
    <3>2. \A record \in Elements(records'[r]) :
              record \in evidence' /\ record.id[1] = r /\ record.incident = incident'[r].id
        BY <1>1, <1>2, <1>4, <2>3 DEF RunInv, RecordsInv
    <3>3. \A record \in Elements(batch'[r]) :
              /\ record.id = <<r, scope'[r].number, record.tool>>
              /\ record.incident = incident'[r].id /\ record.tool \in Tools
        BY <1>1, <1>2 DEF RunInv, RecordsInv
    <3> QED
        BY <1>1, <2>2, <3>1, <3>2, <3>3 DEF RunInv, RecordsInv
  <2>8. ReportInv(r)'
    <3>1. Elements(records[r]) \subseteq Elements(records'[r])
        BY <2>3
    <3>2. report[r].evidence \subseteq report'[r].evidence
        BY <2>2
    <3>3. ReportInv(r)
        BY <1>1 DEF RunInv
    <3> QED
        BY <1>2, <2>2, <3>1, <3>2, <3>3 DEF ReportInv
  <2>9. BudgetInv(r)'
    BY <1>1, <1>2, <2>1, <2>2 DEF RunInv, BudgetInv
  <2>10. TableInv'
    <3>1. ASSUME NEW row \in evidence', NEW q \in Runs, row.id[1] = q
          PROVE  row.id[2] \in Nat /\ Newer(q, row)'
      <4>1. CASE q = r
        <5>1. row.id[2] \in Nat /\ row.id[2] <= scope[r].number
          <6>1. CASE row \in evidence
            BY <1>1, <1>2, <3>1, <4>1, <6>1 DEF TableInv, Newer, RunInv, Shape
          <6>2. CASE row \in Elements(batch[r])
            BY <1>1, <1>4, <6>2 DEF RunInv, Shape
          <6> QED
            BY <6>1, <6>2
        <5> QED
            BY <1>2, <2>1, <4>1, <5>1 DEF Newer
      <4>2. CASE q # r
        <5>1. row \in evidence
            BY <1>7, <3>1, <4>2
        <5> QED
            BY <1>1, <1>2, <2>1, <3>1, <4>2, <5>1 DEF TableInv, Newer
      <4> QED
        BY <4>1, <4>2
    <3> QED
        BY <1>5, <3>1 DEF TableInv
  <2>11. \A q \in Runs \ {r} : Local(q)' = Local(q)
    BY <1>2, <2>1 DEF Local
  <2> QED
    BY <1>2, <2>4, <2>5, <2>6, <2>7, <2>8, <2>9, <2>10, <2>11, StepOf DEF RunInv
<1>9. CASE NotCollected(r)
  <2>1. /\ pc'[r] = "save" /\ pc' \in [Runs -> Labels] /\ DOMAIN report' = Runs
        /\ report'[r] = [report[r] EXCEPT !.reason = "evidence unavailable"] /\ records' = records
        /\ \A q \in Runs \ {r} : pc'[q] = pc[q] /\ report'[q] = report[q]
    BY <1>1, <1>9 DEF NotCollected, Finish, Goto, Variables, Labels
  <2>2. /\ DOMAIN report'[r] = DOMAIN EmptyReport
        /\ report'[r].evidence = report[r].evidence
        /\ report'[r].status = report[r].status /\ report'[r].root_cause = report[r].root_cause
        /\ report'[r].hypotheses = report[r].hypotheses
        /\ report'[r].llm_calls = report[r].llm_calls /\ report'[r].llm_retries = report[r].llm_retries
    BY <1>6, <2>1 DEF EmptyReport
  <2>3. Variables' /\ Shape(r)'
    BY <1>1, <1>2, <2>1, <2>2 DEF Variables, RunInv, Shape
  <2>4. PlanInv(r)' /\ CallsInv(r)'
    BY <2>1 DEF PlanInv, CallsInv
  <2>5. RecordsInv(r)' /\ ReportInv(r)'
    <3>1. RecordsInv(r) /\ ReportInv(r)
        BY <1>1 DEF RunInv
    <3>2. RecordsInv(r)'
        BY <1>2, <2>1, <2>2, <3>1 DEF RecordsInv
    <3>3. records'[r] = records[r] /\ profile' = profile
        BY <1>2, <2>1
    <3>4. ReportInv(r)'
        BY <2>2, <3>1, <3>3 DEF ReportInv
    <3> QED
        BY <3>2, <3>4
  <2>6. BudgetInv(r)'
    BY <1>1, <1>2, <2>1, <2>2 DEF RunInv, BudgetInv
  <2>7. TableInv'
    <3>1. ASSUME NEW row \in evidence', NEW q \in Runs, row.id[1] = q
          PROVE  row.id[2] \in Nat /\ Newer(q, row)'
      <4>1. CASE row \in evidence
        BY <1>1, <1>2, <2>1, <3>1, <4>1 DEF TableInv, Newer
      <4>2. CASE row \in Elements(batch[r])
        BY <1>2, <1>4, <2>1, <3>1, <4>2 DEF Newer
      <4> QED
        BY <4>1, <4>2
    <3> QED
        BY <1>5, <3>1 DEF TableInv
  <2>8. \A q \in Runs \ {r} : Local(q)' = Local(q)
    BY <1>2, <2>1 DEF Local
  <2> QED
    BY <1>2, <2>3, <2>4, <2>5, <2>6, <2>7, <2>8, StepOf DEF RunInv
<1> QED
    BY <1>8, <1>9

-----------------------------------------------------------------------------
(* A report goes to the table with what the verifiers and the model added. *)
LEMMA FinishFound ==
    ASSUME IInv, NEW r \in Runs, pc[r] \notin {"start", "failed"}, NEW reason, NEW built,
           Finish(r, built, reason), DOMAIN built = DOMAIN EmptyReport,
           built.evidence = report[r].evidence,
           built.llm_calls = report[r].llm_calls, built.llm_retries = report[r].llm_retries,
           built.status = "ROOT_CAUSE_FOUND" <=> built.root_cause # None,
           built.root_cause # None =>
               \E rows \in SUBSET Elements(records[r]) :
                   /\ Rests(built.root_cause, rows)
                   /\ profile.mode = "demo" => Shown(built.root_cause.cause, rows),
           \A i \in DOMAIN built.hypotheses :
               /\ built.hypotheses[i].evidence \subseteq built.evidence
               /\ built.hypotheses[i].status # "unresolved" => built.hypotheses[i].evidence # {},
           UNCHANGED <<incident, scope, todo, batch, records, seen, profile, evidence>>
    PROVE  IInv'
<1>1. /\ Goto(r, "save") /\ DOMAIN report' = Runs
      /\ report'[r] = [built EXCEPT !.reason = reason]
      /\ \A q \in Runs \ {r} : report'[q] = report[q]
      /\ pc'[r] = "save"
    BY DEF Finish, Goto, IInv, Variables
<1>2. RunInv(r)
    BY DEF IInv
<1>3. /\ DOMAIN report'[r] = DOMAIN EmptyReport
      /\ report'[r].evidence = built.evidence /\ report'[r].status = built.status
      /\ report'[r].root_cause = built.root_cause
      /\ report'[r].hypotheses = built.hypotheses
      /\ report'[r].llm_calls = built.llm_calls /\ report'[r].llm_retries = built.llm_retries
    BY <1>1 DEF EmptyReport
<1>4. records'[r] = records[r] /\ profile' = profile
    OBVIOUS
<1>5. ReportInv(r)'
    BY <1>3, <1>4 DEF ReportInv
<1>6. BudgetInv(r)'
    BY <1>1, <1>2, <1>3 DEF RunInv, BudgetInv
<1> QED
    BY <1>1, <1>3, <1>5, <1>6, ReportingStep

LEMMA FoundFields ==
    ASSUME IInv, NEW r \in Runs, NEW cause
    PROVE  /\ DOMAIN Found(r, cause) = DOMAIN EmptyReport
           /\ Found(r, cause).status = "ROOT_CAUSE_FOUND" /\ Found(r, cause).root_cause = cause
           /\ Found(r, cause).evidence = report[r].evidence
           /\ Found(r, cause).hypotheses = report[r].hypotheses
           /\ Found(r, cause).llm_calls = report[r].llm_calls
           /\ Found(r, cause).llm_retries = report[r].llm_retries
<1>1. DOMAIN report[r] = DOMAIN EmptyReport
    BY DEF IInv, RunInv, Shape
<1>2. DOMAIN Found(r, cause) = DOMAIN EmptyReport
    BY <1>1 DEF Found, EmptyReport
<1>3. Found(r, cause).status = "ROOT_CAUSE_FOUND" /\ Found(r, cause).root_cause = cause
    BY <1>1 DEF Found, EmptyReport
<1>4. /\ Found(r, cause).evidence = report[r].evidence
      /\ Found(r, cause).hypotheses = report[r].hypotheses
      /\ Found(r, cause).llm_calls = report[r].llm_calls
      /\ Found(r, cause).llm_retries = report[r].llm_retries
    BY <1>1 DEF Found, EmptyReport
<1> QED
    BY <1>2, <1>3, <1>4

LEMMA DecideExternalInv ==
    ASSUME IInv, NEW r \in Runs, pc[r] = "decide", DecideExternal(r),
           UNCHANGED <<incident, records, expired, cluster, tables>>
    PROVE  IInv'
<1> DEFINE cause == ExternalVerifiedCause(profile.verifiers, incident[r].service, records[r])
<1>1. UNCHANGED <<incident, scope, todo, batch, records, seen, profile, evidence>>
    BY DEF DecideExternal, cluster, tables
<1>2. RunInv(r) /\ profile \in Profiles
    BY DEF IInv, Variables
<1>3. CASE cause = None
    BY <1>1, <1>3, FinishInv DEF DecideExternal
<1>4. CASE cause # None
  <2>1. Finish(r, Found(r, cause), "") /\ profile.mode = "external"
    BY <1>4 DEF DecideExternal
  <2>2. profile.verifiers \in Seq({"kubernetes_oom", "image_pull"})
    BY <1>2, InvestigationConstants DEF Profile
  <2>3. Sequence(records[r])
    BY <1>2 DEF RunInv, Shape
  <2>4. \E rows \in SUBSET Elements(records[r]) : Rests(cause, rows)
    BY <1>4, <2>2, <2>3, ExternalRests
  <2> HIDE DEF cause
  <2>5. \A i \in DOMAIN report[r].hypotheses :
            /\ report[r].hypotheses[i].evidence \subseteq report[r].evidence
            /\ report[r].hypotheses[i].status # "unresolved" => report[r].hypotheses[i].evidence # {}
    BY <1>2 DEF RunInv, ReportInv
  <2> DEFINE built == Found(r, cause)
  <2>6. /\ DOMAIN built = DOMAIN EmptyReport
        /\ built.status = "ROOT_CAUSE_FOUND" /\ built.root_cause = cause
        /\ built.evidence = report[r].evidence /\ built.hypotheses = report[r].hypotheses
        /\ built.llm_calls = report[r].llm_calls /\ built.llm_retries = report[r].llm_retries
    BY FoundFields
  <2>7. Finish(r, built, "") /\ profile.mode # "demo"
    BY <2>1
  <2> HIDE DEF built
  <2> QED
    BY <1>1, <1>4, <2>4, <2>5, <2>6, <2>7, FinishFound
<1> QED
    BY <1>3, <1>4

(* The nearest workload downstream that was not visited.                   *)
LEMMA NearestUnvisited ==
    ASSUME NEW r, NEW available, available = DownstreamUnvisited(r), available # {}
    PROVE  Graph[CHOOSE i \in available : \A j \in available : i <= j] \notin seen[r]
<1>1. available \in SUBSET Nat
    BY DEF DownstreamUnvisited, Graph
<1>2. (CHOOSE i \in available : \A j \in available : i <= j) \in available
    BY <1>1, Least
<1> QED
    BY <1>2 DEF DownstreamUnvisited

LEMMA DecideDemoInv ==
    ASSUME IInv, NEW r \in Runs, pc[r] = "decide", DecideDemo(r),
           UNCHANGED <<incident, records, expired, cluster, tables>>
    PROVE  IInv'
<1> DEFINE available == DownstreamUnvisited(r)
           nearest   == Graph[CHOOSE i \in available : \A j \in available : i <= j]
<1>1. RunInv(r) /\ Variables
    BY DEF IInv
<1>2. UNCHANGED <<incident, records, profile, evidence>>
    BY DEF cluster, tables
<1>3. CASE Finish(r, report[r], "duration budget exhausted") /\ UNCHANGED <<scope, todo, batch, seen>>
    BY <1>2, <1>3, FinishInv
<1>4. CASE Goto(r, "chat") /\ UNCHANGED <<scope, todo, batch, seen, report>>
  <2>1. report' = report /\ records'[r] = records[r] /\ profile' = profile
    BY <1>2, <1>4
  <2>2. ReportInv(r)'
    BY <1>1, <2>1 DEF RunInv, ReportInv
  <2>3. pc'[r] = "chat"
    BY <1>1, <1>4 DEF Goto, Variables
  <2>4. BudgetInv(r)'
    BY <1>1, <1>4, <2>3 DEF RunInv, BudgetInv
  <2>5. DOMAIN report' = Runs /\ DOMAIN report'[r] = DOMAIN EmptyReport
    BY <1>1, <2>1 DEF Variables, RunInv, Shape
  <2> QED
    BY <1>2, <1>4, <2>1, <2>2, <2>4, <2>5, ReportingStep
<1>5. CASE /\ available # {} /\ ~ (scope[r].number > MaxTargetCollections)
           /\ Begin(r, incident[r], nearest, DefaultMetric(incident[r], nearest), FALSE)
  <2>1. nearest \notin seen[r]
    BY <1>5, NearestUnvisited
  <2>2. incident[r] \in profile.incidents /\ scope[r].number \in Int
    BY <1>1 DEF RunInv, Shape
  <2>3. scope[r].number <= 2
    BY <1>5, <2>2 DEF MaxTargetCollections
  <2>4. DOMAIN incident' = Runs /\ \A q \in Runs : incident'[q] = incident[q]
    BY <1>1, <1>2 DEF Variables
  <2>5. Begin(r, incident[r], nearest, DefaultMetric(incident[r], nearest), FALSE)
    BY <1>5
  <2> HIDE DEF nearest, Begin
  <2> QED
    BY <1>2, <2>1, <2>2, <2>3, <2>4, <2>5, BeginInv
<1> QED
    BY <1>3, <1>4, <1>5 DEF DecideDemo

LEMMA DecideInv == ASSUME IInv, NEW r \in Runs, Decide(r) PROVE IInv'
BY DecideExternalInv, DecideDemoInv DEF Decide

-----------------------------------------------------------------------------
LEMMA ChatInv == ASSUME IInv, NEW r \in Runs, Chat(r) PROVE IInv'
<1>1. RunInv(r) /\ Variables
    BY DEF IInv
<1>2. pc[r] = "chat" /\ UNCHANGED <<incident, scope, todo, batch, records, seen, profile, evidence>>
    BY DEF Chat, cluster, tables
<1>3. CASE AnalysisFails(r)
    BY <1>2, <1>3, FinishInv DEF AnalysisFails
<1>4. CASE Goto(r, "answer") /\ report' = [report EXCEPT ![r].llm_calls = @ + 1]
  <2>1. /\ pc'[r] = "answer" /\ DOMAIN report' = Runs
        /\ report'[r] = [report[r] EXCEPT !.llm_calls = @ + 1]
        /\ \A q \in Runs \ {r} : report'[q] = report[q]
    BY <1>1, <1>4 DEF Goto, Variables
  <2>2. DOMAIN report[r] = DOMAIN EmptyReport
    BY <1>1 DEF RunInv, Shape
  <2>3. /\ DOMAIN report'[r] = DOMAIN EmptyReport
        /\ report'[r].evidence = report[r].evidence /\ report'[r].status = report[r].status
        /\ report'[r].root_cause = report[r].root_cause
        /\ report'[r].hypotheses = report[r].hypotheses
        /\ report'[r].llm_calls = report[r].llm_calls + 1
        /\ report'[r].llm_retries = report[r].llm_retries
    BY <2>1, <2>2 DEF EmptyReport
  <2>4. ReportInv(r)'
    BY <1>1, <1>2, <2>3 DEF RunInv, ReportInv
  <2>5. BudgetInv(r)'
    <3>1. BudgetInv(r)
        BY <1>1 DEF RunInv
    <3> QED
        BY <1>2, <2>1, <2>3, <3>1 DEF BudgetInv
  <2> QED
    BY <1>2, <1>4, <2>1, <2>3, <2>4, <2>5, ReportingStep
<1> QED
    BY <1>3, <1>4 DEF Chat

LEMMA WaitInv == ASSUME IInv, NEW r \in Runs, Wait(r) PROVE IInv'
<1>1. RunInv(r) /\ Variables
    BY DEF IInv
<1>2. pc[r] = "wait" /\ UNCHANGED <<incident, scope, todo, batch, records, seen, profile, evidence>>
    BY DEF Wait, cluster, tables
<1>3. CASE AnalysisFails(r)
    BY <1>2, <1>3, FinishInv DEF AnalysisFails
<1>4. CASE Goto(r, "chat") /\ report' = [report EXCEPT ![r].llm_retries = @ + 1]
  <2>1. /\ pc'[r] = "chat" /\ DOMAIN report' = Runs
        /\ report'[r] = [report[r] EXCEPT !.llm_retries = @ + 1]
        /\ \A q \in Runs \ {r} : report'[q] = report[q]
    BY <1>1, <1>4 DEF Goto, Variables
  <2>2. DOMAIN report[r] = DOMAIN EmptyReport
    BY <1>1 DEF RunInv, Shape
  <2>3. /\ DOMAIN report'[r] = DOMAIN EmptyReport
        /\ report'[r].evidence = report[r].evidence /\ report'[r].status = report[r].status
        /\ report'[r].root_cause = report[r].root_cause
        /\ report'[r].hypotheses = report[r].hypotheses
        /\ report'[r].llm_calls = report[r].llm_calls
        /\ report'[r].llm_retries = report[r].llm_retries + 1
    BY <2>1, <2>2 DEF EmptyReport
  <2>4. ReportInv(r)'
    BY <1>1, <1>2, <2>3 DEF RunInv, ReportInv
  <2>5. BudgetInv(r)'
    <3>1. BudgetInv(r)
        BY <1>1 DEF RunInv
    <3> QED
        BY <1>2, <2>1, <2>3, <3>1 DEF BudgetInv
  <2> QED
    BY <1>2, <1>4, <2>1, <2>3, <2>4, <2>5, ReportingStep
<1> QED
    BY <1>3, <1>4 DEF Wait

(* Of what a model cites, only this run's evidence enters a hypothesis.    *)
LEMMA HypothesesCite ==
    ASSUME IInv, NEW r \in Runs, NEW proposed
    PROVE  \A i \in DOMAIN Hypotheses(r, proposed) :
              /\ Hypotheses(r, proposed)[i].evidence \subseteq report[r].evidence
              /\ Hypotheses(r, proposed)[i].status # "unresolved" =>
                    Hypotheses(r, proposed)[i].evidence # {}
<1> DEFINE bad    == {i \in DOMAIN proposed : proposed[i].blank \/ i > MaxHypotheses}
           taken  == IF bad = {} THEN proposed
                     ELSE SubSeq(proposed, 1, (CHOOSE i \in bad : \A j \in bad : i <= j) - 1)
           ids(i) == ValidIDs(r, Named(r, taken[i].cites, taken[i].others))
           one(i) == [status   |-> IF ids(i) = {} \/ taken[i].status \notin {"supported", "rejected"}
                                   THEN "unresolved" ELSE taken[i].status,
                      evidence |-> ids(i)]
<1>1. Hypotheses(r, proposed) = [i \in DOMAIN taken |-> one(i)]
    BY DEF Hypotheses
<1>2. \A i : ids(i) \subseteq report[r].evidence
    BY DEF ValidIDs, IInv, RunInv, RecordsInv
<1> HIDE DEF taken, ids
<1>3. \A i : /\ one(i).evidence = ids(i)
             /\ one(i).status # "unresolved" => ids(i) # {}
    OBVIOUS
<1> QED
    BY <1>1, <1>2, <1>3

LEMMA AnalyseInv ==
    ASSUME IInv, NEW r \in Runs, pc[r] = "answer", NEW claim, NEW hypotheses,
           Analyse(r, claim, hypotheses),
           UNCHANGED <<incident, scope, todo, batch, records, seen, profile, evidence>>
    PROVE  IInv'
<1> DEFINE cause  == VerifyClaim(records[r], ValidIDs(r, claim.evidence), claim.component, claim.cause)
           before == IF cause = None THEN report[r] ELSE Found(r, cause)
           taken  == Hypotheses(r, hypotheses)
           built  == [before EXCEPT !.hypotheses = taken]
<1>1. Finish(r, built, IF cause = None THEN "root cause not verified" ELSE "")
    BY DEF Analyse
<1>2. RunInv(r) /\ Sequence(records[r]) /\ DOMAIN report[r] = DOMAIN EmptyReport
    BY DEF IInv, RunInv, Shape
<1>3. cause # None => \E rows \in SUBSET Elements(records[r]) : Rests(cause, rows) /\ Shown(cause.cause, rows)
    BY <1>2, ClaimShown
<1>4. \A i \in DOMAIN taken :
          /\ taken[i].evidence \subseteq report[r].evidence
          /\ taken[i].status # "unresolved" => taken[i].evidence # {}
    BY HypothesesCite
<1> HIDE DEF cause, taken
<1>5. /\ DOMAIN before = DOMAIN EmptyReport /\ before.evidence = report[r].evidence
      /\ before.llm_calls = report[r].llm_calls /\ before.llm_retries = report[r].llm_retries
      /\ before.status = "ROOT_CAUSE_FOUND" <=> before.root_cause # None
      /\ before.root_cause # None =>
            \E rows \in SUBSET Elements(records[r]) :
                /\ Rests(before.root_cause, rows)
                /\ profile.mode = "demo" => Shown(before.root_cause.cause, rows)
  <2>1. CASE cause = None
    <3>1. before = report[r]
        BY <2>1
    <3> QED
        BY <1>2, <3>1 DEF RunInv, ReportInv
  <2>2. CASE cause # None
    <3>1. /\ DOMAIN before = DOMAIN EmptyReport /\ before.status = "ROOT_CAUSE_FOUND"
          /\ before.root_cause = cause /\ before.evidence = report[r].evidence
          /\ before.llm_calls = report[r].llm_calls /\ before.llm_retries = report[r].llm_retries
        BY <2>2, FoundFields
    <3> QED
        BY <1>3, <2>2, <3>1
  <2> QED
    BY <2>1, <2>2
<1> HIDE DEF before
<1>6. /\ DOMAIN built = DOMAIN EmptyReport /\ built.evidence = before.evidence
      /\ built.llm_calls = before.llm_calls /\ built.llm_retries = before.llm_retries
      /\ built.status = before.status /\ built.root_cause = before.root_cause
      /\ built.hypotheses = taken
    BY <1>5 DEF EmptyReport
<1> HIDE DEF built
<1> QED
    BY <1>1, <1>4, <1>5, <1>6, FinishFound

LEMMA AnswerInv == ASSUME IInv, NEW r \in Runs, Answer(r) PROVE IInv'
<1>1. RunInv(r) /\ Variables
    BY DEF IInv
<1>2. pc[r] = "answer" /\ UNCHANGED <<incident, scope, todo, batch, records, seen, profile, evidence>>
    BY DEF Answer, cluster, tables
<1>3. \/ AnalysisFails(r)
      \/ Finish(r, report[r], "invalid analysis output")
      \/ \E claim, hypotheses : Analyse(r, claim, hypotheses)
      \/ /\ report[r].llm_retries = 0 /\ Goto(r, "wait") /\ UNCHANGED report
    BY DEF Answer
<1>4. CASE AnalysisFails(r)
    BY <1>2, <1>4, FinishInv DEF AnalysisFails
<1>5. CASE Finish(r, report[r], "invalid analysis output")
    BY <1>2, <1>5, FinishInv
<1>6. CASE \E claim, hypotheses : Analyse(r, claim, hypotheses)
    BY <1>2, <1>6, AnalyseInv
<1>7. CASE report[r].llm_retries = 0 /\ Goto(r, "wait") /\ UNCHANGED report
  <2>1. pc'[r] = "wait"
    BY <1>1, <1>7 DEF Goto, Variables
  <2>2. ReportInv(r)'
    BY <1>1, <1>2, <1>7 DEF RunInv, ReportInv
  <2>3. BudgetInv(r)'
    BY <1>1, <1>2, <1>7, <2>1 DEF RunInv, BudgetInv
  <2>4. DOMAIN report' = Runs /\ DOMAIN report'[r] = DOMAIN EmptyReport
    BY <1>1, <1>7 DEF Variables, RunInv, Shape
  <2> QED
    BY <1>2, <1>7, <2>2, <2>3, <2>4, ReportingStep
<1> QED
    BY <1>3, <1>4, <1>5, <1>6, <1>7

LEMMA SaveReportInv == ASSUME IInv, NEW r \in Runs, SaveReport(r) PROVE IInv'
<1>1. RunInv(r) /\ Variables
    BY DEF IInv
<1>2. /\ pc[r] = "save"
      /\ UNCHANGED <<incident, scope, todo, batch, records, seen, report, profile, evidence>>
    BY DEF SaveReport, cluster
<1>3. PICK label \in {"reported", "failed"} : Goto(r, label)
    BY DEF SaveReport
<1>4. pc'[r] = label
    BY <1>1, <1>3 DEF Goto, Variables
<1>5. ReportInv(r)'
    BY <1>1, <1>2 DEF RunInv, ReportInv
<1>6. BudgetInv(r)'
    BY <1>1, <1>2, <1>4 DEF RunInv, BudgetInv
<1>7. DOMAIN report' = Runs /\ DOMAIN report'[r] = DOMAIN EmptyReport
    BY <1>1, <1>2 DEF Variables, RunInv, Shape
<1> QED
    BY <1>2, <1>3, <1>5, <1>6, <1>7, ReportingStep

(* A run that dies keeps nothing; its rows stay in the table.              *)
LEMMA KillInv == ASSUME IInv, NEW r \in Runs, Kill(r) PROVE IInv'
<1>1. RunInv(r) /\ Variables /\ TableInv
    BY DEF IInv
<1>2. /\ UNCHANGED <<incident, profile, evidence>>
      /\ pc'[r] = "failed" /\ pc' \in [Runs -> Labels]
      /\ scope'[r] = NoScope /\ todo'[r] = <<>> /\ batch'[r] = <<>> /\ records'[r] = <<>>
      /\ seen'[r] = {} /\ report'[r] = EmptyReport
      /\ DOMAIN scope' = Runs /\ DOMAIN todo' = Runs /\ DOMAIN batch' = Runs
      /\ DOMAIN records' = Runs /\ DOMAIN seen' = Runs /\ DOMAIN report' = Runs
    BY <1>1 DEF Kill, Goto, Variables, Labels, cluster, tables
<1>3. \A q \in Runs \ {r} :
          /\ pc'[q] = pc[q] /\ scope'[q] = scope[q] /\ todo'[q] = todo[q] /\ batch'[q] = batch[q]
          /\ records'[q] = records[q] /\ seen'[q] = seen[q] /\ report'[q] = report[q]
    BY <1>1 DEF Kill, Goto, Variables
<1>4. Variables'
    BY <1>1, <1>2 DEF Variables
<1>5. scope'[r].number = 0 /\ DOMAIN scope'[r] = DOMAIN NoScope
    BY <1>2 DEF NoScope
<1>6. Shape(r)'
    BY <1>2, <1>5, EmptySequence DEF Shape
<1>7. PlanInv(r)' /\ CallsInv(r)'
    BY <1>2 DEF PlanInv, CallsInv
<1>8. /\ report'[r].status = "INSUFFICIENT_EVIDENCE" /\ report'[r].root_cause = None
      /\ report'[r].evidence = {} /\ DOMAIN report'[r].hypotheses = {}
      /\ report'[r].llm_calls = 0 /\ report'[r].llm_retries = 0
    BY <1>2, EmptyReportFields
<1>9. RecordsInv(r)'
    BY <1>2, <1>8, EmptySequence DEF RecordsInv, Ids
<1>10. ReportInv(r)'
    BY <1>8 DEF ReportInv
<1>11. BudgetInv(r)'
    BY <1>2, <1>5, <1>8, FS_EmptySet DEF BudgetInv
<1>12. TableInv'
    BY <1>2, <1>3, TablesKept DEF Newer
<1>13. \A q \in Runs \ {r} : Local(q)' = Local(q)
    BY <1>2, <1>3 DEF Local
<1> QED
    BY <1>2, <1>4, <1>6, <1>7, <1>9, <1>10, <1>11, <1>12, <1>13, StepOf DEF RunInv

(* Deadlines, the cluster and the end of all runs touch no run.            *)
LEMMA OutsideInv ==
    ASSUME IInv,
           UNCHANGED <<pc, incident, scope, todo, batch, records, seen, report, profile, evidence>>
    PROVE  IInv'
<1>1. \A r \in Runs : Local(r)' = Local(r)
    BY DEF Local
<1>2. \A r \in Runs : RunInv(r)'
    BY <1>1, Untouched DEF IInv
<1>3. Variables' /\ TableInv'
    BY DEF IInv, Variables, TableInv, Newer
<1> QED
    BY <1>2, <1>3 DEF IInv

LEMMA NextInv == IInv /\ [Next]_vars => IInv'
<1> SUFFICES ASSUME IInv, [Next]_vars PROVE IInv'
    OBVIOUS
<1>1. ASSUME NEW r \in Runs, Step(r) PROVE IInv'
    BY <1>1, StartInv, CallToolInv, EndCallsInv, SaveBatchInv, DecideInv, ChatInv, AnswerInv, WaitInv,
       SaveReportInv DEF Step
<1>2. ASSUME NEW r \in Runs, Expire(r) PROVE IInv'
    BY <1>2, OutsideInv DEF Expire, cluster, tables
<1>3. ASSUME NEW r \in Runs, Kill(r) PROVE IInv'
    BY <1>3, KillInv
<1>4. CASE WorldChanges
    BY <1>4, OutsideInv DEF WorldChanges, tables
<1>5. CASE UNCHANGED vars
    BY <1>5, OutsideInv DEF vars, cluster, tables
<1> QED
    BY <1>1, <1>2, <1>3, <1>4, <1>5 DEF Next, Finished

(* The invariant holds of every behaviour.                                 *)
THEOREM InvariantHolds == Spec => []IInv
<1>1. Init => IInv
    BY InitInv
<1>2. IInv /\ [Next]_vars => IInv'
    BY NextInv
<1> QED
    BY <1>1, <1>2, PTL DEF Spec

-----------------------------------------------------------------------------
(* However a provider answers, an investigation calls it twice at most,    *)
(* the second time only for the one retry, and never collects a fourth     *)
(* time nor of one workload twice.                                         *)
THEOREM RunsStayWithinBudgets == Spec => []WithinBudgets
<1>1. IInv => WithinBudgets
  <2> SUFFICES ASSUME IInv, NEW r \in Runs
               PROVE  /\ report[r].llm_calls <= 1 + report[r].llm_retries
                      /\ report[r].llm_retries <= 1
                      /\ Cardinality(seen[r]) = scope[r].number /\ scope[r].number <= 3
    BY DEF WithinBudgets
  <2>1. BudgetInv(r) /\ scope[r].number \in 0..3
    BY DEF IInv, RunInv, Shape
  <2> QED
    BY <2>1 DEF BudgetInv
<1> QED
    BY <1>1, InvariantHolds, PTL

(* The window of a collection is one the server still takes two minutes    *)
(* later, but exactly where TelemetryLost says it is not: Window goes by    *)
(* the ages of the start and of the end of the incident, ValidateWindow by  *)
(* that of the start of the window.                                        *)
THEOREM WindowLastsUnlessLost ==
    ASSUME NEW inc, inc.started \in Int, inc.resolved \in Nat, WindowAvailable(inc)
    PROVE  ValidateWindow(WindowStart(inc), WindowEnd(inc), RunLimit) <=> ~TelemetryLost(inc)
<1>1. WindowEnd(inc) \in Nat /\ WindowEnd(inc) = inc.resolved
    BY DEF WindowEnd
<1>2. WindowStart(inc) =
        IF inc.started + Lead > inc.resolved + Hour THEN inc.resolved + Hour ELSE inc.started + Lead
    BY <1>1 DEF WindowStart
<1>3. WindowStart(inc) > inc.resolved
    BY <1>1 DEF WindowAvailable
<1> QED
    BY <1>1, <1>2, <1>3 DEF ValidateWindow, TelemetryLost, Day, Hour, Lead, Skew, RunLimit

(* Whatever the profile, and whenever in its two minutes a run makes a     *)
(* call, the server does not refuse it, but for a demo without Argo CD and *)
(* for the telemetry of an incident that began over 23 hours 56 minutes ago *)
(* and was resolved over 22 hours 58 minutes ago: the windows that         *)
(* WindowLastsUnlessLost says are refused indeed.                          *)
THEOREM ServerServesPlannedCalls == Spec => []PlannedCallsAreServed
<1>1. IInv => PlannedCallsAreServed
  <2> SUFFICES ASSUME IInv, NEW r \in Runs, pc[r] = "call", NEW tool \in Elements(todo[r]),
                      ~ (tool = "argocd_get_application" /\ ~profile.change_sources),
                      ~ (tool \in TimedTools /\ TelemetryLost(incident[r]))
               PROVE  Serves(profile, tool, scope[r].workload, incident[r], RunLimit)
    BY DEF PlannedCallsAreServed
  <2>1. /\ WindowAvailable(incident[r]) /\ scope[r].workload \in profile.workloads /\ Suits(tool)
    BY DEF IInv, RunInv, PlanInv
  <2>2. tool \in Tools
    BY DEF IInv, RunInv, Shape, Elements
  <2>3. incident[r].started \in Int /\ incident[r].resolved \in Nat
    <3>1. incident[r] \in profile.incidents /\ profile \in Profiles
        BY DEF IInv, Variables, RunInv, Shape
    <3> QED
        BY <3>1, InvestigationConstants DEF Profile
  <2>4. tool \in TimedTools => ValidateWindow(WindowStart(incident[r]), WindowEnd(incident[r]), RunLimit)
    BY <2>1, <2>3, WindowLastsUnlessLost
  <2>5. tool \in ChangeTools => ChangeSourcesConfigured(profile)
    BY <2>1 DEF Suits, ChangeTools, ChangeSourcesConfigured
  <2>6. tool \in (TimedTools \cup {"tempo_get_trace"}) \ ChangeTools =>
            TelemetryCallAllowed(profile, tool, scope[r].workload)
    BY <2>1 DEF Suits, TimedTools, ChangeTools, TelemetryCallAllowed
  <2>7. tool \notin ChangeTools \cup TimedTools \cup {"tempo_get_trace"} =>
            KubernetesCallAllowed(profile, tool, scope[r].workload)
    BY <2>1 DEF Suits, KubernetesCallAllowed
  <2> QED
    BY <2>4, <2>5, <2>6, <2>7 DEF Serves
<1> QED
    BY <1>1, InvariantHolds, PTL

-----------------------------------------------------------------------------
(* What a set of stored records of a run rests on is found again by its    *)
(* IDs and the incident.                                                   *)
LEMMA RowsFound ==
    ASSUME IInv, NEW r \in Runs, NEW rows \in SUBSET Elements(records[r])
    PROVE  RowsOf(r, Ids(rows)) = rows
<1>1. \A row, other \in evidence : row.id = other.id => row = other
    BY DEF IInv, TableInv
<1>2. \A row \in rows : row \in evidence /\ row.incident = incident[r].id
    BY DEF IInv, RunInv, RecordsInv
<1>3. rows \subseteq RowsOf(r, Ids(rows))
    BY <1>2 DEF RowsOf, Ids
<1>4. ASSUME NEW row \in RowsOf(r, Ids(rows))
      PROVE  row \in rows
  <2>1. row \in evidence /\ row.id \in Ids(rows)
    BY DEF RowsOf
  <2>2. PICK other \in rows : other.id = row.id
    BY <2>1 DEF Ids
  <2> QED
    BY <1>1, <1>2, <2>1, <2>2
<1> QED
    BY <1>3, <1>4

(* Whatever the model cites, and however batches were lost, a report and   *)
(* its hypotheses cite only evidence stored for its incident.              *)
THEOREM EvidenceIsCited == Spec => []ReportsCiteTheirEvidence
<1>1. IInv => ReportsCiteTheirEvidence
  <2> SUFFICES ASSUME IInv, NEW r \in Runs
               PROVE  /\ Ids(RowsOf(r, report[r].evidence)) = report[r].evidence
                      /\ report[r].root_cause # None =>
                            report[r].root_cause.evidence \subseteq report[r].evidence
                      /\ \A i \in DOMAIN report[r].hypotheses :
                            /\ report[r].hypotheses[i].evidence \subseteq report[r].evidence
                            /\ report[r].hypotheses[i].status # "unresolved" =>
                                  report[r].hypotheses[i].evidence # {}
    BY DEF ReportsCiteTheirEvidence
  <2>1. report[r].evidence = Ids(Elements(records[r])) /\ ReportInv(r)
    BY DEF IInv, RunInv, RecordsInv
  <2>2. Ids(RowsOf(r, report[r].evidence)) = report[r].evidence
    BY <2>1, RowsFound
  <2>3. report[r].root_cause # None => report[r].root_cause.evidence \subseteq report[r].evidence
    BY <2>1 DEF ReportInv, Rests, Ids
  <2> QED
    BY <2>1, <2>2, <2>3 DEF ReportInv
<1> QED
    BY <1>1, InvariantHolds, PTL

(* For every behaviour of the model, the tools, the database and the       *)
(* cluster, a root cause in the demo comes with stored records of its      *)
(* incident that show all of its grounds.                                  *)
THEOREM RootCausesAreGrounded == Spec => []RootCauseIsGrounded
<1>1. IInv => RootCauseIsGrounded
  <2> SUFFICES ASSUME IInv, NEW r \in Runs, profile.mode = "demo",
                      report[r].status = "ROOT_CAUSE_FOUND"
               PROVE  LET root == report[r].root_cause  rows == RowsOf(r, root.evidence)
                      IN
                      /\ Ids(rows) = root.evidence
                      /\ \A ground \in Grounds(root.cause) : \E row \in rows :
                            /\ row.tool = ground[1]
                            /\ ground[2] \in {"any", row.resource}
                            /\ ground[3] \in row.shows
                      /\ root.cause = "deployment_references_unpullable_image" =>
                            /\ Cardinality({row.image : row \in rows}) = 1
                            /\ \A row \in rows : row.tool = "kubernetes_get_events" => SamePod(row, rows)
                      /\ \A log, pods \in rows :
                            log.tool = "kubernetes_get_pod_logs" /\ pods.tool = "kubernetes_get_pods" =>
                                log.resource = pods.pod
    BY DEF RootCauseIsGrounded
  <2> DEFINE root == report[r].root_cause
             rows == RowsOf(r, root.evidence)
  <2>1. ReportInv(r)
    BY DEF IInv, RunInv
  <2>2. PICK shown \in SUBSET Elements(records[r]) : Rests(root, shown) /\ Shown(root.cause, shown)
    BY <2>1 DEF ReportInv
  <2>3. root.evidence = Ids(shown) /\ rows = shown
    BY <2>2, RowsFound DEF Rests
  <2>4. \A image : Cardinality({image}) = 1
    BY FS_Singleton
  <2> QED
    BY <2>2, <2>3, <2>4 DEF Shown
<1> QED
    BY <1>1, InvariantHolds, PTL

LEMMA FifteenTools == IsFiniteSet(Tools) /\ Cardinality(Tools) <= 15
<1> DEFINE list == << "kubernetes_get_deployment", "kubernetes_get_orders_config",
                      "kubernetes_get_service", "kubernetes_get_endpointslices",
                      "kubernetes_get_pods", "kubernetes_get_pod_logs", "kubernetes_get_events",
                      "prometheus_get_demo_metric_range", "loki_get_demo_logs",
                      "tempo_search_demo_traces", "tempo_get_trace", "argocd_get_application",
                      "argocd_get_revision_history", "github_get_commit", "github_get_diff" >>
<1>1. \A i \in 1..15 : list[i] \in Tools
    BY DEF Tools
<1>2. \A tool \in Tools : \E i \in 1..15 : list[i] = tool
    BY DEF Tools
<1>3. PICK n \in Nat : n = 15
    OBVIOUS
<1> DEFINE f == [i \in 1..n |-> list[i]]
<1> HIDE DEF list
<1>4. f \in Surjection(1..n, Tools)
    BY <1>1, <1>2, <1>3 DEF Surjection
<1>5. IsFiniteSet(1..n) /\ Cardinality(1..n) = n
    BY FS_Interval
<1>6. IsFiniteSet(Tools) /\ Cardinality(Tools) <= Cardinality(1..n)
    BY <1>4, <1>5, FS_Surjection
<1> QED
    BY <1>3, <1>5, <1>6

(* The table takes every batch that a collection hands over.               *)
THEOREM CollectionsAreStorable == Spec => []BatchesAreStorable
<1>1. IInv => BatchesAreStorable
  <2> SUFFICES ASSUME IInv, NEW r \in Runs, pc[r] = "save_batch"
               PROVE  Storable(batch[r])
    BY DEF BatchesAreStorable
  <2>1. /\ \A i, j \in DOMAIN batch[r] : batch[r][i].tool = batch[r][j].tool => i = j
        /\ batch[r] # <<>>
    BY DEF IInv, RunInv, CallsInv
  <2>2. /\ Sequence(batch[r]) /\ Len(batch[r]) \in Nat /\ DOMAIN batch[r] = 1..Len(batch[r])
        /\ (Len(batch[r]) = 0 => batch[r] = <<>>)
    BY DEF IInv, RunInv, Shape, Sequence
  <2>3. \A record \in Elements(batch[r]) :
            record.id = <<r, scope[r].number, record.tool>> /\ record.tool \in Tools
    BY DEF IInv, RunInv, RecordsInv
  <2>4. Len(batch[r]) <= MaxBatch
    <3> DEFINE f == [i \in 1..Len(batch[r]) |-> batch[r][i].tool]
    <3>1. \A i \in 1..Len(batch[r]) : batch[r][i].tool \in Tools
        BY <2>2, <2>3 DEF Elements
    <3>2. f \in Injection(1..Len(batch[r]), Tools)
        BY <2>1, <2>2, <3>1 DEF Injection, IsInjective
    <3>3. Cardinality(1..Len(batch[r])) <= Cardinality(Tools)
        BY <3>2, FifteenTools, FS_Injection
    <3>4. Cardinality(1..Len(batch[r])) = Len(batch[r])
        BY <2>2, FS_Interval
    <3>5. Cardinality(Tools) \in Nat
        BY FifteenTools, FS_CardinalityType
    <3> QED
        BY <2>2, <3>3, <3>4, <3>5, FifteenTools DEF MaxBatch
  <2>5. Ids(Elements(batch[r])) \cap Ids(evidence) = {}
    <3> SUFFICES ASSUME NEW record \in Elements(batch[r]), NEW row \in evidence, row.id = record.id
                 PROVE  FALSE
        BY DEF Ids
    <3>1. row.id[1] = r /\ row.id[2] = scope[r].number /\ scope[r].number \in Nat
        BY <2>3 DEF IInv, RunInv, Shape
    <3> QED
        BY <3>1 DEF IInv, TableInv, Newer
  <2> QED
    BY <2>1, <2>2, <2>4, <2>5 DEF Storable
<1> QED
    BY <1>1, InvariantHolds, PTL
=============================================================================
