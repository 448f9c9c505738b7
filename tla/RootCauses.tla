----------------------------- MODULE RootCauses -----------------------------
(***************************************************************************)
(* The deterministic verifiers of the investigation agent (verify.go and   *)
(* external_verify.go): which root cause a sequence of evidence records    *)
(* supports, and which of the records it cites.                            *)
(*                                                                         *)
(* A record says which tool observed what resource, and "shows" is the set *)
(* of payload predicates that hold of it.  The payload values the          *)
(* verifiers compare between records are kept: the failing pod, the image  *)
(* and the memory limit (None where a payload has none); they belong to    *)
(* the one pod or event the predicates speak of.  A resource is named      *)
(* without its namespace, of which a profile has one.                      *)
(***************************************************************************)
EXTENDS Naturals, Sequences

CONSTANT None   \* absent value

(* The last record, in the order of collection, that passes the test.      *)
Last(records, Test(_)) ==
    LET hits == {i \in DOMAIN records : Test(records[i])}
    IN  IF hits = {} THEN None ELSE records[CHOOSE i \in hits : \A j \in hits : j <= i]

Shows(record, tool, resource, fact) ==
    record.tool = tool /\ record.resource = resource /\ fact \in record.shows

Evidence(records, cited, tool, resource, fact) ==
    Last(records, LAMBDA record : record.id \in cited /\ Shows(record, tool, resource, fact))

Metric(records, cited, resource, metric, fact) ==
    Last(records, LAMBDA record :
        /\ record.id \in cited
        /\ Shows(record, "prometheus_get_demo_metric_range", resource, fact)
        /\ record.metric = metric)

(* A trace counts whatever workload's collection found it.                 *)
Trace(records, cited, fact) ==
    Last(records, LAMBDA record :
        record.id \in cited /\ record.tool = "tempo_get_trace" /\ fact \in record.shows)

(* A cause is supported when all of its evidence is there.                 *)
Supported(component, cause, evidence) ==
    IF None \in evidence THEN None
    ELSE [component |-> component, cause |-> cause,
          evidence  |-> {record.id : record \in evidence}]
-----------------------------------------------------------------------------
(* Mutant: any cited record of the pods counts.                            *)
VerifyOOMByLimit(records, cited) ==
    Supported("payments-api", "memory_limit_oom",
        { Last(records, LAMBDA record :
            /\ record.id \in cited
            /\ record.tool = "kubernetes_get_pods" /\ record.resource = "payments-api"),
          Evidence(records, cited, "kubernetes_get_deployment", "payments-api", "memory_limit") })

VerifyOOM(records, cited) ==
    Supported("payments-api", "memory_limit_oom",
        { Evidence(records, cited, "kubernetes_get_pods", "payments-api", "oom_killed"),
          Evidence(records, cited, "kubernetes_get_deployment", "payments-api", "memory_limit") })

(* Mutant: the three records need not speak of one pod and one image.      *)
VerifyImagePullUncorrelated(records, cited) ==
    Supported("orders-api", "deployment_references_unpullable_image",
        { Evidence(records, cited, "kubernetes_get_pods", "orders-api", "waiting_for_image"),
          Evidence(records, cited, "kubernetes_get_deployment", "orders-api", "always_pull"),
          Evidence(records, cited, "kubernetes_get_events", "orders-api", "pull_failed") })

(* The last events record is taken whatever it shows, and the pull policy  *)
(* is that of the last deployment that names an image.                     *)
VerifyImagePull(records, cited) ==
    LET pod    == Evidence(records, cited, "kubernetes_get_pods", "orders-api", "waiting_for_image")
        deploy == Evidence(records, cited, "kubernetes_get_deployment", "orders-api", "image")
        events == Last(records, LAMBDA record :
                        /\ record.id \in cited
                        /\ record.tool = "kubernetes_get_events"
                        /\ record.resource = "orders-api")
    IN  IF /\ None \notin {pod, deploy, events}
           /\ pod.image = deploy.image
           /\ "always_pull" \in deploy.shows
           /\ "pull_failed" \in events.shows
           /\ events.pod = pod.pod
           /\ events.image = deploy.image
        THEN Supported("orders-api", "deployment_references_unpullable_image", {pod, deploy, events})
        ELSE None

VerifyInvalidOrderConfig(records, cited) ==
    LET pod == Evidence(records, cited, "kubernetes_get_pods", "orders-api", "crash_loop")
    IN  IF pod = None THEN None
        ELSE Supported("orders-api", "unsupported_order_mode_from_configmap",
                { Evidence(records, cited, "kubernetes_get_orders_config", "orders-config",
                           "order_mode_unsupported"),
                  Evidence(records, cited, "kubernetes_get_deployment", "orders-api",
                           "reads_order_mode"),
                  pod,
                  Evidence(records, cited, "kubernetes_get_pod_logs", pod.pod,
                           "invalid_order_mode") })

(* The sample may be of any metric of the frontend.                        *)
VerifyBrokenServiceSelector(records, cited) ==
    Supported("payments-api", "service_selector_matches_no_payment_pods",
        { Evidence(records, cited, "kubernetes_get_service", "payments-api", "disconnected"),
          Evidence(records, cited, "kubernetes_get_endpointslices", "payments-api", "no_addresses"),
          Evidence(records, cited, "kubernetes_get_pods", "payments-api", "ready"),
          Evidence(records, cited, "prometheus_get_demo_metric_range", "frontend", "positive") })

VerifyExcessiveCPU(records, cited) ==
    Supported("orders-api", "excessive_cpu_work_per_order",
        { Evidence(records, cited, "kubernetes_get_deployment", "orders-api", "cpu_burn"),
          Metric(records, cited, "frontend", "success_latency_avg", "slow"),
          Metric(records, cited, "orders-api", "success_latency_avg", "slow"),
          Trace(records, cited, "slow_checkout") })

VerifyPaymentFailure(records, cited) ==
    Supported("payments-api", "payment_processor_failure_mode_enabled",
        { Evidence(records, cited, "kubernetes_get_deployment", "payments-api", "mode_fail"),
          Metric(records, cited, "frontend", "error_rate", "positive"),
          Trace(records, cited, "payment_failure") })

Verifications(records, cited) ==
    << VerifyOOM(records, cited), VerifyImagePull(records, cited),
       VerifyInvalidOrderConfig(records, cited), VerifyBrokenServiceSelector(records, cited),
       VerifyExcessiveCPU(records, cited), VerifyPaymentFailure(records, cited) >>

Verified(records, cited) ==
    LET all == Verifications(records, cited) IN {all[i] : i \in DOMAIN all} \ {None}

(* The first one that is supported.                                        *)
SupportedCause(records, cited) ==
    LET all  == Verifications(records, cited)
        hits == {i \in DOMAIN all : all[i] # None}
    IN  IF hits = {} THEN None ELSE all[CHOOSE i \in hits : \A j \in hits : i <= j]

VerifyClaim(records, cited, component, cause) ==
    LET claimed == {c \in Verified(records, cited) : c.component = component /\ c.cause = cause}
    IN  IF claimed = {} THEN None ELSE CHOOSE c \in claimed : TRUE

EvidenceAlreadySupportsCause(records, cited) == SupportedCause(records, cited) # None
-----------------------------------------------------------------------------
(* External profiles: only the scoped Kubernetes facts of one workload, in *)
(* the profile's order of verifiers.                                       *)
Scoped(records, tool, workload) ==
    Last(records, LAMBDA record : record.tool = tool /\ record.resource = workload)

(* Mutants: an OOM kill of long before the incident counts; so does one    *)
(* under another limit than the one in force.                              *)
ExternalOOMEver(workload, deployment, pods) ==
    IF /\ "memory_limit" \in deployment.shows
       /\ pods.limit = deployment.limit
       /\ "oom_killed" \in pods.shows
    THEN Supported(workload, "memory_limit_oom", {pods, deployment})
    ELSE None

ExternalOOMAnyLimit(workload, deployment, pods) ==
    IF "memory_limit" \in deployment.shows /\ "oom_recently" \in pods.shows
    THEN Supported(workload, "memory_limit_oom", {pods, deployment})
    ELSE None

ExternalOOM(workload, deployment, pods) ==
    IF /\ "memory_limit" \in deployment.shows
       /\ pods.limit = deployment.limit
       /\ "oom_recently" \in pods.shows
    THEN Supported(workload, "memory_limit_oom", {pods, deployment})
    ELSE None

ExternalImagePull(workload, deployment, pods, events) ==
    IF /\ events # None
       /\ deployment.shows \cap {"always_pull", "pull_if_absent"} # {}
       /\ pods.image = deployment.image
       /\ "waiting_for_image" \in pods.shows
       /\ "pull_failed_recently" \in events.shows
       /\ events.pod = pods.pod
       /\ events.image = deployment.image
    THEN Supported(workload, "deployment_references_unpullable_image", {deployment, pods, events})
    ELSE None

ExternalVerifiedCause(verifiers, workload, records) ==
    LET deployment == Scoped(records, "kubernetes_get_deployment", workload)
        pods       == Scoped(records, "kubernetes_get_pods", workload)
        events     == Scoped(records, "kubernetes_get_events", workload)
        causeOf(verifier) ==
            IF verifier = "kubernetes_oom" THEN ExternalOOM(workload, deployment, pods)
            ELSE ExternalImagePull(workload, deployment, pods, events)
        hits       == {i \in DOMAIN verifiers : causeOf(verifiers[i]) # None}
    IN  IF None \in {deployment, pods} \/ hits = {} THEN None
        ELSE causeOf(verifiers[CHOOSE i \in hits : \A j \in hits : i <= j])
=============================================================================
