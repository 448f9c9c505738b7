--------------------------- MODULE MCInvestigation ---------------------------
(***************************************************************************)
(* Instances of the investigation for TLC: the six scenarios of scenarios/ *)
(* as conditions of the demo cluster, five of a single external workload,  *)
(* and what a language model may answer.                                   *)
(***************************************************************************)
EXTENDS InvestigationProperties, TLC

CONSTANTS r1, r2, r3   \* model values: runs

Sees(shows)                        == [shows |-> shows, pod |-> None, image |-> None, limit |-> None]
SeesPod(shows, pod, image, limit)  == [shows |-> shows, pod |-> pod, image |-> image, limit |-> limit]

Observations ==
    (Tools \ {"prometheus_get_demo_metric_range", "tempo_search_demo_traces", "tempo_get_trace"})
    \cup {"error_rate", "heap_bytes", "success_latency_avg", "failed_trace", "slow_trace", "any_trace"}

(* The healthy demo cluster: what its tools show of each workload.         *)
Healthy ==
    [workload \in {"frontend", "orders-api", "payments-api"} |->
        [o \in Observations |->
            CASE o = "kubernetes_get_deployment" ->
                    SeesPod({"memory_limit", "image"}
                            \cup (IF workload = "orders-api" THEN {"reads_order_mode"} ELSE {}),
                            None, "good", "128Mi")
              [] o = "kubernetes_get_pods" -> SeesPod({"ready"}, "pod-1", "good", "128Mi")
              [] o \in {"success_latency_avg", "heap_bytes"} -> Sees({"positive"})
              [] o = "any_trace" -> Sees({"trace"})
              [] o = "argocd_get_revision_history" -> Sees({"revision"})
              [] OTHER -> Sees({})]]

(* The symptoms at the frontend, whose failing traces are found from every *)
(* workload.                                                               *)
Failing(base, trace) ==
    [workload \in DOMAIN base |->
        [o \in Observations |->
            CASE o = "error_rate" /\ workload = "frontend" -> Sees({"positive"})
              [] o = "failed_trace" -> Sees({"trace"} \cup trace)
              [] OTHER -> base[workload][o]]]

DemoWorlds ==
    [ healthy |-> Healthy,
      oom |-> [Failing(Healthy, {}) EXCEPT
          !["payments-api"]["kubernetes_get_pods"] =
              SeesPod({"oom_killed", "crash_loop"}, "pod-2", "good", "48Mi"),
          !["payments-api"]["kubernetes_get_deployment"].limit = "48Mi"],
      earlier_kill |-> [Healthy EXCEPT     \* the container was killed long ago
          !["payments-api"]["kubernetes_get_pods"].shows = @ \cup {"oom_killed"}],
      image |-> [Healthy EXCEPT
          !["orders-api"]["kubernetes_get_pods"] =
              SeesPod({"ready", "waiting_for_image"}, "pod-2", "bad", "128Mi"),
          !["orders-api"]["kubernetes_get_deployment"] =
              SeesPod({"memory_limit", "image", "reads_order_mode", "always_pull"}, None, "bad", "128Mi"),
          !["orders-api"]["kubernetes_get_events"] =
              SeesPod({"pull_failed"}, "pod-2", "bad", None)],
      image_again |-> [Healthy EXCEPT      \* a second bad image, in a new pod
          !["orders-api"]["kubernetes_get_pods"] =
              SeesPod({"ready", "waiting_for_image"}, "pod-3", "worse", "128Mi"),
          !["orders-api"]["kubernetes_get_deployment"] =
              SeesPod({"memory_limit", "image", "reads_order_mode", "always_pull"}, None, "worse", "128Mi"),
          !["orders-api"]["kubernetes_get_events"] =
              SeesPod({"pull_failed"}, "pod-3", "worse", None)],
      config |-> [Healthy EXCEPT
          !["orders-api"]["kubernetes_get_orders_config"] = Sees({"order_mode_unsupported"}),
          !["orders-api"]["kubernetes_get_pods"] =
              SeesPod({"ready", "crash_loop"}, "pod-2", "good", "128Mi"),
          !["orders-api"]["kubernetes_get_pod_logs"] = Sees({"invalid_order_mode"})],
      selector |-> [Failing(Healthy, {}) EXCEPT
          !["payments-api"]["kubernetes_get_service"] = Sees({"disconnected"}),
          !["payments-api"]["kubernetes_get_endpointslices"] = Sees({"no_addresses"})],
      cpu |-> [Healthy EXCEPT
          !["orders-api"]["kubernetes_get_deployment"].shows = @ \cup {"cpu_burn"},
          !["orders-api"]["success_latency_avg"] = Sees({"positive", "slow"}),
          !["frontend"]["success_latency_avg"] = Sees({"positive", "slow"}),
          !["frontend"]["slow_trace"] = Sees({"trace", "slow_checkout"})],
      payment |-> [Failing(Healthy, {"payment_failure"}) EXCEPT
          !["payments-api"]["kubernetes_get_deployment"].shows = @ \cup {"mode_fail"}] ]

DemoFault ==
    [ healthy |-> None,
      earlier_kill |-> None,
      oom |-> "memory_limit_oom",
      image |-> "deployment_references_unpullable_image",
      image_again |-> "deployment_references_unpullable_image",
      config |-> "unsupported_order_mode_from_configmap",
      selector |-> "service_selector_matches_no_payment_pods",
      cpu |-> "excessive_cpu_work_per_order",
      payment |-> "payment_processor_failure_mode_enabled" ]

-----------------------------------------------------------------------------
Incident(id, service, alert) ==
    [id |-> id, service |-> service, alert |-> alert, allowed |-> TRUE,
     started |-> 600, resolved |-> 0]

Errors  == Incident("i1", "frontend", "DemoCheckoutErrors")
Latency == [Incident("i2", "frontend", "DemoCheckoutLatency") EXCEPT !.started = 5 * Hour]
Pulls   == Incident("i3", "orders-api", "DemoImagePullBackOff")
Config  == Incident("i4", "orders-api", "DemoInvalidOrderConfig")
Closed  == [Errors  EXCEPT !.started = 20 * Hour, !.resolved = 17 * Hour]
Old     == [Errors  EXCEPT !.started = Day + 1]
Foreign == [Errors  EXCEPT !.allowed = FALSE]

(* Almost a day old: still going on; resolved, with a window that is still *)
(* taken because of when it was resolved or because of when it started;    *)
(* and resolved with a window that is refused.                             *)
Lasting  == [Errors EXCEPT !.started = Day]
Standing == [Errors EXCEPT !.started = Day - RunLimit]
Held     == [Errors EXCEPT !.started = Day, !.resolved = Day - Hour - RunLimit]
Brink    == [Errors EXCEPT !.started = Day - Lead - RunLimit, !.resolved = Day - 900]
Edge     == [Pulls  EXCEPT !.started = Day - 60, !.resolved = Day - 900]

(* Two earlier investigations, r2 of another incident and r3 of Errors,    *)
(* whose evidence shows a payment failure.                                 *)
StoredBefore(run, inc, workload, tool) ==
    DemoWorlds.payment[workload][IF tool = "tempo_get_trace" THEN "failed_trace" ELSE tool] @@
    [id |-> <<run, 1, tool>>, incident |-> inc, tool |-> tool, resource |-> workload, metric |-> None]

DemoEarlier ==
    { StoredBefore(run[1], run[2], "payments-api", tool) : run \in {<<r2, "i0">>, <<r3, "i1">>},
        tool \in {"kubernetes_get_deployment", "kubernetes_get_pods", "tempo_get_trace"} }
-----------------------------------------------------------------------------
Reply(component, cause, cites, others, hypotheses) ==
    [status |-> 200, retry_after |-> 0, dated |-> FALSE, body |-> "analysis", honest |-> FALSE,
     component |-> component, cause |-> cause, cites |-> cites, others |-> others,
     hypotheses |-> hypotheses]

Nothing == Reply("", "", {}, FALSE, <<>>)

Guess(status, cites, others) ==
    [status |-> status, cites |-> cites, others |-> others, blank |-> FALSE]

SomeHypotheses ==
    << Guess("supported", {"kubernetes_get_pods"}, FALSE), Guess("supported", {}, TRUE),
       [Guess("rejected", Tools, FALSE) EXCEPT !.blank = TRUE],
       Guess("rejected", Tools, FALSE) >>

ManyHypotheses == [i \in 1..MaxHypotheses + 1 |-> Guess("rejected", Tools, TRUE)]

(* A failed connection, objects of another shape, no object, rate limits   *)
(* with a short and with a long delay.                                     *)
Failures ==
    { [Nothing EXCEPT !.status = 0],
      [Nothing EXCEPT !.body = "other object"],
      [Nothing EXCEPT !.body = "no object"],
      [Nothing EXCEPT !.status = 429, !.retry_after = 7],
      [Nothing EXCEPT !.status = 429, !.retry_after = 40, !.dated = TRUE] }

Honest == { [Nothing EXCEPT !.honest = TRUE] }

(* Every cause, claimed with all, with too few and with foreign citations. *)
AnyAnswer ==
    { Reply(ComponentOf(cause), cause, Tools, TRUE, <<>>) : cause \in Causes }
    \cup { Reply("orders-api", "deployment_references_unpullable_image",
                 Tools \ {"kubernetes_get_events"}, FALSE, SomeHypotheses),
           Reply("orders-api", "memory_limit_oom", Tools, TRUE, ManyHypotheses) }
    \cup Failures

HonestOrNot == Honest \cup Failures

(* Bytes of typical cards: all of a run do not fit, those of any one cause *)
(* do.                                                                     *)
MCCardSize ==
    [tool \in Tools |->
        CASE tool = "kubernetes_get_events"   -> 4000
          [] tool = "kubernetes_get_pod_logs" -> 2300
          [] tool = "tempo_get_trace"         -> 2600
          [] tool = "github_get_diff"         -> 6000
          [] tool \in {"kubernetes_get_pods", "kubernetes_get_endpointslices",
                       "prometheus_get_demo_metric_range"} -> 1300
          [] OTHER -> 500]
-----------------------------------------------------------------------------
(* One workload of an external cluster. "patched": the limit was raised    *)
(* after the kill; "old_kill": the kill was long before the incident.      *)
ExternalWorld(deployment, pods, events) ==
    [checkout |-> [o \in Observations |->
        CASE o = "kubernetes_get_deployment" -> deployment
          [] o = "kubernetes_get_pods" -> pods
          [] o = "kubernetes_get_events" -> events
          [] OTHER -> Sees({})]]

ExternalWorlds ==
    LET normal == SeesPod({"memory_limit", "image", "pull_if_absent"}, None, "good", "1Gi")
        bad    == SeesPod({"image", "pull_if_absent"}, None, "bad", None)
    IN  [ normal    |-> ExternalWorld(normal, SeesPod({"ready"}, "pod-1", "good", "1Gi"), Sees({})),
          kill      |-> ExternalWorld(normal, SeesPod({"oom_killed", "oom_recently", "crash_loop"},
                                                      "pod-1", "good", "1Gi"), Sees({})),
          old_kill  |-> ExternalWorld(normal, SeesPod({"oom_killed", "ready"}, "pod-1", "good", "1Gi"),
                                      Sees({})),
          patched   |-> ExternalWorld([normal EXCEPT !.limit = "2Gi"],
                                      SeesPod({"ready"}, "pod-2", "good", "2Gi"), Sees({})),
          bad_image |-> ExternalWorld(bad, SeesPod({"waiting_for_image"}, "pod-3", "bad", None),
                                      SeesPod({"pull_failed", "pull_failed_recently"}, "pod-3", "bad", None)) ]

ExternalFault ==
    [ normal |-> None, old_kill |-> None, patched |-> None,
      kill |-> "memory_limit_oom", bad_image |-> "deployment_references_unpullable_image" ]

MCWorlds == DemoWorlds @@ ExternalWorlds
MCFault  == DemoFault @@ ExternalFault

Groq   == [name |-> "groq", strict |-> TRUE]
Ollama == [name |-> "ollama", strict |-> FALSE]

Demo(incidents, initially, changes) ==
    [mode |-> "demo", workloads |-> Elements(Graph), verifiers |-> <<>>, change_sources |-> TRUE,
     provider |-> Groq, incidents |-> incidents,
     initially |-> initially, conditions |-> DOMAIN DemoWorlds, changes |-> changes]

External ==
    [mode |-> "external", workloads |-> {"checkout"},
     verifiers |-> <<"kubernetes_oom", "image_pull">>, change_sources |-> FALSE,
     provider |-> Ollama, incidents |-> {Incident("i7", "checkout", "CheckoutErrors")},
     initially |-> DOMAIN ExternalWorlds, conditions |-> DOMAIN ExternalWorlds, changes |-> 2]

EveryProfile ==
    { Demo({Errors, Latency, Pulls, Old, Foreign}, DOMAIN DemoWorlds \ {"image_again"}, 1), External,
      [Demo({Edge, Lasting, Held, Brink, Closed}, {"config", "payment"}, 0) EXCEPT !.change_sources = FALSE] }

Documented ==
    { Demo({Errors, Latency, Pulls, Config, Closed},
           {"oom", "image", "config", "selector", "cpu", "payment"}, 0),
      Demo({Standing, Held, Brink, Edge}, {"config", "payment"}, 0),
      [Demo({Errors}, {"selector"}, 0) EXCEPT !.provider = Ollama] }

LatencySelector == {Demo({Latency}, {"selector"}, 0)}
=============================================================================
