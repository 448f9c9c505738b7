----------------------------- MODULE ToolServer -----------------------------
(***************************************************************************)
(* The telemetry window of an incident (evidence.go) and the checks that   *)
(* the MCP investigation server makes of a call before it asks an upstream *)
(* (server.go, backend.go, change.go).                                     *)
(*                                                                         *)
(* A time is given as its age in seconds.  An incident that is not         *)
(* resolved has resolved = 0; a negative age is a time in the future.      *)
(***************************************************************************)
EXTENDS Integers

Hour == 3600
Day  == 24 * Hour
Lead == 120   \* a window begins before the incident ...
Skew == 30    \* ... and clocks may differ

WindowEnd(inc) == IF inc.resolved > 0 THEN inc.resolved ELSE 0

(* Mutant: the window reaches back to the incident, however long ago.      *)
WindowStartUnclamped(inc) == inc.started + Lead

WindowStart(inc) ==
    IF inc.started + Lead > WindowEnd(inc) + Hour
    THEN WindowEnd(inc) + Hour ELSE inc.started + Lead

(* Window, which an incident of long ago or of the future does not have.   *)
WindowAvailable(inc) ==
    /\ inc.started <= Day
    /\ inc.started >= WindowEnd(inc) - Skew
    /\ WindowEnd(inc) <= Day
    /\ WindowStart(inc) > WindowEnd(inc)

(* ValidateWindow, by a server whose clock is "later" than the collector's *)
(* when that fixed the window.                                             *)
ValidateWindow(start, end, later) ==
    /\ start > end
    /\ start - end <= Hour
    /\ start + later <= Day
    /\ end + later >= -Skew
-----------------------------------------------------------------------------
ChangeTools ==
    { "argocd_get_application", "argocd_get_revision_history",
      "github_get_commit", "github_get_diff" }

TimedTools ==
    { "prometheus_get_demo_metric_range", "loki_get_demo_logs", "tempo_search_demo_traces",
      "argocd_get_revision_history", "github_get_commit", "github_get_diff" }

(* Kubernetes is asked about the workloads of the profile; the one config  *)
(* map that is read is the demo's.                                         *)
KubernetesCallAllowed(profile, tool, workload) ==
    IF tool = "kubernetes_get_orders_config" THEN profile.mode = "demo"
    ELSE workload \in profile.workloads

(* Metrics and traces are only those of the demo.                          *)
TelemetryCallAllowed(profile, tool, workload) ==
    /\ tool # "loki_get_demo_logs" => profile.mode = "demo"
    /\ tool # "tempo_get_trace" => workload \in profile.workloads

(* Argo CD and GitHub are asked only where they are configured, which they *)
(* need not be in the demo and cannot be for an external profile.          *)
ChangeSourcesConfigured(profile) == profile.mode = "demo" /\ profile.change_sources

(* Whether the server passes a call on.                                    *)
Serves(profile, tool, workload, inc, later) ==
    /\ IF tool \in ChangeTools THEN ChangeSourcesConfigured(profile)
       ELSE IF tool \in TimedTools \cup {"tempo_get_trace"}
       THEN TelemetryCallAllowed(profile, tool, workload)
       ELSE KubernetesCallAllowed(profile, tool, workload)
    /\ tool \in TimedTools => ValidateWindow(WindowStart(inc), WindowEnd(inc), later)
-----------------------------------------------------------------------------
(* The environment of containers is taken out of what Kubernetes answers.  *)
Scrubbed(facts) == facts \ {"reads_order_mode", "cpu_burn", "mode_fail"}

(* The switches of the demo that are put back, each for its workload.      *)
DiagnosticConfig(workload) ==
    CASE workload = "orders-api"   -> {"reads_order_mode", "cpu_burn"}
      [] workload = "payments-api" -> {"mode_fail"}
      [] OTHER                     -> {}

(* Mutant: the switches are not put back.                                  *)
DeploymentScrubbed(profile, workload, facts) == Scrubbed(facts)

Deployment(profile, workload, facts) ==
    Scrubbed(facts) \cup (IF profile.mode = "external" THEN {} ELSE facts \cap DiagnosticConfig(workload))

(* What the server answers of what it was told.  A search lists traces;    *)
(* what they show is seen when one is read.                                *)
Projected(profile, tool, workload, facts) ==
    CASE tool = "kubernetes_get_deployment" -> Deployment(profile, workload, facts)
      [] tool = "tempo_search_demo_traces"  -> facts \cap {"trace"}
      [] OTHER                              -> facts
=============================================================================
