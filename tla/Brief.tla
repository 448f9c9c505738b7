-------------------------------- MODULE Brief --------------------------------
(***************************************************************************)
(* The part of the prompt that shows the evidence to the language model    *)
(* (evidenceBrief, brief.go): a card per record, with the diagnostic       *)
(* fields that are kept of its payload, as far as the cards fit.           *)
(***************************************************************************)
EXTENDS RootCauses

LOCAL S == INSTANCE SequencesExt

CONSTANTS
    CardSize,    \* tool -> bytes of the card of its records
    BriefSize    \* bytes for all cards

ASSUME BriefConstants == BriefSize \in Nat

(* What the projections of the payloads keep of the predicates that the    *)
(* verifiers read: per kind of payload up to 4 containers, 10 pods, 10     *)
(* events, the last 2 KiB of a log, 20 samples of a series, 24 spans.      *)
KubernetesDetails ==
    { <<"kubernetes_get_deployment", "image">>, <<"kubernetes_get_deployment", "always_pull">>,
      <<"kubernetes_get_deployment", "memory_limit">>, <<"kubernetes_get_deployment", "cpu_burn">>,
      <<"kubernetes_get_deployment", "mode_fail">>, <<"kubernetes_get_deployment", "reads_order_mode">>,
      <<"kubernetes_get_orders_config", "order_mode_unsupported">>,
      <<"kubernetes_get_service", "disconnected">>,
      <<"kubernetes_get_endpointslices", "no_addresses">> }

(* Mutant: the reason a container waits for is not among the fields kept.  *)
PodDetailsWithoutWaiting ==
    { <<"kubernetes_get_pods", "oom_killed">>, <<"kubernetes_get_pods", "ready">>,
      <<"kubernetes_get_events", "pull_failed">>,
      <<"kubernetes_get_pod_logs", "invalid_order_mode">> }

PodDetails ==
    { <<"kubernetes_get_pods", "oom_killed">>, <<"kubernetes_get_pods", "crash_loop">>,
      <<"kubernetes_get_pods", "waiting_for_image">>, <<"kubernetes_get_pods", "ready">>,
      <<"kubernetes_get_events", "pull_failed">>,
      <<"kubernetes_get_pod_logs", "invalid_order_mode">> }

TelemetryDetails ==
    { <<"prometheus_get_demo_metric_range", "positive">>,
      <<"prometheus_get_demo_metric_range", "slow">> }

TraceDetails ==
    { <<"tempo_get_trace", "slow_checkout">>, <<"tempo_get_trace", "payment_failure">> }

DiagnosticBrief(record) ==
    { fact \in record.shows : <<record.tool, fact>> \in
        KubernetesDetails \cup PodDetails \cup TelemetryDetails \cup TraceDetails }

(* Mutant: the records stay in the order in which they were collected.     *)
AsCollected(records) == records

(* The records of the cause that the verifiers already support come first. *)
PrioritizeEvidence(records) ==
    LET ids   == {records[i].id : i \in DOMAIN records}
        cited == UNION {cause.evidence : cause \in {SupportedCause(records, ids)} \ {None}}
    IN  SelectSeq(records, LAMBDA record : record.id \in cited)
        \o SelectSeq(records, LAMBDA record : record.id \notin cited)

(* A card that does not fit is left out, a later one may fit again.        *)
EvidenceBrief(records) ==
    S!FoldLeft(
        LAMBDA brief, record :
            IF brief.size + CardSize[record.tool] > BriefSize THEN brief
            ELSE [size  |-> brief.size + CardSize[record.tool],
                  cards |-> Append(brief.cards, [record EXCEPT !.shows = DiagnosticBrief(record)])],
        [size |-> 0, cards |-> <<>>],
        PrioritizeEvidence(records)).cards
=============================================================================
