--------------------------- MODULE Investigation ---------------------------
(***************************************************************************)
(* The investigation agent (Investigator.Run) with the evidence collector  *)
(* it drives: the initial collection, up to two collections of downstream  *)
(* workloads, one bounded analysis by the language model, the              *)
(* deterministic verification of its claim and the stored report.          *)
(*                                                                         *)
(* A run is one process of incidentpilot-agent.  Its steps are the calls   *)
(* that leave it: one tool of the MCP server at a time, the batch          *)
(* transaction, the model, the insertion of the report.  Between two of    *)
(* them the cluster may change, the two-minute deadline may pass, or the   *)
(* process may die.  Several runs share the two tables.                    *)
(*                                                                         *)
(* What the MCP server observes is external: "Worlds" says what each tool  *)
(* shows of each workload in each condition of the cluster.                *)
(***************************************************************************)
EXTENDS Brief, ToolServer, Inference, FiniteSets

CONSTANTS
    Runs,         \* investigations started
    Profiles,     \* onboarding profiles, see Profile
    Worlds,       \* condition -> workload -> Observation -> [shows, pod, image, limit]
    Earlier,      \* rows of evidence that earlier investigations stored
    Answers,      \* answers of a model: see Inference, with what they claim
    Flaky,        \* tools whose calls may fail
    Faulty,       \* runs whose database calls may fail or lose their answer
    Expirable,    \* runs whose deadline may pass
    Killable      \* runs whose process may die

MaxLLMCalls          == 2
MaxTargetCollections == 2
MaxBatch             == 16
MaxHypotheses        == 5
RunLimit             == 120   \* seconds

Graph == <<"frontend", "orders-api", "payments-api">>

Elements(s) == {s[i] : i \in DOMAIN s}

Tools ==
    { "kubernetes_get_deployment", "kubernetes_get_orders_config", "kubernetes_get_service",
      "kubernetes_get_endpointslices", "kubernetes_get_pods", "kubernetes_get_pod_logs",
      "kubernetes_get_events", "prometheus_get_demo_metric_range", "loki_get_demo_logs",
      "tempo_search_demo_traces", "tempo_get_trace", "argocd_get_application",
      "argocd_get_revision_history", "github_get_commit", "github_get_diff" }

(* A profile says which workloads are in its scope and how causes are      *)
(* verified, and by which verifiers in which order if it is external. With *)
(* it go the model, the cluster it was made for, the incidents             *)
(* [id, service, alert, allowed, started, resolved] that are raised there, *)
(* the conditions the cluster may be in at first and later, and a bound on *)
(* how often it changes from one to another.                               *)
Profile(p) ==
    /\ p.mode \in {"demo", "external"}
    /\ p.change_sources \in BOOLEAN
    /\ p.verifiers \in Seq({"kubernetes_oom", "image_pull"})
    /\ p.mode = "demo" => p.workloads = Elements(Graph)
    /\ \A inc \in p.incidents :
        /\ inc.started \in Int /\ inc.resolved \in Nat
        /\ inc.allowed => inc.service \in p.workloads
    /\ p.initially \subseteq p.conditions /\ p.conditions \subseteq DOMAIN Worlds
    /\ p.changes \in Nat

(* The ID of a record is <<run, number of the collection, tool>>.          *)
ASSUME InvestigationConstants ==
    /\ \A p \in Profiles : Profile(p)
    /\ \A row \in Earlier : row.id[1] \notin Runs
    /\ \A row, other \in Earlier : row.id = other.id => row = other
    /\ Flaky \subseteq Tools
    /\ Faulty \subseteq Runs /\ Expirable \subseteq Runs /\ Killable \subseteq Runs

VARIABLES
    pc,             \* where each run is; "reported" and "failed" are its ends
    incident,       \* the incident of each run
    scope,          \* its latest collection: workload, metric, number and failed calls
    todo,           \* tools still to call in it
    batch,          \* records it has collected
    records,        \* records of the stored collections
    seen,           \* workloads visited
    report,         \* the report as built so far
    expired,        \* runs whose deadline has passed
    profile,        \* the profile of the installation
    history,        \* conditions the cluster has been in; the last is the present one
    evidence,       \* table evidence
    investigations  \* table investigations: run -> report or None

cluster == <<profile, history>>
tables  == <<evidence, investigations>>
vars    == <<pc, incident, scope, todo, batch, records, seen, report, expired, cluster, tables>>

Labels == {"start", "call", "save_batch", "decide", "chat", "answer", "wait", "save",
           "reported", "failed"}
Over(r) == pc[r] \in {"reported", "failed"}

EmptyReport ==
    [status |-> "INSUFFICIENT_EVIDENCE", root_cause |-> None, evidence |-> {},
     hypotheses |-> <<>>, reason |-> "", llm_calls |-> 0, llm_retries |-> 0, tool_calls |-> 0]

NoScope == [workload |-> None, metric |-> None, number |-> 0, failures |-> 0]

Init ==
    /\ pc       = [r \in Runs |-> "start"]
    /\ incident = [r \in Runs |-> None]
    /\ scope    = [r \in Runs |-> NoScope]
    /\ todo     = [r \in Runs |-> <<>>]
    /\ batch    = [r \in Runs |-> <<>>]
    /\ records  = [r \in Runs |-> <<>>]
    /\ seen     = [r \in Runs |-> {}]
    /\ report   = [r \in Runs |-> EmptyReport]
    /\ expired  = {}
    /\ profile \in Profiles
    /\ history \in {<<w>> : w \in profile.initially}
    /\ evidence = Earlier
    /\ investigations = [r \in Runs |-> None]
-----------------------------------------------------------------------------
Goto(r, label) == pc' = [pc EXCEPT ![r] = label]

(* finish, up to the insertion of the report as it was built so far.       *)
Finish(r, built, reason) ==
    /\ report' = [report EXCEPT ![r] = [built EXCEPT !.reason = reason]]
    /\ Goto(r, "save")

Ids(rows) == {row.id : row \in rows}

(* The plan of a collection; what its calls return may add to it (Follow). *)
Plan(workload, includeChanges) ==
    LET demoOnly(tool) == IF profile.mode = "demo" THEN <<tool>> ELSE <<>>
    IN  <<"kubernetes_get_deployment">>
        \o (IF workload = "orders-api" THEN demoOnly("kubernetes_get_orders_config") ELSE <<>>)
        \o <<"kubernetes_get_service", "kubernetes_get_endpointslices", "kubernetes_get_pods",
             "kubernetes_get_events">>
        \o demoOnly("prometheus_get_demo_metric_range")
        \o <<"loki_get_demo_logs">>
        \o demoOnly("tempo_search_demo_traces")
        \o (IF includeChanges THEN demoOnly("argocd_get_application") ELSE <<>>)

InitialMetric(inc) ==
    IF inc.alert = "DemoCheckoutLatency" THEN "success_latency_avg" ELSE "error_rate"

(* Mutant: the alert does not matter downstream.                           *)
DefaultMetricOfWorkload(inc, workload) ==
    IF workload = "payments-api" THEN "heap_bytes" ELSE "error_rate"

DefaultMetric(inc, workload) ==
    IF inc.alert # "DemoCheckoutLatency" /\ workload = "payments-api"
    THEN "heap_bytes" ELSE InitialMetric(inc)

(* An incident's ages are those at the start of the run, which are still   *)
(* those of its first collection; later ones may be up to RunLimit higher. *)
Aged(inc) ==
    [inc EXCEPT !.started  = @ + RunLimit,
                !.resolved = IF @ > 0 THEN @ + RunLimit ELSE @]

(* Collect and CollectTarget up to the first call. Without a telemetry     *)
(* window the collection ends here, and with it the investigation.         *)
Begin(r, inc, workload, metric, includeChanges) ==
    /\ scope' = [scope EXCEPT ![r] = [workload |-> workload, metric |-> metric,
                                      number |-> @.number + 1, failures |-> 0]]
    /\ seen' = [seen EXCEPT ![r] = @ \cup {workload}]
    /\ batch' = [batch EXCEPT ![r] = <<>>]
    /\ \/ /\ WindowAvailable(inc) /\ workload \in profile.workloads
          /\ todo' = [todo EXCEPT ![r] = Plan(workload, includeChanges)]
          /\ Goto(r, "call")
          /\ UNCHANGED report
       \/ /\ \/ ~WindowAvailable(inc) \/ workload \notin profile.workloads
             \/ scope[r].number > 0 /\ ~WindowAvailable(Aged(inc))
          /\ Finish(r, report[r], "evidence unavailable")
          /\ UNCHANGED todo

(* Run up to the first collection. A run whose incident cannot be loaded   *)
(* or is out of the profile's scope ends here, without a report.           *)
Start(r) ==
    /\ pc[r] = "start"
    /\ \E inc \in profile.incidents :
         /\ incident' = [incident EXCEPT ![r] = inc]
         /\ \/ inc.allowed /\ Begin(r, inc, inc.service, InitialMetric(inc), TRUE)
            \/ /\ ~inc.allowed \/ r \in Faulty
               /\ Goto(r, "failed")
               /\ UNCHANGED <<scope, todo, batch, seen, report>>
    /\ UNCHANGED <<records, expired, cluster, tables>>
-----------------------------------------------------------------------------
(* What a record is about: the workload of its collection, unless the tool *)
(* reads one fixed object or the log of the pod that was seen to crash.    *)
Resource(r, tool) ==
    CASE tool = "kubernetes_get_orders_config" -> "orders-config"
      [] tool = "kubernetes_get_pod_logs" -> batch[r][Len(batch[r])].pod
      [] tool \in {"argocd_get_application", "argocd_get_revision_history"} -> "argocd"
      [] tool \in {"github_get_commit", "github_get_diff"} -> "github"
      [] OTHER -> scope[r].workload

(* Mutant: traces are searched without regard to the alert.                *)
AnyTrace(inc) == "any_trace"

IncidentTraceFilter(inc) ==
    CASE inc.alert = "DemoCheckoutLatency" -> "slow_trace"
      [] inc.alert = "DemoCheckoutErrors"  -> "failed_trace"
      [] OTHER                             -> "any_trace"

(* What a call observes: one object, one metric, or the first of the       *)
(* traces that pass the filter.                                            *)
Observation(r, tool) ==
    CASE tool = "prometheus_get_demo_metric_range" -> scope[r].metric
      [] tool \in {"tempo_search_demo_traces", "tempo_get_trace"} -> IncidentTraceFilter(incident[r])
      [] OTHER -> tool

(* What the tools show now: makeRecord over the answer of the MCP server.  *)
Observed(r, tool) ==
    LET now == Worlds[history[Len(history)]][scope[r].workload][Observation(r, tool)]
    IN  [id       |-> <<r, scope[r].number, tool>>,
         incident |-> incident[r].id,
         tool     |-> tool,
         resource |-> Resource(r, tool),
         metric   |-> IF tool = "prometheus_get_demo_metric_range" THEN scope[r].metric ELSE None,
         shows    |-> Projected(profile, tool, scope[r].workload, now.shows),
         pod      |-> now.pod,
         image    |-> now.image,
         limit    |-> now.limit]

(* Mutant: the log of every crashing pod is fetched.                       *)
LogOfEveryPod(record) ==
    IF record.tool = "kubernetes_get_pods" /\ "crash_loop" \in record.shows
    THEN <<"kubernetes_get_pod_logs", "kubernetes_get_pod_logs">> ELSE <<>>

(* The calls a result leads to: the log of the first crashing pod, ...     *)
LogOf(record) ==
    IF record.tool = "kubernetes_get_pods" /\ "crash_loop" \in record.shows
    THEN <<"kubernetes_get_pod_logs">> ELSE <<>>

(* ... the first trace that was found ...                                  *)
TraceOf(record) ==
    IF record.tool = "tempo_search_demo_traces" /\ "trace" \in record.shows
    THEN <<"tempo_get_trace">> ELSE <<>>

(* ... and the chain from the Argo CD application over a revision of its   *)
(* history to the commit and its diff.                                     *)
ChangesOf(record) ==
    CASE record.tool = "argocd_get_application" -> <<"argocd_get_revision_history">>
      [] record.tool = "argocd_get_revision_history" /\ "revision" \in record.shows ->
            <<"github_get_commit", "github_get_diff">>
      [] OTHER -> <<>>

Follow(record) == LogOf(record) \o TraceOf(record) \o ChangesOf(record)

(* One tool, called at most RunLimit after the start of the run. A call    *)
(* that the server refuses or that fails, or whose result makeRecord       *)
(* refuses, is noted and the plan goes on.                                 *)
CallTool(r) ==
    /\ pc[r] = "call"
    /\ todo[r] # <<>>
    /\ LET tool == Head(todo[r])
           record == Observed(r, tool)
           served(later) == Serves(profile, tool, scope[r].workload, incident[r], later)
       IN  \/ /\ r \notin expired
              /\ served(0)
              /\ batch' = [batch EXCEPT ![r] = Append(@, record)]
              /\ todo' = [todo EXCEPT ![r] = Follow(record) \o Tail(@)]
              /\ UNCHANGED scope
           \/ /\ tool \in Flaky \/ r \in expired \/ ~served(RunLimit)
              /\ todo' = [todo EXCEPT ![r] = Tail(@)]
              /\ scope' = [scope EXCEPT ![r].failures = @ + 1]
              /\ UNCHANGED batch
    /\ UNCHANGED <<pc, incident, records, seen, report, expired, cluster, tables>>

EndCalls(r) ==
    /\ pc[r] = "call"
    /\ todo[r] = <<>>
    /\ IF batch[r] = <<>>
       THEN Finish(r, report[r], "evidence unavailable")
       ELSE Goto(r, "save_batch") /\ UNCHANGED report
    /\ UNCHANGED <<incident, scope, todo, batch, records, seen, expired, cluster, tables>>

(* What the table takes: 1 to 16 records, no tool twice in a collection.   *)
Storable(recs) ==
    /\ Len(recs) \in 1..MaxBatch
    /\ \A i, j \in DOMAIN recs : recs[i].tool = recs[j].tool => i = j
    /\ Ids(Elements(recs)) \cap Ids(evidence) = {}

Collected(r) ==
    /\ records' = [records EXCEPT ![r] = @ \o batch[r]]
    /\ report' = [report EXCEPT
            ![r].evidence   = @ \cup Ids(Elements(batch[r])),
            ![r].tool_calls = @ + Len(batch[r]) + scope[r].failures]
    /\ Goto(r, "decide")

NotCollected(r) == Finish(r, report[r], "evidence unavailable") /\ UNCHANGED records

(* Mutant: the report counts on a batch that was not stored.               *)
SaveBatchIgnoringErrors(r) ==
    /\ pc[r] = "save_batch"
    /\ \/ /\ r \notin expired
          /\ Storable(batch[r])
          /\ evidence' = evidence \cup Elements(batch[r])
          /\ Collected(r)
       \/ /\ r \in Faulty \cup expired \/ ~Storable(batch[r])
          /\ Collected(r)
          /\ UNCHANGED evidence
    /\ UNCHANGED <<incident, scope, todo, batch, seen, expired, cluster, investigations>>

(* SaveBatch, one transaction on the collection's context. An error ends   *)
(* the investigation, whether or not the batch was committed.              *)
SaveBatch(r) ==
    /\ pc[r] = "save_batch"
    /\ \/ /\ r \notin expired
          /\ Storable(batch[r])
          /\ evidence' = evidence \cup Elements(batch[r])
          /\ \/ Collected(r)
             \/ r \in Faulty /\ NotCollected(r)
       \/ /\ r \in Faulty \cup expired \/ ~Storable(batch[r])
          /\ NotCollected(r)
          /\ UNCHANGED evidence
    /\ UNCHANGED <<incident, scope, todo, batch, seen, expired, cluster, investigations>>
-----------------------------------------------------------------------------
(* Mutant: the cause is forgotten.                                         *)
FoundSomething(r, cause) == [report[r] EXCEPT !.status = "ROOT_CAUSE_FOUND"]

(* A verified cause enters the report as it is.                            *)
Found(r, cause) == [report[r] EXCEPT !.status = "ROOT_CAUSE_FOUND", !.root_cause = cause]

DecideExternal(r) ==
    /\ profile.mode = "external"
    /\ LET cause == ExternalVerifiedCause(profile.verifiers, incident[r].service, records[r])
       IN  IF cause = None THEN Finish(r, report[r], "no supported cause")
           ELSE Finish(r, Found(r, cause), "")
    /\ UNCHANGED <<scope, todo, batch, seen>>

(* Where in the graph workloads after the incident's were not visited.     *)
DownstreamUnvisited(r) ==
    {i \in DOMAIN Graph : /\ \E before \in 1..(i - 1) : Graph[before] = incident[r].service
                          /\ Graph[i] \notin seen[r]}

DecideDemo(r) ==
    LET available == DownstreamUnvisited(r)
        nearest   == Graph[CHOOSE i \in available : \A j \in available : i <= j]
        enough    == \/ EvidenceAlreadySupportsCause(records[r], report[r].evidence)
                     \/ available = {}
                     \/ scope[r].number > MaxTargetCollections
    IN  /\ profile.mode = "demo"
        /\ \/ /\ r \in expired
              /\ Finish(r, report[r], "duration budget exhausted")
              /\ UNCHANGED <<scope, todo, batch, seen>>
           \/ /\ r \notin expired /\ enough
              /\ Goto(r, "chat")
              /\ UNCHANGED <<scope, todo, batch, seen, report>>
           \/ /\ r \notin expired /\ ~enough
              /\ Begin(r, incident[r], nearest, DefaultMetric(incident[r], nearest), FALSE)

(* After a collection: verify, collect further downstream, or analyse.     *)
Decide(r) ==
    /\ pc[r] = "decide"
    /\ DecideExternal(r) \/ DecideDemo(r)
    /\ UNCHANGED <<incident, records, expired, cluster, tables>>
-----------------------------------------------------------------------------
AnalysisFails(r) == Finish(r, report[r], "analysis call failed")

(* Mutant: the retry after a rate limit is not counted.                    *)
WaitUncounted(r) ==
    /\ pc[r] = "wait"
    /\ IF r \in expired THEN AnalysisFails(r) ELSE Goto(r, "chat") /\ UNCHANGED report
    /\ UNCHANGED <<incident, scope, todo, batch, records, seen, expired, cluster, tables>>

(* The bounded sleep that a 429 with a short Retry-After asks for.         *)
Wait(r) ==
    /\ pc[r] = "wait"
    /\ IF r \in expired
       THEN AnalysisFails(r)
       ELSE Goto(r, "chat") /\ report' = [report EXCEPT ![r].llm_retries = @ + 1]
    /\ UNCHANGED <<incident, scope, todo, batch, records, seen, expired, cluster, tables>>

(* chat: every attempt is counted before it is made.                       *)
Chat(r) ==
    /\ pc[r] = "chat"
    /\ IF r \in expired \/ report[r].llm_calls >= MaxLLMCalls
       THEN AnalysisFails(r)
       ELSE Goto(r, "answer") /\ report' = [report EXCEPT ![r].llm_calls = @ + 1]
    /\ UNCHANGED <<incident, scope, todo, batch, records, seen, expired, cluster, tables>>

(* The IDs an answer names: those of this run's records of some tools, and *)
(* perhaps also IDs that are not this run's or that do not exist.          *)
Named(r, cites, others) ==
    Ids({row \in Elements(records[r]) : row.tool \in cites})
    \cup (IF others THEN Ids(evidence) \cup {<<r, 0, "invented">>} ELSE {})

(* Mutant: an ID is taken when it is anywhere in the table.                *)
ValidIDsOfTable(r, ids) == ids \cap Ids(evidence)

ValidIDs(r, ids) == ids \cap Ids(Elements(records[r]))

Hypotheses(r, proposed) ==
    LET bad   == {i \in DOMAIN proposed : proposed[i].blank \/ i > MaxHypotheses}
        taken == IF bad = {} THEN proposed
                 ELSE SubSeq(proposed, 1, (CHOOSE i \in bad : \A j \in bad : i <= j) - 1)
    IN  [i \in DOMAIN taken |->
            LET ids == ValidIDs(r, Named(r, taken[i].cites, taken[i].others))
            IN  [status   |-> IF ids = {} \/ taken[i].status \notin {"supported", "rejected"}
                              THEN "unresolved" ELSE taken[i].status,
                 evidence |-> ids]]

(* External: an honest model claims a cause that the evidence in its       *)
(* prompt shows, if there is one, and cites that evidence.                 *)
Claims(r, answer) ==
    IF answer.honest
    THEN UNION { LET shown == Verified(brief, Ids(Elements(brief)))
                 IN  IF shown = {} THEN {[component |-> "", cause |-> "", evidence |-> {}]} ELSE shown
                    : brief \in {EvidenceBrief(records[r])} }
    ELSE {[component |-> answer.component, cause |-> answer.cause,
           evidence |-> Named(r, answer.cites, answer.others)]}

(* Mutant: all that is stored of the incident is taken for the run's.      *)
AnalyseOverTable(r, claim, hypotheses) ==
    LET before == {row \in Earlier : row.incident = incident[r].id}
        others == CHOOSE s \in [1..Cardinality(before) -> before] : Elements(s) = before
        cause  == VerifyClaim(records[r] \o others, claim.evidence, claim.component, claim.cause)
        built  == IF cause = None THEN report[r] ELSE Found(r, cause)
    IN  Finish(r, [built EXCEPT !.hypotheses = Hypotheses(r, hypotheses)],
               IF cause = None THEN "root cause not verified" ELSE "")

(* The analysis: the model's claim is checked by the verifiers on those of *)
(* the cited records that are this run's.                                  *)
Analyse(r, claim, hypotheses) ==
    LET cause == VerifyClaim(records[r], ValidIDs(r, claim.evidence), claim.component, claim.cause)
        built == IF cause = None THEN report[r] ELSE Found(r, cause)
    IN  Finish(r, [built EXCEPT !.hypotheses = Hypotheses(r, hypotheses)],
               IF cause = None THEN "root cause not verified" ELSE "")

(* The provider returns. A rate limit is waited for once, if the deadline  *)
(* leaves the time.                                                        *)
Answer(r) ==
    /\ pc[r] = "answer"
    /\ \/ r \in expired /\ AnalysisFails(r)
       \/ /\ r \notin expired
          /\ \E answer \in Answers :
               LET again == /\ Retryable(profile.provider, answer)
                            /\ report[r].llm_retries = 0 /\ report[r].llm_calls < MaxLLMCalls
               IN  IF ChatSucceeds(profile.provider, answer)
                   THEN \/ /\ answer.body = "analysis"
                           /\ \E claim \in Claims(r, answer) : Analyse(r, claim, answer.hypotheses)
                        \/ answer.body # "analysis" /\ Finish(r, report[r], "invalid analysis output")
                   ELSE \/ again /\ Goto(r, "wait") /\ UNCHANGED report
                        \/ (~again \/ r \in Expirable) /\ AnalysisFails(r)
    /\ UNCHANGED <<incident, scope, todo, batch, records, seen, expired, cluster, tables>>
-----------------------------------------------------------------------------
(* Mutant: the report is saved on the investigation's own context.         *)
SaveReportInTime(r) ==
    /\ pc[r] = "save"
    /\ \/ /\ r \notin expired
          /\ investigations' = [investigations EXCEPT ![r] = report[r]]
          /\ Goto(r, "reported")
       \/ /\ r \in expired
          /\ Goto(r, "failed")
          /\ UNCHANGED investigations
    /\ UNCHANGED <<incident, scope, todo, batch, records, seen, report, expired, cluster, evidence>>

(* SaveInvestigation has a context of its own, so the report is saved also *)
(* after the deadline. After an error it may have been saved or not.       *)
SaveReport(r) ==
    /\ pc[r] = "save"
    /\ \/ /\ investigations' = [investigations EXCEPT ![r] = report[r]]
          /\ Goto(r, "reported") \/ (r \in Faulty /\ Goto(r, "failed"))
       \/ /\ r \in Faulty
          /\ Goto(r, "failed")
          /\ UNCHANGED investigations
    /\ UNCHANGED <<incident, scope, todo, batch, records, seen, report, expired, cluster, evidence>>

(* The two minutes of the run are over. The sixty seconds of a collection  *)
(* have the same effect on it: the calls fail and the batch is not stored. *)
Expire(r) ==
    /\ r \in Expirable \ expired
    /\ pc[r] \notin {"start", "save", "reported", "failed"}
    /\ expired' = expired \cup {r}
    /\ UNCHANGED <<pc, incident, scope, todo, batch, records, seen, report, cluster, tables>>

(* The process of the run dies, with all it had in memory.                 *)
Kill(r) ==
    /\ r \in Killable
    /\ ~Over(r)
    /\ Goto(r, "failed")
    /\ scope'   = [scope EXCEPT ![r] = NoScope]
    /\ todo'    = [todo EXCEPT ![r] = <<>>]
    /\ batch'   = [batch EXCEPT ![r] = <<>>]
    /\ records' = [records EXCEPT ![r] = <<>>]
    /\ seen'    = [seen EXCEPT ![r] = {}]
    /\ report'  = [report EXCEPT ![r] = EmptyReport]
    /\ expired' = expired \ {r}
    /\ UNCHANGED <<incident, cluster, tables>>

(* A fault begins, ends or turns into another while a run observes; at     *)
(* other times a change makes no difference before the next observation.   *)
WorldChanges ==
    /\ \E r \in Runs : pc[r] = "call"
    /\ Len(history) <= profile.changes
    /\ \E w \in profile.conditions \ {history[Len(history)]} : history' = Append(history, w)
    /\ UNCHANGED <<pc, incident, scope, todo, batch, records, seen, report, expired, profile, tables>>

Finished == (\A r \in Runs : Over(r)) /\ UNCHANGED vars

Step(r) ==
    \/ Start(r) \/ CallTool(r) \/ EndCalls(r) \/ SaveBatch(r) \/ Decide(r)
    \/ Chat(r) \/ Answer(r) \/ Wait(r) \/ SaveReport(r)

Next ==
    \/ \E r \in Runs : Step(r) \/ Expire(r) \/ Kill(r)
    \/ WorldChanges
    \/ Finished

(* Every wait of a run has an end: the calls their timeouts, the sleep its *)
(* length, and the scheduler runs a process that can go on.                *)
Fairness == \A r \in Runs : WF_vars(Step(r))

Spec == Init /\ [][Next]_vars /\ Fairness
=============================================================================
