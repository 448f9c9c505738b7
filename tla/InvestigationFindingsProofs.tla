--------------------- MODULE InvestigationFindingsProofs ---------------------
(***************************************************************************)
(* More machine-checked facts about investigations: the types of what runs *)
(* keep and store, with the number of calls that a report admits to, and   *)
(* that the records behind a root cause are observations of the cluster    *)
(* while the run lasted.                                                   *)
(*                                                                         *)
(* The invariant FInv extends IInv of InvestigationProofs.  Its parts are  *)
(* what a run has seen, how many calls it has made, in which condition of  *)
(* the cluster each of its records was the case, and what its report says. *)
(***************************************************************************)
EXTENDS InvestigationProofs

ClusterInv ==
    /\ DOMAIN investigations = Runs
    /\ expired \subseteq Expirable
    /\ history \in Seq(profile.conditions) /\ Len(history) \in 1..(profile.changes + 1)

StoredInv ==
    /\ Earlier \subseteq evidence
    /\ \A row \in evidence \ Earlier : \E r \in Runs : row.id \in IdsOf(r)

ScopeInv(r) ==
    /\ incident[r] \in profile.incidents \cup {None}
    /\ seen[r] \subseteq profile.workloads
    /\ pc[r] = "call" => scope[r].metric \in Metrics
    /\ \A record \in Elements(records[r]) : record.id \in IdsOf(r)

(* The calls that failed in a collection are those of some tools, which    *)
(* are called no more, nor is what would have followed from them.          *)
Failed(r, tools) ==
    /\ Cardinality(tools) = scope[r].failures
    /\ tools \cap (Called(r) \cup Elements(todo[r])) = {}
    /\ \A tool \in tools \cap Following : Parent(tool) \in Called(r)

CountInv(r) ==
    /\ report[r].tool_calls \in Nat
    /\ report[r].tool_calls <= Cardinality(Tools) * scope[r].number
    /\ pc[r] \in {"call", "save_batch"} =>
        /\ report[r].tool_calls + Cardinality(Tools) <= Cardinality(Tools) * scope[r].number
        /\ \E tools \in SUBSET Tools : Failed(r, tools)

(* A record shows what one view of one workload showed in a condition that *)
(* the cluster was in, of the workload it is about.                        *)
Witnessed(record) == \E w \in Elements(history) : Depicts(record, w)

ObservedInv(r) ==
    \A record \in Elements(batch[r]) \cup Elements(records[r]) : Witnessed(record)

OutcomeInv(r) ==
    /\ report[r].status \in {"ROOT_CAUSE_FOUND", "INSUFFICIENT_EVIDENCE"}
    /\ report[r].reason \in Reasons
    /\ report[r].root_cause # None =>
        /\ report[r].root_cause.cause \in Causes
        /\ profile.mode = "external" =>
            \E rows \in SUBSET Elements(records[r]) :
                Rests(report[r].root_cause, rows) /\ Correlated(report[r].root_cause.cause, rows)
    /\ pc[r] \in {"chat", "answer", "wait"} => profile.mode = "demo"
    /\ investigations[r] # None => Over(r) /\ investigations[r] = report[r]

FindingInv(r) == ScopeInv(r) /\ CountInv(r) /\ ObservedInv(r) /\ OutcomeInv(r)

FInv == ClusterInv /\ StoredInv /\ \A r \in Runs : FindingInv(r)

-----------------------------------------------------------------------------
LEMMA ToolCount == IsFiniteSet(Tools) /\ Cardinality(Tools) \in Nat
BY FifteenTools, FS_CardinalityType

LEMMA ProfileFields ==
    ASSUME profile \in Profiles
    PROVE  /\ profile.mode \in {"demo", "external"}
           /\ profile.mode = "demo" => profile.workloads = Elements(Graph)
           /\ \A inc \in profile.incidents : inc.allowed => inc.service \in profile.workloads
           /\ profile.initially \subseteq profile.conditions
           /\ profile.changes \in Nat
           /\ profile.verifiers \in Seq({"kubernetes_oom", "image_pull"})
BY InvestigationConstants DEF Profile

LEMMA FindingsInit == Init => FInv
<1> SUFFICES ASSUME Init PROVE FInv
    OBVIOUS
<1>1. ClusterInv
  <2>1. PICK w \in profile.initially : history = <<w>>
    BY DEF Init
  <2>2. w \in profile.conditions /\ profile.changes \in Nat
    BY <2>1, ProfileFields DEF Init
  <2> DEFINE conditions == profile.conditions
  <2>3. history \in Seq(conditions) /\ Len(history) = 1
    <3> HIDE DEF conditions
    <3>1. w \in conditions
        BY <2>2 DEF conditions
    <3> QED
        BY <2>1, <3>1
  <2> QED
    BY <2>2, <2>3 DEF Init, ClusterInv
<1>2. StoredInv
    BY DEF Init, StoredInv
<1>3. ASSUME NEW r \in Runs PROVE FindingInv(r)
  <2>1. /\ pc[r] = "start" /\ incident[r] = None /\ scope[r] = NoScope /\ batch[r] = <<>>
        /\ records[r] = <<>> /\ seen[r] = {} /\ report[r] = EmptyReport
        /\ investigations[r] = None
    BY DEF Init
  <2>2. Elements(batch[r]) = {} /\ Elements(records[r]) = {}
    BY <2>1, EmptySequence
  <2>3. report[r].tool_calls = 0 /\ report[r].reason = ""
    <3>1. EmptyReport.tool_calls = 0
        BY DEF EmptyReport
    <3>2. EmptyReport.reason = ""
        BY DEF EmptyReport
    <3> QED
        BY <2>1, <3>1, <3>2
  <2>a. 0 <= Cardinality(Tools) * scope[r].number
    <3> DEFINE count == Cardinality(Tools)
               number == scope[r].number
    <3>1. number = 0 /\ count \in Nat
        BY <2>1, ToolCount DEF NoScope
    <3> HIDE DEF count, number
    <3>2. 0 <= count * number
        BY <3>1
    <3> QED
        BY <3>2 DEF count, number
  <2>4. ScopeInv(r) /\ ObservedInv(r)
    BY <2>1, <2>2 DEF ScopeInv, ObservedInv
  <2>5. CountInv(r)
    <3>1. report[r].tool_calls \in Nat /\ report[r].tool_calls <= Cardinality(Tools) * scope[r].number
      <4>1. report[r].tool_calls = 0
        BY <2>3
      <4> QED
        BY <2>a, <4>1
    <3>2. pc[r] \notin {"call", "save_batch"}
        BY <2>1
    <3> QED
        BY <3>1, <3>2 DEF CountInv
  <2>6. OutcomeInv(r)
    BY <2>1, <2>3, EmptyReportFields DEF OutcomeInv, Reasons
  <2> QED
    BY <2>4, <2>5, <2>6 DEF FindingInv
<1> QED
    BY <1>1, <1>2, <1>3 DEF FInv

-----------------------------------------------------------------------------
(* What was seen stays seen, and a run is not touched by what others do.   *)
LEMMA WitnessedStill ==
    ASSUME NEW record, Witnessed(record), profile' = profile,
           Elements(history) \subseteq Elements(history')
    PROVE  Witnessed(record)'
BY DEF Witnessed, Depicts

LEMMA FindingsUntouched ==
    ASSUME NEW r, FindingInv(r), Local(r)' = Local(r), investigations'[r] = investigations[r],
           profile' = profile, Elements(history) \subseteq Elements(history')
    PROVE  FindingInv(r)'
<1>1. /\ pc'[r] = pc[r] /\ incident'[r] = incident[r] /\ scope'[r] = scope[r] /\ todo'[r] = todo[r]
      /\ batch'[r] = batch[r] /\ records'[r] = records[r] /\ seen'[r] = seen[r]
      /\ report'[r] = report[r]
    BY DEF Local
<1>2. ScopeInv(r)'
    BY <1>1 DEF FindingInv, ScopeInv
<1>3. CountInv(r)'
    BY <1>1 DEF FindingInv, CountInv, Failed, Called
<1>4. ObservedInv(r)'
    BY <1>1, WitnessedStill DEF FindingInv, ObservedInv
<1>5. OutcomeInv(r)'
    BY <1>1 DEF FindingInv, OutcomeInv, Over
<1> QED
    BY <1>2, <1>3, <1>4, <1>5 DEF FindingInv

LEMMA FindingsOf ==
    ASSUME IInv, FInv, NEW r \in Runs, FindingInv(r)', StoredInv',
           UNCHANGED <<profile, history>>,
           expired' = expired, DOMAIN investigations' = Runs,
           \A q \in Runs \ {r} : Local(q)' = Local(q) /\ investigations'[q] = investigations[q]
    PROVE  FInv'
<1>1. ClusterInv'
    BY DEF FInv, ClusterInv
<1>2. \A q \in Runs \ {r} : FindingInv(q)'
    BY FindingsUntouched DEF FInv
<1> QED
    BY <1>1, <1>2 DEF FInv

(* The steps that leave the collections alone and go on with the report.   *)
LEMMA ReportingFindings ==
    ASSUME IInv, FInv, NEW r \in Runs, NEW label \in Labels \ {"call", "save_batch"}, Goto(r, label),
           DOMAIN report' = Runs, \A q \in Runs \ {r} : report'[q] = report[q],
           report'[r].tool_calls = report[r].tool_calls, OutcomeInv(r)', StoredInv',
           DOMAIN investigations' = Runs,
           \A q \in Runs \ {r} : investigations'[q] = investigations[q],
           UNCHANGED <<incident, scope, todo, batch, records, seen, expired, profile, history>>
    PROVE  FInv'
<1>1. pc'[r] = label /\ \A q \in Runs \ {r} : pc'[q] = pc[q]
    BY DEF Goto, IInv, Variables
<1>2. FindingInv(r)
    BY DEF FInv
<1>3. ScopeInv(r)'
    BY <1>1, <1>2 DEF FindingInv, ScopeInv
<1>4. CountInv(r)'
    BY <1>1, <1>2 DEF FindingInv, CountInv
<1>5. ObservedInv(r)'
    BY <1>2, WitnessedStill DEF FindingInv, ObservedInv
<1>6. \A q \in Runs \ {r} : Local(q)' = Local(q)
    BY <1>1 DEF Local
<1> QED
    BY <1>3, <1>4, <1>5, <1>6, FindingsOf DEF FindingInv

(* A report that ends with a reason, the root cause apart.                 *)
LEMMA FinishFindings ==
    ASSUME IInv, FInv, NEW r \in Runs, ~Over(r), NEW reason \in Reasons, NEW built,
           Finish(r, built, reason), DOMAIN built = DOMAIN EmptyReport,
           built.tool_calls = report[r].tool_calls,
           built.status \in {"ROOT_CAUSE_FOUND", "INSUFFICIENT_EVIDENCE"},
           built.root_cause # None =>
               /\ built.root_cause.cause \in Causes
               /\ profile.mode = "external" =>
                   \E rows \in SUBSET Elements(records[r]) :
                       Rests(built.root_cause, rows) /\ Correlated(built.root_cause.cause, rows),
           StoredInv',
           UNCHANGED <<incident, scope, todo, batch, records, seen, expired, profile, history,
                       investigations>>
    PROVE  FInv'
<1>1. /\ Goto(r, "save") /\ DOMAIN report' = Runs
      /\ report'[r] = [built EXCEPT !.reason = reason]
      /\ \A q \in Runs \ {r} : report'[q] = report[q]
      /\ pc'[r] = "save"
    BY DEF Finish, Goto, IInv, Variables
<1>2. FindingInv(r) /\ investigations[r] = None
    BY DEF FInv, FindingInv, OutcomeInv
<1>3. /\ report'[r].tool_calls = built.tool_calls /\ report'[r].status = built.status
      /\ report'[r].root_cause = built.root_cause /\ report'[r].reason = reason
    BY <1>1 DEF EmptyReport
<1>4. records'[r] = records[r] /\ profile' = profile /\ investigations'[r] = None
    BY <1>2
<1>5. OutcomeInv(r)'
    BY <1>1, <1>3, <1>4 DEF OutcomeInv
<1>6. DOMAIN investigations' = Runs
    BY DEF FInv, ClusterInv
<1> QED
    BY <1>1, <1>3, <1>5, <1>6, ReportingFindings DEF Labels

LEMMA FinishAsIs ==
    ASSUME IInv, FInv, NEW r \in Runs, ~Over(r), NEW reason \in Reasons,
           Finish(r, report[r], reason), StoredInv',
           UNCHANGED <<incident, scope, todo, batch, records, seen, expired, profile, history,
                       investigations>>
    PROVE  FInv'
<1>1. DOMAIN report[r] = DOMAIN EmptyReport
    BY DEF IInv, RunInv, Shape
<1>2. OutcomeInv(r)
    BY DEF FInv, FindingInv
<1> QED
    BY <1>1, <1>2, FinishFindings DEF OutcomeInv

LEMMA StoredStill ==
    ASSUME FInv, evidence' = evidence
    PROVE  StoredInv'
BY DEF FInv, StoredInv

-----------------------------------------------------------------------------
LEMMA OneMore ==
    ASSUME NEW n \in Nat
    PROVE  /\ Cardinality(Tools) * n \in Nat
           /\ Cardinality(Tools) * (n + 1) = Cardinality(Tools) * n + Cardinality(Tools)
<1> DEFINE count == Cardinality(Tools)
<1>1. count \in Nat
    BY ToolCount
<1> HIDE DEF count
<1>2. count * n \in Nat /\ count * (n + 1) = count * n + count
    BY <1>1
<1> QED
    BY <1>2 DEF count

LEMMA StillRoom ==
    ASSUME NEW some \in Nat, NEW most \in Nat, NEW more \in Nat, NEW all,
           some <= most, all = most + more
    PROVE  some + more <= all /\ some <= all
OBVIOUS

LEMMA WithinRoom ==
    ASSUME NEW some \in Nat, NEW done \in Nat, NEW failed \in Nat, NEW count \in Nat, NEW all \in Nat,
           NEW sum, sum = some + done + failed, some + count <= all, done + failed <= count
    PROVE  sum \in Nat /\ sum <= all
OBVIOUS

(* A collection begins: there is room for the calls of all tools again.    *)
LEMMA BeginFindings ==
    ASSUME IInv, FInv, NEW r \in Runs, NEW inc \in profile.incidents,
           NEW workload \in profile.workloads, NEW metric \in Metrics,
           NEW includeChanges, Begin(r, inc, workload, metric, includeChanges),
           pc[r] \in {"start", "decide"},
           DOMAIN incident' = Runs, incident'[r] = inc,
           \A q \in Runs \ {r} : incident'[q] = incident[q],
           UNCHANGED <<records, expired, profile, history, tables>>
    PROVE  FInv'
<1>1. RunInv(r) /\ Variables /\ FindingInv(r)
    BY DEF IInv, FInv
<1>2. /\ scope'[r] = [workload |-> workload, metric |-> metric,
                      number |-> scope[r].number + 1, failures |-> 0]
      /\ seen'[r] = seen[r] \cup {workload} /\ batch'[r] = <<>> /\ records'[r] = records[r]
      /\ \A q \in Runs \ {r} : scope'[q] = scope[q] /\ seen'[q] = seen[q] /\ batch'[q] = batch[q]
    BY <1>1 DEF Begin, Variables
<1>3. /\ scope'[r].number = scope[r].number + 1 /\ scope'[r].metric = metric /\ scope'[r].failures = 0
      /\ scope[r].number \in Nat
    BY <1>1, <1>2 DEF RunInv, Shape
<1>4. Elements(batch'[r]) = {}
    BY <1>2, EmptySequence
<1>5. /\ pc'[r] \in {"call", "save"} /\ pc' \in [Runs -> Labels]
      /\ \A q \in Runs \ {r} : pc'[q] = pc[q] /\ todo'[q] = todo[q] /\ report'[q] = report[q]
      /\ report'[r] = report[r] \/ report'[r] = [report[r] EXCEPT !.reason = "evidence unavailable"]
    BY <1>1 DEF Begin, Finish, Goto, Variables, Labels
<1>6. DOMAIN report[r] = DOMAIN EmptyReport
    BY <1>1 DEF RunInv, Shape
<1>7. /\ report'[r].tool_calls = report[r].tool_calls /\ report'[r].status = report[r].status
      /\ report'[r].root_cause = report[r].root_cause
      /\ report'[r].reason \in {report[r].reason, "evidence unavailable"}
    BY <1>5, <1>6 DEF EmptyReport
<1>8. ScopeInv(r)'
    BY <1>1, <1>2, <1>3 DEF FindingInv, ScopeInv
<1>9. CountInv(r)'
  <2>1. /\ report[r].tool_calls \in Nat
        /\ report[r].tool_calls <= Cardinality(Tools) * scope[r].number
    BY <1>1 DEF FindingInv, CountInv
  <2>2. /\ Cardinality(Tools) * scope[r].number \in Nat
        /\ Cardinality(Tools) * scope'[r].number = Cardinality(Tools) * scope[r].number + Cardinality(Tools)
    BY <1>3, OneMore
  <2>4. /\ report[r].tool_calls + Cardinality(Tools) <= Cardinality(Tools) * scope'[r].number
        /\ report[r].tool_calls <= Cardinality(Tools) * scope'[r].number
    BY <2>1, <2>2, ToolCount, StillRoom
  <2>5. Failed(r, {})'
    <3>1. Called(r)' = {}
        BY <1>4 DEF Called
    <3> QED
        BY <1>3, <3>1, FS_EmptySet DEF Failed
  <2> QED
    BY <1>7, <2>1, <2>4, <2>5 DEF CountInv
<1>10. ObservedInv(r)'
    BY <1>1, <1>2, <1>4, WitnessedStill DEF FindingInv, ObservedInv
<1>11. OutcomeInv(r)'
  <2>1. investigations[r] = None
    BY <1>1 DEF FindingInv, OutcomeInv, Over
  <2>2. investigations'[r] = None
    BY <2>1 DEF tables
  <2> QED
    BY <1>1, <1>2, <1>5, <1>7, <2>2 DEF FindingInv, OutcomeInv, Reasons
<1>12. \A q \in Runs \ {r} : Local(q)' = Local(q)
    BY <1>2, <1>5 DEF Local
<1>13. StoredInv' /\ DOMAIN investigations' = Runs /\ \A q \in Runs : investigations'[q] = investigations[q]
    BY StoredStill DEF tables, FInv, ClusterInv
<1> QED
    BY <1>8, <1>9, <1>10, <1>11, <1>12, <1>13, FindingsOf DEF FindingInv

LEMMA StartFindings == ASSUME IInv, FInv, NEW r \in Runs, Start(r) PROVE FInv'
<1>1. PICK inc \in profile.incidents :
        /\ incident' = [incident EXCEPT ![r] = inc]
        /\ \/ inc.allowed /\ Begin(r, inc, inc.service, InitialMetric(inc), TRUE)
           \/ /\ Goto(r, "failed")
              /\ UNCHANGED <<scope, todo, batch, seen, report>>
    BY DEF Start
<1>2. pc[r] = "start" /\ UNCHANGED <<records, expired, profile, history, tables, evidence, investigations>>
    BY DEF Start, cluster, tables
<1>3. RunInv(r) /\ Variables /\ FindingInv(r)
    BY DEF IInv, FInv
<1>4. /\ DOMAIN incident' = Runs /\ incident'[r] = inc
      /\ \A q \in Runs \ {r} : incident'[q] = incident[q]
    BY <1>1, <1>3 DEF Variables
<1>5. CASE inc.allowed /\ Begin(r, inc, inc.service, InitialMetric(inc), TRUE)
  <2>1. inc.service \in profile.workloads
    BY <1>3, <1>5, ProfileFields DEF Variables
  <2>2. InitialMetric(inc) \in Metrics
    BY DEF InitialMetric, Metrics
  <2>3. Begin(r, inc, inc.service, InitialMetric(inc), TRUE)
    BY <1>5
  <2> HIDE DEF Begin
  <2> QED
    BY <1>2, <1>4, <2>1, <2>2, <2>3, BeginFindings
<1>6. CASE Goto(r, "failed") /\ UNCHANGED <<scope, todo, batch, seen, report>>
  <2>1. pc'[r] = "failed" /\ \A q \in Runs \ {r} : pc'[q] = pc[q]
    BY <1>3, <1>6 DEF Goto, Variables
  <2>2. ScopeInv(r)'
    BY <1>2, <1>3, <1>4, <1>6, <2>1 DEF FindingInv, ScopeInv
  <2>3. CountInv(r)'
    BY <1>3, <1>6, <2>1 DEF FindingInv, CountInv
  <2>4. ObservedInv(r)'
    BY <1>2, <1>3, <1>6, WitnessedStill DEF FindingInv, ObservedInv
  <2>5. OutcomeInv(r)'
    BY <1>2, <1>3, <1>6, <2>1 DEF FindingInv, OutcomeInv, Over
  <2>6. \A q \in Runs \ {r} : Local(q)' = Local(q)
    BY <1>2, <1>4, <1>6, <2>1 DEF Local
  <2>7. StoredInv' /\ DOMAIN investigations' = Runs
    BY <1>2, StoredStill DEF FInv, ClusterInv
  <2> QED
    BY <1>2, <2>2, <2>3, <2>4, <2>5, <2>6, <2>7, FindingsOf DEF FindingInv
<1> QED
    BY <1>1, <1>5, <1>6

(* What a call shows was the case then, of the workload asked about.       *)
LEMMA ObservedIsWitnessed ==
    ASSUME FInv, NEW r \in Runs, NEW tool, scope[r].workload \in profile.workloads,
           scope[r].metric \in Metrics
    PROVE  Witnessed(Observed(r, tool))
<1> DEFINE record == Observed(r, tool)
           w      == history[Len(history)]
           view   == Observation(r, tool)
           now    == Worlds[w][scope[r].workload][view]
<1>1. w \in Elements(history)
  <2>1. Len(history) \in DOMAIN history
    <3>1. Len(history) \in Nat \ {0} /\ DOMAIN history = 1..Len(history)
        BY ProfileFields DEF FInv, ClusterInv
    <3> QED
        BY <3>1
  <2> QED
    BY <2>1 DEF Elements
<1>2. view \in Views(tool)
    BY DEF Observation, Views, IncidentTraceFilter, Traces
<1>3. record.tool = tool /\ record.shows = Projected(profile, tool, scope[r].workload, now.shows)
    BY DEF Observed
<1>4. record.shows \subseteq now.shows
    BY <1>3 DEF Projected, Deployment, Scrubbed
<1>5. tool \notin Elsewhere => record.resource = scope[r].workload
    BY DEF Observed, Resource, Elsewhere, ChangeTools
<1>6. record.pod = now.pod /\ record.image = now.image /\ record.limit = now.limit
    BY DEF Observed
<1> HIDE DEF record, view, w
<1>7. Depicts(record, w)
    BY <1>2, <1>3, <1>4, <1>5, <1>6 DEF Depicts
<1> QED
    BY <1>1, <1>7 DEF Witnessed, record

LEMMA CallToolFindings == ASSUME IInv, FInv, NEW r \in Runs, CallTool(r) PROVE FInv'
<1> DEFINE tool   == Head(todo[r])
           record == Observed(r, tool)
<1>1. RunInv(r) /\ Variables /\ FindingInv(r)
    BY DEF IInv, FInv
<1>2. /\ pc[r] = "call" /\ todo[r] # <<>>
      /\ UNCHANGED <<pc, incident, records, seen, report, expired, profile, history, evidence,
                     investigations>>
    BY DEF CallTool, cluster, tables
<1>3. tool \in Elements(todo[r]) /\ tool \in Tools
      /\ Calls(Tail(todo[r]), Elements(todo[r]) \ {tool})
  <2>1. Calls(todo[r], Elements(todo[r]))
    BY <1>1, <1>2 DEF RunInv, Shape, CallsInv, Calls
  <2> QED
    BY <1>2, <2>1, RestOfCalls
<1>4. \A q \in Runs \ {r} : Local(q)' = Local(q)
  <2>1. \A q \in Runs \ {r} : todo'[q] = todo[q] /\ batch'[q] = batch[q] /\ scope'[q] = scope[q]
    BY <1>1 DEF CallTool, Variables
  <2> QED
    BY <1>2, <2>1 DEF Local
<1>5. DOMAIN scope[r] = DOMAIN NoScope /\ Sequence(batch[r])
    BY <1>1 DEF RunInv, Shape
<1>6. /\ scope'[r].number = scope[r].number /\ scope'[r].metric = scope[r].metric
  <2>1. scope'[r] = scope[r] \/ scope'[r] = [scope[r] EXCEPT !.failures = scope[r].failures + 1]
    BY <1>1 DEF CallTool, Variables
  <2> QED
    BY <1>5, <2>1 DEF NoScope
<1>7. ScopeInv(r)'
    BY <1>1, <1>2, <1>6 DEF FindingInv, ScopeInv
<1>8. OutcomeInv(r)'
    BY <1>1, <1>2 DEF FindingInv, OutcomeInv, Over
<1>9. /\ report'[r].tool_calls \in Nat
      /\ report'[r].tool_calls <= Cardinality(Tools) * scope'[r].number
      /\ report'[r].tool_calls + Cardinality(Tools) <= Cardinality(Tools) * scope'[r].number
    BY <1>1, <1>2, <1>6 DEF FindingInv, CountInv
<1>10. PICK tools \in SUBSET Tools : Failed(r, tools)
    BY <1>1, <1>2 DEF FindingInv, CountInv
<1>11. /\ Called(r) \cap Elements(todo[r]) = {}
       /\ \A t \in Following \cap (Called(r) \cup Elements(todo[r])) : Parent(t) \in Called(r)
    BY <1>1, <1>2 DEF RunInv, CallsInv
<1>12. StoredInv' /\ DOMAIN investigations' = Runs
    BY <1>2, StoredStill DEF FInv, ClusterInv
<1>13. CASE /\ batch' = [batch EXCEPT ![r] = Append(@, record)]
            /\ todo' = [todo EXCEPT ![r] = Follow(record) \o Tail(@)]
            /\ UNCHANGED scope
  <2>1. batch'[r] = Append(batch[r], record) /\ todo'[r] = Follow(record) \o Tail(todo[r])
    BY <1>1, <1>13 DEF Variables
  <2>2. record.tool = tool
    BY DEF Observed
  <2>3. PICK more \in SUBSET {t \in Following : Parent(t) = tool} : Calls(Follow(record), more)
    BY <2>2, FollowCalls
  <2>4. Witnessed(record)
    <3>1. scope[r].workload \in profile.workloads /\ scope[r].metric \in Metrics
        BY <1>1, <1>2 DEF RunInv, PlanInv, FindingInv, ScopeInv
    <3> QED
        BY <3>1, ObservedIsWitnessed
  <2> HIDE DEF tool, record
  <2>5. Elements(batch'[r]) = Elements(batch[r]) \cup {record}
    BY <1>5, <2>1, Appended
  <2>6. Called(r)' = Called(r) \cup {tool}
    BY <2>2, <2>5 DEF Called
  <2>7. Elements(todo'[r]) = more \cup (Elements(todo[r]) \ {tool})
    <3>1. more \cap (Elements(todo[r]) \ {tool}) = {}
        BY <1>3, <1>11, <2>3
    <3>2. Calls(todo'[r], more \cup (Elements(todo[r]) \ {tool}))
        BY <1>3, <2>1, <2>3, <3>1, MoreCalls
    <3> QED
        BY <3>2 DEF Calls
  <2>8. Failed(r, tools)'
    <3>1. tools \cap more = {}
        BY <1>3, <1>10, <1>11, <2>3 DEF Failed
    <3> QED
        BY <1>3, <1>10, <1>13, <2>6, <2>7, <3>1 DEF Failed
  <2>9. CountInv(r)'
    BY <1>9, <2>8 DEF CountInv
  <2>10. ObservedInv(r)'
    <3>1. \A x \in Elements(batch'[r]) \cup Elements(records'[r]) : Witnessed(x)
        BY <1>1, <1>2, <2>4, <2>5 DEF FindingInv, ObservedInv
    <3> QED
        BY <1>2, <3>1, WitnessedStill DEF ObservedInv
  <2> QED
    BY <1>2, <1>4, <1>7, <1>8, <1>12, <2>9, <2>10, FindingsOf DEF FindingInv
<1>14. CASE /\ todo' = [todo EXCEPT ![r] = Tail(@)]
            /\ scope' = [scope EXCEPT ![r].failures = @ + 1] /\ UNCHANGED batch
  <2>1. /\ todo'[r] = Tail(todo[r]) /\ batch'[r] = batch[r]
        /\ scope'[r].failures = scope[r].failures + 1
    BY <1>1, <1>5, <1>14 DEF Variables, NoScope
  <2> HIDE DEF tool
  <2>2. PICK gone \in Tools : gone = tool
    BY <1>3
  <2>3. Elements(todo'[r]) = Elements(todo[r]) \ {gone} /\ Called(r)' = Called(r)
    BY <1>3, <2>1, <2>2 DEF Calls, Called
  <2>4. Failed(r, tools \cup {gone})'
    <3>1. gone \notin tools /\ gone \notin Called(r)
        BY <1>3, <1>10, <1>11, <2>2 DEF Failed
    <3>2. IsFiniteSet(tools)
        BY ToolCount, FS_Subset
    <3>3. Cardinality(tools \cup {gone}) = Cardinality(tools) + 1
        BY <3>1, <3>2, FS_AddElement
    <3>4. Cardinality(tools \cup {gone}) = scope'[r].failures
        BY <1>10, <2>1, <3>3 DEF Failed
    <3>5. \A t \in (tools \cup {gone}) \cap Following : Parent(t) \in Called(r)'
        BY <1>3, <1>10, <1>11, <2>2, <2>3 DEF Failed
    <3>6. (tools \cup {gone}) \cap (Called(r)' \cup Elements(todo'[r])) = {}
        BY <1>10, <2>3, <3>1 DEF Failed
    <3> QED
        BY <3>4, <3>5, <3>6 DEF Failed
  <2>5. CountInv(r)'
    BY <1>9, <2>4 DEF CountInv
  <2>6. ObservedInv(r)'
    BY <1>1, <1>2, <2>1, WitnessedStill DEF FindingInv, ObservedInv
  <2> QED
    BY <1>2, <1>4, <1>7, <1>8, <1>12, <2>5, <2>6, FindingsOf DEF FindingInv
<1> QED
    BY <1>13, <1>14 DEF CallTool

LEMMA EndCallsFindings == ASSUME IInv, FInv, NEW r \in Runs, EndCalls(r) PROVE FInv'
<1>1. RunInv(r) /\ Variables /\ FindingInv(r)
    BY DEF IInv, FInv
<1>2. /\ pc[r] = "call"
      /\ UNCHANGED <<incident, scope, todo, batch, records, seen, expired, profile, history,
                     evidence, investigations>>
    BY DEF EndCalls, cluster, tables
<1>3. StoredInv' /\ DOMAIN investigations' = Runs
    BY <1>2, StoredStill DEF FInv, ClusterInv
<1>4. CASE Finish(r, report[r], "evidence unavailable")
    BY <1>2, <1>3, <1>4, FinishAsIs DEF Over, Reasons
<1>5. CASE Goto(r, "save_batch") /\ UNCHANGED report
  <2>1. pc'[r] = "save_batch" /\ \A q \in Runs \ {r} : pc'[q] = pc[q]
    BY <1>1, <1>5 DEF Goto, Variables
  <2>2. ScopeInv(r)'
    BY <1>1, <1>2, <2>1 DEF FindingInv, ScopeInv
  <2>3. CountInv(r)'
    BY <1>1, <1>2, <1>5, <2>1 DEF FindingInv, CountInv, Failed, Called
  <2>4. ObservedInv(r)'
    BY <1>1, <1>2, WitnessedStill DEF FindingInv, ObservedInv
  <2>5. OutcomeInv(r)'
    BY <1>1, <1>2, <1>5, <2>1 DEF FindingInv, OutcomeInv, Over
  <2>6. \A q \in Runs \ {r} : Local(q)' = Local(q)
    BY <1>2, <1>5, <2>1 DEF Local
  <2> QED
    BY <1>2, <1>3, <2>2, <2>3, <2>4, <2>5, <2>6, FindingsOf DEF FindingInv
<1> QED
    BY <1>4, <1>5 DEF EndCalls

(* The calls of a collection, failed ones included, are of as many tools.  *)
LEMMA CallsOfCollection ==
    ASSUME IInv, FInv, NEW r \in Runs, pc[r] = "save_batch"
    PROVE  /\ Len(batch[r]) \in Nat /\ scope[r].failures \in Nat
           /\ Len(batch[r]) + scope[r].failures <= Cardinality(Tools)
<1>1. PICK tools \in SUBSET Tools : Failed(r, tools)
    BY DEF FInv, FindingInv, CountInv
<1>2. /\ \A i, j \in DOMAIN batch[r] : batch[r][i].tool = batch[r][j].tool => i = j
      /\ Sequence(batch[r]) /\ Len(batch[r]) \in Nat /\ DOMAIN batch[r] = 1..Len(batch[r])
    BY DEF IInv, RunInv, CallsInv, Shape, Sequence
<1>3. \A i \in 1..Len(batch[r]) : batch[r][i].tool \in Tools \ tools
  <2>1. \A i \in 1..Len(batch[r]) : batch[r][i] \in Elements(batch[r])
    BY <1>2 DEF Elements
  <2>2. \A record \in Elements(batch[r]) : record.tool \in Tools /\ record.tool \in Called(r)
    BY DEF IInv, RunInv, RecordsInv, Called
  <2> QED
    BY <1>1, <2>1, <2>2 DEF Failed
<1> DEFINE f == [i \in 1..Len(batch[r]) |-> batch[r][i].tool]
<1>4. f \in Injection(1..Len(batch[r]), Tools \ tools)
    BY <1>2, <1>3 DEF Injection, IsInjective
<1>5. IsFiniteSet(tools) /\ IsFiniteSet(Tools \ tools)
    BY ToolCount, FS_Subset
<1>6. Cardinality(1..Len(batch[r])) <= Cardinality(Tools \ tools)
    BY <1>4, <1>5, FS_Injection
<1>7. Cardinality(1..Len(batch[r])) = Len(batch[r])
    BY <1>2, FS_Interval
<1>8. Cardinality(Tools \ tools) = Cardinality(Tools) - Cardinality(tools)
  <2>1. Cardinality(Tools \ tools) = Cardinality(Tools) - Cardinality(Tools \cap tools)
    BY ToolCount, FS_Difference
  <2>2. Tools \cap tools = tools
    OBVIOUS
  <2> QED
    BY <2>1, <2>2
<1>9. Cardinality(tools) \in Nat /\ Cardinality(tools) = scope[r].failures
    BY <1>1, <1>5, FS_CardinalityType DEF Failed
<1> QED
    BY <1>2, <1>6, <1>7, <1>8, <1>9, ToolCount

LEMMA BatchIDs ==
    ASSUME IInv, NEW r \in Runs
    PROVE  \A record \in Elements(batch[r]) : record.id \in IdsOf(r)
<1>1. scope[r].number \in 0..3
    BY DEF IInv, RunInv, Shape
<1>2. \A record \in Elements(batch[r]) :
            record.id = <<r, scope[r].number, record.tool>> /\ record.tool \in Tools
    BY DEF IInv, RunInv, RecordsInv
<1>3. scope[r].number \in 0..MaxTargetCollections + 1
    BY <1>1 DEF MaxTargetCollections
<1> SUFFICES ASSUME NEW record \in Elements(batch[r])
             PROVE  record.id \in IdsOf(r)
    OBVIOUS
<1>4. record.id = <<r, scope[r].number, record.tool>> /\ record.tool \in Tools \cup {"invented"}
    BY <1>2
<1> QED
    BY <1>3, <1>4 DEF IdsOf

LEMMA SaveBatchFindings == ASSUME IInv, FInv, NEW r \in Runs, SaveBatch(r) PROVE FInv'
<1>1. RunInv(r) /\ Variables /\ FindingInv(r)
    BY DEF IInv, FInv
<1>2. /\ pc[r] = "save_batch"
      /\ UNCHANGED <<incident, scope, todo, batch, seen, expired, profile, history, investigations>>
    BY DEF SaveBatch, cluster
<1>3. evidence' = evidence \/ evidence' = evidence \cup Elements(batch[r])
    BY DEF SaveBatch
<1>4. StoredInv'
    BY <1>3, BatchIDs DEF FInv, StoredInv
<1>5. CASE NotCollected(r)
    BY <1>2, <1>4, <1>5, FinishAsIs DEF NotCollected, Over, Reasons
<1>6. CASE Collected(r)
  <2>1. /\ pc'[r] = "decide" /\ records'[r] = records[r] \o batch[r]
        /\ \A q \in Runs \ {r} : pc'[q] = pc[q] /\ records'[q] = records[q] /\ report'[q] = report[q]
    BY <1>1, <1>6 DEF Collected, Goto, Variables
  <2>2. DOMAIN report[r] = DOMAIN EmptyReport /\ Sequence(batch[r]) /\ Sequence(records[r])
    BY <1>1 DEF RunInv, Shape
  <2>3. Elements(records'[r]) = Elements(records[r]) \cup Elements(batch[r])
    BY <2>1, <2>2, Joined
  <2>4. /\ report'[r].tool_calls = report[r].tool_calls + Len(batch[r]) + scope[r].failures
        /\ report'[r].status = report[r].status /\ report'[r].root_cause = report[r].root_cause
        /\ report'[r].reason = report[r].reason
    BY <1>1, <1>6, <2>2 DEF Collected, EmptyReport, Variables
  <2>5. ScopeInv(r)'
    BY <1>1, <1>2, <2>1, <2>3, BatchIDs DEF FindingInv, ScopeInv
  <2>6. CountInv(r)'
    <3>1. /\ Len(batch[r]) \in Nat /\ scope[r].failures \in Nat
          /\ Len(batch[r]) + scope[r].failures <= Cardinality(Tools)
        BY <1>2, CallsOfCollection
    <3>2. /\ report[r].tool_calls \in Nat
          /\ report[r].tool_calls + Cardinality(Tools) <= Cardinality(Tools) * scope[r].number
        BY <1>1, <1>2 DEF FindingInv, CountInv
    <3>3. Cardinality(Tools) * scope[r].number \in Nat
      <4>1. scope[r].number \in Nat
        BY <1>1 DEF RunInv, Shape
      <4> QED
        BY <4>1, OneMore
    <3>4. /\ report'[r].tool_calls \in Nat
          /\ report'[r].tool_calls <= Cardinality(Tools) * scope[r].number
      <4> DEFINE some  == report[r].tool_calls
                 done  == Len(batch[r])
                 lost  == scope[r].failures
                 count == Cardinality(Tools)
                 all   == Cardinality(Tools) * scope[r].number
                 sum   == report'[r].tool_calls
      <4>1. /\ some \in Nat /\ done \in Nat /\ lost \in Nat /\ count \in Nat /\ all \in Nat
            /\ sum = some + done + lost /\ some + count <= all /\ done + lost <= count
        BY <2>4, <3>1, <3>2, <3>3, ToolCount
      <4> HIDE DEF some, done, lost, count, all, sum
      <4>2. sum \in Nat /\ sum <= all
        BY <4>1, WithinRoom
      <4> QED
        BY <4>2 DEF all, sum
    <3> QED
        BY <1>2, <2>1, <3>4 DEF CountInv
  <2>7. ObservedInv(r)'
    <3>1. \A x \in Elements(batch'[r]) \cup Elements(records'[r]) : Witnessed(x)
        BY <1>1, <1>2, <2>3 DEF FindingInv, ObservedInv
    <3> QED
        BY <1>2, <3>1, WitnessedStill DEF ObservedInv
  <2>8. OutcomeInv(r)'
    <3>1. investigations[r] = None
        BY <1>1, <1>2 DEF FindingInv, OutcomeInv, Over
    <3>2. Elements(records[r]) \subseteq Elements(records'[r])
        BY <2>3
    <3> QED
        BY <1>1, <1>2, <2>1, <2>4, <3>1, <3>2 DEF FindingInv, OutcomeInv
  <2>9. \A q \in Runs \ {r} : Local(q)' = Local(q)
    BY <1>2, <2>1 DEF Local
  <2>10. DOMAIN investigations' = Runs
    BY <1>2 DEF FInv, ClusterInv
  <2> QED
    BY <1>2, <1>4, <2>5, <2>6, <2>7, <2>8, <2>9, <2>10, FindingsOf DEF FindingInv
<1> QED
    BY <1>5, <1>6 DEF SaveBatch

-----------------------------------------------------------------------------
(* Outside the demo a verified cause comes with the records that show it.  *)
LEMMA ScopedShows ==
    ASSUME NEW recs, Sequence(recs), NEW tool, NEW resource,
           NEW found, found = Scoped(recs, tool, resource), found # None
    PROVE  found \in Elements(recs) /\ found.tool = tool
<1> DEFINE hits == {i \in DOMAIN recs : recs[i].tool = tool /\ recs[i].resource = resource}
<1>1. Len(recs) \in Nat /\ hits \in SUBSET (1..Len(recs))
    BY DEF Sequence
<1>2. hits # {} /\ found = recs[CHOOSE i \in hits : \A j \in hits : j <= i]
    BY DEF Scoped, Last
<1>3. (CHOOSE i \in hits : \A j \in hits : j <= i) \in hits
    BY <1>1, <1>2, Greatest
<1> QED
    BY <1>2, <1>3 DEF Elements

LEMMA ExternalCauseShown ==
    ASSUME NEW recs, Sequence(recs), NEW workload, NEW verifiers,
           NEW root, root = ExternalVerifiedCause(verifiers, workload, recs), root # None
    PROVE  /\ root.cause \in Causes
           /\ \E rows \in SUBSET Elements(recs) : Rests(root, rows) /\ Correlated(root.cause, rows)
<1> DEFINE deployment == Scoped(recs, "kubernetes_get_deployment", workload)
           pods       == Scoped(recs, "kubernetes_get_pods", workload)
           events     == Scoped(recs, "kubernetes_get_events", workload)
           causeOf(verifier) ==
               IF verifier = "kubernetes_oom" THEN ExternalOOM(workload, deployment, pods)
               ELSE ExternalImagePull(workload, deployment, pods, events)
           hits       == {i \in DOMAIN verifiers : causeOf(verifiers[i]) # None}
<1>1. /\ deployment # None /\ pods # None
      /\ root = causeOf(verifiers[CHOOSE i \in hits : \A j \in hits : i <= j])
    BY DEF ExternalVerifiedCause
<1>2. \/ root = ExternalOOM(workload, deployment, pods)
      \/ root = ExternalImagePull(workload, deployment, pods, events)
    BY <1>1
<1>3. /\ deployment \in Elements(recs) /\ deployment.tool = "kubernetes_get_deployment"
      /\ pods \in Elements(recs) /\ pods.tool = "kubernetes_get_pods"
      /\ events # None => events \in Elements(recs) /\ events.tool = "kubernetes_get_events"
    BY <1>1, ScopedShows
<1> HIDE DEF deployment, pods, events
<1>4. CASE root = ExternalOOM(workload, deployment, pods)
  <2> DEFINE rows == {pods, deployment}
  <2>1. /\ "memory_limit" \in deployment.shows /\ "oom_recently" \in pods.shows
        /\ pods.limit = deployment.limit
        /\ root = Supported(workload, "memory_limit_oom", rows)
    BY <1>4 DEF ExternalOOM
  <2>2. root.cause = "memory_limit_oom" /\ Rests(root, rows)
    BY <2>1 DEF Supported, Rests, Ids
  <2>3. Correlated("memory_limit_oom", rows)
    <3>1. ExternalGrounds("memory_limit_oom") =
            { <<"kubernetes_get_pods", "oom_recently">>,
              <<"kubernetes_get_deployment", "memory_limit">> }
        BY DEF ExternalGrounds
    <3>2. \A ground \in ExternalGrounds("memory_limit_oom") : \E row \in rows :
            row.tool = ground[1] /\ ground[2] \in row.shows
        BY <1>3, <2>1, <3>1
    <3>3. \A row, other \in rows : row.limit = other.limit
        BY <2>1
    <3> QED
        BY <3>1, <3>2, <3>3 DEF Correlated
  <2> QED
    BY <1>3, <2>2, <2>3 DEF Causes
<1>5. CASE root = ExternalImagePull(workload, deployment, pods, events)
  <2> DEFINE rows == {deployment, pods, events}
  <2>1. /\ events # None /\ "waiting_for_image" \in pods.shows /\ "pull_failed_recently" \in events.shows
        /\ pods.image = deployment.image /\ events.image = deployment.image /\ events.pod = pods.pod
        /\ root = Supported(workload, "deployment_references_unpullable_image", rows)
    BY <1>5 DEF ExternalImagePull
  <2>2. root.cause = "deployment_references_unpullable_image" /\ Rests(root, rows)
    BY <2>1 DEF Supported, Rests, Ids
  <2>3. Correlated("deployment_references_unpullable_image", rows)
    <3>1. ExternalGrounds("deployment_references_unpullable_image") =
            { <<"kubernetes_get_pods", "waiting_for_image">>,
              <<"kubernetes_get_events", "pull_failed_recently">> }
        BY DEF ExternalGrounds
    <3>2. \A ground \in ExternalGrounds("deployment_references_unpullable_image") : \E row \in rows :
            row.tool = ground[1] /\ ground[2] \in row.shows
        BY <1>3, <2>1, <3>1
    <3>3. \A row, other \in rows : row.image = other.image
        BY <2>1
    <3>4. \A row \in rows : row.tool = "kubernetes_get_events" => SamePod(row, rows)
        BY <1>3, <2>1 DEF SamePod
    <3> QED
        BY <3>1, <3>2, <3>3, <3>4 DEF Correlated
  <2> QED
    BY <1>3, <2>1, <2>2, <2>3 DEF Causes
<1> QED
    BY <1>2, <1>4, <1>5

LEMMA FoundCounts ==
    ASSUME IInv, NEW r \in Runs, NEW cause
    PROVE  Found(r, cause).tool_calls = report[r].tool_calls
<1>1. DOMAIN report[r] = DOMAIN EmptyReport
    BY DEF IInv, RunInv, Shape
<1> QED
    BY <1>1 DEF Found, EmptyReport

LEMMA DecideFindings == ASSUME IInv, FInv, NEW r \in Runs, Decide(r) PROVE FInv'
<1>1. RunInv(r) /\ Variables /\ FindingInv(r)
    BY DEF IInv, FInv
<1>2. /\ pc[r] = "decide" /\ ~Over(r)
      /\ UNCHANGED <<incident, records, expired, profile, history, tables, evidence, investigations>>
    BY DEF Decide, cluster, tables, Over
<1>3. StoredInv' /\ DOMAIN investigations' = Runs
    BY <1>2, StoredStill DEF FInv, ClusterInv
<1>4. CASE DecideExternal(r)
  <2> DEFINE cause == ExternalVerifiedCause(profile.verifiers, incident[r].service, records[r])
  <2>1. UNCHANGED <<scope, todo, batch, seen>>
    BY <1>4 DEF DecideExternal
  <2>2. CASE cause = None
    BY <1>2, <1>3, <1>4, <2>1, <2>2, FinishAsIs DEF DecideExternal, Reasons
  <2>3. CASE cause # None
    <3>1. Finish(r, Found(r, cause), "")
        BY <1>4, <2>3 DEF DecideExternal
    <3>2. Sequence(records[r])
        BY <1>1 DEF RunInv, Shape
    <3>3. /\ cause.cause \in Causes
          /\ \E rows \in SUBSET Elements(records[r]) : Rests(cause, rows) /\ Correlated(cause.cause, rows)
        BY <2>3, <3>2, ExternalCauseShown
    <3> HIDE DEF cause
    <3> DEFINE built == Found(r, cause)
    <3>4. /\ DOMAIN built = DOMAIN EmptyReport /\ built.status = "ROOT_CAUSE_FOUND"
          /\ built.root_cause = cause /\ built.tool_calls = report[r].tool_calls
        BY FoundFields, FoundCounts
    <3>5. Finish(r, built, "")
        BY <3>1
    <3> HIDE DEF built
    <3> QED
        BY <1>2, <1>3, <2>1, <3>3, <3>4, <3>5, FinishFindings DEF Reasons
  <2> QED
    BY <2>2, <2>3
<1>5. CASE DecideDemo(r)
  <2> DEFINE available == DownstreamUnvisited(r)
             nearest   == Graph[CHOOSE i \in available : \A j \in available : i <= j]
  <2>1. CASE Finish(r, report[r], "duration budget exhausted") /\ UNCHANGED <<scope, todo, batch, seen>>
    BY <1>2, <1>3, <2>1, FinishAsIs DEF Reasons
  <2>2. CASE Goto(r, "chat") /\ UNCHANGED <<scope, todo, batch, seen, report>>
    <3>1. pc'[r] = "chat"
        BY <1>1, <2>2 DEF Goto, Variables
    <3>2. OutcomeInv(r)'
        BY <1>1, <1>2, <1>5, <2>2, <3>1 DEF FindingInv, OutcomeInv, Over, DecideDemo
    <3>3. DOMAIN report' = Runs
        BY <1>1, <2>2 DEF Variables
    <3> QED
        BY <1>2, <1>3, <2>2, <3>2, <3>3, ReportingFindings DEF Labels
  <2>3. CASE /\ available # {}
             /\ Begin(r, incident[r], nearest, DefaultMetric(incident[r], nearest), FALSE)
    <3>1. nearest \in profile.workloads
      <4>1. (CHOOSE i \in available : \A j \in available : i <= j) \in available
        <5>1. available \in SUBSET Nat
            BY DEF DownstreamUnvisited, Graph
        <5> QED
            BY <2>3, <5>1, Least
      <4>2. nearest \in Elements(Graph)
        BY <4>1 DEF DownstreamUnvisited, Elements
      <4>3. profile.mode = "demo"
        BY <1>5 DEF DecideDemo
      <4> QED
        BY <1>1, <4>2, <4>3, ProfileFields DEF Variables
    <3>2. DefaultMetric(incident[r], nearest) \in Metrics
        BY DEF DefaultMetric, InitialMetric, Metrics
    <3>3. incident[r] \in profile.incidents
        BY <1>1, <1>2 DEF RunInv, Shape
    <3>4. DOMAIN incident' = Runs /\ \A q \in Runs : incident'[q] = incident[q]
        BY <1>1, <1>2 DEF Variables
    <3>5. Begin(r, incident[r], nearest, DefaultMetric(incident[r], nearest), FALSE)
        BY <2>3
    <3> HIDE DEF nearest, Begin
    <3> QED
        BY <1>2, <3>1, <3>2, <3>3, <3>4, <3>5, BeginFindings
  <2> QED
    BY <1>5, <2>1, <2>2, <2>3 DEF DecideDemo
<1> QED
    BY <1>4, <1>5 DEF Decide

-----------------------------------------------------------------------------
(* The steps around the model's answer that count and do not end.          *)
LEMMA GoingOn ==
    ASSUME IInv, FInv, NEW r \in Runs, ~Over(r), NEW label \in {"chat", "answer", "wait"}, Goto(r, label),
           profile.mode = "demo",
           DOMAIN report' = Runs, \A q \in Runs \ {r} : report'[q] = report[q],
           report'[r].tool_calls = report[r].tool_calls, report'[r].status = report[r].status,
           report'[r].reason = report[r].reason, report'[r].root_cause = report[r].root_cause,
           UNCHANGED <<incident, scope, todo, batch, records, seen, expired, profile, history, evidence,
                       investigations>>
    PROVE  FInv'
<1>1. investigations[r] = None
    BY DEF FInv, FindingInv, OutcomeInv
<1>2. investigations'[r] = None /\ records'[r] = records[r] /\ profile'.mode = "demo"
    BY <1>1
<1>3. OutcomeInv(r)
    BY DEF FInv, FindingInv
<1>4. OutcomeInv(r)'
    BY <1>2, <1>3 DEF OutcomeInv
<1>5. StoredInv' /\ DOMAIN investigations' = Runs
    BY StoredStill DEF FInv, ClusterInv
<1>6. label \in Labels \ {"call", "save_batch"}
    BY DEF Labels
<1> QED
    BY <1>4, <1>5, <1>6, ReportingFindings

LEMMA ChatFindings == ASSUME IInv, FInv, NEW r \in Runs, Chat(r) PROVE FInv'
<1>1. /\ ~Over(r) /\ pc[r] = "chat"
      /\ UNCHANGED <<incident, scope, todo, batch, records, seen, expired, profile, history, evidence,
                     investigations>>
    BY DEF Chat, cluster, tables, Over
<1>2. CASE AnalysisFails(r)
    BY <1>1, <1>2, FinishAsIs, StoredStill DEF AnalysisFails, Reasons
<1>3. CASE Goto(r, "answer") /\ report' = [report EXCEPT ![r].llm_calls = @ + 1]
  <2>1. /\ DOMAIN report' = Runs /\ \A q \in Runs \ {r} : report'[q] = report[q]
        /\ report'[r] = [report[r] EXCEPT !.llm_calls = @ + 1]
    BY <1>3 DEF IInv, Variables
  <2>2. DOMAIN report[r] = DOMAIN EmptyReport
    BY DEF IInv, RunInv, Shape
  <2>3. /\ report'[r].tool_calls = report[r].tool_calls /\ report'[r].status = report[r].status
        /\ report'[r].reason = report[r].reason /\ report'[r].root_cause = report[r].root_cause
    BY <2>1, <2>2 DEF EmptyReport
  <2>4. profile.mode = "demo"
    BY <1>1 DEF FInv, FindingInv, OutcomeInv
  <2> QED
    BY <1>1, <1>3, <2>1, <2>3, <2>4, GoingOn
<1> QED
    BY <1>2, <1>3 DEF Chat

LEMMA WaitFindings == ASSUME IInv, FInv, NEW r \in Runs, Wait(r) PROVE FInv'
<1>1. /\ ~Over(r) /\ pc[r] = "wait"
      /\ UNCHANGED <<incident, scope, todo, batch, records, seen, expired, profile, history, evidence,
                     investigations>>
    BY DEF Wait, cluster, tables, Over
<1>2. CASE AnalysisFails(r)
    BY <1>1, <1>2, FinishAsIs, StoredStill DEF AnalysisFails, Reasons
<1>3. CASE Goto(r, "chat") /\ report' = [report EXCEPT ![r].llm_retries = @ + 1]
  <2>1. /\ DOMAIN report' = Runs /\ \A q \in Runs \ {r} : report'[q] = report[q]
        /\ report'[r] = [report[r] EXCEPT !.llm_retries = @ + 1]
    BY <1>3 DEF IInv, Variables
  <2>2. DOMAIN report[r] = DOMAIN EmptyReport
    BY DEF IInv, RunInv, Shape
  <2>3. /\ report'[r].tool_calls = report[r].tool_calls /\ report'[r].status = report[r].status
        /\ report'[r].reason = report[r].reason /\ report'[r].root_cause = report[r].root_cause
    BY <2>1, <2>2 DEF EmptyReport
  <2>4. profile.mode = "demo"
    BY <1>1 DEF FInv, FindingInv, OutcomeInv
  <2> QED
    BY <1>1, <1>3, <2>1, <2>3, <2>4, GoingOn
<1> QED
    BY <1>2, <1>3 DEF Wait

(* Whatever is claimed, a verified cause is one that the verifiers know.   *)
LEMMA ClaimKnown ==
    ASSUME NEW recs, NEW cited, NEW component, NEW cause,
           NEW root, root = VerifyClaim(recs, cited, component, cause), root # None
    PROVE  root.cause \in Causes
<1>1. root \in Verified(recs, cited)
    BY DEF VerifyClaim
<1>2. \/ root = VerifyOOM(recs, cited) \/ root = VerifyImagePull(recs, cited)
      \/ root = VerifyInvalidOrderConfig(recs, cited) \/ root = VerifyBrokenServiceSelector(recs, cited)
      \/ root = VerifyExcessiveCPU(recs, cited) \/ root = VerifyPaymentFailure(recs, cited)
    BY <1>1 DEF Verified, Verifications
<1>3. ASSUME NEW known \in Causes, NEW place, NEW rows, root = Supported(place, known, rows)
      PROVE  root.cause \in Causes
    BY <1>3 DEF Supported
<1>4. CASE root = VerifyOOM(recs, cited)
    BY <1>3, <1>4 DEF VerifyOOM, Causes
<1>5. CASE root = VerifyImagePull(recs, cited)
  <2>1. \E rows : root = Supported("orders-api", "deployment_references_unpullable_image", rows)
    BY <1>5 DEF VerifyImagePull
  <2> QED
    BY <1>3, <2>1 DEF Causes
<1>6. CASE root = VerifyInvalidOrderConfig(recs, cited)
  <2>1. \E rows : root = Supported("orders-api", "unsupported_order_mode_from_configmap", rows)
    BY <1>6 DEF VerifyInvalidOrderConfig
  <2> QED
    BY <1>3, <2>1 DEF Causes
<1>7. CASE root = VerifyBrokenServiceSelector(recs, cited)
    BY <1>3, <1>7 DEF VerifyBrokenServiceSelector, Causes
<1>8. CASE root = VerifyExcessiveCPU(recs, cited)
    BY <1>3, <1>8 DEF VerifyExcessiveCPU, Causes
<1>9. CASE root = VerifyPaymentFailure(recs, cited)
    BY <1>3, <1>9 DEF VerifyPaymentFailure, Causes
<1> QED
    BY <1>2, <1>4, <1>5, <1>6, <1>7, <1>8, <1>9

LEMMA AnalyseFindings ==
    ASSUME IInv, FInv, NEW r \in Runs, ~Over(r), profile.mode = "demo", NEW claim, NEW hypotheses,
           Analyse(r, claim, hypotheses),
           UNCHANGED <<incident, scope, todo, batch, records, seen, expired, profile, history, evidence,
                       investigations>>
    PROVE  FInv'
<1> DEFINE cause  == VerifyClaim(records[r], ValidIDs(r, claim.evidence), claim.component, claim.cause)
           before == IF cause = None THEN report[r] ELSE Found(r, cause)
           taken  == Hypotheses(r, hypotheses)
           built  == [before EXCEPT !.hypotheses = taken]
           reason == IF cause = None THEN "root cause not verified" ELSE ""
<1>1. Finish(r, built, reason)
    BY DEF Analyse
<1>2. DOMAIN report[r] = DOMAIN EmptyReport /\ OutcomeInv(r)
    BY DEF IInv, RunInv, Shape, FInv, FindingInv
<1>3. cause # None => cause.cause \in Causes
    BY ClaimKnown
<1>4. reason \in Reasons
    BY DEF Reasons
<1> HIDE DEF cause, taken, reason
<1>5. /\ DOMAIN before = DOMAIN EmptyReport /\ before.tool_calls = report[r].tool_calls
      /\ before.status \in {"ROOT_CAUSE_FOUND", "INSUFFICIENT_EVIDENCE"}
      /\ before.root_cause # None => before.root_cause.cause \in Causes
  <2>1. CASE cause = None
    BY <1>2, <2>1 DEF OutcomeInv
  <2>2. CASE cause # None
    <3>1. before = Found(r, cause)
        BY <2>2
    <3> HIDE DEF before
    <3> QED
        BY <1>3, <2>2, <3>1, FoundFields, FoundCounts
  <2> QED
    BY <2>1, <2>2
<1> HIDE DEF before
<1>6. /\ DOMAIN built = DOMAIN EmptyReport /\ built.tool_calls = before.tool_calls
      /\ built.status = before.status /\ built.root_cause = before.root_cause
    BY <1>5 DEF EmptyReport
<1> HIDE DEF built
<1>7. StoredInv' /\ profile.mode # "external"
    BY StoredStill
<1> QED
    BY <1>1, <1>4, <1>5, <1>6, <1>7, FinishFindings

LEMMA AnswerFindings == ASSUME IInv, FInv, NEW r \in Runs, Answer(r) PROVE FInv'
<1>1. /\ ~Over(r) /\ pc[r] = "answer"
      /\ UNCHANGED <<incident, scope, todo, batch, records, seen, expired, profile, history, evidence,
                     investigations>>
    BY DEF Answer, cluster, tables, Over
<1>2. \/ AnalysisFails(r)
      \/ Finish(r, report[r], "invalid analysis output")
      \/ \E claim, hypotheses : Analyse(r, claim, hypotheses)
      \/ Goto(r, "wait") /\ UNCHANGED report
    BY DEF Answer
<1>3. CASE AnalysisFails(r)
    BY <1>1, <1>3, FinishAsIs, StoredStill DEF AnalysisFails, Reasons
<1>4. CASE Finish(r, report[r], "invalid analysis output")
    BY <1>1, <1>4, FinishAsIs, StoredStill DEF Reasons
<1>5. CASE \E claim, hypotheses : Analyse(r, claim, hypotheses)
  <2>1. profile.mode = "demo"
    BY <1>1 DEF FInv, FindingInv, OutcomeInv
  <2> QED
    BY <1>1, <1>5, <2>1, AnalyseFindings
<1>6. CASE Goto(r, "wait") /\ UNCHANGED report
  <2>1. DOMAIN report' = Runs
    BY <1>6 DEF IInv, Variables
  <2>2. profile.mode = "demo"
    BY <1>1 DEF FInv, FindingInv, OutcomeInv
  <2> QED
    BY <1>1, <1>6, <2>1, <2>2, GoingOn
<1> QED
    BY <1>2, <1>3, <1>4, <1>5, <1>6

LEMMA SaveReportFindings == ASSUME IInv, FInv, NEW r \in Runs, SaveReport(r) PROVE FInv'
<1>1. /\ pc[r] = "save"
      /\ UNCHANGED <<incident, scope, todo, batch, records, seen, report, expired, profile, history,
                     evidence>>
    BY DEF SaveReport, cluster
<1>2. PICK label \in {"reported", "failed"} : Goto(r, label)
    BY DEF SaveReport
<1>3. pc'[r] = label
    BY <1>2 DEF Goto, IInv, Variables
<1>4. /\ DOMAIN investigations' = Runs
      /\ \A q \in Runs \ {r} : investigations'[q] = investigations[q]
      /\ investigations'[r] \in {investigations[r], report[r]}
    BY DEF SaveReport, FInv, ClusterInv
<1>5. OutcomeInv(r) /\ investigations[r] = None
    BY <1>1 DEF FInv, FindingInv, OutcomeInv, Over
<1>6. OutcomeInv(r)'
    BY <1>1, <1>3, <1>4, <1>5 DEF OutcomeInv, Over
<1>7. StoredInv' /\ DOMAIN report' = Runs /\ label \in Labels \ {"call", "save_batch"}
    BY <1>1, StoredStill DEF IInv, Variables, Labels
<1> QED
    BY <1>1, <1>2, <1>4, <1>6, <1>7, ReportingFindings

LEMMA KillFindings == ASSUME IInv, FInv, NEW r \in Runs, Kill(r) PROVE FInv'
<1>1. Variables /\ FindingInv(r) /\ ~Over(r)
    BY DEF IInv, FInv, Kill
<1>2. /\ UNCHANGED <<incident, profile, history, evidence, investigations>>
      /\ expired' = expired \ {r} /\ pc'[r] = "failed"
      /\ scope'[r] = NoScope /\ batch'[r] = <<>> /\ records'[r] = <<>>
      /\ seen'[r] = {} /\ report'[r] = EmptyReport
    BY <1>1 DEF Kill, Goto, Variables, cluster, tables
<1>3. \A q \in Runs \ {r} : Local(q)' = Local(q)
    BY <1>1, <1>2 DEF Kill, Goto, Variables, Local
<1>4. Elements(batch'[r]) = {} /\ Elements(records'[r]) = {}
    BY <1>2, EmptySequence
<1>5. report'[r].tool_calls = 0 /\ report'[r].reason = ""
  <2>1. EmptyReport.tool_calls = 0
    BY DEF EmptyReport
  <2>2. EmptyReport.reason = ""
    BY DEF EmptyReport
  <2> QED
    BY <1>2, <2>1, <2>2
<1>6. ScopeInv(r)'
    BY <1>1, <1>2, <1>4 DEF FindingInv, ScopeInv
<1>7. CountInv(r)'
  <2> DEFINE count  == Cardinality(Tools)
             number == scope'[r].number
  <2>1. number = 0 /\ count \in Nat
    BY <1>2, ToolCount DEF NoScope
  <2> HIDE DEF count, number
  <2>2. 0 <= count * number
    BY <2>1
  <2>3. 0 <= Cardinality(Tools) * scope'[r].number
    BY <2>2 DEF count, number
  <2>4. /\ report'[r].tool_calls \in Nat
        /\ report'[r].tool_calls <= Cardinality(Tools) * scope'[r].number
    <3>1. report'[r].tool_calls = 0
        BY <1>5
    <3> QED
        BY <2>3, <3>1
  <2> QED
    BY <1>2, <2>4 DEF CountInv
<1>8. ObservedInv(r)'
    BY <1>4 DEF ObservedInv
<1>9. OutcomeInv(r)'
  <2>1. investigations[r] = None
    BY <1>1 DEF FindingInv, OutcomeInv
  <2>2. report'[r].status = "INSUFFICIENT_EVIDENCE" /\ report'[r].root_cause = None
    BY <1>2, EmptyReportFields
  <2> QED
    BY <1>2, <1>5, <2>1, <2>2 DEF OutcomeInv, Reasons
<1>10. \A q \in Runs : FindingInv(q)'
    BY <1>2, <1>3, <1>6, <1>7, <1>8, <1>9, FindingsUntouched DEF FInv, FindingInv
<1>11. ClusterInv' /\ StoredInv'
    BY <1>2, StoredStill DEF FInv, ClusterInv
<1> QED
    BY <1>10, <1>11 DEF FInv

(* Deadlines and the cluster touch no run; what was the case stays so.     *)
LEMMA OutsideFindings ==
    ASSUME FInv, ClusterInv',
           UNCHANGED <<pc, incident, scope, todo, batch, records, seen, report, profile, tables>>,
           Elements(history) \subseteq Elements(history')
    PROVE  FInv'
<1>1. evidence' = evidence /\ investigations' = investigations
    BY DEF tables
<1>2. \A r \in Runs : Local(r)' = Local(r)
    BY DEF Local
<1>3. \A r \in Runs : FindingInv(r)'
    BY <1>1, <1>2, FindingsUntouched DEF FInv
<1> QED
    BY <1>1, <1>3, StoredStill DEF FInv

LEMMA WorldChangesFindings == ASSUME IInv, FInv, WorldChanges PROVE FInv'
<1>1. PICK w \in profile.conditions : history' = Append(history, w)
    BY DEF WorldChanges
<1>2. /\ Len(history) <= profile.changes /\ profile \in Profiles
      /\ UNCHANGED <<pc, incident, scope, todo, batch, records, seen, report, expired, profile, tables,
                     investigations>>
    BY DEF WorldChanges, IInv, Variables, tables
<1>3. profile.changes \in Nat
    BY <1>2, ProfileFields
<1>4. /\ history \in Seq(profile.conditions) /\ Len(history) \in 1..(profile.changes + 1)
      /\ DOMAIN investigations = Runs /\ expired \subseteq Expirable
    BY DEF FInv, ClusterInv
<1>5. Sequence(history)
    BY <1>4 DEF Sequence, Elements
<1>6. Elements(history') = Elements(history) \cup {w}
    BY <1>1, <1>5, Appended
<1>7. history' \in Seq(profile.conditions) /\ Len(history') = Len(history) + 1
    BY <1>1, <1>4
<1>8. Len(history') \in 1..(profile.changes + 1)
    BY <1>2, <1>3, <1>4, <1>7
<1>9. ClusterInv'
    BY <1>2, <1>4, <1>7, <1>8 DEF ClusterInv
<1> QED
    BY <1>2, <1>6, <1>9, OutsideFindings

LEMMA FindingsNext == IInv /\ FInv /\ [Next]_vars => FInv'
<1> SUFFICES ASSUME IInv, FInv, [Next]_vars PROVE FInv'
    OBVIOUS
<1>1. ASSUME NEW r \in Runs, Step(r) PROVE FInv'
    BY <1>1, StartFindings, CallToolFindings, EndCallsFindings, SaveBatchFindings, DecideFindings,
       ChatFindings, AnswerFindings, WaitFindings, SaveReportFindings DEF Step
<1>2. ASSUME NEW r \in Runs, Expire(r) PROVE FInv'
  <2>1. /\ UNCHANGED <<pc, incident, scope, todo, batch, records, seen, report, profile, history, tables,
                       investigations>>
        /\ expired' \subseteq Expirable
    BY <1>2 DEF Expire, cluster, tables, FInv, ClusterInv
  <2>2. ClusterInv'
    BY <2>1 DEF FInv, ClusterInv
  <2> QED
    BY <2>1, <2>2, OutsideFindings
<1>3. ASSUME NEW r \in Runs, Kill(r) PROVE FInv'
    BY <1>3, KillFindings
<1>4. CASE WorldChanges
    BY <1>4, WorldChangesFindings
<1>5. CASE UNCHANGED vars
  <2>1. UNCHANGED <<pc, incident, scope, todo, batch, records, seen, report, expired, profile, history,
                    tables, investigations>>
    BY <1>5 DEF vars, cluster, tables
  <2>2. ClusterInv'
    BY <2>1 DEF FInv, ClusterInv
  <2> QED
    BY <2>1, <2>2, OutsideFindings
<1> QED
    BY <1>1, <1>2, <1>3, <1>4, <1>5 DEF Next, Finished

(* The second invariant holds of every behaviour.                          *)
THEOREM FindingsHold == Spec => []FInv
<1>1. Init => FInv
    BY FindingsInit
<1>2. IInv /\ FInv /\ [Next]_vars => FInv'
    BY FindingsNext
<1> QED
    BY <1>1, <1>2, InvariantHolds, PTL DEF Spec

-----------------------------------------------------------------------------
LEMMA ThreeCollections ==
    ASSUME NEW n \in 0..3, NEW count \in Nat
    PROVE  count * n <= count * 3 /\ count * 3 \in Nat
<1>1. CASE n = 0
    BY <1>1
<1>2. CASE n = 1
    BY <1>2
<1>3. CASE n = 2
    BY <1>3
<1>4. CASE n = 3
    BY <1>4
<1> QED
    BY <1>1, <1>2, <1>3, <1>4

(* Runs, tables and the cluster's history keep their types; a report       *)
(* admits to at most three collections of as many calls as there are       *)
(* tools, and the table of investigations holds the report as it was made. *)
THEOREM TypesAreCorrect == Spec => []TypeOK
<1>1. IInv /\ FInv => TypeOK
  <2> SUFFICES ASSUME IInv, FInv PROVE TypeOK
    OBVIOUS
  <2>1. ASSUME NEW r \in Runs
        PROVE  /\ incident[r] \in profile.incidents \cup {None}
               /\ scope[r].number \in 0..MaxTargetCollections + 1
               /\ Elements(todo[r]) \subseteq Tools
               /\ Ids(Elements(batch[r])) \cup Ids(Elements(records[r])) \subseteq IdsOf(r)
               /\ seen[r] \subseteq profile.workloads
               /\ report[r].status \in {"ROOT_CAUSE_FOUND", "INSUFFICIENT_EVIDENCE"}
               /\ report[r].status = "ROOT_CAUSE_FOUND" <=> report[r].root_cause # None
               /\ report[r].reason \in Reasons
               /\ report[r].tool_calls \in 0..Cardinality(Tools) * (MaxTargetCollections + 1)
               /\ investigations[r] \in {None, report[r]}
    <3>1. FindingInv(r) /\ RunInv(r)
        BY DEF FInv, IInv
    <3>2. scope[r].number \in 0..3 /\ Elements(todo[r]) \subseteq Tools
        BY <3>1 DEF RunInv, Shape, Elements
    <3>3. scope[r].number \in 0..MaxTargetCollections + 1
        BY <3>2 DEF MaxTargetCollections
    <3>4. Ids(Elements(batch[r])) \cup Ids(Elements(records[r])) \subseteq IdsOf(r)
        BY <3>1, BatchIDs DEF FindingInv, ScopeInv, Ids
    <3>5. report[r].tool_calls \in 0..Cardinality(Tools) * (MaxTargetCollections + 1)
      <4> DEFINE calls == report[r].tool_calls
                 count == Cardinality(Tools)
                 n     == scope[r].number
      <4>1. calls \in Nat /\ calls <= count * n /\ n \in 0..3 /\ count \in Nat
        BY <3>1, <3>2, ToolCount DEF FindingInv, CountInv
      <4>2. MaxTargetCollections + 1 = 3
        BY DEF MaxTargetCollections
      <4> HIDE DEF calls, count, n
      <4>3. count * n <= count * 3 /\ count * 3 \in Nat /\ count * n \in Nat
        BY <4>1, ThreeCollections
      <4>4. calls \in 0..count * 3
        BY <4>1, <4>3
      <4> QED
        BY <4>2, <4>4 DEF calls, count
    <3>6. report[r].status = "ROOT_CAUSE_FOUND" <=> report[r].root_cause # None
        BY <3>1 DEF RunInv, ReportInv
    <3> QED
        BY <3>1, <3>2, <3>3, <3>4, <3>5, <3>6 DEF FindingInv, ScopeInv, OutcomeInv
  <2>2. pc \in [Runs -> Labels] /\ profile \in Profiles
    BY DEF IInv, Variables
  <2>3. /\ expired \subseteq Expirable
        /\ Elements(history) \subseteq profile.conditions
        /\ Len(history) \in 1..profile.changes + 1
    BY DEF FInv, ClusterInv, Elements
  <2>4. Earlier \subseteq evidence /\ Ids(evidence \ Earlier) \subseteq UNION {IdsOf(r) : r \in Runs}
    BY DEF FInv, StoredInv, Ids
  <2> QED
    BY <2>1, <2>2, <2>3, <2>4 DEF TypeOK
<1> QED
    BY <1>1, InvariantHolds, FindingsHold, PTL

(* The records behind a root cause are observations of the workloads they  *)
(* name, made in conditions that the cluster was in while the run lasted,  *)
(* and outside the demo they agree on the limit that was exceeded or on    *)
(* the image and the pod whose pull failed, however often the cluster      *)
(* changed between two of them.  Of records of two conditions nothing more *)
(* holds: there is no condition then that shows the whole cause.           *)
THEOREM CausesWereObserved == Spec => []FoundCausesWereObserved
<1>1. IInv /\ FInv => FoundCausesWereObserved
  <2> SUFFICES ASSUME IInv, FInv, NEW r \in Runs, report[r].status = "ROOT_CAUSE_FOUND"
               PROVE  LET root == report[r].root_cause  rows == RowsOf(r, root.evidence)
                      IN  /\ Ids(rows) = root.evidence
                          /\ \A row \in rows : \E w \in Elements(history) : Depicts(row, w)
                          /\ profile.mode = "external" => Correlated(root.cause, rows)
    BY DEF FoundCausesWereObserved
  <2> DEFINE root == report[r].root_cause
             rows == RowsOf(r, root.evidence)
  <2>1. ReportInv(r) /\ OutcomeInv(r) /\ ObservedInv(r)
    BY DEF IInv, RunInv, FInv, FindingInv
  <2>2. root # None
    BY <2>1 DEF ReportInv
  <2>3. ASSUME NEW some \in SUBSET Elements(records[r]), Rests(root, some)
        PROVE  rows = some /\ Ids(rows) = root.evidence
    BY <2>3, RowsFound DEF Rests
  <2>4. PICK shown \in SUBSET Elements(records[r]) : Rests(root, shown)
    BY <2>1, <2>2 DEF ReportInv
  <2>5. rows = shown /\ Ids(rows) = root.evidence
    BY <2>3, <2>4
  <2>6. \A row \in rows : \E w \in Elements(history) : Depicts(row, w)
    BY <2>1, <2>4, <2>5 DEF ObservedInv, Witnessed
  <2>7. profile.mode = "external" => Correlated(root.cause, rows)
    <3>1. profile.mode = "external" =>
            \E some \in SUBSET Elements(records[r]) : Rests(root, some) /\ Correlated(root.cause, some)
        BY <2>1, <2>2 DEF OutcomeInv
    <3> HIDE DEF root, rows
    <3> QED
        BY <2>3, <3>1
  <2> QED
    BY <2>5, <2>6, <2>7
<1> QED
    BY <1>1, InvariantHolds, FindingsHold, PTL
=============================================================================
