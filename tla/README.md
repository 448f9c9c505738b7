# IncidentPilot in TLA+

IncidentPilot receives Alertmanager notifications, stores them as incidents,
collects evidence about an incident through a read-only MCP server, lets an
agent investigate it, and turns a verified root cause into a pull request that
people review. This directory holds specifications of its core, the TLC
instances that check them and the TLAPS proofs of their main theorems.

## 1. Inventory

| Component (source) | State | Operations | Talks to |
|---|---|---|---|
| Remediation service (`internal/remediation`, `internal/storage/remediation.go`, `internal/httpapi` POST /remediations) | proposals, decisions, pull-request rows and audit events, written in one transaction | `Request`, `Get` | investigation and evidence tables, policy, GitHub client |
| Policy (`policies/remediation.rego`, `internal/policy`) | none | `Evaluate` | called by the service |
| GitHub client (`internal/github`) | none of its own; base branch, remediation branches and pull requests at GitHub | `CreatePullRequest` (up to nine calls) | GitHub REST API |
| Incident ingestion (`internal/httpapi` webhook, `internal/storage/postgres.go`) | table `incidents`, unique on (fingerprint, started_at) | webhook, `Upsert`, reads | Alertmanager, PostgreSQL |
| Evidence collection (`internal/evidence`, `internal/storage/evidence.go`) | table `evidence`, a batch per collection | `Collect`, `CollectTarget`, `SaveBatch` | MCP server, PostgreSQL |
| Investigation agent (`internal/agent`) | table `investigations` | `Run`, the deterministic verifiers, the evidence brief | collector, LLM provider |
| LLM providers (`internal/llm`) | none | `Chat` | Groq, Ollama |
| MCP server (`internal/investigation`) | none | bounded read-only tools | Kubernetes, Loki, Prometheus, Tempo, Argo CD, GitHub |
| Start-up and migrations (`cmd/api`, `cmd/agent`, `internal/config`, `Postgres.Open`, `Migrate`, `migrations/*.sql`) | the schema, table `schema_migrations`, the advisory lock | start, upgrade, serve, shut down | PostgreSQL, Kubernetes |
| Onboarding profile, telemetry | read once at start; trace context in `incidents` | parsing, `Capture`, `Restore` | |
| Demo services, traffic, offline evaluation | workloads under observation | | not part of the pilot |

What is hard here. The API runs as two replicas (`deploy/helm/.../values.yaml`),
so handlers of one incident or investigation interleave at every PostgreSQL and
GitHub call; nothing but GitHub's own checks coordinates them. A remediation is
a sequence of remote writes without a transaction: any call may fail, take
effect and lose its answer, or find its 45 s context ended; the evaluation is
saved last, on the same context. People push, merge, revert and delete branches
meanwhile. Notifications come repeated, out of order and in batches that may be
stored in part. An investigation observes a cluster that changes under it, one
call at a time, and asks a model whose answer may be anything. Every process
upgrades the schema when it starts, several at once, beside replicas of the
previous release that hold locks on its tables; each may die at any statement.
Each of these is listed at its line under `hazards` in `PROJECT.json`.

What makes each component correct:

* remediation: only what the policy allowed reaches GitHub, whatever the
  interleaving; a reviewer sees only the intended change; stored evaluations
  tell the truth; a retry resumes what an attempt left;
* policy: only a bounded raise of a limit that evidence shows is allowed, and
  approvals do not compound;
* ingestion: an accepted notification is stored, an incident is resolved once
  and stays so, a row shows only what notifications said;
* evidence and investigation: the server refuses no call that is planned and
  the table no batch; a stored root cause cites stored evidence of its own run
  that was checked deterministically, outside the demo all of one event; what
  the cause rests on fits the prompt; every run ends with a report;
* start-up: the ledger names exactly the scripts that were applied, however
  starts interleave and end; whoever serves has its schema; nobody waits in a
  circle; a shutdown cuts off no request.

## 2. Modules

| Module | Models |
|---|---|
| `RemediationPolicy` | `validateRequest`, `derivePolicyInput`, `sameIDs`, `memoryMiB`, the Rego rules |
| `Remediation` | handlers running `Service.Request` and `CreatePullRequest`, GitHub, people |
| `RemediationProperties` | the properties of `Remediation` |
| `RemediationLedger` | abstract: each request is judged once, opens at most one pull request if allowed, and is recorded once and truthfully |
| `RemediationRefinement` | the mapping from `Remediation` to `RemediationLedger` |
| `RemediationInvariant` | the inductive invariant |
| `RemediationProofs` | its safety theorems |
| `RemediationLedgerProofs` | that it implements `RemediationLedger` |
| `RemediationRetryProofs` | theorems about retries |
| `Incidents` | the webhook and `Upsert`, Alertmanager's repetitions, faults; with its properties |
| `IncidentLifecycle` | abstract: an incident is detected once and resolved at most once |
| `IncidentProofs` | theorems about `Incidents` |
| `RootCauses` | the deterministic verifiers of `verify.go` and `external_verify.go` |
| `ToolServer` | `Window` of the collector, and the checks and projections that the MCP server applies to a call |
| `Brief` | `prioritizeEvidence`, `evidenceBrief` and what `diagnosticBrief` keeps of a payload |
| `Inference` | what `Chat` returns for an HTTP answer, and when it may be retried |
| `Investigation` | `Investigator.Run` with the evidence collector, composed of the four above, and both tables |
| `InvestigationProperties` | the properties of `Investigation` |
| `InvestigationProofs` | its inductive invariant and theorems |
| `InvestigationFindingsProofs` | its types, and that a reported cause rests on observations of its own run |
| `SchemaScripts` | the six migrations and the table locks of scripts and store transactions |
| `Startup` | `Open`, `Migrate`, serving and shutdown of API replicas and agents |
| `StartupProperties` | the properties of `Startup` |
| `SchemaUpgrade` | abstract: a start upgrades the schema in one step |
| `StartupProofs` | the inductive invariant and theorems of `Startup`, its refinement of `SchemaUpgrade` |
| `StartupLockProofs` | its types, and that nobody waits in a circle |
| `MCRemediation`, `MCIncidents`, `MCInvestigation`, `MCStartup` | instances for TLC |

### Remediation

`pc[h]` stands between two calls that leave the process; one action is one such
call with the code up to the next, and its last disjunct is the error return.
`body` is the request, `verdict` the policy decision, `observed` the limit found
in the cited evidence, `local` the locals of `CreatePullRequest`, `outcome` the
row about to be saved, `ledger` the saved rows. `base`, `branches`, `pulls` and
`trunk` are the repository at GitHub: a manifest is its memory limit and a name
for the rest of its text, a commit is its author and its file, a branch the
commit where it left the base and its head. The blob SHA that GitHub compares
on a content update identifies a file's content, so it is the content.

`Faulty`, `Crashable` and `Cancellable` name the handlers whose calls may fail
(before or after the effect), whose process may die, and whose context may end;
an ended context makes every further call fail, `Save` included. `Configured`
names the handlers of replicas that have a GitHub executor. Validation of
characters and lengths is the flag `wellFormed` of a request. The authorization
check at the head of `CreatePullRequest` and `validCreatedPullRequest` compare
values that agree by the policy's own rules and the client's own checks; they
have no failing branch here.

### Incidents

A delivery is one notification with all its attempts. `Decode` checks the batch
as a whole, `Upsert` stores one alert in one statement, `Accept` answers 202.
A key stands for (fingerprint, started_at). `Retry` is Alertmanager's: it
repeats what was answered 5xx or not at all, and not what was answered 4xx.
Each attempt carries a trace context of its own. `faults` counts errors,
timeouts, lost answers and crashes.

### Investigation

A run is one agent process. Its actions are the calls that leave it: `CallTool`
(one tool of the MCP server), `SaveBatch`, `Chat` and `Answer` (the model),
`SaveReport`; `Decide` is the code between a stored collection and what follows
it. `todo` is what is left of the collector's plan, to which a result may add
(`Follow`: the log of a crashing pod, a found trace, the chain of changes),
`batch` the records so far, `records` those of the stored collections, `report`
the report being built. `evidence` and `investigations` are the tables; the ID
of a record is (run, number of the collection, tool). `Kill` ends the process
with all it had in memory; what it committed stays.

`profile`, chosen among the constant `Profiles`, is the onboarding profile of the
installation with the model it uses, the incidents raised there and the
conditions its cluster may take; `history` lists those it has been in, and
`cluster` is both. A payload is reduced to the predicates that the verifiers
read from it (`shows`) and the pod, image and memory limit they compare between
records. What the tools show in each condition is the constant `Worlds`, taken
by `MCInvestigation` from the scenarios and external to the model.

A call goes through `ToolServer`: `Window` makes a time window of the incident,
`Serves` says whether the server passes the call on. Times are ages in seconds
when the run starts, and a check may be made up to `RunLimit` later, so a window
that was valid may no longer be. `Projected` takes the environment of containers
out of a Deployment and puts back the demo's switches. The prompt is `Brief`:
records of a supported cause first, each as a card of `CardSize` bytes, up to
`BriefSize`. The model is external: it may claim any cause with any citations,
its own or others'; an honest one claims what its brief shows. Its HTTP answer
goes through `Inference`. The deadline passes at any moment after the start
(`Expire`); the 60 s of a collection and an interrupt end calls and batch in the
same way.

### Start-up

A process is an API replica of the new release (`Api`), an agent (`Agents`) or a
serving replica of the `release` before (`Old`, which runs the same statements
on the tables it has). `Ping` to `Commit` are the statements of `Open` and
`Migrate`, in one transaction of which `created` and `recorded` are the
uncommitted writes: a statement sees `schema` and `ledger` as committed when it
starts, and its own writes (READ COMMITTED). `migrator` holds the advisory lock.
A script and a transaction of the store take table locks one by one (`wants`,
`held`); a lock waits for conflicting holders and, as in PostgreSQL's queue, for
a migration that asked before. `settings` is what `config.Parse` accepts,
`Guarded` the checks of each route before it turns to the database: the
remediator is an interface value that is never nil, even without a service
behind it. `Fail` and `DatabaseStops` are crashes, evictions, failed calls and
restarts, counted by `faults`; `CommitAnswerLost` is a commit that took effect
without an answer. A serving process has one transaction open at a time; more
requests of one replica are no more than another replica to the locks.

## 3. Runs

| Run | Instance | Shows |
|---|---|---|
| `remediation` | 2 handlers, 9 proposals about two investigations (48 to 128, 192 and 193; 128 to 512 on top of a merged repair; 129 to 512 and 513; a Secret, uncited, malformed), both may fault, one may crash, 2 interventions | the safety properties and the refinement of `RemediationLedger` |
| `retry` | 3 handlers: one that fails anywhere, one clean, one on a replica without executor | `RetryCompletes`, `EveryRequestEnds` |
| `incidents` | 3 deliveries of batches over 3 alerts, 2 faults | the properties of `Incidents`, liveness included |
| `investigation` | 1 run after 2 earlier ones, killed or not, under three profiles: the demo with 5 incidents, 8 first conditions and a change to any of 9; the demo without change sources, for incidents at the limits of the windows; an external workload with 5 conditions and 2 changes; 2 flaky tools, database faults, the deadline, 13 answers | the safety properties of `Investigation` |
| `diagnosis` | 6 faults under 5 incidents, 2 under 4 more at the limits of the windows, the deadline, 3 irrelevant tools flaky, a model of Groq or Ollama that fails or is honest about a prompt that does not hold all evidence | `KnownFaultsAreFound`, `EveryRunReports` |
| `startup` | a new replica and an agent beside an old replica of release 4 or an empty database, with and without a database configured, in the demo and with an external profile, 4 routes, 1 fault | the properties of `Startup` and the refinement of `SchemaUpgrade` |
| `audit`, `reused_pull`, `recorded_commit`, `policy_scope`, `trace_context`, `latency_selector` | the smallest instances that show it | a statement of the repository's documents or tests that does not hold; see `findings` |

The six findings: a pull request opened just before the deadline has no audit
record; a reused pull request may not carry the proposal it is recorded for; the
recorded commit may be the base's; the policy allows any raise up to fourfold and
to 512Mi where the repository's README permits exactly 48Mi to 128Mi; a stored
trace context may mix two traces; the selector verifier accepts a latency sample
where its scenario asks for an error rate. A defect that one request shows has no
property: an API with an external profile has no remediation service, its handler
holds a nil pointer in an interface that is not nil, and a request breaks off
where the guard means to answer 503 (`Guarded` of `Startup`, hazard at
`cmd/api/main.go:83`).

Bounds. Every race in `CreatePullRequest` is between two handlers of the same
branch: branches of different investigations share no state but the base, which
people may change at any moment. Two interventions admit merge then revert, push
between two reads, and deletion of a branch under a running handler. The
quantities lie on both sides of the factor of four (192 and 193 of 48) and of the
ceiling (512 and 513 of 129, whose fourfold is above both). A raise from 128 to
512 is what an approval would compound to if a merged repair counted as evidence;
a limit of 129 is one that a person may have set. Two faults break off a batch of
two twice, at each place. Runs of the agent share nothing but the tables, to
which they only add rows under IDs of their own, so a run after others
(`Earlier`) shows all that it can take from them; one change of the cluster puts
two conditions between any two observations, and the external profile has two,
since its verifiers compare three records. A collection is made once per
workload, so its size is the code's own bound. The incidents are minutes, hours
and a day old, and older, going on or resolved: the last second on which a window
is taken and one on which it is refused, on either side of the server's day and
of the window's hour, two minutes of run included. The conditions of the cluster
include a kill of long ago without a fault (`earlier_kill`), a second bad image
in a new pod, and outside the demo an old kill and a limit raised after a kill.
Cards are of typical sizes: those of all records do not fit the prompt, those of
any one cause do. In `startup`, release 4 leaves two scripts of which the first
alters a table that serving transactions lock and the second another one, the
case for a circle; a third starter adds only another one waiting for the advisory
lock. The theorems hold without these bounds.

Fairness. A handler that has started is never left between two calls: each call
ends within the HTTP client's 12 s timeout and the request within 45 s (5 s for
the webhook), so weak fairness on a handler's own steps is what the code gives.
A tool call ends with its context, a model call and the sleep after a rate limit
too, so weak fairness on a run's steps is justified in the same way. No fairness
is assumed of clients, people, the cluster or the deadline.
`NotificationsArrive` also needs Alertmanager to go on repeating unanswered
notifications and the faults to cease; `RetryCompletes` is stated for a retry
that meets no fault and a repository nobody touches. A start is strongly fair:
it may find its lock taken over and over by others, but PostgreSQL grants locks
in the order in which they were asked for; Kubernetes restarts what ended,
PostgreSQL comes back, and a request ends, at the latest with its context.

## 4. Proofs

Proved for all values of the constants, from the assumptions
`ConstantsAssumption` (`Remediation`), `IncidentConstants` (`Incidents`),
`InvestigationConstants` (`Investigation`) and `StartupConstants` (`Startup`),
which every run evaluates.

`RemediationProofs`: `InvariantHolds` (`Spec => []IInv`), and from it
`TypeCorrect`, `BranchesCarryOnlyApprovedChanges`,
`OpenPullsShowApprovedChanges`, `LedgerIsTrue` and `BaseLimitsAreApproved`;
`AllowedIsBoundedRepair` is about the policy alone. None of the properties is
inductive. `IInv` adds: what each program counter says about the locals
(`ControlInv`, `LocalInv`); that a handler has no effects before its first write
and none without an allowed verdict, and that the row it is about to save is
already true (`EffectInv`); that a verdict is the policy's for a limit found in
the cited evidence (`VerdictInv`); that a branch's head differs from its root
only by an approved commit of the same branch (`BranchInv`); that an open pull
request has such a branch, and is the only one of it (`PullInv`). Effects are
permanent, so a true row stays true: that is what carries
`LedgerMatchesRepository` across other handlers' steps and people's.

`RemediationLedgerProofs`: `LedgerIsImplemented`, the refinement. `Receive` is
the ledger's `Accept`, `Evaluate` its `Judge`, a `CreatePull` that takes effect
its `Open`, `Save` its `Record`; every other step, a crash and what people do is
a stutter. The invariant gives what a single step cannot know: that only an
allowed request that has opened none comes as far as `CreatePull`, and that the
row to be saved agrees with the verdict and names a pull request that is there.

`RemediationRetryProofs`: `RetriesResume` (`Spec => []ResumeInv`), from it
`DivergenceHasAReason`, and `RetriesComplete`. For the first, until the base
moves every file a handler has read of it, and every branch's root, is the
initial one (`UntouchedInv`); a branch is then diverged only for another value
proposed by another handler of the same branch, and both reasons are permanent,
so a stored row keeps its reason (`DivergedInv`). `RetriesComplete` assumes
`OnlyRepairs`: nobody intervenes, every request is a repair of what the base
holds, and requests for one branch ask for one value. That is what
`RetryCompletes` is about, and what the constants of run `retry` satisfy;
without it a retry may rightly be denied or find its branch diverged. A handler
that starts when all others have ended finds nothing of the repair, a branch
without its commit, a branch with it, or an open pull request.
`OnItsWay` says for each of its program counters which of them is possible, so
that no call of its own is refused; the handler is one with an executor and
without faults, while the others may have failed or died anywhere.

`IncidentProofs`: `TypesAreCorrect`, `AcceptedStaysStored`, `RowsHaveACause` and
`IncidentsImplementLifecycle` (initial states map to initial states and each
step to a step of the lifecycle or a stutter). The invariant states that the
first `position - 1` alerts of a running attempt are reflected, and that
`Updated` never takes a resolution back.

`InvestigationProofs`: `InvariantHolds`, `RootCausesAreGrounded`,
`EvidenceIsCited`, `CollectionsAreStorable`, `ServerServesPlannedCalls` and
`RunsStayWithinBudgets`, for any `Worlds`, `Answers`, `Profiles` and `Earlier`.
Each verifier has a lemma (`OOMShown` to `PaymentFailureShown`): a cause it
returns comes with records of the run that show its grounds, whatever was cited.
The invariant has a part per question. `RecordsInv`: a record carries its run,
collection, tool and incident, and those the report lists are in the table.
`TableInv`: IDs are unique, and a run's rows are of collections before the
present one; so what a report cites is found again as what the verifier saw, and
a batch is new to the table even after a commit that was not acknowledged.
`CallsInv`: no tool is called twice in a collection, because those that follow a
result come only with it (`Parent`); the 15 tools then bound a batch. `PlanInv`:
what is planned suits the profile, and the change chain is entered only where
Argo CD answered; with the arithmetic of windows this is what the server asks
for. `WindowLastsUnlessLost` is exact: a window of the collector is taken for two
minutes if and only if `TelemetryLost` does not name its incident. `Window`
bounds the ages of an incident's start and end by a day, `ValidateWindow` that of
the window's start, which is two minutes before the incident, or an hour before
its end if that is later. So an incident that began over 23:56 hours ago and was
resolved over 22:58 hours ago has, or comes to have, a window that is refused.
`ServerServesPlannedCalls` exempts this telemetry and nothing else; an incident
that goes on is never concerned. `ReportInv` and `BudgetInv` are about the
report.

`InvestigationFindingsProofs`: `FindingsHold` (`Spec => []FInv`), from it
`TypesAreCorrect` and `CausesWereObserved`. The type invariant is not only about
types: a report admits to at most 45 calls. `CountInv` says why: the tools that
failed in a collection are others than those that answered or are still planned,
and what follows a call is planned only when it has answered, so a collection
makes at most 15, and there are at most three. `ObservedInv` ties every record to
a condition that the cluster was in while the run lasted, of which it shows one
view (`Witnessed`); conditions are never taken out of `history`, so this outlasts
any change of the cluster between two calls. Every record a cause cites is thus
an observation of the workload it names, made while the run lasted, and none is
taken over from an earlier investigation. How far the records agree with one
another is up to the verifiers: `Correlated`, kept in `OutcomeInv`, says it of
the external ones, the lemmas of `InvestigationProofs` of the demo's. Nothing is
assumed of the faults, and nothing more is true: records of two conditions that a
verifier does not compare may be put together into one that never was. The demo's
OOM verifier compares neither the limits of its two records (`verify.go:257-286`)
nor the time of the kill (`verify.go:719`), so its report may name a limit next
to a kill that happened under another one, or take a kill of long ago for the
cause. No document promises otherwise, and the properties do not deny it.

`StartupProofs`: `StartIsInvariant` (`Spec => []StartInv`), `MigrationsExclude`,
`LedgerIsTrue`, `StartsDoNotBreak`, `ServingIsSafe`, `ShutdownIsOrderly` and
`UpgradeIsImplemented` (the refinement of `SchemaUpgrade`), for any number of
processes, any previous release and any number of faults. The transaction of
`Migrate` belongs to the holder of the advisory lock (`LockInv`), only that one
has uncommitted work (`CleanInv`), and its work is the versions it has passed
(`WorkInv`), so that a commit leads from one release to another.

`StartupLockProofs`: `FullInvariant` (`Spec => []FullInv`), `TypesAreCorrect` and
`NobodyWaitsInACircle`. `TableInv` says how far each request and the migration
have come in their lists of locks, and that no two processes hold locks that
conflict. Requests take only weak locks (`ROW EXCLUSIVE` and below), which do not
conflict with one another, so a request waits only for the migration; a start
waits for the advisory lock, that is, for the migration too. A circle would
therefore consist of the migration and one request that holds what the migration
asks for while it waits for what the migration holds. The proof goes through the
scripts and transactions one by one and finds no such pair: it is about this
table of locks, for any previous release and any number of processes. If a script
altered `incidents` before `remediation_proposals` there would be one; that is
the mutant of the property.

Model-checked only: the liveness properties `EveryRequestEnds`,
`NotificationsArrive`, `EveryRunReports`, `KnownFaultsAreFound` and
`StartsAndStopsEnd`, because ENABLED and fairness are beyond the prover used. Of
the properties in the passing runs every other one is stated by a theorem. The
six statements of the `violation` runs are false, and refuted by TLC.

## 5. Not modelled

Character-level validation, YAML location of the scalar, JSON, sizes of bodies,
authorization tokens, logging, metrics; reads that change nothing (`Get`,
`List`). Of evidence: redaction and summaries are text. Of the LLM adapters: the
encoding of requests and the checks of their configuration. Of the MCP server:
the tools that the agent does not call, its queries to Kubernetes, Loki,
Prometheus, Tempo, Argo CD and GitHub, and the projections of their answers, but
for the environment of Deployments. A payload may list many pods, events and
traces; one of them is kept, of which the predicates hold, and it is taken to be
among the first ten, which are all that the prompt shows of the 20 pods and 100
events a payload may hold. Cards have typical sizes; a larger one may not fit the
prompt at all. `tempo_get_trace` answers with what the cluster shows when it is
called, not with the trace that the search found a call earlier; windows are in
whole seconds. That the cluster is not observed at one moment is
modelled. The syntax of single settings is parsing; the process of the MCP server
has no state to migrate or to lose. The demo services, the traffic generator and
the offline scorer are not part of the pilot. `PROJECT.json` names each part and
why.

## 6. Plan

1. Composition of incidents, evidence, investigations and remediation: the tables
   that are constants of `Remediation` become variables.
2. Several pods and events per payload, so that the order in which the verifiers
   and the brief read them matters.
3. Proofs: what a composition needs of its parts, first that a stored cause and
   the records it cites are what `Remediation` takes as its constants; then the
   abstract specification of an investigation and its refinement.
