---------------------------- MODULE Remediation ----------------------------
(***************************************************************************)
(* The remediation pipeline of incidentpilot-api: concurrent handlers of   *)
(* POST /api/v1/remediations, each running Service.Request and, when the   *)
(* policy allows, the GitHub client's CreatePullRequest.                   *)
(*                                                                         *)
(* A handler is one invocation; its program counter stands between two     *)
(* calls that leave the process (PostgreSQL, GitHub).  What a call returns *)
(* stays in the handler's locals while other handlers, other replicas and  *)
(* people change the repository.  A call may fail before its effect, or    *)
(* have its effect and lose the answer; the request context may end at any *)
(* moment (45 s deadline, client gone) and the process may die.            *)
(*                                                                         *)
(* The investigation and evidence tables are read only here and are        *)
(* constants.  GitHub is external: base branch, remediation branches and   *)
(* pull requests behave as the client in src/ relies on.                   *)
(***************************************************************************)
EXTENDS RemediationPolicy

CONSTANTS
    Handlers,      \* invocations of the handler, over all API replicas
    Requests,      \* decoded request bodies clients may send
    Report,        \* investigations: ID -> stored agent.Report
    EvidenceRows,  \* evidence table: set of [id, incident, limits]
    BranchOf,      \* remediationBranch: investigation ID -> branch name
    InitialFile,   \* manifest on the base branch at the start
    HumanFiles,    \* manifests a person may push to the base branch
    MaxInterventions, \* bound: what people do at the repository
    Configured,    \* handlers of replicas with a GitHub executor
    Faulty,        \* handlers whose calls may fail or lose their answer
    Crashable,     \* handlers whose process may die in mid-request
    Cancellable,   \* handlers whose context may end in mid-request
    None           \* absent value

Rests    == {InitialFile.rest} \cup {f.rest : f \in HumanFiles}
File     == [limit : Quantity, rest : Rests]
Branches == {BranchOf[i] : i \in DOMAIN BranchOf}

(* A commit is identified by who made it: handler h makes at most one, and *)
(* the commits of the base branch are numbered.                            *)
Commit == [author : Handlers \cup {None}, rev : Nat, file : File]
Branch == [root : Commit, head : Commit]   \* root: where it left the base

ASSUME ConstantsAssumption ==
    /\ InitialFile \in [limit : Quantity, rest : {InitialFile.rest}]
    /\ HumanFiles \subseteq [limit : Quantity, rest : {f.rest : f \in HumanFiles}]
    /\ MaxInterventions \in Nat
    /\ Configured \subseteq Handlers
    /\ Faulty \subseteq Handlers
    /\ Crashable \subseteq Handlers
    /\ Cancellable \subseteq Handlers
    /\ None \notin Handlers \cup Branch \cup Branches \cup Requests \cup {"allowed", "denied"}
    /\ None \notin [status : {"PR_CREATED"}, code : {""}, pull : Handlers, commit : Commit]
    /\ \A row \in EvidenceRows : row.limits \subseteq Quantity
    /\ \A q \in Requests : /\ q.change.after \in Quantity
                           /\ q.investigation \in DOMAIN BranchOf

VARIABLES
    pc,         \* next call of each handler
    body,       \* request each handler serves
    cancelled,  \* handlers whose context has ended
    observed,   \* memory limit found in the cited evidence
    verdict,    \* policy decision of each handler
    local,      \* locals of CreatePullRequest
    outcome,    \* proposal status and pull request about to be saved
    response,   \* HTTP status answered; None if the handler was killed
    ledger,     \* saved evaluations, one transaction each
    base,       \* GitHub: head commit of the base branch
    branches,   \* GitHub: remediation branches
    pulls,      \* GitHub: the pull request each handler opened
    trunk,      \* GitHub: handlers' commits reachable from the base branch
    interventions \* what people did so far, counted

handlerVars == <<pc, body, cancelled, observed, verdict, local, outcome, response>>
githubVars  == <<base, branches, pulls, trunk>>
worldVars   == <<githubVars, interventions>>
vars        == <<handlerVars, ledger, worldVars>>

NoLocals == [baseSHA |-> None, baseFile |-> None, branchSHA |-> None, commitSHA |-> None]

Init ==
    /\ pc        = [h \in Handlers |-> "idle"]
    /\ body      = [h \in Handlers |-> None]
    /\ cancelled = {}
    /\ observed  = [h \in Handlers |-> Unparsed]
    /\ verdict   = [h \in Handlers |-> None]
    /\ local     = [h \in Handlers |-> NoLocals]
    /\ outcome   = [h \in Handlers |-> None]
    /\ response  = [h \in Handlers |-> None]
    /\ ledger    = [h \in Handlers |-> None]
    /\ base      = [author |-> None, rev |-> 0, file |-> InitialFile]
    /\ branches  = [b \in Branches |-> None]
    /\ pulls     = [h \in Handlers |-> "none"]
    /\ trunk     = {}
    /\ interventions = 0
-----------------------------------------------------------------------------
Alive(h) == h \notin cancelled

(* A call returns an error when it is refused, when the context has ended, *)
(* or on a fault of the network, of the server or of the answer.           *)
Errs(h, refused) == refused \/ ~Alive(h) \/ h \in Faulty

InFlight(h) == pc[h] \notin {"idle", "done"}

Goto(h, label) == pc' = [pc EXCEPT ![h] = label]

Remember(h, field, value) == local' = [local EXCEPT ![h][field] = value]

Reply(h, status) ==
    /\ response' = [response EXCEPT ![h] = status]
    /\ Goto(h, "done")

Conclude(h, result) ==
    /\ outcome' = [outcome EXCEPT ![h] = result]
    /\ Goto(h, "save")

(* Mutant: a denial stored as if GitHub had failed.                        *)
DeniedAsFailure   == [status |-> "PR_FAILED", code |-> "", pull |-> None, commit |-> None]

(* The rows Request may save: a denial, a failed attempt with its code, or *)
(* a pull request (identified by the handler that opened it) with the      *)
(* commit recorded for it.                                                 *)
Denied            == [status |-> "POLICY_DENIED", code |-> "", pull |-> None, commit |-> None]
Failed(code)      == [status |-> "PR_FAILED", code |-> code, pull |-> None, commit |-> None]
Created(k, commit) == [status |-> "PR_CREATED", code |-> "", pull |-> k, commit |-> commit]

BranchFor(h) == BranchOf[body[h].investigation]

OpenPulls(b) == {k \in Handlers : pulls[k] = "open" /\ BranchFor(k) = b}

(* Mutant: the file is generated anew instead of patched.                  *)
PatchedFromTemplate(h, file) == [InitialFile EXCEPT !.limit = body[h].change.after]

(* GenerateMemoryLimitPatch: the one scalar is replaced.                   *)
Patched(h, file) == [file EXCEPT !.limit = body[h].change.after]
-----------------------------------------------------------------------------
(* Service.Request up to the decision                                      *)

Receive(h) ==
    /\ pc[h] = "idle"
    /\ \E q \in Requests :
         /\ body' = [body EXCEPT ![h] = q]
         /\ \/ /\ ValidRequest(q)
               /\ Goto(h, "evaluate")
               /\ UNCHANGED response
            \/ /\ ~ValidRequest(q)
               /\ Reply(h, 422)
    /\ UNCHANGED <<cancelled, observed, verdict, local, outcome, ledger, worldVars>>

CitedRows(q) ==
    {row \in EvidenceRows : /\ row.incident = q.incident
                            /\ \E i \in DOMAIN q.evidence : q.evidence[i] = row.id}

(* deploymentMemoryLimit takes the first matching record; the query has no *)
(* ORDER BY, so it may be any of them.  "limits" is empty for a record of  *)
(* another tool or resource.                                               *)
ObservedLimits(q) ==
    LET found == UNION {row.limits : row \in CitedRows(q)}
    IN  IF found = {} THEN {Unparsed} ELSE found

VerifiedRootCause(q) ==
    LET report == Report[q.investigation]
    IN  /\ report.incident = q.incident
        /\ report.status = "ROOT_CAUSE_FOUND"
        /\ report.cause # ""
        /\ SameIDs(q.evidence, report.evidence)
        /\ Cardinality(CitedRows(q)) = Len(q.evidence)

(* Mutant: the decision is recorded but not obeyed.                        *)
DecideWithoutGate(h, q) ==
    \E limit \in ObservedLimits(q) :
        /\ observed' = [observed EXCEPT ![h] = limit]
        /\ verdict' = [verdict EXCEPT ![h] =
                IF PolicyAllows(q, Report[q.investigation].cause, limit) THEN "allowed" ELSE "denied"]
        /\ Goto(h, "find_pull")
        /\ UNCHANGED outcome

Decide(h, q) ==
    \E limit \in ObservedLimits(q) :
        /\ observed' = [observed EXCEPT ![h] = limit]
        /\ \/ /\ PolicyAllows(q, Report[q.investigation].cause, limit)
              /\ verdict' = [verdict EXCEPT ![h] = "allowed"]
              /\ \/ /\ h \in Configured
                    /\ Goto(h, "find_pull")
                    /\ UNCHANGED outcome
                 \/ /\ h \notin Configured
                    /\ Conclude(h, Failed("github_not_configured"))
           \/ /\ ~PolicyAllows(q, Report[q.investigation].cause, limit)
              /\ verdict' = [verdict EXCEPT ![h] = "denied"]
              /\ Conclude(h, Denied)

(* GetInvestigation, EvidenceForRemediation, Evaluate.  A failed read or   *)
(* an unknown investigation is answered 503 and leaves nothing behind.     *)
Evaluate(h) ==
    /\ pc[h] = "evaluate"
    /\ \/ /\ Alive(h)
          /\ body[h].investigation \in DOMAIN Report
          /\ VerifiedRootCause(body[h])
          /\ Decide(h, body[h])
          /\ UNCHANGED response
       \/ /\ Alive(h)
          /\ body[h].investigation \in DOMAIN Report
          /\ ~VerifiedRootCause(body[h])
          /\ Reply(h, 422)
          /\ UNCHANGED <<observed, verdict, outcome>>
       \/ /\ Errs(h, body[h].investigation \notin DOMAIN Report)
          /\ Reply(h, 503)
          /\ UNCHANGED <<observed, verdict, outcome>>
    /\ UNCHANGED <<body, cancelled, local, ledger, worldVars>>
-----------------------------------------------------------------------------
(* Client.CreatePullRequest, one action per GitHub call.  The last disjunct *)
(* of each is the error return: a refusal by GitHub, a transport error, an  *)
(* ended context or an answer the client rejects.                           *)

callerUnchanged == <<body, cancelled, observed, verdict, response, ledger, trunk, interventions>>

Fail(h, code) == Conclude(h, Failed(code)) /\ UNCHANGED local

FindPull(h) ==
    /\ pc[h] = "find_pull"
    /\ \/ /\ Alive(h)
          /\ OpenPulls(BranchFor(h)) = {}
          /\ Goto(h, "base_ref")
          /\ UNCHANGED <<outcome, local>>
       \/ /\ Alive(h)
          /\ \E k \in OpenPulls(BranchFor(h)) :
               Conclude(h, Created(k, branches[BranchFor(h)].head))
          /\ UNCHANGED local
       \/ Errs(h, FALSE) /\ Fail(h, "github_pr_lookup_failed")
    /\ UNCHANGED <<callerUnchanged, base, branches, pulls>>

GetBaseRef(h) ==
    /\ pc[h] = "base_ref"
    /\ \/ /\ Alive(h)
          /\ Remember(h, "baseSHA", base)
          /\ Goto(h, "base_content")
          /\ UNCHANGED outcome
       \/ Errs(h, FALSE) /\ Fail(h, "github_base_ref_failed")
    /\ UNCHANGED <<callerUnchanged, base, branches, pulls>>

GetBaseContent(h) ==
    /\ pc[h] = "base_content"
    /\ \/ /\ Alive(h)
          /\ base.file.limit = body[h].change.before
          /\ Remember(h, "baseFile", base.file)
          /\ Goto(h, "find_ref")
          /\ UNCHANGED outcome
       \/ /\ Alive(h)
          /\ base.file.limit # body[h].change.before
          /\ Fail(h, "patch_not_applicable")
       \/ Errs(h, FALSE) /\ Fail(h, "github_content_read_failed")
    /\ UNCHANGED <<callerUnchanged, base, branches, pulls>>

(* Mutant: the branch is created without looking for an existing one.      *)
FindRefNever(h) ==
    /\ pc[h] = "find_ref"
    /\ Goto(h, "create_ref")
    /\ UNCHANGED <<outcome, local, callerUnchanged, base, branches, pulls>>

FindRef(h) ==
    /\ pc[h] = "find_ref"
    /\ \/ /\ Alive(h)
          /\ branches[BranchFor(h)] = None
          /\ Goto(h, "create_ref")
          /\ UNCHANGED <<outcome, local>>
       \/ /\ Alive(h)
          /\ branches[BranchFor(h)] # None
          /\ Remember(h, "branchSHA", branches[BranchFor(h)].head)
          /\ Goto(h, "branch_content")
          /\ UNCHANGED outcome
       \/ Errs(h, FALSE) /\ Fail(h, "github_branch_lookup_failed")
    /\ UNCHANGED <<callerUnchanged, base, branches, pulls>>

(* GitHub refuses to create a reference that exists.                       *)
CreateRef(h) ==
    /\ pc[h] = "create_ref"
    /\ \/ /\ Alive(h)
          /\ branches[BranchFor(h)] = None
          /\ branches' = [branches EXCEPT ![BranchFor(h)] =
                             [root |-> local[h].baseSHA, head |-> local[h].baseSHA]]
          /\ \/ Goto(h, "update_content") /\ UNCHANGED <<outcome, local>>
             \/ h \in Faulty /\ Fail(h, "github_branch_create_failed")
       \/ /\ Errs(h, branches[BranchFor(h)] # None)
          /\ Fail(h, "github_branch_create_failed")
          /\ UNCHANGED branches
    /\ UNCHANGED <<callerUnchanged, base, pulls>>

(* Mutant: a branch without the repair counts as diverged.                 *)
GetBranchContentNoResume(h) ==
    /\ pc[h] = "branch_content"
    /\ IF /\ branches[BranchFor(h)] # None
          /\ branches[BranchFor(h)].head.file = Patched(h, local[h].baseFile)
       THEN /\ Remember(h, "commitSHA", local[h].branchSHA)
            /\ Goto(h, "create_pull")
            /\ UNCHANGED outcome
       ELSE Fail(h, "github_branch_diverged")
    /\ UNCHANGED <<callerUnchanged, base, branches, pulls>>

(* The branch was found: its content decides whether a commit is needed.   *)
GetBranchContent(h) ==
    /\ pc[h] = "branch_content"
    /\ \/ /\ Alive(h)
          /\ branches[BranchFor(h)] # None
          /\ LET file == branches[BranchFor(h)].head.file
             IN  \/ /\ file = Patched(h, local[h].baseFile)
                    /\ Remember(h, "commitSHA", local[h].branchSHA)
                    /\ Goto(h, "create_pull")
                    /\ UNCHANGED outcome
                 \/ /\ file = local[h].baseFile
                    /\ Goto(h, "update_content")
                    /\ UNCHANGED <<outcome, local>>
                 \/ /\ file \notin {local[h].baseFile, Patched(h, local[h].baseFile)}
                    /\ Fail(h, "github_branch_diverged")
       \/ /\ Errs(h, branches[BranchFor(h)] = None)
          /\ Fail(h, "github_branch_content_failed")
    /\ UNCHANGED <<callerUnchanged, base, branches, pulls>>

(* Mutant: the file is written without the blob SHA it had.                *)
UpdateContentForced(h) ==
    LET commit == [author |-> h, rev |-> 0, file |-> Patched(h, local[h].baseFile)]
    IN  /\ pc[h] = "update_content"
        /\ branches[BranchFor(h)] # None
        /\ branches' = [branches EXCEPT ![BranchFor(h)].head = commit]
        /\ Remember(h, "commitSHA", commit)
        /\ Goto(h, "create_pull")
        /\ UNCHANGED <<outcome, callerUnchanged, base, pulls>>

(* GitHub commits only if the file on the branch still has the blob SHA    *)
(* the client read: in both ways to get here, that of the base content.    *)
UpdateContent(h) ==
    LET b      == BranchFor(h)
        commit == [author |-> h, rev |-> 0, file |-> Patched(h, local[h].baseFile)]
        current == branches[b] # None /\ branches[b].head.file = local[h].baseFile
    IN  /\ pc[h] = "update_content"
        /\ \/ /\ Alive(h)
              /\ current
              /\ branches' = [branches EXCEPT ![b].head = commit]
              /\ \/ /\ Remember(h, "commitSHA", commit)
                    /\ Goto(h, "create_pull")
                    /\ UNCHANGED outcome
                 \/ h \in Faulty /\ Fail(h, "github_commit_failed")
           \/ /\ Errs(h, ~current)
              /\ Fail(h, "github_commit_failed")
              /\ UNCHANGED branches
        /\ UNCHANGED <<callerUnchanged, base, pulls>>

(* GitHub opens a pull request for a branch that has commits the base      *)
(* lacks and no open pull request yet.                                     *)
Proposable(b) ==
    /\ branches[b] # None
    /\ branches[b].head.author \in Handlers \ trunk
    /\ OpenPulls(b) = {}

CreatePull(h) ==
    /\ pc[h] = "create_pull"
    /\ \/ /\ Alive(h)
          /\ Proposable(BranchFor(h))
          /\ pulls' = [pulls EXCEPT ![h] = "open"]
          /\ \/ Conclude(h, Created(h, local[h].commitSHA))
             \/ h \in Faulty /\ Goto(h, "find_pull_again") /\ UNCHANGED outcome
       \/ /\ Errs(h, ~Proposable(BranchFor(h)))
          /\ Goto(h, "find_pull_again")
          /\ UNCHANGED <<pulls, outcome>>
    /\ UNCHANGED <<callerUnchanged, local, base, branches>>

(* Mutants: an empty list of pull requests taken for an answer; the error  *)
(* code of the first look-up used for the second; a retry without a bound. *)
FindPullAgainUnchecked(h) ==
    /\ pc[h] = "find_pull_again"
    /\ Conclude(h, Created(None, None))
    /\ UNCHANGED <<local, callerUnchanged, base, branches, pulls>>

FindPullAgainSameCode(h) ==
    /\ pc[h] = "find_pull_again"
    /\ Fail(h, "github_pr_lookup_failed")
    /\ UNCHANGED <<callerUnchanged, base, branches, pulls>>

FindPullAgainForever(h) ==
    /\ pc[h] = "find_pull_again"
    /\ IF OpenPulls(BranchFor(h)) = {} \/ ~Alive(h)
       THEN Goto(h, "create_pull") /\ UNCHANGED outcome
       ELSE \E k \in OpenPulls(BranchFor(h)) :
              Conclude(h, Created(k, branches[BranchFor(h)].head))
    /\ UNCHANGED <<local, callerUnchanged, base, branches, pulls>>

FindPullAgain(h) ==
    /\ pc[h] = "find_pull_again"
    /\ \/ /\ Alive(h)
          /\ \E k \in OpenPulls(BranchFor(h)) :
               Conclude(h, Created(k, branches[BranchFor(h)].head))
          /\ UNCHANGED local
       \/ /\ Errs(h, OpenPulls(BranchFor(h)) = {})
          /\ Fail(h, "github_pr_create_failed")
    /\ UNCHANGED <<callerUnchanged, base, branches, pulls>>
-----------------------------------------------------------------------------
(* SaveRemediationEvaluation: proposal, decision, pull request and audit    *)
(* event in one transaction, on the request's own context.  The answer to   *)
(* the commit can be lost like any other.                                   *)
Save(h) ==
    /\ pc[h] = "save"
    /\ \/ /\ Alive(h)
          /\ ledger' = [ledger EXCEPT ![h] = outcome[h]]
          /\ Reply(h, 201) \/ (h \in Faulty /\ Reply(h, 503))
       \/ /\ Errs(h, FALSE)
          /\ Reply(h, 503)
          /\ UNCHANGED ledger
    /\ UNCHANGED <<body, cancelled, observed, verdict, local, outcome, worldVars>>

Cancel(h) ==
    /\ h \in Cancellable \ cancelled
    /\ InFlight(h)
    /\ cancelled' = cancelled \cup {h}
    /\ UNCHANGED <<pc, body, observed, verdict, local, outcome, response, ledger, worldVars>>

Crash(h) ==
    /\ h \in Crashable
    /\ InFlight(h)
    /\ Goto(h, "done")
    /\ UNCHANGED <<body, cancelled, observed, verdict, local, outcome, response, ledger, worldVars>>
-----------------------------------------------------------------------------
(* People at the repository                                                *)

Intervene ==
    /\ interventions < MaxInterventions
    /\ interventions' = interventions + 1
    /\ UNCHANGED <<handlerVars, ledger>>

PushToBase ==
    /\ Intervene
    /\ \E f \in HumanFiles \ {base.file} :
         base' = [author |-> None, rev |-> base.rev + 1, file |-> f]
    /\ UNCHANGED <<branches, pulls, trunk>>

(* A three-way merge of the branch into the base, by a merge commit (which *)
(* makes the branch's commit reachable from the base) or by squashing.     *)
MergePull(k) ==
    LET b == BranchFor(k)
    IN  /\ Intervene
        /\ pulls[k] = "open"
        /\ base.file.limit \in {branches[b].root.file.limit, branches[b].head.file.limit}
        /\ base' = [author |-> None, rev |-> base.rev + 1,
                    file |-> [base.file EXCEPT !.limit = branches[b].head.file.limit]]
        /\ pulls' = [pulls EXCEPT ![k] = "merged"]
        /\ \/ /\ trunk' = trunk \cup {branches[b].head.author}
              /\ branches' = [branches EXCEPT ![b].root = branches[b].head]
           \/ UNCHANGED <<trunk, branches>>

ClosePull(k) ==
    /\ Intervene
    /\ pulls[k] = "open"
    /\ pulls' = [pulls EXCEPT ![k] = "closed"]
    /\ UNCHANGED <<base, branches, trunk>>

(* Deleting a branch closes its pull request.                              *)
DeleteBranch(b) ==
    /\ Intervene
    /\ branches[b] # None
    /\ branches' = [branches EXCEPT ![b] = None]
    /\ pulls' = [k \in Handlers |-> IF k \in OpenPulls(b) THEN "closed" ELSE pulls[k]]
    /\ UNCHANGED <<base, trunk>>
-----------------------------------------------------------------------------
Step(h) ==
    \/ Receive(h) \/ Evaluate(h)
    \/ FindPull(h) \/ GetBaseRef(h) \/ GetBaseContent(h) \/ FindRef(h)
    \/ CreateRef(h) \/ GetBranchContent(h) \/ UpdateContent(h)
    \/ CreatePull(h) \/ FindPullAgain(h) \/ Save(h)

People ==
    \/ PushToBase
    \/ \E k \in Handlers : MergePull(k) \/ ClosePull(k)
    \/ \E b \in Branches : DeleteBranch(b)

(* Every request has been answered: nothing is left to do.                 *)
Quiescent == (\A h \in Handlers : pc[h] = "done") /\ UNCHANGED vars

Next ==
    \/ \E h \in Handlers : Step(h) \/ Cancel(h) \/ Crash(h)
    \/ People
    \/ Quiescent

(* Each call is bounded by the HTTP client's 12 s timeout and the 45 s     *)
(* request deadline, so a handler that has started never stops between two *)
(* calls.  Nothing forces a client to send, or a person to act.            *)
Fairness == \A h \in Handlers : WF_vars(Step(h) /\ InFlight(h))

Spec == Init /\ [][Next]_vars /\ Fairness
=============================================================================
