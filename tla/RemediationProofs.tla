------------------------- MODULE RemediationProofs -------------------------
(***************************************************************************)
(* Machine-checked facts about the remediation pipeline, for every set of  *)
(* handlers, every investigation and evidence table and every request.     *)
(***************************************************************************)
EXTENDS RemediationInvariant, RemediationRefinement, TLAPS

(* Constants, as the solver wants them.                                    *)
LEMMA BoundIsNatural == MaxInterventions \in Nat
BY ConstantsAssumption

LEMMA NoneIsNoHandler == None \notin Handlers
BY ConstantsAssumption

(***************************************************************************)
(* The policy, for any request whatever: what an allowed proposal is.      *)
(***************************************************************************)
LEMMA AllowedMeansNoReason ==
    ASSUME NEW input, Allowed(input)
    PROVE  /\ input.environment = "development"
           /\ input.repositoryAllowed
           /\ input.pathAllowed
           /\ ~input.protectedNamespace
           /\ ~input.secretTarget
           /\ input.rootCause = "memory_limit_oom"
           /\ input.operation = "update_resource_limit"
           /\ input.targetKind = "Deployment"
           /\ input.targetName = "payments-api"
           /\ input.container = "payments-api"
           /\ input.field = "memory_limit"
           /\ input.resourceChangeSafe
BY DEF Allowed, DenyReasons, Because

(***************************************************************************)
(* Whatever a client sends, an allowed proposal replaces the memory limit  *)
(* of the payments-api Deployment in the configured file of the configured *)
(* repository, from the value found in stored evidence to a larger one of  *)
(* at most 512 MiB and at most four times as much.                         *)
(***************************************************************************)
THEOREM AllowedIsBoundedRepair ==
    ASSUME NEW q, NEW cause, NEW limit, PolicyAllows(q, cause, limit)
    PROVE  /\ Environment = "development"
           /\ cause = "memory_limit_oom"
           /\ q.target.repository = Repository
           /\ q.target.path = AllowedPath
           /\ q.target.namespace = "incidentpilot-demo"
           /\ q.target.kind = "Deployment"
           /\ q.target.name = "payments-api"
           /\ q.target.container = "payments-api"
           /\ q.operation = "update_resource_limit"
           /\ q.change.field = "memory_limit"
           /\ q.change.before = limit
           /\ q.change.after > limit
           /\ q.change.after <= 512
           /\ q.change.after <= limit * 4
           /\ ResourceChangeSafe(q.change.before, q.change.after, limit)
<1> DEFINE input == DerivePolicyInput(q, cause, limit)
<1>1. Allowed(input)
  BY DEF PolicyAllows
<1>2. /\ input.environment = "development"
      /\ input.repositoryAllowed
      /\ input.pathAllowed
      /\ ~input.protectedNamespace
      /\ input.rootCause = "memory_limit_oom"
      /\ input.operation = "update_resource_limit"
      /\ input.targetKind = "Deployment"
      /\ input.targetName = "payments-api"
      /\ input.container = "payments-api"
      /\ input.field = "memory_limit"
      /\ input.resourceChangeSafe
  <2> HIDE DEF input
  <2> QED BY <1>1, AllowedMeansNoReason
<1>3. ResourceChangeSafe(q.change.before, q.change.after, limit)
  BY <1>2 DEF DerivePolicyInput
<1> QED
  BY <1>2, <1>3 DEF DerivePolicyInput, ResourceChangeSafe

LEMMA DeniedRow == Denied.status = "POLICY_DENIED" /\ Denied.code = ""
BY DEF Denied

LEMMA CreatedRowNamesHandler ==
    ASSUME NEW row \in Row, row.status = "PR_CREATED"
    PROVE  row.pull \in Handlers
<1>1. row # Denied
  BY DeniedRow
<1>2. \A code : row # Failed(code)
  BY DEF Failed
<1> QED
  BY <1>1, <1>2 DEF Row

(***************************************************************************)
(* A step of handler h in CreatePullRequest: it changes the handler's      *)
(* program counter, locals and result, and perhaps branches and pulls.     *)
(***************************************************************************)
HandlerStep(h) ==
    /\ \E label \in Labels : pc' = [pc EXCEPT ![h] = label]
    /\ \E value \in Locals : local' = [local EXCEPT ![h] = value]
    /\ \E row \in Row \cup {None} : outcome' = [outcome EXCEPT ![h] = row]
    /\ UNCHANGED <<callerUnchanged, base>>

(* Such a step preserves the invariant if it leaves no trace of another     *)
(* handler, undoes no pull request, and what it wrote is as it should be.   *)
LEMMA HandlerStepPreserves ==
    ASSUME IInv, NEW h \in Handlers, HandlerStep(h),
           ControlInv(h)', LocalInv(h)', EffectInv(h)',
           branches' \in [Branches -> Branch \cup {None}],
           pulls' \in [Handlers -> {"none", "open", "merged", "closed"}],
           \A k \in Handlers \ {h} : pulls'[k] = pulls[k] /\ (Wrote(k)' => Wrote(k)),
           pulls[h] # "none" => pulls'[h] # "none",
           \A k \in Handlers : PullInv(k)',
           \A b \in Branches : BranchInv(b)'
    PROVE  IInv'
<1>1. TypeOK'
  <2>1. pc' \in [Handlers -> Labels]
    BY DEF IInv, TypeOK, HandlerStep
  <2>2. local' \in [Handlers -> Locals]
    BY DEF IInv, TypeOK, HandlerStep
  <2>3. outcome' \in [Handlers -> Row \cup {None}]
    BY DEF IInv, TypeOK, HandlerStep
  <2>4. /\ body' \in [Handlers -> Requests \cup {None}]
        /\ cancelled' \subseteq Handlers
        /\ observed' \in [Handlers -> Quantity]
        /\ verdict' \in [Handlers -> {None, "allowed", "denied"}]
        /\ response' \in [Handlers -> {None, 201, 422, 503}]
        /\ ledger' \in [Handlers -> Row \cup {None}]
        /\ base' \in Commit
        /\ trunk' \subseteq Handlers
        /\ interventions' \in 0..MaxInterventions
    BY DEF IInv, TypeOK, HandlerStep, callerUnchanged
  <2> QED
    BY <2>1, <2>2, <2>3, <2>4 DEF TypeOK
<1>2. UNCHANGED <<body, observed, verdict, ledger, base, trunk>>
  BY DEF HandlerStep, callerUnchanged
<1>3. \A k \in Handlers \ {h} : /\ pc'[k] = pc[k]
                                /\ local'[k] = local[k]
                                /\ outcome'[k] = outcome[k]
  BY DEF IInv, TypeOK, HandlerStep
<1>4. \A k \in Handlers \ {h} : ControlInv(k)' /\ LocalInv(k)'
  BY <1>2, <1>3 DEF IInv, ControlInv, LocalInv
<1>5. ASSUME NEW k \in Handlers \ {h}, NEW row \in Row, RowTrue(row, k)
      PROVE  RowTrue(row, k)'
  <2>1. row.status = "PR_CREATED" => row.pull \in Handlers
    BY CreatedRowNamesHandler
  <2> QED
    BY <1>2, <1>5, <2>1 DEF RowTrue, BranchFor
<1>6. ASSUME NEW k \in Handlers \ {h}
      PROVE  EffectInv(k)'
  BY <1>2, <1>3, <1>5 DEF IInv, EffectInv
<1>7. \A k \in Handlers : VerdictInv(k)'
  BY <1>2 DEF IInv, VerdictInv
<1>8. base'.author = None /\ BaseLimitWasApproved'
  BY <1>2 DEF IInv, BaseLimitWasApproved
<1> QED
  BY <1>1, <1>4, <1>6, <1>7, <1>8 DEF IInv

(* A step that only reads.                                                  *)
QuietStep(h) == HandlerStep(h) /\ UNCHANGED <<branches, pulls>>

LEMMA QuietStepPreserves ==
    ASSUME IInv, NEW h \in Handlers, QuietStep(h),
           ControlInv(h)', LocalInv(h)', EffectInv(h)'
    PROVE  IInv'
<1>1. UNCHANGED <<body, verdict, branches, pulls, trunk>> /\ HandlerStep(h)
  BY DEF QuietStep, HandlerStep, callerUnchanged
<1>2. \A k \in Handlers : Wrote(k)' => Wrote(k)
  BY <1>1 DEF Wrote
<1>3. \A k \in Handlers : PullInv(k)'
  BY <1>1 DEF IInv, PullInv, BranchFor
<1>4. \A b \in Branches : BranchInv(b)'
  BY <1>1 DEF IInv, BranchInv, BranchFor
<1> QED
  BY <1>1, <1>2, <1>3, <1>4, HandlerStepPreserves DEF IInv, TypeOK

(***************************************************************************)
(* The rows and locals the GitHub calls produce are well-typed.            *)
(***************************************************************************)
LEMMA RowTypes ==
    /\ Denied \in Row
    /\ \A code \in ReadFailures \cup WriteFailures : Failed(code) \in Row
    /\ \A k \in Handlers, c \in Commit : Created(k, c) \in Row
BY DEF Row, Created

(***************************************************************************)
(* A row stands for the truth when it is made: a failure before the first  *)
(* write for a handler that wrote nothing, a later failure for an allowed  *)
(* one, a pull request found open on the handler's own branch.             *)
(***************************************************************************)
LEMMA FailedRowTrue ==
    ASSUME NEW h \in Handlers, verdict[h] = "allowed",
           NEW code, code \in WriteFailures \/ ~Wrote(h)
    PROVE  RowTrue(Failed(code), h)
BY DEF RowTrue, Failed, WriteFailures, ReadFailures

LEMMA CreatedRowTrue ==
    ASSUME IInv, NEW h \in Handlers, verdict[h] = "allowed",
           NEW k \in Handlers, pulls[k] # "none", BranchFor(k) = BranchFor(h), NEW c
    PROVE  RowTrue(Created(k, c), h)
<1>1. verdict[k] = "allowed"
  BY DEF IInv, EffectInv, Wrote
<1> QED
  BY <1>1 DEF RowTrue, Created, ReadFailures

(***************************************************************************)
(* A handler in CreatePullRequest that ends it with a true row.            *)
(***************************************************************************)
LEMMA ConcludeStep ==
    ASSUME IInv, NEW h \in Handlers, pc[h] \in InGitHub,
           NEW row \in Row, RowTrue(row, h)',
           Conclude(h, row), UNCHANGED local, UNCHANGED <<callerUnchanged, base>>
    PROVE  HandlerStep(h) /\ ControlInv(h)' /\ LocalInv(h)' /\ EffectInv(h)'
<1>1. body[h] \in Requests /\ ledger[h] = None
  BY DEF IInv, ControlInv, InGitHub, BeforeCommit
<1>2. verdict[h] = "allowed"
  BY DEF IInv, ControlInv
<1>3. /\ pc' = [pc EXCEPT ![h] = "save"]
      /\ outcome' = [outcome EXCEPT ![h] = row]
      /\ UNCHANGED <<body, verdict, ledger>>
  BY DEF Conclude, Goto, callerUnchanged
<1>4. pc'[h] = "save" /\ outcome'[h] = row
  BY <1>3 DEF IInv, TypeOK
<1>5. local' = [local EXCEPT ![h] = local[h]] /\ local[h] \in Locals
  BY DEF IInv, TypeOK
<1>6. HandlerStep(h)
  BY <1>3, <1>5 DEF HandlerStep, Labels, callerUnchanged
<1>7. ControlInv(h)' /\ LocalInv(h)'
  BY <1>1, <1>2, <1>3, <1>4
     DEF ControlInv, LocalInv, InGitHub, BeforeCommit, BaseRefRead, ContentRead
<1>8. EffectInv(h)'
  BY <1>1, <1>2, <1>3, <1>4 DEF EffectInv, BeforeCommit
<1> QED
  BY <1>6, <1>7, <1>8

LEMMA ConcludePreserves ==
    ASSUME IInv, NEW h \in Handlers, pc[h] \in InGitHub,
           NEW row \in Row, RowTrue(row, h),
           Conclude(h, row), UNCHANGED local,
           UNCHANGED <<callerUnchanged, base, branches, pulls>>
    PROVE  IInv'
<1>1. RowTrue(row, h)'
  BY DEF RowTrue, Wrote, BranchFor, callerUnchanged
<1> QED
  BY <1>1, ConcludeStep, QuietStepPreserves DEF QuietStep

(* Every error return of CreatePullRequest.                                *)
LEMMA FailPreserves ==
    ASSUME IInv, NEW h \in Handlers, NEW code \in ReadFailures \cup WriteFailures,
           pc[h] \in InGitHub, code \in WriteFailures \/ pc[h] \in BeforeCommit,
           Fail(h, code), UNCHANGED <<callerUnchanged, base, branches, pulls>>
    PROVE  IInv'
<1>1. verdict[h] = "allowed" /\ (code \in WriteFailures \/ ~Wrote(h))
  BY DEF IInv, ControlInv, EffectInv
<1>2. RowTrue(Failed(code), h)
  BY <1>1, FailedRowTrue
<1> QED
  BY <1>2, RowTypes, ConcludePreserves DEF Fail

(* A pull request found on the handler's branch becomes its result.        *)
LEMMA FoundPullPreserves ==
    ASSUME IInv, NEW h \in Handlers, pc[h] \in InGitHub,
           NEW k \in OpenPulls(BranchFor(h)),
           Conclude(h, Created(k, branches[BranchFor(h)].head)), UNCHANGED local,
           UNCHANGED <<callerUnchanged, base, branches, pulls>>
    PROVE  IInv'
<1>1. verdict[h] = "allowed" /\ body[h] \in Requests
  BY DEF IInv, ControlInv, InGitHub, BeforeCommit
<1>2. k \in Handlers /\ pulls[k] = "open" /\ BranchFor(k) = BranchFor(h)
  BY DEF OpenPulls
<1>3. branches[BranchFor(h)].head \in Commit
  <2>1. BranchFor(h) \in Branches
    BY <1>1, ConstantsAssumption DEF BranchFor, Branches
  <2>2. branches[BranchFor(h)] # None
    BY <1>2 DEF IInv, PullInv
  <2> QED BY <2>1, <2>2 DEF IInv, TypeOK, Branch
<1> PICK row : row = Created(k, branches[BranchFor(h)].head)
  OBVIOUS
<1>4. row \in Row
  BY <1>2, <1>3, RowTypes
<1>5. RowTrue(row, h)
  BY <1>1, <1>2, CreatedRowTrue
<1> QED
  BY <1>4, <1>5, ConcludePreserves

(***************************************************************************)
(* A handler that goes on to its next call.                                *)
(***************************************************************************)
LEMMA AdvanceStep ==
    ASSUME IInv, NEW h \in Handlers, pc[h] \in InGitHub,
           NEW label \in InGitHub, label \in BeforeCommit => ~Wrote(h)',
           label = "create_pull" => pulls'[h] = "none",
           NEW value \in Locals, Goto(h, label), local' = [local EXCEPT ![h] = value],
           label \in BaseRefRead => value.baseSHA \in Commit /\ value.baseSHA.author = None,
           label \in ContentRead => value.baseFile \in File,
           label = "branch_content" => value.branchSHA \in Commit,
           label = "create_pull" => value.commitSHA \in Commit,
           UNCHANGED <<outcome, callerUnchanged, base>>
    PROVE  HandlerStep(h) /\ ControlInv(h)' /\ LocalInv(h)' /\ EffectInv(h)'
<1>1. body[h] \in Requests /\ ledger[h] = None
  BY DEF IInv, ControlInv, InGitHub, BeforeCommit
<1>2. verdict[h] = "allowed"
  BY DEF IInv, ControlInv
<1>3. /\ pc' = [pc EXCEPT ![h] = label]
      /\ outcome' = [outcome EXCEPT ![h] = outcome[h]]
      /\ outcome[h] \in Row \cup {None}
      /\ UNCHANGED <<body, verdict, ledger>>
  BY DEF Goto, callerUnchanged, IInv, TypeOK
<1>4. pc'[h] = label /\ local'[h] = value
  BY <1>3 DEF IInv, TypeOK
<1>5. label \in Labels
  BY DEF InGitHub, BeforeCommit, Labels
<1>6. HandlerStep(h)
  BY <1>3, <1>5 DEF HandlerStep, callerUnchanged
<1>7. ControlInv(h)'
  BY <1>1, <1>2, <1>3, <1>4 DEF ControlInv, InGitHub, BeforeCommit
<1>8. LocalInv(h)'
  BY <1>4 DEF LocalInv
<1>9. EffectInv(h)'
  BY <1>1, <1>2, <1>3, <1>4 DEF EffectInv, InGitHub, BeforeCommit
<1> QED
  BY <1>6, <1>7, <1>8, <1>9

LEMMA AdvancePreserves ==
    ASSUME IInv, NEW h \in Handlers, pc[h] \in InGitHub,
           NEW label \in InGitHub, label \in BeforeCommit => ~Wrote(h),
           label = "create_pull" => pulls[h] = "none",
           NEW value \in Locals, Goto(h, label), local' = [local EXCEPT ![h] = value],
           label \in BaseRefRead => value.baseSHA \in Commit /\ value.baseSHA.author = None,
           label \in ContentRead => value.baseFile \in File,
           label = "branch_content" => value.branchSHA \in Commit,
           label = "create_pull" => value.commitSHA \in Commit,
           UNCHANGED <<outcome, callerUnchanged, base, branches, pulls>>
    PROVE  IInv'
<1>1. Wrote(h)' = Wrote(h)
  BY DEF Wrote, callerUnchanged
<1>2. HandlerStep(h) /\ ControlInv(h)' /\ LocalInv(h)' /\ EffectInv(h)'
  BY <1>1, AdvanceStep
<1> QED
  BY <1>2, QuietStepPreserves DEF QuietStep

-----------------------------------------------------------------------------
(* The calls of CreatePullRequest that only read.                          *)

LEMMA FindPullPreserves == ASSUME IInv, NEW h \in Handlers, FindPull(h) PROVE IInv'
<1>1. pc[h] = "find_pull" /\ pc[h] \in InGitHub /\ pc[h] \in BeforeCommit
  BY DEF FindPull, InGitHub, BeforeCommit
<1>2. UNCHANGED <<callerUnchanged, base, branches, pulls>>
  BY DEF FindPull
<1>3. CASE Goto(h, "base_ref") /\ UNCHANGED <<outcome, local>>
  <2>1. PICK value \in Locals : value = local[h] /\ local' = [local EXCEPT ![h] = value]
    BY <1>3 DEF IInv, TypeOK
  <2>2. ~Wrote(h)
    BY <1>1 DEF IInv, EffectInv
  <2> QED
    BY <1>1, <1>2, <1>3, <2>1, <2>2, AdvancePreserves
       DEF InGitHub, BeforeCommit, BaseRefRead, ContentRead
<1>4. CASE /\ \E k \in OpenPulls(BranchFor(h)) :
                 Conclude(h, Created(k, branches[BranchFor(h)].head))
           /\ UNCHANGED local
  BY <1>1, <1>2, <1>4, FoundPullPreserves
<1>5. CASE Fail(h, "github_pr_lookup_failed")
  BY <1>1, <1>2, <1>5, FailPreserves DEF ReadFailures
<1> QED
  BY <1>3, <1>4, <1>5 DEF FindPull

LEMMA GetBaseRefPreserves == ASSUME IInv, NEW h \in Handlers, GetBaseRef(h) PROVE IInv'
<1>1. pc[h] = "base_ref" /\ pc[h] \in InGitHub /\ pc[h] \in BeforeCommit
  BY DEF GetBaseRef, InGitHub, BeforeCommit
<1>2. UNCHANGED <<callerUnchanged, base, branches, pulls>>
  BY DEF GetBaseRef
<1>3. CASE Remember(h, "baseSHA", base) /\ Goto(h, "base_content") /\ UNCHANGED outcome
  <2>1. PICK value : value = [local[h] EXCEPT !.baseSHA = base]
    OBVIOUS
  <2>2. base \in Commit /\ base.author = None /\ local[h] \in Locals
    BY DEF IInv, TypeOK
  <2>3. value \in Locals /\ value.baseSHA = base
    BY <2>1, <2>2 DEF Locals
  <2>4. local' = [local EXCEPT ![h] = value]
    BY <1>3, <2>1 DEF Remember, IInv, TypeOK
  <2>5. ~Wrote(h)
    BY <1>1 DEF IInv, EffectInv
  <2> QED
    BY <1>1, <1>2, <1>3, <2>2, <2>3, <2>4, <2>5, AdvancePreserves
       DEF InGitHub, BeforeCommit, BaseRefRead, ContentRead
<1>4. CASE Fail(h, "github_base_ref_failed")
  BY <1>1, <1>2, <1>4, FailPreserves DEF ReadFailures
<1> QED
  BY <1>3, <1>4 DEF GetBaseRef

LEMMA GetBaseContentPreserves == ASSUME IInv, NEW h \in Handlers, GetBaseContent(h) PROVE IInv'
<1>1. pc[h] = "base_content" /\ pc[h] \in InGitHub /\ pc[h] \in BeforeCommit
  BY DEF GetBaseContent, InGitHub, BeforeCommit
<1>2. UNCHANGED <<callerUnchanged, base, branches, pulls>>
  BY DEF GetBaseContent
<1>3. CASE /\ Remember(h, "baseFile", base.file)
           /\ Goto(h, "find_ref") /\ UNCHANGED outcome
  <2>1. PICK value : value = [local[h] EXCEPT !.baseFile = base.file]
    OBVIOUS
  <2>2. base.file \in File /\ local[h] \in Locals
    BY DEF IInv, TypeOK, Commit
  <2>3. /\ value \in Locals
        /\ value.baseFile \in File
        /\ value.baseSHA = local[h].baseSHA
    BY <2>1, <2>2 DEF Locals
  <2>4. local' = [local EXCEPT ![h] = value]
    BY <1>3, <2>1 DEF Remember, IInv, TypeOK
  <2>5. ~Wrote(h) /\ local[h].baseSHA \in Commit /\ local[h].baseSHA.author = None
    BY <1>1 DEF IInv, EffectInv, LocalInv, BaseRefRead
  <2> QED
    BY <1>1, <1>2, <1>3, <2>3, <2>4, <2>5, AdvancePreserves
       DEF InGitHub, BeforeCommit, BaseRefRead, ContentRead
<1>4. CASE Fail(h, "patch_not_applicable")
  BY <1>1, <1>2, <1>4, FailPreserves DEF ReadFailures
<1>5. CASE Fail(h, "github_content_read_failed")
  BY <1>1, <1>2, <1>5, FailPreserves DEF ReadFailures
<1> QED
  BY <1>3, <1>4, <1>5 DEF GetBaseContent

LEMMA BranchForIsBranch ==
    ASSUME NEW h \in Handlers, body[h] \in Requests
    PROVE  BranchFor(h) \in Branches
BY ConstantsAssumption DEF BranchFor, Branches

LEMMA FindRefPreserves == ASSUME IInv, NEW h \in Handlers, FindRef(h) PROVE IInv'
<1>1. pc[h] = "find_ref" /\ pc[h] \in InGitHub /\ pc[h] \in BeforeCommit
  BY DEF FindRef, InGitHub, BeforeCommit
<1>2. UNCHANGED <<callerUnchanged, base, branches, pulls>>
  BY DEF FindRef
<1>3. /\ ~Wrote(h) /\ body[h] \in Requests /\ local[h] \in Locals
      /\ local[h].baseSHA \in Commit /\ local[h].baseSHA.author = None
      /\ local[h].baseFile \in File
  BY <1>1 DEF IInv, TypeOK, ControlInv, EffectInv, LocalInv, BaseRefRead, ContentRead
<1>4. CASE Goto(h, "create_ref") /\ UNCHANGED <<outcome, local>>
  <2>1. PICK value : value = local[h] /\ local' = [local EXCEPT ![h] = value]
    BY <1>4 DEF IInv, TypeOK
  <2> QED
    BY <1>1, <1>2, <1>3, <1>4, <2>1, AdvancePreserves
       DEF InGitHub, BeforeCommit, BaseRefRead, ContentRead
<1>5. CASE /\ branches[BranchFor(h)] # None
           /\ Remember(h, "branchSHA", branches[BranchFor(h)].head)
           /\ Goto(h, "branch_content") /\ UNCHANGED outcome
  <2>1. PICK value : value = [local[h] EXCEPT !.branchSHA = branches[BranchFor(h)].head]
    OBVIOUS
  <2>2. branches[BranchFor(h)].head \in Commit
    BY <1>3, <1>5, BranchForIsBranch DEF IInv, TypeOK, Branch
  <2>3. /\ value \in Locals
        /\ value.branchSHA \in Commit
        /\ value.baseSHA = local[h].baseSHA
        /\ value.baseFile = local[h].baseFile
    BY <1>3, <2>1, <2>2 DEF Locals
  <2>4. local' = [local EXCEPT ![h] = value]
    BY <1>5, <2>1 DEF Remember, IInv, TypeOK
  <2> QED
    BY <1>1, <1>2, <1>3, <1>5, <2>3, <2>4, AdvancePreserves
       DEF InGitHub, BeforeCommit, BaseRefRead, ContentRead
<1>6. CASE Fail(h, "github_branch_lookup_failed")
  BY <1>1, <1>2, <1>6, FailPreserves DEF ReadFailures
<1> QED
  BY <1>4, <1>5, <1>6 DEF FindRef

LEMMA GetBranchContentPreserves ==
    ASSUME IInv, NEW h \in Handlers, GetBranchContent(h) PROVE IInv'
<1>1. pc[h] = "branch_content" /\ pc[h] \in InGitHub /\ pc[h] \in BeforeCommit
  BY DEF GetBranchContent, InGitHub, BeforeCommit
<1>2. UNCHANGED <<callerUnchanged, base, branches, pulls>>
  BY DEF GetBranchContent
<1>3. /\ ~Wrote(h) /\ pulls[h] = "none" /\ local[h] \in Locals
      /\ local[h].baseSHA \in Commit /\ local[h].baseSHA.author = None
      /\ local[h].baseFile \in File
      /\ local[h].branchSHA \in Commit
  BY <1>1 DEF IInv, TypeOK, ControlInv, EffectInv, LocalInv, BaseRefRead, ContentRead, Wrote
<1>4. CASE /\ Remember(h, "commitSHA", local[h].branchSHA)
           /\ Goto(h, "create_pull") /\ UNCHANGED outcome
  <2>1. PICK value : value = [local[h] EXCEPT !.commitSHA = local[h].branchSHA]
    OBVIOUS
  <2>2. value \in Locals /\ value.commitSHA \in Commit
    BY <1>3, <2>1 DEF Locals
  <2>3. local' = [local EXCEPT ![h] = value]
    BY <1>4, <2>1 DEF Remember, IInv, TypeOK
  <2> QED
    BY <1>1, <1>2, <1>3, <1>4, <2>2, <2>3, AdvancePreserves
       DEF InGitHub, BeforeCommit, BaseRefRead, ContentRead
<1>5. CASE Goto(h, "update_content") /\ UNCHANGED <<outcome, local>>
  <2>1. PICK value : value = local[h] /\ local' = [local EXCEPT ![h] = value]
    BY <1>5 DEF IInv, TypeOK
  <2> QED
    BY <1>1, <1>2, <1>3, <1>5, <2>1, AdvancePreserves
       DEF InGitHub, BeforeCommit, BaseRefRead, ContentRead
<1>6. CASE Fail(h, "github_branch_diverged")
  BY <1>1, <1>2, <1>6, FailPreserves DEF ReadFailures
<1>7. CASE Fail(h, "github_branch_content_failed")
  BY <1>1, <1>2, <1>7, FailPreserves DEF ReadFailures
<1> QED
  BY <1>4, <1>5, <1>6, <1>7 DEF GetBranchContent

LEMMA FindPullAgainPreserves == ASSUME IInv, NEW h \in Handlers, FindPullAgain(h) PROVE IInv'
<1>1. pc[h] \in InGitHub
  BY DEF FindPullAgain, InGitHub
<1>2. UNCHANGED <<callerUnchanged, base, branches, pulls>>
  BY DEF FindPullAgain
<1>3. CASE /\ \E k \in OpenPulls(BranchFor(h)) :
                 Conclude(h, Created(k, branches[BranchFor(h)].head))
           /\ UNCHANGED local
  BY <1>1, <1>2, <1>3, FoundPullPreserves
<1>4. CASE Fail(h, "github_pr_create_failed")
  BY <1>1, <1>2, <1>4, FailPreserves DEF WriteFailures
<1> QED
  BY <1>3, <1>4 DEF FindPullAgain

-----------------------------------------------------------------------------
(* The calls of CreatePullRequest that write.                              *)

(* A failure after a write, or a refused write.                            *)
LEMMA RefusedWritePreserves ==
    ASSUME IInv, NEW h \in Handlers, NEW code \in WriteFailures, pc[h] \in InGitHub,
           Fail(h, code), UNCHANGED <<callerUnchanged, base, branches, pulls>>
    PROVE  IInv'
BY FailPreserves

LEMMA CreateRefPreserves == ASSUME IInv, NEW h \in Handlers, CreateRef(h) PROVE IInv'
<1> DEFINE b == BranchFor(h)
<1>1. pc[h] = "create_ref" /\ pc[h] \in InGitHub /\ UNCHANGED <<callerUnchanged, base, pulls>>
  BY DEF CreateRef, InGitHub, BeforeCommit
<1>2. /\ ~Wrote(h) /\ body[h] \in Requests /\ ledger[h] = None /\ verdict[h] = "allowed"
      /\ local[h] \in Locals
      /\ local[h].baseSHA \in Commit /\ local[h].baseSHA.author = None
      /\ local[h].baseFile \in File
  BY <1>1 DEF IInv, TypeOK, ControlInv, EffectInv, LocalInv, InGitHub, BeforeCommit,
              BaseRefRead, ContentRead
<1>3. b \in Branches
  BY <1>2, BranchForIsBranch
<1>4. CASE Fail(h, "github_branch_create_failed") /\ UNCHANGED branches
  BY <1>1, <1>4, RefusedWritePreserves DEF WriteFailures
<1>5. CASE /\ branches[b] = None
           /\ branches' = [branches EXCEPT ![b] =
                             [root |-> local[h].baseSHA, head |-> local[h].baseSHA]]
           /\ \/ Goto(h, "update_content") /\ UNCHANGED <<outcome, local>>
              \/ Fail(h, "github_branch_create_failed")
  <2> HIDE DEF b
  <2>1. /\ branches' \in [Branches -> Branch \cup {None}]
        /\ branches'[b] = [root |-> local[h].baseSHA, head |-> local[h].baseSHA]
        /\ \A c \in Branches \ {b} : branches'[c] = branches[c]
        /\ pulls' \in [Handlers -> {"none", "open", "merged", "closed"}]
    BY <1>1, <1>2, <1>3, <1>5 DEF IInv, TypeOK, Branch
  <2>2. UNCHANGED <<body, verdict, ledger, pulls, trunk>>
    BY <1>1 DEF callerUnchanged
  <2>3. \A k \in Handlers : Wrote(k)' => Wrote(k)
    <3>1. branches'[b].head.author \notin Handlers
      BY <1>2, <2>1, NoneIsNoHandler
    <3> QED BY <2>1, <2>2, <3>1 DEF Wrote
  <2>4. ASSUME NEW k \in Handlers PROVE PullInv(k)'
    <3>1. pulls[k] = "open" => body[k] \in Requests /\ BranchFor(k) # b /\ branches[BranchFor(k)] # None
      <4>1. pulls[k] = "open" => verdict[k] = "allowed"
        BY DEF IInv, EffectInv, Wrote
      <4> QED
        BY <1>5, <4>1 DEF IInv, PullInv, VerdictInv
    <3>2. \A j \in Handlers : BranchFor(j)' = BranchFor(j)
      BY <2>2 DEF BranchFor
    <3>3. pulls[k] = "open" => branches'[BranchFor(k)] = branches[BranchFor(k)]
      BY <2>1, <3>1, BranchForIsBranch
    <3> QED
      BY <2>2, <3>1, <3>2, <3>3 DEF IInv, PullInv
  <2>5. ASSUME NEW c \in Branches PROVE BranchInv(c)'
    <3>1. CASE c = b
      BY <1>2, <2>1, <3>1, NoneIsNoHandler DEF BranchInv
    <3>2. CASE c # b
      BY <2>1, <2>2, <3>2 DEF IInv, BranchInv, BranchFor
    <3> QED BY <3>1, <3>2
  <2>6. CASE Goto(h, "update_content") /\ UNCHANGED <<outcome, local>>
    <3> PICK value \in Locals : value = local[h] /\ local' = [local EXCEPT ![h] = value]
      BY <2>6 DEF IInv, TypeOK
    <3>1. HandlerStep(h) /\ ControlInv(h)' /\ LocalInv(h)' /\ EffectInv(h)'
      BY <1>1, <1>2, <2>3, <2>6, AdvanceStep
         DEF InGitHub, BeforeCommit, BaseRefRead, ContentRead
    <3> QED
      BY <2>1, <2>2, <2>3, <2>4, <2>5, <3>1, HandlerStepPreserves
  <2>7. CASE Fail(h, "github_branch_create_failed")
    <3> PICK row : row = Failed("github_branch_create_failed")
      OBVIOUS
    <3>1. row \in Row /\ RowTrue(row, h)'
      BY <1>2, <2>2, RowTypes DEF WriteFailures, RowTrue, Failed, ReadFailures
    <3>2. HandlerStep(h) /\ ControlInv(h)' /\ LocalInv(h)' /\ EffectInv(h)'
      BY <1>1, <2>7, <3>1, ConcludeStep DEF Fail
    <3> QED
      BY <2>1, <2>2, <2>3, <2>4, <2>5, <3>2, HandlerStepPreserves
  <2> QED
    BY <1>5, <2>6, <2>7
<1> QED
  BY <1>4, <1>5 DEF CreateRef

LEMMA UpdateContentPreserves ==
    ASSUME IInv, NEW h \in Handlers, UpdateContent(h) PROVE IInv'
<1> DEFINE b == BranchFor(h)
           commit == [author |-> h, rev |-> 0, file |-> Patched(h, local[h].baseFile)]
<1>1. /\ pc[h] = "update_content" /\ pc[h] \in InGitHub
      /\ UNCHANGED <<callerUnchanged, base, pulls>>
  BY DEF UpdateContent, InGitHub, BeforeCommit
<1>2. /\ ~Wrote(h) /\ body[h] \in Requests /\ ledger[h] = None /\ verdict[h] = "allowed"
      /\ local[h] \in Locals /\ local[h].baseFile \in File /\ pulls[h] = "none"
  BY <1>1 DEF IInv, TypeOK, ControlInv, EffectInv, LocalInv, InGitHub, BeforeCommit,
              ContentRead, Wrote
<1>3. b \in Branches
  BY <1>2, BranchForIsBranch
<1>4. /\ commit \in Commit
      /\ commit.author = h
      /\ commit.file.limit = body[h].change.after
      /\ commit.file.rest = local[h].baseFile.rest
  BY <1>2, ConstantsAssumption DEF Commit, File, Patched
<1>5. CASE Fail(h, "github_commit_failed") /\ UNCHANGED branches
  BY <1>1, <1>5, RefusedWritePreserves DEF WriteFailures
<1>6. CASE /\ branches[b] # None /\ branches[b].head.file = local[h].baseFile
           /\ branches' = [branches EXCEPT ![b].head = commit]
           /\ \/ /\ Remember(h, "commitSHA", commit)
                 /\ Goto(h, "create_pull") /\ UNCHANGED outcome
              \/ Fail(h, "github_commit_failed")
  <2> HIDE DEF b, commit
  <2>1. /\ branches[b] \in Branch
        /\ branches' \in [Branches -> Branch \cup {None}]
        /\ branches'[b] = [branches[b] EXCEPT !.head = commit]
        /\ branches'[b] \in Branch
        /\ \A c \in Branches \ {b} : branches'[c] = branches[c]
        /\ pulls' \in [Handlers -> {"none", "open", "merged", "closed"}]
    BY <1>1, <1>3, <1>4, <1>6 DEF IInv, TypeOK, Branch
  <2>2. UNCHANGED <<body, verdict, ledger, pulls, trunk>>
    BY <1>1 DEF callerUnchanged
  <2>3. branches'[b].head = commit /\ branches'[b].root = branches[b].root
    BY <2>1 DEF Branch
  <2>4. ASSUME NEW k \in Handlers \ {h} PROVE Wrote(k)' => Wrote(k)
    BY <1>4, <2>1, <2>2, <2>3 DEF Wrote
  <2>5. branches'[b] # None
    BY <2>1, ConstantsAssumption
  <2>6. ASSUME NEW k \in Handlers PROVE PullInv(k)'
    <3>1. \A j \in Handlers : BranchFor(j)' = BranchFor(j)
      BY <2>2 DEF BranchFor
    <3>2. pulls[k] = "open" => BranchFor(k) \in Branches
      <4>1. pulls[k] = "open" => verdict[k] = "allowed"
        BY DEF IInv, EffectInv, Wrote
      <4> QED
        BY <4>1, BranchForIsBranch DEF IInv, VerdictInv
    <3>3. ASSUME NEW c \in Branches, branches[c] # None, branches[c].head.author \in Handlers
          PROVE  branches'[c] # None /\ branches'[c].head.author \in Handlers
      BY <1>4, <2>1, <2>3, <2>5, <3>3
    <3>4. pulls'[k] = "open" =>
            /\ branches[BranchFor(k)] # None
            /\ branches[BranchFor(k)].head.author \in Handlers
            /\ \A j \in Handlers : pulls'[j] = "open" /\ BranchFor(j) = BranchFor(k) => j = k
      BY <2>2 DEF IInv, PullInv
    <3>5. pulls'[k] = "open" => BranchFor(k) \in Branches
      BY <2>2, <3>2
    <3> QED
      BY <3>1, <3>3, <3>4, <3>5 DEF PullInv
  <2>7. ASSUME NEW c \in Branches PROVE BranchInv(c)'
    <3>1. CASE c = b
      <4>1. branches[b].head.file.rest = branches[b].root.file.rest
        BY <1>3, <1>6 DEF IInv, BranchInv
      <4> QED
        BY <1>2, <1>4, <1>6, <2>2, <2>3, <3>1, <4>1, ConstantsAssumption
           DEF BranchInv, BranchFor, b
    <3>2. CASE c # b
      BY <2>1, <2>2, <3>2 DEF IInv, BranchInv, BranchFor
    <3> QED BY <3>1, <3>2
  <2>8. CASE /\ Remember(h, "commitSHA", commit)
             /\ Goto(h, "create_pull") /\ UNCHANGED outcome
    <3> PICK value : value = [local[h] EXCEPT !.commitSHA = commit]
      OBVIOUS
    <3>1. value \in Locals /\ value.commitSHA \in Commit
      BY <1>2, <1>4 DEF Locals
    <3>2. local' = [local EXCEPT ![h] = value]
      BY <2>8 DEF Remember, IInv, TypeOK
    <3>3. HandlerStep(h) /\ ControlInv(h)' /\ LocalInv(h)' /\ EffectInv(h)'
      BY <1>1, <1>2, <2>2, <2>8, <3>1, <3>2, AdvanceStep
         DEF InGitHub, BeforeCommit, BaseRefRead, ContentRead
    <3> QED
      BY <1>2, <2>1, <2>2, <2>4, <2>6, <2>7, <3>3, HandlerStepPreserves
  <2>9. CASE Fail(h, "github_commit_failed")
    <3> PICK row : row = Failed("github_commit_failed")
      OBVIOUS
    <3>1. row \in Row /\ RowTrue(row, h)'
      BY <1>2, <2>2, RowTypes DEF WriteFailures, RowTrue, Failed, ReadFailures
    <3>2. HandlerStep(h) /\ ControlInv(h)' /\ LocalInv(h)' /\ EffectInv(h)'
      BY <1>1, <2>9, <3>1, ConcludeStep DEF Fail
    <3> QED
      BY <1>2, <2>1, <2>2, <2>4, <2>6, <2>7, <3>2, HandlerStepPreserves
  <2> QED
    BY <1>6, <2>8, <2>9
<1> QED
  BY <1>5, <1>6 DEF UpdateContent

LEMMA CreatePullPreserves == ASSUME IInv, NEW h \in Handlers, CreatePull(h) PROVE IInv'
<1> DEFINE b == BranchFor(h)
<1>1. /\ pc[h] = "create_pull" /\ pc[h] \in InGitHub
      /\ UNCHANGED <<callerUnchanged, local, base, branches>>
  BY DEF CreatePull, InGitHub
<1>2. /\ pulls[h] = "none" /\ body[h] \in Requests /\ verdict[h] = "allowed"
      /\ local[h] \in Locals /\ local[h].commitSHA \in Commit
  BY <1>1 DEF IInv, TypeOK, ControlInv, EffectInv, LocalInv, InGitHub, BeforeCommit
<1>3. PICK value \in Locals : value = local[h] /\ local' = [local EXCEPT ![h] = value]
  BY <1>1 DEF IInv, TypeOK
<1>4. CASE Goto(h, "find_pull_again") /\ UNCHANGED <<pulls, outcome>>
  BY <1>1, <1>2, <1>3, <1>4, AdvancePreserves
     DEF InGitHub, BeforeCommit, BaseRefRead, ContentRead
<1>5. CASE /\ Proposable(b)
           /\ pulls' = [pulls EXCEPT ![h] = "open"]
           /\ \/ Conclude(h, Created(h, local[h].commitSHA))
              \/ Goto(h, "find_pull_again") /\ UNCHANGED outcome
  <2>1. /\ pulls' \in [Handlers -> {"none", "open", "merged", "closed"}]
        /\ pulls'[h] = "open"
        /\ \A k \in Handlers \ {h} : pulls'[k] = pulls[k]
        /\ branches' \in [Branches -> Branch \cup {None}]
    BY <1>1, <1>5 DEF IInv, TypeOK
  <2>2. UNCHANGED <<body, verdict, ledger, branches, trunk>>
    BY <1>1 DEF callerUnchanged
  <2>3. ASSUME NEW k \in Handlers \ {h} PROVE Wrote(k)' => Wrote(k)
    BY <2>1, <2>2 DEF Wrote
  <2>4. ASSUME NEW k \in Handlers PROVE PullInv(k)'
    <3>1. \A j \in Handlers : BranchFor(j)' = BranchFor(j)
      BY <2>2 DEF BranchFor
    <3>2. \A j \in Handlers \ {h} : pulls'[j] = "open" => BranchFor(j) # b
      BY <1>5, <2>1 DEF Proposable, OpenPulls
    <3>3. CASE k = h
      BY <1>5, <2>1, <2>2, <3>1, <3>2, <3>3 DEF PullInv, Proposable
    <3>4. CASE k # h
      BY <2>1, <2>2, <3>1, <3>2, <3>4 DEF IInv, PullInv
    <3> QED BY <3>3, <3>4
  <2>5. \A c \in Branches : BranchInv(c)'
    BY <2>2 DEF IInv, BranchInv, BranchFor
  <2>6. CASE Conclude(h, Created(h, local[h].commitSHA))
    <3> PICK row : row = Created(h, local[h].commitSHA)
      OBVIOUS
    <3>1. row \in Row
      BY <1>2, RowTypes
    <3>2. RowTrue(row, h)'
      BY <1>2, <2>1, <2>2 DEF RowTrue, Created, ReadFailures, BranchFor
    <3>3. HandlerStep(h) /\ ControlInv(h)' /\ LocalInv(h)' /\ EffectInv(h)'
      BY <1>1, <2>6, <3>1, <3>2, ConcludeStep
    <3> QED
      BY <2>1, <2>3, <2>4, <2>5, <3>3, HandlerStepPreserves
  <2>7. CASE Goto(h, "find_pull_again") /\ UNCHANGED outcome
    <3>1. HandlerStep(h) /\ ControlInv(h)' /\ LocalInv(h)' /\ EffectInv(h)'
      BY <1>1, <1>3, <2>7, AdvanceStep DEF InGitHub, BeforeCommit, BaseRefRead, ContentRead
    <3> QED
      BY <2>1, <2>3, <2>4, <2>5, <3>1, HandlerStepPreserves
  <2> QED
    BY <1>5, <2>6, <2>7
<1> QED
  BY <1>4, <1>5 DEF CreatePull

-----------------------------------------------------------------------------
(* The handler outside CreatePullRequest.                                  *)

(***************************************************************************)
(* A step of a handler that has no verdict yet: nothing in the repository  *)
(* and in the ledger depends on it.                                        *)
(***************************************************************************)
LEMMA EarlyStepPreserves ==
    ASSUME IInv, NEW h \in Handlers, verdict[h] = None,
           UNCHANGED <<cancelled, local, ledger, worldVars>>,
           \A k \in Handlers \ {h} : /\ pc'[k] = pc[k] /\ body'[k] = body[k]
                                     /\ observed'[k] = observed[k] /\ verdict'[k] = verdict[k]
                                     /\ outcome'[k] = outcome[k],
           TypeOK', ControlInv(h)', LocalInv(h)', EffectInv(h)', VerdictInv(h)'
    PROVE  IInv'
<1>1. UNCHANGED <<local, ledger, base, branches, pulls, trunk>>
  BY DEF worldVars, githubVars
<1>2. \A k : Wrote(k)' = Wrote(k)
  BY <1>1 DEF Wrote
<1>3. verdict[h] # "allowed" /\ pulls[h] = "none"
  <2>1. verdict[h] # "allowed"
    BY ConstantsAssumption
  <2> QED BY <2>1 DEF IInv, EffectInv, Wrote
<1>4. \A k \in Handlers \ {h} : BranchFor(k)' = BranchFor(k)
  BY DEF BranchFor
<1>5. ASSUME NEW k \in Handlers \ {h}
      PROVE  ControlInv(k)' /\ LocalInv(k)' /\ VerdictInv(k)'
  BY <1>1 DEF IInv, ControlInv, LocalInv, VerdictInv
<1>6. ASSUME NEW k \in Handlers \ {h}, NEW row \in Row, RowTrue(row, k)
      PROVE  RowTrue(row, k)'
  <2>1. row.status = "PR_CREATED" => row.pull \in Handlers \ {h}
    BY <1>3, <1>6, CreatedRowNamesHandler DEF RowTrue
  <2> QED
    BY <1>1, <1>2, <1>4, <1>6, <2>1 DEF RowTrue
<1>7. ASSUME NEW k \in Handlers \ {h} PROVE EffectInv(k)'
  BY <1>1, <1>2, <1>6 DEF IInv, EffectInv
<1>8. ASSUME NEW k \in Handlers PROVE PullInv(k)'
  <2>1. \A j \in Handlers : pulls'[j] = "open" => j \in Handlers \ {h} /\ pulls[j] = "open"
    BY <1>1, <1>3
  <2> QED
    BY <1>1, <1>4, <2>1 DEF IInv, PullInv
<1>9. ASSUME NEW b \in Branches PROVE BranchInv(b)'
  <2>1. branches[b] # None /\ branches[b].head.author \in Handlers =>
          branches[b].head.author \in Handlers \ {h}
    BY <1>3 DEF IInv, BranchInv
  <2> QED
    BY <1>1, <1>4, <2>1 DEF IInv, BranchInv
<1>10. base'.author = None /\ BaseLimitWasApproved'
  <2>1. \A k \in Handlers : verdict[k] = "allowed" => k \in Handlers \ {h}
    BY <1>3
  <2> QED
    BY <1>1, <2>1 DEF IInv, BaseLimitWasApproved
<1> QED
  BY <1>5, <1>7, <1>8, <1>9, <1>10 DEF IInv

LEMMA ReceivePreserves == ASSUME IInv, NEW h \in Handlers, Receive(h) PROVE IInv'
<1>1. /\ pc[h] = "idle"
      /\ UNCHANGED <<cancelled, observed, verdict, local, outcome, ledger, worldVars>>
  BY DEF Receive
<1>2. PICK q \in Requests :
        /\ body' = [body EXCEPT ![h] = q]
        /\ \/ Goto(h, "evaluate") /\ UNCHANGED response
           \/ Reply(h, 422)
  BY DEF Receive
<1>3. PICK label \in {"evaluate", "done"} : pc' = [pc EXCEPT ![h] = label]
  BY <1>2 DEF Goto, Reply
<1>4. /\ verdict[h] = None /\ ledger[h] = None /\ ~Wrote(h)
      /\ verdict[h] # "allowed" /\ verdict[h] # "denied"
  BY <1>1, ConstantsAssumption DEF IInv, ControlInv, EffectInv
<1>5. pc'[h] = label /\ body'[h] = q
  BY <1>2, <1>3 DEF IInv, TypeOK
<1>6. TypeOK'
  <2>1. pc' \in [Handlers -> Labels]
    BY <1>3 DEF IInv, TypeOK, Labels
  <2>2. body' \in [Handlers -> Requests \cup {None}]
    BY <1>2 DEF IInv, TypeOK
  <2>3. response' \in [Handlers -> {None, 201, 422, 503}]
    BY <1>2 DEF IInv, TypeOK, Reply
  <2> QED
    BY <1>1, <2>1, <2>2, <2>3 DEF IInv, TypeOK, worldVars, githubVars
<1>7. ControlInv(h)' /\ LocalInv(h)'
  BY <1>1, <1>4, <1>5
     DEF ControlInv, LocalInv, InGitHub, BeforeCommit, BaseRefRead, ContentRead
<1>8. EffectInv(h)' /\ VerdictInv(h)'
  <2>1. ~Wrote(h)'
    BY <1>1, <1>4 DEF Wrote, worldVars, githubVars
  <2> QED
    BY <1>1, <1>4, <1>5, <2>1 DEF EffectInv, VerdictInv
<1>9. \A k \in Handlers \ {h} : pc'[k] = pc[k] /\ body'[k] = body[k]
  BY <1>2, <1>3 DEF IInv, TypeOK
<1> QED
  BY <1>1, <1>4, <1>6, <1>7, <1>8, <1>9, EarlyStepPreserves

LEMMA ObservedLimitsAreQuantities ==
    ASSUME NEW q, NEW limit \in ObservedLimits(q)
    PROVE  limit \in Quantity
<1>1. \A row \in CitedRows(q) : row.limits \subseteq Quantity
  BY ConstantsAssumption DEF CitedRows
<1>2. Unparsed \in Quantity
  BY DEF Quantity, Unparsed, MaxMiB
<1> QED
  BY <1>1, <1>2 DEF ObservedLimits

(* A limit the policy can allow was found in a cited row.                  *)
LEMMA ObservedLimitIsCited ==
    ASSUME NEW q, NEW limit \in ObservedLimits(q), limit # Unparsed
    PROVE  \E row \in CitedRows(q) : limit \in row.limits
BY DEF ObservedLimits

LEMMA EvaluatePreserves == ASSUME IInv, NEW h \in Handlers, Evaluate(h) PROVE IInv'
<1>1. /\ pc[h] = "evaluate"
      /\ UNCHANGED <<body, cancelled, local, ledger, worldVars>>
  BY DEF Evaluate
<1>2. /\ verdict[h] = None /\ ledger[h] = None /\ ~Wrote(h)
      /\ verdict[h] # "allowed" /\ verdict[h] # "denied"
      /\ body[h] \in Requests
  BY <1>1, ConstantsAssumption DEF IInv, ControlInv, EffectInv
<1>3. ~Wrote(h)'
  BY <1>1, <1>2 DEF Wrote, worldVars, githubVars
<1>4. CASE /\ Reply(h, 422) \/ Reply(h, 503)
           /\ UNCHANGED <<observed, verdict, outcome>>
  <2>1. pc' = [pc EXCEPT ![h] = "done"] /\ pc'[h] = "done"
    BY <1>4 DEF Reply, Goto, IInv, TypeOK
  <2>2. pc' \in [Handlers -> Labels] /\ response' \in [Handlers -> {None, 201, 422, 503}]
    BY <1>4 DEF IInv, TypeOK, Labels, Reply, Goto
  <2>3. TypeOK'
    BY <1>1, <1>4, <2>2 DEF IInv, TypeOK, worldVars, githubVars
  <2>4. ControlInv(h)' /\ LocalInv(h)' /\ EffectInv(h)' /\ VerdictInv(h)'
    BY <1>1, <1>2, <1>3, <1>4, <2>1
       DEF ControlInv, LocalInv, EffectInv, VerdictInv, InGitHub, BeforeCommit,
           BaseRefRead, ContentRead
  <2>5. \A k \in Handlers \ {h} : pc'[k] = pc[k]
    BY <2>1 DEF IInv, TypeOK
  <2> QED
    BY <1>1, <1>2, <1>4, <2>3, <2>4, <2>5, EarlyStepPreserves
<1>5. CASE Decide(h, body[h]) /\ UNCHANGED response
  <2>1. PICK limit \in ObservedLimits(body[h]) :
          /\ observed' = [observed EXCEPT ![h] = limit]
          /\ \/ /\ PolicyAllows(body[h], Report[body[h].investigation].cause, limit)
                /\ verdict' = [verdict EXCEPT ![h] = "allowed"]
                /\ \/ Goto(h, "find_pull") /\ UNCHANGED outcome
                   \/ Conclude(h, Failed("github_not_configured"))
             \/ /\ ~PolicyAllows(body[h], Report[body[h].investigation].cause, limit)
                /\ verdict' = [verdict EXCEPT ![h] = "denied"]
                /\ Conclude(h, Denied)
    BY <1>5 DEF Decide
  <2> limit \in ObservedLimits(body[h])
    BY <2>1
  <2>2. PICK label \in {"find_pull", "save"}, decision \in {"allowed", "denied"},
             row \in Row \cup {None} :
          /\ pc' = [pc EXCEPT ![h] = label]
          /\ verdict' = [verdict EXCEPT ![h] = decision]
          /\ outcome' = [outcome EXCEPT ![h] = row]
          /\ decision = "allowed" =>
               PolicyAllows(body[h], Report[body[h].investigation].cause, limit)
          /\ decision = "denied" =>
               ~PolicyAllows(body[h], Report[body[h].investigation].cause, limit)
          /\ label = "find_pull" => decision = "allowed"
          /\ label = "save" =>
               \/ decision = "allowed" /\ row = Failed("github_not_configured")
               \/ decision = "denied" /\ row = Denied
    <3>1. CASE /\ PolicyAllows(body[h], Report[body[h].investigation].cause, limit)
               /\ verdict' = [verdict EXCEPT ![h] = "allowed"]
               /\ Goto(h, "find_pull") /\ UNCHANGED outcome
      <4>1. outcome' = [outcome EXCEPT ![h] = outcome[h]] /\ outcome[h] \in Row \cup {None}
        BY <3>1 DEF IInv, TypeOK
      <4> QED
        BY <3>1, <4>1 DEF Goto
    <3>2. CASE /\ PolicyAllows(body[h], Report[body[h].investigation].cause, limit)
               /\ verdict' = [verdict EXCEPT ![h] = "allowed"]
               /\ Conclude(h, Failed("github_not_configured"))
      <4>1. Failed("github_not_configured") \in Row
        BY RowTypes DEF ReadFailures
      <4>2. /\ pc' = [pc EXCEPT ![h] = "save"]
            /\ outcome' = [outcome EXCEPT ![h] = Failed("github_not_configured")]
        BY <3>2 DEF Conclude, Goto
      <4>3. PICK row \in Row : row = Failed("github_not_configured")
        BY <4>1
      <4> QED
        BY <3>2, <4>2, <4>3
    <3>3. CASE /\ ~PolicyAllows(body[h], Report[body[h].investigation].cause, limit)
               /\ verdict' = [verdict EXCEPT ![h] = "denied"]
               /\ Conclude(h, Denied)
      BY <3>3, RowTypes DEF Conclude, Goto
    <3> QED
      BY <2>1, <3>1, <3>2, <3>3
  <2>3. pc'[h] = label /\ verdict'[h] = decision /\ outcome'[h] = row /\ observed'[h] = limit
    BY <2>1, <2>2 DEF IInv, TypeOK
  <2>4. TypeOK'
    <3>1. pc' \in [Handlers -> Labels] /\ verdict' \in [Handlers -> {None, "allowed", "denied"}]
      BY <2>2 DEF IInv, TypeOK, Labels
    <3>2. outcome' \in [Handlers -> Row \cup {None}]
      BY <2>2 DEF IInv, TypeOK
    <3>3. observed' \in [Handlers -> Quantity]
      BY <2>1, ObservedLimitsAreQuantities DEF IInv, TypeOK
    <3> QED
      BY <1>1, <1>5, <3>1, <3>2, <3>3 DEF IInv, TypeOK, worldVars, githubVars
  <2>5. ControlInv(h)' /\ LocalInv(h)'
    BY <1>1, <1>2, <2>2, <2>3
       DEF ControlInv, LocalInv, InGitHub, BeforeCommit, BaseRefRead, ContentRead
  <2>6. ASSUME label = "save" PROVE row \in Row /\ RowTrue(row, h)'
    <3>1. CASE decision = "allowed" /\ row = Failed("github_not_configured")
      BY <1>3, <2>3, <3>1, RowTypes DEF RowTrue, Failed, ReadFailures
    <3>2. CASE decision = "denied" /\ row = Denied
      BY <1>3, <2>3, <3>2, RowTypes, DeniedRow DEF RowTrue, ReadFailures
    <3>3. \/ decision = "allowed" /\ row = Failed("github_not_configured")
          \/ decision = "denied" /\ row = Denied
      BY <2>2, <2>6
    <3> QED BY <3>1, <3>2, <3>3
  <2>7. EffectInv(h)'
    BY <1>1, <1>2, <1>3, <2>3, <2>6 DEF EffectInv
  <2>8. VerdictInv(h)'
    BY <1>1, <1>2, <2>2, <2>3 DEF VerdictInv
  <2>9. \A k \in Handlers \ {h} : /\ pc'[k] = pc[k] /\ observed'[k] = observed[k]
                                  /\ verdict'[k] = verdict[k] /\ outcome'[k] = outcome[k]
    BY <2>1, <2>2 DEF IInv, TypeOK
  <2> QED
    BY <1>1, <1>2, <2>4, <2>5, <2>7, <2>8, <2>9, EarlyStepPreserves
<1> QED
  BY <1>4, <1>5 DEF Evaluate

(***************************************************************************)
(* A step that leaves the repository, the requests and the verdicts alone. *)
(***************************************************************************)
LEMMA InternalStepPreserves ==
    ASSUME IInv, TypeOK', UNCHANGED <<body, observed, verdict, local, outcome, worldVars>>,
           NEW h \in Handlers, ControlInv(h)', LocalInv(h)', EffectInv(h)',
           \A k \in Handlers \ {h} : pc'[k] = pc[k] /\ ledger'[k] = ledger[k]
    PROVE  IInv'
<1>1. UNCHANGED <<base, branches, pulls, trunk>>
  BY DEF worldVars, githubVars
<1>2. \A k, row : RowTrue(row, k)' = RowTrue(row, k) /\ Wrote(k)' = Wrote(k)
  BY <1>1 DEF RowTrue, Wrote, BranchFor
<1>3. \A k \in Handlers \ {h} : ControlInv(k)' /\ LocalInv(k)' /\ EffectInv(k)'
  BY <1>1, <1>2 DEF IInv, ControlInv, LocalInv, EffectInv
<1>4. \A k \in Handlers : VerdictInv(k)' /\ PullInv(k)'
  BY <1>1 DEF IInv, VerdictInv, PullInv, BranchFor
<1>5. \A b \in Branches : BranchInv(b)'
  BY <1>1 DEF IInv, BranchInv, BranchFor
<1>6. base'.author = None /\ BaseLimitWasApproved'
  BY <1>1 DEF IInv, BaseLimitWasApproved
<1> QED
  BY <1>3, <1>4, <1>5, <1>6 DEF IInv

LEMMA SavePreserves == ASSUME IInv, NEW h \in Handlers, Save(h) PROVE IInv'
<1>1. pc[h] = "save" /\ UNCHANGED <<body, cancelled, observed, verdict, local, outcome, worldVars>>
  BY DEF Save
<1>2. /\ ledger[h] = None /\ outcome[h] \in Row /\ RowTrue(outcome[h], h)
      /\ body[h] \in Requests
      /\ verdict[h] # "allowed" => ~Wrote(h)
  BY <1>1 DEF IInv, ControlInv, EffectInv
<1>3. PICK row \in {outcome[h], None} : ledger' = [ledger EXCEPT ![h] = row]
  <2>1. CASE ledger' = [ledger EXCEPT ![h] = outcome[h]]
    BY <2>1
  <2>2. CASE UNCHANGED ledger
    <3>1. ledger' = [ledger EXCEPT ![h] = None]
      BY <1>2, <2>2 DEF IInv, TypeOK
    <3> QED BY <3>1
  <2> QED BY <2>1, <2>2 DEF Save
<1>4. pc' = [pc EXCEPT ![h] = "done"] /\ response' \in [Handlers -> {None, 201, 422, 503}]
  <2>1. Reply(h, 201) \/ Reply(h, 503)
    BY DEF Save
  <2> QED
    BY <2>1 DEF Reply, Goto, IInv, TypeOK
<1>5. pc'[h] = "done" /\ ledger'[h] = row
  BY <1>3, <1>4 DEF IInv, TypeOK
<1>6. TypeOK'
  <2>1. pc' \in [Handlers -> Labels]
    BY <1>4 DEF IInv, TypeOK, Labels
  <2>2. ledger' \in [Handlers -> Row \cup {None}]
    BY <1>2, <1>3 DEF IInv, TypeOK
  <2> QED
    BY <1>1, <1>4, <2>1, <2>2 DEF IInv, TypeOK, worldVars, githubVars
<1>7. RowTrue(outcome[h], h)' /\ Wrote(h)' = Wrote(h)
  BY <1>1, <1>2 DEF RowTrue, Wrote, BranchFor, worldVars, githubVars
<1>8. ControlInv(h)' /\ LocalInv(h)'
  BY <1>1, <1>2, <1>5
     DEF ControlInv, LocalInv, InGitHub, BeforeCommit, BaseRefRead, ContentRead
<1>9. EffectInv(h)'
  BY <1>1, <1>2, <1>3, <1>5, <1>7 DEF EffectInv, BeforeCommit
<1>10. \A k \in Handlers \ {h} : pc'[k] = pc[k] /\ ledger'[k] = ledger[k]
  BY <1>3, <1>4 DEF IInv, TypeOK
<1> QED
  BY <1>1, <1>6, <1>8, <1>9, <1>10, InternalStepPreserves

LEMMA CancelPreserves == ASSUME IInv, NEW h \in Handlers, Cancel(h) PROVE IInv'
<1>1. /\ UNCHANGED <<pc, body, observed, verdict, local, outcome, response, ledger, worldVars>>
      /\ cancelled' \subseteq Handlers
  BY DEF Cancel, IInv, TypeOK
<1>2. TypeOK'
  BY <1>1 DEF IInv, TypeOK, worldVars, githubVars
<1>3. ControlInv(h)' /\ LocalInv(h)'
  BY <1>1 DEF IInv, ControlInv, LocalInv
<1>4. EffectInv(h)'
  <2>1. \A row : RowTrue(row, h)' = RowTrue(row, h) /\ Wrote(h)' = Wrote(h)
    BY <1>1 DEF RowTrue, Wrote, BranchFor, worldVars, githubVars
  <2> QED
    BY <1>1, <2>1 DEF IInv, EffectInv, worldVars, githubVars
<1> QED
  BY <1>1, <1>2, <1>3, <1>4, InternalStepPreserves

LEMMA CrashPreserves == ASSUME IInv, NEW h \in Handlers, Crash(h) PROVE IInv'
<1>1. /\ UNCHANGED <<body, cancelled, observed, verdict, local, outcome, response, ledger, worldVars>>
      /\ pc[h] # "idle"
      /\ pc' = [pc EXCEPT ![h] = "done"]
  BY DEF Crash, InFlight, Goto
<1>2. pc'[h] = "done" /\ \A k \in Handlers \ {h} : pc'[k] = pc[k]
  BY <1>1 DEF IInv, TypeOK
<1>3. TypeOK'
  <2>1. pc' \in [Handlers -> Labels]
    BY <1>1 DEF IInv, TypeOK, Labels
  <2> QED
    BY <1>1, <2>1 DEF IInv, TypeOK, worldVars, githubVars
<1>4. ControlInv(h)' /\ LocalInv(h)'
  BY <1>1, <1>2
     DEF IInv, ControlInv, LocalInv, InGitHub, BeforeCommit, BaseRefRead, ContentRead
<1>5. EffectInv(h)'
  <2>1. \A row : RowTrue(row, h)' = RowTrue(row, h) /\ Wrote(h)' = Wrote(h)
    BY <1>1 DEF RowTrue, Wrote, BranchFor, worldVars, githubVars
  <2> QED
    BY <1>1, <1>2, <2>1 DEF IInv, EffectInv, BeforeCommit
<1> QED
  BY <1>1, <1>2, <1>3, <1>4, <1>5, InternalStepPreserves

-----------------------------------------------------------------------------
(* People at the repository.                                               *)

(***************************************************************************)
(* What people do leaves every handler where it is; it can only remove     *)
(* traces of handlers from the repository, never add one.                  *)
(***************************************************************************)
LEMMA InterventionPreserves ==
    ASSUME IInv, Intervene,
           base' \in Commit, base'.author = None, trunk' \subseteq Handlers,
           branches' \in [Branches -> Branch \cup {None}],
           pulls' \in [Handlers -> {"none", "open", "merged", "closed"}],
           \A k \in Handlers : /\ pulls'[k] = "none" <=> pulls[k] = "none"
                               /\ Wrote(k)' => Wrote(k)
                               /\ PullInv(k)',
           \A b \in Branches : BranchInv(b)',
           BaseLimitWasApproved'
    PROVE  IInv'
<1>1. UNCHANGED <<pc, body, cancelled, observed, verdict, local, outcome, response, ledger>>
  BY DEF Intervene, handlerVars
<1>2. TypeOK'
  <2>1. interventions' \in 0..MaxInterventions
    BY BoundIsNatural DEF Intervene, IInv, TypeOK
  <2> QED
    BY <1>1, <2>1 DEF IInv, TypeOK
<1>3. \A k \in Handlers : ControlInv(k)' /\ LocalInv(k)' /\ VerdictInv(k)'
  BY <1>1 DEF IInv, ControlInv, LocalInv, VerdictInv
<1>4. ASSUME NEW k \in Handlers, NEW row \in Row, RowTrue(row, k)
      PROVE  RowTrue(row, k)'
  <2>1. row.status = "PR_CREATED" => row.pull \in Handlers
    BY CreatedRowNamesHandler
  <2> QED
    BY <1>1, <1>4, <2>1 DEF RowTrue, BranchFor
<1>5. ASSUME NEW k \in Handlers PROVE EffectInv(k)'
  BY <1>1, <1>4 DEF IInv, EffectInv
<1> QED
  BY <1>2, <1>3, <1>5 DEF IInv

LEMMA PushToBasePreserves == ASSUME IInv, PushToBase PROVE IInv'
<1>1. UNCHANGED <<body, observed, verdict, branches, pulls, trunk>> /\ Intervene
  BY DEF PushToBase, Intervene, handlerVars
<1>2. PICK f \in HumanFiles : base' = [author |-> None, rev |-> base.rev + 1, file |-> f]
  BY DEF PushToBase
<1>3. base' \in Commit
  <2>1. f \in File
    BY ConstantsAssumption DEF File, Rests
  <2>2. base.rev + 1 \in Nat
    BY DEF IInv, TypeOK, Commit
  <2> QED
    BY <1>2, <2>1, <2>2 DEF Commit
<1>4. BaseLimitWasApproved'
  BY <1>2 DEF BaseLimitWasApproved
<1>5. \A k \in Handlers : (Wrote(k)' => Wrote(k)) /\ PullInv(k)'
  BY <1>1 DEF IInv, Wrote, PullInv, BranchFor
<1>6. \A b \in Branches : BranchInv(b)'
  BY <1>1 DEF IInv, BranchInv, BranchFor
<1>7. base'.author = None
  BY <1>2
<1> QED
  BY <1>1, <1>3, <1>4, <1>5, <1>6, <1>7, InterventionPreserves DEF IInv, TypeOK

(* The opener of a pull request works on a branch that can exist.          *)
LEMMA OpenerIsAllowed ==
    ASSUME IInv, NEW k \in Handlers, pulls[k] # "none"
    PROVE  verdict[k] = "allowed" /\ body[k] \in Requests /\ BranchFor(k) \in Branches
<1>1. verdict[k] = "allowed"
  BY DEF IInv, EffectInv, Wrote
<1>2. body[k] \in Requests
  BY <1>1 DEF IInv, VerdictInv
<1> QED
  BY <1>1, <1>2, BranchForIsBranch

LEMMA MergePullPreserves == ASSUME IInv, NEW k \in Handlers, MergePull(k) PROVE IInv'
<1> DEFINE b == BranchFor(k)
           author == branches[b].head.author
<1>1. /\ Intervene /\ pulls[k] = "open"
      /\ base' = [author |-> None, rev |-> base.rev + 1,
                  file |-> [base.file EXCEPT !.limit = branches[b].head.file.limit]]
      /\ pulls' = [pulls EXCEPT ![k] = "merged"]
      /\ UNCHANGED <<body, observed, verdict>>
  BY DEF MergePull, Intervene, handlerVars
<1>2. /\ b \in Branches /\ branches[b] \in Branch /\ author \in Handlers
      /\ verdict[author] = "allowed"
      /\ branches[b].head.file.limit = body[author].change.after
      /\ branches[b].head.file.rest = branches[b].root.file.rest
  <2>1. b \in Branches
    BY <1>1, OpenerIsAllowed
  <2>2. branches[b] # None /\ author \in Handlers
    BY <1>1 DEF IInv, PullInv
  <2> QED
    BY <2>1, <2>2 DEF IInv, TypeOK, BranchInv
<1>3. \/ trunk' = trunk \cup {author} /\ branches' = [branches EXCEPT ![b].root = branches[b].head]
      \/ UNCHANGED <<trunk, branches>>
  BY DEF MergePull
<1> HIDE DEF b, author
<1>4. /\ trunk' \subseteq Handlers
      /\ branches' \in [Branches -> Branch \cup {None}]
      /\ \A c \in Branches : /\ branches'[c] = None <=> branches[c] = None
                             /\ branches[c] # None => branches'[c].head = branches[c].head
      /\ \A c \in Branches : branches[c] # None =>
           branches'[c].root \in {branches[c].root, branches[c].head}
  <2>1. CASE UNCHANGED <<trunk, branches>>
    BY <2>1 DEF IInv, TypeOK
  <2>2. CASE trunk' = trunk \cup {author} /\ branches' = [branches EXCEPT ![b].root = branches[b].head]
    <3>1. /\ branches'[b] = [branches[b] EXCEPT !.root = branches[b].head]
          /\ branches'[b] \in Branch
          /\ \A c \in Branches \ {b} : branches'[c] = branches[c]
          /\ branches' \in [Branches -> Branch \cup {None}]
      BY <1>2, <2>2 DEF IInv, TypeOK, Branch
    <3>2. branches'[b].head = branches[b].head /\ branches'[b].root = branches[b].head
      BY <1>2, <3>1 DEF Branch
    <3>3. branches'[b] # None /\ branches[b] # None
      BY <1>2, <3>1, ConstantsAssumption
    <3>4. trunk' \subseteq Handlers
      BY <1>2, <2>2 DEF IInv, TypeOK
    <3> QED
      BY <3>1, <3>2, <3>3, <3>4
  <2> QED BY <1>3, <2>1, <2>2
<1>5. /\ pulls' \in [Handlers -> {"none", "open", "merged", "closed"}]
      /\ \A j \in Handlers : pulls'[j] = "none" <=> pulls[j] = "none"
      /\ \A j \in Handlers : pulls'[j] = "open" => pulls[j] = "open"
  BY <1>1 DEF IInv, TypeOK
<1>6. \A j \in Handlers : BranchFor(j)' = BranchFor(j)
  BY <1>1 DEF BranchFor
<1>7. ASSUME NEW j \in Handlers PROVE Wrote(j)' => Wrote(j)
  <2>1. branches[b] # None
    BY <1>2, ConstantsAssumption
  <2>2. Wrote(author)
    BY <1>2, <2>1 DEF Wrote, author
  <2>3. j \in trunk' => Wrote(j)
    BY <1>3, <2>2 DEF Wrote
  <2> QED
    BY <1>4, <1>5, <2>3 DEF Wrote
<1>8. ASSUME NEW j \in Handlers PROVE PullInv(j)'
  <2>1. pulls[j] = "open" => BranchFor(j) \in Branches
    BY OpenerIsAllowed
  <2> QED
    BY <1>4, <1>5, <1>6, <2>1 DEF IInv, PullInv
<1>9. ASSUME NEW c \in Branches PROVE BranchInv(c)'
  <2>1. CASE branches[c] = None
    BY <1>4, <2>1 DEF BranchInv
  <2>2. CASE branches[c] # None
    <3>1. BranchInv(c)
      BY DEF IInv
    <3> QED
      BY <1>1, <1>4, <1>6, <2>2, <3>1 DEF BranchInv
  <2> QED BY <2>1, <2>2
<1>10. base' \in Commit /\ base'.author = None /\ base'.file.limit = branches[b].head.file.limit
  <2>1. /\ branches[b].head.file \in File
        /\ base.file \in File
        /\ base.rev + 1 \in Nat
    BY <1>2 DEF IInv, TypeOK, Branch, Commit
  <2>2. [base.file EXCEPT !.limit = branches[b].head.file.limit] \in File
    BY <2>1 DEF File
  <2>3. [base.file EXCEPT !.limit = branches[b].head.file.limit].limit = branches[b].head.file.limit
    BY <2>1 DEF File
  <2> QED
    BY <1>1, <2>1, <2>2, <2>3 DEF Commit, b
<1>11. BaseLimitWasApproved'
  <2>1. PolicyAllows(body[author], Report[body[author].investigation].cause, observed[author])
    BY <1>2 DEF IInv, VerdictInv
  <2>2. ResourceChangeSafe(body[author].change.before, body[author].change.after, observed[author])
    BY <2>1, AllowedIsBoundedRepair
  <2>3. body[author].change.after \in Nat /\ observed[author] \in Nat
    <3>1. body[author] \in Requests
      BY <1>2 DEF IInv, VerdictInv
    <3>2. body[author].change.after \in Quantity
      BY <3>1, ConstantsAssumption
    <3>3. observed[author] \in Quantity
      BY <1>2 DEF IInv, TypeOK
    <3>4. Quantity \subseteq Nat
      BY DEF Quantity, Unparsed, MaxMiB
    <3> QED
      BY <3>2, <3>3, <3>4
  <2>4. body[author].change.before = observed[author] /\ observed[author] # Unparsed
    BY <2>2 DEF ResourceChangeSafe, ParsedOK
  <2>5. /\ body[author].change.after \in observed[author] + 1 .. 4 * observed[author]
        /\ body[author].change.after <= 512
    BY <2>2, <2>3 DEF ResourceChangeSafe
  <2>6. base'.file.limit = body[author].change.after
    BY <1>2, <1>10
  <2>7. \E row \in CitedRows(body[author]) : observed[author] \in row.limits
    BY <1>2, <2>4, ObservedLimitIsCited DEF IInv, VerdictInv
  <2>8. /\ author \in Handlers
        /\ verdict'[author] = "allowed"
        /\ base'.file.limit = body'[author].change.after
        /\ body'[author].change.before = observed'[author]
        /\ \E row \in CitedRows(body'[author]) : observed'[author] \in row.limits
        /\ base'.file.limit \in observed'[author] + 1 .. 4 * observed'[author]
        /\ base'.file.limit <= 512
    BY <1>1, <1>2, <2>4, <2>5, <2>6, <2>7
  <2> QED
    BY <2>8 DEF BaseLimitWasApproved
<1> QED
  BY <1>1, <1>4, <1>5, <1>7, <1>8, <1>9, <1>10, <1>11, InterventionPreserves

LEMMA ClosePullPreserves == ASSUME IInv, NEW k \in Handlers, ClosePull(k) PROVE IInv'
<1>1. /\ UNCHANGED <<body, observed, verdict, base, branches, trunk>> /\ Intervene
      /\ pulls[k] = "open" /\ pulls' = [pulls EXCEPT ![k] = "closed"]
  BY DEF ClosePull, Intervene, handlerVars
<1>2. /\ pulls' \in [Handlers -> {"none", "open", "merged", "closed"}]
      /\ \A j \in Handlers : pulls'[j] = "none" <=> pulls[j] = "none"
      /\ \A j \in Handlers : pulls'[j] = "open" => pulls[j] = "open"
  BY <1>1 DEF IInv, TypeOK
<1>3. \A j \in Handlers : (Wrote(j)' => Wrote(j)) /\ PullInv(j)'
  BY <1>1, <1>2 DEF IInv, Wrote, PullInv, BranchFor
<1>4. \A b \in Branches : BranchInv(b)'
  BY <1>1 DEF IInv, BranchInv, BranchFor
<1>5. BaseLimitWasApproved' /\ base' \in Commit /\ base'.author = None
  BY <1>1 DEF IInv, TypeOK, BaseLimitWasApproved
<1> QED
  BY <1>1, <1>2, <1>3, <1>4, <1>5, InterventionPreserves DEF IInv, TypeOK

LEMMA DeleteBranchPreserves == ASSUME IInv, NEW b \in Branches, DeleteBranch(b) PROVE IInv'
<1>1. /\ UNCHANGED <<body, observed, verdict, base, trunk>> /\ Intervene
      /\ branches' = [branches EXCEPT ![b] = None]
      /\ pulls' = [k \in Handlers |-> IF k \in OpenPulls(b) THEN "closed" ELSE pulls[k]]
  BY DEF DeleteBranch, Intervene, handlerVars
<1>2. /\ pulls' \in [Handlers -> {"none", "open", "merged", "closed"}]
      /\ \A j \in Handlers : pulls'[j] = "none" <=> pulls[j] = "none"
      /\ \A j \in Handlers : pulls'[j] = "open" => pulls[j] = "open" /\ BranchFor(j) # b
  BY <1>1 DEF IInv, TypeOK, OpenPulls
<1>3. /\ branches' \in [Branches -> Branch \cup {None}]
      /\ branches'[b] = None
      /\ \A c \in Branches \ {b} : branches'[c] = branches[c]
  BY <1>1 DEF IInv, TypeOK
<1>4. \A j \in Handlers : BranchFor(j)' = BranchFor(j)
  BY <1>1 DEF BranchFor
<1>5. \A j \in Handlers : Wrote(j)' => Wrote(j)
  BY <1>1, <1>2, <1>3 DEF Wrote
<1>6. ASSUME NEW j \in Handlers PROVE PullInv(j)'
  <2>1. pulls[j] = "open" => BranchFor(j) \in Branches
    BY OpenerIsAllowed
  <2> QED
    BY <1>2, <1>3, <1>4, <2>1 DEF IInv, PullInv
<1>7. ASSUME NEW c \in Branches PROVE BranchInv(c)'
  BY <1>1, <1>3, <1>4 DEF IInv, BranchInv
<1>8. BaseLimitWasApproved' /\ base' \in Commit /\ base'.author = None
  BY <1>1 DEF IInv, TypeOK, BaseLimitWasApproved
<1> QED
  BY <1>1, <1>2, <1>3, <1>5, <1>6, <1>7, <1>8, InterventionPreserves DEF IInv, TypeOK

-----------------------------------------------------------------------------
(* The theorems.                                                           *)

LEMMA InitEstablishes == ASSUME Init PROVE IInv
<1>1. TypeOK
  <2>1. base \in Commit
    BY ConstantsAssumption DEF Init, Commit, File, Rests
  <2>2. NoLocals \in Locals
    BY DEF NoLocals, Locals
  <2>3. Unparsed \in Quantity
    BY DEF Quantity, Unparsed, MaxMiB
  <2>4. 0 \in 0..MaxInterventions
    BY BoundIsNatural
  <2> QED
    BY <2>1, <2>2, <2>3, <2>4 DEF Init, TypeOK, Labels
<1>2. \A h \in Handlers : ~Wrote(h)
  BY DEF Init, Wrote
<1>3. ASSUME NEW h \in Handlers
      PROVE  ControlInv(h) /\ LocalInv(h) /\ EffectInv(h) /\ VerdictInv(h) /\ PullInv(h)
  <2>1. verdict[h] # "allowed" /\ verdict[h] # "denied"
    BY ConstantsAssumption DEF Init
  <2> QED
    BY <1>2, <2>1 DEF Init, ControlInv, LocalInv, EffectInv, VerdictInv, PullInv,
                      InGitHub, BeforeCommit, BaseRefRead, ContentRead
<1>4. \A b \in Branches : BranchInv(b)
  BY DEF Init, BranchInv
<1>5. base.author = None /\ BaseLimitWasApproved
  BY DEF Init, BaseLimitWasApproved
<1> QED
  BY <1>1, <1>3, <1>4, <1>5 DEF IInv

LEMMA StutterPreserves == ASSUME IInv, UNCHANGED vars PROVE IInv'
<1>1. UNCHANGED <<pc, body, cancelled, observed, verdict, local, outcome, response, ledger,
                  base, branches, pulls, trunk, interventions>>
  BY DEF vars, handlerVars, worldVars, githubVars
<1>2. TypeOK'
  BY <1>1 DEF IInv, TypeOK
<1>3. \A h, row : RowTrue(row, h)' = RowTrue(row, h) /\ Wrote(h)' = Wrote(h)
  BY <1>1 DEF RowTrue, Wrote, BranchFor
<1>4. \A h \in Handlers : ControlInv(h)' /\ LocalInv(h)' /\ EffectInv(h)'
  BY <1>1, <1>3 DEF IInv, ControlInv, LocalInv, EffectInv
<1>5. \A h \in Handlers : VerdictInv(h)' /\ PullInv(h)'
  BY <1>1 DEF IInv, VerdictInv, PullInv, BranchFor
<1>6. \A b \in Branches : BranchInv(b)'
  BY <1>1 DEF IInv, BranchInv, BranchFor
<1>7. base'.author = None /\ BaseLimitWasApproved'
  BY <1>1 DEF IInv, BaseLimitWasApproved
<1> QED
  BY <1>2, <1>4, <1>5, <1>6, <1>7 DEF IInv

LEMMA NextPreserves == ASSUME IInv, [Next]_vars PROVE IInv'
<1>1. ASSUME NEW h \in Handlers, Step(h) PROVE IInv'
  BY <1>1, ReceivePreserves, EvaluatePreserves, FindPullPreserves, GetBaseRefPreserves,
     GetBaseContentPreserves, FindRefPreserves, CreateRefPreserves, GetBranchContentPreserves,
     UpdateContentPreserves, CreatePullPreserves, FindPullAgainPreserves, SavePreserves
     DEF Step
<1>2. ASSUME NEW h \in Handlers, Cancel(h) \/ Crash(h) PROVE IInv'
  BY <1>2, CancelPreserves, CrashPreserves
<1>3. ASSUME People PROVE IInv'
  BY <1>3, PushToBasePreserves, MergePullPreserves, ClosePullPreserves, DeleteBranchPreserves
     DEF People
<1>4. ASSUME Quiescent \/ UNCHANGED vars PROVE IInv'
  BY <1>4, StutterPreserves DEF Quiescent
<1> QED
  BY <1>1, <1>2, <1>3, <1>4 DEF Next

(* The invariant holds of every reachable state.                           *)
THEOREM InvariantHolds == Spec => []IInv
<1>1. Init => IInv
  BY InitEstablishes
<1>2. IInv /\ [Next]_vars => IInv'
  BY NextPreserves
<1> QED
  BY <1>1, <1>2, PTL DEF Spec

(* Type correctness, for any number of handlers.                           *)
THEOREM TypeCorrect == Spec => []TypeOK
<1>1. IInv => TypeOK
  BY DEF IInv
<1> QED
  BY <1>1, InvariantHolds, PTL

(***************************************************************************)
(* Any number of handlers, faults, merges and pushes: a remediation branch *)
(* holds a snapshot of the base, or one with the approved scalar.          *)
(***************************************************************************)
THEOREM BranchesCarryOnlyApprovedChanges == Spec => []BranchesCarryApprovedChange
<1>1. ASSUME IInv, NEW b \in Branches, branches[b] # None
      PROVE  \/ branches[b].head = branches[b].root
             \/ /\ branches[b].head.author \in Handlers
                /\ verdict[branches[b].head.author] = "allowed"
                /\ BranchFor(branches[b].head.author) = b
                /\ branches[b].head.file.limit = body[branches[b].head.author].change.after
                /\ branches[b].head.file.rest = branches[b].root.file.rest
  <2>1. branches[b] \in Branch /\ BranchInv(b)
    BY <1>1 DEF IInv, TypeOK
  <2>2. branches[b].head.author \in Handlers \cup {None}
    BY <2>1 DEF Branch, Commit
  <2> QED
    BY <1>1, <2>1, <2>2 DEF BranchInv
<1>2. IInv => BranchesCarryApprovedChange
  BY <1>1 DEF BranchesCarryApprovedChange
<1> QED
  BY <1>2, InvariantHolds, PTL

(***************************************************************************)
(* An open pull request always shows an approved change within the policy's *)
(* bounds.                                                                 *)
(***************************************************************************)
THEOREM OpenPullsShowApprovedChanges == Spec => []OpenPullShowsApprovedChange
<1>1. ASSUME IInv, NEW k \in Handlers, pulls[k] = "open"
      PROVE  /\ verdict[k] = "allowed"
             /\ branches[BranchFor(k)] # None
             /\ branches[BranchFor(k)].head.author \in Handlers
             /\ verdict[branches[BranchFor(k)].head.author] = "allowed"
             /\ branches[BranchFor(k)].head.file.limit <= 512
             /\ branches[BranchFor(k)].head.file.rest = branches[BranchFor(k)].root.file.rest
  <2> DEFINE b == BranchFor(k)
             author == branches[b].head.author
  <2>1. verdict[k] = "allowed" /\ b \in Branches
    BY <1>1, OpenerIsAllowed
  <2>2. branches[b] # None /\ author \in Handlers
    BY <1>1 DEF IInv, PullInv
  <2>3. /\ verdict[author] = "allowed"
        /\ branches[b].head.file.limit = body[author].change.after
        /\ branches[b].head.file.rest = branches[b].root.file.rest
    BY <1>1, <2>1, <2>2 DEF IInv, BranchInv
  <2> HIDE DEF author
  <2>4. PolicyAllows(body[author], Report[body[author].investigation].cause, observed[author])
    BY <1>1, <2>2, <2>3 DEF IInv, VerdictInv
  <2>5. body[author].change.after <= 512
    BY <2>4, AllowedIsBoundedRepair DEF ResourceChangeSafe
  <2> QED
    BY <2>1, <2>2, <2>3, <2>5 DEF author
<1>2. IInv => OpenPullShowsApprovedChange
  BY <1>1 DEF OpenPullShowsApprovedChange
<1> QED
  BY <1>2, InvariantHolds, PTL

(* Every stored evaluation tells the truth about the repository.           *)
THEOREM LedgerIsTrue == Spec => []LedgerMatchesRepository
<1>1. ASSUME IInv, NEW h \in Handlers, ledger[h] # None
      PROVE  RowTrue(ledger[h], h) /\ (verdict[h] = "denied" => ~Wrote(h))
  BY <1>1 DEF IInv, EffectInv
<1>2. IInv => LedgerMatchesRepository
  BY <1>1 DEF LedgerMatchesRepository, RowTrue
<1> QED
  BY <1>2, InvariantHolds, PTL

(* Only a person or the policy chooses the limit on the base branch.       *)
THEOREM BaseLimitsAreApproved == Spec => []BaseLimitWasApproved
<1>1. IInv => BaseLimitWasApproved
  BY DEF IInv
<1> QED
  BY <1>1, InvariantHolds, PTL
=============================================================================
