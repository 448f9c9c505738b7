----------------------- MODULE RemediationProperties -----------------------
(***************************************************************************)
(* What the remediation pipeline promises.                                 *)
(***************************************************************************)
EXTENDS Remediation

Labels ==
    {"idle", "evaluate", "find_pull", "base_ref", "base_content", "find_ref", "create_ref",
     "branch_content", "update_content", "create_pull", "find_pull_again", "save", "done"}

ReadFailures ==
    {"github_not_configured", "github_pr_lookup_failed", "github_base_ref_failed",
     "github_content_read_failed", "patch_not_applicable", "github_branch_lookup_failed",
     "github_branch_content_failed", "github_branch_diverged"}

WriteFailures ==
    {"github_branch_create_failed", "github_commit_failed", "github_pr_create_failed"}

Row ==
    {Denied} \cup {Failed(code) : code \in ReadFailures \cup WriteFailures}
             \cup [status : {"PR_CREATED"}, code : {""}, pull : Handlers, commit : Commit]

Locals ==
    [baseSHA   : Commit \cup {None}, baseFile  : File \cup {None},
     branchSHA : Commit \cup {None}, commitSHA : Commit \cup {None}]

(* Type correctness of handlers, repository and stored evaluations.        *)
TypeOK ==
    /\ pc \in [Handlers -> Labels]
    /\ body \in [Handlers -> Requests \cup {None}]
    /\ cancelled \subseteq Handlers
    /\ observed \in [Handlers -> Quantity]
    /\ verdict \in [Handlers -> {None, "allowed", "denied"}]
    /\ local \in [Handlers -> Locals]
    /\ outcome \in [Handlers -> Row \cup {None}]
    /\ response \in [Handlers -> {None, 201, 422, 503}]
    /\ ledger \in [Handlers -> Row \cup {None}]
    /\ base \in Commit
    /\ branches \in [Branches -> Branch \cup {None}]
    /\ pulls \in [Handlers -> {"none", "open", "merged", "closed"}]
    /\ trunk \subseteq Handlers
    /\ interventions \in 0..MaxInterventions

(* The commits of handler h that are in the repository.                    *)
Wrote(h) ==
    \/ pulls[h] # "none"
    \/ h \in trunk
    \/ \E b \in Branches : branches[b] # None /\ branches[b].head.author = h

(***************************************************************************)
(* Whatever interleaving of handlers, faults, merges and pushes produced   *)
(* it, the content of a remediation branch is a snapshot of the base or    *)
(* that snapshot with the one scalar a policy-approved handler of the same *)
(* branch was allowed to set: nothing of a denied proposal, of a stale     *)
(* base or of a lost race is ever committed.                               *)
(***************************************************************************)
BranchesCarryApprovedChange ==
    \A b \in Branches : branches[b] # None =>
        LET head == branches[b].head  root == branches[b].root
        IN  \/ head = root
            \/ /\ head.author \in Handlers
               /\ verdict[head.author] = "allowed"
               /\ BranchFor(head.author) = b
               /\ head.file.limit = body[head.author].change.after
               /\ head.file.rest = root.file.rest

(***************************************************************************)
(* A reviewer is never shown an empty pull request or one that changes     *)
(* anything but the memory limit: an open one has a branch whose head is   *)
(* an approved commit, also when the opener was not the committer.         *)
(***************************************************************************)
OpenPullShowsApprovedChange ==
    \A k \in Handlers : pulls[k] = "open" =>
        LET b == BranchFor(k)
        IN  /\ verdict[k] = "allowed"
            /\ branches[b] # None
            /\ branches[b].head.author \in Handlers
            /\ verdict[branches[b].head.author] = "allowed"
            /\ branches[b].head.file.limit <= 512
            /\ branches[b].head.file.rest = branches[b].root.file.rest

(***************************************************************************)
(* A stored evaluation tells the truth about the repository: PR_CREATED    *)
(* names a pull request that an allowed handler really opened from the     *)
(* branch of this investigation (also when it was found, not created); a   *)
(* denial, or a failure before the first write, left no commit and no      *)
(* pull request behind.                                                    *)
(***************************************************************************)
LedgerMatchesRepository ==
    \A h \in Handlers : ledger[h] # None =>
        /\ ledger[h].status = "PR_CREATED" =>
             /\ verdict[h] = "allowed"
             /\ pulls[ledger[h].pull] # "none"
             /\ verdict[ledger[h].pull] = "allowed"
             /\ BranchFor(ledger[h].pull) = BranchFor(h)
        /\ ledger[h].status = "POLICY_DENIED" => ~Wrote(h)
        /\ ledger[h].code \in ReadFailures => ~Wrote(h)

(***************************************************************************)
(* However often people merge, revert and edit, and whatever was approved  *)
(* earlier, the limit on the base branch (what Argo CD deploys) is one a   *)
(* person chose, or one the policy approved as a single raise of a limit   *)
(* that evidence cited by the request really shows: at most four times     *)
(* that limit and at most 512 MiB.  Approvals do not compound: a merged    *)
(* repair is not the "before" of the next one until evidence shows it.     *)
(***************************************************************************)
BaseLimitWasApproved ==
    \/ base.file.limit \in {InitialFile.limit} \cup {f.limit : f \in HumanFiles}
    \/ \E h \in Handlers :
         /\ verdict[h] = "allowed"
         /\ base.file.limit = body[h].change.after
         /\ body[h].change.before = observed[h]
         /\ \E row \in CitedRows(body[h]) : observed[h] \in row.limits
         /\ base.file.limit \in observed[h] + 1 .. 4 * observed[h]
         /\ base.file.limit <= 512

(***************************************************************************)
(* Retrying the same repair resumes whatever an earlier attempt left (an   *)
(* empty branch, a commit without a pull request): the branch is reported  *)
(* diverged only if the base has moved since or someone proposed another   *)
(* value for the same branch.                                              *)
(***************************************************************************)
RetryResumes ==
    \A h \in Handlers :
        ledger[h] # None /\ ledger[h].code = "github_branch_diverged" =>
            \/ base.rev > 0
            \/ \E k \in Handlers : /\ body[k] # None
                                   /\ BranchFor(k) = BranchFor(h)
                                   /\ body[k].change.after # body[h].change.after

(***************************************************************************)
(* A retry repairs: when a configured handler whose calls do not fail      *)
(* starts after every other one has ended (answered, timed out or killed   *)
(* between any two calls), it ends with a stored PR_CREATED for the same   *)
(* repair.  (Stated for one proposal and nobody touching the repository.)  *)
(***************************************************************************)
Completes(h) ==
    [](/\ pc[h] = "idle"
       /\ \A k \in Handlers \ {h} : pc[k] = "done"
       => [](pc[h] = "done" => ledger[h] # None /\ ledger[h].status = "PR_CREATED"))

RetryCompletes ==
    \A h \in Configured \ (Faulty \cup Crashable \cup Cancellable) : Completes(h)

(* Every request received is answered, or its process died.                *)
EveryRequestEnds == \A h \in Handlers : pc[h] # "idle" ~> pc[h] = "done"

-----------------------------------------------------------------------------
(* Statements of the repository's documents and tests that do not hold.    *)

(***************************************************************************)
(* "OPA permits exactly the 48Mi to 128Mi memory limit repair ...; broader *)
(* changes are denied" (README.md:207-208): a proposal the policy allows   *)
(* in the demo is that one.                                                *)
(***************************************************************************)
PolicyPermitsOnlyTheRepair ==
    \A h \in Handlers : verdict[h] = "allowed" =>
        body[h].change.before = 48 /\ body[h].change.after = 128

(***************************************************************************)
(* "creates a GitHub PR only if allowed; emits an audit record": a pull    *)
(* request whose handler has ended is named by a stored evaluation.        *)
(***************************************************************************)
PullsAreAudited ==
    \A k \in Handlers : pulls[k] # "none" /\ pc[k] = "done" =>
        \E h \in Handlers : ledger[h] # None /\ ledger[h].pull = k

(***************************************************************************)
(* "generated PR contains only intended changes": when an evaluation is    *)
(* stored as PR_CREATED, the commit it records sets the limit its own      *)
(* proposal asked for.                                                     *)
(***************************************************************************)
RecordedPullCarriesProposal ==
    \A h \in Handlers :
        ledger[h] # None /\ ledger[h].status = "PR_CREATED" /\ ledger[h].pull # h =>
            ledger[h].commit.file.limit = body[h].change.after

(***************************************************************************)
(* The commit recorded for a pull request the handler created itself is a  *)
(* remediation commit, as the client's test expects.                       *)
(***************************************************************************)
RecordedCommitIsRemediation ==
    \A h \in Handlers :
        ledger[h] # None /\ ledger[h].status = "PR_CREATED" /\ ledger[h].pull = h =>
            ledger[h].commit.author # None
=============================================================================
