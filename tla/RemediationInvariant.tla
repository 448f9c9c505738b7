----------------------- MODULE RemediationInvariant ------------------------
(***************************************************************************)
(* The inductive invariant behind the safety theorems: what each program   *)
(* counter says about a handler's locals, verdict and effects, and what    *)
(* the repository holds.                                                   *)
(***************************************************************************)
EXTENDS RemediationProperties

BeforeCommit ==
    {"find_pull", "base_ref", "base_content", "find_ref", "create_ref",
     "branch_content", "update_content"}

InGitHub == BeforeCommit \cup {"create_pull", "find_pull_again"}

BaseRefRead == {"base_content", "find_ref", "create_ref", "branch_content", "update_content"}

ContentRead == {"find_ref", "create_ref", "branch_content", "update_content"}

(* A row that is about to be, or has been, saved by h tells the truth.     *)
RowTrue(row, h) ==
    /\ row.status = "PR_CREATED" =>
         /\ verdict[h] = "allowed"
         /\ pulls[row.pull] # "none"
         /\ verdict[row.pull] = "allowed"
         /\ BranchFor(row.pull) = BranchFor(h)
    /\ row.status = "PR_FAILED" => verdict[h] = "allowed"
    /\ row.status = "POLICY_DENIED" => verdict[h] = "denied"
    /\ row.code \in ReadFailures => ~Wrote(h)

ControlInv(h) ==
    /\ pc[h] = "idle" => body[h] = None
    /\ pc[h] # "idle" => body[h] \in Requests
    /\ pc[h] \in {"idle", "evaluate"} => verdict[h] = None
    /\ pc[h] \in InGitHub => verdict[h] = "allowed"
    /\ pc[h] # "done" => ledger[h] = None

LocalInv(h) ==
    /\ pc[h] \in BaseRefRead => local[h].baseSHA \in Commit /\ local[h].baseSHA.author = None
    /\ pc[h] \in ContentRead => local[h].baseFile \in File
    /\ pc[h] = "branch_content" => local[h].branchSHA \in Commit
    /\ pc[h] = "create_pull" => local[h].commitSHA \in Commit

(* Effects need the verdict, and come only once the calls before the first *)
(* write are behind the handler.                                           *)
EffectInv(h) ==
    /\ verdict[h] # "allowed" => ~Wrote(h)
    /\ pc[h] \in BeforeCommit => ~Wrote(h)
    /\ pc[h] = "create_pull" => pulls[h] = "none"
    /\ pc[h] = "save" => outcome[h] \in Row /\ RowTrue(outcome[h], h)
    /\ ledger[h] # None => ledger[h] \in Row /\ RowTrue(ledger[h], h)

(* A verdict is the policy's, for the limit found in evidence.             *)
VerdictInv(h) ==
    /\ verdict[h] = "allowed" =>
         /\ body[h] \in Requests
         /\ observed[h] \in ObservedLimits(body[h])
         /\ PolicyAllows(body[h], Report[body[h].investigation].cause, observed[h])
    /\ verdict[h] = "denied" =>
         ~PolicyAllows(body[h], Report[body[h].investigation].cause, observed[h])

BranchInv(b) ==
    branches[b] # None =>
        /\ branches[b].head.file.rest = branches[b].root.file.rest
        /\ branches[b].head.author \in Handlers =>
             /\ verdict[branches[b].head.author] = "allowed"
             /\ BranchFor(branches[b].head.author) = b
             /\ branches[b].head.file.limit = body[branches[b].head.author].change.after
        /\ branches[b].head.author = None => branches[b].head = branches[b].root

PullInv(k) ==
    pulls[k] = "open" =>
        /\ branches[BranchFor(k)] # None
        /\ branches[BranchFor(k)].head.author \in Handlers
        /\ \A j \in Handlers : pulls[j] = "open" /\ BranchFor(j) = BranchFor(k) => j = k

IInv ==
    /\ TypeOK
    /\ \A h \in Handlers : /\ ControlInv(h)
                           /\ LocalInv(h)
                           /\ EffectInv(h)
                           /\ VerdictInv(h)
                           /\ PullInv(h)
    /\ \A b \in Branches : BranchInv(b)
    /\ base.author = None
    /\ BaseLimitWasApproved
=============================================================================
