----------------------- MODULE RemediationRetryProofs ----------------------
(***************************************************************************)
(* Theorems about retries: a handler finds its branch diverged only for a  *)
(* reason (Justified), and one that starts when all others have ended is   *)
(* never refused by what they left (OnItsWay).                             *)
(***************************************************************************)
EXTENDS RemediationProofs

(***************************************************************************)
(* What justifies that h reports its branch as diverged.                   *)
(***************************************************************************)
Justified(h) ==
    \/ base.rev > 0
    \/ \E k \in Handlers : /\ body[k] # None
                           /\ BranchFor(k) = BranchFor(h)
                           /\ body[k].change.after # body[h].change.after

(* Until the base moves, it is what every handler has read and what every  *)
(* branch starts from.                                                     *)
UntouchedInv ==
    base.rev = 0 =>
        /\ base.file = InitialFile
        /\ \A h \in Handlers :
              /\ pc[h] \in BaseRefRead => local[h].baseSHA.file = InitialFile
              /\ pc[h] \in ContentRead => local[h].baseFile = InitialFile
        /\ \A b \in Branches : branches[b] # None => branches[b].root.file = InitialFile

DivergedInv ==
    \A h \in Handlers :
        /\ pc[h] = "save" /\ outcome[h].code = "github_branch_diverged" => Justified(h)
        /\ ledger[h] # None /\ ledger[h].code = "github_branch_diverged" => Justified(h)

ResumeInv == UntouchedInv /\ DivergedInv

-----------------------------------------------------------------------------
LEMMA InitResumes == ASSUME Init PROVE ResumeInv
BY DEF Init, ResumeInv, UntouchedInv, DivergedInv, BaseRefRead, ContentRead

(* Bodies are decoded once, and the base moves forward.                    *)
LEMMA JustifiedStays ==
    ASSUME NEW h \in Handlers, body[h] # None, Justified(h),
           base.rev > 0 => base'.rev > 0,
           \A k \in Handlers : body[k] # None => body'[k] = body[k]
    PROVE  Justified(h)'
BY DEF Justified, BranchFor

LEMMA ServedHasBody ==
    ASSUME IInv, NEW h \in Handlers, pc[h] # "idle"
    PROVE  body[h] \in Requests /\ body[h] # None
BY ConstantsAssumption DEF IInv, ControlInv

(* What a step has to do to leave rows justified.                          *)
LEMMA DivergedKeeps ==
    ASSUME IInv, DivergedInv, base.rev > 0 => base'.rev > 0,
           \A k \in Handlers : body[k] # None => body'[k] = body[k],
           \A h \in Handlers : pc'[h] = "save" /\ outcome'[h].code = "github_branch_diverged" =>
               /\ pc[h] # "idle"
               /\ (pc[h] = "save" /\ outcome'[h] = outcome[h]) \/ Justified(h),
           \A h \in Handlers : ledger'[h] = ledger[h] \/ (pc[h] = "save" /\ ledger'[h] = outcome[h])
    PROVE  DivergedInv'
<1>1. ASSUME NEW h \in Handlers, pc'[h] = "save", outcome'[h].code = "github_branch_diverged"
      PROVE  Justified(h)'
  <2>1. pc[h] # "idle" /\ Justified(h)
    BY <1>1 DEF DivergedInv
  <2> QED
    BY <2>1, ServedHasBody, JustifiedStays
<1>2. ASSUME NEW h \in Handlers, ledger'[h] # None, ledger'[h].code = "github_branch_diverged"
      PROVE  Justified(h)'
  <2>1. pc[h] # "idle" /\ Justified(h)
    BY <1>2 DEF DivergedInv, IInv, ControlInv
  <2> QED
    BY <2>1, ServedHasBody, JustifiedStays
<1> QED
  BY <1>1, <1>2 DEF DivergedInv, Justified, BranchFor

(* A step of h that leaves the base where it is.                           *)
LEMMA UntouchedKeeps ==
    ASSUME UntouchedInv, NEW h \in Handlers, UNCHANGED base,
           \A k \in Handlers \ {h} : pc'[k] = pc[k] /\ local'[k] = local[k],
           pc'[h] \in BaseRefRead =>
               \/ local'[h].baseSHA.file = base.file
               \/ pc[h] \in BaseRefRead /\ local'[h].baseSHA = local[h].baseSHA,
           pc'[h] \in ContentRead =>
               \/ local'[h].baseFile = base.file
               \/ pc[h] \in ContentRead /\ local'[h].baseFile = local[h].baseFile,
           \A b \in Branches : branches'[b] # None =>
               \/ branches[b] # None /\ branches'[b].root = branches[b].root
               \/ pc[h] \in BaseRefRead /\ branches'[b].root = local[h].baseSHA
    PROVE  UntouchedInv'
<1> SUFFICES ASSUME base.rev = 0
             PROVE  UntouchedInv'
  BY DEF UntouchedInv
<1>1. base'.file = InitialFile /\ base.file = InitialFile
  BY DEF UntouchedInv
<1>2. \A k \in Handlers : /\ pc'[k] \in BaseRefRead => local'[k].baseSHA.file = InitialFile
                          /\ pc'[k] \in ContentRead => local'[k].baseFile = InitialFile
  BY <1>1 DEF UntouchedInv
<1>3. \A b \in Branches : branches'[b] # None => branches'[b].root.file = InitialFile
  BY DEF UntouchedInv
<1> QED
  BY <1>1, <1>2, <1>3 DEF UntouchedInv, BaseRefRead, ContentRead

LEMMA GotoMoves ==
    ASSUME IInv, NEW h \in Handlers, NEW label, Goto(h, label)
    PROVE  pc'[h] = label /\ \A k \in Handlers \ {h} : pc'[k] = pc[k]
BY DEF IInv, TypeOK, Goto

LEMMA RemembersMoves ==
    ASSUME IInv, NEW h \in Handlers, NEW field \in {"baseSHA", "baseFile", "branchSHA", "commitSHA"},
           NEW value, Remember(h, field, value)
    PROVE  /\ \A k \in Handlers \ {h} : local'[k] = local[k]
           /\ local'[h][field] = value
           /\ \A f \in {"baseSHA", "baseFile", "branchSHA", "commitSHA"} \ {field} :
                 local'[h][f] = local[h][f]
BY DEF IInv, TypeOK, Remember, Locals

LEMMA ConcludeMoves ==
    ASSUME IInv, NEW h \in Handlers, NEW row, Conclude(h, row)
    PROVE  /\ pc'[h] = "save" /\ outcome'[h] = row
           /\ \A k \in Handlers \ {h} : pc'[k] = pc[k] /\ outcome'[k] = outcome[k]
BY DEF IInv, TypeOK, Goto, Conclude

-----------------------------------------------------------------------------
(***************************************************************************)
(* Calls that end with a row, and calls that lead to the next one.         *)
(***************************************************************************)
RootsFrom(h) ==
    \A b \in Branches : branches'[b] # None =>
        \/ branches[b] # None /\ branches'[b].root = branches[b].root
        \/ pc[h] \in BaseRefRead /\ branches'[b].root = local[h].baseSHA

LEMMA ConcludeResumes ==
    ASSUME IInv, ResumeInv, NEW h \in Handlers, pc[h] # "idle",
           NEW row, row.code = "github_branch_diverged" => Justified(h),
           Conclude(h, row), RootsFrom(h), UNCHANGED <<body, local, ledger, base>>
    PROVE  ResumeInv'
<1>1. /\ pc'[h] = "save" /\ outcome'[h] = row
      /\ \A k \in Handlers \ {h} : pc'[k] = pc[k] /\ outcome'[k] = outcome[k]
  BY ConcludeMoves
<1>2. pc'[h] \notin BaseRefRead /\ pc'[h] \notin ContentRead
  BY <1>1 DEF BaseRefRead, ContentRead
<1>3. UntouchedInv'
  BY <1>1, <1>2, UntouchedKeeps DEF ResumeInv, RootsFrom
<1>4. ASSUME NEW k \in Handlers, pc'[k] = "save", outcome'[k].code = "github_branch_diverged"
      PROVE  pc[k] # "idle" /\ ((pc[k] = "save" /\ outcome'[k] = outcome[k]) \/ Justified(k))
  BY <1>1, <1>4
<1>5. DivergedInv'
  BY <1>4, DivergedKeeps DEF ResumeInv
<1> QED
  BY <1>3, <1>5 DEF ResumeInv

LEMMA AdvanceResumes ==
    ASSUME IInv, ResumeInv, NEW h \in Handlers, NEW label, label # "save",
           Goto(h, label), RootsFrom(h), UNCHANGED <<body, outcome, ledger, base>>,
           \A k \in Handlers \ {h} : local'[k] = local[k],
           label \in BaseRefRead =>
               \/ local'[h].baseSHA.file = base.file
               \/ pc[h] \in BaseRefRead /\ local'[h].baseSHA = local[h].baseSHA,
           label \in ContentRead =>
               \/ local'[h].baseFile = base.file
               \/ pc[h] \in ContentRead /\ local'[h].baseFile = local[h].baseFile
    PROVE  ResumeInv'
<1>1. pc'[h] = label /\ \A k \in Handlers \ {h} : pc'[k] = pc[k]
  BY GotoMoves
<1>2. UntouchedInv'
  BY <1>1, UntouchedKeeps DEF ResumeInv, RootsFrom
<1>3. ASSUME NEW k \in Handlers, pc'[k] = "save"
      PROVE  pc[k] = "save" /\ outcome'[k] = outcome[k]
  BY <1>1, <1>3
<1>4. DivergedInv'
  BY <1>3, DivergedKeeps DEF ResumeInv
<1> QED
  BY <1>2, <1>4 DEF ResumeInv

LEMMA SameRoots == ASSUME NEW h, UNCHANGED branches PROVE RootsFrom(h)
BY DEF RootsFrom

(* Errors other than a divergence.                                         *)
LEMMA FailResumes ==
    ASSUME IInv, ResumeInv, NEW h \in Handlers, pc[h] # "idle",
           NEW code, code # "github_branch_diverged",
           Fail(h, code), RootsFrom(h), UNCHANGED <<body, ledger, base>>
    PROVE  ResumeInv'
BY ConcludeResumes DEF Fail, Failed

LEMMA FoundResumes ==
    ASSUME IInv, ResumeInv, NEW h \in Handlers, pc[h] # "idle", NEW k, NEW commit,
           Conclude(h, Created(k, commit)), UNCHANGED <<body, local, ledger, base, branches>>
    PROVE  ResumeInv'
BY ConcludeResumes, SameRoots DEF Created

-----------------------------------------------------------------------------
(***************************************************************************)
(* The calls, one by one.                                                  *)
(***************************************************************************)
LEMMA FindPullResumes == ASSUME IInv, ResumeInv, NEW h \in Handlers, FindPull(h) PROVE ResumeInv'
<1>1. /\ pc[h] = "find_pull" /\ pc[h] # "idle"
      /\ RootsFrom(h) /\ UNCHANGED <<body, ledger, base, branches>>
  BY SameRoots DEF FindPull, callerUnchanged
<1>2. CASE Goto(h, "base_ref") /\ UNCHANGED <<outcome, local>>
  BY <1>1, <1>2, AdvanceResumes DEF BaseRefRead, ContentRead
<1>3. CASE /\ \E k \in OpenPulls(BranchFor(h)) : Conclude(h, Created(k, branches[BranchFor(h)].head))
           /\ UNCHANGED local
  BY <1>1, <1>3, FoundResumes
<1>4. CASE Fail(h, "github_pr_lookup_failed")
  BY <1>1, <1>4, FailResumes
<1> QED
  BY <1>2, <1>3, <1>4 DEF FindPull

LEMMA GetBaseRefResumes == ASSUME IInv, ResumeInv, NEW h \in Handlers, GetBaseRef(h) PROVE ResumeInv'
<1>1. pc[h] = "base_ref" /\ pc[h] # "idle" /\ RootsFrom(h) /\ UNCHANGED <<body, ledger, base>>
  BY SameRoots DEF GetBaseRef, callerUnchanged
<1>2. CASE Remember(h, "baseSHA", base) /\ Goto(h, "base_content") /\ UNCHANGED outcome
  <2>1. (\A k \in Handlers \ {h} : local'[k] = local[k]) /\ local'[h].baseSHA = base
    BY <1>2, RemembersMoves
  <2> QED
    BY <1>1, <1>2, <2>1, AdvanceResumes DEF ContentRead
<1>3. CASE Fail(h, "github_base_ref_failed")
  BY <1>1, <1>3, FailResumes
<1> QED
  BY <1>2, <1>3 DEF GetBaseRef

LEMMA GetBaseContentResumes ==
    ASSUME IInv, ResumeInv, NEW h \in Handlers, GetBaseContent(h) PROVE ResumeInv'
<1>1. pc[h] = "base_content" /\ pc[h] # "idle" /\ RootsFrom(h) /\ UNCHANGED <<body, ledger, base>>
  BY SameRoots DEF GetBaseContent, callerUnchanged
<1>2. CASE Remember(h, "baseFile", base.file) /\ Goto(h, "find_ref") /\ UNCHANGED outcome
  <2>1. /\ \A k \in Handlers \ {h} : local'[k] = local[k]
        /\ local'[h].baseFile = base.file /\ local'[h].baseSHA = local[h].baseSHA
    BY <1>2, RemembersMoves
  <2> QED
    BY <1>1, <1>2, <2>1, AdvanceResumes DEF BaseRefRead
<1>3. CASE Fail(h, "patch_not_applicable") \/ Fail(h, "github_content_read_failed")
  BY <1>1, <1>3, FailResumes
<1> QED
  BY <1>2, <1>3 DEF GetBaseContent

LEMMA FindRefResumes == ASSUME IInv, ResumeInv, NEW h \in Handlers, FindRef(h) PROVE ResumeInv'
<1>1. /\ pc[h] = "find_ref" /\ pc[h] # "idle" /\ pc[h] \in BaseRefRead /\ pc[h] \in ContentRead
      /\ RootsFrom(h) /\ UNCHANGED <<body, ledger, base>>
  BY SameRoots DEF FindRef, callerUnchanged, BaseRefRead, ContentRead
<1>2. CASE Goto(h, "create_ref") /\ UNCHANGED <<outcome, local>>
  BY <1>1, <1>2, AdvanceResumes
<1>3. CASE /\ Remember(h, "branchSHA", branches[BranchFor(h)].head)
           /\ Goto(h, "branch_content") /\ UNCHANGED outcome
  <2>1. /\ \A k \in Handlers \ {h} : local'[k] = local[k]
        /\ local'[h].baseFile = local[h].baseFile /\ local'[h].baseSHA = local[h].baseSHA
    BY <1>3, RemembersMoves
  <2> QED
    BY <1>1, <1>3, <2>1, AdvanceResumes
<1>4. CASE Fail(h, "github_branch_lookup_failed")
  BY <1>1, <1>4, FailResumes
<1> QED
  BY <1>2, <1>3, <1>4 DEF FindRef

LEMMA CreateRefResumes == ASSUME IInv, ResumeInv, NEW h \in Handlers, CreateRef(h) PROVE ResumeInv'
<1>1. /\ pc[h] = "create_ref" /\ pc[h] # "idle" /\ pc[h] \in BaseRefRead /\ pc[h] \in ContentRead
      /\ UNCHANGED <<body, ledger, base>>
  BY DEF CreateRef, callerUnchanged, BaseRefRead, ContentRead
<1>2. RootsFrom(h)
  <2>1. CASE UNCHANGED branches
    BY <2>1, SameRoots
  <2>2. CASE branches' = [branches EXCEPT ![BranchFor(h)] =
                             [root |-> local[h].baseSHA, head |-> local[h].baseSHA]]
    BY <1>1, <2>2 DEF RootsFrom, IInv, TypeOK
  <2> QED
    BY <2>1, <2>2 DEF CreateRef
<1>3. CASE Goto(h, "update_content") /\ UNCHANGED <<outcome, local>>
  BY <1>1, <1>2, <1>3, AdvanceResumes
<1>4. CASE Fail(h, "github_branch_create_failed")
  BY <1>1, <1>2, <1>4, FailResumes
<1> QED
  BY <1>3, <1>4 DEF CreateRef

(* The manifest of a branch, while the base has not moved: the base's, or  *)
(* the one its committer was allowed to write.                             *)
LEMMA BranchFiles ==
    ASSUME IInv, ResumeInv, base.rev = 0, NEW b \in Branches, branches[b] # None
    PROVE  \/ branches[b].head.author = None /\ branches[b].head.file = InitialFile
           \/ \E k \in Handlers :
                 /\ branches[b].head.author = k
                 /\ body[k] \in Requests /\ body[k] # None /\ verdict[k] = "allowed"
                 /\ BranchFor(k) = b
                 /\ branches[b].head.file = [InitialFile EXCEPT !.limit = body[k].change.after]
<1>1. /\ branches[b] \in Branch
      /\ branches[b].head.file.rest = branches[b].root.file.rest
      /\ branches[b].root.file = InitialFile
  BY DEF IInv, TypeOK, BranchInv, ResumeInv, UntouchedInv
<1>2. branches[b].head.file \in File /\ branches[b].head.author \in Handlers \cup {None}
  BY <1>1 DEF Branch, Commit
<1>3. CASE branches[b].head.author = None
  <2>1. branches[b].head = branches[b].root
    BY <1>3 DEF IInv, BranchInv
  <2> QED
    BY <1>1, <1>3, <2>1
<1>4. CASE branches[b].head.author \in Handlers
  <2> DEFINE k == branches[b].head.author
  <2>1. /\ verdict[k] = "allowed" /\ BranchFor(k) = b
        /\ branches[b].head.file.limit = body[k].change.after
    BY <1>4 DEF IInv, BranchInv
  <2>2. body[k] \in Requests /\ body[k] # None
    BY <1>4, <2>1, ConstantsAssumption DEF IInv, VerdictInv
  <2>3. branches[b].head.file = [limit |-> branches[b].head.file.limit, rest |-> InitialFile.rest]
    BY <1>1, <1>2 DEF File
  <2>4. InitialFile = [limit |-> InitialFile.limit, rest |-> InitialFile.rest]
    BY ConstantsAssumption
  <2>5. [InitialFile EXCEPT !.limit = body[k].change.after] =
            [limit |-> body[k].change.after, rest |-> InitialFile.rest]
    BY <2>4
  <2> QED
    BY <1>4, <2>1, <2>2, <2>3, <2>5
<1> QED
  BY <1>2, <1>3, <1>4

LEMMA DivergenceIsJustified ==
    ASSUME IInv, ResumeInv, NEW h \in Handlers, pc[h] = "branch_content",
           branches[BranchFor(h)] # None,
           branches[BranchFor(h)].head.file \notin {local[h].baseFile, Patched(h, local[h].baseFile)}
    PROVE  Justified(h)
<1>1. BranchFor(h) \in Branches
  BY ServedHasBody, BranchForIsBranch
<1>2. CASE base.rev = 0
  <2>1. local[h].baseFile = InitialFile
    BY <1>2 DEF ResumeInv, UntouchedInv, ContentRead
  <2>2. PICK k \in Handlers :
            /\ body[k] # None /\ BranchFor(k) = BranchFor(h)
            /\ branches[BranchFor(h)].head.file = [InitialFile EXCEPT !.limit = body[k].change.after]
    BY <1>1, <1>2, <2>1, BranchFiles
  <2>3. body[k].change.after # body[h].change.after
    BY <2>1, <2>2 DEF Patched
  <2> QED
    BY <2>2, <2>3 DEF Justified
<1>3. CASE base.rev # 0
  <2>1. base.rev \in Nat
    BY DEF IInv, TypeOK, Commit
  <2> QED
    BY <1>3, <2>1 DEF Justified
<1> QED
  BY <1>2, <1>3

LEMMA GetBranchContentResumes ==
    ASSUME IInv, ResumeInv, NEW h \in Handlers, GetBranchContent(h) PROVE ResumeInv'
<1>1. /\ pc[h] = "branch_content" /\ pc[h] # "idle"
      /\ pc[h] \in BaseRefRead /\ pc[h] \in ContentRead
      /\ RootsFrom(h) /\ UNCHANGED <<body, ledger, base>>
  BY SameRoots DEF GetBranchContent, callerUnchanged, BaseRefRead, ContentRead
<1>2. CASE /\ Remember(h, "commitSHA", local[h].branchSHA)
           /\ Goto(h, "create_pull") /\ UNCHANGED outcome
  <2>1. \A k \in Handlers \ {h} : local'[k] = local[k]
    BY <1>2, RemembersMoves
  <2> QED
    BY <1>1, <1>2, <2>1, AdvanceResumes DEF BaseRefRead, ContentRead
<1>3. CASE Goto(h, "update_content") /\ UNCHANGED <<outcome, local>>
  BY <1>1, <1>3, AdvanceResumes
<1>4. CASE /\ branches[BranchFor(h)] # None
           /\ branches[BranchFor(h)].head.file \notin
                 {local[h].baseFile, Patched(h, local[h].baseFile)}
           /\ Fail(h, "github_branch_diverged")
  <2>1. Justified(h)
    BY <1>1, <1>4, DivergenceIsJustified
  <2> QED
    BY <1>1, <1>4, <2>1, ConcludeResumes DEF Fail
<1>5. CASE Fail(h, "github_branch_content_failed")
  BY <1>1, <1>5, FailResumes
<1> QED
  BY <1>2, <1>3, <1>4, <1>5 DEF GetBranchContent

LEMMA UpdateContentResumes ==
    ASSUME IInv, ResumeInv, NEW h \in Handlers, UpdateContent(h) PROVE ResumeInv'
<1> DEFINE commit == [author |-> h, rev |-> 0, file |-> Patched(h, local[h].baseFile)]
<1>1. pc[h] = "update_content" /\ pc[h] # "idle" /\ UNCHANGED <<body, ledger, base>>
  BY DEF UpdateContent, callerUnchanged
<1>2. \/ UNCHANGED branches
      \/ /\ branches[BranchFor(h)] # None
         /\ branches' = [branches EXCEPT ![BranchFor(h)].head = commit]
  BY DEF UpdateContent
<1>3. RootsFrom(h)
  <2>1. CASE UNCHANGED branches
    BY <2>1, SameRoots
  <2>2. CASE /\ branches[BranchFor(h)] # None
             /\ branches' = [branches EXCEPT ![BranchFor(h)].head = commit]
    <3> HIDE DEF commit
    <3>1. ASSUME NEW b \in Branches, branches'[b] # None
          PROVE  branches[b] # None /\ branches'[b].root = branches[b].root
      <4>1. CASE b = BranchFor(h)
        <5>1. branches[b] \in Branch
          BY <2>2, <4>1 DEF IInv, TypeOK
        <5>2. branches'[b] = [branches[b] EXCEPT !.head = commit]
          BY <2>2, <4>1 DEF IInv, TypeOK
        <5> QED
          BY <2>2, <4>1, <5>1, <5>2 DEF Branch
      <4>2. CASE b # BranchFor(h)
        BY <2>2, <3>1, <4>2 DEF IInv, TypeOK
      <4> QED
        BY <4>1, <4>2
    <3> QED
      BY <3>1 DEF RootsFrom
  <2> QED
    BY <1>2, <2>1, <2>2
<1>4. CASE Remember(h, "commitSHA", commit) /\ Goto(h, "create_pull") /\ UNCHANGED outcome
  <2>1. \A k \in Handlers \ {h} : local'[k] = local[k]
    BY <1>4, RemembersMoves
  <2> QED
    BY <1>1, <1>3, <1>4, <2>1, AdvanceResumes DEF BaseRefRead, ContentRead
<1>5. CASE Fail(h, "github_commit_failed")
  BY <1>1, <1>3, <1>5, FailResumes
<1> QED
  BY <1>4, <1>5 DEF UpdateContent

LEMMA CreatePullResumes == ASSUME IInv, ResumeInv, NEW h \in Handlers, CreatePull(h) PROVE ResumeInv'
<1>1. /\ pc[h] = "create_pull" /\ pc[h] # "idle"
      /\ RootsFrom(h) /\ UNCHANGED <<body, local, ledger, base, branches>>
  BY SameRoots DEF CreatePull, callerUnchanged
<1>2. CASE Conclude(h, Created(h, local[h].commitSHA))
  BY <1>1, <1>2, FoundResumes
<1>3. CASE Goto(h, "find_pull_again") /\ UNCHANGED outcome
  BY <1>1, <1>3, AdvanceResumes DEF BaseRefRead, ContentRead
<1> QED
  BY <1>2, <1>3 DEF CreatePull

LEMMA FindPullAgainResumes ==
    ASSUME IInv, ResumeInv, NEW h \in Handlers, FindPullAgain(h) PROVE ResumeInv'
<1>1. /\ pc[h] = "find_pull_again" /\ pc[h] # "idle"
      /\ RootsFrom(h) /\ UNCHANGED <<body, ledger, base, branches>>
  BY SameRoots DEF FindPullAgain, callerUnchanged
<1>2. CASE /\ \E k \in OpenPulls(BranchFor(h)) : Conclude(h, Created(k, branches[BranchFor(h)].head))
           /\ UNCHANGED local
  BY <1>1, <1>2, FoundResumes
<1>3. CASE Fail(h, "github_pr_create_failed")
  BY <1>1, <1>3, FailResumes
<1> QED
  BY <1>2, <1>3 DEF FindPullAgain

-----------------------------------------------------------------------------
(***************************************************************************)
(* The service around the client, and the people.                          *)
(***************************************************************************)
LEMMA ReceiveResumes == ASSUME IInv, ResumeInv, NEW h \in Handlers, Receive(h) PROVE ResumeInv'
<1>1. pc[h] = "idle" /\ UNCHANGED <<local, outcome, ledger, base, branches>>
  BY DEF Receive, worldVars, githubVars
<1>2. body[h] = None /\ \E q \in Requests : body' = [body EXCEPT ![h] = q]
  BY <1>1 DEF Receive, IInv, ControlInv
<1>3. \A k \in Handlers : body[k] # None => body'[k] = body[k]
  BY <1>2 DEF IInv, TypeOK
<1>4. pc'[h] \in {"evaluate", "done"} /\ \A k \in Handlers \ {h} : pc'[k] = pc[k]
  BY GotoMoves DEF Receive, Reply
<1>5. UntouchedInv'
  BY <1>1, <1>4, UntouchedKeeps DEF ResumeInv, BaseRefRead, ContentRead
<1>6. ASSUME NEW k \in Handlers, pc'[k] = "save"
      PROVE  pc[k] = "save" /\ outcome'[k] = outcome[k]
  BY <1>1, <1>4, <1>6
<1>7. DivergedInv'
  BY <1>1, <1>3, <1>6, DivergedKeeps DEF ResumeInv
<1> QED
  BY <1>5, <1>7 DEF ResumeInv

LEMMA EvaluateResumes == ASSUME IInv, ResumeInv, NEW h \in Handlers, Evaluate(h) PROVE ResumeInv'
<1>1. /\ pc[h] = "evaluate" /\ pc[h] # "idle" /\ RootsFrom(h)
      /\ UNCHANGED <<body, local, ledger, base>>
  BY SameRoots DEF Evaluate, worldVars, githubVars
<1>2. CASE Goto(h, "find_pull") /\ UNCHANGED outcome
  BY <1>1, <1>2, AdvanceResumes DEF BaseRefRead, ContentRead
<1>3. CASE Conclude(h, Failed("github_not_configured")) \/ Conclude(h, Denied)
  <2>1. /\ Failed("github_not_configured").code # "github_branch_diverged"
        /\ Denied.code # "github_branch_diverged"
    BY DEF Failed, Denied
  <2> QED
    BY <1>1, <1>3, <2>1, ConcludeResumes
<1>4. CASE Goto(h, "done") /\ UNCHANGED outcome
  BY <1>1, <1>4, AdvanceResumes DEF BaseRefRead, ContentRead
<1>5. CASE Decide(h, body[h])
  BY <1>2, <1>3, <1>5 DEF Decide
<1> QED
  BY <1>4, <1>5 DEF Evaluate, Reply

LEMMA EndResumes ==
    ASSUME IInv, ResumeInv, NEW h \in Handlers, Goto(h, "done"),
           UNCHANGED <<body, local, outcome, base, branches>>,
           ledger' = ledger \/ (pc[h] = "save" /\ ledger' = [ledger EXCEPT ![h] = outcome[h]])
    PROVE  ResumeInv'
<1>1. pc'[h] = "done" /\ \A k \in Handlers \ {h} : pc'[k] = pc[k]
  BY GotoMoves
<1>2. UntouchedInv'
  BY <1>1, UntouchedKeeps DEF ResumeInv, BaseRefRead, ContentRead
<1>3. ASSUME NEW k \in Handlers, pc'[k] = "save"
      PROVE  pc[k] = "save" /\ outcome'[k] = outcome[k]
  BY <1>1, <1>3
<1>4. \A k \in Handlers : ledger'[k] = ledger[k] \/ (pc[k] = "save" /\ ledger'[k] = outcome[k])
  BY DEF IInv, TypeOK
<1>5. DivergedInv'
  BY <1>3, <1>4, DivergedKeeps DEF ResumeInv
<1> QED
  BY <1>2, <1>5 DEF ResumeInv

LEMMA SaveResumes == ASSUME IInv, ResumeInv, NEW h \in Handlers, Save(h) PROVE ResumeInv'
<1>1. pc[h] = "save" /\ Goto(h, "done") /\ UNCHANGED <<body, local, outcome, base, branches>>
  BY DEF Save, Reply, worldVars, githubVars
<1>2. ledger' = ledger \/ ledger' = [ledger EXCEPT ![h] = outcome[h]]
  BY DEF Save
<1> QED
  BY <1>1, <1>2, EndResumes

LEMMA CrashResumes == ASSUME IInv, ResumeInv, NEW h \in Handlers, Crash(h) PROVE ResumeInv'
BY EndResumes DEF Crash, worldVars, githubVars

(* Nothing of what the invariant speaks of moves.                          *)
LEMMA UnmovedResumes ==
    ASSUME ResumeInv, UNCHANGED <<pc, body, local, outcome, ledger, base, branches>>
    PROVE  ResumeInv'
BY DEF ResumeInv, UntouchedInv, DivergedInv, Justified, BranchFor, BaseRefRead, ContentRead

(* People either move the base, or take branches away.                     *)
LEMMA PeopleResume == ASSUME IInv, ResumeInv, People PROVE ResumeInv'
<1>1. UNCHANGED <<pc, body, local, outcome, ledger>>
  BY DEF People, PushToBase, MergePull, ClosePull, DeleteBranch, Intervene, handlerVars
<1>2. base.rev \in Nat
  BY DEF IInv, TypeOK, Commit
<1>3. \/ base'.rev = base.rev + 1
      \/ UNCHANGED base /\ (UNCHANGED branches \/ \E b \in Branches : branches' = [branches EXCEPT ![b] = None])
  BY DEF People, PushToBase, MergePull, ClosePull, DeleteBranch
<1>4. (base.rev > 0 => base'.rev > 0) /\ (base'.rev = 0 => UNCHANGED base)
  BY <1>2, <1>3
<1>5. DivergedInv'
  BY <1>1, <1>4, DivergedKeeps DEF ResumeInv
<1>6. UntouchedInv'
  <2> SUFFICES ASSUME base'.rev = 0
               PROVE  UntouchedInv'
    BY DEF UntouchedInv
  <2>1. UNCHANGED base /\ base.rev = 0
    BY <1>4
  <2>2. \A b \in Branches : branches'[b] # None => branches[b] # None /\ branches'[b] = branches[b]
    BY <1>2, <1>3, <2>1 DEF IInv, TypeOK
  <2> QED
    BY <1>1, <2>1, <2>2 DEF ResumeInv, UntouchedInv, BaseRefRead, ContentRead
<1> QED
  BY <1>5, <1>6 DEF ResumeInv

LEMMA NextResumes == ASSUME IInv, ResumeInv, [Next]_vars PROVE ResumeInv'
<1>1. ASSUME NEW h \in Handlers, Step(h)
      PROVE  ResumeInv'
  BY <1>1, ReceiveResumes, EvaluateResumes, FindPullResumes, GetBaseRefResumes,
     GetBaseContentResumes, FindRefResumes, CreateRefResumes, GetBranchContentResumes,
     UpdateContentResumes, CreatePullResumes, FindPullAgainResumes, SaveResumes
     DEF Step
<1>2. ASSUME NEW h \in Handlers, Cancel(h)
      PROVE  ResumeInv'
  BY <1>2, UnmovedResumes DEF Cancel, worldVars, githubVars
<1>3. CASE UNCHANGED vars
  BY <1>3, UnmovedResumes DEF vars, handlerVars, worldVars, githubVars
<1> QED
  BY <1>1, <1>2, <1>3, CrashResumes, PeopleResume DEF Next, Quiescent

THEOREM RetriesResume == Spec => []ResumeInv
<1>1. Init => IInv /\ ResumeInv
  BY InitEstablishes, InitResumes
<1>2. (IInv /\ ResumeInv) /\ [Next]_vars => (IInv /\ ResumeInv)'
  BY NextPreserves, NextResumes
<1> QED
  BY <1>1, <1>2, PTL DEF Spec

(* A branch that an earlier attempt has left is resumed: it is reported    *)
(* diverged only when the base has moved or another value was proposed for *)
(* it (the three outcomes of GetBranchContent), whatever was lost between. *)
THEOREM DivergenceHasAReason == Spec => []RetryResumes
<1>1. ResumeInv => RetryResumes
  BY DEF ResumeInv, DivergedInv, RetryResumes, Justified
<1> QED
  BY <1>1, RetriesResume, PTL

-----------------------------------------------------------------------------
(***************************************************************************)
(* The requests are repairs of what the base holds, and those for one      *)
(* branch ask for one value; nobody touches the repository.                *)
(***************************************************************************)
Repairs(q) ==
    /\ ValidRequest(q)
    /\ q.investigation \in DOMAIN Report
    /\ VerifiedRootCause(q)
    /\ q.change.before = InitialFile.limit
    /\ \A limit \in ObservedLimits(q) : PolicyAllows(q, Report[q.investigation].cause, limit)

OnlyRepairs ==
    /\ MaxInterventions = 0
    /\ \A q \in Requests : Repairs(q)
    /\ \A q, r \in Requests :
          BranchOf[q.investigation] = BranchOf[r.investigation] => q.change.after = r.change.after

AloneInv ==
    /\ base.rev = 0 /\ trunk = {}
    /\ cancelled \subseteq Cancellable

Reliable == Configured \ (Faulty \cup Crashable \cup Cancellable)

(* The last handler on its way: whatever the others have left behind, no   *)
(* call of its own is refused.                                             *)
OnItsWay(h) ==
    /\ \A k \in Handlers \ {h} : pc[k] = "done"
    /\ pc[h] # "find_pull_again"
    /\ pc[h] \in (BeforeCommit \ {"find_pull"}) \cup {"create_pull"} => OpenPulls(BranchFor(h)) = {}
    /\ pc[h] = "create_ref" => branches[BranchFor(h)] = None
    /\ pc[h] \in {"branch_content", "update_content", "create_pull"} => branches[BranchFor(h)] # None
    /\ pc[h] = "update_content" => branches[BranchFor(h)].head.file = InitialFile
    /\ pc[h] = "create_pull" => branches[BranchFor(h)].head.author \in Handlers
    /\ pc[h] = "save" => outcome[h].status = "PR_CREATED"
    /\ pc[h] = "done" => ledger[h] # None /\ ledger[h].status = "PR_CREATED"

LEMMA NobodyIntervenes == ASSUME OnlyRepairs, IInv PROVE ~Intervene /\ ~People
<1>1. ~Intervene
  BY DEF OnlyRepairs, IInv, TypeOK, Intervene
<1> QED
  BY <1>1 DEF People, PushToBase, MergePull, ClosePull, DeleteBranch

LEMMA StepsLeaveAlone ==
    ASSUME NEW h \in Handlers, Step(h)
    PROVE  UNCHANGED <<base, trunk, cancelled>>
<1> USE DEF worldVars, githubVars, callerUnchanged
<1>1. CASE Receive(h) \/ Evaluate(h) \/ Save(h)
  BY <1>1 DEF Receive, Evaluate, Save
<1>2. CASE FindPull(h) \/ GetBaseRef(h) \/ GetBaseContent(h) \/ FindRef(h)
  BY <1>2 DEF FindPull, GetBaseRef, GetBaseContent, FindRef
<1>3. CASE CreateRef(h) \/ GetBranchContent(h) \/ UpdateContent(h)
  BY <1>3 DEF CreateRef, GetBranchContent, UpdateContent
<1>4. CASE CreatePull(h) \/ FindPullAgain(h)
  BY <1>4 DEF CreatePull, FindPullAgain
<1> QED
  BY <1>1, <1>2, <1>3, <1>4 DEF Step

LEMMA NextAlone == ASSUME OnlyRepairs, IInv, AloneInv, [Next]_vars PROVE AloneInv'
<1>1. ASSUME NEW h \in Handlers, Step(h) \/ Crash(h)
      PROVE  AloneInv'
  BY <1>1, StepsLeaveAlone DEF AloneInv, Crash, worldVars, githubVars
<1>2. ASSUME NEW h \in Handlers, Cancel(h)
      PROVE  AloneInv'
  BY <1>2 DEF AloneInv, Cancel, worldVars, githubVars
<1>3. CASE UNCHANGED vars
  BY <1>3 DEF AloneInv, vars, handlerVars, worldVars, githubVars
<1> QED
  BY <1>1, <1>2, <1>3, NobodyIntervenes DEF Next, Quiescent

LEMMA InitAlone == ASSUME Init PROVE AloneInv
BY DEF Init, AloneInv

-----------------------------------------------------------------------------
(***************************************************************************)
(* The calls of the last handler.                                          *)
(***************************************************************************)
LEMMA ReliableIsNotRefused ==
    ASSUME AloneInv, NEW h \in Reliable
    PROVE  /\ Alive(h) /\ h \in Handlers /\ h \in Configured /\ h \notin Faulty
           /\ ~Cancel(h) /\ ~Crash(h)
           /\ \A refused \in BOOLEAN : Errs(h, refused) <=> refused
BY ConstantsAssumption DEF AloneInv, Reliable, Alive, Cancel, Crash, Errs

(* A step to a call before which nothing is left to check.                 *)
LEMMA WayGoesOn ==
    ASSUME IInv, NEW h \in Handlers, OnItsWay(h), NEW label, Goto(h, label),
           label \in {"evaluate", "find_pull"}
    PROVE  OnItsWay(h)'
BY GotoMoves DEF OnItsWay, BeforeCommit

LEMMA PullRowIsSomething ==
    ASSUME NEW row \in Row, row.status = "PR_CREATED"
    PROVE  row # None
<1>1. row # Denied
  BY DeniedRow
<1>2. \A code : row # Failed(code)
  BY DEF Failed
<1> QED
  BY <1>1, <1>2, ConstantsAssumption DEF Row

LEMMA WayEndsWell ==
    ASSUME IInv, NEW h \in Handlers, OnItsWay(h), NEW k, NEW commit, Conclude(h, Created(k, commit))
    PROVE  OnItsWay(h)'
<1>1. pc'[h] = "save" /\ outcome'[h] = Created(k, commit) /\ \A i \in Handlers \ {h} : pc'[i] = pc[i]
  BY ConcludeMoves
<1>2. Created(k, commit).status = "PR_CREATED"
  BY DEF Created
<1> QED
  BY <1>1, <1>2 DEF OnItsWay, BeforeCommit

(* The calls that read.                                                    *)
LEMMA ReadsOnItsWay ==
    ASSUME IInv, NEW h \in Handlers, OnItsWay(h), NEW label, Goto(h, label),
           label \in {"base_ref", "base_content", "find_ref"},
           OpenPulls(BranchFor(h)) = {}, UNCHANGED <<body, pulls>>
    PROVE  OnItsWay(h)'
BY GotoMoves DEF OnItsWay, BeforeCommit, OpenPulls, BranchFor

LEMMA RequestIsRepair ==
    ASSUME OnlyRepairs, IInv, NEW h \in Handlers, pc[h] # "idle"
    PROVE  Repairs(body[h]) /\ BranchFor(h) \in Branches
BY ServedHasBody, BranchForIsBranch DEF OnlyRepairs

LEMMA ServiceOnItsWay ==
    ASSUME OnlyRepairs, IInv, AloneInv, NEW h \in Reliable, OnItsWay(h),
           Receive(h) \/ Evaluate(h) \/ Save(h)
    PROVE  OnItsWay(h)'
<1>1. /\ Alive(h) /\ h \in Handlers /\ h \in Configured /\ h \notin Faulty
      /\ \A refused \in BOOLEAN : Errs(h, refused) <=> refused
  BY ReliableIsNotRefused
<1>2. CASE Receive(h)
  <2>1. Goto(h, "evaluate")
    BY <1>2 DEF Receive, OnlyRepairs, Repairs
  <2> QED
    BY <1>1, <2>1, WayGoesOn
<1>3. CASE Evaluate(h)
  <2>1. Repairs(body[h])
    BY <1>1, <1>3, RequestIsRepair DEF Evaluate
  <2>2. Decide(h, body[h])
    BY <1>1, <1>3, <2>1 DEF Evaluate, Repairs
  <2>3. Goto(h, "find_pull")
    BY <1>1, <2>1, <2>2 DEF Decide, Repairs
  <2> QED
    BY <1>1, <2>3, WayGoesOn
<1>4. CASE Save(h)
  <2>1. outcome[h].status = "PR_CREATED" /\ pc[h] = "save"
    BY <1>4 DEF Save, OnItsWay
  <2>2. outcome[h] # None
    <3>1. outcome[h] \in Row
      BY <1>1, <2>1 DEF IInv, EffectInv
    <3> QED
      BY <2>1, <3>1, PullRowIsSomething
  <2>3. ledger' = [ledger EXCEPT ![h] = outcome[h]] /\ Goto(h, "done")
    BY <1>1, <1>4 DEF Save, Reply
  <2>4. pc'[h] = "done" /\ (\A k \in Handlers \ {h} : pc'[k] = pc[k]) /\ ledger'[h] = outcome[h]
    BY <1>1, <2>3, GotoMoves DEF IInv, TypeOK
  <2> QED
    BY <2>1, <2>2, <2>4 DEF OnItsWay, BeforeCommit
<1> QED
  BY <1>2, <1>3, <1>4

LEMMA ReadingOnItsWay ==
    ASSUME OnlyRepairs, IInv, ResumeInv, AloneInv, NEW h \in Reliable, OnItsWay(h),
           FindPull(h) \/ GetBaseRef(h) \/ GetBaseContent(h)
    PROVE  OnItsWay(h)'
<1>1. /\ Alive(h) /\ h \in Handlers /\ ~Errs(h, FALSE)
  BY ReliableIsNotRefused
<1>2. CASE FindPull(h)
  <2>1. UNCHANGED <<body, pulls>>
    BY <1>2 DEF FindPull, callerUnchanged
  <2>2. CASE OpenPulls(BranchFor(h)) = {} /\ Goto(h, "base_ref")
    BY <1>1, <2>1, <2>2, ReadsOnItsWay
  <2>3. CASE \E k \in OpenPulls(BranchFor(h)) : Conclude(h, Created(k, branches[BranchFor(h)].head))
    BY <1>1, <2>3, WayEndsWell
  <2> QED
    BY <1>1, <1>2, <2>2, <2>3 DEF FindPull
<1>3. CASE GetBaseRef(h)
  <2>1. UNCHANGED <<body, pulls>> /\ Goto(h, "base_content") /\ OpenPulls(BranchFor(h)) = {}
    BY <1>1, <1>3 DEF GetBaseRef, callerUnchanged, OnItsWay, BeforeCommit
  <2> QED
    BY <1>1, <2>1, ReadsOnItsWay
<1>4. CASE GetBaseContent(h)
  <2>1. base.file.limit = body[h].change.before
    BY <1>1, <1>4, RequestIsRepair DEF GetBaseContent, Repairs, ResumeInv, UntouchedInv, AloneInv
  <2>2. UNCHANGED <<body, pulls>> /\ Goto(h, "find_ref") /\ OpenPulls(BranchFor(h)) = {}
    BY <1>1, <1>4, <2>1 DEF GetBaseContent, callerUnchanged, OnItsWay, BeforeCommit
  <2> QED
    BY <1>1, <2>2, ReadsOnItsWay
<1> QED
  BY <1>2, <1>3, <1>4

(* The step from one of the calls on the branch to another.                *)
LEMMA BranchOnItsWay ==
    ASSUME IInv, NEW h \in Handlers, OnItsWay(h), NEW label, Goto(h, label),
           OpenPulls(BranchFor(h)) = {}, UNCHANGED <<body, pulls>>,
           \/ label = "create_ref" /\ branches'[BranchFor(h)] = None
           \/ label = "branch_content" /\ branches'[BranchFor(h)] # None
           \/ /\ label = "update_content" /\ branches'[BranchFor(h)] # None
              /\ branches'[BranchFor(h)].head.file = InitialFile
           \/ /\ label = "create_pull" /\ branches'[BranchFor(h)] # None
              /\ branches'[BranchFor(h)].head.author \in Handlers
    PROVE  OnItsWay(h)'
<1>1. pc'[h] = label /\ \A k \in Handlers \ {h} : pc'[k] = pc[k]
  BY GotoMoves
<1>2. BranchFor(h)' = BranchFor(h) /\ OpenPulls(BranchFor(h))' = {}
  BY DEF BranchFor, OpenPulls
<1> QED
  BY <1>1, <1>2 DEF OnItsWay

LEMMA FindRefOnItsWay ==
    ASSUME IInv, AloneInv, NEW h \in Reliable, OnItsWay(h), FindRef(h)
    PROVE  OnItsWay(h)'
<1>1. /\ Alive(h) /\ h \in Handlers /\ ~Errs(h, FALSE)
  BY ReliableIsNotRefused
<1>2. UNCHANGED <<body, pulls, branches>> /\ OpenPulls(BranchFor(h)) = {}
  BY DEF FindRef, callerUnchanged, OnItsWay, BeforeCommit
<1>3. \/ Goto(h, "create_ref") /\ branches[BranchFor(h)] = None
      \/ Goto(h, "branch_content") /\ branches[BranchFor(h)] # None
  BY <1>1 DEF FindRef
<1> QED
  BY <1>1, <1>2, <1>3, BranchOnItsWay

LEMMA CreateRefOnItsWay ==
    ASSUME IInv, ResumeInv, AloneInv, NEW h \in Reliable, OnItsWay(h), CreateRef(h)
    PROVE  OnItsWay(h)'
<1> DEFINE b == BranchFor(h)
           fork == [root |-> local[h].baseSHA, head |-> local[h].baseSHA]
<1>1. /\ h \in Handlers /\ h \notin Faulty
      /\ \A refused \in BOOLEAN : Errs(h, refused) <=> refused
  BY ReliableIsNotRefused
<1>2. pc[h] = "create_ref" /\ UNCHANGED <<body, pulls>>
  BY DEF CreateRef, callerUnchanged
<1>3. OpenPulls(b) = {} /\ branches[b] = None
  BY <1>2 DEF OnItsWay, BeforeCommit
<1>4. branches' = [branches EXCEPT ![b] = fork] /\ Goto(h, "update_content")
  BY <1>1, <1>3 DEF CreateRef
<1>5. b \in Branches
  BY <1>1, <1>2, ServedHasBody, BranchForIsBranch
<1>6. fork \in Branch /\ fork.head.file = InitialFile
  BY <1>1, <1>2
     DEF IInv, LocalInv, BaseRefRead, Branch, ResumeInv, UntouchedInv, AloneInv
<1> HIDE DEF b, fork
<1>7. branches'[b] = fork /\ fork # None
  <2>1. branches \in [Branches -> Branch \cup {None}]
    BY DEF IInv, TypeOK
  <2>2. fork # None
    BY <1>6, ConstantsAssumption
  <2> QED
    BY <1>4, <1>5, <2>1, <2>2
<1>8. branches'[b] # None /\ branches'[b].head.file = InitialFile
  BY <1>6, <1>7
<1> QED
  BY <1>1, <1>2, <1>3, <1>4, <1>8, BranchOnItsWay DEF b

LEMMA QuantitiesAreNumbers == Quantity \subseteq Nat
BY DEF Quantity, Unparsed, MaxMiB

(* A repair changes the limit it was made for.                             *)
LEMMA RepairChangesFile ==
    ASSUME OnlyRepairs, IInv, NEW h \in Handlers, verdict[h] = "allowed", body[h] \in Requests
    PROVE  Patched(h, InitialFile) # InitialFile
<1>1. PolicyAllows(body[h], Report[body[h].investigation].cause, observed[h])
  BY DEF IInv, VerdictInv
<1>2. body[h].change.after # body[h].change.before
  <2>1. observed[h] \in Quantity /\ body[h].change.after \in Quantity
    BY ConstantsAssumption DEF IInv, TypeOK
  <2>2. observed[h] \in Nat /\ body[h].change.after \in Nat
    BY <2>1, QuantitiesAreNumbers
  <2>3. /\ body[h].change.before = observed[h]
        /\ body[h].change.after > body[h].change.before
    BY <1>1, AllowedIsBoundedRepair DEF ResourceChangeSafe
  <2> QED
    BY <2>2, <2>3
<1>3. body[h].change.before = InitialFile.limit
  BY DEF OnlyRepairs, Repairs
<1>4. Patched(h, InitialFile).limit = body[h].change.after
  BY ConstantsAssumption DEF Patched
<1> QED
  BY <1>2, <1>3, <1>4

LEMMA GetBranchContentOnItsWay ==
    ASSUME OnlyRepairs, IInv, ResumeInv, AloneInv, NEW h \in Reliable, OnItsWay(h), GetBranchContent(h)
    PROVE  OnItsWay(h)'
<1> DEFINE b == BranchFor(h)
           head == branches[b].head
<1>1. /\ h \in Handlers /\ \A refused \in BOOLEAN : Errs(h, refused) <=> refused
  BY ReliableIsNotRefused
<1>2. pc[h] = "branch_content" /\ UNCHANGED <<body, pulls, branches>>
  BY DEF GetBranchContent, callerUnchanged
<1>3. OpenPulls(b) = {} /\ branches[b] # None /\ b \in Branches
  BY <1>1, <1>2, ServedHasBody, BranchForIsBranch DEF OnItsWay, BeforeCommit
<1>4. local[h].baseFile = InitialFile
  BY <1>1, <1>2 DEF ResumeInv, UntouchedInv, ContentRead, AloneInv
<1>5. body[h] \in Requests /\ verdict[h] = "allowed"
  BY <1>1, <1>2, ServedHasBody DEF IInv, ControlInv, InGitHub, BeforeCommit
<1>6. Patched(h, InitialFile) # InitialFile
  BY <1>1, <1>5, RepairChangesFile
<1>7. \/ head.author = None /\ head.file = InitialFile
      \/ head.author \in Handlers /\ head.file = Patched(h, InitialFile)
  <2>1. base.rev = 0
    BY DEF AloneInv
  <2>2. CASE \E k \in Handlers :
                 /\ head.author = k /\ body[k] \in Requests /\ BranchFor(k) = b
                 /\ head.file = [InitialFile EXCEPT !.limit = body[k].change.after]
    <3>1. PICK k \in Handlers :
              /\ head.author = k /\ body[k] \in Requests /\ BranchFor(k) = b
              /\ head.file = [InitialFile EXCEPT !.limit = body[k].change.after]
      BY <2>2
    <3>2. body[k].change.after = body[h].change.after
      BY <1>5, <3>1 DEF OnlyRepairs, BranchFor
    <3> QED
      BY <3>1, <3>2 DEF Patched
  <2> QED
    BY <1>3, <2>1, <2>2, BranchFiles
<1>8. \/ Goto(h, "create_pull") /\ head.file = Patched(h, InitialFile)
      \/ Goto(h, "update_content") /\ head.file = InitialFile
  BY <1>1, <1>3, <1>4, <1>7 DEF GetBranchContent
<1> HIDE DEF head
<1>9. \/ Goto(h, "create_pull") /\ head.author \in Handlers
      \/ Goto(h, "update_content") /\ head.file = InitialFile
  BY <1>6, <1>7, <1>8
<1> QED
  BY <1>1, <1>2, <1>3, <1>9, BranchOnItsWay DEF head

LEMMA UpdateContentOnItsWay ==
    ASSUME OnlyRepairs, IInv, ResumeInv, AloneInv, NEW h \in Reliable, OnItsWay(h), UpdateContent(h)
    PROVE  OnItsWay(h)'
<1> DEFINE b == BranchFor(h)
           commit == [author |-> h, rev |-> 0, file |-> Patched(h, local[h].baseFile)]
<1>1. /\ h \in Handlers /\ h \notin Faulty
      /\ \A refused \in BOOLEAN : Errs(h, refused) <=> refused
  BY ReliableIsNotRefused
<1>2. pc[h] = "update_content" /\ UNCHANGED <<body, pulls>>
  BY DEF UpdateContent, callerUnchanged
<1>3. /\ OpenPulls(b) = {} /\ b \in Branches
      /\ branches[b] # None /\ branches[b].head.file = InitialFile
  BY <1>1, <1>2, ServedHasBody, BranchForIsBranch DEF OnItsWay, BeforeCommit
<1>4. local[h].baseFile = InitialFile
  BY <1>1, <1>2 DEF ResumeInv, UntouchedInv, ContentRead, AloneInv
<1>5. branches' = [branches EXCEPT ![b].head = commit] /\ Goto(h, "create_pull")
  BY <1>1, <1>3, <1>4 DEF UpdateContent
<1>6. commit.author \in Handlers
  BY <1>1
<1>7. commit \in Commit
  <2>1. local[h].baseFile \in File /\ body[h].change.after \in Quantity
    BY <1>1, <1>2, ServedHasBody, ConstantsAssumption DEF IInv, LocalInv, ContentRead
  <2> QED
    BY <1>1, <2>1 DEF Patched, File, Commit
<1> HIDE DEF commit, b
<1>8. branches \in [Branches -> Branch \cup {None}]
  BY DEF IInv, TypeOK
<1>9. branches'[b].head = commit /\ branches'[b] # None
  <2>1. branches[b] \in Branch
    BY <1>3, <1>8
  <2>2. branches'[b] = [branches[b] EXCEPT !.head = commit]
    BY <1>3, <1>5, <1>8
  <2>3. branches'[b] \in Branch /\ branches'[b].head = commit
    BY <1>7, <2>1, <2>2 DEF Branch
  <2> QED
    BY <2>3, ConstantsAssumption
<1> QED
  BY <1>1, <1>2, <1>3, <1>5, <1>6, <1>9, BranchOnItsWay DEF b

LEMMA CreatePullOnItsWay ==
    ASSUME IInv, AloneInv, NEW h \in Reliable, OnItsWay(h), CreatePull(h)
    PROVE  OnItsWay(h)'
<1>1. /\ h \in Handlers /\ h \notin Faulty
      /\ \A refused \in BOOLEAN : Errs(h, refused) <=> refused
  BY ReliableIsNotRefused
<1>2. Proposable(BranchFor(h))
  BY DEF CreatePull, OnItsWay, Proposable, AloneInv
<1>3. Conclude(h, Created(h, local[h].commitSHA))
  BY <1>1, <1>2 DEF CreatePull
<1> QED
  BY <1>1, <1>3, WayEndsWell

(* What the others do once they have ended: nothing.                       *)
LEMMA EndedIsEnded ==
    ASSUME NEW k \in Handlers, pc[k] = "done"
    PROVE  ~Step(k) /\ ~Cancel(k) /\ ~Crash(k)
BY DEF Step, Receive, Evaluate, FindPull, GetBaseRef, GetBaseContent, FindRef, CreateRef,
       GetBranchContent, UpdateContent, CreatePull, FindPullAgain, Save, Cancel, Crash, InFlight

LEMMA NextOnItsWay ==
    ASSUME OnlyRepairs, IInv, ResumeInv, AloneInv, NEW h \in Reliable, OnItsWay(h), [Next]_vars
    PROVE  OnItsWay(h)'
<1>1. h \in Handlers /\ ~Cancel(h) /\ ~Crash(h)
  BY ReliableIsNotRefused
<1>2. \A k \in Handlers \ {h} : ~Step(k) /\ ~Cancel(k) /\ ~Crash(k)
  BY EndedIsEnded DEF OnItsWay
<1>3. CASE Step(h)
  <2>1. ~FindPullAgain(h)
    BY DEF FindPullAgain, OnItsWay
  <2> QED
    BY <1>3, <2>1, ServiceOnItsWay, ReadingOnItsWay, FindRefOnItsWay, CreateRefOnItsWay,
       GetBranchContentOnItsWay, UpdateContentOnItsWay, CreatePullOnItsWay DEF Step
<1>4. CASE UNCHANGED vars
  BY <1>4 DEF OnItsWay, OpenPulls, BranchFor, vars, handlerVars, worldVars, githubVars
<1> QED
  BY <1>1, <1>2, <1>3, <1>4, NobodyIntervenes DEF Next, Quiescent

(* A retry repairs: with repairs as the only requests and nobody at the    *)
(* repository, a reliable handler that starts after all others have ended, *)
(* wherever and however they ended, stores PR_CREATED; no call of its own  *)
(* is refused.                                                             *)
THEOREM RetriesComplete ==
    ASSUME OnlyRepairs
    PROVE  Spec => RetryCompletes
<1>1. Init => IInv /\ ResumeInv /\ AloneInv
  BY InitEstablishes, InitResumes, InitAlone
<1>2. (IInv /\ ResumeInv /\ AloneInv) /\ [Next]_vars => (IInv /\ ResumeInv /\ AloneInv)'
  BY OnlyRepairs, NextPreserves, NextResumes, NextAlone
<1>3. ASSUME NEW h \in Reliable
      PROVE  Spec => Completes(h)
  <2>1. (pc[h] = "idle" /\ \A k \in Handlers \ {h} : pc[k] = "done") => OnItsWay(h)
    BY DEF OnItsWay, BeforeCommit
  <2>2. IInv /\ ResumeInv /\ AloneInv /\ OnItsWay(h) /\ [Next]_vars => OnItsWay(h)'
    BY OnlyRepairs, NextOnItsWay
  <2>3. OnItsWay(h) => (pc[h] = "done" => ledger[h] # None /\ ledger[h].status = "PR_CREATED")
    BY DEF OnItsWay
  <2> QED
    BY <1>1, <1>2, <2>1, <2>2, <2>3, PTL DEF Spec, Completes
<1> QED
  BY <1>3 DEF RetryCompletes, Reliable
=============================================================================
