---------------------- MODULE RemediationLedgerProofs ----------------------
(***************************************************************************)
(* The handlers implement RemediationLedger: every step, with all its      *)
(* interleavings, faults, crashes and human interventions, is one of the   *)
(* ledger's or leaves the ledger as it is.                                 *)
(***************************************************************************)
EXTENDS RemediationProofs

Opened == {k \in Handlers : pulls[k] # "none"}

LEMMA RefinesInit == ASSUME Init PROVE Ledger!Init
BY DEF Init, Ledger!Init, AbstractGroup, AbstractRecord

(***************************************************************************)
(* What a step has to leave alone to be none of the ledger's.              *)
(***************************************************************************)
LEMMA Invisible ==
    ASSUME UNCHANGED <<body, verdict, ledger>>, Opened' = Opened
    PROVE  UNCHANGED Ledger!vars
BY DEF Ledger!vars, AbstractGroup, AbstractRecord, BranchFor, Opened

LEMMA ReceiveRefines ==
    ASSUME IInv, NEW h \in Handlers, Receive(h)
    PROVE  Ledger!Accept(h)
<1>1. PICK q \in Requests : body' = [body EXCEPT ![h] = q]
  BY DEF Receive
<1>2. body[h] = None /\ UNCHANGED <<verdict, ledger, pulls>>
  BY DEF Receive, IInv, ControlInv, worldVars, githubVars
<1>3. q # None /\ BranchOf[q.investigation] \in Branches
  BY ConstantsAssumption DEF Branches
<1>4. body' = [k \in Handlers |-> IF k = h THEN q ELSE body[k]]
  BY <1>1 DEF IInv, TypeOK
<1>5. AbstractGroup' = [AbstractGroup EXCEPT ![h] = BranchOf[q.investigation]]
  BY <1>3, <1>4 DEF AbstractGroup, BranchFor
<1>6. AbstractGroup[h] = None
  BY <1>2 DEF AbstractGroup
<1> QED
  BY <1>2, <1>3, <1>5, <1>6 DEF Ledger!Accept, AbstractRecord

LEMMA EvaluateRefines ==
    ASSUME IInv, NEW h \in Handlers, Evaluate(h)
    PROVE  Ledger!Judge(h) \/ UNCHANGED Ledger!vars
<1>1. pc[h] = "evaluate" /\ UNCHANGED <<body, ledger, pulls>>
  BY DEF Evaluate, worldVars, githubVars
<1>2. verdict[h] = None /\ body[h] \in Requests
  BY <1>1 DEF IInv, ControlInv
<1>3. AbstractGroup[h] # None
  BY <1>2, BranchForIsBranch, ConstantsAssumption DEF AbstractGroup
<1>4. CASE Decide(h, body[h])
  <2>1. \E v \in {"allowed", "denied"} : verdict' = [verdict EXCEPT ![h] = v]
    BY <1>4 DEF Decide
  <2> QED
    BY <1>1, <1>2, <1>3, <2>1 DEF Ledger!Judge, AbstractGroup, AbstractRecord, BranchFor
<1>5. CASE UNCHANGED verdict
  BY <1>1, <1>5, Invisible DEF Opened
<1> QED
  BY <1>4, <1>5 DEF Evaluate

LEMMA CreatePullRefines ==
    ASSUME IInv, NEW h \in Handlers, CreatePull(h)
    PROVE  Ledger!Open(h) \/ UNCHANGED Ledger!vars
<1>1. pc[h] = "create_pull" /\ UNCHANGED <<body, verdict, ledger>>
  BY DEF CreatePull, callerUnchanged
<1>2. verdict[h] = "allowed" /\ ledger[h] = None /\ pulls[h] = "none"
  BY <1>1 DEF IInv, ControlInv, EffectInv, InGitHub
<1>3. CASE pulls' = [pulls EXCEPT ![h] = "open"]
  <2>1. Opened' = Opened \cup {h} /\ h \notin Opened
    BY <1>2, <1>3 DEF Opened, IInv, TypeOK
  <2> QED
    BY <1>1, <1>2, <2>1
       DEF Ledger!Open, AbstractGroup, AbstractRecord, BranchFor, Opened
<1>4. CASE UNCHANGED pulls
  BY <1>1, <1>4, Invisible DEF Opened
<1> QED
  BY <1>3, <1>4 DEF CreatePull

(***************************************************************************)
(* A row that is true in the invariant's sense is one the ledger allows.   *)
(***************************************************************************)
LEMMA TrueRowIsEvaluation ==
    ASSUME IInv, NEW h \in Handlers, verdict[h] # None, NEW row \in Row, RowTrue(row, h)
    PROVE  [status |-> row.status, pull |-> row.pull] \in Ledger!Evaluations(h)
<1>1. CASE row = Denied
  BY <1>1 DEF RowTrue, Denied, Ledger!Evaluations
<1>2. CASE \E code \in ReadFailures \cup WriteFailures : row = Failed(code)
  <2>1. row.status = "PR_FAILED" /\ row.pull = None
    BY <1>2 DEF Failed
  <2> QED
    BY <2>1 DEF RowTrue, Ledger!Evaluations
<1>3. CASE row \in [status : {"PR_CREATED"}, code : {""}, pull : Handlers, commit : Commit]
  <2>1. row.status = "PR_CREATED" /\ row.pull \in Handlers
    BY <1>3
  <2>2. /\ verdict[h] = "allowed" /\ verdict[row.pull] = "allowed"
        /\ pulls[row.pull] # "none" /\ BranchFor(row.pull) = BranchFor(h)
    BY <2>1 DEF RowTrue
  <2>3. body[h] \in Requests /\ body[row.pull] \in Requests
    BY <2>1, <2>2 DEF IInv, VerdictInv
  <2>4. AbstractGroup[row.pull] = AbstractGroup[h] /\ row.pull \in Opened
    BY <2>1, <2>2, <2>3, ConstantsAssumption DEF AbstractGroup, Opened
  <2> QED
    BY <2>1, <2>2, <2>4 DEF Ledger!Evaluations, Opened
<1> QED
  BY <1>1, <1>2, <1>3 DEF Row

LEMMA RowStatus ==
    ASSUME NEW row \in Row
    PROVE  row.status \in {"PR_CREATED", "PR_FAILED", "POLICY_DENIED"}
<1>1. CASE row = Denied
  BY <1>1, DeniedRow
<1>2. CASE \E code \in ReadFailures \cup WriteFailures : row = Failed(code)
  BY <1>2 DEF Failed
<1>3. CASE row \in [status : {"PR_CREATED"}, code : {""}, pull : Handlers, commit : Commit]
  BY <1>3
<1> QED
  BY <1>1, <1>2, <1>3 DEF Row

LEMMA SaveRefines ==
    ASSUME IInv, NEW h \in Handlers, Save(h)
    PROVE  Ledger!Record(h) \/ UNCHANGED Ledger!vars
<1>1. pc[h] = "save" /\ UNCHANGED <<body, verdict, pulls>>
  BY DEF Save, worldVars, githubVars
<1>2. ledger[h] = None /\ outcome[h] \in Row /\ RowTrue(outcome[h], h)
  BY <1>1 DEF IInv, ControlInv, EffectInv
<1>3. CASE ledger' = [ledger EXCEPT ![h] = outcome[h]]
  <2> DEFINE e == [status |-> outcome[h].status, pull |-> outcome[h].pull]
  <2>1. ledger' = [k \in Handlers |-> IF k = h THEN outcome[h] ELSE ledger[k]]
    BY <1>3 DEF IInv, TypeOK
  <2>2. CASE outcome[h] = None
    BY <1>1, <1>2, <2>1, <2>2, Invisible DEF Opened, IInv, TypeOK
  <2>3. CASE outcome[h] # None
    <3>1. AbstractRecord' = [AbstractRecord EXCEPT ![h] = e]
      BY <2>1, <2>3 DEF AbstractRecord
    <3>2. verdict[h] # None
      <4>1. outcome[h].status \in {"PR_CREATED", "PR_FAILED", "POLICY_DENIED"}
        BY <1>2, RowStatus
      <4> QED
        BY <1>2, <4>1, ConstantsAssumption DEF RowTrue
    <3>3. e \in Ledger!Evaluations(h)
      BY <1>2, <3>2, TrueRowIsEvaluation
    <3>4. AbstractRecord[h] = None
      BY <1>2 DEF AbstractRecord
    <3> QED
      BY <1>1, <3>1, <3>2, <3>3, <3>4 DEF Ledger!Record, AbstractGroup, BranchFor
  <2> QED
    BY <2>2, <2>3
<1>4. CASE UNCHANGED ledger
  BY <1>1, <1>4, Invisible DEF Opened
<1> QED
  BY <1>3, <1>4 DEF Save

(***************************************************************************)
(* The other calls of a handler and the ends it may meet: nothing of the   *)
(* ledger's.                                                               *)
(***************************************************************************)
LEMMA QuietRefines ==
    ASSUME NEW h \in Handlers,
           \/ FindPull(h) \/ GetBaseRef(h) \/ GetBaseContent(h) \/ FindRef(h)
           \/ CreateRef(h) \/ GetBranchContent(h) \/ UpdateContent(h) \/ FindPullAgain(h)
           \/ Cancel(h) \/ Crash(h)
    PROVE  UNCHANGED Ledger!vars
<1>1. UNCHANGED <<body, verdict, ledger, pulls>>
  <2>1. CASE FindPull(h) \/ GetBaseRef(h) \/ GetBaseContent(h) \/ FindRef(h)
    BY <2>1 DEF FindPull, GetBaseRef, GetBaseContent, FindRef, callerUnchanged
  <2>2. CASE CreateRef(h) \/ GetBranchContent(h) \/ UpdateContent(h) \/ FindPullAgain(h)
    BY <2>2 DEF CreateRef, GetBranchContent, UpdateContent, FindPullAgain, callerUnchanged
  <2>3. CASE Cancel(h) \/ Crash(h)
    BY <2>3 DEF Cancel, Crash, worldVars, githubVars
  <2> QED
    BY <2>1, <2>2, <2>3
<1> QED
  BY <1>1, Invisible DEF Opened

(* People merge and close pull requests, but open none and record nothing. *)
LEMMA PeopleRefine == ASSUME IInv, People PROVE UNCHANGED Ledger!vars
<1>1. UNCHANGED <<body, verdict, ledger>>
  BY DEF People, PushToBase, MergePull, ClosePull, DeleteBranch, Intervene, handlerVars
<1>2. Opened' = Opened
  <2>1. CASE PushToBase
    BY <2>1 DEF PushToBase, Opened
  <2>2. ASSUME NEW k \in Handlers, MergePull(k) \/ ClosePull(k)
        PROVE  Opened' = Opened
    BY <2>2 DEF MergePull, ClosePull, Opened, IInv, TypeOK
  <2>3. ASSUME NEW b \in Branches, DeleteBranch(b)
        PROVE  Opened' = Opened
    BY <2>3 DEF DeleteBranch, OpenPulls, Opened
  <2> QED
    BY <2>1, <2>2, <2>3 DEF People
<1> QED
  BY <1>1, <1>2, Invisible

LEMMA NextRefines == ASSUME IInv, [Next]_vars PROVE [Ledger!Next]_(Ledger!vars)
<1>1. ASSUME NEW h \in Handlers, Step(h) \/ Cancel(h) \/ Crash(h)
      PROVE  Ledger!Next \/ UNCHANGED Ledger!vars
  BY <1>1, ReceiveRefines, EvaluateRefines, CreatePullRefines, SaveRefines, QuietRefines
     DEF Step, Ledger!Next
<1>2. CASE People
  BY <1>2, PeopleRefine
<1>3. CASE Quiescent \/ UNCHANGED vars
  BY <1>3, Invisible DEF Quiescent, vars, handlerVars, worldVars, githubVars, Opened
<1> QED
  BY <1>1, <1>2, <1>3 DEF Next

(***************************************************************************)
(* Each request is judged once; only one that was allowed opens a pull     *)
(* request, and what is recorded of it agrees with both.                   *)
(***************************************************************************)
THEOREM LedgerIsImplemented == Spec => ImplementsLedger
<1>1. Init => Ledger!Init
  BY RefinesInit
<1>2. IInv /\ [Next]_vars => [Ledger!Next]_(Ledger!vars)
  BY NextRefines
<1> QED
  BY <1>1, <1>2, InvariantHolds, PTL DEF Spec, ImplementsLedger, Ledger!Spec
=============================================================================
