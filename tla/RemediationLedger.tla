------------------------- MODULE RemediationLedger -------------------------
(***************************************************************************)
(* What the remediation pipeline promises, without how: each request is    *)
(* judged once; only a request judged "allowed" may open a pull request,   *)
(* at most one, and never after its evaluation was recorded; an evaluation *)
(* is recorded at most once, agrees with the verdict, and claims only a    *)
(* pull request that is really there, on the branch of the same group of   *)
(* requests (an investigation).                                            *)
(***************************************************************************)
CONSTANTS Handlers, Groups, None

VARIABLES
    group,     \* the branch a request is about; None before it is received
    verdict,   \* None, "allowed" or "denied"
    opened,    \* requests that have opened a pull request
    record     \* recorded evaluation: None or [status, pull]

vars == <<group, verdict, opened, record>>

Init ==
    /\ group   = [h \in Handlers |-> None]
    /\ verdict = [h \in Handlers |-> None]
    /\ opened  = {}
    /\ record  = [h \in Handlers |-> None]

Accept(h) ==
    /\ group[h] = None
    /\ \E g \in Groups : group' = [group EXCEPT ![h] = g]
    /\ UNCHANGED <<verdict, opened, record>>

Judge(h) ==
    /\ group[h] # None
    /\ verdict[h] = None
    /\ \E v \in {"allowed", "denied"} : verdict' = [verdict EXCEPT ![h] = v]
    /\ UNCHANGED <<group, opened, record>>

Open(h) ==
    /\ verdict[h] = "allowed"
    /\ record[h] = None
    /\ h \notin opened
    /\ opened' = opened \cup {h}
    /\ UNCHANGED <<group, verdict, record>>

Evaluations(h) ==
    IF verdict[h] = "denied"
    THEN {[status |-> "POLICY_DENIED", pull |-> None]}
    ELSE {[status |-> "PR_FAILED", pull |-> None]} \cup
         {[status |-> "PR_CREATED", pull |-> k] : k \in {k \in opened : group[k] = group[h]}}

Record(h) ==
    /\ verdict[h] # None
    /\ record[h] = None
    /\ \E e \in Evaluations(h) : record' = [record EXCEPT ![h] = e]
    /\ UNCHANGED <<group, verdict, opened>>

Next == \E h \in Handlers : Accept(h) \/ Judge(h) \/ Open(h) \/ Record(h)

Spec == Init /\ [][Next]_vars
=============================================================================
