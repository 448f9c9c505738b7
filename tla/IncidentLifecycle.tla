------------------------- MODULE IncidentLifecycle -------------------------
(***************************************************************************)
(* What the incident table promises its readers (the API, the evidence     *)
(* collector, the investigator): an incident appears once, may be resolved *)
(* once, at a time that never changes afterwards, and is never forgotten.  *)
(***************************************************************************)
CONSTANTS Keys, Times, None

VARIABLES
    status,      \* None, "DETECTED" or "RESOLVED"
    resolvedAt   \* None or the end of the alert

vars == <<status, resolvedAt>>

Init ==
    /\ status     = [k \in Keys |-> None]
    /\ resolvedAt = [k \in Keys |-> None]

Detect(k) ==
    /\ status[k] = None
    /\ status' = [status EXCEPT ![k] = "DETECTED"]
    /\ UNCHANGED resolvedAt

(* The resolving signal may be the first the service hears of the alert.   *)
Resolve(k) ==
    /\ status[k] # "RESOLVED"
    /\ status' = [status EXCEPT ![k] = "RESOLVED"]
    /\ \E t \in Times : resolvedAt' = [resolvedAt EXCEPT ![k] = t]

Next == \E k \in Keys : Detect(k) \/ Resolve(k)

Spec == Init /\ [][Next]_vars
=============================================================================
