----------------------------- MODULE Incidents -----------------------------
(***************************************************************************)
(* Incident ingestion: POST /api/v1/alerts/alertmanager of incidentpilot-  *)
(* api and Postgres.Upsert.                                                *)
(*                                                                         *)
(* A delivery is one Alertmanager notification: a batch of alerts that the *)
(* handler validates as a whole and stores one by one, each in a statement *)
(* of its own, within five seconds.  Deliveries run concurrently (two API  *)
(* replicas, several Alertmanagers), in any order, and a delivery that got *)
(* no 2xx or 4xx answer is sent again.                                     *)
(*                                                                         *)
(* An incident's key stands for (fingerprint, started_at), on which the    *)
(* table is unique.  The labels of a row are those of its first signal and *)
(* are left out.                                                           *)
(***************************************************************************)
EXTENDS Naturals, Sequences

CONSTANTS
    Keys,           \* (fingerprint, startsAt) of alerts
    Times,          \* endsAt of resolved alerts, none before its startsAt
    InScope,        \* alerts the onboarding profile allows; all of Keys in demo mode
    Deliveries,     \* notifications Alertmanager sends
    Notifications,  \* batches it may send
    Contexts,       \* trace contexts a request may arrive with
    MaxFaults,      \* bound: errors, timeouts, lost answers and crashes
    None            \* absent value: SQL NULL, no answer, an empty header

Alert   == [key : Keys, status : {"firing", "resolved"}, ends : Times \cup {None}, wellFormed : BOOLEAN]
Headers == {c.parent : c \in Contexts} \cup {c.state : c \in Contexts} \cup {None}

Row ==
    [status : {"DETECTED", "RESOLVED"}, resolvedAt : Times \cup {None},
     traceparent : Headers, tracestate : Headers]

ASSUME IncidentConstants ==
    /\ InScope \subseteq Keys
    /\ Notifications \subseteq Seq(Alert)
    /\ \A c \in Contexts : c = [parent |-> c.parent, state |-> c.state]
    /\ MaxFaults \in Nat
    /\ None \notin Times \cup {"DETECTED", "RESOLVED"}
    /\ None \notin Row
    /\ None \notin {202, 400, 503}

VARIABLES
    incidents,  \* the table: key -> row or None
    pc,         \* "idle", "decode", "upsert" or "done"
    batch,      \* alerts of each delivery
    context,    \* trace context of the delivery's current attempt
    position,   \* next signal to store
    answer,     \* HTTP status; None if there was no answer
    faults      \* faults so far, counted

vars == <<incidents, pc, batch, context, position, answer, faults>>

NoContext == [parent |-> None, state |-> None]

Init ==
    /\ incidents = [k \in Keys |-> None]
    /\ pc        = [d \in Deliveries |-> "idle"]
    /\ batch     = [d \in Deliveries |-> <<>>]
    /\ context   = [d \in Deliveries |-> NoContext]
    /\ position  = [d \in Deliveries |-> 1]
    /\ answer    = [d \in Deliveries |-> None]
    /\ faults    = 0
-----------------------------------------------------------------------------
(* Mutant: the end of a resolved alert is not required.                    *)
ValidWithoutEnd(alert) == alert.wellFormed

(* decodeWebhook and the profile check: all alerts or none.                *)
Valid(alert) ==
    /\ alert.wellFormed
    /\ alert.status = "resolved" => alert.ends # None

Acceptable(alerts) ==
    /\ Len(alerts) \in 1..50
    /\ \A i \in DOMAIN alerts : Valid(alerts[i]) /\ alerts[i].key \in InScope

Finish(d, status) ==
    /\ pc' = [pc EXCEPT ![d] = "done"]
    /\ answer' = [answer EXCEPT ![d] = status]

Fault == faults < MaxFaults /\ faults' = faults + 1

Attempt(d, alerts) ==
    /\ batch' = [batch EXCEPT ![d] = alerts]
    /\ \E c \in Contexts : context' = [context EXCEPT ![d] = c]
    /\ pc' = [pc EXCEPT ![d] = "decode"]
    /\ position' = [position EXCEPT ![d] = 1]
    /\ UNCHANGED <<incidents, answer, faults>>

Deliver(d) ==
    /\ pc[d] = "idle"
    /\ \E alerts \in Notifications : Attempt(d, alerts)

(* Alertmanager repeats a notification answered 5xx or not at all, in a    *)
(* request of its own.                                                     *)
Retry(d) ==
    /\ pc[d] = "done"
    /\ answer[d] \in {503, None}
    /\ Attempt(d, batch[d])

Decode(d) ==
    /\ pc[d] = "decode"
    /\ \/ /\ Acceptable(batch[d])
          /\ pc' = [pc EXCEPT ![d] = "upsert"]
          /\ UNCHANGED answer
       \/ /\ ~Acceptable(batch[d])
          /\ Finish(d, 400)
    /\ UNCHANGED <<incidents, batch, context, position, faults>>
-----------------------------------------------------------------------------
Coalesce(stored, new) == IF stored # None THEN stored ELSE new

(* Mutant: Alertmanager's status is stored as it came.                     *)
StatusAsSent(alert) == alert.status

Status(alert) == IF alert.status = "resolved" THEN "RESOLVED" ELSE "DETECTED"

(* Only a resolved signal carries its end into the table.                  *)
ResolvedAt(alert) == IF alert.status = "resolved" THEN alert.ends ELSE None

Inserted(alert, c) ==
    [status      |-> Status(alert),
     resolvedAt  |-> ResolvedAt(alert),
     traceparent |-> c.parent,
     tracestate  |-> c.state]

(* Mutants: the latest signal wins the status, or the resolution time.     *)
UpdatedLatestStatus(row, alert, c) == [row EXCEPT !.status = Status(alert)]

UpdatedLatestEnd(row, alert, c) ==
    [row EXCEPT !.status = IF @ = "RESOLVED" THEN @ ELSE Status(alert),
                !.resolvedAt = Coalesce(ResolvedAt(alert), @)]

Updated(row, alert, c) ==
    [status      |-> IF row.status = "RESOLVED" THEN "RESOLVED" ELSE Status(alert),
     resolvedAt  |-> Coalesce(row.resolvedAt, ResolvedAt(alert)),
     traceparent |-> Coalesce(row.traceparent, c.parent),
     tracestate  |-> Coalesce(row.tracestate, c.state)]

(* INSERT ... ON CONFLICT (fingerprint, started_at) DO UPDATE              *)
Stored(row, alert, c) ==
    IF row = None THEN Inserted(alert, c) ELSE Updated(row, alert, c)

(* Mutant: a storage error is answered like an invalid request.            *)
UpsertErrorAs400(d) ==
    /\ pc[d] = "upsert"
    /\ position[d] \in DOMAIN batch[d]
    /\ LET alert == batch[d][position[d]]
       IN  \/ /\ incidents' = [incidents EXCEPT ![alert.key] = Stored(@, alert, context[d])]
              /\ position' = [position EXCEPT ![d] = @ + 1]
              /\ UNCHANGED <<pc, answer, faults>>
           \/ /\ Fault
              /\ Finish(d, 400)
              /\ UNCHANGED <<incidents, position>>
    /\ UNCHANGED <<batch, context>>

(* One Upsert.  It may fail without effect, or take effect and be reported *)
(* as an error; either ends the request with 503, the earlier signals of   *)
(* the batch stored and the later ones not.                                *)
Upsert(d) ==
    /\ pc[d] = "upsert"
    /\ position[d] \in DOMAIN batch[d]
    /\ LET alert == batch[d][position[d]]
       IN  \/ /\ incidents' = [incidents EXCEPT ![alert.key] = Stored(@, alert, context[d])]
              /\ \/ /\ position' = [position EXCEPT ![d] = @ + 1]
                    /\ UNCHANGED <<pc, answer, faults>>
                 \/ /\ Fault
                    /\ Finish(d, 503)
                    /\ UNCHANGED position
           \/ /\ Fault
              /\ Finish(d, 503)
              /\ UNCHANGED <<incidents, position>>
    /\ UNCHANGED <<batch, context>>

Accept(d) ==
    /\ pc[d] = "upsert"
    /\ position[d] \notin DOMAIN batch[d]
    /\ Finish(d, 202)
    /\ UNCHANGED <<incidents, batch, context, position, faults>>

(* The process dies, or its answer is lost.                                *)
Crash(d) ==
    /\ pc[d] \in {"decode", "upsert"}
    /\ Fault
    /\ Finish(d, None)
    /\ UNCHANGED <<incidents, batch, context, position>>
-----------------------------------------------------------------------------
Work(d) == Decode(d) \/ Upsert(d) \/ Accept(d) \/ Retry(d)

(* Nothing is left to send.                                                *)
Quiescent ==
    /\ \A d \in Deliveries : pc[d] = "done" /\ answer[d] \notin {503, None}
    /\ UNCHANGED vars

Next ==
    \/ \E d \in Deliveries : Deliver(d) \/ Work(d) \/ Crash(d)
    \/ Quiescent

(* A handler that runs is scheduled and every statement ends within its    *)
(* timeout; Alertmanager goes on repeating what was not answered.          *)
Fairness == \A d \in Deliveries : WF_vars(Work(d))

Spec == Init /\ [][Next]_vars /\ Fairness
-----------------------------------------------------------------------------
(* Type correctness.                                                       *)
TypeOK ==
    /\ incidents \in [Keys -> Row \cup {None}]
    /\ pc \in [Deliveries -> {"idle", "decode", "upsert", "done"}]
    /\ batch \in [Deliveries -> Seq(Alert)]
    /\ context \in [Deliveries -> Contexts \cup {NoContext}]
    /\ position \in [Deliveries -> Nat \ {0}]
    /\ answer \in [Deliveries -> {None, 202, 400, 503}]
    /\ faults \in 0..MaxFaults

(* The row reflects the alert: it is there, and resolved if the alert was.  *)
Reflects(row, alert) ==
    /\ row # None
    /\ alert.status = "resolved" => row.status = "RESOLVED" /\ row.resolvedAt # None

(***************************************************************************)
(* A 202 answer is a promise: whatever failed, was repeated or came in     *)
(* between, each alert of the notification is stored, and those that were  *)
(* resolved are.  No later firing signal undoes it.                        *)
(***************************************************************************)
AcceptedIsStored ==
    \A d \in Deliveries : answer[d] = 202 =>
        \A i \in DOMAIN batch[d] : Reflects(incidents[batch[d][i].key], batch[d][i])

(***************************************************************************)
(* Every row has a cause: some notification that passed the checks as a    *)
(* whole named its key, and the resolution it shows is one such a          *)
(* notification reported.  A rejected batch leaves nothing behind, not     *)
(* even of its valid alerts; the resolution time is no mixture.            *)
(***************************************************************************)
RowsComeFromSignals ==
    \A k \in Keys : incidents[k] # None =>
        /\ k \in InScope
        /\ (incidents[k].status = "RESOLVED") = (incidents[k].resolvedAt # None)
        /\ \E d \in Deliveries : Acceptable(batch[d]) /\ \E i \in DOMAIN batch[d] :
             /\ batch[d][i].key = k
             /\ incidents[k].status = "RESOLVED" =>
                  batch[d][i].status = "resolved" /\ batch[d][i].ends = incidents[k].resolvedAt

(***************************************************************************)
(* A notification that the checks admit is stored completely in the end,   *)
(* though each attempt may stop in the middle of the batch.                *)
(***************************************************************************)
NotificationsArrive ==
    \A d \in Deliveries :
        pc[d] = "decode" /\ Acceptable(batch[d]) ~>
            \A i \in DOMAIN batch[d] : Reflects(incidents[batch[d][i].key], batch[d][i])

(***************************************************************************)
(* The table implements the lifecycle its readers rely on, with signals    *)
(* lost, repeated and out of order.                                        *)
(***************************************************************************)
Lifecycle == INSTANCE IncidentLifecycle WITH
    status     <- [k \in Keys |-> IF incidents[k] = None THEN None ELSE incidents[k].status],
    resolvedAt <- [k \in Keys |-> IF incidents[k] = None THEN None ELSE incidents[k].resolvedAt]

ImplementsLifecycle == Lifecycle!Spec

(***************************************************************************)
(* "TraceContext is the ... propagation state persisted": the traceparent  *)
(* and the tracestate of a row are those of one request.                   *)
(***************************************************************************)
StoredContextWasCaptured ==
    \A k \in Keys : incidents[k] # None =>
        [parent |-> incidents[k].traceparent, state |-> incidents[k].tracestate] \in Contexts
=============================================================================
