--------------------------- MODULE IncidentProofs ---------------------------
(***************************************************************************)
(* Machine-checked facts about incident ingestion, for any number of       *)
(* deliveries, notifications and alerts.                                   *)
(***************************************************************************)
EXTENDS Incidents, TLAPS

(* A delivery that stores has an acceptable batch and has stored all of it *)
(* up to its position; one that has not started has nothing.               *)
ProgressInv(d) ==
    /\ pc[d] = "idle" => batch[d] = <<>> /\ answer[d] = None
    /\ answer[d] = 202 => pc[d] = "done"
    /\ pc[d] = "decode" => position[d] = 1
    /\ pc[d] = "upsert" =>
         /\ Acceptable(batch[d])
         /\ \A i \in DOMAIN batch[d] : i < position[d] =>
              Reflects(incidents[batch[d][i].key], batch[d][i])

(* Together with what is to be shown: inductive.                           *)
IInv ==
    /\ TypeOK
    /\ RowsComeFromSignals
    /\ AcceptedIsStored
    /\ \A d \in Deliveries : ProgressInv(d)

(***************************************************************************)
(* One upsert: the row is well-typed, reflects the alert, and keeps what   *)
(* it reflected before.                                                    *)
(***************************************************************************)
Consistent(row) == (row.status = "RESOLVED") = (row.resolvedAt # None)

LEMMA StoredRow ==
    ASSUME NEW row \in Row \cup {None}, NEW alert \in Alert,
           NEW c \in Contexts \cup {NoContext},
           Valid(alert), row # None => Consistent(row)
    PROVE  /\ Stored(row, alert, c) \in Row
           /\ Consistent(Stored(row, alert, c))
           /\ alert.status = "resolved" => Stored(row, alert, c).status = "RESOLVED"
           /\ row # None /\ row.status = "RESOLVED" =>
                /\ Stored(row, alert, c).status = "RESOLVED"
                /\ Stored(row, alert, c).resolvedAt = row.resolvedAt
           /\ ~(row # None /\ row.status = "RESOLVED") =>
                Stored(row, alert, c).resolvedAt = ResolvedAt(alert)
           /\ ~(row # None /\ row.status = "RESOLVED") =>
                Stored(row, alert, c).status = Status(alert)
<1>1. c.parent \in Headers /\ c.state \in Headers
  BY DEF Headers, NoContext
<1>2. /\ Status(alert) \in {"DETECTED", "RESOLVED"}
      /\ Status(alert) = "RESOLVED" <=> alert.status = "resolved"
      /\ ResolvedAt(alert) \in Times \cup {None}
      /\ ResolvedAt(alert) # None <=> alert.status = "resolved"
  BY DEF Alert, Status, ResolvedAt, Valid
<1>3. CASE row = None
  BY <1>1, <1>2, <1>3 DEF Stored, Inserted, Row, Consistent
<1>4. CASE row # None
  <2>1. row \in Row /\ Consistent(row)
    BY <1>4
  <2>2. Stored(row, alert, c) = Updated(row, alert, c)
    BY <1>4 DEF Stored
  <2>3. Updated(row, alert, c) \in Row
    BY <1>1, <1>2, <2>1 DEF Updated, Row, Coalesce
  <2>4. /\ Updated(row, alert, c).status = IF row.status = "RESOLVED" THEN "RESOLVED" ELSE Status(alert)
        /\ Updated(row, alert, c).resolvedAt = Coalesce(row.resolvedAt, ResolvedAt(alert))
    BY DEF Updated
  <2> QED
    BY <1>2, <1>4, <2>1, <2>2, <2>3, <2>4 DEF Consistent, Coalesce, Row
<1> QED BY <1>3, <1>4

LEMMA InitEstablishes == ASSUME Init PROVE IInv
<1>1. TypeOK
  BY IncidentConstants DEF Init, TypeOK
<1>2. RowsComeFromSignals /\ AcceptedIsStored
  BY DEF Init, RowsComeFromSignals, AcceptedIsStored
<1>3. \A d \in Deliveries : ProgressInv(d)
  BY IncidentConstants DEF Init, ProgressInv
<1> QED BY <1>1, <1>2, <1>3 DEF IInv

-----------------------------------------------------------------------------
(***************************************************************************)
(* Steps of a delivery that do not touch the table.                        *)
(***************************************************************************)
LEMMA QuietStepPreserves ==
    ASSUME IInv, NEW d \in Deliveries, TypeOK', UNCHANGED incidents,
           \A e \in Deliveries \ {d} : /\ pc'[e] = pc[e] /\ batch'[e] = batch[e]
                                       /\ position'[e] = position[e] /\ answer'[e] = answer[e],
           Acceptable(batch[d]) => batch'[d] = batch[d],
           ProgressInv(d)',
           answer'[d] = 202 =>
             \A i \in DOMAIN batch'[d] : Reflects(incidents[batch'[d][i].key], batch'[d][i])
    PROVE  IInv'
<1>1. RowsComeFromSignals'
  <2>1. \A e \in Deliveries : Acceptable(batch[e]) => batch'[e] = batch[e]
    OBVIOUS
  <2> QED
    BY <2>1 DEF IInv, RowsComeFromSignals
<1>2. AcceptedIsStored'
  BY DEF IInv, AcceptedIsStored
<1>3. \A e \in Deliveries \ {d} : ProgressInv(e)'
  BY DEF IInv, ProgressInv
<1> QED
  BY <1>1, <1>2, <1>3 DEF IInv

LEMMA AttemptPreserves ==
    ASSUME IInv, NEW d \in Deliveries, NEW alerts \in Seq(Alert), Attempt(d, alerts),
           Acceptable(batch[d]) => alerts = batch[d], answer[d] # 202
    PROVE  IInv'
<1>1. PICK c \in Contexts : context' = [context EXCEPT ![d] = c]
  BY DEF Attempt
<1>2. TypeOK'
  BY <1>1 DEF Attempt, IInv, TypeOK
<1>3. /\ batch'[d] = alerts /\ pc'[d] = "decode" /\ answer'[d] # 202 /\ position'[d] = 1
      /\ \A e \in Deliveries \ {d} : /\ pc'[e] = pc[e] /\ batch'[e] = batch[e]
                                     /\ position'[e] = position[e] /\ answer'[e] = answer[e]
      /\ UNCHANGED incidents
  BY DEF Attempt, IInv, TypeOK
<1>4. ProgressInv(d)'
  BY <1>3 DEF ProgressInv
<1> QED
  BY <1>2, <1>3, <1>4, QuietStepPreserves

LEMMA DeliverPreserves == ASSUME IInv, NEW d \in Deliveries, Deliver(d) PROVE IInv'
<1>1. batch[d] = <<>> /\ answer[d] = None
  BY DEF Deliver, IInv, ProgressInv
<1>2. ~Acceptable(batch[d])
  BY <1>1 DEF Acceptable
<1>3. PICK alerts \in Notifications : Attempt(d, alerts)
  BY DEF Deliver
<1>4. alerts \in Seq(Alert) /\ answer[d] # 202
  BY <1>1, <1>3, IncidentConstants
<1> QED
  BY <1>2, <1>3, <1>4, AttemptPreserves

LEMMA RetryPreserves == ASSUME IInv, NEW d \in Deliveries, Retry(d) PROVE IInv'
<1>1. batch[d] \in Seq(Alert) /\ answer[d] # 202 /\ Attempt(d, batch[d])
  BY IncidentConstants DEF Retry, IInv, TypeOK
<1> QED
  BY <1>1, AttemptPreserves

(* A request that ends leaves its batch and the table as they are.         *)
LEMMA FinishPreserves ==
    ASSUME IInv, NEW d \in Deliveries, NEW status \in {None, 202, 400, 503}, Finish(d, status),
           UNCHANGED <<incidents, batch, context, position>>, faults' \in 0..MaxFaults,
           status = 202 => \A i \in DOMAIN batch[d] : Reflects(incidents[batch[d][i].key], batch[d][i])
    PROVE  IInv'
<1>1. TypeOK'
  BY DEF Finish, IInv, TypeOK
<1>2. /\ pc'[d] = "done" /\ answer'[d] = status
      /\ \A e \in Deliveries \ {d} : pc'[e] = pc[e] /\ answer'[e] = answer[e]
  BY DEF Finish, IInv, TypeOK
<1>3. ProgressInv(d)'
  BY <1>2 DEF ProgressInv
<1> QED
  BY <1>1, <1>2, <1>3, QuietStepPreserves

LEMMA FaultIsCounted == ASSUME IInv, Fault PROVE faults' \in 0..MaxFaults
BY IncidentConstants DEF IInv, TypeOK, Fault

LEMMA DecodePreserves == ASSUME IInv, NEW d \in Deliveries, Decode(d) PROVE IInv'
<1>1. /\ pc[d] = "decode" /\ UNCHANGED <<incidents, batch, context, position, faults>>
      /\ faults' \in 0..MaxFaults
  BY DEF Decode, IInv, TypeOK
<1>2. CASE Finish(d, 400)
  BY <1>1, <1>2, FinishPreserves
<1>3. CASE /\ Acceptable(batch[d]) /\ pc' = [pc EXCEPT ![d] = "upsert"] /\ UNCHANGED answer
           /\ position[d] = 1
  <2>1. TypeOK'
    BY <1>1, <1>3 DEF IInv, TypeOK
  <2>2. pc'[d] = "upsert" /\ \A e \in Deliveries \ {d} : pc'[e] = pc[e]
    BY <1>3 DEF IInv, TypeOK
  <2>3. ProgressInv(d)'
    <3>1. \A i \in DOMAIN batch[d] : ~(i < position[d])
      BY <1>3 DEF IInv, TypeOK
    <3> QED
      BY <1>1, <1>3, <2>2, <3>1 DEF ProgressInv, IInv
  <2> QED
    BY <1>1, <1>3, <2>1, <2>2, <2>3, QuietStepPreserves DEF IInv, AcceptedIsStored
<1>4. position[d] = 1
  BY <1>1 DEF IInv, ProgressInv
<1> QED
  BY <1>1, <1>2, <1>3, <1>4 DEF Decode

LEMMA AcceptPreserves == ASSUME IInv, NEW d \in Deliveries, Accept(d) PROVE IInv'
<1>1. /\ pc[d] = "upsert" /\ position[d] \notin DOMAIN batch[d] /\ Finish(d, 202)
      /\ UNCHANGED <<incidents, batch, context, position>>
      /\ faults' \in 0..MaxFaults
  BY DEF Accept, IInv, TypeOK
<1>2. ASSUME NEW i \in DOMAIN batch[d] PROVE i < position[d]
  <2>1. batch[d] \in Seq(Alert) /\ position[d] \in Nat \ {0}
    BY DEF IInv, TypeOK
  <2> QED
    BY <1>1, <2>1
<1>3. \A i \in DOMAIN batch[d] : Reflects(incidents[batch[d][i].key], batch[d][i])
  BY <1>1, <1>2 DEF IInv, ProgressInv
<1> QED
  BY <1>1, <1>3, FinishPreserves

LEMMA CrashPreserves == ASSUME IInv, NEW d \in Deliveries, Crash(d) PROVE IInv'
<1>1. /\ Finish(d, None) /\ faults' \in 0..MaxFaults
      /\ UNCHANGED <<incidents, batch, context, position>>
  BY FaultIsCounted DEF Crash
<1> QED
  BY <1>1, FinishPreserves, IncidentConstants

LEMMA AlertsAreAlerts ==
    ASSUME IInv, NEW d \in Deliveries, NEW i \in DOMAIN batch[d]
    PROVE  i \in Nat /\ batch[d][i] \in Alert
<1>1. batch[d] \in Seq(Alert)
  BY DEF IInv, TypeOK
<1> QED
  BY <1>1

(* What an upsert does to the table.                                       *)
LEMMA UpsertedTable ==
    ASSUME IInv, NEW d \in Deliveries, pc[d] = "upsert", position[d] \in DOMAIN batch[d],
           NEW alert, alert = batch[d][position[d]],
           incidents' = [incidents EXCEPT ![alert.key] = Stored(@, alert, context[d])]
    PROVE  /\ incidents' \in [Keys -> Row \cup {None}]
           /\ alert \in Alert
           /\ Reflects(incidents'[alert.key], alert)
           /\ \A k \in Keys, a \in Alert : Reflects(incidents[k], a) => Reflects(incidents'[k], a)
           /\ \A k \in Keys : incidents'[k] # None =>
                /\ k \in InScope
                /\ (incidents'[k].status = "RESOLVED") = (incidents'[k].resolvedAt # None)
                /\ \E e \in Deliveries : Acceptable(batch[e]) /\ \E i \in DOMAIN batch[e] :
                     /\ batch[e][i].key = k
                     /\ incidents'[k].status = "RESOLVED" =>
                          /\ batch[e][i].status = "resolved"
                          /\ batch[e][i].ends = incidents'[k].resolvedAt
<1> DEFINE key == alert.key
           row == incidents[key]
           new == Stored(row, alert, context[d])
<1>1. /\ alert \in Alert /\ key \in Keys
      /\ Acceptable(batch[d]) /\ Valid(alert) /\ key \in InScope
  <2>1. Acceptable(batch[d])
    BY DEF IInv, ProgressInv
  <2>2. alert \in Alert
    BY AlertsAreAlerts
  <2>3. alert.key \in Keys
    BY <2>2 DEF Alert
  <2> QED
    BY <2>1, <2>2, <2>3 DEF Acceptable
<1>2. /\ row \in Row \cup {None}
      /\ row # None => Consistent(row)
      /\ context[d] \in Contexts \cup {NoContext}
  BY <1>1 DEF IInv, TypeOK, RowsComeFromSignals, Consistent
<1>3. incidents'[key] = new /\ \A k \in Keys \ {key} : incidents'[k] = incidents[k]
  BY <1>1 DEF IInv, TypeOK
<1>4. /\ new \in Row /\ new # None
      /\ Consistent(new)
      /\ alert.status = "resolved" => new.status = "RESOLVED"
      /\ row # None /\ row.status = "RESOLVED" =>
           new.status = "RESOLVED" /\ new.resolvedAt = row.resolvedAt
      /\ ~(row # None /\ row.status = "RESOLVED") =>
           new.status = Status(alert) /\ new.resolvedAt = ResolvedAt(alert)
  <2> HIDE DEF row
  <2>1. new \in Row
    BY <1>1, <1>2, StoredRow
  <2> QED
    BY <1>1, <1>2, <2>1, StoredRow, IncidentConstants
<1> HIDE DEF row, new, key
<1>5. incidents' \in [Keys -> Row \cup {None}]
  BY <1>1, <1>4 DEF IInv, TypeOK, key, new, row
<1>6. Reflects(incidents'[key], alert)
  BY <1>3, <1>4 DEF Reflects, Consistent
<1>7. ASSUME NEW k \in Keys, NEW a \in Alert, Reflects(incidents[k], a)
      PROVE  Reflects(incidents'[k], a)
  <2>1. CASE k = key
    BY <1>3, <1>4, <1>7, <2>1 DEF Reflects, row, Consistent
  <2>2. CASE k # key
    BY <1>3, <1>7, <2>2
  <2> QED BY <2>1, <2>2
<1>8. ASSUME NEW k \in Keys, incidents'[k] # None
      PROVE  /\ k \in InScope
             /\ (incidents'[k].status = "RESOLVED") = (incidents'[k].resolvedAt # None)
             /\ \E e \in Deliveries : Acceptable(batch[e]) /\ \E i \in DOMAIN batch[e] :
                  /\ batch[e][i].key = k
                  /\ incidents'[k].status = "RESOLVED" =>
                       /\ batch[e][i].status = "resolved"
                       /\ batch[e][i].ends = incidents'[k].resolvedAt
  <2>1. CASE k # key
    BY <1>3, <1>8, <2>1 DEF IInv, RowsComeFromSignals
  <2>2. CASE k = key /\ row # None /\ row.status = "RESOLVED"
    <3>1. PICK e \in Deliveries : Acceptable(batch[e]) /\ \E i \in DOMAIN batch[e] :
            /\ batch[e][i].key = k
            /\ batch[e][i].status = "resolved" /\ batch[e][i].ends = row.resolvedAt
      BY <2>2 DEF IInv, RowsComeFromSignals, row
    <3> QED
      BY <1>1, <1>3, <1>4, <2>2, <3>1 DEF Consistent
  <2>3. CASE k = key /\ ~(row # None /\ row.status = "RESOLVED")
    <3>1. new.status = "RESOLVED" => alert.status = "resolved" /\ alert.ends = new.resolvedAt
      BY <1>4, <2>3 DEF Status, ResolvedAt
    <3> QED
      BY <1>1, <1>3, <1>4, <2>3, <3>1 DEF Consistent, key
  <2> QED BY <2>1, <2>2, <2>3
<1> QED
  BY <1>1, <1>5, <1>6, <1>7, <1>8 DEF key

LEMMA UpsertPreserves == ASSUME IInv, NEW d \in Deliveries, Upsert(d) PROVE IInv'
<1> PICK alert : alert = batch[d][position[d]]
  OBVIOUS
<1>1. /\ pc[d] = "upsert" /\ position[d] \in DOMAIN batch[d] /\ answer[d] # 202
      /\ UNCHANGED <<batch, context>>
  BY DEF Upsert, IInv, ProgressInv
<1>2. CASE Fault /\ Finish(d, 503) /\ UNCHANGED <<incidents, position>>
  BY <1>1, <1>2, FaultIsCounted, FinishPreserves
<1>3. CASE /\ incidents' = [incidents EXCEPT ![alert.key] = Stored(@, alert, context[d])]
           /\ \/ /\ position' = [position EXCEPT ![d] = @ + 1]
                 /\ UNCHANGED <<pc, answer, faults>>
              \/ /\ Fault
                 /\ Finish(d, 503)
                 /\ UNCHANGED position
  <2>1. /\ incidents' \in [Keys -> Row \cup {None}]
        /\ Reflects(incidents'[alert.key], alert)
        /\ \A k \in Keys, a \in Alert : Reflects(incidents[k], a) => Reflects(incidents'[k], a)
    BY <1>1, <1>3, UpsertedTable
  <2>2. RowsComeFromSignals'
    <3>1. ASSUME NEW k \in Keys, incidents'[k] # None
          PROVE  /\ k \in InScope
                 /\ (incidents'[k].status = "RESOLVED") = (incidents'[k].resolvedAt # None)
                 /\ \E e \in Deliveries : Acceptable(batch[e]) /\ \E i \in DOMAIN batch[e] :
                      /\ batch[e][i].key = k
                      /\ incidents'[k].status = "RESOLVED" =>
                           /\ batch[e][i].status = "resolved"
                           /\ batch[e][i].ends = incidents'[k].resolvedAt
      BY <1>1, <1>3, <3>1, UpsertedTable
    <3> QED
      BY <1>1, <3>1 DEF RowsComeFromSignals
  <2>3. \A e \in Deliveries : \A i \in DOMAIN batch[e] :
          i \in Nat /\ batch[e][i] \in Alert /\ batch[e][i].key \in Keys
    <3>1. \A e \in Deliveries : \A i \in DOMAIN batch[e] : i \in Nat /\ batch[e][i] \in Alert
      BY AlertsAreAlerts
    <3> QED
      BY <3>1 DEF Alert
  <2>4. ASSUME NEW e \in Deliveries, NEW i \in DOMAIN batch[e],
               Reflects(incidents[batch[e][i].key], batch[e][i])
        PROVE  Reflects(incidents'[batch[e][i].key], batch[e][i])
    BY <2>1, <2>3, <2>4
  <2>5. CASE position' = [position EXCEPT ![d] = @ + 1] /\ UNCHANGED <<pc, answer, faults>>
    <3>1. TypeOK'
      BY <1>1, <2>1, <2>5 DEF IInv, TypeOK
    <3>2. AcceptedIsStored'
      BY <1>1, <2>4, <2>5 DEF IInv, AcceptedIsStored
    <3>3. ASSUME NEW e \in Deliveries PROVE ProgressInv(e)'
      <4>1. CASE e # d
        BY <1>1, <2>4, <2>5, <4>1 DEF IInv, TypeOK, ProgressInv
      <4>2. CASE e = d
        <5>1. position'[d] = position[d] + 1 /\ position[d] \in Nat
          BY <2>5 DEF IInv, TypeOK
        <5>2. ASSUME NEW i \in DOMAIN batch[d], i < position[d] + 1
              PROVE  Reflects(incidents'[batch[d][i].key], batch[d][i])
          <6>1. i = position[d] \/ i < position[d]
            BY <2>3, <5>1, <5>2
          <6>2. CASE i = position[d]
            BY <2>1, <6>2
          <6>3. CASE i < position[d]
            BY <1>1, <2>4, <6>3 DEF IInv, ProgressInv
          <6> QED BY <6>1, <6>2, <6>3
        <5> QED
          BY <1>1, <2>5, <4>2, <5>1, <5>2 DEF IInv, ProgressInv
      <4> QED BY <4>1, <4>2
    <3> QED
      BY <2>2, <3>1, <3>2, <3>3 DEF IInv
  <2>6. CASE Fault /\ Finish(d, 503) /\ UNCHANGED position
    <3>1. TypeOK'
      <4>1. faults' \in 0..MaxFaults
        BY <2>6, FaultIsCounted
      <4> QED
        BY <1>1, <2>1, <2>6, <4>1 DEF IInv, TypeOK, Finish
    <3>2. /\ pc'[d] = "done" /\ answer'[d] = 503
          /\ \A e \in Deliveries \ {d} : pc'[e] = pc[e] /\ answer'[e] = answer[e]
      BY <2>6 DEF Finish, IInv, TypeOK
    <3>3. AcceptedIsStored'
      BY <1>1, <2>4, <3>2 DEF IInv, AcceptedIsStored
    <3>4. \A e \in Deliveries : ProgressInv(e)'
      BY <1>1, <2>4, <2>6, <3>2 DEF IInv, ProgressInv
    <3> QED
      BY <2>2, <3>1, <3>3, <3>4 DEF IInv
  <2> QED BY <1>3, <2>5, <2>6
<1> QED
  BY <1>1, <1>2, <1>3 DEF Upsert

LEMMA NextPreserves == ASSUME IInv, [Next]_vars PROVE IInv'
<1>1. ASSUME NEW d \in Deliveries, Deliver(d) \/ Work(d) \/ Crash(d) PROVE IInv'
  BY <1>1, DeliverPreserves, DecodePreserves, UpsertPreserves, AcceptPreserves, RetryPreserves,
     CrashPreserves DEF Work
<1>2. ASSUME Quiescent \/ UNCHANGED vars PROVE IInv'
  <2>1. UNCHANGED <<incidents, pc, batch, context, position, answer, faults>>
    BY <1>2 DEF Quiescent, vars
  <2>2. TypeOK'
    BY <2>1 DEF IInv, TypeOK
  <2>3. RowsComeFromSignals' /\ AcceptedIsStored'
    BY <2>1 DEF IInv, RowsComeFromSignals, AcceptedIsStored
  <2>4. \A d \in Deliveries : ProgressInv(d)'
    BY <2>1 DEF IInv, ProgressInv
  <2> QED BY <2>2, <2>3, <2>4 DEF IInv
<1> QED
  BY <1>1, <1>2 DEF Next

LEMMA InvariantHolds == Spec => []IInv
<1>1. Init => IInv
  BY InitEstablishes
<1>2. IInv /\ [Next]_vars => IInv'
  BY NextPreserves
<1> QED
  BY <1>1, <1>2, PTL DEF Spec

-----------------------------------------------------------------------------
(* Rows, deliveries and answers keep their types, for batches of any size. *)
THEOREM TypesAreCorrect == Spec => []TypeOK
<1>1. IInv => TypeOK
  BY DEF IInv
<1> QED
  BY <1>1, InvariantHolds, PTL

(* A 202 answer is kept whatever else happens to the table.                *)
THEOREM AcceptedStaysStored == Spec => []AcceptedIsStored
<1>1. IInv => AcceptedIsStored
  BY DEF IInv
<1> QED
  BY <1>1, InvariantHolds, PTL

(***************************************************************************)
(* Every row stems from a notification that was admitted as a whole, and   *)
(* is resolved exactly if it has a resolution time, one that was reported. *)
(***************************************************************************)
THEOREM RowsHaveACause == Spec => []RowsComeFromSignals
<1>1. IInv => RowsComeFromSignals
  BY DEF IInv
<1> QED
  BY <1>1, InvariantHolds, PTL

(* The table as IncidentLifecycle sees it.                                  *)
AbstractStatus     == [k \in Keys |-> IF incidents[k] = None THEN None ELSE incidents[k].status]
AbstractResolvedAt == [k \in Keys |-> IF incidents[k] = None THEN None ELSE incidents[k].resolvedAt]

LEMMA UpsertImplements ==
    ASSUME IInv, NEW d \in Deliveries, Upsert(d)
    PROVE  [Lifecycle!Next]_(Lifecycle!vars)
<1> PICK alert : alert = batch[d][position[d]]
  OBVIOUS
<1> DEFINE key == alert.key
           row == incidents[key]
           new == Stored(row, alert, context[d])
<1>1. CASE UNCHANGED incidents
  BY <1>1 DEF Lifecycle!vars
<1>2. CASE incidents' = [incidents EXCEPT ![alert.key] = Stored(@, alert, context[d])]
  <2>1. /\ alert \in Alert /\ key \in Keys /\ Valid(alert)
        /\ row \in Row \cup {None} /\ context[d] \in Contexts \cup {NoContext}
    <3>1. alert \in Alert /\ Acceptable(batch[d])
      BY AlertsAreAlerts DEF Upsert, IInv, ProgressInv
    <3>2. key \in Keys
      BY <3>1 DEF Alert
    <3> QED
      BY <3>1, <3>2 DEF Upsert, Acceptable, IInv, TypeOK
  <2>2. row # None => Consistent(row)
    BY <2>1 DEF IInv, RowsComeFromSignals, Consistent
  <2>3. incidents'[key] = new /\ \A k \in Keys \ {key} : incidents'[k] = incidents[k]
    BY <1>2, <2>1 DEF IInv, TypeOK
  <2>4. /\ new \in Row /\ new # None /\ Consistent(new)
        /\ row # None /\ row.status = "RESOLVED" =>
             new.status = "RESOLVED" /\ new.resolvedAt = row.resolvedAt
        /\ ~(row # None /\ row.status = "RESOLVED") =>
             new.status = Status(alert) /\ new.resolvedAt = ResolvedAt(alert)
    <3> HIDE DEF row
    <3>1. new \in Row
      BY <2>1, <2>2, StoredRow
    <3> QED
      BY <2>1, <2>2, <3>1, StoredRow, IncidentConstants
  <2> HIDE DEF key, row, new
  <2>5. /\ AbstractStatus' = [AbstractStatus EXCEPT ![key] = new.status]
        /\ AbstractResolvedAt' = [AbstractResolvedAt EXCEPT ![key] = new.resolvedAt]
    BY <2>1, <2>3, <2>4 DEF AbstractStatus, AbstractResolvedAt
  <2>6. /\ AbstractStatus \in [Keys -> {None, "DETECTED", "RESOLVED"}]
        /\ AbstractResolvedAt \in [Keys -> Times \cup {None}]
        /\ AbstractStatus[key] = IF row = None THEN None ELSE row.status
        /\ AbstractResolvedAt[key] = IF row = None THEN None ELSE row.resolvedAt
    BY <2>1 DEF AbstractStatus, AbstractResolvedAt, IInv, TypeOK, Row, row
  <2>7. CASE row # None /\ row.status = "RESOLVED"
    <3>1. AbstractStatus' = AbstractStatus /\ AbstractResolvedAt' = AbstractResolvedAt
      BY <2>4, <2>5, <2>6, <2>7
    <3> QED
      BY <3>1 DEF Lifecycle!vars, AbstractStatus, AbstractResolvedAt
  <2>8. CASE ~(row # None /\ row.status = "RESOLVED") /\ alert.status = "resolved"
    <3>1. new.status = "RESOLVED" /\ new.resolvedAt \in Times
      BY <2>1, <2>4, <2>8 DEF Status, ResolvedAt, Valid, Alert
    <3>2. AbstractStatus[key] # "RESOLVED"
      BY <2>6, <2>8, IncidentConstants
    <3>3. Lifecycle!Resolve(key)
      BY <2>5, <3>1, <3>2 DEF Lifecycle!Resolve, AbstractStatus, AbstractResolvedAt
    <3> QED
      BY <2>1, <3>3 DEF Lifecycle!Next
  <2>9. CASE ~(row # None /\ row.status = "RESOLVED") /\ alert.status # "resolved"
    <3>1. new.status = "DETECTED" /\ new.resolvedAt = None
      BY <2>4, <2>9 DEF Status, ResolvedAt
    <3>2. AbstractResolvedAt[key] = None
      BY <2>1, <2>2, <2>6, <2>9 DEF Consistent
    <3>3. AbstractResolvedAt' = AbstractResolvedAt
      BY <2>5, <2>6, <3>1, <3>2
    <3>4. CASE row = None
      <4>1. Lifecycle!Detect(key)
        BY <2>5, <2>6, <3>1, <3>3, <3>4 DEF Lifecycle!Detect, AbstractStatus, AbstractResolvedAt
      <4> QED
        BY <2>1, <4>1 DEF Lifecycle!Next
    <3>5. CASE row # None
      <4>1. AbstractStatus[key] = "DETECTED"
        BY <2>1, <2>6, <2>9, <3>5 DEF Row
      <4>2. AbstractStatus' = AbstractStatus
        BY <2>5, <2>6, <3>1, <4>1
      <4> QED
        BY <3>3, <4>2 DEF Lifecycle!vars, AbstractStatus, AbstractResolvedAt
    <3> QED BY <3>4, <3>5
  <2> QED BY <2>7, <2>8, <2>9
<1> QED
  BY <1>1, <1>2 DEF Upsert

(***************************************************************************)
(* The incident table implements the lifecycle: whatever is lost, repeated *)
(* or reordered, an incident is resolved once and for all.                 *)
(***************************************************************************)
THEOREM IncidentsImplementLifecycle == Spec => ImplementsLifecycle
<1>1. Init => Lifecycle!Init
  BY DEF Init, Lifecycle!Init
<1>2. IInv /\ [Next]_vars => [Lifecycle!Next]_(Lifecycle!vars)
  <2> SUFFICES ASSUME IInv, [Next]_vars PROVE [Lifecycle!Next]_(Lifecycle!vars)
    OBVIOUS
  <2>1. ASSUME NEW d \in Deliveries, Upsert(d) PROVE [Lifecycle!Next]_(Lifecycle!vars)
    BY <2>1, UpsertImplements
  <2>2. ASSUME NEW d \in Deliveries, Deliver(d) \/ Decode(d) \/ Accept(d) \/ Retry(d) \/ Crash(d)
        PROVE  UNCHANGED incidents
    BY <2>2 DEF Deliver, Decode, Accept, Retry, Crash, Attempt
  <2>3. CASE UNCHANGED incidents
    BY <2>3 DEF Lifecycle!vars
  <2> QED
    BY <2>1, <2>2, <2>3 DEF Next, Work, Quiescent, vars
<1> QED
  BY <1>1, <1>2, InvariantHolds, PTL DEF Spec, Lifecycle!Spec, ImplementsLifecycle
=============================================================================
