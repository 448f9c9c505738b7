--------------------------- MODULE StartupProofs ---------------------------
(***************************************************************************)
(* Theorems about Startup, for any number of processes, any previous       *)
(* release and any faults.  The argument: the transaction of Migrate       *)
(* belongs to the holder of the advisory lock (LockInv), only that one has *)
(* uncommitted work (CleanInv), and its work is the versions it has passed *)
(* (WorkInv), so that a commit leads from one release to another.          *)
(***************************************************************************)
EXTENDS StartupProperties, FiniteSetTheorems, TLAPS

Locked == {"ledger", "checking", "applying", "recording"}

TypeInv ==
    /\ release \in 0..Latest
    /\ pc \in [Process -> {"down", "pinging", "serving", "stopping", "gone", "broken"} \cup InMigration]
    /\ version \in [Process -> 1..(Latest + 1)]
    /\ created \in [Process -> SUBSET (0..Latest)]
    /\ recorded \in [Process -> SUBSET Versions]
    /\ schema \subseteq 0..Latest

(* The advisory lock is held by whoever is between it and the commit.      *)
LockInv == \A p \in Process : pc[p] \in Locked <=> migrator = p

(* Nobody else has uncommitted work.                                       *)
CleanInv ==
    \A p \in Process : pc[p] \notin Locked \ {"ledger"} => created[p] = {} /\ recorded[p] = {}

(* The ledger as the transaction sees it: the committed rows and every     *)
(* version passed; its objects are those, and the one just applied.        *)
WorkInv ==
    \A p \in Process :
        /\ pc[p] \in {"checking", "applying", "recording"} =>
              /\ Rows(p) = ledger \cup 1..(version[p] - 1)
              /\ version[p] <= Known(p) + 1
        /\ pc[p] \in {"checking", "applying"} => Objects(p) \ {Ledger} = Rows(p)
        /\ pc[p] \in {"applying", "recording"} => version[p] \notin Rows(p) /\ version[p] <= Known(p)
        /\ pc[p] = "recording" => Objects(p) \ {Ledger} = Rows(p) \cup {version[p]}
        /\ pc[p] \in {"pinging", "locking", "ledger"} => version[p] = 1

StartInv ==
    /\ TypeInv /\ LockInv /\ CleanInv /\ WorkInv
    /\ LedgerMatchesSchema /\ NoStartBreaks /\ ServesOnItsSchema

-----------------------------------------------------------------------------
LEMMA NeedsEarlier == \A v \in Versions : Needs[v] \subseteq 1..(v - 1)
BY DEF Needs, Versions, Latest

LEMMA KnownIsVersion ==
    ASSUME TypeInv, NEW p \in Process
    PROVE  Known(p) \in 0..Latest /\ (p \in Old => Known(p) = release) /\ (p \notin Old => Known(p) = Latest)
BY DEF TypeInv, Known, Latest

(* Each process is in the invariant's step what it was, the named ones     *)
(* apart: the facts of WorkInv are about one process.                      *)
StartVars == <<release, settings, schema, ledger, migrator, pc, version, created, recorded>>

LEMMA Unmoved == StartInv /\ UNCHANGED StartVars => StartInv'
BY DEF StartInv, TypeInv, LockInv, CleanInv, WorkInv, LedgerMatchesSchema, NoStartBreaks,
       ServesOnItsSchema, StartVars, Rows, Objects, Known, UsesDatabase

LEMMA InitInv == StartupConstants /\ Init => StartInv
<1> SUFFICES ASSUME StartupConstants, Init PROVE StartInv
    OBVIOUS
<1>1. release \in 0..Latest /\ Latest = 6
    BY DEF StartupConstants, Init, Latest
<1>2. TypeInv
    BY <1>1 DEF Init, TypeInv, InMigration, Versions, Ledger
<1>3. LockInv /\ CleanInv /\ WorkInv /\ NoStartBreaks
    BY DEF Init, LockInv, CleanInv, WorkInv, NoStartBreaks, Locked, StartupConstants
<1>4. LedgerMatchesSchema
    BY <1>1 DEF Init, LedgerMatchesSchema, Ledger
<1>5. ServesOnItsSchema
    BY <1>1 DEF Init, ServesOnItsSchema, Known, UsesDatabase, Process, StartupConstants
<1> QED
    BY <1>2, <1>3, <1>4, <1>5 DEF StartInv

-----------------------------------------------------------------------------
(* One lemma per kind of step.  A step of p leaves the others where they   *)
(* are, and what they see: only the holder of the lock commits.            *)
LEMMA BootInv ==
    ASSUME StartInv, NEW p \in Process, Boot(p)
    PROVE  StartInv'
BY DEF Boot, go, tables, StartInv, TypeInv, LockInv, CleanInv, WorkInv, LedgerMatchesSchema,
       NoStartBreaks, ServesOnItsSchema, Rows, Objects, Known, UsesDatabase, Locked, InMigration, Latest

LEMMA PingInv ==
    ASSUME StartInv, NEW p \in Process, Ping(p)
    PROVE  StartInv'
BY DEF Ping, go, tables, StartInv, TypeInv, LockInv, CleanInv, WorkInv, LedgerMatchesSchema,
       NoStartBreaks, ServesOnItsSchema, Rows, Objects, Known, UsesDatabase, Locked, InMigration

LEMMA AcquireLockInv ==
    ASSUME StartInv, NEW p \in Process, AcquireLock(p), None \notin Process
    PROVE  StartInv'
BY DEF AcquireLock, go, StartInv, TypeInv, LockInv, CleanInv, WorkInv, LedgerMatchesSchema,
       NoStartBreaks, ServesOnItsSchema, Rows, Objects, Known, UsesDatabase, Locked, InMigration

LEMMA CreateLedgerInv ==
    ASSUME StartInv, NEW p \in Process, CreateLedger(p)
    PROVE  StartInv'
BY KnownIsVersion DEF CreateLedger, go, StartInv, TypeInv, LockInv, CleanInv, WorkInv, LedgerMatchesSchema,
       NoStartBreaks, ServesOnItsSchema, Rows, Objects, Known, UsesDatabase, Locked, InMigration, Ledger, Latest

LEMMA CheckInv ==
    ASSUME StartInv, NEW p \in Process, Check(p)
    PROVE  StartInv'
<1> USE DEF Check, go, tables
<1>1. Known(p) \in 0..Latest /\ version[p] \in 1..7 /\ Latest = 6 /\ UNCHANGED release
    BY KnownIsVersion DEF StartInv, TypeInv, Latest
<1>2. TypeInv'
    BY <1>1 DEF StartInv, TypeInv, InMigration
<1>3. LockInv' /\ CleanInv' /\ LedgerMatchesSchema' /\ NoStartBreaks' /\ ServesOnItsSchema'
    BY DEF StartInv, TypeInv, LockInv, CleanInv, LedgerMatchesSchema, NoStartBreaks,
           ServesOnItsSchema, Locked, Known, UsesDatabase
<1>4. ASSUME NEW q \in Process
      PROVE  Rows(q)' = Rows(q) /\ Objects(q)' = Objects(q) /\ Known(q)' = Known(q)
    BY DEF Rows, Objects, Known
<1>5. WorkInv'
  <2>1. CASE version[p] \in Rows(p)
    <3>1. version' = [version EXCEPT ![p] = @ + 1] /\ UNCHANGED pc
        BY <2>1
    <3>2. 1..(version[p] + 1 - 1) = 1..(version[p] - 1) \cup {version[p]}
        BY <1>1
    <3>3. version'[p] = version[p] + 1 /\ version[p] <= Known(p) /\ pc[p] = "checking"
        BY <3>1 DEF StartInv, TypeInv
    <3>4. Rows(p) = ledger \cup 1..(version[p] + 1 - 1)
        BY <3>2, <3>3, <2>1 DEF StartInv, WorkInv
    <3> QED
        BY <1>1, <1>4, <3>1, <3>3, <3>4 DEF StartInv, TypeInv, WorkInv
  <2>2. CASE version[p] \notin Rows(p)
    <3>1. UNCHANGED version /\ pc' = [pc EXCEPT ![p] = "applying"] /\ pc[p] = "checking"
        BY <2>2
    <3> QED
        BY <1>1, <1>4, <2>2, <3>1 DEF StartInv, TypeInv, WorkInv
  <2> QED
      BY <2>1, <2>2
<1> QED
    BY <1>2, <1>3, <1>5 DEF StartInv

(* Transactions that are rolled back take their work with them; nobody    *)
(* else's is touched.                                                      *)
LEMMA RollbackInv ==
    ASSUME StartInv, NEW ps \in SUBSET Process, None \notin Process,
           Rollback(ps),
           UNCHANGED <<release, settings, version>>,
           pc' \in [Process -> {"down", "pinging", "serving", "stopping", "gone", "broken"} \cup InMigration],
           \A q \in Process : \/ q \notin ps /\ pc'[q] = pc[q]
                              \/ q \in ps /\ pc'[q] \in {"down", "gone"}
                              \/ q \in ps /\ pc'[q] = pc[q] /\ pc[q] \notin InMigration
    PROVE  StartInv'
<1> USE DEF Rollback
<1>1. TypeInv'
    BY DEF StartInv, TypeInv
<1>2. LockInv'
    BY DEF StartInv, TypeInv, LockInv, Locked, InMigration
<1>3. CleanInv'
    BY DEF StartInv, TypeInv, CleanInv, Locked, InMigration
<1>4. WorkInv'
  <2> SUFFICES ASSUME NEW q \in Process, pc'[q] \in InMigration \cup {"pinging"}
               PROVE  /\ pc'[q] = pc[q] /\ UNCHANGED <<version, release, schema, ledger>>
                      /\ pc[q] \in InMigration => created'[q] = created[q] /\ recorded'[q] = recorded[q]
      BY DEF StartInv, WorkInv, Rows, Objects, Known, InMigration
  <2> QED
      BY DEF InMigration
<1>5. LedgerMatchesSchema' /\ NoStartBreaks' /\ ServesOnItsSchema'
    BY DEF StartInv, LedgerMatchesSchema, NoStartBreaks, ServesOnItsSchema, Known, UsesDatabase, InMigration
<1> QED
    BY <1>1, <1>2, <1>3, <1>4, <1>5 DEF StartInv

LEMMA ApplyInv ==
    ASSUME StartInv, NEW p \in Process, Apply(p)
    PROVE  StartInv'
<1> USE DEF Apply, go
<1>1. Known(p) \in 0..Latest /\ version[p] \in 1..7 /\ Latest = 6 /\ UNCHANGED release /\ pc[p] = "applying"
    BY KnownIsVersion DEF StartInv, TypeInv, Latest
<1>2. Objects(p) \ {Ledger} = Rows(p) /\ version[p] \notin Rows(p) /\ version[p] <= Known(p)
        /\ 1..(version[p] - 1) \subseteq Rows(p)
    BY <1>1 DEF StartInv, WorkInv
<1>3. Applicable(p, version[p])
    BY <1>1, <1>2, NeedsEarlier DEF Applicable, Versions, Ledger
<1>4. /\ created' = [created EXCEPT ![p] = @ \cup {version[p]}]
      /\ pc' = [pc EXCEPT ![p] = "recording"]
      /\ UNCHANGED <<release, settings, schema, ledger, migrator, recorded, version>>
    BY <1>3
<1>5. TypeInv'
    BY <1>1, <1>2, <1>4 DEF StartInv, TypeInv, InMigration
<1>8. LockInv' /\ CleanInv' /\ LedgerMatchesSchema' /\ NoStartBreaks' /\ ServesOnItsSchema'
    BY <1>1, <1>4 DEF StartInv, TypeInv, LockInv, CleanInv, LedgerMatchesSchema, NoStartBreaks,
           ServesOnItsSchema, Locked, Known, UsesDatabase
<1>6. ASSUME NEW q \in Process
      PROVE  /\ Rows(q)' = Rows(q) /\ Known(q)' = Known(q)
             /\ q # p => Objects(q)' = Objects(q)
             /\ q = p => Objects(q)' = Objects(q) \cup {version[p]}
    BY <1>4 DEF Rows, Objects, Known, StartInv, TypeInv
<1>7. WorkInv'
    BY <1>1, <1>2, <1>4, <1>6 DEF StartInv, TypeInv, WorkInv, Ledger
<1> QED
    BY <1>5, <1>7, <1>8 DEF StartInv

LEMMA RecordInv ==
    ASSUME StartInv, NEW p \in Process, Record(p)
    PROVE  StartInv'
<1> USE DEF Record, go
<1>1. Known(p) \in 0..Latest /\ version[p] \in 1..7 /\ Latest = 6 /\ UNCHANGED release /\ pc[p] = "recording"
    BY KnownIsVersion DEF StartInv, TypeInv, Latest
<1>2. /\ Rows(p) = ledger \cup 1..(version[p] - 1)
      /\ version[p] \notin Rows(p) /\ version[p] <= Known(p)
      /\ Objects(p) \ {Ledger} = Rows(p) \cup {version[p]}
    BY <1>1 DEF StartInv, WorkInv
<1>3. /\ recorded' = [recorded EXCEPT ![p] = @ \cup {version[p]}]
      /\ version' = [version EXCEPT ![p] = @ + 1]
      /\ pc' = [pc EXCEPT ![p] = "checking"]
      /\ UNCHANGED <<release, settings, schema, ledger, migrator, created>>
    BY <1>2
<1>4. TypeInv' /\ LockInv' /\ CleanInv' /\ LedgerMatchesSchema' /\ NoStartBreaks' /\ ServesOnItsSchema'
    BY <1>1, <1>2, <1>3 DEF StartInv, TypeInv, LockInv, CleanInv, LedgerMatchesSchema, NoStartBreaks,
           ServesOnItsSchema, Locked, Known, UsesDatabase, InMigration, Versions
<1>5. ASSUME NEW q \in Process
      PROVE  /\ Objects(q)' = Objects(q) /\ Known(q)' = Known(q)
             /\ q # p => Rows(q)' = Rows(q)
             /\ q = p => Rows(q)' = Rows(q) \cup {version[p]}
    BY <1>3 DEF Rows, Objects, Known, StartInv, TypeInv
<1>6. 1..(version[p] + 1 - 1) = 1..(version[p] - 1) \cup {version[p]} /\ version'[p] = version[p] + 1
    BY <1>1, <1>3 DEF StartInv, TypeInv
<1>7. WorkInv'
    BY <1>1, <1>2, <1>3, <1>5, <1>6 DEF StartInv, TypeInv, WorkInv
<1> QED
    BY <1>4, <1>7 DEF StartInv

LEMMA CommittedInv ==
    ASSUME StartInv, NEW p \in Process, NEW to \in {"serving", "down"}, None \notin Process,
           Committed(p), go(p, to)
    PROVE  StartInv' /\ ledger' = ledger \cup 1..Known(p)
<1> USE DEF Committed, go
<1>1. Known(p) \in 0..6 /\ version[p] \in 1..7 /\ Latest = 6 /\ release \in 0..6 /\ UNCHANGED release
    BY KnownIsVersion DEF StartInv, TypeInv, Latest
<1>2. migrator = p /\ pc[p] = "checking" /\ version[p] = Known(p) + 1
    BY <1>1 DEF StartInv, LockInv, WorkInv, Locked
<1>3. Rows(p) = ledger \cup 1..Known(p) /\ Objects(p) \ {Ledger} = Rows(p)
    BY <1>1, <1>2 DEF StartInv, WorkInv
<1>4. ledger' = ledger \cup 1..Known(p) /\ schema' \ {Ledger} = ledger'
    BY <1>3 DEF Rows, Objects
<1>5. LedgerMatchesSchema'
  <2>1. CASE p \in Old
      BY <1>1, <1>4, <2>1 DEF StartInv, LedgerMatchesSchema, Known, Versions
  <2>2. CASE p \notin Old
      BY <1>1, <1>4, <2>2 DEF StartInv, LedgerMatchesSchema, Known, Versions
  <2> QED
      BY <2>1, <2>2
<1>6. ServesOnItsSchema'
    BY <1>1, <1>4 DEF StartInv, TypeInv, ServesOnItsSchema, Known, UsesDatabase
<1>7. TypeInv' /\ NoStartBreaks'
    BY <1>1 DEF StartInv, TypeInv, NoStartBreaks, InMigration
<1>8. LockInv' /\ CleanInv'
    BY <1>2 DEF StartInv, TypeInv, LockInv, CleanInv, Locked
<1>9. WorkInv'
  <2> SUFFICES ASSUME NEW q \in Process, q # p
               PROVE  pc[q] \notin {"checking", "applying", "recording"} /\ pc'[q] = pc[q]
      BY DEF StartInv, TypeInv, WorkInv
  <2> QED
      BY <1>2 DEF StartInv, TypeInv, LockInv, Locked
<1> QED
    BY <1>4, <1>5, <1>6, <1>7, <1>8, <1>9 DEF StartInv

LEMMA NextInv ==
    ASSUME StartupConstants, StartInv, [Next]_vars
    PROVE  StartInv'
<1> USE DEF StartupConstants
<1>1. CASE UNCHANGED vars
    BY <1>1, Unmoved DEF vars, tables, StartVars
<1>2. ASSUME NEW p \in Process, Step(p)
      PROVE  StartInv'
  <2>1. CASE Boot(p)
      BY <2>1, BootInv
  <2>2. CASE Migrating(p)
    <3>1. CASE Ping(p) \/ AcquireLock(p) \/ CreateLedger(p) \/ Check(p)
        BY <3>1, PingInv, AcquireLockInv, CreateLedgerInv, CheckInv
    <3>2. CASE Apply(p) \/ Record(p)
        BY <3>2, ApplyInv, RecordInv
    <3>3. CASE Commit(p)
        BY <3>3, CommittedInv DEF Commit
    <3> QED
        BY <2>2, <3>1, <3>2, <3>3 DEF Migrating
  <2>3. CASE CommitAnswerLost(p)
      BY <2>3, CommittedInv DEF CommitAnswerLost
  <2>4. CASE AcquireTable(p) \/ Serve(p) \/ Refuse(p) \/ Finish(p)
      BY <2>4, Unmoved DEF AcquireTable, Serve, Refuse, Finish, StartVars, tables
  <2>5. CASE GiveUp(p)
      BY <2>5, RollbackInv DEF GiveUp, InFlight, InMigration, StartInv, TypeInv
  <2>6. CASE Terminate(p)
      BY <2>6 DEF Terminate, go, tables, StartInv, TypeInv, LockInv, CleanInv, WorkInv, LedgerMatchesSchema,
         NoStartBreaks, ServesOnItsSchema, Rows, Objects, Known, UsesDatabase, Locked, InMigration
  <2>7. CASE Stop(p)
      BY <2>7 DEF Stop, go, tables, StartInv, TypeInv, LockInv, CleanInv, WorkInv, LedgerMatchesSchema,
         NoStartBreaks, ServesOnItsSchema, Rows, Objects, Known, UsesDatabase, Locked, InMigration
  <2>8. CASE Fail(p)
      BY <2>8, RollbackInv DEF Fail, go, StartInv, TypeInv
  <2> QED
      BY <1>2, <2>1, <2>2, <2>3, <2>4, <2>5, <2>6, <2>7, <2>8 DEF Step
<1>3. CASE DatabaseStops
  <2>1. Rollback(Process) /\ UNCHANGED <<release, settings, version>>
      BY <1>3 DEF DatabaseStops
  <2>2. pc' \in [Process -> {"down", "pinging", "serving", "stopping", "gone", "broken"} \cup InMigration]
      BY <1>3 DEF DatabaseStops, StartInv, TypeInv
  <2>3. \A q \in Process : pc'[q] = "down" \/ (pc'[q] = pc[q] /\ pc[q] \notin InMigration)
      BY <1>3 DEF DatabaseStops
  <2>4. \A q \in Process : \/ q \notin Process /\ pc'[q] = pc[q]
                           \/ q \in Process /\ pc'[q] \in {"down", "gone"}
                           \/ q \in Process /\ pc'[q] = pc[q] /\ pc[q] \notin InMigration
      BY <2>3
  <2> QED
      BY <2>1, <2>2, <2>4, Process \in SUBSET Process, None \notin Process, RollbackInv, Zenon
<1>4. CASE DatabaseStarts
    BY <1>4, Unmoved DEF DatabaseStarts, StartVars, tables
<1> QED
    BY <1>1, <1>2, <1>3, <1>4 DEF Next

THEOREM StartIsInvariant == Spec => []StartInv
BY StartupConstants, InitInv, NextInv, PTL DEF Spec

(* At most one process is between the advisory lock and its commit.        *)
THEOREM MigrationsExclude ==
    Spec => [](\A p, q \in Process : pc[p] \in Locked /\ pc[q] \in Locked => p = q)
<1>1. StartInv => \A p, q \in Process : pc[p] \in Locked /\ pc[q] \in Locked => p = q
    BY DEF StartInv, LockInv
<1> QED
    BY <1>1, StartIsInvariant, PTL

(* The ledger names exactly the scripts whose objects exist, and the       *)
(* schema is that of one release or the other, whatever fails.             *)
THEOREM LedgerIsTrue == Spec => []LedgerMatchesSchema
BY StartIsInvariant, PTL DEF StartInv

(* No migration script meets objects that exist or misses what it needs.   *)
THEOREM StartsDoNotBreak == Spec => []NoStartBreaks
BY StartIsInvariant, PTL DEF StartInv

(* Whoever serves has the schema of its release.                           *)
THEOREM ServingIsSafe == Spec => []ServesOnItsSchema
BY StartIsInvariant, PTL DEF StartInv

(* An orderly shutdown cuts no accepted request off.                       *)
THEOREM ShutdownIsOrderly == Spec => ShutdownLetsRequestsEnd
<1>1. ASSUME StartInv, faults \in Nat, Next, NEW p \in Process, InFlight(p), pc'[p] = "gone"
      PROVE  faults' > faults
  <2>1. pc[p] \in {"serving", "stopping"}
      BY <1>1 DEF InFlight
  <2>2. PICK q \in Process : Stop(q) \/ Fail(q)
      BY <1>1, <2>1 DEF Next, Step, Migrating, tables, go, Boot, Ping, AcquireLock, CreateLedger, Check,
         Apply, Break, Record, Commit, CommitAnswerLost, Committed, AcquireTable, Serve, Refuse, Finish, GiveUp,
         Terminate, DatabaseStops, DatabaseStarts, StartInv, TypeInv
  <2>3. ~Stop(q)
      BY <1>1, <2>1 DEF Stop, go, StartInv, TypeInv
  <2> QED
      BY <1>1, <2>2, <2>3 DEF Fail
<1>2. Init => faults \in Nat
    BY DEF Init
<1>3. faults \in Nat /\ [Next]_vars => (faults \in Nat)'
  <2>1. ASSUME Next PROVE faults' \in {faults, faults + 1}
    <3>1. ASSUME NEW p \in Process, Step(p) PROVE faults' \in {faults, faults + 1}
      <4>1. CASE Boot(p) \/ Ping(p) \/ AcquireLock(p) \/ CreateLedger(p) \/ Check(p)
          BY <4>1 DEF Boot, Ping, AcquireLock, CreateLedger, Check
      <4>2. CASE Apply(p) \/ Record(p) \/ Commit(p) \/ CommitAnswerLost(p) \/ Fail(p)
          BY <4>2 DEF Apply, Record, Commit, CommitAnswerLost, Fail
      <4>3. CASE AcquireTable(p) \/ Serve(p) \/ Refuse(p) \/ Finish(p) \/ GiveUp(p) \/ Terminate(p) \/ Stop(p)
          BY <4>3 DEF AcquireTable, Serve, Refuse, Finish, GiveUp, Terminate, Stop
      <4> QED
          BY <3>1, <4>1, <4>2, <4>3 DEF Step, Migrating
    <3> QED
        BY <2>1, <3>1 DEF Next, DatabaseStops, DatabaseStarts
  <2> QED
      BY <2>1 DEF vars
<1>4. StartInv /\ faults \in Nat /\ [Next]_vars =>
        [\A p \in Process : InFlight(p) /\ pc'[p] = "gone" => faults' > faults]_vars
    BY <1>1
<1> QED
    BY <1>2, <1>3, <1>4, StartIsInvariant, PTL DEF Spec, ShutdownLetsRequestsEnd

-----------------------------------------------------------------------------
(* The refinement of SchemaUpgrade.                                        *)
Level   == Cardinality(ledger)
Serving == {p \in Process : pc[p] \in {"serving", "stopping"} /\ UsesDatabase(p)}

LEMMA IntervalCardinality == \A n \in Nat : Cardinality(1..n) = n
<1> SUFFICES ASSUME NEW n \in Nat PROVE Cardinality(1..n) = n
    OBVIOUS
<1>1. Cardinality(1..n) = IF 1 > n THEN 0 ELSE n - 1 + 1
    BY FS_Interval, 1 \in Int, n \in Int, Zenon
<1> QED
    BY <1>1

LEMMA LevelOfLedger ==
    ASSUME StartInv
    PROVE  /\ Level \in 0..Latest
           /\ \A n \in 0..Latest : ledger = 1..n => Level = n
           /\ ledger = 1..Level
<1>1. \A n \in 0..Latest : Cardinality(1..n) = n
    BY IntervalCardinality DEF Latest
<1>2. \E n \in 0..Latest : ledger = 1..n
  <2>1. ledger = 1..release \/ ledger = 1..Latest
      BY DEF StartInv, LedgerMatchesSchema, Versions
  <2>2. release \in 0..Latest /\ Latest \in 0..Latest
      BY DEF StartInv, TypeInv, Latest
  <2> QED
      BY <2>1, <2>2
<1> QED
    BY <1>1, <1>2 DEF Level

LEMMA RefinesInit == StartupConstants /\ Init => Upgrade!Init
<1> SUFFICES ASSUME StartupConstants, Init PROVE Upgrade!Init
    OBVIOUS
<1>1. release \in 0..Latest /\ ledger = 1..release
    BY DEF StartupConstants, Init
<1>2. Level = release
    BY <1>1, InitInv, LevelOfLedger
<1>3. Serving \in SUBSET {p \in Process : Known(p) <= Level}
    BY <1>1, <1>2 DEF Init, Serving, Known, Latest
<1>4. [p \in Process |-> Known(p)] \in [Process -> 0..Latest]
    BY <1>1 DEF Known, Latest
<1>5. \A p \in Process : [q \in Process |-> Known(q)][p] = Known(p)
    OBVIOUS
<1> QED
    BY <1>1, <1>2, <1>3, <1>4, <1>5 DEF Upgrade!Init, Level, Serving

(* A commit raises the level to what p knows, if it was below.             *)
LEMMA CommitRaises ==
    ASSUME StartInv, NEW p \in Process, NEW to \in {"serving", "down"}, None \notin Process,
           Committed(p), go(p, to)
    PROVE  Level' = IF Level < Known(p) THEN Known(p) ELSE Level
<1>1. Known(p) \in 0..6 /\ Latest = 6
    BY KnownIsVersion DEF StartInv, Latest
<1>2. ledger' = 1..Level \cup 1..Known(p) /\ Level \in 0..6
    BY <1>1, CommittedInv, LevelOfLedger
<1>3. ledger' = 1..(IF Level < Known(p) THEN Known(p) ELSE Level)
    BY <1>1, <1>2
<1>4. \A n \in 0..6 : Cardinality(1..n) = n
    BY IntervalCardinality
<1> QED
    BY <1>1, <1>2, <1>3, <1>4 DEF Level

LEMMA RefinesNext ==
    ASSUME StartupConstants, StartInv, [Next]_vars
    PROVE  [Upgrade!Next]_Upgrade!vars
<1> USE DEF StartupConstants
<1> DEFINE knows == [p \in Process |-> Known(p)]
<1>1. CASE UNCHANGED vars
    BY <1>1 DEF vars, tables, Upgrade!vars, Known, UsesDatabase
<1>2. UNCHANGED <<release, settings>>
    BY <1>1 DEF Next, Step, Migrating, Boot, Ping, AcquireLock, CreateLedger, Check, Apply, Record, Commit,
       CommitAnswerLost, Committed, AcquireTable, Serve, Refuse, Finish, GiveUp, Terminate, Stop, Fail,
       DatabaseStops, DatabaseStarts, vars
<1>3. knows' = knows /\ \A p \in Process : knows[p] = Known(p) /\ UsesDatabase(p)' = UsesDatabase(p)
    BY <1>2 DEF Known, UsesDatabase
<1>4. ASSUME NEW p \in Process, Level' = IF Level < Known(p) THEN Known(p) ELSE Level,
             Serving' \in {Serving, Serving \cup {p}}
      PROVE  Upgrade!Next
    BY <1>3, <1>4 DEF Upgrade!Next, Upgrade!Start, Upgrade!Upgrade, Upgrade!Raise, Level, Serving
<1>5. ASSUME NEW p \in Process, UNCHANGED ledger, Serving' = Serving \ {p}
      PROVE  Upgrade!Next
    BY <1>3, <1>5 DEF Upgrade!Next, Upgrade!Leave, Level, Serving
<1>6. ASSUME UNCHANGED ledger, Serving' = Serving
      PROVE  UNCHANGED Upgrade!vars
    BY <1>3, <1>6 DEF Upgrade!vars, Serving
<1>7. ASSUME NEW p \in Process, Step(p)
      PROVE  Upgrade!Next \/ UNCHANGED Upgrade!vars
  <2> USE DEF go
  <2>1. CASE Commit(p)
    <3>1. Level' = IF Level < Known(p) THEN Known(p) ELSE Level
        BY <2>1, CommitRaises DEF Commit
    <3>2. pc' = [pc EXCEPT ![p] = "serving"] /\ pc[p] = "checking"
        BY <2>1 DEF Commit, Committed
    <3>3. CASE UsesDatabase(p)
        BY <1>3, <1>4, <3>1, <3>2, <3>3 DEF Serving, StartInv, TypeInv
    <3>4. CASE ~UsesDatabase(p)
        BY <1>3, <1>4, <3>1, <3>2, <3>4 DEF Serving, StartInv, TypeInv
    <3> QED
        BY <3>3, <3>4
  <2>2. CASE CommitAnswerLost(p)
      BY <1>3, <1>4, <2>2, CommitRaises DEF CommitAnswerLost, Committed, Serving, StartInv, TypeInv
  <2>3. CASE Boot(p)
      BY <1>3, <1>6, <2>3 DEF Boot, tables, Serving, UsesDatabase, StartInv, TypeInv
  <2>4. CASE Ping(p) \/ AcquireLock(p) \/ CreateLedger(p) \/ Check(p)
      BY <1>3, <1>6, <2>4 DEF Ping, AcquireLock, CreateLedger, Check, tables, Serving, StartInv, TypeInv
  <2>5. CASE Apply(p) \/ Record(p)
      BY <1>3, <1>6, <2>5 DEF Apply, Record, Break, Rollback, Serving, StartInv, TypeInv
  <2>6. CASE AcquireTable(p) \/ Serve(p) \/ Refuse(p) \/ Finish(p) \/ GiveUp(p)
      BY <1>3, <1>6, <2>6 DEF AcquireTable, Serve, Refuse, Finish, GiveUp, Rollback, tables, Serving
  <2>7. CASE Terminate(p)
      BY <1>3, <1>6, <2>7 DEF Terminate, tables, Serving, StartInv, TypeInv
  <2>8. CASE Stop(p)
      BY <1>3, <1>5, <2>8 DEF Stop, tables, Serving, StartInv, TypeInv
  <2>9. CASE Fail(p)
      BY <1>3, <1>5, <2>9 DEF Fail, Rollback, Serving, StartInv, TypeInv
  <2> QED
      BY <1>7, <2>1, <2>2, <2>3, <2>4, <2>5, <2>6, <2>7, <2>8, <2>9 DEF Step, Migrating
<1>8. CASE DatabaseStops
    BY <1>3, <1>6, <1>8 DEF DatabaseStops, Rollback, Serving, StartInv, TypeInv, InMigration
<1>9. CASE DatabaseStarts
    BY <1>3, <1>6, <1>9 DEF DatabaseStarts, tables, Serving
<1> QED
    BY <1>1, <1>7, <1>8, <1>9 DEF Next

(* The starts together move the schema as SchemaUpgrade says: one version  *)
(* at a time, and nobody serves before the schema is the one it knows.     *)
THEOREM UpgradeIsImplemented == Spec => ImplementsUpgrade
BY StartupConstants, RefinesInit, RefinesNext, StartIsInvariant, PTL
   DEF Spec, ImplementsUpgrade, Upgrade!Spec
=============================================================================
