------------------------------ MODULE Startup ------------------------------
(***************************************************************************)
(* Processes of IncidentPilot from start to stop: storage.Open with its    *)
(* ping loop and Migrate, the API server, its shutdown, and the agent,     *)
(* which opens the same database.  Several processes start at once; while  *)
(* a release is rolled out, replicas of the previous one keep serving.     *)
(*                                                                         *)
(* PostgreSQL runs a statement of a transaction on what is committed when  *)
(* the statement starts and on the transaction's own writes (READ          *)
(* COMMITTED).  A lost session rolls its transaction back and frees its    *)
(* locks.  A serving process has at most one transaction open here.        *)
(***************************************************************************)
EXTENDS SchemaScripts, FiniteSets

CONSTANTS
    Api,        \* API replicas of this release
    Agents,     \* agent processes of this release
    Old,        \* API replicas of the previous release
    Releases,   \* versions of the schema that the previous release may know; 0 for none
    Settings,   \* configurations of the API that config.Parse accepts
    Requests,   \* routes that are requested
    MaxFaults,  \* bound: crashes, evictions, failed calls, database restarts
    None        \* absent value

Process == Api \cup Agents \cup Old

(* config.Parse: which settings go together.                               *)
Setting ==
    {s \in [database : BOOLEAN, mcp : BOOLEAN, remediation : BOOLEAN, mode : {"demo", "external"}] :
        s.mcp \/ s.remediation => s.database}

Routes ==
    {"alerts", "incidents", "collect", "evidence", "remediate", "remediation"}

ASSUME StartupConstants ==
    /\ Api \cap Agents = {} /\ Old \cap (Api \cup Agents) = {}
    /\ Releases \subseteq 0..Latest
    /\ Settings \subseteq Setting
    /\ Requests \subseteq Routes
    /\ MaxFaults \in Nat
    /\ None \notin Process

VARIABLES
    release,    \* version the previous release knows
    settings,   \* configuration of the API
    database,   \* PostgreSQL accepts connections
    schema,     \* scripts whose objects are committed
    ledger,     \* committed rows of schema_migrations
    migrator,   \* holder of the advisory lock
    pc,         \* where a process stands
    version,    \* migration Migrate has come to
    created,    \* objects created by the process's open transaction
    recorded,   \* ledger rows inserted by it
    wants,      \* table locks its current statements have yet to take
    held,       \* table locks it holds
    answer,     \* how the last request that needed no database ended
    faults      \* faults so far, counted

tables == <<schema, ledger, migrator, created, recorded>>
vars   == <<release, settings, database, tables, pc, version, wants, held, answer, faults>>

(* The migrations compiled into a process.                                 *)
Known(p) == IF p \in Old THEN release ELSE Latest

Init ==
    /\ release \in Releases
    /\ settings \in Settings
    /\ database \in BOOLEAN
    /\ schema \in IF release = 0 THEN {{}, {Ledger}} ELSE {0..release}
    /\ ledger   = 1..release
    /\ migrator = None
    /\ pc = [p \in Process |-> IF p \notin Old THEN "down" ELSE IF release > 0 THEN "serving" ELSE "gone"]
    /\ version  = [p \in Process |-> 1]
    /\ created  = [p \in Process |-> {}]
    /\ recorded = [p \in Process |-> {}]
    /\ wants    = [p \in Process |-> <<>>]
    /\ held     = [p \in Process |-> {}]
    /\ answer   = None
    /\ faults   = 0

(* What a statement of p's transaction sees.                               *)
Objects(p) == schema \cup created[p]
Rows(p)    == ledger \cup recorded[p]

InMigration == {"locking", "ledger", "checking", "applying", "recording"}
InFlight(p) == pc[p] \in {"serving", "stopping"} /\ (wants[p] # <<>> \/ held[p] # {})

go(p, to) == pc' = [pc EXCEPT ![p] = to]

(* A transaction ends without a commit: its writes and its locks are gone. *)
Rollback(ps) ==
    /\ created'  = [p \in Process |-> IF p \in ps THEN {} ELSE created[p]]
    /\ recorded' = [p \in Process |-> IF p \in ps THEN {} ELSE recorded[p]]
    /\ wants'    = [p \in Process |-> IF p \in ps THEN <<>> ELSE wants[p]]
    /\ held'     = [p \in Process |-> IF p \in ps THEN {} ELSE held[p]]
    /\ migrator' = IF migrator \in ps THEN None ELSE migrator
    /\ UNCHANGED <<schema, ledger>>

-----------------------------------------------------------------------------
(* Mutant: the version of a migration is the index of its file.            *)
BootZeroBased(p) ==
    /\ pc[p] \in {"down", "broken"}
    /\ go(p, IF settings.database \/ p \in Agents THEN "pinging" ELSE "serving")
    /\ version' = [version EXCEPT ![p] = 0]
    /\ UNCHANGED <<release, settings, database, tables, wants, held, answer, faults>>

(* main: without a database the API serves at once.                        *)
Boot(p) ==
    /\ pc[p] \in {"down", "broken"}
    /\ go(p, IF settings.database \/ p \in Agents THEN "pinging" ELSE "serving")
    /\ version' = [version EXCEPT ![p] = 1]
    /\ UNCHANGED <<release, settings, database, tables, wants, held, answer, faults>>

(* Open: ping every second until the database answers; then Begin.         *)
Ping(p) ==
    /\ pc[p] = "pinging" /\ database
    /\ go(p, "locking")
    /\ UNCHANGED <<release, settings, database, tables, version, wants, held, answer, faults>>

(* Mutant: pg_try_advisory_xact_lock, whose answer nobody reads.           *)
AcquireLockUnread(p) ==
    /\ pc[p] = "locking"
    /\ migrator' = IF migrator = None THEN p ELSE migrator
    /\ go(p, "ledger")
    /\ UNCHANGED <<release, settings, database, schema, ledger, created, recorded,
                   version, wants, held, answer, faults>>

(* SELECT pg_advisory_xact_lock: waits until no transaction holds it.      *)
AcquireLock(p) ==
    /\ pc[p] = "locking"
    /\ migrator = None
    /\ migrator' = p
    /\ go(p, "ledger")
    /\ UNCHANGED <<release, settings, database, schema, ledger, created, recorded,
                   version, wants, held, answer, faults>>

(* CREATE TABLE IF NOT EXISTS schema_migrations.                           *)
CreateLedger(p) ==
    /\ pc[p] = "ledger"
    /\ created' = [created EXCEPT ![p] = IF Ledger \in schema THEN @ ELSE @ \cup {Ledger}]
    /\ go(p, "checking")
    /\ UNCHANGED <<release, settings, database, schema, ledger, migrator, recorded,
                   version, wants, held, answer, faults>>

(* SELECT EXISTS: a version on record is skipped.                          *)
Check(p) ==
    /\ pc[p] = "checking" /\ version[p] <= Known(p)
    /\ IF version[p] \in Rows(p)
         THEN /\ version' = [version EXCEPT ![p] = @ + 1]
              /\ UNCHANGED <<pc, wants>>
         ELSE /\ go(p, "applying")
              /\ wants' = [wants EXCEPT ![p] = ScriptLocks[version[p]]]
              /\ UNCHANGED version
    /\ UNCHANGED <<release, settings, database, tables, held, answer, faults>>

(* A statement that finds its objects in place, or others missing, fails.  *)
Applicable(p, v) == v \notin Objects(p) /\ Needs[v] \subseteq Objects(p)

Break(p) ==
    /\ go(p, "broken")
    /\ Rollback({p})
    /\ UNCHANGED version

Apply(p) ==
    /\ pc[p] = "applying" /\ wants[p] = <<>>
    /\ \/ /\ Applicable(p, version[p])
          /\ created' = [created EXCEPT ![p] = @ \cup {version[p]}]
          /\ go(p, "recording")
          /\ UNCHANGED <<schema, ledger, migrator, recorded, version, wants, held>>
       \/ ~Applicable(p, version[p]) /\ Break(p)
    /\ UNCHANGED <<release, settings, database, answer, faults>>

(* Mutants: the version is not inserted; or script and version are         *)
(* committed one by one.                                                   *)
RecordNothing(p) ==
    /\ pc[p] = "recording"
    /\ version' = [version EXCEPT ![p] = @ + 1]
    /\ go(p, "checking")
    /\ UNCHANGED <<release, settings, database, tables, wants, held, answer, faults>>

RecordCommitted(p) ==
    /\ pc[p] = "recording"
    /\ schema' = schema \cup created[p]
    /\ ledger' = ledger \cup {version[p]}
    /\ created' = [created EXCEPT ![p] = {}]
    /\ version' = [version EXCEPT ![p] = @ + 1]
    /\ go(p, "checking")
    /\ UNCHANGED <<release, settings, database, migrator, recorded, wants, held, answer, faults>>

(* INSERT INTO schema_migrations, whose key is the version.                *)
Record(p) ==
    /\ pc[p] = "recording"
    /\ \/ /\ version[p] \notin Rows(p)
          /\ recorded' = [recorded EXCEPT ![p] = @ \cup {version[p]}]
          /\ version' = [version EXCEPT ![p] = @ + 1]
          /\ go(p, "checking")
          /\ UNCHANGED <<schema, ledger, migrator, created, wants, held>>
       \/ version[p] \in Rows(p) /\ Break(p)
    /\ UNCHANGED <<release, settings, database, answer, faults>>

(* Mutants: Migrate returns without the commit; or the lock is the         *)
(* session's, and the connection goes back to the pool with it.            *)
RolledBack(p) ==
    /\ pc[p] = "checking" /\ version[p] > Known(p)
    /\ Rollback({p})
    /\ UNCHANGED <<release, settings, database, version, answer>>

CommittedKeepingLock(p) ==
    /\ pc[p] = "checking" /\ version[p] > Known(p)
    /\ schema' = schema \cup created[p]
    /\ ledger' = ledger \cup recorded[p]
    /\ created'  = [created EXCEPT ![p] = {}]
    /\ recorded' = [recorded EXCEPT ![p] = {}]
    /\ held'     = [held EXCEPT ![p] = {}]
    /\ UNCHANGED <<release, settings, database, migrator, version, wants, answer>>

(* Commit.  Its answer may be lost: the writes stay, the start fails.      *)
Committed(p) ==
    /\ pc[p] = "checking" /\ version[p] > Known(p)
    /\ schema' = schema \cup created[p]
    /\ ledger' = ledger \cup recorded[p]
    /\ migrator' = None
    /\ created'  = [created EXCEPT ![p] = {}]
    /\ recorded' = [recorded EXCEPT ![p] = {}]
    /\ held'     = [held EXCEPT ![p] = {}]
    /\ UNCHANGED <<release, settings, database, version, wants, answer>>

Commit(p) ==
    Committed(p) /\ go(p, "serving") /\ UNCHANGED faults

CommitAnswerLost(p) ==
    /\ faults < MaxFaults
    /\ Committed(p)
    /\ go(p, "down")
    /\ faults' = faults + 1

-----------------------------------------------------------------------------
(* Who p waits for: the holder of the advisory lock, of a table lock that  *)
(* conflicts with the next one p wants, or a migration that was in the     *)
(* queue for the table before p held anything of it.                       *)
Clash(l, m) == l.table = m.table /\ l.mode \in Conflicts[m.mode]

Blocks(q, p) ==
    \/ pc[p] = "locking" /\ migrator = q
    \/ /\ wants[p] # <<>>
       /\ \/ \E l \in held[q] : Clash(l, Head(wants[p]))
          \/ /\ pc[q] = "applying" /\ wants[q] # <<>>
             /\ Clash(Head(wants[q]), Head(wants[p]))
             /\ ~\E l \in held[p] : Clash(l, Head(wants[q]))

(* The next table lock of a statement.                                     *)

AcquireTable(p) ==
    /\ wants[p] # <<>>
    /\ \A q \in Process \ {p} : ~Blocks(q, p)
    /\ held' = [held EXCEPT ![p] = @ \cup {Head(wants[p])}]
    /\ wants' = [wants EXCEPT ![p] = Tail(@)]
    /\ UNCHANGED <<release, settings, database, tables, pc, version, answer, faults>>

(* The guards of a route before it turns to the database.  The remediator  *)
(* of run() is a *Service in an interface: nil or not, it is never equal   *)
(* to nil, and without a service behind it the call does not return.       *)
RemediationService == settings.remediation /\ settings.mode = "demo"

Guarded(route) ==
    CASE route \in {"alerts", "incidents", "evidence"} -> IF settings.database THEN "serve" ELSE "unauthorized"
      [] route = "collect" -> IF ~settings.database THEN "unauthorized" ELSE IF settings.mcp THEN "serve" ELSE "unavailable"
      [] route \in {"remediate", "remediation"} ->
            IF ~settings.remediation THEN "unauthorized"
            ELSE IF RemediationService THEN "serve" ELSE "aborted"

Uses(route) ==
    CASE route = "alerts"      -> {"Upsert"}
      [] route = "incidents"   -> {"Get"}
      [] route = "collect"     -> {"Get", "SaveBatch"}
      [] route = "evidence"    -> {"Get", "ListByIncident"}
      [] route = "remediate"   -> {"GetInvestigation", "ListByIncident", "SaveRemediationEvaluation"}
      [] route = "remediation" -> {"GetRemediation"}

AgentUses == {"Get", "SaveBatch", "SaveInvestigation", "GetInvestigation"}

Open(p, t) ==
    /\ t \in TransactionsOf(Known(p))
    /\ wants' = [wants EXCEPT ![p] = LocksIn(t, Known(p))]

(* A request arrives at an API replica, or the agent turns to its store.   *)
Serve(p) ==
    /\ pc[p] = "serving" /\ ~InFlight(p) /\ database
    /\ \/ /\ p \in Agents
          /\ \E t \in AgentUses : Open(p, t)
       \/ /\ p \notin Agents
          /\ \E route \in Requests :
                Guarded(route) = "serve" /\ \E t \in Uses(route) : Open(p, t)
    /\ UNCHANGED <<release, settings, database, tables, pc, version, held, answer, faults>>

(* A request that is answered without the database.                        *)
Refuse(p) ==
    /\ pc[p] = "serving" /\ ~InFlight(p) /\ p \notin Agents
    /\ \E route \in Requests : Guarded(route) # "serve" /\ answer' = Guarded(route)
    /\ UNCHANGED <<release, settings, database, tables, pc, version, wants, held, faults>>

(* The transaction of a request ends: committed, or its context ended.     *)
Finish(p) ==
    /\ InFlight(p)
    /\ wants[p] = <<>>
    /\ held' = [held EXCEPT ![p] = {}]
    /\ UNCHANGED <<release, settings, database, tables, pc, version, wants, answer, faults>>

GiveUp(p) ==
    /\ InFlight(p)
    /\ Rollback({p})
    /\ UNCHANGED <<release, settings, database, pc, version, answer, faults>>

-----------------------------------------------------------------------------
(* SIGTERM: the server takes no more requests and waits for the open ones. *)
Terminate(p) ==
    /\ p \in Old /\ pc[p] = "serving"
    /\ go(p, "stopping")
    /\ UNCHANGED <<release, settings, database, tables, version, wants, held, answer, faults>>

(* Mutant: run returns with Serve, while Shutdown still waits.             *)
StopAtOnce(p) ==
    /\ \/ pc[p] = "stopping"
       \/ pc[p] = "serving" /\ p \in Agents
    /\ go(p, "gone")
    /\ Rollback({p})
    /\ UNCHANGED <<release, settings, database, version, answer, faults>>

(* run returns once Shutdown is done; an agent ends after its work.        *)
Stop(p) ==
    /\ \/ pc[p] = "stopping"
       \/ pc[p] = "serving" /\ p \in Agents
    /\ ~InFlight(p)
    /\ go(p, "gone")
    /\ UNCHANGED <<release, settings, database, tables, version, wants, held, answer, faults>>

(* A crash, an eviction, a call that fails, the deadline of Open, SIGTERM  *)
(* before the server is up, or a shutdown that takes too long.             *)
Fail(p) ==
    /\ faults < MaxFaults
    /\ pc[p] \notin {"down", "broken", "gone"}
    /\ go(p, IF pc[p] = "stopping" THEN "gone" ELSE "down")
    /\ Rollback({p})
    /\ faults' = faults + 1
    /\ UNCHANGED <<release, settings, database, version, answer>>

(* PostgreSQL goes away with its sessions, and comes back.                 *)
DatabaseStops ==
    /\ database /\ faults < MaxFaults
    /\ database' = FALSE
    /\ faults' = faults + 1
    /\ Rollback(Process)
    /\ pc' = [p \in Process |-> IF pc[p] \in InMigration THEN "down" ELSE pc[p]]
    /\ UNCHANGED <<release, settings, version, answer>>

DatabaseStarts ==
    /\ ~database
    /\ database' = TRUE
    /\ UNCHANGED <<release, settings, tables, pc, version, wants, held, answer, faults>>

Migrating(p) ==
    \/ Ping(p) \/ AcquireLock(p) \/ CreateLedger(p) \/ Check(p)
    \/ Apply(p) \/ Record(p) \/ Commit(p)

Step(p) ==
    \/ Boot(p) \/ Migrating(p) \/ CommitAnswerLost(p) \/ AcquireTable(p)
    \/ Serve(p) \/ Refuse(p) \/ Finish(p) \/ GiveUp(p)
    \/ Terminate(p) \/ Stop(p) \/ Fail(p)

Next ==
    \/ \E p \in Process : Step(p)
    \/ DatabaseStops
    \/ DatabaseStarts

Starting(p) ==
    \/ Boot(p) \/ Migrating(p)
    \/ pc[p] = "applying" /\ AcquireTable(p)

(* Kubernetes restarts a container that ended; PostgreSQL comes back, and  *)
(* grants its locks in the order of requests, so that whoever waits is     *)
(* served although others come after it; a request ends, by itself or with *)
(* its context, and so does a shutdown.                                    *)
Fairness ==
    /\ WF_vars(DatabaseStarts)
    /\ \A p \in Process :
        /\ SF_vars(Starting(p))
        /\ WF_vars(Finish(p) \/ GiveUp(p))
        /\ WF_vars(pc[p] = "stopping" /\ Stop(p))

Spec == Init /\ [][Next]_vars /\ Fairness
=============================================================================
