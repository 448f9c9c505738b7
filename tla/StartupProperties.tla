------------------------- MODULE StartupProperties -------------------------
(* What makes the start and the stop of the processes correct.             *)
EXTENDS Startup

TypeOK ==
    /\ release \in Releases /\ settings \in Settings
    /\ database \in BOOLEAN
    /\ schema \subseteq 0..Latest /\ ledger \subseteq Versions
    /\ migrator \in Process \cup {None}
    /\ pc \in [Process -> {"down", "pinging", "serving", "stopping", "gone", "broken"} \cup InMigration]
    /\ version \in [Process -> 1..(Latest + 1)]
    /\ created \in [Process -> SUBSET (0..Latest)]
    /\ recorded \in [Process -> SUBSET Versions]
    /\ \A p \in Process : wants[p] \in Seq(Lock) /\ Len(wants[p]) <= 7
    /\ held \in [Process -> SUBSET Lock]
    /\ answer \in {None, "unauthorized", "unavailable", "aborted"}
    /\ faults \in 0..MaxFaults

(* The ledger names exactly the scripts whose objects exist, and the       *)
(* schema is that of a release: no start, however it ends, leaves some of  *)
(* the missing migrations behind (Migrate's one transaction).              *)
LedgerMatchesSchema ==
    /\ schema \ {Ledger} = ledger
    /\ ledger \in {1..release, Versions}

(* No start fails of itself: however many processes start together and     *)
(* wherever earlier ones ended, no script meets objects that exist already *)
(* or misses objects it needs (the advisory lock is taken before the       *)
(* ledger is read, and ends with the transaction).                         *)
NoStartBreaks == \A p \in Process : pc[p] # "broken"

(* A process that serves has the schema of its release; one of the         *)
(* previous release keeps its own while others upgrade the schema under it *)
(* (Open returns a store only after Migrate has committed).                *)
UsesDatabase(p) == p \in Agents \/ settings.database

ServesOnItsSchema ==
    \A p \in Process :
        pc[p] \in {"serving", "stopping"} /\ UsesDatabase(p) => 1..Known(p) \subseteq ledger

(* Nobody waits in a circle: a migration takes the locks of the tables it  *)
(* alters in an order that no transaction of a serving replica reverses    *)
(* (ScriptLocks against Transactions), and never waits for a start that    *)
(* waits for the advisory lock.                                            *)
NoDeadlock ==
    ~\E S \in SUBSET Process :
        /\ S # {}
        /\ \A p \in S : \E q \in S \ {p} : Blocks(q, p)

(* A request that was accepted is not cut off by an orderly shutdown: the  *)
(* process is gone only when it has ended (run waits for shutdownDone      *)
(* after Serve has returned), faults and the shutdown timeout apart.       *)
ShutdownLetsRequestsEnd ==
    [][\A p \in Process :
        InFlight(p) /\ pc'[p] = "gone" => faults' > faults]_vars

(* The starts together move the schema as SchemaUpgrade says.              *)
Upgrade == INSTANCE SchemaUpgrade WITH
    Processes <- Process,
    Newest    <- Latest,
    knows     <- [p \in Process |-> Known(p)],
    level     <- Cardinality(ledger),
    serving   <- {p \in Process : pc[p] \in {"serving", "stopping"} /\ UsesDatabase(p)}

ImplementsUpgrade == Upgrade!Spec

(* Once faults cease every start and every stop comes to its end, whatever *)
(* lock it must wait for: API replicas serve for good, one that was told   *)
(* to stop is gone.                                                        *)
StartsAndStopsEnd ==
    <>[](\A p \in Process : pc[p] \in IF p \in Api THEN {"serving"} ELSE {"serving", "gone"})
=============================================================================
