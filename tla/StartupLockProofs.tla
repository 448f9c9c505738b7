------------------------- MODULE StartupLockProofs -------------------------
(***************************************************************************)
(* Theorems about the locks of Startup: the types of all its state, and    *)
(* that nobody waits in a circle.  The invariant says how far each         *)
(* transaction has come in its list of locks (ServingInv, MigratingInv)    *)
(* and that no two processes hold locks that conflict (CompatInv).  Who    *)
(* waits, waits for the one migration or is it; and the migration waits    *)
(* for no transaction that waits for it in turn.                           *)
(***************************************************************************)
EXTENDS StartupProofs

(* The locks s still to be taken once the first i of t are.                *)
Rest(s, t, i) ==
    /\ s \in Seq(Lock)
    /\ Len(s) = Len(t) - i
    /\ \A j \in 1..Len(s) : s[j] = t[i + j]

Taken(t, i) == {t[j] : j \in 1..i}

(* The locks of the migrations after version v and up to n.                *)
Scripted(v, n) == UNION {Taken(ScriptLocks[k], Len(ScriptLocks[k])) : k \in v + 1 .. n}

AtRest(p) == wants[p] = <<>> /\ held[p] = {}

(* A request in flight has taken the locks of its transaction in turn.     *)
ServingInv(p) ==
    pc[p] \in {"serving", "stopping"} =>
        \/ AtRest(p)
        \/ /\ UsesDatabase(p)
           /\ \E t \in TransactionsOf(Known(p)) :
              \E i \in 0..Len(LocksIn(t, Known(p))) :
                 /\ Rest(wants[p], LocksIn(t, Known(p)), i)
                 /\ held[p] = Taken(LocksIn(t, Known(p)), i)

(* A migration has taken those of the scripts it has passed.               *)
MigratingInv(p) ==
    /\ pc[p] \notin {"checking", "applying", "recording", "serving", "stopping"} => AtRest(p)
    /\ pc[p] = "checking" => wants[p] = <<>> /\ held[p] \subseteq Scripted(release, version[p] - 1)
    /\ pc[p] = "recording" => wants[p] = <<>> /\ held[p] \subseteq Scripted(release, version[p])
    /\ pc[p] = "applying" =>
        \E i \in 0..Len(ScriptLocks[version[p]]) :
            /\ Rest(wants[p], ScriptLocks[version[p]], i)
            /\ held[p] \subseteq Scripted(release, version[p] - 1) \cup Taken(ScriptLocks[version[p]], i)

CompatInv ==
    \A p, q \in Process : p # q => \A l \in held[p], m \in held[q] : ~Clash(l, m)

LockTypes ==
    /\ wants \in [Process -> Seq(Lock)]
    /\ held \in [Process -> SUBSET Lock]

TableInv ==
    /\ LockTypes /\ CompatInv
    /\ \A p \in Process : ServingInv(p) /\ MigratingInv(p)

-----------------------------------------------------------------------------
(***************************************************************************)
(* The lists of locks themselves.                                          *)
(***************************************************************************)
LEMMA ScriptLocksAre ==
    /\ ScriptLocks[1] = << >>
    /\ ScriptLocks[2] = << Refer("incidents") >>
    /\ ScriptLocks[3] = << Refer("incidents") >>
    /\ ScriptLocks[4] = << Refer("incidents"), Refer("investigations") >>
    /\ ScriptLocks[5] = << Alter("remediation_proposals") >>
    /\ ScriptLocks[6] = << Alter("incidents") >>
BY DEF ScriptLocks

LEMMA TransactionNames ==
    /\ DOMAIN Transactions =
         {"Upsert", "Get", "SaveBatch", "ListByIncident", "SaveInvestigation", "GetInvestigation",
          "SaveRemediationEvaluation", "GetRemediation"}
    /\ DOMAIN WithoutPullRequests = {"SaveRemediationEvaluation", "GetRemediation"}
BY DEF Transactions, WithoutPullRequests

LEMMA LocksInAre ==
    ASSUME NEW v
    PROVE  /\ LocksIn("Upsert", v) = << Insert("incidents") >>
           /\ LocksIn("Get", v) = << Read("incidents") >>
           /\ LocksIn("SaveBatch", v) = << Insert("evidence"), Key("incidents") >>
           /\ LocksIn("ListByIncident", v) = << Read("evidence") >>
           /\ LocksIn("SaveInvestigation", v) = << Insert("investigations"), Key("incidents") >>
           /\ LocksIn("GetInvestigation", v) = << Read("investigations") >>
BY TransactionNames DEF LocksIn, Transactions

LEMMA EvaluationLocksAre ==
    ASSUME NEW v
    PROVE  \/ LocksIn("SaveRemediationEvaluation", v) =
                << Insert("remediation_proposals"), Key("incidents"), Key("investigations"),
                   Insert("policy_decisions"), Key("remediation_proposals"), Insert("audit_events") >>
           \/ LocksIn("SaveRemediationEvaluation", v) =
                << Insert("remediation_proposals"), Key("incidents"), Key("investigations"),
                   Insert("policy_decisions"), Key("remediation_proposals"),
                   Insert("remediation_pull_requests"), Insert("audit_events") >>
BY TransactionNames DEF LocksIn, Transactions, WithoutPullRequests

LEMMA ReadingLocksAre ==
    ASSUME NEW v
    PROVE  \/ LocksIn("GetRemediation", v) =
                << Read("remediation_proposals"), Read("policy_decisions"), Read("audit_events") >>
           \/ LocksIn("GetRemediation", v) =
                << Read("remediation_proposals"), Read("policy_decisions"),
                   Read("remediation_pull_requests"), Read("audit_events") >>
BY TransactionNames DEF LocksIn, Transactions, WithoutPullRequests

LEMMA LocksAre ==
    \A table \in {"incidents", "evidence", "investigations", "remediation_proposals",
                  "policy_decisions", "audit_events", "remediation_pull_requests"} :
        /\ Refer(table) \in Lock /\ Alter(table) \in Lock
        /\ Read(table) \in Lock /\ Insert(table) \in Lock /\ Key(table) \in Lock
BY DEF Refer, Alter, Read, Insert, Key, On, Lock, Tables, CreatedBy, Modes

LEMMA ScriptLocksTypes ==
    ASSUME NEW n \in Versions
    PROVE  ScriptLocks[n] \in Seq(Lock) /\ Len(ScriptLocks[n]) \in 0..2
<1>1. n \in {1, 2, 3, 4, 5, 6}
  BY DEF Versions, Latest
<1>2. /\ Refer("incidents") \in Lock /\ Refer("investigations") \in Lock
      /\ Alter("remediation_proposals") \in Lock /\ Alter("incidents") \in Lock
  BY LocksAre
<1>3. CASE n = 1
  BY <1>3, ScriptLocksAre
<1>4. CASE n = 2
  BY <1>2, <1>4, ScriptLocksAre
<1>8. CASE n = 3
  BY <1>2, <1>8, ScriptLocksAre
<1>5. CASE n = 4
  BY <1>2, <1>5, ScriptLocksAre
<1>6. CASE n = 5
  BY <1>2, <1>6, ScriptLocksAre
<1>7. CASE n = 6
  BY <1>2, <1>7, ScriptLocksAre
<1> QED
  BY <1>1, <1>3, <1>4, <1>5, <1>6, <1>7, <1>8

LEMMA LocksInTypes ==
    ASSUME NEW v, NEW t \in TransactionsOf(v)
    PROVE  LocksIn(t, v) \in Seq(Lock) /\ Len(LocksIn(t, v)) \in 0..7
<1>1. t \in DOMAIN Transactions
  BY DEF TransactionsOf
<1>2. CASE t = "Upsert"
  <2>1. Insert("incidents") \in Lock
    BY LocksAre
  <2>2. LocksIn(t, v) = << Insert("incidents") >>
    BY <1>2, LocksInAre
  <2> QED
    BY <2>1, <2>2
<1>3. CASE t = "Get"
  <2>1. Read("incidents") \in Lock
    BY LocksAre
  <2>2. LocksIn(t, v) = << Read("incidents") >>
    BY <1>3, LocksInAre
  <2> QED
    BY <2>1, <2>2
<1>4. CASE t = "SaveBatch"
  <2>1. Insert("evidence") \in Lock /\ Key("incidents") \in Lock
    BY LocksAre
  <2>2. LocksIn(t, v) = << Insert("evidence"), Key("incidents") >>
    BY <1>4, LocksInAre
  <2> QED
    BY <2>1, <2>2
<1>5. CASE t = "ListByIncident"
  <2>1. Read("evidence") \in Lock
    BY LocksAre
  <2>2. LocksIn(t, v) = << Read("evidence") >>
    BY <1>5, LocksInAre
  <2> QED
    BY <2>1, <2>2
<1>6. CASE t = "SaveInvestigation"
  <2>1. Insert("investigations") \in Lock /\ Key("incidents") \in Lock
    BY LocksAre
  <2>2. LocksIn(t, v) = << Insert("investigations"), Key("incidents") >>
    BY <1>6, LocksInAre
  <2> QED
    BY <2>1, <2>2
<1>7. CASE t = "GetInvestigation"
  <2>1. Read("investigations") \in Lock
    BY LocksAre
  <2>2. LocksIn(t, v) = << Read("investigations") >>
    BY <1>7, LocksInAre
  <2> QED
    BY <2>1, <2>2
<1>8. CASE t = "SaveRemediationEvaluation"
  <2>1. /\ Insert("remediation_proposals") \in Lock /\ Key("incidents") \in Lock
        /\ Key("investigations") \in Lock /\ Insert("policy_decisions") \in Lock
        /\ Key("remediation_proposals") \in Lock
        /\ Insert("remediation_pull_requests") \in Lock /\ Insert("audit_events") \in Lock
    BY LocksAre
  <2>2. CASE LocksIn(t, v) =
                << Insert("remediation_proposals"), Key("incidents"), Key("investigations"),
                   Insert("policy_decisions"), Key("remediation_proposals"), Insert("audit_events") >>
    BY <2>1, <2>2
  <2>3. CASE LocksIn(t, v) =
                << Insert("remediation_proposals"), Key("incidents"), Key("investigations"),
                   Insert("policy_decisions"), Key("remediation_proposals"),
                   Insert("remediation_pull_requests"), Insert("audit_events") >>
    BY <2>1, <2>3
  <2> QED
    BY <1>8, <2>2, <2>3, EvaluationLocksAre
<1>9. CASE t = "GetRemediation"
  <2>1. /\ Read("remediation_proposals") \in Lock /\ Read("policy_decisions") \in Lock
        /\ Read("remediation_pull_requests") \in Lock /\ Read("audit_events") \in Lock
    BY LocksAre
  <2>2. CASE LocksIn(t, v) =
                << Read("remediation_proposals"), Read("policy_decisions"), Read("audit_events") >>
    BY <2>1, <2>2
  <2>3. CASE LocksIn(t, v) =
                << Read("remediation_proposals"), Read("policy_decisions"),
                   Read("remediation_pull_requests"), Read("audit_events") >>
    BY <2>1, <2>3
  <2> QED
    BY <1>9, <2>2, <2>3, ReadingLocksAre
<1> QED
  BY <1>1, <1>2, <1>3, <1>4, <1>5, <1>6, <1>7, <1>8, <1>9, TransactionNames

(***************************************************************************)
(* Taking the next lock of a list.                                         *)
(***************************************************************************)
LEMMA TakeNext ==
    ASSUME NEW s, NEW t \in Seq(Lock), NEW i \in 0..Len(t), Rest(s, t, i), s # <<>>
    PROVE  /\ i + 1 \in 0..Len(t)
           /\ Head(s) = t[i + 1]
           /\ Rest(Tail(s), t, i + 1)
           /\ Taken(t, i + 1) = Taken(t, i) \cup {Head(s)}
<1>1. s \in Seq(Lock) /\ Len(s) = Len(t) - i /\ Len(s) # 0
  BY DEF Rest
<1>2. i + 1 \in 0..Len(t) /\ Len(s) \in Nat /\ Len(t) \in Nat
  BY <1>1
<1>3. Head(s) = t[i + 1]
  BY <1>1, <1>2 DEF Rest
<1>4. /\ Tail(s) \in Seq(Lock) /\ Len(Tail(s)) = Len(t) - (i + 1)
      /\ \A j \in 1..Len(Tail(s)) : Tail(s)[j] = s[j + 1]
  BY <1>1, <1>2
<1>5. Rest(Tail(s), t, i + 1)
  BY <1>1, <1>2, <1>4 DEF Rest
<1>6. Taken(t, i + 1) = Taken(t, i) \cup {Head(s)}
  BY <1>2, <1>3 DEF Taken
<1> QED
  BY <1>2, <1>3, <1>5, <1>6

LEMMA TakeNothing == ASSUME NEW t \in Seq(Lock) PROVE Rest(t, t, 0) /\ Taken(t, 0) = {}
BY DEF Rest, Taken

LEMMA TakenAll ==
    ASSUME NEW t \in Seq(Lock), NEW i \in 0..Len(t), Rest(<<>>, t, i)
    PROVE  i = Len(t)
BY DEF Rest

LEMMA ScriptedGrows ==
    ASSUME NEW v \in 0..Latest, NEW n \in Versions
    PROVE  /\ Scripted(v, n - 1) \subseteq Scripted(v, n)
           /\ v < n => Scripted(v, n) = Scripted(v, n - 1) \cup Taken(ScriptLocks[n], Len(ScriptLocks[n]))
<1>1. v + 1 .. n - 1 \subseteq v + 1 .. n
  BY DEF Versions, Latest
<1>2. v < n => v + 1 .. n = (v + 1 .. n - 1) \cup {n}
  BY DEF Versions, Latest
<1> QED
  BY <1>1, <1>2 DEF Scripted

-----------------------------------------------------------------------------
(***************************************************************************)
(* A step of p: the others stand where they stood, and p does as said.     *)
(***************************************************************************)
ProcInv(p) == ServingInv(p) /\ MigratingInv(p)

SameFor(q) ==
    pc'[q] = pc[q] /\ version'[q] = version[q] /\ wants'[q] = wants[q] /\ held'[q] = held[q]

LEMMA OthersKeep ==
    ASSUME NEW q, ProcInv(q), SameFor(q), UNCHANGED <<release, settings>>
    PROVE  ProcInv(q)'
BY DEF ProcInv, SameFor, ServingInv, MigratingInv, AtRest, UsesDatabase, Known

LEMMA RestKeeps ==
    ASSUME NEW p, AtRest(p)', pc'[p] # "applying"
    PROVE  ProcInv(p)'
BY DEF ProcInv, ServingInv, MigratingInv, AtRest

(* Locks that are only given up stay compatible.                           *)
LEMMA CompatShrinks ==
    ASSUME CompatInv, \A q \in Process : held'[q] \subseteq held[q]
    PROVE  CompatInv'
BY DEF CompatInv, Clash

(* A step that leaves every table lock where it is.                        *)
LEMMA IdleStep ==
    ASSUME TableInv, StartInv, NEW p \in Process,
           UNCHANGED <<release, settings, wants, held>>,
           \A q \in Process \ {p} : pc'[q] = pc[q] /\ version'[q] = version[q],
           ProcInv(p)'
    PROVE  TableInv'
<1>1. LockTypes' /\ CompatInv'
  BY DEF TableInv, LockTypes, CompatInv, Clash
<1>2. \A q \in Process \ {p} : ProcInv(q)'
  BY OthersKeep DEF SameFor, TableInv, ProcInv
<1> QED
  BY <1>1, <1>2 DEF TableInv, ProcInv

(* The same for a process at rest that goes on elsewhere.                  *)
LEMMA RestingStep ==
    ASSUME TableInv, StartInv, NEW p \in Process, AtRest(p),
           UNCHANGED <<release, settings, wants, held>>,
           NEW to \in {"down", "pinging", "serving", "stopping", "gone", "broken",
                       "locking", "ledger", "checking", "recording"},
           go(p, to),
           \A q \in Process \ {p} : version'[q] = version[q]
    PROVE  TableInv'
<1>1. pc'[p] = to /\ \A q \in Process \ {p} : pc'[q] = pc[q]
  BY DEF go, StartInv, TypeInv
<1>2. ProcInv(p)'
  BY <1>1, RestKeeps DEF AtRest
<1> QED
  BY <1>1, <1>2, IdleStep

LEMMA ServingRests ==
    ASSUME TableInv, NEW p \in Process, pc[p] \in {"serving", "stopping"}, ~InFlight(p)
    PROVE  AtRest(p)
BY DEF InFlight, AtRest

LEMMA OutsideRests ==
    ASSUME TableInv, NEW p \in Process,
           pc[p] \notin {"checking", "applying", "recording", "serving", "stopping"}
    PROVE  AtRest(p)
BY DEF TableInv, MigratingInv

(* Locks given up by the end of transactions.                              *)
LEMMA RollbackTables ==
    ASSUME TableInv, StartInv, NEW ps \in SUBSET Process, Rollback(ps),
           UNCHANGED <<release, settings, version>>,
           \A q \in Process \ ps : pc'[q] = pc[q],
           \A q \in ps : pc'[q] # "applying"
    PROVE  TableInv'
<1>1. \A q \in Process : /\ q \in ps => wants'[q] = <<>> /\ held'[q] = {}
                         /\ q \notin ps => wants'[q] = wants[q] /\ held'[q] = held[q]
  BY DEF Rollback
<1>2. LockTypes'
  BY DEF TableInv, LockTypes, Rollback
<1>3. CompatInv'
  BY <1>1, CompatShrinks DEF TableInv
<1>4. \A q \in ps : ProcInv(q)'
  BY <1>1, RestKeeps DEF AtRest
<1>5. \A q \in Process \ ps : ProcInv(q)'
  BY <1>1, OthersKeep DEF SameFor, TableInv, ProcInv
<1> QED
  BY <1>2, <1>3, <1>4, <1>5 DEF TableInv, ProcInv

-----------------------------------------------------------------------------
(***************************************************************************)
(* The steps of a migration.                                               *)
(***************************************************************************)
LEMMA CheckTables ==
    ASSUME TableInv, StartInv, NEW p \in Process, Check(p)
    PROVE  TableInv'
<1>1. /\ pc[p] = "checking" /\ version[p] \in 1..7 /\ version[p] <= Known(p) /\ release \in 0..Latest
      /\ Known(p) \in 0..Latest
  BY KnownIsVersion DEF Check, StartInv, TypeInv, Latest
<1>2. version[p] \in Versions
  BY <1>1 DEF Versions, Latest
<1>3. wants[p] = <<>> /\ held[p] \subseteq Scripted(release, version[p] - 1)
  BY <1>1 DEF TableInv, MigratingInv
<1>4. CASE version[p] \in Rows(p)
  <2>1. version'[p] = version[p] + 1 /\ UNCHANGED <<pc, wants, held, release, settings>>
    BY <1>4 DEF Check, StartInv, TypeInv
  <2>2. held[p] \subseteq Scripted(release, version[p])
    BY <1>1, <1>2, <1>3, ScriptedGrows
  <2>3. ProcInv(p)'
    BY <1>1, <1>3, <2>1, <2>2 DEF ProcInv, ServingInv, MigratingInv
  <2>4. \A q \in Process \ {p} : pc'[q] = pc[q] /\ version'[q] = version[q]
    BY <1>4 DEF Check, StartInv, TypeInv
  <2> QED
    BY <2>1, <2>3, <2>4, IdleStep
<1>5. CASE version[p] \notin Rows(p)
  <2> DEFINE script == ScriptLocks[version[p]]
  <2>1. /\ pc' = [pc EXCEPT ![p] = "applying"]
        /\ wants' = [wants EXCEPT ![p] = script]
        /\ UNCHANGED <<version, held, release, settings>>
    BY <1>5 DEF Check, go
  <2>2. script \in Seq(Lock) /\ 0 \in 0..Len(script)
    BY <1>2, ScriptLocksTypes
  <2>3. Rest(script, script, 0) /\ Taken(script, 0) = {}
    BY <2>2, TakeNothing
  <2> HIDE DEF script
  <2>4. pc'[p] = "applying" /\ wants'[p] = script
    BY <2>1 DEF StartInv, TypeInv, TableInv, LockTypes
  <2>5. ProcInv(p)'
    BY <1>3, <2>1, <2>2, <2>3, <2>4 DEF ProcInv, ServingInv, MigratingInv, script
  <2>6. LockTypes' /\ CompatInv'
    BY <2>1, <2>2, CompatShrinks DEF TableInv, LockTypes
  <2>7. \A q \in Process \ {p} : SameFor(q)
    BY <2>1 DEF SameFor, StartInv, TypeInv, TableInv, LockTypes
  <2>8. \A q \in Process \ {p} : ProcInv(q)'
    BY <2>1, <2>7, OthersKeep DEF TableInv, ProcInv
  <2> QED
    BY <2>5, <2>6, <2>8 DEF TableInv, ProcInv
<1> QED
  BY <1>4, <1>5

LEMMA BeyondRelease ==
    ASSUME StartInv, NEW p \in Process, pc[p] \in {"applying", "recording"}
    PROVE  /\ version[p] \in Versions /\ release < version[p] /\ release \in 0..Latest
           /\ ledger = 1..release
<1>1. version[p] \in 1..7 /\ release \in 0..Latest /\ Known(p) \in 0..Latest
  BY KnownIsVersion DEF StartInv, TypeInv, Latest
<1>2. version[p] \notin Rows(p) /\ version[p] <= Known(p)
  BY DEF StartInv, WorkInv
<1>3. version[p] \in Versions
  BY <1>1, <1>2 DEF Versions, Latest
<1>4. ledger = 1..release
  BY <1>2, <1>3 DEF StartInv, LedgerMatchesSchema, Rows
<1> QED
  BY <1>1, <1>2, <1>3, <1>4 DEF Rows, Versions, Latest

LEMMA ApplyTables ==
    ASSUME TableInv, StartInv, NEW p \in Process, Apply(p)
    PROVE  TableInv'
<1>1. pc[p] = "applying" /\ wants[p] = <<>> /\ UNCHANGED <<release, settings>>
  BY DEF Apply
<1>2. version[p] \in Versions /\ release < version[p] /\ release \in 0..Latest
  BY <1>1, BeyondRelease
<1>3. CASE UNCHANGED <<version, wants, held>> /\ go(p, "recording")
  <2> DEFINE script == ScriptLocks[version[p]]
  <2>1. PICK i \in 0..Len(script) :
            /\ Rest(wants[p], script, i)
            /\ held[p] \subseteq Scripted(release, version[p] - 1) \cup Taken(script, i)
    BY <1>1 DEF TableInv, MigratingInv
  <2>2. i = Len(script)
    BY <1>1, <1>2, <2>1, TakenAll, ScriptLocksTypes
  <2>3. held[p] \subseteq Scripted(release, version[p])
    BY <1>2, <2>1, <2>2, ScriptedGrows
  <2>4. pc'[p] = "recording" /\ \A q \in Process \ {p} : pc'[q] = pc[q]
    BY <1>3 DEF go, StartInv, TypeInv
  <2>5. ProcInv(p)'
    BY <1>1, <1>3, <2>3, <2>4 DEF ProcInv, ServingInv, MigratingInv
  <2> QED
    BY <1>1, <1>3, <2>4, <2>5, IdleStep
<1>4. CASE Break(p)
  BY <1>1, <1>4, RollbackTables DEF Break, go, StartInv, TypeInv
<1> QED
  BY <1>3, <1>4 DEF Apply

LEMMA RecordTables ==
    ASSUME TableInv, StartInv, NEW p \in Process, Record(p)
    PROVE  TableInv'
<1>1. pc[p] = "recording" /\ UNCHANGED <<release, settings>>
  BY DEF Record
<1>2. version[p] \in Versions /\ wants[p] = <<>> /\ held[p] \subseteq Scripted(release, version[p])
  BY <1>1, BeyondRelease DEF TableInv, MigratingInv
<1>3. CASE version' = [version EXCEPT ![p] = @ + 1] /\ go(p, "checking") /\ UNCHANGED <<wants, held>>
  <2>1. pc'[p] = "checking" /\ version'[p] = version[p] + 1
    BY <1>3 DEF go, StartInv, TypeInv
  <2>2. \A q \in Process \ {p} : pc'[q] = pc[q] /\ version'[q] = version[q]
    BY <1>3 DEF go, StartInv, TypeInv
  <2>3. version'[p] - 1 = version[p]
    BY <1>2, <2>1 DEF Versions, Latest
  <2>4. ProcInv(p)'
    BY <1>1, <1>2, <1>3, <2>1, <2>3 DEF ProcInv, ServingInv, MigratingInv
  <2> QED
    BY <1>1, <1>3, <2>2, <2>4, IdleStep
<1>4. CASE Break(p)
  BY <1>1, <1>4, RollbackTables DEF Break, go, StartInv, TypeInv
<1> QED
  BY <1>3, <1>4 DEF Record

LEMMA CommittedTables ==
    ASSUME TableInv, StartInv, NEW p \in Process, NEW to \in {"serving", "down"},
           Committed(p), go(p, to)
    PROVE  TableInv'
<1>1. pc[p] = "checking" /\ wants[p] = <<>>
  BY DEF Committed, TableInv, MigratingInv
<1>2. UNCHANGED <<release, settings, version, wants>> /\ held' = [held EXCEPT ![p] = {}]
  BY DEF Committed
<1>3. AtRest(p)' /\ pc'[p] # "applying"
  BY <1>1, <1>2 DEF AtRest, go, TableInv, LockTypes, StartInv, TypeInv
<1>4. \A q \in Process \ {p} : SameFor(q)
  BY <1>2 DEF SameFor, go, TableInv, LockTypes, StartInv, TypeInv
<1>5. LockTypes' /\ CompatInv'
  <2>1. \A q \in Process : held'[q] \subseteq held[q]
    BY <1>2 DEF TableInv, LockTypes
  <2> QED
    BY <1>2, <2>1, CompatShrinks DEF TableInv, LockTypes
<1>6. \A q \in Process : ProcInv(q)'
  BY <1>2, <1>3, <1>4, RestKeeps, OthersKeep DEF TableInv, ProcInv
<1> QED
  BY <1>5, <1>6 DEF TableInv, ProcInv

-----------------------------------------------------------------------------
(***************************************************************************)
(* The steps of requests.                                                  *)
(***************************************************************************)
LEMMA WantsWhere ==
    ASSUME TableInv, StartInv, NEW p \in Process, wants[p] # <<>>
    PROVE  pc[p] \in {"applying", "serving", "stopping"}
BY DEF TableInv, MigratingInv, AtRest

(* PostgreSQL's table of conflicts is symmetric.                           *)
LEMMA ClashSymmetric ==
    ASSUME NEW l \in Lock, NEW m \in Lock, Clash(l, m)
    PROVE  Clash(m, l)
BY DEF Clash, Lock, Conflicts, Modes

LEMMA AcquireTableTables ==
    ASSUME TableInv, StartInv, NEW p \in Process, AcquireTable(p)
    PROVE  TableInv'
<1>1. /\ wants[p] # <<>> /\ \A q \in Process \ {p} : ~Blocks(q, p)
      /\ held' = [held EXCEPT ![p] = held[p] \cup {Head(wants[p])}]
      /\ wants' = [wants EXCEPT ![p] = Tail(wants[p])]
      /\ UNCHANGED <<release, settings, pc, version>>
  BY DEF AcquireTable
<1>2. wants \in [Process -> Seq(Lock)] /\ held \in [Process -> SUBSET Lock]
  BY DEF TableInv, LockTypes
<1>3. Head(wants[p]) \in Lock /\ Tail(wants[p]) \in Seq(Lock)
  BY <1>1, <1>2
<1> DEFINE lock == Head(wants[p])
<1>4. LockTypes'
  BY <1>1, <1>2, <1>3 DEF LockTypes
<1>5. CompatInv'
  <2>1. ASSUME NEW q \in Process \ {p}, NEW l \in held[q]
        PROVE  ~Clash(l, lock) /\ ~Clash(lock, l)
    <3>1. ~Clash(l, lock)
      BY <1>1 DEF Blocks
    <3> QED
      BY <1>2, <1>3, <3>1, ClashSymmetric
  <2>2. \A q \in Process : held'[q] = IF q = p THEN held[q] \cup {lock} ELSE held[q]
    BY <1>1, <1>2
  <2> HIDE DEF lock
  <2>3. ASSUME NEW a \in Process, NEW b \in Process, a # b, NEW l \in held'[a], NEW m \in held'[b]
        PROVE  ~Clash(l, m)
    <3>1. CASE l \in held[a] /\ m \in held[b]
      BY <2>3, <3>1 DEF TableInv, CompatInv
    <3>2. CASE a = p /\ l = lock /\ m \in held[b]
      BY <2>1, <2>3, <3>2
    <3>3. CASE b = p /\ m = lock /\ l \in held[a]
      BY <2>1, <2>3, <3>3
    <3>4. l \in held[a] \/ (a = p /\ l = lock)
      BY <2>2
    <3>5. m \in held[b] \/ (b = p /\ m = lock)
      BY <2>2
    <3> QED
      BY <2>3, <3>1, <3>2, <3>3, <3>4, <3>5
  <2> QED
    BY <2>3 DEF CompatInv, Clash
<1>6. ProcInv(p)'
  <2>1. wants'[p] = Tail(wants[p]) /\ held'[p] = held[p] \cup {lock} /\ pc'[p] = pc[p]
    BY <1>1, <1>2
  <2>2. CASE pc[p] = "applying"
    <3> DEFINE script == ScriptLocks[version[p]]
    <3>1. PICK i \in 0..Len(script) :
              /\ Rest(wants[p], script, i)
              /\ held[p] \subseteq Scripted(release, version[p] - 1) \cup Taken(script, i)
      BY <2>2 DEF TableInv, MigratingInv
    <3>2. script \in Seq(Lock)
      BY <2>2, BeyondRelease, ScriptLocksTypes
    <3> HIDE DEF script
    <3>3. /\ i + 1 \in 0..Len(script) /\ Rest(Tail(wants[p]), script, i + 1)
          /\ Taken(script, i + 1) = Taken(script, i) \cup {lock}
      BY <1>1, <3>1, <3>2, TakeNext
    <3>4. held'[p] \subseteq Scripted(release, version[p] - 1) \cup Taken(script, i + 1)
      BY <2>1, <3>1, <3>3
    <3> QED
      BY <1>1, <2>1, <2>2, <3>3, <3>4 DEF ProcInv, ServingInv, MigratingInv, script
  <2>3. CASE pc[p] \in {"serving", "stopping"}
    <3>1. UsesDatabase(p) /\ Known(p)' = Known(p) /\ UsesDatabase(p)' = UsesDatabase(p)
      BY <1>1, <2>3 DEF TableInv, ServingInv, AtRest, Known, UsesDatabase
    <3>2. PICK t \in TransactionsOf(Known(p)) : \E i \in 0..Len(LocksIn(t, Known(p))) :
              /\ Rest(wants[p], LocksIn(t, Known(p)), i)
              /\ held[p] = Taken(LocksIn(t, Known(p)), i)
      BY <1>1, <2>3 DEF TableInv, ServingInv, AtRest
    <3> DEFINE list == LocksIn(t, Known(p))
    <3>3. PICK i \in 0..Len(list) : Rest(wants[p], list, i) /\ held[p] = Taken(list, i)
      BY <3>2
    <3>4. list \in Seq(Lock)
      BY LocksInTypes
    <3> HIDE DEF list
    <3>5. /\ i + 1 \in 0..Len(list) /\ Rest(Tail(wants[p]), list, i + 1)
          /\ Taken(list, i + 1) = Taken(list, i) \cup {lock}
      BY <1>1, <3>3, <3>4, TakeNext
    <3>6. held'[p] = Taken(list, i + 1)
      BY <2>1, <3>3, <3>5
    <3> QED
      BY <1>1, <2>1, <2>3, <3>1, <3>5, <3>6 DEF ProcInv, ServingInv, MigratingInv, list
  <2> QED
    BY <1>1, <2>2, <2>3, WantsWhere
<1>7. \A q \in Process \ {p} : SameFor(q)
  BY <1>1, <1>2 DEF SameFor
<1>8. \A q \in Process \ {p} : ProcInv(q)'
  BY <1>1, <1>7, OthersKeep DEF TableInv, ProcInv
<1> QED
  BY <1>4, <1>5, <1>6, <1>8 DEF TableInv, ProcInv

(* A route that reaches the database has one.                              *)
LEMMA ServedUsesDatabase ==
    ASSUME settings \in Setting, NEW route \in Routes, Guarded(route) = "serve"
    PROVE  settings.database
BY DEF Guarded, Setting, Routes, RemediationService

LEMMA ServeTables ==
    ASSUME TableInv, StartInv, settings \in Setting, Requests \subseteq Routes,
           NEW p \in Process, Serve(p)
    PROVE  TableInv'
<1>1. /\ pc[p] = "serving" /\ ~InFlight(p)
      /\ UNCHANGED <<release, settings, pc, version, held>>
  BY DEF Serve
<1>2. UsesDatabase(p)
  BY ServedUsesDatabase DEF Serve, UsesDatabase
<1>3. PICK t \in TransactionsOf(Known(p)) : wants' = [wants EXCEPT ![p] = LocksIn(t, Known(p))]
  BY DEF Serve, Open
<1> DEFINE list == LocksIn(t, Known(p))
<1>4. list \in Seq(Lock) /\ 0 \in 0..Len(list) /\ Rest(list, list, 0) /\ Taken(list, 0) = {}
  BY LocksInTypes, TakeNothing
<1> HIDE DEF list
<1>5. wants'[p] = list /\ held'[p] = {}
  BY <1>1, <1>3, ServingRests DEF TableInv, LockTypes, AtRest, list
<1>6. ProcInv(p)'
  BY <1>1, <1>2, <1>4, <1>5 DEF ProcInv, ServingInv, MigratingInv, UsesDatabase, Known, list
<1>7. LockTypes' /\ CompatInv'
  BY <1>1, <1>3, <1>4, CompatShrinks DEF TableInv, LockTypes, list
<1>8. \A q \in Process \ {p} : SameFor(q)
  BY <1>1, <1>3 DEF SameFor, TableInv, LockTypes
<1>9. \A q \in Process \ {p} : ProcInv(q)'
  BY <1>1, <1>8, OthersKeep DEF TableInv, ProcInv
<1> QED
  BY <1>6, <1>7, <1>9 DEF TableInv, ProcInv

LEMMA FinishTables ==
    ASSUME TableInv, StartInv, NEW p \in Process, Finish(p)
    PROVE  TableInv'
<1>1. /\ wants[p] = <<>> /\ held' = [held EXCEPT ![p] = {}]
      /\ UNCHANGED <<release, settings, pc, version, wants>>
      /\ pc[p] \in {"serving", "stopping"}
  BY DEF Finish, InFlight
<1>2. AtRest(p)' /\ pc'[p] # "applying"
  BY <1>1 DEF AtRest, TableInv, LockTypes
<1>3. \A q \in Process : held'[q] \subseteq held[q]
  BY <1>1 DEF TableInv, LockTypes
<1>4. LockTypes' /\ CompatInv'
  BY <1>1, <1>3, CompatShrinks DEF TableInv, LockTypes
<1>5. \A q \in Process \ {p} : SameFor(q)
  BY <1>1 DEF SameFor, TableInv, LockTypes
<1>6. \A q \in Process : ProcInv(q)'
  BY <1>1, <1>2, <1>5, RestKeeps, OthersKeep DEF TableInv, ProcInv
<1> QED
  BY <1>4, <1>6 DEF TableInv, ProcInv

LEMMA TerminateTables ==
    ASSUME TableInv, StartInv, NEW p \in Process, Terminate(p)
    PROVE  TableInv'
<1>1. /\ pc[p] = "serving" /\ pc' = [pc EXCEPT ![p] = "stopping"]
      /\ UNCHANGED <<release, settings, version, wants, held>>
  BY DEF Terminate, go
<1>2. pc'[p] = "stopping" /\ \A q \in Process \ {p} : pc'[q] = pc[q]
  BY <1>1 DEF StartInv, TypeInv
<1>3. ProcInv(p)'
  BY <1>1, <1>2 DEF TableInv, ProcInv, ServingInv, MigratingInv, AtRest, UsesDatabase, Known
<1> QED
  BY <1>1, <1>2, <1>3, IdleStep

-----------------------------------------------------------------------------
LEMMA InitTables == ASSUME Init PROVE TableInv
BY DEF Init, TableInv, LockTypes, CompatInv, ServingInv, MigratingInv, AtRest

LEMMA StepTables ==
    ASSUME StartupConstants, settings \in Setting, TableInv, StartInv, NEW p \in Process, Step(p)
    PROVE  TableInv'
<1>1. CASE Boot(p)
  <2>1. AtRest(p)
    BY <1>1, OutsideRests DEF Boot
  <2> QED
    BY <1>1, <2>1, RestingStep DEF Boot, StartInv, TypeInv
<1>2. CASE Ping(p) \/ AcquireLock(p) \/ CreateLedger(p)
  <2>1. AtRest(p)
    BY <1>2, OutsideRests DEF Ping, AcquireLock, CreateLedger
  <2> QED
    BY <1>2, <2>1, RestingStep DEF Ping, AcquireLock, CreateLedger
<1>3. CASE Check(p) \/ Apply(p) \/ Record(p)
  BY <1>3, CheckTables, ApplyTables, RecordTables
<1>4. CASE Commit(p) \/ CommitAnswerLost(p)
  BY <1>4, CommittedTables DEF Commit, CommitAnswerLost
<1>5. CASE AcquireTable(p) \/ Serve(p) \/ Finish(p) \/ Terminate(p)
  BY <1>5, AcquireTableTables, ServeTables, FinishTables, TerminateTables DEF StartupConstants
<1>6. CASE Refuse(p)
  <2>1. UNCHANGED <<release, settings, pc, version, wants, held>>
    BY <1>6 DEF Refuse
  <2>2. \A q \in Process : SameFor(q)
    BY <2>1 DEF SameFor
  <2>3. \A q \in Process : ProcInv(q)'
    BY <2>1, <2>2, OthersKeep DEF TableInv, ProcInv
  <2> QED
    BY <2>1, <2>3, CompatShrinks DEF TableInv, ProcInv, LockTypes
<1>7. CASE GiveUp(p)
  BY <1>7, RollbackTables DEF GiveUp, InFlight
<1>8. CASE Stop(p)
  <2>1. AtRest(p)
    BY <1>8, ServingRests DEF Stop
  <2> QED
    BY <1>8, <2>1, RestingStep DEF Stop
<1>9. CASE Fail(p)
  BY <1>9, RollbackTables DEF Fail, go, StartInv, TypeInv
<1> QED
  BY <1>1, <1>2, <1>3, <1>4, <1>5, <1>6, <1>7, <1>8, <1>9 DEF Step, Migrating

LEMMA NextTables ==
    ASSUME StartupConstants, settings \in Setting, TableInv, StartInv, [Next]_vars
    PROVE  TableInv'
<1>1. ASSUME UNCHANGED <<release, settings, pc, version, wants, held>>
      PROVE  TableInv'
  <2>1. \A q \in Process : SameFor(q)
    BY <1>1 DEF SameFor
  <2>2. \A q \in Process : ProcInv(q)'
    BY <1>1, <2>1, OthersKeep DEF TableInv, ProcInv
  <2> QED
    BY <1>1, <2>2, CompatShrinks DEF TableInv, ProcInv, LockTypes
<1>2. CASE DatabaseStops
  <2>1. \A q \in Process : pc'[q] # "applying"
    BY <1>2 DEF DatabaseStops, InMigration
  <2>2. Rollback(Process) /\ UNCHANGED <<release, settings, version>>
    BY <1>2 DEF DatabaseStops
  <2>3. Process \in SUBSET Process
    OBVIOUS
  <2> QED
    BY <2>1, <2>2, <2>3, RollbackTables
<1>3. CASE DatabaseStarts \/ UNCHANGED vars
  BY <1>1, <1>3 DEF DatabaseStarts, vars, tables
<1> QED
  BY <1>2, <1>3, StepTables DEF Next

-----------------------------------------------------------------------------
(***************************************************************************)
(* What is left of the types.                                              *)
(***************************************************************************)
PlainTypes ==
    /\ release \in Releases /\ settings \in Settings
    /\ database \in BOOLEAN
    /\ migrator \in Process \cup {None}
    /\ answer \in {None, "unauthorized", "unavailable", "aborted"}
    /\ faults \in 0..MaxFaults

LEMMA RefusalsAre ==
    ASSUME NEW route \in Routes, Guarded(route) # "serve"
    PROVE  Guarded(route) \in {"unauthorized", "unavailable", "aborted"}
BY DEF Guarded, Routes

LEMMA StepPlain ==
    ASSUME StartupConstants, PlainTypes, NEW p \in Process, Step(p)
    PROVE  PlainTypes'
<1> USE DEF PlainTypes, tables
<1>1. CASE Boot(p) \/ Ping(p) \/ AcquireLock(p) \/ CreateLedger(p) \/ Check(p)
  BY <1>1 DEF Boot, Ping, AcquireLock, CreateLedger, Check
<1>2. CASE Apply(p) \/ Record(p)
  BY <1>2 DEF Apply, Record, Break, Rollback
<1>3. CASE Commit(p) \/ CommitAnswerLost(p)
  BY <1>3 DEF Commit, CommitAnswerLost, Committed, StartupConstants
<1>4. CASE AcquireTable(p) \/ Serve(p) \/ Finish(p) \/ Terminate(p) \/ Stop(p)
  BY <1>4 DEF AcquireTable, Serve, Finish, Terminate, Stop
<1>5. CASE Refuse(p)
  BY <1>5, RefusalsAre DEF Refuse, StartupConstants
<1>6. CASE GiveUp(p) \/ Fail(p)
  BY <1>6 DEF GiveUp, Fail, Rollback, StartupConstants
<1> QED
  BY <1>1, <1>2, <1>3, <1>4, <1>5, <1>6 DEF Step, Migrating

LEMMA NextPlain ==
    ASSUME StartupConstants, PlainTypes, [Next]_vars
    PROVE  PlainTypes'
<1> USE DEF PlainTypes, tables
<1>1. CASE DatabaseStops \/ DatabaseStarts
  <2>1. database' = TRUE \/ database' = FALSE
    BY <1>1 DEF DatabaseStops, DatabaseStarts
  <2>2. migrator' \in Process \cup {None} /\ faults' \in 0..MaxFaults
    BY <1>1 DEF DatabaseStops, DatabaseStarts, Rollback, StartupConstants
  <2>3. UNCHANGED <<release, settings, answer>>
    BY <1>1 DEF DatabaseStops, DatabaseStarts
  <2> QED
    BY <2>1, <2>2, <2>3
<1>2. CASE UNCHANGED vars
  BY <1>2 DEF vars
<1>3. ASSUME NEW p \in Process, Step(p)
      PROVE  PlainTypes'
  BY <1>3, StepPlain
<1> HIDE DEF PlainTypes
<1> QED
  BY <1>1, <1>2, <1>3 DEF Next

LEMMA InitPlain == ASSUME StartupConstants, Init PROVE PlainTypes
BY DEF StartupConstants, Init, PlainTypes

(* The whole invariant.                                                    *)
FullInv == StartInv /\ PlainTypes /\ TableInv

THEOREM FullInvariant == Spec => []FullInv
<1>1. Init => FullInv
  BY StartupConstants, InitInv, InitPlain, InitTables DEF FullInv
<1>2. FullInv /\ [Next]_vars => FullInv'
  <2>1. PlainTypes => settings \in Setting
    BY StartupConstants DEF PlainTypes, StartupConstants
  <2> QED
    BY <2>1, StartupConstants, NextInv, NextPlain, NextTables DEF FullInv
<1> QED
  BY <1>1, <1>2, PTL DEF Spec

LEMMA RestIsShort ==
    ASSUME NEW s, NEW t, NEW n \in 0..7, Len(t) = n, NEW i \in 0..n, Rest(s, t, i)
    PROVE  s \in Seq(Lock) /\ Len(s) <= 7
BY DEF Rest

LEMMA WantsAreShort ==
    ASSUME TableInv, StartInv, NEW p \in Process
    PROVE  wants[p] \in Seq(Lock) /\ Len(wants[p]) <= 7
<1>1. wants[p] \in Seq(Lock)
  BY DEF TableInv, LockTypes
<1>2. CASE wants[p] = <<>>
  BY <1>2
<1>4. CASE pc[p] = "applying"
  <2>1. ScriptLocks[version[p]] \in Seq(Lock) /\ Len(ScriptLocks[version[p]]) \in 0..7
    BY <1>4, BeyondRelease, ScriptLocksTypes
  <2>2. PICK i \in 0..Len(ScriptLocks[version[p]]) : Rest(wants[p], ScriptLocks[version[p]], i)
    BY <1>4 DEF TableInv, MigratingInv
  <2> QED
    BY <2>1, <2>2, RestIsShort
<1>5. CASE pc[p] \in {"serving", "stopping"} /\ wants[p] # <<>>
  <2>1. PICK t \in TransactionsOf(Known(p)) : \E i \in 0..Len(LocksIn(t, Known(p))) :
            Rest(wants[p], LocksIn(t, Known(p)), i)
    BY <1>5 DEF TableInv, ServingInv, AtRest
  <2>2. LocksIn(t, Known(p)) \in Seq(Lock) /\ Len(LocksIn(t, Known(p))) \in 0..7
    BY LocksInTypes
  <2> QED
    BY <2>1, <2>2, RestIsShort
<1> QED
  BY <1>1, <1>2, <1>4, <1>5, WantsWhere

(* The state of every process, of the schema and of the lock tables.       *)
THEOREM TypesAreCorrect == Spec => []TypeOK
<1>1. ASSUME FullInv PROVE TypeOK
  <2>1. StartInv /\ PlainTypes /\ TableInv
    BY <1>1 DEF FullInv
  <2>2. ledger \subseteq Versions
    BY <2>1 DEF StartInv, TypeInv, LedgerMatchesSchema, Versions, Latest
  <2>3. \A p \in Process : wants[p] \in Seq(Lock) /\ Len(wants[p]) <= 7
    BY <2>1, WantsAreShort
  <2> QED
    BY <2>1, <2>2, <2>3 DEF TypeOK, PlainTypes, StartInv, TypeInv, TableInv, LockTypes
<1> QED
  BY <1>1, FullInvariant, PTL

-----------------------------------------------------------------------------
(***************************************************************************)
(* Who waits for whom.                                                     *)
(***************************************************************************)
(* Requests take locks that do not conflict among themselves.              *)
Weak == {l \in Lock : l.mode \in {"ACCESS SHARE", "ROW SHARE", "ROW EXCLUSIVE"}}

LEMMA WeakDoNotClash == \A l, m \in Weak : ~Clash(l, m)
BY DEF Weak, Clash, Conflicts, Modes

LEMMA UpToFour == ASSUME NEW n \in 3..4, NEW j \in 1..n PROVE j \in {1, 2, 3, 4}
OBVIOUS

LEMMA BelowTwo == ASSUME NEW n \in 0..2, NEW i \in 0..n, i # n PROVE i = 0 \/ (i = 1 /\ n = 2)
OBVIOUS

LEMMA RequestLocksAreWeak ==
    ASSUME NEW v, NEW t \in TransactionsOf(v), NEW j \in 1..Len(LocksIn(t, v))
    PROVE  LocksIn(t, v)[j] \in Weak
<1>1. t \in DOMAIN Transactions
  BY DEF TransactionsOf
<1>2. \A table \in {"incidents", "evidence", "investigations", "remediation_proposals",
                    "policy_decisions", "audit_events", "remediation_pull_requests"} :
          Read(table) \in Weak /\ Insert(table) \in Weak /\ Key(table) \in Weak
  BY LocksAre DEF Weak, Read, Insert, Key, On
<1>3. CASE t \in {"Upsert", "Get", "ListByIncident", "GetInvestigation"}
  <2>1. j = 1
    BY <1>3, LocksInAre
  <2> QED
    BY <1>2, <1>3, <2>1, LocksInAre
<1>4. CASE t \in {"SaveBatch", "SaveInvestigation"}
  <2>1. Len(LocksIn(t, v)) = 2
    BY <1>4, LocksInAre
  <2>2. j = 1 \/ j = 2
    BY <2>1
  <2> QED
    BY <1>2, <1>4, <2>2, LocksInAre
<1>5. CASE t = "SaveRemediationEvaluation"
  <2>1. Len(LocksIn(t, v)) = 6 \/ Len(LocksIn(t, v)) = 7
    BY <1>5, EvaluationLocksAre
  <2>2. /\ Insert("remediation_proposals") \in Weak /\ Key("incidents") \in Weak
        /\ Key("investigations") \in Weak /\ Insert("policy_decisions") \in Weak
        /\ Key("remediation_proposals") \in Weak
        /\ Insert("remediation_pull_requests") \in Weak /\ Insert("audit_events") \in Weak
    BY <1>2
  <2>3. j = 1 \/ j = 2 \/ j = 3 \/ j = 4 \/ j = 5 \/ j = 6 \/ j = 7
    BY <2>1
  <2> QED
    BY <1>5, <2>2, <2>3, EvaluationLocksAre
<1>6. CASE t = "GetRemediation"
  <2>1. Len(LocksIn(t, v)) \in 3..4
    BY <1>6, ReadingLocksAre
  <2>2. j \in {1, 2, 3, 4}
    BY <2>1, UpToFour
  <2>3. /\ Read("remediation_proposals") \in Weak /\ Read("policy_decisions") \in Weak
        /\ Read("remediation_pull_requests") \in Weak /\ Read("audit_events") \in Weak
    BY <1>2
  <2>4. j = 1 \/ j = 2 \/ j = 3 \/ j = 4
    BY <2>2
  <2> QED
    BY <1>6, <2>3, <2>4, ReadingLocksAre
<1> QED
  BY <1>1, <1>3, <1>4, <1>5, <1>6, TransactionNames

(* What a request holds and wants next.                                    *)
LEMMA RequestLocks ==
    ASSUME TableInv, NEW p \in Process, pc[p] \in {"serving", "stopping"}
    PROVE  /\ held[p] \subseteq Weak
           /\ wants[p] # <<>> => Head(wants[p]) \in Weak
<1>1. CASE AtRest(p)
  BY <1>1 DEF AtRest
<1>2. CASE ~AtRest(p)
  <2>1. PICK t \in TransactionsOf(Known(p)) : \E i \in 0..Len(LocksIn(t, Known(p))) :
            /\ Rest(wants[p], LocksIn(t, Known(p)), i)
            /\ held[p] = Taken(LocksIn(t, Known(p)), i)
    BY <1>2 DEF TableInv, ServingInv
  <2> DEFINE list == LocksIn(t, Known(p))
  <2>2. PICK i \in 0..Len(list) : Rest(wants[p], list, i) /\ held[p] = Taken(list, i)
    BY <2>1
  <2>3. list \in Seq(Lock) /\ \A j \in 1..Len(list) : list[j] \in Weak
    BY LocksInTypes, RequestLocksAreWeak
  <2> HIDE DEF list
  <2>4. held[p] \subseteq Weak
    BY <2>2, <2>3 DEF Taken
  <2>5. wants[p] # <<>> => Head(wants[p]) \in Weak
    BY <2>2, <2>3, TakeNext
  <2> QED
    BY <2>4, <2>5
<1> QED
  BY <1>1, <1>2

(* Only the one migration holds locks besides the requests.                *)
LEMMA HoldersAre ==
    ASSUME TableInv, StartInv, NEW q \in Process, held[q] # {} \/ wants[q] # <<>>
    PROVE  migrator = q \/ pc[q] \in {"serving", "stopping"}
BY DEF TableInv, MigratingInv, AtRest, StartInv, LockInv, Locked

(* Starts and requests wait for the migration; the migration for requests. *)
LEMMA WhoBlocks ==
    ASSUME TableInv, StartInv, NEW p \in Process, NEW q \in Process \ {p}, Blocks(q, p)
    PROVE  \/ migrator = q
           \/ /\ migrator = p /\ pc[p] = "applying" /\ wants[p] # <<>>
              /\ pc[q] \in {"serving", "stopping"}
              /\ \E l \in held[q] : Clash(l, Head(wants[p]))
<1>1. CASE pc[p] = "locking"
  BY <1>1, OutsideRests DEF Blocks, AtRest
<1>2. CASE pc[p] \in {"serving", "stopping"}
  <2>1. wants[p] # <<>> /\ Head(wants[p]) \in Weak
    BY <1>2, RequestLocks DEF Blocks
  <2>2. held[q] # {} \/ wants[q] # <<>>
    BY <1>2 DEF Blocks
  <2>3. CASE pc[q] \in {"serving", "stopping"}
    <3>1. held[q] \subseteq Weak
      BY <2>3, RequestLocks
    <3> QED
      BY <1>2, <2>1, <2>3, <3>1, WeakDoNotClash DEF Blocks
  <2> QED
    BY <2>2, <2>3, HoldersAre
<1>3. CASE pc[p] = "applying"
  <2>1. migrator = p
    BY <1>3 DEF StartInv, LockInv, Locked
  <2>2. wants[p] # <<>> /\ pc[q] # "applying"
    BY <1>3, <2>1 DEF Blocks, StartInv, LockInv, Locked
  <2>3. PICK l \in held[q] : Clash(l, Head(wants[p]))
    BY <1>3, <2>2 DEF Blocks
  <2>4. pc[q] \in {"serving", "stopping"}
    BY <2>1, <2>3, HoldersAre
  <2> QED
    BY <1>3, <2>1, <2>2, <2>3, <2>4
<1> QED
  BY <1>1, <1>2, <1>3, WantsWhere DEF Blocks

(***************************************************************************)
(* What a migration holds when it waits for the next lock of script n, in  *)
(* a database of version v.                                                *)
(***************************************************************************)
LEMMA TakenOf ==
    ASSUME NEW t \in Seq(Lock), NEW i \in 0..Len(t), NEW l \in Taken(t, i)
    PROVE  \E j \in 1..Len(t) : j <= i /\ l = t[j]
BY DEF Taken

LEMMA EarlyScripts ==
    ASSUME NEW v \in 0..Latest, NEW n \in Versions, v < n, n <= 4,
           NEW i \in 0..Len(ScriptLocks[n]), i # Len(ScriptLocks[n])
    PROVE  Scripted(v, n - 1) \cup Taken(ScriptLocks[n], i) \subseteq {Refer("incidents")}
<1>1. \A k \in {1, 2, 3} : Taken(ScriptLocks[k], Len(ScriptLocks[k])) \subseteq {Refer("incidents")}
  <2>1. Len(ScriptLocks[1]) = 0 /\ Len(ScriptLocks[2]) = 1 /\ Len(ScriptLocks[3]) = 1
    BY ScriptLocksAre
  <2>2. Taken(ScriptLocks[1], 0) = {}
    BY DEF Taken
  <2>3. Taken(ScriptLocks[2], 1) = {Refer("incidents")} /\ Taken(ScriptLocks[3], 1) = {Refer("incidents")}
    BY ScriptLocksAre DEF Taken
  <2> QED
    BY <2>1, <2>2, <2>3
<1>2. v + 1 .. n - 1 \subseteq {1, 2, 3}
  BY DEF Versions, Latest
<1>3. Scripted(v, n - 1) \subseteq {Refer("incidents")}
  BY <1>1, <1>2 DEF Scripted
<1>4. Taken(ScriptLocks[n], i) \subseteq {Refer("incidents")}
  <2>1. n \in {1, 2, 3, 4}
    BY DEF Versions, Latest
  <2>2. Len(ScriptLocks[n]) \in 0..2
    BY ScriptLocksTypes
  <2>3. Len(ScriptLocks[1]) = 0 /\ Len(ScriptLocks[2]) = 1 /\ Len(ScriptLocks[3]) = 1
    BY ScriptLocksAre
  <2>4. CASE i = 0
    BY <2>4 DEF Taken
  <2>5. CASE i # 0
    <3>0. i = 1 /\ Len(ScriptLocks[n]) = 2
      BY <2>2, <2>5, BelowTwo
    <3>1. n = 4
      BY <2>1, <2>3, <3>0
    <3>2. ScriptLocks[n][1] = Refer("incidents")
      BY <3>1, ScriptLocksAre
    <3> QED
      BY <3>0, <3>2 DEF Taken
  <2> QED
    BY <2>4, <2>5
<1> QED
  BY <1>3, <1>4

LEMMA LateScripts ==
    ASSUME NEW v \in 4..Latest, NEW n \in Versions, v < n,
           NEW i \in 0..Len(ScriptLocks[n]), i # Len(ScriptLocks[n])
    PROVE  Scripted(v, n - 1) \cup Taken(ScriptLocks[n], i) \subseteq {Alter("remediation_proposals")}
<1>1. (v = 4 /\ n = 5) \/ (v = 4 /\ n = 6) \/ (v = 5 /\ n = 6)
  BY DEF Versions, Latest
<1>2. Taken(ScriptLocks[n], i) = {}
  <2>1. Len(ScriptLocks[5]) = 1 /\ Len(ScriptLocks[6]) = 1
    BY ScriptLocksAre
  <2>2. Len(ScriptLocks[n]) = 1
    BY <1>1, <2>1
  <2>3. i = 0
    BY <2>2
  <2> QED
    BY <2>3 DEF Taken
<1>3. v + 1 .. n - 1 \subseteq {5}
  BY <1>1
<1>4. Taken(ScriptLocks[5], Len(ScriptLocks[5])) = {Alter("remediation_proposals")}
  <2>1. Len(ScriptLocks[5]) = 1
    BY ScriptLocksAre
  <2> QED
    BY <2>1, ScriptLocksAre DEF Taken
<1> QED
  BY <1>2, <1>3, <1>4 DEF Scripted

LEMMA ClashesAre ==
    ASSUME NEW table
    PROVE  /\ Clash(Alter(table), Insert(table)) /\ Clash(Alter(table), Read(table))
           /\ ~Clash(Refer(table), Key(table))
<1>1. /\ Conflicts["ROW SHARE"] = {"ACCESS EXCLUSIVE"}
      /\ Conflicts["ACCESS SHARE"] = {"ACCESS EXCLUSIVE"}
      /\ "ACCESS EXCLUSIVE" \in Conflicts["ROW EXCLUSIVE"]
  BY DEF Conflicts, Modes
<1> QED
  BY <1>1 DEF Clash, Alter, Refer, Insert, Read, Key, On

(* Transactions on proposals are those of a release that has them.         *)
LEMMA RemediationTransactions ==
    ASSUME NEW v \in 0..Latest,
           NEW t \in TransactionsOf(v), t \in {"SaveRemediationEvaluation", "GetRemediation"}
    PROVE  v \in 4..Latest
<1>1. /\ Transactions["SaveRemediationEvaluation"][1].table = "remediation_proposals"
      /\ Transactions["GetRemediation"][1].table = "remediation_proposals"
  BY DEF Transactions, Insert, Read, On
<1>2. CreatedBy["remediation_proposals"] = 4
  BY DEF CreatedBy
<1> QED
  BY <1>1, <1>2 DEF TransactionsOf

LEMMA ScriptTables ==
    ASSUME NEW n \in Versions, NEW j \in 1..Len(ScriptLocks[n])
    PROVE  /\ ScriptLocks[n][j].table \in {"incidents", "investigations", "remediation_proposals"}
           /\ ScriptLocks[n][j].table = "investigations" => n <= 4
<1>1. n \in {1, 2, 3, 4, 5, 6}
  BY DEF Versions, Latest
<1>2. \A table : Refer(table).table = table /\ Alter(table).table = table
  BY DEF Refer, Alter, On
<1>3. CASE n = 1
  BY <1>3, ScriptLocksAre
<1>4. CASE n \in {2, 3}
  <2>1. Len(ScriptLocks[2]) = 1 /\ Len(ScriptLocks[3]) = 1
    BY ScriptLocksAre
  <2>2. Len(ScriptLocks[n]) = 1
    BY <1>4, <2>1
  <2>3. j = 1
    BY <2>2
  <2> QED
    BY <1>2, <1>4, <2>3, ScriptLocksAre
<1>5. CASE n = 4
  <2>1. Len(ScriptLocks[n]) = 2
    BY <1>5, ScriptLocksAre
  <2>2. j = 1 \/ j = 2
    BY <2>1
  <2> QED
    BY <1>2, <1>5, <2>2, ScriptLocksAre
<1>6. CASE n \in {5, 6}
  <2>1. Len(ScriptLocks[5]) = 1 /\ Len(ScriptLocks[6]) = 1
    BY ScriptLocksAre
  <2>2. Len(ScriptLocks[n]) = 1
    BY <1>6, <2>1
  <2>3. j = 1
    BY <2>2
  <2> QED
    BY <1>2, <1>6, <2>3, ScriptLocksAre
<1> QED
  BY <1>1, <1>3, <1>4, <1>5, <1>6

(***************************************************************************)
(* No request of a serving replica and the migration wait for each other.  *)
(***************************************************************************)
LEMMA NoPairWaits ==
    ASSUME TableInv, StartInv,
           NEW m \in Process, pc[m] = "applying", wants[m] # <<>>,
           NEW q \in Process, pc[q] \in {"serving", "stopping"}, wants[q] # <<>>,
           NEW l \in held[q], Clash(l, Head(wants[m])),
           NEW k \in held[m], Clash(k, Head(wants[q]))
    PROVE  FALSE
<1> DEFINE v == release
           n == version[m]
           script == ScriptLocks[n]
<1>1. /\ n \in Versions /\ v \in 0..Latest /\ v < n /\ ledger = 1..v
  BY BeyondRelease
<1>2. UsesDatabase(q) /\ Known(q) = v
  <2>1. UsesDatabase(q) /\ Known(q) \in {v, Latest}
    BY DEF TableInv, ServingInv, AtRest, Known
  <2>2. 1..Known(q) \subseteq 1..v
    BY <1>1, <2>1 DEF StartInv, ServesOnItsSchema
  <2>3. CASE Known(q) = Latest
    <3>1. Latest \in 1..v
      BY <2>2, <2>3 DEF Latest
    <3> QED
      BY <1>1, <3>1 DEF Versions, Latest
  <2> QED
    BY <2>1, <2>3
<1>3. PICK a \in 0..Len(script) :
          /\ Rest(wants[m], script, a)
          /\ held[m] \subseteq Scripted(v, n - 1) \cup Taken(script, a)
  BY DEF TableInv, MigratingInv
<1>4. script \in Seq(Lock) /\ Len(script) \in 0..2
  BY <1>1, ScriptLocksTypes
<1>5. a + 1 \in 1..Len(script) /\ Head(wants[m]) = script[a + 1] /\ a # Len(script)
  BY <1>3, <1>4, TakeNext
<1>6. PICK t \in TransactionsOf(v) : \E i \in 0..Len(LocksIn(t, v)) :
          Rest(wants[q], LocksIn(t, v), i) /\ held[q] = Taken(LocksIn(t, v), i)
  BY <1>2 DEF TableInv, ServingInv, AtRest
<1> DEFINE list == LocksIn(t, v)
<1>7. PICK b \in 0..Len(list) : Rest(wants[q], list, b) /\ held[q] = Taken(list, b)
  BY <1>6
<1>8. list \in Seq(Lock) /\ Len(list) \in 0..7
  BY LocksInTypes
<1>9. b + 1 \in 1..Len(list) /\ Head(wants[q]) = list[b + 1]
  BY <1>7, <1>8, TakeNext
<1>10. PICK j \in 1..Len(list) : j <= b /\ l = list[j]
  BY <1>7, <1>8, TakenOf
<1>11. Len(list) # 1
  BY <1>9, <1>10
<1>12. t \in DOMAIN Transactions
  BY DEF TransactionsOf
<1> HIDE DEF list, script, n, v
<1>13. CASE t \in {"Upsert", "Get", "ListByIncident", "GetInvestigation"}
  BY <1>11, <1>13, LocksInAre DEF list
<1>14. CASE t \in {"SaveBatch", "SaveInvestigation"}
  <2>1. Len(list) = 2
    BY <1>14, LocksInAre DEF list
  <2>2. b = 1 /\ j = 1
    BY <1>9, <1>10, <2>1
  <2>3. CASE t = "SaveBatch"
    <3>1. l = Insert("evidence")
      BY <1>10, <2>2, <2>3, LocksInAre DEF list
    <3>2. Head(wants[m]).table \in {"incidents", "investigations", "remediation_proposals"}
      BY <1>1, <1>5, ScriptTables DEF script, n
    <3> QED
      BY <3>1, <3>2 DEF Clash, Insert, On
  <2>4. CASE t = "SaveInvestigation"
    <3>1. l = Insert("investigations") /\ Head(wants[q]) = Key("incidents")
      BY <1>9, <1>10, <2>2, <2>4, LocksInAre DEF list
    <3>2. Head(wants[m]).table = "investigations"
      BY <3>1 DEF Clash, Insert, On
    <3>3. n <= 4
      BY <1>1, <1>5, <3>2, ScriptTables DEF script, n
    <3>4. k = Refer("incidents")
      BY <1>1, <1>3, <1>5, <3>3, EarlyScripts DEF script, n, v
    <3> QED
      BY <3>1, <3>4, ClashesAre
  <2> QED
    BY <1>14, <2>3, <2>4
<1>15. CASE t \in {"SaveRemediationEvaluation", "GetRemediation"}
  <2>1. list[1] \in {Insert("remediation_proposals"), Read("remediation_proposals")}
    BY <1>15, EvaluationLocksAre, ReadingLocksAre DEF list
  <2>2. list[1] \in held[q]
    BY <1>7, <1>8, <1>10 DEF Taken
  <2>3. v \in 4..Latest
    BY <1>1, <1>15, RemediationTransactions
  <2>4. k = Alter("remediation_proposals")
    BY <1>1, <1>3, <1>5, <2>3, LateScripts DEF script, n, v
  <2>5. Clash(k, list[1])
    BY <2>1, <2>4, ClashesAre
  <2>6. m # q
    OBVIOUS
  <2> QED
    BY <2>2, <2>5, <2>6 DEF TableInv, CompatInv
<1> QED
  BY <1>12, <1>13, <1>14, <1>15, TransactionNames

(* Nobody waits in a circle: starts wait for the one migration, requests   *)
(* of serving replicas for its locks, and it waits for no request that     *)
(* waits for it (the orders of ScriptLocks and of Transactions), for any   *)
(* number of processes and any previous release.                           *)
THEOREM NobodyWaitsInACircle == Spec => []NoDeadlock
<1>1. ASSUME FullInv PROVE NoDeadlock
  <2> SUFFICES ASSUME NEW S \in SUBSET Process, S # {},
                      \A p \in S : \E q \in S \ {p} : Blocks(q, p)
               PROVE  FALSE
    BY DEF NoDeadlock
  <2>1. TableInv /\ StartInv
    BY <1>1 DEF FullInv
  <2>2. PICK m \in S : migrator = m
    <3>1. PICK p \in S : TRUE
      OBVIOUS
    <3>2. PICK q \in S \ {p} : Blocks(q, p)
      OBVIOUS
    <3> QED
      BY <2>1, <3>2, WhoBlocks
  <2>3. PICK q \in S \ {m} : Blocks(q, m)
    OBVIOUS
  <2>4. /\ pc[m] = "applying" /\ wants[m] # <<>> /\ pc[q] \in {"serving", "stopping"}
        /\ \E l \in held[q] : Clash(l, Head(wants[m]))
    BY <2>1, <2>2, <2>3, WhoBlocks
  <2>5. PICK r \in S \ {q} : Blocks(r, q)
    OBVIOUS
  <2>6. r = m
    BY <2>1, <2>2, <2>4, <2>5, WhoBlocks
  <2>7. wants[q] # <<>> /\ \E k \in held[m] : Clash(k, Head(wants[q]))
    BY <2>4, <2>5, <2>6 DEF Blocks
  <2> QED
    BY <2>1, <2>4, <2>7, NoPairWaits
<1> QED
  BY <1>1, FullInvariant, PTL
=============================================================================
