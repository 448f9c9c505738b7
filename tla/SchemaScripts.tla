--------------------------- MODULE SchemaScripts ---------------------------
(***************************************************************************)
(* The schema of IncidentPilot: the six migrations, and the table locks    *)
(* that they and the statements of the store take in PostgreSQL.           *)
(*                                                                         *)
(* A script is reduced to the tables it needs and the locks it takes on    *)
(* tables that were there before it.  A foreign key takes a SHARE ROW      *)
(* EXCLUSIVE lock on the table it refers to, ALTER TABLE an ACCESS         *)
(* EXCLUSIVE lock; an insert takes ROW EXCLUSIVE on its table and, for     *)
(* each foreign key, ROW SHARE on the table referred to.                   *)
(***************************************************************************)
EXTENDS Naturals, Sequences

Latest   == 6
Versions == 1..Latest

(* The migration ledger is the object 0; a script's objects are its number. *)
Ledger == 0

(* The script that creates each table other statements refer to.           *)
CreatedBy ==
    [incidents |-> 1, evidence |-> 2, investigations |-> 3,
     remediation_proposals |-> 4, policy_decisions |-> 4, audit_events |-> 4,
     remediation_pull_requests |-> 5]

Tables == DOMAIN CreatedBy

(* Scripts whose objects a script refers to.                               *)
Needs ==
    << {}, {1}, {1}, {1, 3}, {4}, {1} >>

Modes == {"ACCESS SHARE", "ROW SHARE", "ROW EXCLUSIVE", "SHARE ROW EXCLUSIVE", "ACCESS EXCLUSIVE"}

(* PostgreSQL's table of conflicting lock modes.                           *)
Conflicts ==
    [m \in Modes |->
        CASE m = "ACCESS SHARE"        -> {"ACCESS EXCLUSIVE"}
          [] m = "ROW SHARE"           -> {"ACCESS EXCLUSIVE"}
          [] m = "ROW EXCLUSIVE"       -> {"SHARE ROW EXCLUSIVE", "ACCESS EXCLUSIVE"}
          [] m = "SHARE ROW EXCLUSIVE" -> {"ROW EXCLUSIVE", "SHARE ROW EXCLUSIVE", "ACCESS EXCLUSIVE"}
          [] m = "ACCESS EXCLUSIVE"    -> Modes]

Lock == [table : Tables, mode : Modes]

On(table, mode) == [table |-> table, mode |-> mode]
Refer(table)    == On(table, "SHARE ROW EXCLUSIVE")
Alter(table)    == On(table, "ACCESS EXCLUSIVE")
Read(table)     == On(table, "ACCESS SHARE")
Insert(table)   == On(table, "ROW EXCLUSIVE")
Key(table)      == On(table, "ROW SHARE")

(* Mutant: incidents is altered before remediation_proposals.              *)
ScriptLocksIncidentsFirst ==
    << << >>, << Refer("incidents") >>, << Refer("incidents") >>,
       << Refer("incidents"), Refer("investigations") >>,
       << Alter("incidents"), Alter("remediation_proposals") >>, << >> >>

ScriptLocks ==
    << << >>,
       << Refer("incidents") >>,
       << Refer("incidents") >>,
       << Refer("incidents"), Refer("investigations") >>,
       << Alter("remediation_proposals") >>,
       << Alter("incidents") >> >>

(* The transactions and statements of the store, with the locks each takes *)
(* in turn and holds to its end.                                           *)
Transactions ==
    [Upsert                    |-> << Insert("incidents") >>,
     Get                       |-> << Read("incidents") >>,
     SaveBatch                 |-> << Insert("evidence"), Key("incidents") >>,
     ListByIncident            |-> << Read("evidence") >>,
     SaveInvestigation         |-> << Insert("investigations"), Key("incidents") >>,
     GetInvestigation          |-> << Read("investigations") >>,
     SaveRemediationEvaluation |->
        << Insert("remediation_proposals"), Key("incidents"), Key("investigations"),
           Insert("policy_decisions"), Key("remediation_proposals"),
           Insert("remediation_pull_requests"), Insert("audit_events") >>,
     GetRemediation            |->
        << Read("remediation_proposals"), Read("policy_decisions"),
           Read("remediation_pull_requests"), Read("audit_events") >>]

(* The same before there was a table of pull requests.                     *)
WithoutPullRequests ==
    [SaveRemediationEvaluation |->
        << Insert("remediation_proposals"), Key("incidents"), Key("investigations"),
           Insert("policy_decisions"), Key("remediation_proposals"), Insert("audit_events") >>,
     GetRemediation            |->
        << Read("remediation_proposals"), Read("policy_decisions"), Read("audit_events") >>]

(* What the transaction locks in a release that knows the first v versions *)
(* (a table that is not there yet is not part of it).                      *)
LocksIn(t, v) ==
    IF t \in DOMAIN WithoutPullRequests /\ v < CreatedBy["remediation_pull_requests"]
    THEN WithoutPullRequests[t]
    ELSE Transactions[t]

(* The transactions that release v has: those whose first table it has.    *)
TransactionsOf(v) ==
    {t \in DOMAIN Transactions : CreatedBy[Transactions[t][1].table] <= v}
=============================================================================
