--------------------------- MODULE MCRemediation ---------------------------
(***************************************************************************)
(* Instances for TLC: the investigation of an OOM incident whose evidence  *)
(* shows a 48Mi limit, that of a later one under a 129Mi limit a person    *)
(* may have set, and the proposals clients may send about them.            *)
(***************************************************************************)
EXTENDS RemediationInvariant, RemediationRefinement

CONSTANTS r0, r1   \* the rest of the manifest, two versions

Proposal(investigation, incident, evidence, before, after) ==
    [wellFormed    |-> TRUE,
     incident      |-> incident,
     investigation |-> investigation,
     operation     |-> "update_resource_limit",
     target        |-> [repository |-> "repo", path |-> "path",
                        namespace |-> "incidentpilot-demo", kind |-> "Deployment",
                        name |-> "payments-api", container |-> "payments-api"],
     change        |-> [field |-> "memory_limit", before |-> before, after |-> after],
     evidence      |-> evidence]

First(before, after)  == Proposal("inv1", "inc1", <<"e1", "e2">>, before, after)
Second(before, after) == Proposal("inv2", "inc2", <<"e3", "e4">>, before, after)

(* The documented repair, the largest one, one beyond the factor of four,  *)
(* and one that builds on the merged repair instead of on evidence.        *)
Repair     == First(48, 128)
Larger     == First(48, 192)
Beyond     == First(48, 193)
Compounded == First(128, 512)

(* The cap of 512 MiB, reached and missed by one.                          *)
Ceiling     == Second(129, 512)
OverCeiling == Second(129, 513)

Secret    == [Repair EXCEPT !.target.kind = "Secret"]
Uncited   == [Repair EXCEPT !.evidence = <<"e1">>]
Malformed == [Repair EXCEPT !.wellFormed = FALSE]

MCProposals  == {Repair, Larger, Beyond, Compounded, Ceiling, OverCeiling,
                 Secret, Uncited, Malformed}
MCSameRepair == {Repair}
MCTwoRepairs == {Repair, Larger}

MCInvestigation ==
    [inv1 |-> [incident |-> "inc1", status |-> "ROOT_CAUSE_FOUND",
               cause |-> "memory_limit_oom", evidence |-> <<"e2", "e1">>],
     inv2 |-> [incident |-> "inc2", status |-> "ROOT_CAUSE_FOUND",
               cause |-> "memory_limit_oom", evidence |-> <<"e3", "e4">>]]

MCEvidence ==
    { [id |-> "e1", incident |-> "inc1", limits |-> {48}],
      [id |-> "e2", incident |-> "inc1", limits |-> {}],
      [id |-> "e3", incident |-> "inc2", limits |-> {129}],
      [id |-> "e4", incident |-> "inc2", limits |-> {}] }

MCBranchOf    == [inv1 |-> "incidentpilot-oom-1", inv2 |-> "incidentpilot-oom-2"]
MCInitialFile == [limit |-> 48, rest |-> r0]
MCHumanFiles  == { [limit |-> 48, rest |-> r1], [limit |-> 129, rest |-> r0] }
=============================================================================
