----------------------------- MODULE MCStartup -----------------------------
(* A rollout: new replicas and an agent start beside a replica of the      *)
(* previous release.                                                       *)
EXTENDS StartupProperties

Complete == [database |-> TRUE, mcp |-> TRUE, remediation |-> TRUE, mode |-> "demo"]
Bare     == [database |-> FALSE, mcp |-> FALSE, remediation |-> FALSE, mode |-> "demo"]
External == [Complete EXCEPT !.mode = "external"]

MCSettings == {Complete, Bare, External}
=============================================================================
