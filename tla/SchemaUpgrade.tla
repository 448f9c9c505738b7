--------------------------- MODULE SchemaUpgrade ---------------------------
(***************************************************************************)
(* What the processes promise about the schema, whatever they do at once:  *)
(* it has one version at a time, and a process that starts to serve has    *)
(* brought it to the version it knows in a single step, or found it there  *)
(* or further.                                                             *)
(***************************************************************************)
EXTENDS Naturals

CONSTANTS Processes, Newest

VARIABLES
    knows,      \* version each process was built for
    level,      \* version of the schema
    serving     \* processes that use it

vars == <<knows, level, serving>>

Init ==
    /\ knows \in [Processes -> 0..Newest]
    /\ level \in 0..Newest
    /\ serving \in SUBSET {p \in Processes : knows[p] <= level}

Raise(p) == level' = IF level < knows[p] THEN knows[p] ELSE level

(* A start that gets as far as serving, or only to the end of its upgrade. *)
Start(p)   == Raise(p) /\ serving' = serving \cup {p}
Upgrade(p) == Raise(p) /\ UNCHANGED serving
Leave(p)   == serving' = serving \ {p} /\ UNCHANGED level

Next ==
    /\ \E p \in Processes : Start(p) \/ Upgrade(p) \/ Leave(p)
    /\ UNCHANGED knows

Spec == Init /\ [][Next]_vars
=============================================================================
