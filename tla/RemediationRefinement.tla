----------------------- MODULE RemediationRefinement -----------------------
(***************************************************************************)
(* The handlers implement RemediationLedger: a request's group is the      *)
(* branch of its investigation, a pull request is opened for good (people  *)
(* may merge or close it), and of a stored row the ledger keeps the status *)
(* and the pull request it names.                                          *)
(***************************************************************************)
EXTENDS Remediation

AbstractGroup ==
    [h \in Handlers |-> IF body[h] = None THEN None ELSE BranchFor(h)]

AbstractRecord ==
    [h \in Handlers |-> IF ledger[h] = None THEN None
                        ELSE [status |-> ledger[h].status, pull |-> ledger[h].pull]]

Ledger == INSTANCE RemediationLedger WITH
    Groups <- Branches,
    group  <- AbstractGroup,
    opened <- {k \in Handlers : pulls[k] # "none"},
    record <- AbstractRecord

(* Every behaviour of the pipeline, with all its interleavings, faults,    *)
(* crashes and human interventions, is one the ledger promises.            *)
ImplementsLedger == Ledger!Spec
=============================================================================
