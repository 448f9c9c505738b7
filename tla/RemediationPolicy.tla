------------------------- MODULE RemediationPolicy -------------------------
(***************************************************************************)
(* The pure part of the remediation pipeline: the well-formedness check of *)
(* a proposal (validateRequest), the derivation of the trusted policy      *)
(* input from it (derivePolicyInput) and the OPA policy that decides on    *)
(* that input (policies/remediation.rego).                                 *)
(*                                                                         *)
(* A memory quantity is a natural number: n \in 1..MaxMiB is the text      *)
(* "<n>Mi" and Unparsed is any text memoryPattern refuses ("1Gi", "", ...).*)
(* The pattern admits no leading zero, so equal numbers are equal texts.   *)
(* The remaining fields are compared for equality only and are taken from  *)
(* small sets of names.                                                    *)
(***************************************************************************)
EXTENDS Naturals, FiniteSets, Sequences

CONSTANTS
    Environment,   \* Config.Environment of the running API
    Repository,    \* Config.Repository
    AllowedPath    \* Config.AllowedPath

Unparsed == 0
MaxMiB   == 9999   \* four digits: the largest number memoryPattern admits

Quantity == Unparsed .. MaxMiB

(* memoryMiB returns (number, ok); the number of a refused text is 0.      *)
ParsedOK(quantity) == quantity # Unparsed

(***************************************************************************)
(* validateRequest.  The character-level patterns are one flag of the      *)
(* request, "wellFormed"; what later code relies on is kept: the two kinds *)
(* and one to eight distinct evidence IDs.                                 *)
(***************************************************************************)
NoDuplicates(ids) == \A i, j \in DOMAIN ids : ids[i] = ids[j] => i = j

ValidRequest(request) ==
    /\ request.wellFormed
    /\ request.target.kind \in {"Deployment", "Secret"}
    /\ Len(request.evidence) \in 1..8
    /\ NoDuplicates(request.evidence)

(* sameIDs: equal as sorted lists, that is, as bags.                       *)
Occurrences(id, ids) == Cardinality({i \in DOMAIN ids : ids[i] = id})

SameIDs(left, right) ==
    /\ Len(left) = Len(right)
    /\ \A i \in DOMAIN left : Occurrences(left[i], left) = Occurrences(left[i], right)

(***************************************************************************)
(* derivePolicyInput: every risk attribute is computed by trusted code.    *)
(* "cause" comes from the stored report, "observed" from stored evidence.  *)
(***************************************************************************)
(* Mutants: the limit in force is not compared with the observed one (the  *)
(* next raise builds on an approved one); the factor is a division that    *)
(* rounds down; the cap is forgotten.                                      *)
ResourceChangeOfAnyLimit(before, after, observed) ==
    /\ ParsedOK(before) /\ ParsedOK(after) /\ ParsedOK(observed)
    /\ after > before /\ after <= 512 /\ after <= before * 4

ResourceChangeRoundedFactor(before, after, observed) ==
    /\ ParsedOK(before) /\ ParsedOK(after) /\ ParsedOK(observed)
    /\ before = observed
    /\ after > before /\ after <= 512 /\ after \div before <= 4

ResourceChangeUncapped(before, after, observed) ==
    /\ ParsedOK(before) /\ ParsedOK(after) /\ ParsedOK(observed)
    /\ before = observed
    /\ after > before /\ after <= before * 4

ResourceChangeSafe(before, after, observed) ==
    /\ ParsedOK(before)
    /\ ParsedOK(after)
    /\ ParsedOK(observed)
    /\ before = observed
    /\ after > before
    /\ after <= 512
    /\ after <= before * 4

DerivePolicyInput(request, cause, observed) ==
    [environment        |-> Environment,
     repositoryAllowed  |-> request.target.repository = Repository,
     pathAllowed        |-> request.target.path = AllowedPath,
     operation          |-> request.operation,
     targetKind         |-> request.target.kind,
     targetName         |-> request.target.name,
     container          |-> request.target.container,
     field              |-> request.change.field,
     protectedNamespace |-> request.target.namespace # "incidentpilot-demo",
     secretTarget       |-> \/ request.target.kind = "Secret"
                            \/ request.operation = "modify_secret",
     directMutation     |-> request.operation = "direct_cluster_patch",
     destructive        |-> request.operation = "delete_resource",
     evidenceVerified   |-> TRUE,
     rootCause          |-> cause,
     resourceChangeSafe |-> ResourceChangeSafe(request.change.before,
                                               request.change.after, observed)]

(***************************************************************************)
(* remediation.rego: the set of deny reasons, and allow when it is empty.  *)
(***************************************************************************)
Because(condition, reason) == IF condition THEN {reason} ELSE {}

DenyReasons(input) ==
    UNION { Because(input.environment # "development", "environment_not_development"),
            Because(~input.repositoryAllowed, "repository_not_allowed"),
            Because(~input.pathAllowed, "path_not_allowed"),
            Because(input.protectedNamespace, "protected_namespace"),
            Because(input.secretTarget, "secret_target"),
            Because(input.directMutation, "direct_cluster_mutation"),
            Because(input.destructive, "destructive_operation"),
            Because(~input.evidenceVerified, "evidence_not_verified"),
            Because(input.rootCause # "memory_limit_oom", "unsupported_root_cause"),
            Because(input.operation # "update_resource_limit", "unsupported_operation"),
            Because(\/ input.targetKind # "Deployment"
                    \/ input.targetName # "payments-api"
                    \/ input.container # "payments-api", "unsupported_target"),
            Because(input.field # "memory_limit", "unsupported_field"),
            Because(~input.resourceChangeSafe, "unsafe_resource_change") }

Allowed(input) == DenyReasons(input) = {}

(* The verdict the service acts on, for a request with its stored report.  *)
PolicyAllows(request, cause, observed) ==
    Allowed(DerivePolicyInput(request, cause, observed))
=============================================================================
