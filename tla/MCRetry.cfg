\* h1 fails, times out or dies anywhere; h3 runs on a replica without a GitHub
\* executor; h2 is a clean retry of the same repair.
SPECIFICATION Spec
CONSTANTS
    Environment = "development"
    Repository = "repo"
    AllowedPath = "path"
    None = None
    r0 = r0
    r1 = r1
    Handlers = {h1, h2, h3}
    Requests <- MCSameRepair
    Report <- MCInvestigation
    EvidenceRows <- MCEvidence
    BranchOf <- MCBranchOf
    InitialFile <- MCInitialFile
    HumanFiles <- MCHumanFiles
    MaxInterventions = 0
    Configured = {h1, h2}
    Faulty = {h1}
    Crashable = {h1}
    Cancellable = {h1}
PROPERTIES
    RetryCompletes
    EveryRequestEnds
