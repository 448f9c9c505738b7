\* Two requests for the same repair at the same time.
SPECIFICATION Spec
CONSTANTS
    Environment = "development"
    Repository = "repo"
    AllowedPath = "path"
    None = None
    r0 = r0
    r1 = r1
    Handlers = {h1, h2}
    Requests <- MCSameRepair
    Report <- MCInvestigation
    EvidenceRows <- MCEvidence
    BranchOf <- MCBranchOf
    InitialFile <- MCInitialFile
    HumanFiles <- MCHumanFiles
    MaxInterventions = 0
    Configured = {h1, h2}
    Faulty = {}
    Crashable = {}
    Cancellable = {}
INVARIANTS
    RecordedCommitIsRemediation
