\* A request whose deadline passes while it works at GitHub.
SPECIFICATION Spec
CONSTANTS
    Environment = "development"
    Repository = "repo"
    AllowedPath = "path"
    None = None
    r0 = r0
    r1 = r1
    Handlers = {h1}
    Requests <- MCSameRepair
    Report <- MCInvestigation
    EvidenceRows <- MCEvidence
    BranchOf <- MCBranchOf
    InitialFile <- MCInitialFile
    HumanFiles <- MCHumanFiles
    MaxInterventions = 0
    Configured = {h1}
    Faulty = {}
    Crashable = {}
    Cancellable = {h1}
INVARIANTS
    PullsAreAudited
