\* Two proposals with different values for one investigation.
SPECIFICATION Spec
CONSTANTS
    Environment = "development"
    Repository = "repo"
    AllowedPath = "path"
    None = None
    r0 = r0
    r1 = r1
    Handlers = {h1, h2}
    Requests <- MCTwoRepairs
    Report <- MCInvestigation
    EvidenceRows <- MCEvidence
    BranchOf <- MCBranchOf
    InitialFile <- MCInitialFile
    HumanFiles <- MCHumanFiles
    MaxInterventions = 0
    Configured = {h1, h2}
    Faulty = {}
    Crashable = {}
    Cancellable = {}
INVARIANTS
    RecordedPullCarriesProposal
