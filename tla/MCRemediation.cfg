\* Two handlers race on one investigation, with faults, a crash and people.
SPECIFICATION Spec
CONSTANTS
    Environment = "development"
    Repository = "repo"
    AllowedPath = "path"
    None = None
    r0 = r0
    r1 = r1
    Handlers = {h1, h2}
    Requests <- MCProposals
    Report <- MCInvestigation
    EvidenceRows <- MCEvidence
    BranchOf <- MCBranchOf
    InitialFile <- MCInitialFile
    HumanFiles <- MCHumanFiles
    MaxInterventions = 2
    Configured = {h1, h2}
    Faulty = {h1, h2}
    Crashable = {h1}
    Cancellable = {}
INVARIANTS
    TypeOK
    BranchesCarryApprovedChange
    OpenPullShowsApprovedChange
    LedgerMatchesRepository
    BaseLimitWasApproved
    RetryResumes
PROPERTIES
    ImplementsLedger
