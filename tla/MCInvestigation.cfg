SPECIFICATION Spec
CONSTANTS
    None = None
    r1 = r1
    r2 = r2
    r3 = r3
    Earlier <- DemoEarlier
    Runs = {r1}
    Profiles <- EveryProfile
    Worlds <- MCWorlds
    Fault <- MCFault
    CardSize <- MCCardSize
    BriefSize = 10000
    Answers <- AnyAnswer
    Flaky = {"kubernetes_get_orders_config", "kubernetes_get_pod_logs"}
    Faulty = {r1}
    Expirable = {r1}
    Killable = {r1}
INVARIANTS
    TypeOK
    RootCauseIsGrounded
    FoundCausesWereObserved
    ReportsCiteTheirEvidence
    BatchesAreStorable
    PlannedCallsAreServed
    WithinBudgets
