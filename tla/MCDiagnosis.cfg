SPECIFICATION Spec
CONSTANTS
    None = None
    r1 = r1
    r2 = r2
    r3 = r3
    Earlier <- DemoEarlier
    Runs = {r1}
    Profiles <- Documented
    Worlds <- MCWorlds
    Fault <- MCFault
    CardSize <- MCCardSize
    BriefSize = 10000
    Answers <- HonestOrNot
    Flaky = {"loki_get_demo_logs", "argocd_get_application", "github_get_commit"}
    Faulty = {}
    Expirable = {r1}
    Killable = {}
PROPERTIES
    EveryRunReports
    KnownFaultsAreFound
