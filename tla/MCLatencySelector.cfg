SPECIFICATION Spec
CONSTANTS
    None = None
    r1 = r1
    r2 = r2
    r3 = r3
    Earlier <- DemoEarlier
    Runs = {r1}
    Profiles <- LatencySelector
    Worlds <- MCWorlds
    Fault <- MCFault
    CardSize <- MCCardSize
    BriefSize = 10000
    Answers <- Honest
    Flaky = {}
    Faulty = {}
    Expirable = {}
    Killable = {}
INVARIANTS
    SelectorCauseCitesErrorRate
