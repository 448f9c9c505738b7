SPECIFICATION Spec
CONSTANTS
    None = None
    Api = {a1}
    Agents = {g1}
    Old = {o1}
    Releases = {0, 4}
    Settings <- MCSettings
    Requests = {"alerts", "collect", "remediate", "remediation"}
    MaxFaults = 1
INVARIANTS
    TypeOK
    LedgerMatchesSchema
    NoStartBreaks
    ServesOnItsSchema
    NoDeadlock
PROPERTIES
    ShutdownLetsRequestsEnd
    ImplementsUpgrade
    StartsAndStopsEnd
