\* Two notifications about the same alerts from two traces.
SPECIFICATION Spec
CONSTANTS
    None = None
    k1 = k1
    k2 = k2
    k3 = k3
    t1 = t1
    t2 = t2
    p1 = p1
    p2 = p2
    s2 = s2
    Keys = {k1, k2, k3}
    Times = {t1, t2}
    InScope = {k1, k2}
    Notifications <- MCNotifications
    Deliveries = {d1, d2}
    Contexts <- MCContexts
    MaxFaults = 0
INVARIANTS
    StoredContextWasCaptured
