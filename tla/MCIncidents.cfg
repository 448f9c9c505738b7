\* Three notifications, repeated, reordered and cut short by two faults.
SPECIFICATION Spec
CONSTANTS
    None = None
    k1 = k1
    k2 = k2
    k3 = k3
    t1 = t1
    t2 = t2
    p1 = p1
    p2 = p2
    s2 = s2
    Keys = {k1, k2, k3}
    Times = {t1, t2}
    InScope = {k1, k2}
    Notifications <- MCNotifications
    Deliveries = {d1, d2, d3}
    Contexts <- MCOneContext
    MaxFaults = 2
INVARIANTS
    TypeOK
    AcceptedIsStored
    RowsComeFromSignals
PROPERTIES
    ImplementsLifecycle
    NotificationsArrive
