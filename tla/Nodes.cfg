SPECIFICATION Spec
CONSTANTS
    m1 = m1
    m2 = m2
    h1 = h1
    h2 = h2
    None = None
    Machines = {m1, m2}
    Hosts = {h1, h2}
    Modes <- MCModes
    MaxMoves = 1
    MaxEvents = 1
INVARIANTS TypeOK PidIdentifiesNode
PROPERTIES SyncOnlyTouchesItsLabels NodeIsMatched LabelsArrive
CHECK_DEADLOCK FALSE
CONSTRAINT OneAtATime
