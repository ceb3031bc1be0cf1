SPECIFICATION Spec
CONSTANTS
    m1 = m1
    m2 = m2
    h1 = h1
    on = on
    None = None
    Machines = {m1, m2}
    Hosts = {h1}
    Owned = {m1}
    Cloned = {m1, m2}
    CleaningModes = {on}
    MaxMoves = 1
    MaxEvents = 3
INVARIANTS TypeOK
PROPERTIES
    HandOver
    PauseFollowsCluster
    ClusterOutlivesMachines
    EditsArrive
    TemplateOnlyTouchesMode
CHECK_DEADLOCK FALSE
