SPECIFICATION Spec
CONSTANTS
    m1 = m1
    m2 = m2
    h1 = h1
    h2 = h2
    d1 = d1
    d2 = d2
    Machines = {m1, m2}
    Hosts = {h1, h2}
    Deployments = {d1}
    None = None
    ClusterRef = ClusterRef
    Deployment <- OneDeployment
    Selected <- AllHosts
    Domain <- NoDomain
    Templated = {}
    UserMeta = {}
    NodeReuse = {d1}
    KeepOnline = {}
    HostChurn = {}
    HostsDegrade = FALSE
    MaxFaults = 0
SYMMETRY MachineHostSymmetry
CHECK_DEADLOCK FALSE
INVARIANTS
    TypeOK
    OneHostPerMachine
PROPERTIES
    ConsumerNotStolen
