SPECIFICATION Spec
CONSTANTS
    m1 = m1
    m2 = m2
    h1 = h1
    h2 = h2
    d1 = d1
    d2 = d2
    Machines = {m1, m2}
    Hosts = {h1}
    Deployments = {d1, d2}
    None = None
    ClusterRef = ClusterRef
    Deployment <- TwoDeployments
    Selected <- AllHosts
    Domain <- NoDomain
    Templated = {m1}
    UserMeta = {}
    NodeReuse = {d1}
    KeepOnline = {h1}
    HostChurn = {}
    HostsDegrade = FALSE
    MaxFaults = 1
CHECK_DEADLOCK FALSE
INVARIANTS
    AnnotationMatchesConsumer
    RunningHostIsOwned
    ImageIsConsumers
    ReleasedHostIsClean
PROPERTIES
    ImplementsHostPool
