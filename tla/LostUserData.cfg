SPECIFICATION FairSpec
CONSTANTS
    m1 = m1
    m2 = m2
    h1 = h1
    h2 = h2
    d1 = d1
    d2 = d2
    Machines = {m1}
    Hosts = {h1}
    Deployments = {d1}
    None = None
    ClusterRef = ClusterRef
    Deployment <- OneDeployment
    Selected <- AllHosts
    Domain <- NoDomain
    Templated = {m1}
    UserMeta = {}
    NodeReuse = {}
    KeepOnline = {}
    HostChurn = {}
    HostsDegrade = FALSE
    MaxFaults = 1
CHECK_DEADLOCK FALSE
PROPERTIES
    DataReadyStartsProvisioning
