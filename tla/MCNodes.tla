------------------------------ MODULE MCNodes ------------------------------
(* Instances of Nodes for TLC. *)
EXTENDS Nodes

CONSTANTS m1, m2, h1, h2

\* Each way to find a Node, with the names that matter to it: the cloud
\* provider's or kubelet's providerID, the label with either name, the name.
MCModes ==
    {x \in [cloud : BOOLEAN, label : BOOLEAN, pid : BOOLEAN,
            byMachine : BOOLEAN] :
        /\ x.cloud => ~x.label /\ x.byMachine
        /\ x.pid => ~x.label /\ ~x.cloud
        /\ x.byMachine => x.label \/ x.cloud}

\* One machine at a time has a host; Nodes stay behind.  The machines are
\* alike, and so are the hosts: m1 comes first, on h1.
OneAtATime ==
    /\ Cardinality({m \in Machines : Live(m)}) <= 1
    /\ m3m[m1].host # h2
    /\ m3m[m2].life # "new" => m3m[m1].life # "new"
============================================================================
