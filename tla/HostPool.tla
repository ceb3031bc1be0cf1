------------------------------ MODULE HostPool ------------------------------
(***************************************************************************)
(* What the Metal3Machine controller promises about BareMetalHosts, without *)
(* saying how: a host is free, or a machine's, or kept for a deployment; a *)
(* machine takes one host at a time, a free one or one kept for its        *)
(* deployment, and gives it up to the pool or to its deployment.           *)
(***************************************************************************)
CONSTANTS Machines, Hosts, None, Deployment

VARIABLES owner,  \* the machine each host belongs to
          kept    \* the deployment it is kept for

Init ==
    /\ owner = [h \in Hosts |-> None]
    /\ kept = [h \in Hosts |-> None]

Take(m, h) ==
    /\ owner[h] = None
    /\ kept[h] \in {None, Deployment[m]}
    /\ \A g \in Hosts : owner[g] # m
    /\ owner' = [owner EXCEPT ![h] = m]
    /\ kept' = [kept EXCEPT ![h] = None]

GiveUp(m, h) ==
    /\ owner[h] = m
    /\ owner' = [owner EXCEPT ![h] = None]
    /\ \E d \in {None, Deployment[m]} : kept' = [kept EXCEPT ![h] = d]

Next == \E m \in Machines, h \in Hosts : Take(m, h) \/ GiveUp(m, h)

Spec == Init /\ [][Next]_<<owner, kept>>
=============================================================================
