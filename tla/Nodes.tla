------------------------------- MODULE Nodes -------------------------------
(***************************************************************************)
(* How a Metal3Machine and the Node that runs on its host come to carry    *)
(* the same providerID, and how labels get from a host to its Node.        *)
(*                                                                         *)
(* The part of Metal3MachineReconciler.reconcileNormal after the host is   *)
(* provisioned, one worker per Metal3Machine, cut at its calls to the      *)
(* workload cluster; and the Metal3LabelSync controller, one worker per    *)
(* BareMetalHost.  Metal3Machines are read from the informer cache, Nodes  *)
(* are read and written live.  The workload cluster's API server refuses   *)
(* to change a providerID that is not empty.                               *)
(*                                                                         *)
(* Abstractions: one namespace; a providerID metal3://ns/host/machine is   *)
(* the pair of host and machine; one synchronised label, which a host or   *)
(* Node has or not, and one label of the user's on each Node; a resource   *)
(* version conflict is a Node that is not what was read; the association   *)
(* and the release of a host, which module Metal3Machine has in detail,    *)
(* are one step each.                                                      *)
(***************************************************************************)
EXTENDS Naturals, FiniteSets

CONSTANTS Machines, Hosts, None,
          Modes,      \* how clusters are set up: see mode below
          MaxMoves,   \* bound on clusterctl move
          MaxEvents   \* bound on crashes, failed calls, deletions of Nodes
                      \* and edits by the user, together

ASSUME NodesAssumption ==
    /\ None \notin Machines \cup Hosts \cup 0..MaxMoves
    /\ None \notin [host : Hosts, machine : Machines]
    /\ Machines \cap Hosts = {}
    /\ Modes \subseteq [cloud : BOOLEAN, label : BOOLEAN, pid : BOOLEAN,
                       byMachine : BOOLEAN]
    /\ MaxMoves \in Nat /\ MaxEvents \in Nat

VARIABLES m3m,      \* Metal3Machines on the management cluster
          cache,    \* the informer's copy of them
          nodeRef,  \* Machine.status.nodeRef
          orphans,  \* machines whose Node was deleted after nodeRef named it:
                    \* a history variable, which no action reads
          node,     \* Nodes of the workload cluster
          epoch,    \* clusterctl moves so far: a host's UID is its name
                    \* and the epoch it was created in
          mode,     \* how the cluster is set up
          setup,    \* the user's settings: see Setup
          pc, mem, target,       \* a Metal3Machine's worker
          syncPc, syncSet, syncNode,   \* a host's label sync worker
          events

machineVars == <<pc, mem, target>>
syncVars == <<syncPc, syncSet, syncNode>>
vars == <<m3m, cache, nodeRef, orphans, node, epoch, mode, setup, pc, mem,
          target, syncPc, syncSet, syncNode, events>>

----------------------------------------------------------------------------
(* Objects. *)

Names == Machines \cup Hosts
\* A Node is named after the machine or after the host: the host name that
\* BMO inspected.
NodeName(m, h) == IF mode.byMachine THEN m ELSE h

Epochs == 0..MaxMoves
PID == [host : Hosts, machine : Machines]

\* life: created, its host provisioned, deleted.  uid: the UID of the host
\* when its metaData was rendered.  pid: spec.providerID is set (to the only
\* value it can have, see getProviderID).
M3M == [life : {"new", "live", "gone"}, host : Hosts \cup {None},
        uid : Epochs, pid : BOOLEAN, ready : BOOLEAN]
NewM3M == [life |-> "new", host |-> None, uid |-> 0, pid |-> FALSE,
           ready |-> FALSE]

\* runs: the machine whose kubelet keeps the Node alive.  uid: the label
\* metal3.io/uuid, the UID of "host".  synced: the synchronised label.
Node == [exists : BOOLEAN, runs : Machines \cup {None},
         host : Hosts \cup {None}, uid : Epochs \cup {None},
         pid : PID \cup {None}, synced : BOOLEAN, user : BOOLEAN]
NoNode == [exists |-> FALSE, runs |-> None, host |-> None, uid |-> None,
           pid |-> None, synced |-> FALSE, user |-> FALSE]

\* mode.cloud: spec.cloudProviderEnabled of the Metal3Cluster.  label, pid:
\* kubelets give their Node the host's UID as a label, the providerID of the
\* metaData.

\* The cluster's pause, the prefixes annotation of the Metal3Cluster, the
\* label of each host, the hosts with a pause annotation of the user's.
Setup == [paused : BOOLEAN, prefixes : {"none", "invalid", "set"},
          label : [Hosts -> BOOLEAN], pausedHosts : SUBSET Hosts]

\* What the clusters and the workers can hold.
TypeOK ==
    /\ m3m \in [Machines -> M3M] /\ cache \in [Machines -> M3M]
    /\ nodeRef \in [Machines -> Names \cup {None}]
    /\ orphans \in SUBSET Machines
    /\ node \in [Names -> Node]
    /\ epoch \in Epochs /\ mode \in Modes /\ setup \in Setup
    /\ pc \in [Machines -> {"idle", "cloud", "label", "labelPatch",
                            "hostname", "hostPatch", "save"}]
    /\ mem \in [Machines -> M3M]
    /\ target \in [Machines -> Names \cup {None}]
    /\ syncPc \in [Hosts -> {"idle", "update"}]
    /\ syncSet \in [Hosts -> [ref : Names \cup {None}, label : BOOLEAN]]
    /\ syncNode \in [Hosts -> Node]
    /\ events \in 0..MaxEvents

Idle == [ref |-> None, label |-> FALSE]

Init ==
    /\ m3m = [m \in Machines |-> NewM3M]
    /\ cache = m3m
    /\ nodeRef = [m \in Machines |-> None]
    /\ orphans = {}
    /\ node = [n \in Names |-> NoNode]
    /\ epoch = 0
    /\ mode \in Modes
    /\ setup = [paused |-> FALSE, prefixes |-> "set",
                label |-> [h \in Hosts |-> FALSE], pausedHosts |-> {}]
    /\ pc = [m \in Machines |-> "idle"]
    /\ mem = m3m
    /\ target = [m \in Machines |-> None]
    /\ syncPc = [h \in Hosts |-> "idle"]
    /\ syncSet = [h \in Hosts |-> Idle]
    /\ syncNode = [h \in Hosts |-> NoNode]
    /\ events = 0

Live(m) == m3m[m].life = "live"
Owner(h) == {m \in Machines : Live(m) /\ m3m[m].host = h}

Event == events < MaxEvents /\ events' = events + 1

\* A call to an API server succeeds or fails.
Call(ok) == IF ok THEN UNCHANGED events ELSE Event

----------------------------------------------------------------------------
(* Look-ups of Nodes. *)

\* The only providerID the controller ever gives a machine.
getProviderIDLegacy(m, h) == h  \* mutant: the format without the machine
getProviderID(m, h) == [host |-> h, machine |-> m]

\* Another Node's providerID names the same host, or two Nodes share one.
duplicateProviderIDsExist(p) ==
    LET used == {n \in Names : node[n].exists /\ node[n].pid # None}
        ids == {node[n].pid : n \in used}
    IN \/ Cardinality({i \in ids : i.host = p.host}) > 1
       \/ Cardinality(ids) # Cardinality(used)

getNodeByProviderID(p) ==
    /\ ~duplicateProviderIDsExist(p)
    /\ \E n \in Names : node[n].exists /\ node[n].pid = p

getNodesWithLabel(h) ==
    {n \in Names : node[n].exists /\ node[n].host = h /\ node[n].uid = epoch}

\* Mutant: a Node without a providerID matches any host name.
nodesWithHostnameAny(h) ==
    {n \in Names : node[n].exists /\ (n = h \/ node[n].pid = None)}

\* The host name in Status.Addresses is the inspected one, which the host's
\* own Node has as its kubernetes.io/hostname label unless it is named after
\* the machine.
nodesWithHostname(h) ==
    {n \in Names : node[n].exists /\ n = h}

----------------------------------------------------------------------------
(* The Metal3Machine worker. *)

goto(m, label) == pc' = [pc EXCEPT ![m] = label]

remember(m, pid, ready) ==
    mem' = [mem EXCEPT ![m].pid = pid, ![m].ready = ready]

worker(m, at) ==
    /\ pc[m] = at
    /\ UNCHANGED <<m3m, cache, nodeRef, orphans, epoch, mode, setup, syncVars>>

\* reconcileNormal returns early for a machine that is ready and whose Machine
\* has a nodeRef: its Node is not looked for again, whatever becomes of it.
isProvisionedReady(m) == cache[m].ready  \* mutant: without the nodeRef
isProvisioned(m) == cache[m].ready /\ nodeRef[m] # None

\* A reconcile of a machine whose host is provisioned.  A Node that already
\* has the machine's providerID ends it: nothing is left to do but wait for
\* the nodeRef.
NodeWithMatchingProviderIDExists(m, ok) ==
    /\ worker(m, "idle")
    /\ Live(m) /\ cache[m].life = "live" /\ ~setup.paused
    /\ ~isProvisioned(m)
    /\ Call(ok)
    /\ IF /\ cache[m].pid /\ ok
          /\ getNodeByProviderID(getProviderID(m, cache[m].host))
       THEN /\ mem' = [mem EXCEPT ![m] = [cache[m] EXCEPT !.ready = TRUE]]
            /\ goto(m, "save")
       ELSE /\ mem' = [mem EXCEPT ![m] = cache[m]]
            /\ goto(m, IF mode.cloud THEN "cloud" ELSE "label")
    /\ UNCHANGED <<node, target>>

SetProviderIDFromCloudProviderNode(m, ok) ==
    /\ worker(m, "cloud")
    /\ Call(ok)
    /\ IF ok /\ getNodeByProviderID(getProviderID(m, mem[m].host))
       THEN remember(m, TRUE, TRUE)
       ELSE UNCHANGED mem
    /\ goto(m, "save")
    /\ UNCHANGED <<node, target>>

\* Mutant: of several Nodes, one without a providerID is taken.
SetProviderIDFromNodeLabelFirst(m, ok) ==
    /\ worker(m, "label")
    /\ Call(ok)
    /\ LET found == {n \in getNodesWithLabel(mem[m].host) :
                      node[n].pid = None}
       IN IF ~ok \/ found = {}
          THEN /\ goto(m, "hostname")
               /\ UNCHANGED <<mem, target>>
          ELSE /\ remember(m, TRUE, TRUE)
               /\ \E n \in found : target' = [target EXCEPT ![m] = n]
               /\ goto(m, "labelPatch")
    /\ UNCHANGED node

\* No Node, or no workload cluster yet, falls through to the default
\* providerID; several Nodes, or one with another providerID, are an error.
SetProviderIDFromNodeLabel(m, ok) ==
    /\ worker(m, "label")
    /\ Call(ok)
    /\ LET found == getNodesWithLabel(mem[m].host) IN
       \/ /\ ~ok \/ found = {}
          /\ goto(m, "hostname")
          /\ UNCHANGED <<mem, target>>
       \/ /\ ok /\ Cardinality(found) > 1
          /\ goto(m, "save")
          /\ UNCHANGED <<mem, target>>
       \/ \E n \in found :
            /\ ok /\ found = {n}
            /\ \/ /\ node[n].pid = None
                  /\ remember(m, TRUE, TRUE)
                  /\ target' = [target EXCEPT ![m] = n]
                  /\ goto(m, "labelPatch")
               \/ /\ node[n].pid = getProviderID(m, mem[m].host)
                  /\ remember(m, TRUE, TRUE)
                  /\ goto(m, "save")
                  /\ UNCHANGED target
               \/ /\ node[n].pid \notin {None, getProviderID(m, mem[m].host)}
                  /\ goto(m, "save")
                  /\ UNCHANGED <<mem, target>>
    /\ UNCHANGED node

\* The patch of one Node.  It is sent without a resource version; the API
\* server refuses it when the Node is gone or has another providerID.
setNodeProviderID(m, ok) ==
    /\ Call(ok)
    /\ LET n == target[m]
           p == getProviderID(m, mem[m].host)
       IN IF ok /\ node[n].exists /\ node[n].pid \in {None, p}
          THEN node' = [node EXCEPT ![n].pid = p]
          ELSE UNCHANGED node
    /\ target' = [target EXCEPT ![m] = None]
    /\ goto(m, "save")

PatchLabelledNode(m, ok) ==
    /\ worker(m, "labelPatch")
    /\ setNodeProviderID(m, ok)
    /\ UNCHANGED mem

\* SetDefaultProviderID, unless the machine has one, then the listing of
\* SetNodeProviderIDByHostname, which wants exactly one match.
SetNodeProviderIDByHostname(m, ok) ==
    /\ worker(m, "hostname")
    /\ Call(ok)
    /\ remember(m, TRUE, mem[m].ready \/ ~mem[m].pid)
    /\ LET found == nodesWithHostname(mem[m].host) IN
       IF ok /\ Cardinality(found) = 1
       THEN /\ target' = [target EXCEPT ![m] = CHOOSE n \in found : TRUE]
            /\ goto(m, "hostPatch")
       ELSE /\ goto(m, "save")
            /\ UNCHANGED target
    /\ UNCHANGED node

PatchNamedNode(m, ok) ==
    /\ worker(m, "hostPatch")
    /\ setNodeProviderID(m, ok)
    /\ UNCHANGED mem

\* The deferred patch is two calls, for the spec and for the status, and
\* sends what was changed; either may fail.
Save(m, spec, status) ==
    /\ pc[m] = "save"
    /\ Call(spec /\ status)
    /\ m3m' = [m3m EXCEPT ![m].pid = @ \/ (spec /\ mem[m].pid),
                          ![m].ready = @ \/ (status /\ mem[m].ready)]
    /\ mem' = [mem EXCEPT ![m] = NewM3M]
    /\ goto(m, "idle")
    /\ UNCHANGED <<cache, nodeRef, orphans, node, epoch, mode, setup, target,
                   syncVars>>

Reconcile(m) ==
    \/ \E ok \in BOOLEAN :
         \/ NodeWithMatchingProviderIDExists(m, ok)
         \/ SetProviderIDFromCloudProviderNode(m, ok)
         \/ SetProviderIDFromNodeLabel(m, ok)
         \/ PatchLabelledNode(m, ok)
         \/ SetNodeProviderIDByHostname(m, ok)
         \/ PatchNamedNode(m, ok)
    \/ \E spec, status \in BOOLEAN : Save(m, spec, status)

----------------------------------------------------------------------------
(* The label sync worker of a host. *)

syncUnchanged == UNCHANGED <<m3m, cache, nodeRef, orphans, epoch, mode, setup,
                             machineVars>>

\* From the host, unless it is paused, to its consumer, the consumer's Machine
\* and the Machine's Node, which is read last; then the prefixes.  Whatever is
\* missing ends the round, and the queue or the periodic resync starts another.
SyncRead(h) ==
    /\ syncPc[h] = "idle"
    /\ h \notin setup.pausedHosts
    /\ ~setup.paused /\ setup.prefixes = "set"
    /\ \E m \in Owner(h) :
         /\ cache[m].life = "live" /\ nodeRef[m] # None
         /\ node[nodeRef[m]].exists
         /\ syncSet' = [syncSet EXCEPT ![h] = [ref |-> nodeRef[m],
                                               label |-> setup.label[h]]]
         /\ syncNode' = [syncNode EXCEPT ![h] = node[nodeRef[m]]]
    /\ syncPc' = [syncPc EXCEPT ![h] = "update"]
    /\ syncUnchanged
    /\ UNCHANGED <<node, events>>

\* Mutant: labels the host has lost stay on the Node.
synchronizeLabelSyncSetsOnNodeAdd(n, label) == [n EXCEPT !.synced = @ \/ label]
\* The labels with a synchronised prefix become the host's; others stay.
synchronizeLabelSyncSetsOnNode(n, label) == [n EXCEPT !.synced = label]

\* Mutant: the Node is written back whatever happened to it.
SyncUpdateNodeForced(h, ok) ==
    /\ syncPc[h] = "update"
    /\ Call(ok)
    /\ node' = IF ok /\ node[syncSet[h].ref].exists
               THEN [node EXCEPT ![syncSet[h].ref] =
                       [syncNode[h] EXCEPT !.synced = syncSet[h].label]]
               ELSE node
    /\ syncPc' = [syncPc EXCEPT ![h] = "idle"]
    /\ syncSet' = [syncSet EXCEPT ![h] = Idle]
    /\ syncNode' = [syncNode EXCEPT ![h] = NoNode]
    /\ syncUnchanged

\* The whole Node is written back under the resource version that was read.
SyncUpdateNode(h, ok) ==
    /\ syncPc[h] = "update"
    /\ Call(ok)
    /\ LET n == syncSet[h].ref IN
       IF ok /\ node[n] = syncNode[h]
       THEN node' = [node EXCEPT ![n] = synchronizeLabelSyncSetsOnNode(
                                            syncNode[h], syncSet[h].label)]
       ELSE UNCHANGED node
    /\ syncPc' = [syncPc EXCEPT ![h] = "idle"]
    /\ syncSet' = [syncSet EXCEPT ![h] = Idle]
    /\ syncNode' = [syncNode EXCEPT ![h] = NoNode]
    /\ syncUnchanged

SyncLabels(h) ==
    \/ SyncRead(h)
    \/ \E ok \in BOOLEAN : SyncUpdateNode(h, ok)

----------------------------------------------------------------------------
(* The environment: the other controllers, kubelets, the user. *)

\* A free host is associated with a machine and provisioned.
Provision(m, h) ==
    /\ m3m[m].life = "new" /\ Owner(h) = {}
    /\ m3m' = [m3m EXCEPT ![m].life = "live", ![m].host = h, ![m].uid = epoch]
    /\ UNCHANGED <<cache, nodeRef, orphans, node, epoch, mode, setup,
                   machineVars, syncVars, events>>

\* The machine is deleted, its Machine too, and its host released.  A Node that
\* Cluster API did not delete before stays behind.
Release(m) ==
    /\ Live(m) /\ pc[m] = "idle" /\ ~setup.paused
    /\ m3m' = [m3m EXCEPT ![m].life = "gone"]
    /\ node' = [n \in Names |-> IF node[n].runs = m
                                THEN [node[n] EXCEPT !.runs = None]
                                ELSE node[n]]
    /\ nodeRef' = [nodeRef EXCEPT ![m] = None]
    /\ orphans' = orphans \ {m}
    /\ UNCHANGED <<cache, epoch, mode, setup, machineVars, syncVars, events>>

InformerSync(m) ==
    /\ cache[m] # m3m[m]
    /\ cache' = [cache EXCEPT ![m] = m3m[m]]
    /\ UNCHANGED <<m3m, nodeRef, orphans, node, epoch, mode, setup, machineVars,
                   syncVars, events>>

\* A kubelet registers its Node, with the label and the providerID it is
\* configured with.  A Node of the same name that was left behind is kept as
\* it is.
Join(m) ==
    LET h == m3m[m].host
        n == NodeName(m, h)
    IN /\ Live(m)
       /\ node[n].runs # m
       /\ node' = [node EXCEPT ![n] =
             IF @.exists THEN [@ EXCEPT !.runs = m]
             ELSE [NoNode EXCEPT
                     !.exists = TRUE, !.runs = m, !.host = h,
                     !.uid = IF mode.label THEN m3m[m].uid ELSE None,
                     !.pid = IF mode.pid THEN [host |-> h, machine |-> m]
                             ELSE None]]
       /\ UNCHANGED <<m3m, cache, nodeRef, orphans, epoch, mode, setup,
                      machineVars, syncVars, events>>

\* The cloud provider gives a new Node its providerID.
CloudProvider(n) ==
    /\ mode.cloud /\ node[n].exists /\ node[n].pid = None /\ node[n].runs # None
    /\ node' = [node EXCEPT ![n].pid = [host |-> node[n].host,
                                        machine |-> node[n].runs]]
    /\ UNCHANGED <<m3m, cache, nodeRef, orphans, epoch, mode, setup,
                   machineVars, syncVars, events>>

\* Cluster API finds the Node with the machine's providerID.
SetNodeRef(m) ==
    /\ Live(m) /\ m3m[m].pid /\ nodeRef[m] = None
    /\ \E n \in Names :
         /\ node[n].exists
         /\ node[n].pid = [host |-> m3m[m].host, machine |-> m]
         /\ nodeRef' = [nodeRef EXCEPT ![m] = n]
    /\ UNCHANGED <<m3m, cache, orphans, node, epoch, mode, setup, machineVars,
                   syncVars, events>>

\* A Node is deleted: by Cluster API with its machine, or by the user.  Cluster
\* API does not take back a nodeRef.
DeleteNode(n) ==
    /\ node[n].exists
    /\ Event
    /\ node' = [node EXCEPT ![n] = NoNode]
    /\ orphans' = orphans \cup {m \in Machines : nodeRef[m] = n}
    /\ UNCHANGED <<m3m, cache, nodeRef, epoch, mode, setup, machineVars,
                   syncVars>>

\* clusterctl move: refused until every Machine has a nodeRef; it pauses the
\* cluster, copies the objects and resumes it.  Spec and annotations survive,
\* status does not, hosts get new UIDs.
Move ==
    /\ epoch < MaxMoves /\ ~setup.paused
    /\ \A m \in Machines : /\ Live(m) => nodeRef[m] # None
                           /\ pc[m] = "idle"
    /\ \A h \in Hosts : syncPc[h] = "idle"
    /\ epoch' = epoch + 1
    /\ m3m' = [m \in Machines |-> [m3m[m] EXCEPT !.ready = FALSE]]
    /\ cache' = m3m'
    /\ nodeRef' = [m \in Machines |-> None]
    /\ orphans' = {}
    /\ UNCHANGED <<node, mode, setup, machineVars, syncVars, events>>

\* The controller stops; what its workers had in memory is lost.
Crash ==
    /\ Event
    /\ pc' = [m \in Machines |-> "idle"]
    /\ target' = [m \in Machines |-> None]
    /\ syncPc' = [h \in Hosts |-> "idle"]
    /\ syncSet' = [h \in Hosts |-> Idle]
    /\ syncNode' = [h \in Hosts |-> NoNode]
    /\ cache' = m3m
    /\ mem' = [m \in Machines |-> NewM3M]
    /\ UNCHANGED <<m3m, nodeRef, orphans, node, epoch, mode, setup>>

\* The user pauses or resumes the cluster, changes the prefixes annotation,
\* relabels, pauses or resumes a host, changes a label of a Node's own or a
\* synchronised one.
Edit ==
    /\ Event
    /\ \/ /\ \/ setup' = [setup EXCEPT !.paused = ~@]
             \/ \E p \in {"none", "invalid", "set"} \ {setup.prefixes} :
                  setup' = [setup EXCEPT !.prefixes = p]
             \/ \E h \in Hosts : setup' = [setup EXCEPT !.label[h] = ~@]
             \/ \E h \in Hosts \ setup.pausedHosts :
                  setup' = [setup EXCEPT !.pausedHosts = @ \cup {h}]
             \/ \E h \in setup.pausedHosts :
                  setup' = [setup EXCEPT !.pausedHosts = @ \ {h}]
          /\ UNCHANGED node
       \/ /\ \E n \in Names :
               /\ node[n].exists
               /\ \/ node' = [node EXCEPT ![n].user = ~@]
                  \/ node' = [node EXCEPT ![n].synced = ~@]
          /\ UNCHANGED setup
    /\ UNCHANGED <<m3m, cache, nodeRef, orphans, epoch, mode, machineVars,
                   syncVars>>

Next ==
    \/ \E m \in Machines :
         \/ Reconcile(m) \/ Release(m) \/ InformerSync(m) \/ Join(m)
         \/ SetNodeRef(m)
         \/ \E h \in Hosts : Provision(m, h)
    \/ \E h \in Hosts : SyncLabels(h)
    \/ \E n \in Names : CloudProvider(n) \/ DeleteNode(n)
    \/ Move \/ Crash \/ Edit

\* Work queues retry and resync, informers deliver, the cloud provider and
\* Cluster API do their part.
Fairness ==
    /\ \A m \in Machines : /\ WF_vars(Reconcile(m))
                           /\ WF_vars(InformerSync(m))
                           /\ WF_vars(SetNodeRef(m))
    /\ \A h \in Hosts : WF_vars(SyncLabels(h))
    /\ \A n \in Names : WF_vars(CloudProvider(n))

Spec == Init /\ [][Next]_vars /\ Fairness

----------------------------------------------------------------------------
(* Properties. *)

\* A providerID names the host the Node runs on.
PidNamesItsHost ==
    \A n \in Names : node[n].pid # None => node[n].pid.host = node[n].host

\* No two Nodes carry the same providerID.
PidUnique ==
    \A n1, n2 \in Names :
      node[n1].pid # None /\ node[n1].pid = node[n2].pid => n1 = n2

\* A providerID identifies a Node, those left behind by an earlier machine on
\* the same host included, whichever of label, host name, kubelet and cloud
\* provider it came by, and whatever became of the Node between the
\* controller's listing and its patch (SetProviderIDFromNodeLabel,
\* SetNodeProviderIDByHostname).
PidIdentifiesNode == PidNamesItsHost /\ PidUnique

\* Writing a whole Node back, label sync never undoes what others wrote to it
\* after it was read: it changes the synchronised label of the Node its
\* machine's nodeRef names and nothing else.
SyncOnlyTouchesItsLabels ==
    [][\A h \in Hosts : syncPc[h] = "update" /\ syncPc'[h] = "idle" =>
         \A n \in Names : node'[n] = [node[n] EXCEPT !.synced = node'[n].synced]
      ]_vars

\* A machine's Node can be told: by its name, by the label of the host's
\* current UID, or by the providerID it has already.
Findable(m) ==
    LET h == m3m[m].host
        n == NodeName(m, h)
    IN /\ Live(m) /\ ~setup.paused
       /\ node[n].exists /\ node[n].runs = m
       /\ node[n].pid \in {None, [host |-> h, machine |-> m]}
       /\ mode.cloud \/ n = h \/ node[n].uid = epoch \/ node[n].pid # None
       /\ \A o \in Names \ {n} : node[o].exists => node[o].host # h

Matched(m) ==
    LET h == m3m[m].host IN
    /\ m3m[m].ready /\ m3m[m].pid
    /\ node[NodeName(m, h)].pid = [host |-> h, machine |-> m]

\* A machine whose Node has joined and cannot be mistaken for one left behind
\* becomes ready and its Node carries its providerID, after crashes, failed
\* calls and a move too.  Not so a Node that is deleted once it is the
\* machine's nodeRef, and joins again: the controller has stopped looking
\* for it (reconcileNormal), until a move takes the nodeRef away.
NodeIsMatched ==
    \A m \in Machines :
      <>[](Findable(m) /\ m \notin orphans) => <>[]Matched(m)

\* While labels are synchronised and the host is not paused, the Node of the
\* host's machine ends up with the host's label, whoever changes either of them.
LabelsArrive ==
    \A m \in Machines :
      <>[](/\ Live(m) /\ nodeRef[m] # None /\ node[nodeRef[m]].exists
           /\ ~setup.paused /\ setup.prefixes = "set"
           /\ m3m[m].host \notin setup.pausedHosts)
        => <>[](Live(m) /\ nodeRef[m] # None =>
                  node[nodeRef[m]].synced = setup.label[m3m[m].host])
============================================================================
