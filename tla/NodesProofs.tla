---------------------------- MODULE NodesProofs ----------------------------
(***************************************************************************)
(* Theorems about Nodes, for every set of machines and hosts, every way a  *)
(* cluster may be set up, and any number of moves, failures and edits.     *)
(***************************************************************************)
EXTENDS Nodes, FiniteSetTheorems, TLAPS

----------------------------------------------------------------------------
(* The inductive invariant. *)

\* The host on which a Node of this name runs: its own, or its machine's.
HostOf(n) == IF n \in Hosts THEN n ELSE m3m[n].host

\* What a copy of a machine in a cache or a worker says of a host is so.
CopyIsTrue(m, c) ==
    c.life = "live" => m3m[m].life # "new" /\ c.host = m3m[m].host

\* A machine has one host in its life, and a worker its live machine's.
MachinesKeepHosts ==
    \A m \in Machines :
        /\ m3m[m].life = "new" <=> m3m[m].host = None
        /\ m3m[m].uid <= epoch
        /\ CopyIsTrue(m, cache[m])
        /\ pc[m] # "idle" => Live(m) /\ mem[m].host = m3m[m].host
        /\ pc[m] \in {"label", "labelPatch", "hostname", "hostPatch"}
               => ~mode.cloud

\* A host has one live machine, and it is the last one the host was given to.
HostsInTurn ==
    \A m, o \in Machines :
        m # o /\ Live(m) /\ m3m[o].host = m3m[m].host
            => m3m[o].life = "gone" /\ m3m[o].uid <= m3m[m].uid

\* Nodes are named as the mode says and run where their name tells; those of
\* a name that is the machine's are the machine's.
NodeIsNamed(n) ==
    /\ ~node[n].exists => node[n] = NoNode
    /\ node[n].exists =>
         /\ n \in (IF mode.byMachine THEN Machines ELSE Hosts)
         /\ HostOf(n) # None /\ node[n].host = HostOf(n)
         /\ mode.byMachine => /\ node[n].runs \in {None, n}
                              /\ mode.label => node[n].uid = m3m[n].uid
         /\ mode.pid => node[n].pid # None
         /\ ~mode.label => node[n].uid = None
NodesAreNamed == \A n \in Names : NodeIsNamed(n)

\* A providerID that does not come from the controller names its machine.
GivenNamesMachine ==
    mode.byMachine /\ (mode.pid \/ mode.cloud) =>
        \A n \in Machines : node[n].pid # None => node[n].pid.machine = n

\* One that does was given to a Node no older than the machine it names.
FoundIsRecent ==
    mode.byMachine /\ ~mode.pid /\ ~mode.cloud =>
        \A n, m \in Machines :
            node[n].pid # None /\ node[n].pid.machine = m
                => mode.label /\ m3m[n].uid >= m3m[m].uid
                   /\ m3m[m].host = node[n].host

\* A worker is about to patch a Node on its own host; when Nodes have the
\* names of machines it found that Node by the label, the machine is of this
\* epoch and no Node has its providerID.
TargetIsOwn ==
    \A m \in Machines :
        /\ pc[m] \in {"labelPatch", "hostPatch"} =>
             target[m] \in Names /\ HostOf(target[m]) = mem[m].host
        /\ pc[m] = "hostPatch" => ~mode.byMachine
        /\ pc[m] = "labelPatch" /\ mode.byMachine =>
             /\ ~mode.pid /\ mode.label
             /\ target[m] \in Machines
             /\ m3m[target[m]].uid = epoch
             /\ \A n \in Names : node[n].pid # getProviderID(m, mem[m].host)

\* Label sync has read a Node that there was.
SyncHasRead == \A h \in Hosts : syncPc[h] = "update" => syncNode[h].exists

NodesInv ==
    /\ TypeOK /\ SyncHasRead /\ MachinesKeepHosts /\ HostsInTurn /\ NodesAreNamed
    /\ PidIdentifiesNode /\ GivenNamesMachine /\ FoundIsRecent /\ TargetIsOwn

----------------------------------------------------------------------------
(* Types. *)

LEMMA ObjectTypes == NewM3M \in M3M /\ NoNode \in Node /\ 0 \in Epochs
<1>1. 0 \in Epochs
  BY NodesAssumption DEF Epochs
<1>2. NewM3M \in M3M
  BY <1>1 DEF M3M, NewM3M
<1>3. QED
  BY <1>1, <1>2 DEF Node, NoNode

\* Writing fields of a machine ...
LEMMA M3MUpdates ==
    ASSUME NEW o \in M3M
    PROVE  /\ \A p, r \in BOOLEAN : [o EXCEPT !.pid = p, !.ready = r] \in M3M
           /\ \A r \in BOOLEAN : [o EXCEPT !.ready = r] \in M3M
           /\ \A h \in Hosts, e \in Epochs :
                 [o EXCEPT !.life = "live", !.host = h, !.uid = e] \in M3M
           /\ [o EXCEPT !.life = "gone"] \in M3M
  BY DEF M3M

\* ... or of a Node keeps its type.
LEMMA NodeUpdates ==
    ASSUME NEW o \in Node
    PROVE  /\ \A p \in PID : [o EXCEPT !.pid = p] \in Node
           /\ \A r \in Machines \cup {None} : [o EXCEPT !.runs = r] \in Node
           /\ \A b \in BOOLEAN : /\ [o EXCEPT !.synced = b] \in Node
                                 /\ [o EXCEPT !.user = b] \in Node
  BY DEF Node

\* A failed call, a deletion or an edit is counted within its bound.
LEMMA EventTypes ==
    /\ events \in 0..MaxEvents /\ Event => events' \in 0..MaxEvents
    /\ \A ok : events \in 0..MaxEvents /\ Call(ok) => events' \in 0..MaxEvents
  BY NodesAssumption DEF Event, Call

LEMMA TypeInit == Init => TypeOK
  BY ObjectTypes, NodesAssumption
     DEF Init, TypeOK, Setup, Idle, Names

\* The one Node that is found by a host's name has that name.
LEMMA FoundByName ==
    ASSUME NEW h, Cardinality(nodesWithHostname(h)) = 1
    PROVE  /\ (CHOOSE n \in nodesWithHostname(h) : TRUE) = h
           /\ h \in Names /\ node[h].exists
<1> DEFINE S == nodesWithHostname(h)
<1>1. S # {}
  BY FS_EmptySet
<1>2. \A n \in S : n = h /\ n \in Names /\ node[n].exists
  BY DEF nodesWithHostname
<1> HIDE DEF S
<1>3. (CHOOSE n \in S : TRUE) \in S
  BY <1>1
<1>4. QED
  BY <1>2, <1>3 DEF S

\* Every step of a machine's worker keeps the types.
LEMMA ReconcileTypes ==
    ASSUME TypeOK, MachinesKeepHosts, NEW m \in Machines, Reconcile(m)
    PROVE  TypeOK'
<1> USE EventTypes, ObjectTypes DEF TypeOK
<1>a. \A b, c \in BOOLEAN :
        remember(m, b, c) => mem' \in [Machines -> M3M]
  <2> SUFFICES ASSUME NEW b \in BOOLEAN, NEW c \in BOOLEAN, remember(m, b, c)
               PROVE  mem' \in [Machines -> M3M]
    OBVIOUS
  <2>1. mem' = [mem EXCEPT ![m] = [mem[m] EXCEPT !.pid = b, !.ready = c]]
    BY DEF remember
  <2>2. QED
    BY <2>1, M3MUpdates
<1>b. mem[m] \in M3M /\ cache[m] \in M3M /\ m3m[m] \in M3M
  OBVIOUS
<1>c. /\ mem[m].ready \in BOOLEAN /\ mem[m].pid \in BOOLEAN
      /\ m3m[m].ready \in BOOLEAN /\ m3m[m].pid \in BOOLEAN
  BY <1>b DEF M3M
<1>1. ASSUME NEW ok \in BOOLEAN, NodeWithMatchingProviderIDExists(m, ok)
      PROVE  TypeOK'
  BY <1>1, <1>b, M3MUpdates
     DEF NodeWithMatchingProviderIDExists, worker, goto, syncVars
<1>2. ASSUME NEW ok \in BOOLEAN, SetProviderIDFromCloudProviderNode(m, ok)
      PROVE  TypeOK'
  BY <1>2, <1>a DEF SetProviderIDFromCloudProviderNode, worker, goto, syncVars
<1>3. ASSUME NEW ok \in BOOLEAN, SetProviderIDFromNodeLabel(m, ok)
      PROVE  TypeOK'
  BY <1>3, <1>a
     DEF SetProviderIDFromNodeLabel, worker, goto, syncVars, getNodesWithLabel
<1>4. ASSUME NEW ok \in BOOLEAN, setNodeProviderID(m, ok),
             worker(m, "labelPatch") \/ worker(m, "hostPatch"), UNCHANGED mem
      PROVE  TypeOK'
  <2>1. getProviderID(m, mem[m].host) \in PID
    BY <1>b, <1>4 DEF M3M, getProviderID, PID, MachinesKeepHosts, Live, worker
  <2>2. node' \in [Names -> Node]
    <3> DEFINE p == getProviderID(m, mem[m].host)
    <3>1. \A n \in Names : [node[n] EXCEPT !.pid = p] \in Node
      BY <2>1, NodeUpdates
    <3>2. \A n : [node EXCEPT ![n].pid = p] \in [Names -> Node]
      BY <3>1
    <3>3. QED
      BY <1>4, <3>2 DEF setNodeProviderID
  <2>3. QED
    BY <1>4, <2>2 DEF setNodeProviderID, worker, goto, syncVars
<1>5. ASSUME NEW ok \in BOOLEAN, SetNodeProviderIDByHostname(m, ok)
      PROVE  TypeOK'
  <2>1. mem' \in [Machines -> M3M]
    BY <1>5, <1>a, <1>c DEF SetNodeProviderIDByHostname
  <2>2. target' \in [Machines -> Names \cup {None}]
    <3> DEFINE S == nodesWithHostname(mem[m].host)
    <3>1. Cardinality(S) = 1 => (CHOOSE n \in S : TRUE) \in Names
      BY FoundByName
    <3>2. \/ target' = target
          \/ /\ Cardinality(S) = 1
             /\ target' = [target EXCEPT ![m] = CHOOSE n \in S : TRUE]
      BY <1>5 DEF SetNodeProviderIDByHostname
    <3> HIDE DEF S
    <3>3. QED
      BY <3>1, <3>2, Zenon
  <2>3. QED
    BY <1>5, <2>1, <2>2
       DEF SetNodeProviderIDByHostname, worker, goto, syncVars
<1>6. ASSUME NEW spec \in BOOLEAN, NEW status \in BOOLEAN,
             Save(m, spec, status)
      PROVE  TypeOK'
  <2>1. m3m' \in [Machines -> M3M]
    BY <1>6, <1>c, M3MUpdates, ZenonT(40) DEF Save
  <2>2. QED
    BY <1>6, <2>1 DEF Save, goto, syncVars
<1>7. QED
  BY <1>1, <1>2, <1>3, <1>4, <1>5, <1>6
     DEF Reconcile, PatchLabelledNode, PatchNamedNode

\* So does every step of label sync ...
LEMMA SyncTypes ==
    ASSUME TypeOK, NEW h \in Hosts, SyncLabels(h)
    PROVE  TypeOK'
<1> USE EventTypes, ObjectTypes DEF TypeOK, syncUnchanged, machineVars
<1>1. CASE SyncRead(h)
  <2>1. \A m \in Machines : nodeRef[m] # None => node[nodeRef[m]] \in Node
    OBVIOUS
  <2>2. setup.label[h] \in BOOLEAN
    BY DEF Setup
  <2>3. QED
    BY <1>1, <2>1, <2>2 DEF SyncRead, Owner
<1>2. ASSUME NEW ok \in BOOLEAN, SyncUpdateNode(h, ok)
      PROVE  TypeOK'
  <2>1. synchronizeLabelSyncSetsOnNode(syncNode[h], syncSet[h].label) \in Node
    BY NodeUpdates DEF synchronizeLabelSyncSetsOnNode
  <2>2. node' \in [Names -> Node]
    BY <1>2, <2>1 DEF SyncUpdateNode
  <2>3. Idle \in [ref : Names \cup {None}, label : BOOLEAN]
    BY DEF Idle
  <2>4. QED
    BY <1>2, <2>2, <2>3 DEF SyncUpdateNode
<1>3. QED
  BY <1>1, <1>2 DEF SyncLabels

\* ... and of the environment.
LEMMA EnvironmentTypes ==
    ASSUME TypeOK, MachinesKeepHosts, NodesAreNamed,
           \/ \E m \in Machines : \/ Release(m) \/ InformerSync(m) \/ Join(m)
                                  \/ SetNodeRef(m)
                                  \/ \E h \in Hosts : Provision(m, h)
           \/ \E n \in Names : CloudProvider(n) \/ DeleteNode(n)
           \/ Move \/ Crash \/ Edit
    PROVE  TypeOK'
<1> USE EventTypes, ObjectTypes DEF TypeOK, machineVars, syncVars
<1>1. ASSUME NEW m \in Machines, Release(m) PROVE TypeOK'
  <2>1. \A n \in Names : [node[n] EXCEPT !.runs = None] \in Node
    BY NodeUpdates
  <2>2. node' \in [Names -> Node]
    BY <1>1, <2>1 DEF Release
  <2>3. m3m' \in [Machines -> M3M]
    BY <1>1, M3MUpdates DEF Release
  <2>4. QED
    BY <1>1, <2>2, <2>3 DEF Release
<1>2. ASSUME NEW m \in Machines, InformerSync(m) PROVE TypeOK'
  BY <1>2 DEF InformerSync
<1>3. ASSUME NEW m \in Machines, Join(m) PROVE TypeOK'
  <2> DEFINE h == m3m[m].host
             n == NodeName(m, h)
             new == [NoNode EXCEPT
                       !.exists = TRUE, !.runs = m, !.host = h,
                       !.uid = IF mode.label THEN m3m[m].uid ELSE None,
                       !.pid = IF mode.pid THEN [host |-> h, machine |-> m]
                               ELSE None]
  <2>1. h \in Hosts /\ m3m[m].uid \in Epochs
    BY <1>3 DEF Join, MachinesKeepHosts, Live, M3M
  <2>2. n \in Names
    BY <2>1 DEF NodeName, Names
  <2>3. new \in Node
    BY <2>1 DEF NoNode, Node, PID
  <2>4. [node[n] EXCEPT !.runs = m] \in Node
    BY <2>2, NodeUpdates
  <2>5. node' = [node EXCEPT ![n] = IF node[n].exists
                                    THEN [node[n] EXCEPT !.runs = m] ELSE new]
    BY <1>3, <2>2 DEF Join
  <2> HIDE DEF new, n
  <2>6. node' \in [Names -> Node]
    BY <2>3, <2>4, <2>5
  <2>7. QED
    BY <1>3, <2>6 DEF Join
<1>4. ASSUME NEW m \in Machines, SetNodeRef(m) PROVE TypeOK'
  BY <1>4 DEF SetNodeRef
<1>5. ASSUME NEW m \in Machines, NEW h \in Hosts, Provision(m, h)
      PROVE  TypeOK'
  <2>1. m3m' = [m3m EXCEPT ![m] = [m3m[m] EXCEPT !.life = "live", !.host = h,
                                                 !.uid = epoch]]
    BY <1>5 DEF Provision
  <2>2. m3m' \in [Machines -> M3M]
    BY <2>1, M3MUpdates
  <2>3. QED
    BY <1>5, <2>2 DEF Provision
<1>6. ASSUME NEW n \in Names, CloudProvider(n) PROVE TypeOK'
  <2>1. HostOf(n) \in Hosts
    <3>1. HostOf(n) # None
      BY <1>6 DEF CloudProvider, NodesAreNamed, NodeIsNamed
    <3>2. QED
      BY <3>1 DEF HostOf, Names, M3M
  <2>2. node[n].host = HostOf(n) /\ node[n].runs \in Machines
    BY <1>6 DEF CloudProvider, NodesAreNamed, NodeIsNamed, Node
  <2>3. [host |-> node[n].host, machine |-> node[n].runs] \in PID
    BY <2>1, <2>2 DEF PID
  <2>4. node' \in [Names -> Node]
    BY <1>6, <2>3, NodeUpdates DEF CloudProvider
  <2>5. QED
    BY <1>6, <2>4 DEF CloudProvider
<1>7. ASSUME NEW n \in Names, DeleteNode(n) PROVE TypeOK'
  BY <1>7 DEF DeleteNode
<1>8. CASE Move
  <2>1. m3m' \in [Machines -> M3M]
    BY <1>8, M3MUpdates DEF Move
  <2>2. epoch' \in Epochs
    BY <1>8, NodesAssumption DEF Move, Epochs
  <2>3. QED
    BY <1>8, <2>1, <2>2 DEF Move
<1>9. CASE Crash
  <2>1. Idle \in [ref : Names \cup {None}, label : BOOLEAN]
    BY DEF Idle
  <2>2. QED
    BY <1>9, <2>1 DEF Crash
<1>10. CASE Edit
  <2>1. setup' \in Setup
    <3>1. setup.label \in [Hosts -> BOOLEAN]
      BY DEF Setup
    <3>2. \A b \in BOOLEAN : [setup EXCEPT !.paused = b] \in Setup
      BY DEF Setup
    <3>3. \A p \in {"none", "invalid", "set"} :
            [setup EXCEPT !.prefixes = p] \in Setup
      BY DEF Setup
    <3>4. \A h \in Hosts, b \in BOOLEAN : [setup EXCEPT !.label[h] = b] \in Setup
      <4>1. \A h \in Hosts, b \in BOOLEAN :
              [setup.label EXCEPT ![h] = b] \in [Hosts -> BOOLEAN]
        BY <3>1
      <4>2. QED
        BY <4>1 DEF Setup
    <3>a. \A S \in SUBSET Hosts : [setup EXCEPT !.pausedHosts = S] \in Setup
      BY DEF Setup
    <3>5. \/ setup' = setup
          \/ \E b \in BOOLEAN : setup' = [setup EXCEPT !.paused = b]
          \/ \E p \in {"none", "invalid", "set"} :
               setup' = [setup EXCEPT !.prefixes = p]
          \/ \E h \in Hosts, b \in BOOLEAN :
               setup' = [setup EXCEPT !.label[h] = b]
          \/ \E S \in SUBSET Hosts : setup' = [setup EXCEPT !.pausedHosts = S]
      <4>1. setup.pausedHosts \in SUBSET Hosts
        BY DEF Setup
      <4>2. QED
        BY <1>10, <4>1 DEF Edit
    <3>6. QED
      <4>0. setup \in Setup
        BY DEF TypeOK
      <4>1. CASE \E b \in BOOLEAN : setup' = [setup EXCEPT !.paused = b]
        BY Zenon, <4>1, <3>2
      <4>2. CASE \E p \in {"none", "invalid", "set"} :
                   setup' = [setup EXCEPT !.prefixes = p]
        BY Zenon, <4>2, <3>3
      <4>3. CASE \E h \in Hosts, b \in BOOLEAN :
                   setup' = [setup EXCEPT !.label[h] = b]
        BY Zenon, <4>3, <3>4
      <4>4. CASE \E S \in SUBSET Hosts : setup' = [setup EXCEPT !.pausedHosts = S]
        BY Zenon, <4>4, <3>a
      <4>5. QED
        BY Zenon, <4>0, <4>1, <4>2, <4>3, <4>4, <3>5
  <2>2. node' \in [Names -> Node]
    <3>1. \A n \in Names, b \in BOOLEAN :
            /\ [node[n] EXCEPT !.user = b] \in Node
            /\ [node[n] EXCEPT !.synced = b] \in Node
      BY NodeUpdates
    <3>2. \/ node' = node
          \/ \E n \in Names, b \in BOOLEAN :
               \/ node' = [node EXCEPT ![n].user = b]
               \/ node' = [node EXCEPT ![n].synced = b]
      <4>1. \A n \in Names : node[n].user \in BOOLEAN /\ node[n].synced \in BOOLEAN
        BY DEF Node
      <4>2. \A b \in BOOLEAN : (~b) \in BOOLEAN
        OBVIOUS
      <4>3. QED
        BY <1>10, <4>1, <4>2, Zenon DEF Edit
    <3>3. ASSUME NEW n \in Names, NEW b \in BOOLEAN,
                 \/ node' = [node EXCEPT ![n].user = b]
                 \/ node' = [node EXCEPT ![n].synced = b]
          PROVE  node' \in [Names -> Node]
      BY <3>1, <3>3
    <3>4. QED
      BY <3>2, <3>3
  <2>3. QED
    BY <1>10, <2>1, <2>2 DEF Edit
<1>11. QED
  BY <1>1, <1>2, <1>3, <1>4, <1>5, <1>6, <1>7, <1>8, <1>9, <1>10

LEMMA TypeStep ==
    TypeOK /\ MachinesKeepHosts /\ NodesAreNamed /\ [Next]_vars => TypeOK'
<1> SUFFICES ASSUME TypeOK, MachinesKeepHosts, NodesAreNamed, [Next]_vars
             PROVE  TypeOK'
  OBVIOUS
<1>1. CASE UNCHANGED vars
  BY <1>1 DEF vars, TypeOK
<1>2. QED
  BY <1>1, ReconcileTypes, SyncTypes, EnvironmentTypes DEF Next

----------------------------------------------------------------------------
(* What a step may do to machines and workers. *)

\* A machine keeps its place, gets its host, or gives it up.
Same(m) == /\ m3m'[m].life = m3m[m].life
           /\ m3m'[m].host = m3m[m].host
           /\ m3m'[m].uid = m3m[m].uid
Provisioned(m) ==
    /\ m3m[m].life = "new" /\ m3m'[m].life = "live"
    /\ m3m'[m].host \in Hosts /\ Owner(m3m'[m].host) = {}
    /\ m3m'[m].uid = epoch /\ epoch' = epoch
    /\ \A o \in Machines \ {m} : m3m'[o] = m3m[o]
    /\ UNCHANGED <<cache, node, pc, mem, target>>
Released(m) ==
    /\ Live(m) /\ m3m'[m].life = "gone" /\ pc[m] = "idle"
    /\ m3m'[m].host = m3m[m].host /\ m3m'[m].uid = m3m[m].uid
    /\ \A o \in Machines \ {m} : m3m'[o] = m3m[o]
    /\ UNCHANGED <<cache, epoch, pc, mem, target>>
    /\ \A n \in Names : node'[n] = node[n]
                        \/ node'[n] = [node[n] EXCEPT !.runs = None]

\* A worker starts with the cached machine and keeps its host.
Works(m) ==
    /\ Same(m) /\ epoch' = epoch
    /\ \/ /\ pc[m] = "idle" /\ Live(m) /\ cache[m].life = "live"
          /\ mem'[m].host = cache[m].host
          /\ pc'[m] \in {"save", "cloud", "label"}
          /\ pc'[m] = "label" => ~mode.cloud
       \/ /\ pc[m] # "idle" /\ mem'[m].host = mem[m].host
          /\ \/ pc'[m] \in {pc[m], "save"}
             \/ pc[m] = "label" /\ pc'[m] \in {"labelPatch", "hostname"}
             \/ pc[m] = "hostname" /\ pc'[m] = "hostPatch"

MachineStep ==
    /\ mode' = mode
    /\ \/ epoch' = epoch
       \/ epoch' = epoch + 1 /\ \A m \in Machines : pc'[m] = "idle"
    /\ \A m \in Machines :
         /\ Same(m) \/ Provisioned(m) \/ Released(m)
         /\ cache'[m] \in {cache[m], m3m[m], m3m'[m]}
         /\ pc'[m] # "idle" => \/ Works(m)
                               \/ pc'[m] = pc[m] /\ mem'[m] = mem[m]

\* In a step of one machine's worker only that machine moves.
LEMMA StepOfWorker ==
    ASSUME NEW m \in Machines, UNCHANGED <<mode, epoch, cache>>,
           \A o \in Machines : Same(o),
           \A o \in Machines \ {m} : pc'[o] = pc[o] /\ mem'[o] = mem[o],
           pc'[m] # "idle" => Works(m)
    PROVE  MachineStep
  BY DEF MachineStep

LEMMA StepOfMachines == ASSUME TypeOK, [Next]_vars PROVE MachineStep
<1> USE DEF TypeOK
<1>0. \A m \in Machines : m3m[m] \in M3M /\ mem[m] \in M3M /\ cache[m] \in M3M
  OBVIOUS
<1>1. ASSUME NEW m \in Machines, Reconcile(m) PROVE MachineStep
  <2>a. ASSUME NEW b, NEW c, remember(m, b, c)
        PROVE  mem'[m].host = mem[m].host
               /\ \A o \in Machines \ {m} : mem'[o] = mem[o]
    BY <2>a, <1>0 DEF remember, M3M
  <2>b. (\A o \in Machines : m3m'[o] = m3m[o]) => \A o \in Machines : Same(o)
    BY DEF Same
  <2>1. ASSUME NEW ok \in BOOLEAN, NodeWithMatchingProviderIDExists(m, ok)
        PROVE  MachineStep
    <3>1. Works(m)
      BY <2>1, <1>0, <2>b
         DEF NodeWithMatchingProviderIDExists, worker, goto, Works, M3M
    <3>2. QED
      BY <2>1, <2>b, <3>1, StepOfWorker
         DEF NodeWithMatchingProviderIDExists, worker, goto
  <2>2. ASSUME NEW ok \in BOOLEAN, SetProviderIDFromCloudProviderNode(m, ok)
        PROVE  MachineStep
    <3>1. Works(m)
      BY <2>2, <2>a, <2>b
         DEF SetProviderIDFromCloudProviderNode, worker, goto, Works
    <3>2. QED
      BY <2>2, <2>a, <2>b, <3>1, StepOfWorker
         DEF SetProviderIDFromCloudProviderNode, worker, goto
  <2>3. ASSUME NEW ok \in BOOLEAN, SetProviderIDFromNodeLabel(m, ok)
        PROVE  MachineStep
    <3>1. Works(m)
      BY <2>3, <2>a, <2>b DEF SetProviderIDFromNodeLabel, worker, goto, Works
    <3>2. QED
      BY <2>3, <2>a, <2>b, <3>1, StepOfWorker
         DEF SetProviderIDFromNodeLabel, worker, goto
  <2>4. ASSUME NEW ok \in BOOLEAN, setNodeProviderID(m, ok),
               worker(m, "labelPatch") \/ worker(m, "hostPatch"), UNCHANGED mem
        PROVE  MachineStep
    <3>1. Works(m)
      BY <2>4, <2>b DEF setNodeProviderID, worker, goto, Works
    <3>2. QED
      BY <2>4, <2>b, <3>1, StepOfWorker DEF setNodeProviderID, worker, goto
  <2>5. ASSUME NEW ok \in BOOLEAN, SetNodeProviderIDByHostname(m, ok)
        PROVE  MachineStep
    <3>1. Works(m)
      BY <2>5, <2>a, <2>b DEF SetNodeProviderIDByHostname, worker, goto, Works
    <3>2. QED
      BY <2>5, <2>a, <2>b, <3>1, StepOfWorker
         DEF SetNodeProviderIDByHostname, worker, goto
  <2>6. ASSUME NEW spec \in BOOLEAN, NEW status \in BOOLEAN,
               Save(m, spec, status)
        PROVE  MachineStep
    <3>1. \A o \in Machines : Same(o)
      BY <2>6, <1>0 DEF Save, Same, M3M
    <3>2. QED
      BY <2>6, <3>1, StepOfWorker DEF Save, goto
  <2>7. QED
    BY <1>1, <2>1, <2>2, <2>3, <2>4, <2>5, <2>6
       DEF Reconcile, PatchLabelledNode, PatchNamedNode
<1>2. ASSUME NEW h \in Hosts, SyncLabels(h) PROVE MachineStep
  BY <1>2 DEF SyncLabels, SyncRead, SyncUpdateNode, syncUnchanged, machineVars,
              MachineStep, Same
<1>3. ASSUME NEW m \in Machines, Release(m) PROVE MachineStep
  <2>1. Released(m)
    BY <1>3, <1>0 DEF Release, Released, machineVars, M3M
  <2>2. QED
    BY <1>3, <2>1 DEF Release, Released, machineVars, MachineStep, Same
<1>4. ASSUME NEW m \in Machines, NEW h \in Hosts, Provision(m, h)
      PROVE  MachineStep
  <2>1. Provisioned(m)
    BY <1>4, <1>0 DEF Provision, Provisioned, machineVars, M3M
  <2>2. QED
    BY <1>4, <2>1 DEF Provision, Provisioned, machineVars, MachineStep, Same
<1>5. ASSUME NEW m \in Machines,
             InformerSync(m) \/ Join(m) \/ SetNodeRef(m)
      PROVE  MachineStep
  BY <1>5 DEF InformerSync, Join, SetNodeRef, machineVars, MachineStep, Same
<1>6. ASSUME NEW n \in Names, CloudProvider(n) \/ DeleteNode(n)
      PROVE  MachineStep
  BY <1>6 DEF CloudProvider, DeleteNode, machineVars, MachineStep, Same
<1>7. CASE Move
  BY <1>7, <1>0 DEF Move, machineVars, MachineStep, Same, M3M
<1>8. CASE Crash \/ Edit
  BY <1>8 DEF Crash, Edit, machineVars, MachineStep, Same
<1>9. CASE UNCHANGED vars
  BY <1>9 DEF vars, MachineStep, Same
<1>10. QED
  BY <1>1, <1>2, <1>3, <1>4, <1>5, <1>6, <1>7, <1>8, <1>9 DEF Next

LEMMA MachinesKept ==
    ASSUME TypeOK, TypeOK', MachinesKeepHosts, MachineStep
    PROVE  MachinesKeepHosts'
<1> SUFFICES ASSUME NEW m \in Machines
             PROVE  (/\ m3m[m].life = "new" <=> m3m[m].host = None
                     /\ m3m[m].uid <= epoch
                     /\ CopyIsTrue(m, cache[m])
                     /\ pc[m] # "idle" => Live(m) /\ mem[m].host = m3m[m].host
                     /\ pc[m] \in {"label", "labelPatch", "hostname",
                                   "hostPatch"} => ~mode.cloud)'
  BY DEF MachinesKeepHosts
<1>0. /\ m3m[m] \in M3M /\ m3m'[m] \in M3M /\ None \notin Hosts
      /\ epoch \in Nat /\ epoch' \in Nat /\ m3m[m].uid \in Nat
  BY NodesAssumption DEF TypeOK, M3M, Epochs
<1>1. /\ m3m[m].life = "new" <=> m3m[m].host = None
      /\ m3m[m].uid <= epoch
      /\ CopyIsTrue(m, cache[m])
      /\ pc[m] # "idle" => Live(m) /\ mem[m].host = m3m[m].host
      /\ pc[m] \in {"label", "labelPatch", "hostname", "hostPatch"}
            => ~mode.cloud
  BY DEF MachinesKeepHosts
<1>2. /\ mode' = mode
      /\ epoch' >= epoch
      /\ Same(m) \/ Provisioned(m) \/ Released(m)
      /\ cache'[m] \in {cache[m], m3m[m], m3m'[m]}
      /\ pc'[m] # "idle" => \/ Works(m)
                            \/ pc'[m] = pc[m] /\ mem'[m] = mem[m]
  BY <1>0 DEF MachineStep
<1>3. /\ m3m'[m].life = "new" <=> m3m'[m].host = None
      /\ m3m'[m].uid <= epoch'
      /\ m3m[m].life # "new" => /\ m3m'[m].life # "new"
                                /\ m3m'[m].host = m3m[m].host
  BY <1>0, <1>1, <1>2 DEF Same, Provisioned, Released, Live
<1>4. CopyIsTrue(m, cache[m])'
  BY <1>1, <1>2, <1>3 DEF CopyIsTrue
<1>5. (pc[m] # "idle" => Live(m) /\ mem[m].host = m3m[m].host)'
  BY <1>1, <1>2
     DEF CopyIsTrue, Works, Same, Live, Provisioned, Released
<1>6. (pc[m] \in {"label", "labelPatch", "hostname", "hostPatch"}
         => ~mode.cloud)'
  BY <1>1, <1>2 DEF Works
<1>7. QED
  BY <1>3, <1>4, <1>5, <1>6

LEMMA TurnsKept ==
    ASSUME TypeOK, TypeOK', MachinesKeepHosts, HostsInTurn, MachineStep
    PROVE  HostsInTurn'
<1> SUFFICES ASSUME NEW m \in Machines, NEW o \in Machines, m # o,
                    m3m'[m].life = "live", m3m'[o].host = m3m'[m].host
             PROVE  m3m'[o].life = "gone" /\ m3m'[o].uid <= m3m'[m].uid
  BY DEF HostsInTurn, Live
<1>0. /\ \A x \in Machines : m3m[x] \in M3M
      /\ epoch \in Nat /\ \A x \in Machines : m3m[x].uid \in Nat
      /\ None \notin Hosts
  BY NodesAssumption DEF TypeOK, M3M, Epochs
<1>1. \A x \in Machines : /\ m3m[x].life = "new" <=> m3m[x].host = None
                          /\ m3m[x].uid <= epoch
  BY DEF MachinesKeepHosts
<1>2. CASE Provisioned(m)
  <2>1. m3m'[o] = m3m[o] /\ ~(Live(o) /\ m3m[o].host = m3m'[m].host)
    BY <1>2 DEF Provisioned, Owner
  <2>2. QED
    BY <1>0, <1>1, <1>2, <2>1 DEF Provisioned, Live, M3M
<1>3. CASE Same(m) /\ Provisioned(o)
  BY <1>3 DEF Same, Provisioned, Owner, Live
<1>4. CASE Same(m) /\ (Same(o) \/ Released(o))
  <2>1. m3m[o].life = "gone" /\ m3m[o].uid <= m3m[m].uid
    BY <1>4 DEF Same, Released, HostsInTurn, Live
  <2>2. QED
    BY <1>4, <2>1 DEF Same, Released, Live
<1>5. QED
  BY <1>2, <1>3, <1>4 DEF MachineStep, Released

----------------------------------------------------------------------------
(* What a step may do to Nodes and to the workers' targets. *)

\* Others' fields, a deletion, a kubelet, the cloud provider, the patch.
Touched(n) == /\ node'[n].exists = node[n].exists
              /\ node'[n].host = node[n].host
              /\ node'[n].uid = node[n].uid
              /\ node'[n].pid = node[n].pid
              /\ node'[n].runs \in {node[n].runs, None}
              /\ ~node[n].exists => node'[n] = node[n]
Others(n) == \A o \in Names \ {n} : node'[o] = node[o]
Joined(m, n) ==
    /\ Live(m) /\ n = NodeName(m, m3m[m].host) /\ UNCHANGED <<m3m, epoch>>
    /\ Others(n) /\ node'[n].exists /\ node'[n].runs = m
    /\ \/ /\ node[n].exists
          /\ node'[n].host = node[n].host /\ node'[n].uid = node[n].uid
          /\ node'[n].pid = node[n].pid
       \/ /\ ~node[n].exists
          /\ node'[n].host = m3m[m].host
          /\ node'[n].uid = IF mode.label THEN m3m[m].uid ELSE None
          /\ node'[n].pid = IF mode.pid THEN [host |-> m3m[m].host,
                                              machine |-> m]
                            ELSE None
Provided(n) ==
    /\ mode.cloud /\ node[n].exists /\ node[n].pid = None
    /\ node[n].runs \in Machines /\ UNCHANGED <<m3m, epoch>>
    /\ Others(n)
    /\ node'[n] = [node[n] EXCEPT !.pid = [host |-> node[n].host,
                                           machine |-> node[n].runs]]
Patched(m, n) ==
    /\ pc[m] \in {"labelPatch", "hostPatch"} /\ target[m] = n
    /\ node[n].exists
    /\ node[n].pid \in {None, getProviderID(m, mem[m].host)}
    /\ node'[n] = [node[n] EXCEPT !.pid = getProviderID(m, mem[m].host)]
    /\ Others(n) /\ UNCHANGED <<m3m, epoch>>
    /\ pc'[m] = "save"

\* A worker that found a Node in this step.
Found(m) ==
    /\ UNCHANGED <<node, m3m, epoch>> /\ mem'[m].host = mem[m].host
    /\ \/ /\ pc[m] = "label" /\ pc'[m] = "labelPatch"
          /\ getNodesWithLabel(mem[m].host) = {target'[m]}
          /\ node[target'[m]].pid = None
       \/ /\ pc[m] = "hostname" /\ pc'[m] = "hostPatch"
          /\ target'[m] = mem[m].host /\ target'[m] \in Names
          /\ node[target'[m]].exists

NodeStep ==
    /\ \A n \in Names : \/ Touched(n) \/ node'[n] = NoNode
                        \/ Provided(n)
                        \/ \E m \in Machines : Joined(m, n) \/ Patched(m, n)
    /\ \A m \in Machines : pc'[m] \in {"labelPatch", "hostPatch"} =>
         \/ Found(m)
         \/ pc'[m] = pc[m] /\ mem'[m] = mem[m] /\ target'[m] = target[m]

\* Writing a label of a Node, or stopping its kubelet, touches it.
LEMMA TouchedFields ==
    ASSUME TypeOK, NEW n \in Names, node[n].exists, NEW b,
           \/ node'[n] = [node[n] EXCEPT !.user = b]
           \/ node'[n] = [node[n] EXCEPT !.synced = b]
           \/ node'[n] = [node[n] EXCEPT !.runs = None]
    PROVE  Touched(n)
<1>0. node[n] \in Node
  BY DEF TypeOK
<1>1. CASE node'[n] = [node[n] EXCEPT !.user = b]
  BY <1>0, <1>1 DEF Node, Touched
<1>2. CASE node'[n] = [node[n] EXCEPT !.synced = b]
  BY <1>0, <1>2 DEF Node, Touched
<1>3. CASE node'[n] = [node[n] EXCEPT !.runs = None]
  BY <1>0, <1>3 DEF Node, Touched
<1>4. QED
  BY <1>1, <1>2, <1>3

LEMMA StepOfNodes ==
    ASSUME TypeOK, NodesAreNamed, SyncHasRead, [Next]_vars
    PROVE  NodeStep
<1> USE DEF TypeOK
<1>0. /\ \A n \in Names : node[n] \in Node
      /\ \A m \in Machines : mem[m] \in M3M
  OBVIOUS
\* Nodes and targets that a step leaves alone.
<1>a. node' = node => \A n \in Names : Touched(n)
  BY DEF Touched
<1>b. ASSUME UNCHANGED <<pc, mem, target>>
      PROVE  \A m \in Machines : /\ pc'[m] = pc[m] /\ mem'[m] = mem[m]
                                 /\ target'[m] = target[m]
  BY <1>b
\* A step of one worker that found nothing.
<1>c. ASSUME NEW m \in Machines,
             pc'[m] \notin {"labelPatch", "hostPatch"} \/ Found(m),
             \A o \in Machines \ {m} : /\ pc'[o] = pc[o] /\ mem'[o] = mem[o]
                                       /\ target'[o] = target[o]
      PROVE  \A o \in Machines : pc'[o] \in {"labelPatch", "hostPatch"} =>
               \/ Found(o)
               \/ pc'[o] = pc[o] /\ mem'[o] = mem[o] /\ target'[o] = target[o]
  BY <1>c
<1>d. ASSUME NEW m \in Machines, NEW b, NEW c, remember(m, b, c)
      PROVE  mem'[m].host = mem[m].host
             /\ \A o \in Machines \ {m} : mem'[o] = mem[o]
  BY <1>d, <1>0 DEF remember, M3M
<1>1. ASSUME NEW m \in Machines, NEW ok \in BOOLEAN,
             NodeWithMatchingProviderIDExists(m, ok)
      PROVE  NodeStep
  BY <1>1, <1>a, <1>c
     DEF NodeWithMatchingProviderIDExists, worker, goto, NodeStep
<1>2. ASSUME NEW m \in Machines, NEW ok \in BOOLEAN,
             SetProviderIDFromCloudProviderNode(m, ok)
      PROVE  NodeStep
  BY <1>2, <1>a, <1>c, <1>d
     DEF SetProviderIDFromCloudProviderNode, worker, goto, NodeStep
<1>3. ASSUME NEW m \in Machines, NEW ok \in BOOLEAN,
             SetProviderIDFromNodeLabel(m, ok)
      PROVE  NodeStep
  <2> DEFINE found == getNodesWithLabel(mem[m].host)
  <2>1. /\ pc[m] = "label" /\ UNCHANGED <<node, m3m, epoch>>
        /\ \/ pc' = [pc EXCEPT ![m] = "hostname"] /\ UNCHANGED <<mem, target>>
           \/ pc' = [pc EXCEPT ![m] = "save"] /\ UNCHANGED target
              /\ (mem' = mem \/ remember(m, TRUE, TRUE))
           \/ \E n \in found : /\ found = {n} /\ node[n].pid = None
                               /\ remember(m, TRUE, TRUE)
                               /\ target' = [target EXCEPT ![m] = n]
                               /\ pc' = [pc EXCEPT ![m] = "labelPatch"]
    BY <1>3 DEF SetProviderIDFromNodeLabel, worker, goto
  <2>2. pc'[m] \notin {"labelPatch", "hostPatch"} \/ Found(m)
    BY <2>1, <1>d DEF Found
  <2>3. \A o \in Machines \ {m} : /\ pc'[o] = pc[o] /\ mem'[o] = mem[o]
                                  /\ target'[o] = target[o]
    BY <2>1, <1>d
  <2>4. QED
    BY <2>1, <2>2, <2>3, <1>a, <1>c DEF NodeStep
<1>4. ASSUME NEW m \in Machines, NEW ok \in BOOLEAN, setNodeProviderID(m, ok),
             worker(m, "labelPatch") \/ worker(m, "hostPatch"), UNCHANGED mem
      PROVE  NodeStep
  <2>1. \A o \in Machines : pc'[o] \in {"labelPatch", "hostPatch"} =>
             \/ Found(o)
             \/ pc'[o] = pc[o] /\ mem'[o] = mem[o] /\ target'[o] = target[o]
    BY <1>4, <1>c DEF setNodeProviderID, worker, goto
  <2>2. CASE node' = node
    BY <2>1, <2>2, <1>a DEF NodeStep
  <2>3. CASE node' # node
    <3> DEFINE n == target[m]
               p == getProviderID(m, mem[m].host)
    <3>1. /\ node[n].exists /\ node[n].pid \in {None, p}
          /\ node' = [node EXCEPT ![n].pid = p]
      BY <1>4, <2>3 DEF setNodeProviderID
    <3>2. n \in Names
      BY <2>3, <3>1
    <3>3. Patched(m, n)
      <4>1. node'[n] = [node[n] EXCEPT !.pid = p] /\ Others(n)
        BY <3>1, <3>2 DEF Others
      <4>2. QED
        BY <1>4, <3>1, <4>1 DEF Patched, setNodeProviderID, worker, goto
    <3>4. \A o \in Names \ {n} : Touched(o)
      BY <3>3 DEF Patched, Others, Touched
    <3>5. QED
      BY <2>1, <3>3, <3>4 DEF NodeStep
  <2>4. QED
    BY <2>2, <2>3
<1>5. ASSUME NEW m \in Machines, NEW ok \in BOOLEAN,
             SetNodeProviderIDByHostname(m, ok)
      PROVE  NodeStep
  <2> DEFINE found == nodesWithHostname(mem[m].host)
  <2>1. /\ pc[m] = "hostname" /\ UNCHANGED <<node, m3m, epoch>>
        /\ remember(m, TRUE, mem[m].ready \/ ~mem[m].pid)
        /\ \/ pc' = [pc EXCEPT ![m] = "save"] /\ UNCHANGED target
           \/ /\ Cardinality(found) = 1
              /\ target' = [target EXCEPT ![m] = CHOOSE n \in found : TRUE]
              /\ pc' = [pc EXCEPT ![m] = "hostPatch"]
    BY <1>5 DEF SetNodeProviderIDByHostname, worker, goto
  <2>2. mem'[m].host = mem[m].host /\ \A o \in Machines \ {m} : mem'[o] = mem[o]
    BY <2>1, <1>d
  <2>3. \/ pc' = [pc EXCEPT ![m] = "save"] /\ UNCHANGED target
        \/ /\ target' = [target EXCEPT ![m] = mem[m].host]
           /\ mem[m].host \in Names /\ node[mem[m].host].exists
           /\ pc' = [pc EXCEPT ![m] = "hostPatch"]
    <3>1. Cardinality(found) = 1 =>
            /\ (CHOOSE n \in found : TRUE) = mem[m].host
            /\ mem[m].host \in Names /\ node[mem[m].host].exists
      BY FoundByName
    <3> HIDE DEF found
    <3>2. QED
      BY <2>1, <3>1
  <2>4. pc'[m] \notin {"labelPatch", "hostPatch"} \/ Found(m)
    BY <2>1, <2>2, <2>3 DEF Found
  <2>5. \A o \in Machines \ {m} : /\ pc'[o] = pc[o] /\ mem'[o] = mem[o]
                                  /\ target'[o] = target[o]
    BY <2>1, <2>2, <2>3
  <2>6. QED
    BY <2>1, <2>4, <2>5, <1>a, <1>c DEF NodeStep
<1>6. ASSUME NEW m \in Machines, NEW spec \in BOOLEAN, NEW status \in BOOLEAN,
             Save(m, spec, status)
      PROVE  NodeStep
  BY <1>6, <1>a, <1>c DEF Save, goto, NodeStep
<1>7. ASSUME NEW h \in Hosts, SyncLabels(h) PROVE NodeStep
  <2>1. UNCHANGED <<pc, mem, target>>
    BY <1>7 DEF SyncLabels, SyncRead, SyncUpdateNode, syncUnchanged,
                machineVars
  <2>2. ASSUME NEW ok \in BOOLEAN, SyncUpdateNode(h, ok), node' # node
        PROVE  \E n \in Names : node[n].exists /\
                 node' = [node EXCEPT ![n] = [node[n] EXCEPT
                                                !.synced = syncSet[h].label]]
    BY <2>2 DEF SyncUpdateNode, synchronizeLabelSyncSetsOnNode, SyncHasRead
  <2>3. ASSUME NEW n \in Names, node[n].exists,
               node' = [node EXCEPT ![n] = [node[n] EXCEPT
                                              !.synced = syncSet[h].label]]
        PROVE  \A o \in Names : Touched(o)
    <3>1. Touched(n)
      BY <2>3, <1>0 DEF Touched, Node
    <3>2. QED
      BY <2>3, <3>1 DEF Touched
  <2>4. QED
    BY <1>7, <2>1, <2>2, <2>3, <1>a, <1>b
       DEF SyncLabels, SyncRead, NodeStep
<1>8. ASSUME NEW m \in Machines, Release(m) PROVE NodeStep
  <2>1. \A n \in Names : node'[n] = IF node[n].runs = m
                                    THEN [node[n] EXCEPT !.runs = None]
                                    ELSE node[n]
    BY <1>8 DEF Release
  <2>2. \A n \in Names : Touched(n)
    <3> SUFFICES ASSUME NEW n \in Names PROVE Touched(n)
      OBVIOUS
    <3>1. CASE node[n].runs # m
      BY <2>1, <3>1 DEF Touched
    <3>2. CASE node[n].runs = m
      <4>1. node[n].exists
        BY <3>2, NodesAssumption DEF NodesAreNamed, NodeIsNamed, NoNode
      <4>2. node'[n] = [node[n] EXCEPT !.runs = None]
        BY <2>1, <3>2
      <4>3. QED
        BY <4>1, <4>2, TouchedFields DEF TypeOK
    <3>3. QED
      BY <3>1, <3>2
  <2>3. QED
    BY <1>8, <2>2, <1>b DEF Release, machineVars, NodeStep
<1>9. ASSUME NEW m \in Machines, Join(m) PROVE NodeStep
  <2> DEFINE n == NodeName(m, m3m[m].host)
  <2>1. \A o \in Names \ {n} : Touched(o)
    BY <1>9 DEF Join, Touched
  <2>2. n \in Names => Joined(m, n)
    BY <1>9, <1>0 DEF Join, Joined, Others, Node, NoNode
  <2>3. QED
    BY <1>9, <2>1, <2>2, <1>b DEF Join, machineVars, NodeStep
<1>10. ASSUME NEW n \in Names, CloudProvider(n) PROVE NodeStep
  <2>1. \A o \in Names \ {n} : Touched(o)
    BY <1>10 DEF CloudProvider, Touched
  <2>2. Provided(n)
    BY <1>10, <1>0 DEF CloudProvider, Provided, Others, Node
  <2>3. QED
    BY <1>10, <2>1, <2>2, <1>b DEF CloudProvider, machineVars, NodeStep
<1>11. ASSUME NEW n \in Names, DeleteNode(n) PROVE NodeStep
  <2>1. \A o \in Names \ {n} : Touched(o)
    BY <1>11 DEF DeleteNode, Touched
  <2>2. node'[n] = NoNode
    BY <1>11 DEF DeleteNode
  <2>3. QED
    BY <1>11, <2>1, <2>2, <1>b DEF DeleteNode, machineVars, NodeStep
<1>12. CASE Edit
  <2>1. ASSUME NEW n \in Names, node[n].exists, NEW b,
               \/ node' = [node EXCEPT ![n].user = b]
               \/ node' = [node EXCEPT ![n].synced = b]
        PROVE  \A o \in Names : Touched(o)
    <3>1. \/ node'[n] = [node[n] EXCEPT !.user = b]
          \/ node'[n] = [node[n] EXCEPT !.synced = b]
      BY <2>1
    <3>2. Touched(n)
      BY <2>1, <3>1, TouchedFields
    <3>3. QED
      BY <2>1, <3>2 DEF Touched
  <2>2. \/ node' = node
        \/ \E n \in Names : \E b : /\ node[n].exists
                                  /\ \/ node' = [node EXCEPT ![n].user = b]
                                     \/ node' = [node EXCEPT ![n].synced = b]
    <3>1. CASE UNCHANGED node
      BY <3>1
    <3>2. ASSUME NEW n \in Names, node[n].exists,
                 \/ node' = [node EXCEPT ![n].user = ~@]
                 \/ node' = [node EXCEPT ![n].synced = ~@]
          PROVE  \E b : \/ node' = [node EXCEPT ![n].user = b]
                        \/ node' = [node EXCEPT ![n].synced = b]
      BY <3>2, Zenon
    <3>3. QED
      BY <1>12, <3>1, <3>2, Zenon DEF Edit
  <2>3. \A n \in Names : Touched(n)
    BY <2>1, <2>2, <1>a
  <2>4. UNCHANGED <<pc, mem, target>>
    BY <1>12 DEF Edit, machineVars
  <2>5. QED
    BY <2>3, <2>4, <1>b DEF NodeStep
<1>13. CASE Move \/ Crash \/ UNCHANGED vars
  BY <1>13, <1>a, <1>b
     DEF Move, Crash, vars, machineVars, NodeStep
<1>14. ASSUME NEW m \in Machines,
              \/ InformerSync(m) \/ SetNodeRef(m)
              \/ \E h \in Hosts : Provision(m, h)
       PROVE  NodeStep
  BY <1>14, <1>a, <1>b
     DEF InformerSync, SetNodeRef, Provision, machineVars, NodeStep
<1>15. QED
  BY <1>1, <1>2, <1>3, <1>4, <1>5, <1>6, <1>7, <1>8, <1>9, <1>10, <1>11,
     <1>12, <1>13, <1>14
     DEF Next, Reconcile, PatchLabelledNode, PatchNamedNode

----------------------------------------------------------------------------
(* Every conjunct about Nodes is kept. *)

\* A machine that has a host keeps it.
LEMMA HostStays ==
    ASSUME TypeOK, MachinesKeepHosts, MachineStep,
           NEW m \in Machines, m3m[m].host # None
    PROVE  /\ m3m'[m].host = m3m[m].host /\ m3m'[m].uid = m3m[m].uid
           /\ m3m[m].host \in Hosts /\ m3m[m].uid \in Nat
<1>1. m3m[m] \in M3M /\ m3m[m].life # "new"
  BY DEF TypeOK, MachinesKeepHosts
<1>2. Same(m) \/ Released(m)
  BY <1>1 DEF MachineStep, Provisioned
<1>3. QED
  BY <1>1, <1>2, NodesAssumption DEF Same, Released, M3M, Epochs

\* What writing a providerID does to a Node.
LEMMA ProvidedFields ==
    ASSUME TypeOK, NEW n \in Names, Provided(n)
    PROVE  /\ node'[n].exists = node[n].exists /\ node'[n].host = node[n].host
           /\ node'[n].uid = node[n].uid /\ node'[n].runs = node[n].runs
           /\ node'[n].pid = [host |-> node[n].host, machine |-> node[n].runs]
           /\ node'[n].pid.host = node[n].host
           /\ node'[n].pid.machine = node[n].runs
<1>1. node[n] \in Node
  BY DEF TypeOK
<1>2. node'[n] = [node[n] EXCEPT !.pid = [host |-> node[n].host,
                                          machine |-> node[n].runs]]
  BY DEF Provided
<1>3. QED
  BY <1>1, <1>2 DEF Node

LEMMA PatchedFields ==
    ASSUME TypeOK, NEW n \in Names, NEW m \in Machines, Patched(m, n)
    PROVE  /\ node'[n].exists = node[n].exists /\ node'[n].host = node[n].host
           /\ node'[n].uid = node[n].uid /\ node'[n].runs = node[n].runs
           /\ node'[n].pid = getProviderID(m, mem[m].host)
<1>1. node[n] \in Node
  BY DEF TypeOK
<1>2. node'[n] = [node[n] EXCEPT !.pid = getProviderID(m, mem[m].host)]
  BY DEF Patched
<1>3. QED
  BY <1>1, <1>2 DEF Node

LEMMA NewFields ==
    /\ ~NoNode.exists /\ NoNode.pid = None
    /\ \A h \in Hosts, m \in Machines : [host |-> h, machine |-> m] # None
<1>1. ~NoNode.exists /\ NoNode.pid = None
  BY DEF NoNode
<1>2. ASSUME NEW h \in Hosts, NEW m \in Machines
      PROVE  [host |-> h, machine |-> m] \in [host : Hosts, machine : Machines]
  OBVIOUS
<1>3. QED
  BY <1>1, <1>2, NodesAssumption

\* A worker that patches a Node has a host for it.
LEMMA WorkerHost ==
    ASSUME TypeOK, MachinesKeepHosts, NEW m \in Machines, pc[m] # "idle"
    PROVE  /\ Live(m) /\ mem[m].host = m3m[m].host /\ m3m[m].host \in Hosts
           /\ m3m[m].host # None
           /\ getProviderID(m, mem[m].host) # None
           /\ getProviderID(m, mem[m].host).host = m3m[m].host
           /\ getProviderID(m, mem[m].host).machine = m
<1>1. Live(m) /\ mem[m].host = m3m[m].host /\ m3m[m].host # None
  BY DEF MachinesKeepHosts, Live
<1>2. m3m[m].host \in Hosts
  BY <1>1 DEF TypeOK, M3M
<1>3. QED
  BY <1>1, <1>2, NewFields DEF getProviderID

LEMMA NamedKept ==
    ASSUME TypeOK, TypeOK', MachinesKeepHosts, NodesAreNamed, MachineStep,
           NodeStep
    PROVE  NodesAreNamed'
<1> SUFFICES ASSUME NEW n \in Names PROVE NodeIsNamed(n)'
  BY DEF NodesAreNamed
<1> USE DEF NodeIsNamed
<1>0. /\ node[n] \in Node /\ mode' = mode /\ None \notin Hosts
      /\ n \in Machines => n \notin Hosts
  BY NodesAssumption DEF TypeOK, MachineStep
<1>1. NodeIsNamed(n)
  BY DEF NodesAreNamed
<1>2. HostOf(n) # None => /\ HostOf(n)' = HostOf(n)
                          /\ n \in Machines => m3m'[n].uid = m3m[n].uid
  BY <1>0, HostStays DEF HostOf, Names
<1>3. CASE Touched(n)
  BY <1>0, <1>1, <1>2, <1>3 DEF Touched
<1>4. CASE node'[n] = NoNode
  BY <1>4, NewFields
<1>5. CASE Provided(n)
  <2>1. /\ node'[n].exists = node[n].exists /\ node'[n].host = node[n].host
        /\ node'[n].uid = node[n].uid /\ node'[n].runs = node[n].runs
        /\ node'[n].pid = [host |-> node[n].host, machine |-> node[n].runs]
        /\ node[n].exists /\ node[n].runs \in Machines
    BY <1>5, ProvidedFields DEF Provided
  <2>2. node[n].host \in Hosts
    BY <1>1, <2>1, <1>0 DEF Node
  <2>3. node'[n].pid # None
    BY <2>1, <2>2, NewFields
  <2>4. QED
    BY <1>0, <1>1, <1>2, <2>1, <2>3
<1>6. ASSUME NEW m \in Machines, Joined(m, n) PROVE NodeIsNamed(n)'
  <2>1. /\ m3m[m].host # None /\ m3m[m].host \in Hosts /\ m3m' = m3m
        /\ n = NodeName(m, m3m[m].host) /\ node'[n].exists
        /\ node'[n].runs = m
    BY <1>6 DEF Joined, Live, MachinesKeepHosts, TypeOK, M3M
  <2>2. HostOf(n)' = m3m[m].host /\ (mode.byMachine <=> n = m)
    BY <1>0, <2>1, NodesAssumption DEF HostOf, NodeName
  <2>3. CASE node[n].exists
    BY <1>0, <1>1, <1>2, <1>6, <2>1, <2>2, <2>3 DEF Joined
  <2>4. CASE ~node[n].exists
    BY <1>0, <1>6, <2>1, <2>2, <2>4, NewFields DEF Joined, NodeName
  <2>5. QED
    BY <2>3, <2>4
<1>7. ASSUME NEW m \in Machines, Patched(m, n) PROVE NodeIsNamed(n)'
  <2>1. /\ node'[n].exists = node[n].exists /\ node'[n].host = node[n].host
        /\ node'[n].uid = node[n].uid /\ node'[n].runs = node[n].runs
        /\ node'[n].pid = getProviderID(m, mem[m].host) /\ node[n].exists
    BY <1>7, PatchedFields DEF Patched
  <2>2. node'[n].pid # None
    BY <1>7, <2>1, WorkerHost DEF Patched
  <2>3. QED
    BY <1>0, <1>1, <1>2, <2>1, <2>2
<1>8. QED
  BY <1>3, <1>4, <1>5, <1>6, <1>7 DEF NodeStep

\* Where a Node's providerID can come from.
LEMMA PidOrigins ==
    ASSUME TypeOK, NodeStep, NEW n \in Names, node'[n].pid # None
    PROVE  \/ /\ node'[n].pid = node[n].pid
              /\ node'[n].host = node[n].host
           \/ Provided(n)
           \/ \E m \in Machines :
                \/ Patched(m, n)
                \/ /\ Joined(m, n) /\ mode.pid
                   /\ node'[n].host = m3m[m].host
                   /\ node'[n].pid = [host |-> m3m[m].host, machine |-> m]
<1>1. CASE Touched(n)
  BY <1>1 DEF Touched
<1>2. CASE node'[n] = NoNode
  BY <1>2, NewFields
<1>3. ASSUME NEW m \in Machines, Joined(m, n), node'[n].pid # node[n].pid
      PROVE  /\ mode.pid /\ node'[n].host = m3m[m].host
             /\ node'[n].pid = [host |-> m3m[m].host, machine |-> m]
  BY <1>3 DEF Joined
<1>4. ASSUME NEW m \in Machines, Joined(m, n), node'[n].pid = node[n].pid
      PROVE  \/ node'[n].host = node[n].host
             \/ /\ mode.pid /\ node'[n].host = m3m[m].host
                /\ node'[n].pid = [host |-> m3m[m].host, machine |-> m]
  BY <1>4 DEF Joined
<1>5. QED
  BY <1>1, <1>2, <1>3, <1>4 DEF NodeStep

\* A Node with a providerID is there, and on the host of its name.
LEMMA PidHasNode ==
    ASSUME NodesAreNamed, NEW n \in Names, node[n].pid # None
    PROVE  /\ node[n].exists /\ NodeIsNamed(n)
           /\ n \in (IF mode.byMachine THEN Machines ELSE Hosts)
           /\ HostOf(n) # None /\ node[n].host = HostOf(n)
  BY NewFields DEF NodesAreNamed, NodeIsNamed

\* The patch of a Node named after a machine.
LEMMA PatchOfMachine ==
    ASSUME TypeOK, MachinesKeepHosts, NodesAreNamed, TargetIsOwn,
           NEW n \in Names, NEW m \in Machines, Patched(m, n)
    PROVE  /\ node[n].exists /\ node[n].host = HostOf(n)
           /\ HostOf(n) = m3m[m].host /\ m3m[m].host # None
           /\ node'[n].pid.host = m3m[m].host /\ node'[n].pid.machine = m
           /\ mode.byMachine =>
                /\ ~mode.pid /\ ~mode.cloud /\ mode.label
                /\ n \in Machines /\ m3m[n].uid = epoch
                /\ \A o \in Names : node[o].pid # node'[n].pid
<1>1. pc[m] # "idle" /\ target[m] = n /\ node[n].exists
  BY DEF Patched
<1>2. node'[n].pid = getProviderID(m, mem[m].host)
  BY PatchedFields
<1>3. HostOf(n) = mem[m].host
  BY <1>1 DEF Patched, TargetIsOwn
<1>4. mode.byMachine => pc[m] = "labelPatch"
  BY DEF Patched, TargetIsOwn
<1>5. mode.byMachine =>
         /\ ~mode.pid /\ ~mode.cloud /\ mode.label
         /\ n \in Machines /\ m3m[n].uid = epoch
         /\ \A o \in Names : node[o].pid # getProviderID(m, mem[m].host)
  BY <1>1, <1>4 DEF TargetIsOwn, MachinesKeepHosts
<1>6. QED
  BY <1>1, <1>2, <1>3, <1>5, WorkerHost DEF NodesAreNamed, NodeIsNamed

LEMMA PidHostKept ==
    ASSUME TypeOK, MachinesKeepHosts, NodesAreNamed, TargetIsOwn, NodeStep,
           PidNamesItsHost
    PROVE  PidNamesItsHost'
<1> SUFFICES ASSUME NEW n \in Names, node'[n].pid # None
             PROVE  node'[n].pid.host = node'[n].host
  BY DEF PidNamesItsHost
<1>1. CASE node'[n].pid = node[n].pid /\ node'[n].host = node[n].host
  BY <1>1 DEF PidNamesItsHost
<1>2. CASE Provided(n)
  BY <1>2, ProvidedFields
<1>3. ASSUME NEW m \in Machines, Patched(m, n)
      PROVE  node'[n].pid.host = node'[n].host
  BY <1>3, PatchOfMachine, PatchedFields
<1>4. ASSUME NEW m \in Machines, node'[n].host = m3m[m].host,
             node'[n].pid = [host |-> m3m[m].host, machine |-> m]
      PROVE  node'[n].pid.host = node'[n].host
  BY <1>4
<1>5. QED
  BY <1>1, <1>2, <1>3, <1>4, PidOrigins

LEMMA GivenKept ==
    ASSUME TypeOK, MachinesKeepHosts, NodesAreNamed, TargetIsOwn, MachineStep,
           NodeStep, GivenNamesMachine
    PROVE  GivenNamesMachine'
<1> SUFFICES ASSUME mode.byMachine, mode.pid \/ mode.cloud,
                    NEW n \in Machines, node'[n].pid # None
             PROVE  node'[n].pid.machine = n
  BY DEF GivenNamesMachine, MachineStep
<1>0. n \in Names
  BY DEF Names
<1>1. CASE node'[n].pid = node[n].pid
  BY <1>1 DEF GivenNamesMachine
<1>2. CASE Provided(n)
  <2>1. node[n].runs = n
    BY <1>0, <1>2, NodesAssumption
       DEF Provided, NodesAreNamed, NodeIsNamed
  <2>2. QED
    BY <1>0, <1>2, <2>1, ProvidedFields
<1>3. ASSUME NEW m \in Machines, Patched(m, n) PROVE FALSE
  BY <1>0, <1>3, PatchOfMachine
<1>4. ASSUME NEW m \in Machines, Joined(m, n),
             node'[n].pid = [host |-> m3m[m].host, machine |-> m]
      PROVE  node'[n].pid.machine = n
  BY <1>4 DEF Joined, NodeName
<1>5. QED
  BY <1>0, <1>1, <1>2, <1>3, <1>4, PidOrigins

LEMMA RecentKept ==
    ASSUME TypeOK, MachinesKeepHosts, NodesAreNamed, TargetIsOwn, MachineStep,
           NodeStep, FoundIsRecent
    PROVE  FoundIsRecent'
<1> SUFFICES ASSUME mode.byMachine, ~mode.pid, ~mode.cloud,
                    NEW n \in Machines, NEW m \in Machines,
                    node'[n].pid # None, node'[n].pid.machine = m
             PROVE  mode.label /\ m3m'[n].uid >= m3m'[m].uid
                    /\ m3m'[m].host = node'[n].host
  BY DEF FoundIsRecent, MachineStep
<1>0. n \in Names /\ n \notin Hosts
  BY NodesAssumption DEF Names
<1>1. CASE node'[n].pid = node[n].pid /\ node'[n].host = node[n].host
  <2>1. /\ mode.label /\ m3m[n].uid >= m3m[m].uid
        /\ m3m[m].host = node[n].host
    BY <1>1 DEF FoundIsRecent
  <2>2. m3m[n].host # None /\ node[n].host = m3m[n].host
    BY <1>0, <1>1, PidHasNode DEF HostOf
  <2>3. QED
    BY <1>1, <2>1, <2>2, HostStays
<1>2. ASSUME NEW o \in Machines, Patched(o, n)
      PROVE  mode.label /\ m3m'[n].uid >= m3m'[m].uid
             /\ m3m'[m].host = node'[n].host
  <2>1. /\ o = m /\ mode.label /\ m3m[n].uid = epoch
        /\ node[n].host = m3m[m].host
    BY <1>0, <1>2, PatchOfMachine
  <2>2. m3m' = m3m /\ node'[n].host = node[n].host
    BY <1>0, <1>2, PatchedFields DEF Patched
  <2>3. epoch >= m3m[m].uid
    BY NodesAssumption DEF MachinesKeepHosts, TypeOK, M3M, Epochs
  <2>4. QED
    BY <2>1, <2>2, <2>3
<1>3. QED
  BY <1>0, <1>1, <1>2, PidOrigins DEF Provided

LEMMA UniqueKept ==
    ASSUME TypeOK, MachinesKeepHosts, NodesAreNamed, TargetIsOwn, MachineStep,
           NodeStep, PidUnique,
           NodesAreNamed', PidNamesItsHost', GivenNamesMachine'
    PROVE  PidUnique'
<1> SUFFICES ASSUME NEW n1 \in Names, NEW n2 \in Names, n1 # n2,
                    node'[n1].pid # None, node'[n1].pid = node'[n2].pid
             PROVE  FALSE
  BY DEF PidUnique
<1>0. mode' = mode
  BY DEF MachineStep
<1>1. /\ n1 \in (IF mode.byMachine THEN Machines ELSE Hosts)
      /\ n2 \in (IF mode.byMachine THEN Machines ELSE Hosts)
      /\ node'[n1].host = HostOf(n1)' /\ node'[n2].host = HostOf(n2)'
  BY <1>0, NewFields DEF NodesAreNamed, NodeIsNamed
<1>2. CASE ~mode.byMachine
  BY <1>1, <1>2 DEF PidNamesItsHost, HostOf
<1>3. CASE mode.byMachine /\ (mode.pid \/ mode.cloud)
  BY <1>0, <1>1, <1>3 DEF GivenNamesMachine
<1>4. CASE mode.byMachine /\ ~mode.pid /\ ~mode.cloud
  <2>1. \A n \in Names : node'[n].pid # None =>
          \/ node'[n].pid = node[n].pid
          \/ \E m \in Machines : Patched(m, n)
    BY <1>4, PidOrigins DEF Provided
  <2>2. ASSUME NEW a \in Names, NEW b \in Names, a # b,
               NEW m \in Machines, Patched(m, a), node'[a].pid = node'[b].pid
        PROVE  FALSE
    <3>1. node'[b] = node[b]
      BY <2>2 DEF Patched, Others
    <3>2. node[b].pid # node'[a].pid
      BY <1>4, <2>2, PatchOfMachine
    <3>3. QED
      BY <2>2, <3>1, <3>2
  <2>3. QED
    BY <2>1, <2>2 DEF PidUnique
<1>5. QED
  BY <1>2, <1>3, <1>4

\* A worker that finds the one Node with its host's label finds the newest
\* machine's of this host: a Node with the providerID would have the label too.
LEMMA LabelFindsOwn ==
    ASSUME TypeOK, MachinesKeepHosts, HostsInTurn, NodesAreNamed,
           FoundIsRecent, NEW m \in Machines, NEW t, pc[m] = "label",
           getNodesWithLabel(mem[m].host) = {t}, node[t].pid = None
    PROVE  /\ t \in Names /\ HostOf(t) = mem[m].host
           /\ mode.byMachine =>
                /\ ~mode.pid /\ mode.label /\ t \in Machines
                /\ m3m[t].uid = epoch
                /\ \A n \in Names : node[n].pid # getProviderID(m, mem[m].host)
<1> DEFINE h == mem[m].host
<1>1. /\ Live(m) /\ h = m3m[m].host /\ h # None
      /\ getProviderID(m, h) # None /\ getProviderID(m, h).machine = m
  BY WorkerHost
<1>2. /\ t \in Names /\ node[t].exists /\ node[t].host = h
      /\ node[t].uid = epoch
  BY DEF getNodesWithLabel
<1>3. NodeIsNamed(t) /\ HostOf(t) = h
  BY <1>2 DEF NodesAreNamed, NodeIsNamed
<1>4. ASSUME mode.byMachine
      PROVE  ~mode.pid /\ mode.label /\ t \in Machines /\ m3m[t].uid = epoch
  <2>1. epoch # None
    BY NodesAssumption DEF TypeOK, Epochs
  <2>2. QED
    BY <1>2, <1>3, <1>4, <2>1 DEF NodeIsNamed
<1>5. ASSUME mode.byMachine, NEW n \in Names, node[n].pid = getProviderID(m, h)
      PROVE  FALSE
  <2>1. ~mode.cloud
    BY DEF MachinesKeepHosts
  <2>2. /\ n \in Machines /\ node[n].exists /\ NodeIsNamed(n)
    BY <1>1, <1>5, PidHasNode
  <2>3. m3m[n].uid >= m3m[m].uid /\ node[n].host = h
    BY <1>1, <1>4, <1>5, <2>1, <2>2 DEF FoundIsRecent
  <2>4. m3m[m].uid >= epoch
    <3>1. m3m[t].host = m3m[m].host
      BY <1>1, <1>3, <1>4, <1>5, NodesAssumption DEF HostOf
    <3>2. /\ m3m[t].uid \in Nat /\ m3m[m].uid \in Nat
      BY <1>4, <1>5, NodesAssumption DEF TypeOK, M3M, Epochs
    <3>3. t # m => m3m[t].uid <= m3m[m].uid
      BY <1>1, <1>4, <1>5, <3>1 DEF HostsInTurn
    <3>4. QED
      BY <1>4, <1>5, <3>2, <3>3
  <2>5. m3m[n].uid = epoch
    <3>1. m3m[n].uid \in Nat /\ epoch \in Nat /\ m3m[m].uid \in Nat
      BY <2>2, NodesAssumption DEF TypeOK, M3M, Epochs
    <3>2. m3m[n].uid <= epoch
      BY <2>2 DEF MachinesKeepHosts
    <3>3. QED
      BY <2>3, <2>4, <3>1, <3>2
  <2>6. node[n].uid = epoch
    BY <1>4, <1>5, <2>2, <2>5 DEF NodeIsNamed
  <2>7. n = t
    BY <2>2, <2>3, <2>6 DEF getNodesWithLabel
  <2>8. QED
    BY <1>1, <1>5, <2>7
<1>6. QED
  BY <1>2, <1>3, <1>4, <1>5

LEMMA TargetKept ==
    ASSUME TypeOK, TypeOK', MachinesKeepHosts, HostsInTurn, NodesAreNamed,
           FoundIsRecent, TargetIsOwn, MachineStep, NodeStep
    PROVE  TargetIsOwn'
<1> SUFFICES ASSUME NEW m \in Machines, pc'[m] \in {"labelPatch", "hostPatch"}
             PROVE  (/\ target[m] \in Names /\ HostOf(target[m]) = mem[m].host
                     /\ pc[m] = "hostPatch" => ~mode.byMachine
                     /\ pc[m] = "labelPatch" /\ mode.byMachine =>
                        /\ ~mode.pid /\ mode.label /\ target[m] \in Machines
                        /\ m3m[target[m]].uid = epoch
                        /\ \A n \in Names :
                             node[n].pid # getProviderID(m, mem[m].host))'
  BY DEF TargetIsOwn
<1>0. mode' = mode /\ epoch' = epoch
  BY DEF MachineStep
<1>1. CASE Found(m)
  <2>0. UNCHANGED <<node, m3m, epoch>> /\ mem'[m].host = mem[m].host
    BY <1>1 DEF Found
  <2>1. \A n : HostOf(n)' = HostOf(n)
    BY <2>0 DEF HostOf
  <2>2. CASE pc[m] = "label" /\ pc'[m] = "labelPatch"
    <3>1. /\ getNodesWithLabel(mem[m].host) = {target'[m]}
          /\ node[target'[m]].pid = None
      BY <1>1, <2>2 DEF Found
    <3> DEFINE t == target'[m]
    <3>2. /\ t \in Names /\ HostOf(t) = mem[m].host
          /\ mode.byMachine =>
               /\ ~mode.pid /\ mode.label /\ t \in Machines
               /\ m3m[t].uid = epoch
               /\ \A n \in Names : node[n].pid # getProviderID(m, mem[m].host)
      BY <2>2, <3>1, LabelFindsOwn
    <3>3. getProviderID(m, mem[m].host)' = getProviderID(m, mem[m].host)
      BY <2>0 DEF getProviderID
    <3>4. HostOf(target[m])' = HostOf(t)
      BY <2>0 DEF HostOf
    <3>5. QED
      BY <1>0, <2>0, <2>2, <3>2, <3>3, <3>4
  <2>3. CASE pc[m] = "hostname" /\ pc'[m] = "hostPatch"
    <3>1. /\ target'[m] = mem[m].host /\ target'[m] \in Names
          /\ node[target'[m]].exists
      BY <1>1, <2>3 DEF Found
    <3>2. target'[m] \in Hosts
      BY <2>3, <3>1, WorkerHost
    <3>3. ~mode.byMachine
      BY <3>1, <3>2, NodesAssumption DEF NodesAreNamed, NodeIsNamed
    <3>4. HostOf(target[m])' = target'[m]
      BY <3>2 DEF HostOf
    <3>5. QED
      BY <1>0, <2>0, <2>3, <3>1, <3>3, <3>4
  <2>4. QED
    BY <1>1, <2>2, <2>3 DEF Found
<1>2. CASE pc'[m] = pc[m] /\ mem'[m] = mem[m] /\ target'[m] = target[m]
  <2>1. /\ target[m] \in Names /\ HostOf(target[m]) = mem[m].host
        /\ pc[m] = "hostPatch" => ~mode.byMachine
        /\ pc[m] = "labelPatch" /\ mode.byMachine =>
             /\ ~mode.pid /\ mode.label /\ target[m] \in Machines
             /\ m3m[target[m]].uid = epoch
             /\ \A n \in Names : node[n].pid # getProviderID(m, mem[m].host)
    BY <1>2 DEF TargetIsOwn
  <2>2. /\ mem[m].host # None /\ getProviderID(m, mem[m].host) # None
        /\ getProviderID(m, mem[m].host).machine = m
    BY <1>2, WorkerHost
  <2>3. /\ HostOf(target[m])' = HostOf(target[m])
        /\ target[m] \in Machines => m3m'[target[m]].uid = m3m[target[m]].uid
    <3>1. CASE target[m] \in Hosts
      BY <1>2, <3>1, NodesAssumption DEF HostOf
    <3>2. CASE target[m] \in Machines /\ target[m] \notin Hosts
      BY <1>2, <2>1, <2>2, <3>2, HostStays DEF HostOf
    <3>3. QED
      BY <2>1, <3>1, <3>2 DEF Names
  <2>4. ASSUME pc[m] = "labelPatch", mode.byMachine, NEW n \in Names,
               node'[n].pid = getProviderID(m, mem[m].host)
        PROVE  FALSE
    <3>1. ~mode.cloud /\ ~mode.pid
      BY <2>1, <2>4 DEF MachinesKeepHosts
    <3>2. node'[n].pid # node[n].pid
      BY <2>1, <2>4
    <3>3. PICK o \in Machines : Patched(o, n)
      BY <2>2, <2>4, <3>1, <3>2, PidOrigins DEF Provided
    <3>4. o = m
      BY <2>2, <2>4, <3>3, PatchOfMachine
    <3>5. QED
      BY <1>2, <2>4, <3>3, <3>4 DEF Patched
  <2>5. getProviderID(m, mem[m].host)' = getProviderID(m, mem[m].host)
    BY <1>2 DEF getProviderID
  <2>6. QED
    BY <1>0, <1>2, <2>1, <2>3, <2>4, <2>5
<1>3. QED
  BY <1>1, <1>2 DEF NodeStep

LEMMA ReadKept ==
    ASSUME TypeOK, SyncHasRead, [Next]_vars
    PROVE  SyncHasRead'
<1> SUFFICES ASSUME NEW g \in Hosts, syncPc'[g] = "update"
             PROVE  syncNode'[g].exists
  BY DEF SyncHasRead
<1>1. CASE syncPc'[g] = syncPc[g] /\ syncNode'[g] = syncNode[g]
  BY <1>1 DEF SyncHasRead
<1>2. ASSUME NEW h \in Hosts, SyncLabels(h) PROVE syncNode'[g].exists
  <2>1. CASE SyncRead(h)
    BY <2>1, <1>1 DEF SyncRead, TypeOK
  <2>2. ASSUME NEW ok \in BOOLEAN, SyncUpdateNode(h, ok)
        PROVE  syncNode'[g].exists
    BY <2>2, <1>1 DEF SyncUpdateNode, TypeOK
  <2>3. QED
    BY <1>2, <2>1, <2>2 DEF SyncLabels
<1>3. CASE Crash
  BY <1>3 DEF Crash
<1>4. CASE UNCHANGED syncVars
  BY <1>1, <1>4 DEF syncVars
<1>5. ASSUME NEW m \in Machines, Reconcile(m) PROVE UNCHANGED syncVars
  BY <1>5 DEF Reconcile, NodeWithMatchingProviderIDExists, worker,
     SetProviderIDFromCloudProviderNode, SetProviderIDFromNodeLabel,
     PatchLabelledNode, SetNodeProviderIDByHostname, PatchNamedNode, Save
<1>6. QED
  BY <1>2, <1>3, <1>4, <1>5
     DEF Next, Release, InformerSync, Join, SetNodeRef, Provision,
         CloudProvider, DeleteNode, Move, Edit, vars, syncVars

LEMMA NodesInit == Init => NodesInv
<1> SUFFICES ASSUME Init PROVE NodesInv
  OBVIOUS
<1>1. /\ \A m \in Machines : /\ m3m[m] = NewM3M /\ cache[m] = NewM3M
                             /\ mem[m] = NewM3M /\ pc[m] = "idle"
      /\ \A n \in Names : node[n] = NoNode
      /\ \A h \in Hosts : syncPc[h] = "idle"
      /\ epoch = 0
  BY DEF Init
<1>2. TypeOK
  BY TypeInit
<1>3. MachinesKeepHosts
  BY <1>1 DEF MachinesKeepHosts, CopyIsTrue, NewM3M
<1>4. HostsInTurn
  BY <1>1 DEF HostsInTurn, Live, NewM3M
<1>5. NodesAreNamed /\ PidIdentifiesNode
  BY <1>1, NewFields
     DEF NodesAreNamed, NodeIsNamed, PidIdentifiesNode, PidNamesItsHost,
         PidUnique
<1>6. GivenNamesMachine /\ FoundIsRecent
  BY <1>1, NewFields DEF GivenNamesMachine, FoundIsRecent, Names
<1>7. TargetIsOwn /\ SyncHasRead
  BY <1>1 DEF TargetIsOwn, SyncHasRead
<1>8. QED
  BY <1>2, <1>3, <1>4, <1>5, <1>6, <1>7 DEF NodesInv

LEMMA NodesStep == NodesInv /\ [Next]_vars => NodesInv'
<1> SUFFICES ASSUME NodesInv, [Next]_vars PROVE NodesInv'
  OBVIOUS
<1> USE DEF NodesInv
<1>1. TypeOK' /\ SyncHasRead'
  BY TypeStep, ReadKept
<1>2. MachineStep /\ NodeStep
  BY StepOfMachines, StepOfNodes
<1>3. MachinesKeepHosts' /\ HostsInTurn'
  BY <1>1, <1>2, MachinesKept, TurnsKept
<1>4. NodesAreNamed' /\ PidNamesItsHost' /\ GivenNamesMachine'
  BY <1>1, <1>2, NamedKept, PidHostKept, GivenKept DEF PidIdentifiesNode
<1>5. PidUnique' /\ FoundIsRecent' /\ TargetIsOwn'
  BY <1>1, <1>2, <1>4, UniqueKept, RecentKept, TargetKept
     DEF PidIdentifiesNode
<1>6. QED
  BY <1>1, <1>3, <1>4, <1>5 DEF PidIdentifiesNode

----------------------------------------------------------------------------
(* Theorems. *)

\* Whatever the workers, kubelets, the cloud provider and the user do to
\* machines and Nodes, in every mode, each object keeps its shape.
THEOREM NodesTypes == Spec => []TypeOK
<1>1. NodesInv => TypeOK
  BY DEF NodesInv
<1>2. QED
  BY <1>1, NodesInit, NodesStep, PTL DEF Spec

\* In every way a cluster can be set up, and although the controller patches a
\* Node it listed some time ago (SetProviderIDFromNodeLabel and
\* SetNodeProviderIDByHostname), no two Nodes ever carry the same providerID
\* and each names the host its Node runs on.
THEOREM PidIdentifies == Spec => []PidIdentifiesNode
<1>1. NodesInv => PidIdentifiesNode
  BY DEF NodesInv
<1>2. QED
  BY <1>1, NodesInit, NodesStep, PTL DEF Spec

\* The label sync controller writes a whole Node back under the resource
\* version it read: nothing another writer did to a Node meanwhile is undone.
THEOREM SyncIsHarmless == Spec => SyncOnlyTouchesItsLabels
<1> DEFINE A == \A h \in Hosts : syncPc[h] = "update" /\ syncPc'[h] = "idle" =>
                  \A n \in Names : node'[n] = [node[n] EXCEPT
                                                 !.synced = node'[n].synced]
<1>1. NodesInv /\ [Next]_vars => [A]_vars
  <2> SUFFICES ASSUME NodesInv, [Next]_vars,
                      NEW g \in Hosts, syncPc[g] = "update", syncPc'[g] = "idle",
                      NEW n \in Names
               PROVE  node'[n] = [node[n] EXCEPT !.synced = node'[n].synced]
    OBVIOUS
  <2>0. /\ node \in [Names -> Node] /\ node[n] \in Node
        /\ syncPc \in [Hosts -> {"idle", "update"}]
    BY DEF NodesInv, TypeOK
  <2>1. CASE node'[n] = node[n]
    BY <2>0, <2>1 DEF Node
  <2>2. ASSUME NEW h \in Hosts, SyncLabels(h)
        PROVE  node'[n] = [node[n] EXCEPT !.synced = node'[n].synced]
    <3>1. CASE SyncRead(h)
      BY <2>1, <3>1 DEF SyncRead
    <3>2. ASSUME NEW ok \in BOOLEAN, SyncUpdateNode(h, ok)
          PROVE  node'[n] = [node[n] EXCEPT !.synced = node'[n].synced]
      <4>1. \/ node'[n] = node[n]
            \/ node'[n] = [node[n] EXCEPT !.synced = syncSet[h].label]
        BY <2>0, <3>2 DEF SyncUpdateNode, synchronizeLabelSyncSetsOnNode
      <4>2. CASE node'[n] = [node[n] EXCEPT !.synced = syncSet[h].label]
        BY <2>0, <4>2 DEF Node
      <4>3. QED
        BY <4>1, <4>2, <2>1
    <3>3. QED
      BY <2>2, <3>1, <3>2 DEF SyncLabels
  <2>3. CASE Crash
    BY <2>1, <2>3 DEF Crash
  <2>4. CASE UNCHANGED syncVars
    BY <2>4 DEF syncVars
  <2>5. ASSUME NEW m \in Machines, Reconcile(m) PROVE UNCHANGED syncVars
    BY <2>5 DEF Reconcile, NodeWithMatchingProviderIDExists, worker,
       SetProviderIDFromCloudProviderNode, SetProviderIDFromNodeLabel,
       PatchLabelledNode, SetNodeProviderIDByHostname, PatchNamedNode, Save
  <2>6. QED
    BY <2>2, <2>3, <2>4, <2>5
       DEF Next, Release, InformerSync, Join, SetNodeRef, Provision,
           CloudProvider, DeleteNode, Move, Edit, vars, syncVars
<1>2. QED
  BY <1>1, NodesInit, NodesStep, PTL DEF Spec, SyncOnlyTouchesItsLabels

============================================================================
