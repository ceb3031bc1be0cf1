--------------------------- MODULE Metal3Machine ---------------------------
(***************************************************************************)
(* The Metal3Machine controller and the BareMetalHosts it associates,      *)
(* provisions and releases.                                                *)
(*                                                                         *)
(* One worker per Metal3Machine (controller-runtime never reconciles one   *)
(* key twice at a time, and different keys in parallel).  A reconcile is   *)
(* cut at its API calls: each step below performs one read or one write,   *)
(* so that other workers, the BareMetalHost operator, the user and crashes *)
(* can act in between.                                                     *)
(*                                                                         *)
(*  - Metal3Machines are read from the informer cache ("cache"), which     *)
(*    lags behind the API server ("m3m"); BareMetalHosts and Secrets are   *)
(*    read live (main.go disables the cache for them).                     *)
(*  - Objects are written with merge patches: only the fields that differ  *)
(*    from the copy that was read are sent, with no resource version.      *)
(*  - The deferred patch of the Metal3Machine is two calls: metadata and   *)
(*    spec, then status.                                                   *)
(*                                                                         *)
(* Abstractions: one namespace and one cluster; metaData and networkData   *)
(* are treated alike and kept as one field; an image, userData or metaData *)
(* reference is identified with the machine it belongs to; Image and       *)
(* CustomDeploy are one field; BMO's states are grouped by how the code    *)
(* tells them apart and hosts are not externally provisioned; node and     *)
(* providerID look-ups, and whether a ready machine has its NodeRef yet,   *)
(* are choices; conditions, events, metrics and logs are left out, and so  *)
(* are pausing and a Cluster whose infrastructure is not ready, which      *)
(* module Cluster has; the controllers behind a Metal3DataClaim are in     *)
(* module DataTemplate and appear here as one step.                        *)
(***************************************************************************)
EXTENDS Naturals, FiniteSets

CONSTANTS Machines,      \* names of Metal3Machines
          Hosts,         \* names of BareMetalHosts
          Deployments,   \* MachineDeployments and control planes
          None,          \* "nil"
          ClusterRef,    \* a ConsumerRef of kind Cluster
          Deployment,    \* the owner of each machine
          Selected,      \* the hosts that match each machine's hostSelector
          Domain,        \* the hosts in each machine's failureDomain
          Templated,     \* machines with spec.dataTemplate
          UserMeta,      \* machines with spec.metaData given by the user
          NodeReuse,     \* deployments whose template has nodeReuse
          KeepOnline,    \* hosts DisablePowerOff or fast track keep online
          HostChurn,     \* hosts the user may delete and enrol again
          HostsDegrade,  \* hosts may get an error, pause or unhealthy mark
          MaxFaults      \* bound on crashes and failed API calls

ASSUME NoneAssumption ==
    /\ None \notin Machines \cup Hosts \cup Deployments
    /\ ClusterRef \notin Machines \cup {None}
ASSUME ConfigAssumption ==
    /\ Deployment \in [Machines -> Deployments]
    /\ Selected \in [Machines -> SUBSET Hosts]
    /\ Domain \in [Machines -> SUBSET Hosts]
    /\ Templated \subseteq Machines
    /\ UserMeta \subseteq Machines \ Templated
    /\ NodeReuse \subseteq Deployments
    /\ KeepOnline \subseteq Hosts
    /\ HostChurn \subseteq Hosts
    /\ HostsDegrade \in BOOLEAN
    /\ MaxFaults \in Nat

VARIABLES m3m,        \* Metal3Machines on the API server
          cache,      \* the informer's copy of them
          bmh,        \* BareMetalHosts on the API server
          bmcSecret,  \* hosts whose BMC Secret carries the cluster label
          claim,      \* the Metal3DataClaim of each machine
          bootstrap,  \* machines whose bootstrap data is ready
          pc,         \* the next API call of each machine's worker
          mem,        \* the worker's copy of its Metal3Machine
          base,       \* that copy as it was read
          host,       \* the BareMetalHost the worker read
          todo,       \* Update rounds left in this reconcile
          mutex,      \* holder of associateBMHMutex
          faults      \* faults so far

apiVars    == <<m3m, bmh, bmcSecret, claim>>
workerVars == <<pc, mem, base, host, todo>>
vars == <<m3m, cache, bmh, bmcSecret, claim, bootstrap, pc, mem, base, host,
          todo, mutex, faults>>

----------------------------------------------------------------------------
(* Objects. *)

Owner == Machines \cup {None}
Consumer == Machines \cup {None, ClusterRef}

\* exists, deletionTimestamp, MachineFinalizer, HostAnnotation, and in the
\* status: userData, metaData (with renderedData), provisioned.
M3M == [exists : BOOLEAN, del : BOOLEAN, fin : BOOLEAN,
        ann : Hosts \cup {None},
        ud : BOOLEAN, md : BOOLEAN, ready : BOOLEAN]

NewM3M  == [exists |-> TRUE, del |-> FALSE, fin |-> FALSE, ann |-> None,
            ud |-> FALSE, md |-> FALSE, ready |-> FALSE]
GoneM3M == [NewM3M EXCEPT !.exists = FALSE, !.del = TRUE]

\* Provisioning states, as far as chooseHost and Delete tell them apart.
\* "registering" stands for the states that are neither available nor
\* provisioned, "provisioning" for preparing too, "deleting" for the states
\* after the deletion of a BareMetalHost.
State == {"absent", "registering", "available", "provisioning",
          "provisioned", "deprovisioning", "deleting"}

\* img, ud, md: the machine whose image, userData, metaData the spec holds.
\* bad: ErrorMessage, or a paused or unhealthy annotation.
\* disk: the machine whose image runs on the host (BMO's view of it).
BMH == [st : State, del : BOOLEAN, consumer : Consumer,
        reuse : Deployments \cup {None},
        img : Owner, ud : Owner, md : Owner,
        online : BOOLEAN, bad : BOOLEAN, disk : Owner]

NewBMH  == [st |-> "registering", del |-> FALSE, consumer |-> None,
            reuse |-> None, img |-> None, ud |-> None, md |-> None,
            online |-> FALSE, bad |-> FALSE, disk |-> None]
GoneBMH == [NewBMH EXCEPT !.st = "absent"]

\* A BareMetalHost as a worker read it.
Snapshot == [name : Hosts \cup {None}, val : BMH]
NoSnapshot == [name |-> None, val |-> GoneBMH]

PC == {"idle", "lock", "choose", "assocPatch", "assocSecret",
       "claim", "updGet", "updPatch", "isProvisioned",
       "dissociate", "delGet", "delSecret", "delPatch",
       "patchMeta", "patchStatus"}

\* What the API server, the informer, the workers and the mutex can hold.
TypeOK ==
    /\ m3m \in [Machines -> M3M]
    /\ cache \in [Machines -> M3M]
    /\ bmh \in [Hosts -> BMH]
    /\ bmcSecret \subseteq Hosts
    /\ claim \in [Machines -> {"none", "new", "pending", "ready"}]
    /\ bootstrap \subseteq Machines
    /\ pc \in [Machines -> PC]
    /\ mem \in [Machines -> M3M]
    /\ base \in [Machines -> M3M]
    /\ host \in [Machines -> Snapshot]
    /\ todo \in [Machines -> 0..3]
    /\ mutex \in Machines \cup {None}
    /\ faults \in 0..MaxFaults

Init ==
    /\ m3m = [m \in Machines |-> NewM3M]
    /\ cache = m3m
    /\ bmh = [h \in Hosts |-> NewBMH]
    /\ bmcSecret = {}
    /\ claim = [m \in Machines |-> "none"]
    /\ bootstrap = {}
    /\ pc = [m \in Machines |-> "idle"]
    /\ mem = [m \in Machines |-> GoneM3M]
    /\ base = [m \in Machines |-> GoneM3M]
    /\ host = [m \in Machines |-> NoSnapshot]
    /\ todo = [m \in Machines |-> 0]
    /\ mutex = None
    /\ faults = 0

----------------------------------------------------------------------------
(* Merge patches: a field is sent when it differs from the copy read. *)

Sent(cur, old, new) == IF new # old THEN new ELSE cur

PatchBMH(cur, old, new) ==
    [cur EXCEPT !.consumer = Sent(@, old.consumer, new.consumer),
                !.reuse    = Sent(@, old.reuse, new.reuse),
                !.img      = Sent(@, old.img, new.img),
                !.ud       = Sent(@, old.ud, new.ud),
                !.md       = Sent(@, old.md, new.md),
                !.online   = Sent(@, old.online, new.online)]

\* The worker of m patches the host it read; a host that is gone is an error
\* its caller handles.
PatchHost(m, new) ==
    bmh' = [bmh EXCEPT ![host[m].name] =
                IF @.st = "absent" THEN @ ELSE PatchBMH(@, host[m].val, new)]

\* Removing the last finalizer of a deleted object removes the object.
PatchM3MMeta(cur, old, new) ==
    LET p == [cur EXCEPT !.fin = Sent(@, old.fin, new.fin),
                         !.ann = Sent(@, old.ann, new.ann)]
    IN  IF p.del /\ ~p.fin THEN GoneM3M ELSE p

PatchM3MStatus(cur, old, new) ==
    [cur EXCEPT !.ud    = Sent(@, old.ud, new.ud),
                !.md    = Sent(@, old.md, new.md),
                !.ready = Sent(@, old.ready, new.ready)]

----------------------------------------------------------------------------
(* Choosing a host. *)

Listed(m) == {h \in Selected[m] : bmh[h].st # "absent"}

consumerRefMatches(h, m) == bmh[h].consumer = m

Usable(h) == ~bmh[h].del /\ ~bmh[h].bad

\* Mutant: any node-reuse label will do.
ReuseHostsAnyLabel(m) == {h \in Listed(m) : bmh[h].reuse # None /\ Usable(h)}

\* availableHostsWithNodeReuse
ReuseHosts(m) == {h \in Listed(m) : bmh[h].reuse = Deployment[m] /\ Usable(h)}

\* availableHosts
FreeHosts(m) ==
    {h \in Listed(m) : /\ bmh[h].reuse = None
                       /\ bmh[h].consumer = None
                       /\ Usable(h)
                       /\ bmh[h].st = "available"}

\* The hosts pickHost may return: in the failure domain if there is one.
pickHost(m, hs) == IF hs \cap Domain[m] # {} THEN hs \cap Domain[m] ELSE hs

\* Mutant: a host that already names the machine is not looked for.
chooseHostForgetful(m) ==
    IF ReuseHosts(m) # {} THEN ReuseHosts(m) ELSE pickHost(m, FreeHosts(m))

\* The hosts chooseHost may return; none means that the machine is requeued.
chooseHost(m) ==
    LET mine == {h \in Listed(m) : consumerRefMatches(h, m)}
    IN  IF mine # {} THEN mine
        ELSE IF ReuseHosts(m) # {}
        THEN IF \A h \in ReuseHosts(m) : bmh[h].st = "available"
             THEN ReuseHosts(m) ELSE {}
        ELSE pickHost(m, FreeHosts(m))

----------------------------------------------------------------------------
(* What a worker writes into a host. *)

setHostConsumerRef(b, m) == [b EXCEPT !.consumer = m, !.reuse = None]

\* Mutant: a userData reference that is already there is kept.
setHostSpecKeepUserData(b, m, mm) ==
    IF b.img = None /\ mm.ud
    THEN [b EXCEPT !.img = m, !.ud = IF @ = None THEN m ELSE @,
                   !.md = IF mm.md THEN m ELSE @, !.online = TRUE]
    ELSE [b EXCEPT !.online = TRUE]

\* An image is only set on a host that has none, and not before the userData
\* is known; a metaData the machine does not have is left as it is.
setHostSpec(b, m, mm) ==
    IF b.img = None /\ mm.ud
    THEN [b EXCEPT !.img = m, !.ud = m, !.md = IF mm.md THEN m ELSE @,
                   !.online = TRUE]
    ELSE [b EXCEPT !.online = TRUE]

\* Mutant: the image is cleared under the same condition as the userData.
clearHostSpecKeepImage(b, h, mm) ==
    [b EXCEPT !.img = IF mm.ud THEN None ELSE @,
              !.ud = IF mm.ud THEN None ELSE @,
              !.md = IF mm.md THEN None ELSE @,
              !.online = h \in KeepOnline]

\* Delete, first part: deprovision the host.
clearHostSpec(b, h, mm) ==
    [b EXCEPT !.img = None,
              !.ud = IF mm.ud THEN None ELSE @,
              !.md = IF mm.md THEN None ELSE @,
              !.online = h \in KeepOnline]

\* Mutant: the host is labelled with the machine instead of its deployment.
releaseHostWrongLabel(b, m, reuse) ==
    IF reuse THEN [b EXCEPT !.consumer = ClusterRef, !.reuse = m]
             ELSE [b EXCEPT !.consumer = None]

\* Delete, last part: the host is kept for its deployment or freed.
releaseHost(b, m, reuse) ==
    IF reuse THEN [b EXCEPT !.consumer = ClusterRef, !.reuse = Deployment[m]]
             ELSE [b EXCEPT !.consumer = None]

\* Mutant: a host that is still being deprovisioned is not waited for.
waitingNotDeprovisioning(b) ==
    b.st \notin {"registering", "available", "deprovisioning"}

waiting(b) == b.st \notin {"registering", "available"}

----------------------------------------------------------------------------
(* The worker of machine m. *)

Goto(m, p) == pc' = [pc EXCEPT ![m] = p]
Unlock(m) == mutex' = IF mutex = m THEN None ELSE mutex

\* Reconcile: fetch the Metal3Machine; reconcileNormal up to its first API
\* call.  The NodeRef of a provisioned machine may or may not be there yet.
ReconcileNormal(m) ==
    /\ pc[m] = "idle"
    /\ cache[m].exists /\ ~cache[m].del
    /\ base' = [base EXCEPT ![m] = cache[m]]
    /\ mem' = [mem EXCEPT ![m] = [cache[m] EXCEPT !.fin = TRUE]]
    /\ \/ /\ cache[m].ready
          /\ todo' = [todo EXCEPT ![m] = 1]
          /\ Goto(m, "updGet")
       \/ /\ todo' = [todo EXCEPT ![m] = 3]
          /\ Goto(m, IF m \notin bootstrap THEN "patchMeta"
                     ELSE IF cache[m].ann = None THEN "lock"
                     ELSE "claim")
    /\ UNCHANGED <<apiVars, cache, bootstrap, host, mutex, faults>>

\* Mutant: the mutex is not waited for.
AssociateNoLock(m) ==
    /\ pc[m] = "lock"
    /\ mutex' = m
    /\ Goto(m, "choose")
    /\ UNCHANGED <<apiVars, cache, bootstrap, mem, base, host, todo, faults>>

\* Associate takes the mutex.
AssociateLock(m) ==
    /\ pc[m] = "lock"
    /\ mutex = None
    /\ mutex' = m
    /\ Goto(m, "choose")
    /\ UNCHANGED <<apiVars, cache, bootstrap, mem, base, host, todo, faults>>

\* Mutant: the mutex is kept when there is no host.
AssociateChooseKeepLock(m) ==
    /\ pc[m] = "choose"
    /\ \/ /\ chooseHost(m) = {}
          /\ Goto(m, "patchMeta")
          /\ UNCHANGED <<mem, host, mutex>>
       \/ \E h \in chooseHost(m) :
            /\ host' = [host EXCEPT ![m] = [name |-> h, val |-> bmh[h]]]
            /\ mem' = [mem EXCEPT ![m].ud = TRUE]
            /\ Goto(m, "assocPatch")
            /\ UNCHANGED mutex
    /\ UNCHANGED <<apiVars, cache, bootstrap, base, todo, faults>>

\* Mutant: the machine is annotated before the host is patched.
AssociateChooseAnnotate(m) ==
    /\ pc[m] = "choose"
    /\ \/ /\ chooseHost(m) = {}
          /\ Unlock(m)
          /\ Goto(m, "patchMeta")
          /\ UNCHANGED <<mem, host>>
       \/ \E h \in chooseHost(m) :
            /\ host' = [host EXCEPT ![m] = [name |-> h, val |-> bmh[h]]]
            /\ mem' = [mem EXCEPT ![m].ud = TRUE, ![m].ann = h]
            /\ Goto(m, "assocPatch")
            /\ UNCHANGED mutex
    /\ UNCHANGED <<apiVars, cache, bootstrap, base, todo, faults>>

\* List the hosts and choose one; getUserDataSecretName.
AssociateChoose(m) ==
    /\ pc[m] = "choose"
    /\ \/ /\ chooseHost(m) = {}
          /\ Unlock(m)
          /\ Goto(m, "patchMeta")
          /\ UNCHANGED <<mem, host>>
       \/ \E h \in chooseHost(m) :
            /\ host' = [host EXCEPT ![m] = [name |-> h, val |-> bmh[h]]]
            /\ mem' = [mem EXCEPT ![m].ud = TRUE]
            /\ Goto(m, "assocPatch")
            /\ UNCHANGED mutex
    /\ UNCHANGED <<apiVars, cache, bootstrap, base, todo, faults>>

\* Write the ConsumerRef, and the spec if there is no template to wait for.
AssociatePatch(m) ==
    /\ pc[m] = "assocPatch"
    /\ LET b == setHostConsumerRef(host[m].val, m)
       IN  PatchHost(m, IF m \in Templated THEN b
                        ELSE setHostSpec(b, m, mem[m]))
    /\ IF bmh[host[m].name].st = "absent"
       THEN Unlock(m) /\ Goto(m, "patchMeta")
       ELSE UNCHANGED mutex /\ Goto(m, "assocSecret")
    /\ UNCHANGED <<m3m, bmcSecret, claim, cache, bootstrap, mem, base, host,
                   todo, faults>>

\* Label the BMC Secret, then annotate the machine and leave the mutex.
AssociateSecret(m) ==
    /\ pc[m] = "assocSecret"
    /\ bmcSecret' = bmcSecret \cup {host[m].name}
    /\ mem' = [mem EXCEPT ![m].ann = host[m].name]
    /\ Unlock(m)
    /\ Goto(m, "patchMeta")
    /\ UNCHANGED <<m3m, bmh, claim, cache, bootstrap, base, host, todo, faults>>

\* AssociateM3Metadata: create the claim unless the informer knows it; one
\* the informer has not seen yet is an AlreadyExists error.
AssociateM3Metadata(m) ==
    /\ pc[m] = "claim"
    /\ mem' = [mem EXCEPT ![m].md = @ \/ m \in UserMeta]
    /\ IF m \notin Templated \/ mem[m].md
       THEN Goto(m, "updGet") /\ UNCHANGED claim
       ELSE /\ claim' = [claim EXCEPT ![m] = IF @ = "none" THEN "new" ELSE @]
            /\ Goto(m, IF claim[m] = "new" THEN "patchMeta" ELSE "updGet")
    /\ UNCHANGED <<m3m, bmh, bmcSecret, cache, bootstrap, base, host, todo,
                   mutex, faults>>

\* Update: get the host and wait for the metadata.
UpdateGet(m) ==
    /\ pc[m] = "updGet"
    /\ LET h == mem[m].ann
       IN  IF \/ h = None
              \/ bmh[h].st = "absent"
              \/ m \in Templated /\ claim[m] # "ready"
           THEN /\ Goto(m, "patchMeta")
                /\ UNCHANGED <<mem, host>>
           ELSE /\ host' = [host EXCEPT ![m] = [name |-> h, val |-> bmh[h]]]
                /\ mem' = [mem EXCEPT ![m].md = @ \/ m \in Templated]
                /\ Goto(m, "updPatch")
    /\ UNCHANGED <<apiVars, cache, bootstrap, base, todo, mutex, faults>>

\* Update: write ConsumerRef and spec, whoever the consumer was.  The second
\* of three rounds is followed by SetNodeProviderIDByHostname, which may fail.
UpdatePatch(m) ==
    /\ pc[m] = "updPatch"
    /\ PatchHost(m, setHostSpec(setHostConsumerRef(host[m].val, m), m, mem[m]))
    /\ \/ /\ todo[m] = 3
          /\ bmh[host[m].name].st # "absent"
          /\ Goto(m, "isProvisioned")
          /\ UNCHANGED todo
       \/ /\ todo[m] = 2
          /\ bmh[host[m].name].st # "absent"
          /\ Goto(m, "updGet")
          /\ todo' = [todo EXCEPT ![m] = 1]
       \/ /\ todo[m] < 3 \/ bmh[host[m].name].st = "absent"
          /\ Goto(m, "patchMeta")
          /\ UNCHANGED todo
    /\ UNCHANGED <<m3m, bmcSecret, claim, cache, bootstrap, mem, base, host,
                   mutex, faults>>

\* IsBaremetalHostProvisioned and the providerID: found on a node (done), not
\* found and waiting for the cloud provider (done), or set by default and
\* followed by more Updates.
CheckProvisioned(m) ==
    /\ pc[m] = "isProvisioned"
    /\ IF bmh[mem[m].ann].st # "provisioned"
       THEN Goto(m, "patchMeta") /\ UNCHANGED <<mem, todo>>
       ELSE \/ /\ Goto(m, "patchMeta")
               /\ mem' = [mem EXCEPT ![m].ready = TRUE]
               /\ UNCHANGED todo
            \/ /\ ~mem[m].ready
               /\ Goto(m, "patchMeta")
               /\ UNCHANGED <<mem, todo>>
            \/ /\ Goto(m, "updGet")
               /\ todo' = [todo EXCEPT ![m] = IF mem[m].ready THEN 1 ELSE 2]
               /\ mem' = [mem EXCEPT ![m].ready = TRUE]
    /\ UNCHANGED <<apiVars, cache, bootstrap, base, host, mutex, faults>>

\* Reconcile of a deleted machine.
ReconcileDelete(m) ==
    /\ pc[m] = "idle"
    /\ cache[m].exists /\ cache[m].del
    /\ base' = [base EXCEPT ![m] = cache[m]]
    /\ mem' = [mem EXCEPT ![m] = cache[m]]
    /\ Goto(m, "dissociate")
    /\ UNCHANGED <<apiVars, cache, bootstrap, host, todo, mutex, faults>>

\* DissociateM3Metadata: forget generated metadata and delete the claim, if
\* the informer knows it.
DissociateM3Metadata(m) ==
    /\ pc[m] = "dissociate"
    /\ mem' = [mem EXCEPT ![m].md = @ /\ m \in UserMeta]
    /\ claim' = [claim EXCEPT ![m] = IF @ = "new" THEN @ ELSE "none"]
    /\ Goto(m, "delGet")
    /\ UNCHANGED <<m3m, bmh, bmcSecret, cache, bootstrap, base, host, todo,
                   mutex, faults>>

\* Mutant: a host with another consumer, or none, is waited for.
DeleteGetWaits(m) ==
    /\ pc[m] = "delGet"
    /\ LET h == mem[m].ann
       IN  IF h = None \/ bmh[h].st = "absent"
           THEN /\ mem' = [mem EXCEPT ![m].fin = FALSE]
                /\ Goto(m, "patchMeta")
                /\ UNCHANGED host
           ELSE IF ~consumerRefMatches(h, m)
           THEN Goto(m, "patchMeta") /\ UNCHANGED <<mem, host>>
           ELSE /\ host' = [host EXCEPT ![m] = [name |-> h, val |-> bmh[h]]]
                /\ Goto(m, "delSecret")
                /\ UNCHANGED mem
    /\ UNCHANGED <<apiVars, cache, bootstrap, base, todo, mutex, faults>>

\* Delete: get the host; without one of its own the machine is finished.
DeleteGet(m) ==
    /\ pc[m] = "delGet"
    /\ LET h == mem[m].ann
       IN  IF h = None \/ bmh[h].st = "absent" \/ ~consumerRefMatches(h, m)
           THEN /\ mem' = [mem EXCEPT ![m].fin = FALSE]
                /\ Goto(m, "patchMeta")
                /\ UNCHANGED host
           ELSE /\ host' = [host EXCEPT ![m] = [name |-> h, val |-> bmh[h]]]
                /\ Goto(m, "delSecret")
                /\ UNCHANGED mem
    /\ UNCHANGED <<apiVars, cache, bootstrap, base, todo, mutex, faults>>

\* Delete: take the cluster label off the BMC Secret.
DeleteSecret(m) ==
    /\ pc[m] = "delSecret"
    /\ bmcSecret' = bmcSecret \ {host[m].name}
    /\ Goto(m, "delPatch")
    /\ UNCHANGED <<m3m, bmh, claim, cache, bootstrap, mem, base, host, todo,
                   mutex, faults>>

\* Delete: clear the spec and requeue, or wait for the operator, or release.
\* The host is kept for reuse if the template says so, and freed when it does
\* not, when it cannot be found, or when the cluster is being deleted.
DeletePatch(m) ==
    /\ pc[m] = "delPatch"
    /\ LET b == host[m].val
           c == clearHostSpec(b, host[m].name, mem[m])
       IN  \/ /\ c # b
              /\ PatchHost(m, c)
              /\ UNCHANGED mem
           \/ /\ c = b
              /\ waiting(b)
              /\ UNCHANGED <<bmh, mem>>
           \/ /\ c = b
              /\ ~waiting(b)
              /\ \E reuse \in {Deployment[m] \in NodeReuse, FALSE} :
                    PatchHost(m, releaseHost(b, m, reuse))
              /\ mem' = [mem EXCEPT ![m].fin = FALSE]
    /\ Goto(m, "patchMeta")
    /\ UNCHANGED <<m3m, bmcSecret, claim, cache, bootstrap, base, host, todo,
                   mutex, faults>>

\* The deferred patch: metadata and spec ...
PatchMeta(m) ==
    /\ pc[m] = "patchMeta"
    /\ m3m' = [m3m EXCEPT ![m] =
                  IF @.exists THEN PatchM3MMeta(@, base[m], mem[m]) ELSE @]
    /\ Goto(m, "patchStatus")
    /\ UNCHANGED <<bmh, bmcSecret, claim, cache, bootstrap, mem, base, host,
                   todo, mutex, faults>>

\* The worker forgets everything when the reconcile ends.
Finish(m) ==
    /\ Goto(m, "idle")
    /\ mem' = [mem EXCEPT ![m] = GoneM3M]
    /\ base' = [base EXCEPT ![m] = GoneM3M]
    /\ host' = [host EXCEPT ![m] = NoSnapshot]
    /\ todo' = [todo EXCEPT ![m] = 0]

\* ... then status.
PatchStatus(m) ==
    /\ pc[m] = "patchStatus"
    /\ m3m' = [m3m EXCEPT ![m] =
                  IF @.exists THEN PatchM3MStatus(@, base[m], mem[m]) ELSE @]
    /\ Finish(m)
    /\ UNCHANGED <<bmh, bmcSecret, claim, cache, bootstrap, mutex, faults>>

Worker(m) ==
    \/ ReconcileNormal(m)
    \/ AssociateLock(m) \/ AssociateChoose(m) \/ AssociatePatch(m)
    \/ AssociateSecret(m)
    \/ AssociateM3Metadata(m) \/ UpdateGet(m) \/ UpdatePatch(m)
    \/ CheckProvisioned(m)
    \/ ReconcileDelete(m) \/ DissociateM3Metadata(m)
    \/ DeleteGet(m) \/ DeleteSecret(m) \/ DeletePatch(m)
    \/ PatchMeta(m) \/ PatchStatus(m)

----------------------------------------------------------------------------
(* Faults. *)

\* An API call fails: every handler returns and leaves the deferred patch to
\* run; the patch helper goes on to the status after a failed metadata patch.
\* DissociateM3Metadata has forgotten the metadata before its first call.
\* Delete goes on when it cannot read the BMC Secret, and returns only when it
\* cannot write a Secret that has the label.
CallFails(m) ==
    /\ faults < MaxFaults
    /\ faults' = faults + 1
    /\ pc[m] \notin {"idle", "lock"}
    /\ pc[m] = "claim" => m \in Templated
    /\ Unlock(m)
    /\ CASE pc[m] = "patchStatus" -> Finish(m)
         [] pc[m] = "patchMeta" ->
                Goto(m, "patchStatus") /\ UNCHANGED <<mem, base, host, todo>>
         [] pc[m] = "dissociate" ->
                /\ mem' = [mem EXCEPT ![m].md = @ /\ m \in UserMeta]
                /\ Goto(m, "patchMeta")
                /\ UNCHANGED <<base, host, todo>>
         [] pc[m] = "delSecret" ->
                /\ \/ Goto(m, "delPatch")
                   \/ host[m].name \in bmcSecret /\ Goto(m, "patchMeta")
                /\ UNCHANGED <<mem, base, host, todo>>
         [] OTHER ->
                Goto(m, "patchMeta") /\ UNCHANGED <<mem, base, host, todo>>
    /\ UNCHANGED <<apiVars, cache, bootstrap>>

\* The manager stops and starts again: workers are lost, caches are filled
\* from the API server.
Crash ==
    /\ faults < MaxFaults
    /\ faults' = faults + 1
    /\ cache' = m3m
    /\ pc' = [m \in Machines |-> "idle"]
    /\ mem' = [m \in Machines |-> GoneM3M]
    /\ base' = [m \in Machines |-> GoneM3M]
    /\ host' = [m \in Machines |-> NoSnapshot]
    /\ todo' = [m \in Machines |-> 0]
    /\ mutex' = None
    /\ UNCHANGED <<apiVars, bootstrap>>

----------------------------------------------------------------------------
(* The environment. *)

\* The informer catches up.
CacheSync(m) ==
    /\ cache[m] # m3m[m]
    /\ cache' = [cache EXCEPT ![m] = m3m[m]]
    /\ UNCHANGED <<apiVars, bootstrap, workerVars, mutex, faults>>

BootstrapReady(m) ==
    /\ m \notin bootstrap
    /\ bootstrap' = bootstrap \cup {m}
    /\ UNCHANGED <<apiVars, cache, workerVars, mutex, faults>>

\* The user or Cluster API deletes a machine.
DeleteMachine(m) ==
    /\ m3m[m].exists /\ ~m3m[m].del
    /\ m3m' = [m3m EXCEPT ![m] =
                  IF @.fin THEN [@ EXCEPT !.del = TRUE] ELSE GoneM3M]
    /\ UNCHANGED <<bmh, bmcSecret, claim, cache, bootstrap, workerVars, mutex,
                   faults>>

\* The informer sees a new claim; the data controllers serve it.
ClaimProgress(m) ==
    /\ claim[m] \in {"new", "pending"}
    /\ claim' = [claim EXCEPT ![m] =
                    IF @ = "new" THEN "pending" ELSE "ready"]
    /\ UNCHANGED <<m3m, bmh, bmcSecret, cache, bootstrap, workerVars, mutex,
                   faults>>

\* The BareMetalHost operator moves a host to its next provisioning state.
\* The image reaches the disk while it is provisioned and is wiped by the end
\* of deprovisioning; a deleted host is wiped and removed.
HostStep(b) ==
    CASE b.del /\ b.st # "deleting" ->
             [b EXCEPT !.st = "deleting", !.disk = None]
      [] b.st = "deleting" -> GoneBMH
      [] ~b.del /\ b.st = "registering" -> [b EXCEPT !.st = "available"]
      [] ~b.del /\ b.st = "available" /\ b.img # None ->
             [b EXCEPT !.st = "provisioning", !.disk = b.img]
      [] ~b.del /\ b.st = "provisioning" /\ b.img # None ->
             [b EXCEPT !.st = "provisioned"]
      [] ~b.del /\ b.st \in {"provisioning", "provisioned"} /\ b.img = None ->
             [b EXCEPT !.st = "deprovisioning"]
      [] ~b.del /\ b.st = "deprovisioning" ->
             [b EXCEPT !.st = "available", !.disk = None]
      [] OTHER -> b

BMOProgress(h) ==
    /\ HostStep(bmh[h]) # bmh[h]
    /\ bmh' = [bmh EXCEPT ![h] = HostStep(@)]
    /\ UNCHANGED <<m3m, bmcSecret, claim, cache, bootstrap, workerVars, mutex,
                   faults>>

\* The user deletes a host, and enrols one again under the same name.
DeleteHost(h) ==
    /\ h \in HostChurn
    /\ bmh[h].st # "absent" /\ ~bmh[h].del
    /\ bmh' = [bmh EXCEPT ![h].del = TRUE]
    /\ UNCHANGED <<m3m, bmcSecret, claim, cache, bootstrap, workerVars, mutex,
                   faults>>

EnrolHost(h) ==
    /\ bmh[h].st = "absent"
    /\ bmh' = [bmh EXCEPT ![h] = NewBMH]
    /\ UNCHANGED <<m3m, bmcSecret, claim, cache, bootstrap, workerVars, mutex,
                   faults>>

\* A host gets, or loses, an error message, a pause or an unhealthy mark.
DegradeHost(h) ==
    /\ HostsDegrade
    /\ bmh[h].st # "absent"
    /\ bmh' = [bmh EXCEPT ![h].bad = ~@]
    /\ UNCHANGED <<m3m, bmcSecret, claim, cache, bootstrap, workerVars, mutex,
                   faults>>

Environment ==
    \/ \E m \in Machines : CacheSync(m) \/ BootstrapReady(m)
                           \/ DeleteMachine(m) \/ ClaimProgress(m)
    \/ \E h \in Hosts : BMOProgress(h) \/ DeleteHost(h)
                        \/ EnrolHost(h) \/ DegradeHost(h)

Next ==
    \/ \E m \in Machines : Worker(m) \/ CallFails(m)
    \/ Crash
    \/ Environment

Spec == Init /\ [][Next]_vars

\* Requeues and the resync period run a worker again and again, and Go's
\* mutex does not starve a waiter; informers, the operator and the data
\* controllers make progress.  Users, bootstrap providers and faults owe
\* nothing.
Fairness ==
    /\ \A m \in Machines : /\ WF_vars(Worker(m))
                           /\ SF_vars(AssociateLock(m))
                           /\ WF_vars(CacheSync(m))
                           /\ WF_vars(ClaimProgress(m))
    /\ \A h \in Hosts : WF_vars(BMOProgress(h))

FairSpec == Spec /\ Fairness

----------------------------------------------------------------------------
(* Properties. *)

Live(m) == m3m[m].exists /\ ~m3m[m].del

\* A Metal3Machine never holds two hosts: an association that was cut short
\* by a crash, a failed call or a stale cache is resumed on the same host
\* (Associate, chooseHost).
OneHostPerMachine ==
    \A g, h \in Hosts :
        bmh[g].consumer = bmh[h].consumer /\ bmh[g].consumer \in Machines
            => g = h

\* The annotation of a machine that is not being deleted names a host whose
\* ConsumerRef names the machine: the two ends of an association, written by
\* two patches, agree (Associate, Update, Delete).
AnnotationMatchesConsumer ==
    \A m \in Machines : Live(m) /\ m3m[m].ann # None
        => consumerRefMatches(m3m[m].ann, m)

\* A host that runs, or may still run, a machine's image belongs to that
\* machine: it is not released before it is wiped (Delete).
RunningHostIsOwned ==
    \A h \in Hosts : bmh[h].disk # None => bmh[h].consumer = bmh[h].disk

\* A host without a consumer machine has no image, whatever failed, and its BMC
\* Secret carries the cluster label only if something failed: Delete releases a
\* host although it could not read the Secret (Delete, Associate).
ReleasedHostIsClean ==
    \A h \in Hosts : bmh[h].consumer \notin Machines
        => bmh[h].img = None /\ (h \in bmcSecret => faults > 0)

\* An image is its consumer's and comes with that machine's userData, even
\* when an earlier consumer's reference was left behind (setHostSpec, Delete).
ImageIsConsumers ==
    \A h \in Hosts : bmh[h].img # None
        => bmh[h].img = bmh[h].consumer /\ bmh[h].ud = bmh[h].img

\* A node-reuse label only sits on a host whose consumer is the Cluster, so
\* that chooseHost, which skips the ConsumerRef test for labelled hosts,
\* never takes a host from a machine (Delete, setHostConsumerRef).
ReuseLabelMeansCluster ==
    \A h \in Hosts : (bmh[h].reuse # None) <=> (bmh[h].consumer = ClusterRef)

\* The mutex covers a whole association: two workers are never between
\* choosing a host and annotating the machine (Associate).
Associating(m) == pc[m] \in {"choose", "assocPatch", "assocSecret"}
AssociationIsExclusive ==
    \A m \in Machines : Associating(m) => mutex = m

\* A host passes from one machine to another only by way of a release: no
\* step replaces one machine's ConsumerRef by another's (Associate, Update).
ConsumerStep ==
    \A h \in Hosts : bmh[h].consumer \in Machines
        => bmh'[h].consumer \in {bmh[h].consumer, None, ClusterRef}
ConsumerNotStolen == [][ConsumerStep]_vars

\* Whatever its workers, patches and faults do in between, the controller
\* hands out hosts as HostPool says: nobody's host is taken, no machine takes
\* two, and a host kept for reuse goes to a machine of the deployment it is
\* labelled with (Associate, chooseHost, Update, Delete).
ownerOf ==
    [h \in Hosts |-> IF bmh[h].consumer \in Machines THEN bmh[h].consumer
                     ELSE None]
keptFor == [h \in Hosts |-> bmh[h].reuse]
Pool == INSTANCE HostPool WITH owner <- ownerOf, kept <- keptFor
ImplementsHostPool == Pool!Spec

\* A machine with bootstrap data and hosts to spare gets a host provisioned,
\* across crashes and failed calls, once the hosts stay enrolled and none is in
\* error, paused or marked unhealthy (reconcileNormal, chooseHost).
HostsRecover ==
    <>[](\A h \in Hosts : Usable(h) /\ bmh[h].st # "absent")
ProvisioningCompletes ==
    HostsRecover => \A m \in Machines :
        m \in bootstrap /\ Live(m)
            ~> \/ ~Live(m)
               \/ \E h \in Hosts : consumerRefMatches(h, m)
                                   /\ bmh[h].st = "provisioned"

\* A deleted machine goes away, across crashes and failed calls: its
\* finalizer is not kept forever (reconcileDelete).
DeletionCompletes ==
    \A m \in Machines : m3m[m].del ~> ~m3m[m].exists

----------------------------------------------------------------------------
(* What the documentation says and the code does not always do. *)

\* docs/api.md: "Once the Metal3Data object is ready, the Metal3Machine
\* controller will fetch the secrets [...] and use them to start provisioning
\* the BareMetalHost" (WaitForM3Metadata, setHostSpec).
DataReadyStartsProvisioning ==
    \A m \in Machines :
        claim[m] = "ready" /\ Live(m)
            ~> ~Live(m) \/ \E h \in Hosts : bmh[h].img = m

=============================================================================
