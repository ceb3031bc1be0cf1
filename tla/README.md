# TLA+ models of the Cluster API provider Metal3

The controllers in this repository turn Cluster API objects into provisioned
BareMetalHosts.  They keep no state of their own: everything is in Kubernetes
objects that several controllers, the BareMetalHost operator, the IP address
manager, the garbage collector and users read and write at the same time, through
caches that lag and calls that fail.  These modules model the controllers at the
level of single API calls, check them with TLC on small instances and prove with
TLAPS, for every instance, the safety properties of every component, some of them under
assumptions that section 4 names, and that the association of machines and hosts
implements an abstract pool of hosts.

## 1. Inventory

| Component | State | Operations | Hard behaviour | What makes it correct |
|---|---|---|---|---|
| Metal3Machine controller (`controllers/metal3machine_controller.go`, `baremetal/metal3machine_manager.go`) | Metal3Machine: finalizer, host annotation, status (userData, metaData, networkData, ready); BareMetalHost spec: ConsumerRef, image, data references, online, node-reuse label; BMC secret label; a process-wide mutex | associate, update, wait for metadata, check provisioned, dissociate, delete (deprovision, wait, release) | several workers in one process, read from a cache and write to the API server, deferred patch of two calls, crash between host and machine patch, hosts that disappear | one consumer per host, one host per machine, both ends agree, a host is wiped before it is released, node reuse respects deployments, provisioning and deletion end |
| BareMetalHost operator (external) | provisioning state, what is on the disk | register, provision, deprovision, delete | runs at its own pace | as assumed by the code |
| Metal3DataTemplate controller (`metal3datatemplate_*`) | finalizer of the template, status.indexes, Metal3DataClaims, Metal3Data | allocate an index, create and delete Metal3Data, patch claims | lists from two caches, merge patches of finalizer lists, errors that are only logged | a claim gets exactly one Metal3Data, its own; the template stays while it has Metal3Data |
| Metal3Data controller (`metal3data_*`) | Metal3Data finalizers and readiness, IPClaims, secrets | lease addresses, render secrets, release | an IPClaim's name is reused by the next Metal3Data of that index; two-call patch | an address is used by the Metal3Data it is leased to, and given back in the end |
| IP address manager, garbage collector, informers (external) | IPAddresses, owner references, caches | allocate, free, collect, catch up | asynchronous | as assumed by the code |
| Metal3Remediation controller (`metal3remediation_*`) | phase, retry count, finalizer, node backup annotations; power-off annotation on the host; node, taint | power off, drain or delete the node, power on, restore, retry, give up | a multi-step protocol over requeues, time-outs racing the node's return | a node is removed only when its host is off, retries are bounded, a host is powered on again |
| Pausing and block-move | pause, block-move and status annotations of hosts | on pause: block, then pause and copy the status, then unblock; on resume: unpause, block | `clusterctl move` runs in between; patches fail one by one; Cluster and machine are cached, the host is not | a host is handed over only paused and with its status, pausing and resuming complete |
| Rendering of metaData and networkData | secrets, rendered once | find the pools a template refers to, render metaData and networkData | many nested, optional places for a reference; int32 arithmetic; masks | the pools that are claimed are those rendering looks up; a secret stays what its template says |
| Label sync controller (`metal3labelsync_controller.go`, `labelsync.go`) | labels of host and Node | mirror labels with given prefixes | a whole Node is read and written back; nothing watches Nodes | labels arrive, and nothing else on the Node is undone |
| Node look-up (in the Metal3Machine controller) | providerID of Metal3Machine and Node, Node label | find the Node by providerID, label or host name; set the providerID | Nodes that are left behind, come late or are written by others; new UIDs after a move | a providerID identifies one Node on its host; the machine becomes ready |
| Metal3Cluster controller (`metal3cluster_*`) | finalizer, failure domains, ready | publish failure domains, set ready, wait for dependants | lists from a cache; pausing | the cluster outlives its machines and goes in the end |
| Metal3MachineTemplate controller (`metal3machinetemplate_*`) | automatedCleaningMode of machines | copy it to every clone | the first failed Update ends the round; whole objects are written | the mode arrives and nothing else is undone |
| Webhooks (`internal/webhooks/v1beta2`) | none | default, validate creation and update, for nine kinds | different rules for creation and update | what is stored could have been created; what was rendered from stays |
| API types and conversion (`api/v1beta1`, `api/v1beta2`) | the hub object in an annotation | convert both ways | fields only one version has; an annotation that is out of date | a write-back changes nothing, an edit sticks, the status stays |
| API servers, `clusterctl`, kubelets, cloud provider (external) | - | - | - | as assumed by the code |
| Start-up, metrics, remote clients, generated deep copies, fake API server, release tools | - | wiring, I/O | - | covered by unit tests |

The controllers meet in objects only.  The Metal3Machine controller creates a
Metal3DataClaim, the template controller answers it with a Metal3Data, the data
controller answers that with IPClaims and a secret, and the machine controller puts
the secret on the host.  Deletion goes the same way, each controller holding the
next one back with a finalizer.  When the host is provisioned its Node joins the
workload cluster; machine controller and label sync find it there.  Pausing stops all
of them, and hands the hosts over to `clusterctl`.

## 2. Modules

| Module | What it is |
|---|---|
| `Metal3Machine` | the Metal3Machine controller, BareMetalHosts and their operator |
| `MCMetal3Machine` | instances of it for TLC |
| `HostPool` | the abstract specification that `Metal3Machine` implements |
| `Metal3MachineProofs` | theorems about it: types, association, refinement |
| `ProvisioningProofs` | theorems about it: what is on a host |
| `DataTemplate` | the Metal3DataTemplate and Metal3Data controllers, IPClaims, garbage collection |
| `MCDataTemplate` | instances of it for TLC |
| `DataTemplateProofs` | theorems about it: indexes, references, addresses |
| `Remediation` | the Metal3Remediation controller, the host's power, the node |
| `MCRemediation` | instances of it for TLC |
| `RemediationProofs` | theorems about it |
| `Cluster`, `MCCluster` | pausing and block-move, the Metal3Cluster and Metal3MachineTemplate controllers |
| `ClusterProofs` | theorems about it: the hand-over of hosts, what deletion and template leave alone |
| `Nodes`, `MCNodes` | Node look-up, providerID, label sync |
| `NodesProofs` | theorems about it: providerIDs, label sync |
| `Conversion` | conversion between v1beta1 and v1beta2, as operators |
| `Webhooks` | defaults and validation, as operators |
| `Rendering` | pool references, metaData and networkData, as operators |
| `APIServer`, `MCAPIServer` | an object's life under the three of them |
| `ConversionProofs` | lemmas about `Conversion`: sorting, maps and lists, the laws of each kind |
| `APIServerProofs` | theorems about `APIServer`: admission, conversion, rendered secrets, claimed pools |

`PROJECT.json` maps every definition to the lines it models.  An operator whose
comment begins with "Mutant" is a version of the definition after it with a plausible
bug; no specification uses it.  Each checked property is violated when one of them
takes the place of the definition.

### Metal3Machine

One worker per Metal3Machine, because controller-runtime never runs two reconciles
of one key at a time; workers of different machines interleave.  A reconcile is cut
at its API calls: `pc[m]` is the next call, `mem[m]` the worker's copy of its
machine, `base[m]` that copy as it was read (a patch sends the difference), `host[m]`
the BareMetalHost it read.  Objects on the API server are `m3m`, `bmh`, `bmcSecret`
and `claim`; `cache` is the informer's copy of the machines.  BareMetalHosts and
secrets are read live, as `main.go` configures the client.

| Action | Code |
|---|---|
| `ReconcileNormal`, `ReconcileDelete` | `Reconcile` up to its first call |
| `AssociateLock`, `AssociateChoose`, `AssociatePatch`, `AssociateSecret` | `Associate` with `chooseHost`, `setHostSpec`, `setHostConsumerRef`, `setBMCSecretLabel`; the mutex is held from the first to the last |
| `AssociateM3Metadata`, `UpdateGet`, `UpdatePatch`, `CheckProvisioned` | the rest of `reconcileNormal`: the claim, `WaitForM3Metadata`, `Update`, and the readiness test |
| `DissociateM3Metadata`, `DeleteGet`, `DeleteSecret`, `DeletePatch` | `reconcileDelete`, `Delete` |
| `PatchMeta`, `PatchStatus` | the deferred patch: metadata and spec, then status |
| `CallFails`, `Crash` | an API call returns an error; the manager restarts (memory and mutex are lost, the cache is filled again) |
| `CacheSync`, `BootstrapReady`, `DeleteMachine`, `ClaimProgress`, `BMOProgress`, `DeleteHost`, `EnrolHost`, `DegradeHost` | the environment |

Abstractions: one namespace and one cluster; image and customDeploy are one field,
metaData and networkData another; a reference is identified with the machine it
belongs to; the operator's states are grouped by how the code tells them apart;
node and providerID look-ups, and whether a ready machine has its NodeRef yet (the early
return of `reconcileNormal`), are nondeterministic choices here and modelled in
`Nodes`; pausing, and a Cluster whose infrastructure is not ready, are in `Cluster`.

A failed call ends a reconcile with the deferred patch, with one exception: `Delete`
swallows a failed Get of the BMC Secret and goes on, so that the host can be released
with the cluster label on its Secret.  `CallFails` has both outcomes at that call.

`HostPool` says what this promises about hosts: each is free, a machine's (`owner`) or
kept for a deployment (`kept`); `Take` needs a free host, or one kept for the
machine's deployment, and a machine without one; `GiveUp` returns it.  In
`ImplementsHostPool` the owner of a host is the machine its ConsumerRef names, and a
host is kept for the deployment its node-reuse label names (`ownerOf`, `keptFor`).  `Associate` maps to `Take`, the last patch of `Delete` to
`GiveUp`, every other step to a stutter.

### DataTemplate

One template with one worker and one worker per Metal3Data.  `claim`, `data`,
`lease` (the IPClaim of each index) and `secret` are on the API server; `claimCache`
and `dataCache` are past states of the collections, and a lease the informer has not
seen is marked.  With `Lag = FALSE` a round of a controller starts with caches that
have caught up; with `Lag = TRUE` with any older state of them.  Finalizers are
modelled one by one, but a merge patch writes the whole list, as it does in
Kubernetes, and the API server refuses to add one to an object being deleted.

| Action | Code |
|---|---|
| `AssociateM3Metadata`, `Dissociate`, `DissociateDelete`, `MachineRequeued`, `MachineGone` | what the machine controller does to the claim |
| `UpdateDatas`, `createData`, `deleteData`, `deleteDataFinalizer`, `deleteDataObject`, `patchClaimMeta`, `patchClaimStatus`, `endRound`, `patchTemplate` | the template controller: list, handle each claim with its own deferred patch, patch the template |
| `DataRead`, `ensureIPClaim`, `createSecrets`, `ReleaseLeases`, `DataIdle`, `patchDataMeta`, `patchDataStatus` | the data controller |
| `DataCallFails`, `ClaimPatchFails`, `TemplatePatchFails`, `DataWorkerFails`, `Crash` | failures and restarts |
| `Allocate`, `Free`, `CollectClaim`, `CollectData`, `CollectLease`, `CollectSecret`, `ClaimSync`, `DataSync`, `LeaseSync` | IP address manager, garbage collector, informers |

The IPClaim of an index may be one of an earlier Metal3Data of that index: its address is
not used (`usable`), and when it is being deleted its finalizer is taken off so that it
goes and a new one can be created (`leftBehind`).

Abstractions: one pool and one secret per machine; what is rendered is the index it
is rendered from; a UID is the claim a Metal3Data was made for.

### Remediation

One Metal3Remediation with its worker and the host and node it is about.  `cr` and
`cache` are the object on the API server and in the informer, `host` and `node` are
read live, `machine` is the owner that is handed over when remediation fails.  `mode`
is the way a node is taken out of service: deleted, tainted, or not at all when the
controller may not access nodes.  `expired` holds the attempts whose time-out is over.

| Action | Code |
|---|---|
| `Reconcile`, `GetNode` | `Reconcile`, `reconcileNormal` up to the phase; the finalizer, which is patched before anything else is done |
| `PowerOff`, `AddOutOfServiceTaint`, `AwaitDrain`, `BackupNode`, `DeleteNode`, `SwitchToWaiting` | `remediateRebootStrategy`, phase Running |
| `PowerOn`, `AwaitNode`, `RemoveOutOfServiceTaint`, `RestoreNode`, `SetOwnerRemediated`, `SetUnhealthyAnnotation` | phase Waiting: power on, restore, time-out and retry, give up |
| `PatchMeta`, `PatchStatus` | the deferred patch |
| `CallFails`, `RestoreFails`, `Crash` | failures and restarts |
| `CacheSync`, `DeleteRemediation`, `DeleteMachine`, `BMOPower`, `SetOnline`, `RegisterNode`, `TimeOut` | informer, MachineHealthCheck and garbage collector, the machine's owner, the BareMetalHost operator, users, kubelet, time |

Abstractions: the machine keeps its host while it exists and has a node reference; a
node's labels and annotations are one field; whether a node is drained is a
nondeterministic choice; a Metal3Remediation is not created a second time.

### Cluster

Every reconcile of a Metal3Machine starts with its host, once the Cluster's infrastructure
is ready; before that `Reconcile` returns and the host is left as it is, paused or not
(`seen.infra`).  A worker is cut at every patch: `EnsureBlockMoveAnnotation`; for a paused Cluster `SetPauseAnnotation` (block,
pause and save the status, unblock, with the early return for a host that is paused
already); otherwise `RemovePauseAnnotation`; then the work itself, which is one step
here (associate, become ready, release).  `ReconcileCluster` is a reconcile of the
Metal3Cluster, whose only write is the patch at its end: it sets `ready`, or takes it
back when its owner Cluster cannot be read.  Cluster API copies `ready` to the condition
of a Cluster that is not paused (`SetInfrastructureReady`, `infra`); workers read the
Cluster from a cache (`seen`). `ReconcileTemplate` lists the
clones from the cache and updates one at a time, stopping at the first failure.  `Move`
is `clusterctl move`: it needs a paused cluster whose machines have Nodes and no host
with a block-move annotation; it keeps specs and annotations and drops the status.
`Crash`, `Edit`, `DeleteMachine`, `DeleteCluster`, `SetOwner` and `InformerSync` are
the environment.

Abstractions: one template; all machines exist from the start; the control plane
endpoint is valid, as the webhooks see
to; a host's status is whether a copy of it is in the annotation.

### Nodes

The part of `reconcileNormal` after the host is provisioned, one worker per machine,
cut at its calls to the workload cluster (`pc`: cloud provider, label, its patch, host
name, its patch, save), and the label sync worker of each host (read, update).
`mode` is how the cluster is set up: with a cloud provider, with the host's UID as a
Node label, with the providerID given to kubelet, Nodes named after machine or host.
`Join` is a kubelet, which may register a Node at any time its machine runs;
`CloudProvider` and `SetNodeRef` are external; `Move` gives every host a new UID and
drops the status.  Nodes stay behind when their machine goes (`Release`,
`DeleteNode`), which is what the look-up has to cope with.  A machine that is ready and
has its nodeRef is not looked after any more (`isProvisioned`, the early return of
`reconcileNormal`); `orphans` remembers the machines whose Node was deleted behind their
nodeRef, no action reads it.  Label sync leaves a paused host alone
(`setup.pausedHosts`).

Abstractions: a providerID is the pair of host and machine; one synchronised label
and one of the user's; a conflict is a Node that is not what was read; the nodeRef is
read without lag.

### Conversion, Webhooks, Rendering and APIServer

The first three are pure.  Objects are records with the fields whose representation
differs between the versions, that a webhook reads or that rendering uses; a nil
pointer is `Nil`; a failed rendering is `Err`.  Lists of MetaData items, links,
networks and routes keep their nesting; an address, a MAC or a name is a value of a
small set.  Integers of v1beta1 have 64 bits and those of v1beta2 `IntBits`: port, index,
retry limit, prefix, offset and step are cut to their lower bits (`Wrap`), as is what
rendering computes; a time-out is rounded towards 0 and limited (`ConvertToSeconds`).
The run, with 16 bits, has requests with a port, an index and a retry limit that do not
fit.  Three v1beta1 maps are lists in v1beta2: failure
domains and bond parameters, sorted by name, and the indexes of a Metal3DataTemplate's
status, sorted by index.  A map is a function on `Names` that is `Nil` for the names it
does not have; `SortedBy` is what `sort.Strings` and `sort.Slice` achieve, so `Names` are
numbers; of two entries with one name the later wins on the way back (`LastOf`).  The
pools a template refers to are a set of references, found place by place in the order of
`getReferencedPools`.

`APIServer` is one object of any kind: `Create` and `UpdateV2` by a v1beta2 client,
`GetV1` and `UpdateV1` by a v1beta1 client that keeps its copy, and the hub object in
its annotation, for as long as it likes, `UpdateStatus` by the controller, and
`createSecrets` for a Metal3DataTemplate.  A request is converted, defaulted and
validated in the order the API server does it.  The last v1beta1 request is kept in
`req`, which is what the properties are about.

Abstractions: what the CRD schemas check is left out, as is the second conversion of a
defaulted v1beta1 request; an object is created once.  The properties compare
meanings, in which a pointer to an empty value says what nil says and failure domains
and indexes, maps in v1beta1, are sets.  A status has one index for a claim, which is
`OneDataPerClaim` of `DataTemplate`: where that fails, conversion to a map drops one.
`V1Meaning` has every field a v1beta1 client can set and read, `noCloudProvider`
excepted, which has no counterpart.  `EditSticks` names the two things that do not come
back: integers that need more than 32 bits (`FitsInt32`), and a checksum given to a
Metal3Machine whose hub copy has none (`WithoutLostChecksum`).

## 3. Runs

Bounds are in the `.cfg` files.  `MaxFaults` bounds crashes and failed calls,
`MaxEvents` those and the environment's edits and deletions, `MaxMoves` the moves,
`MaxIndex` the indexes, `RetryLimit` is the field of the strategy; every other
behaviour of the models is finite.

| Run | Instance | Shows |
|---|---|---|
| `association` | 2 machines of one deployment with node reuse, 2 hosts, symmetric | types; a machine holds one host; no machine takes another's host |
| `association_faults` | 2 machines of 2 deployments, one with node reuse and a template, 1 host that stays online, 1 fault anywhere | annotation and ConsumerRef agree; what runs on a host is its consumer's; image and userData are the consumer's; a released host has no image, and a labelled secret only if something failed; `HostPool` is implemented, so a kept host goes back to its deployment |
| `reenrolment` | 1 machine, 1 host that is deleted and enrolled at will, 1 fault, fair | a deleted machine goes away |
| `progress` | 1 machine, 2 hosts that degrade, one in its failure domain, 1 fault, fair | the machine gets a provisioned host once the hosts stay usable |
| `data_leases` | 2 machines that use index 0 one after the other, with a pool; a machine and the template deleted | types; a claim's Metal3Data is its own; the address in a running machine's secret is leased to it; the template's finalizer stays while Metal3Data exist |
| `data_progress` | a claim after another that had index 0 and is gone, an IPClaim of that one left in any state, 2 indexes, lagging caches, 2 faults, fair | one Metal3Data per claim; it is created, the old IPClaim goes and the Metal3Data becomes ready |
| `remediation` | all three ways to evict, 2 retries, hosts set offline, 2 faults, fair | a node is evicted only from a host that is off; a power-off request has a remediation that is kept; the machine is given up last; the host is told to power on again |
| `cluster` | 2 machines, one of them with an owner, both clones, 1 host, 1 move, 3 events, fair | a host is unblocked only paused and with its status saved; hosts follow pausing and resuming, if the infrastructure was ready when the Cluster was paused; the Metal3Cluster outlives its Machines; edits arrive; the template controller undoes nothing |
| `nodes` | 2 machines one after the other, 2 hosts, every mode, 1 move, 1 event, fair | a providerID identifies one Node, on its host; a machine whose Node can be told becomes ready, unless it was deleted behind the nodeRef; labels arrive; label sync undoes nothing |
| `api` | all nine kinds, with objects that differ in every field conversion and admission tell apart | types; what is stored is valid; a write-back changes nothing; an edit sticks; the status stays; secrets are the template's; the claimed pools suffice |

Two machines and one or two hosts are the smallest instances in which machines
compete, a host changes hands and a reused name meets an old reference; one fault
placed anywhere reaches every partial write, since a reconcile starts again after
it.  Two faults are used where the instance is small.  The largest are `nodes` with
551,175 states, `cluster` with 180,691 and `api` with 169,603.

`data_progress` starts where a first use of index 0 ended (`MCSecondUse`): its claim and
Metal3Data are gone, and its IPClaim is gone too, or still holds the address, or was not
released at all, because the informer had not seen it.  Every one of these states is
reached by `Spec` with two claims, one of them deleted; starting there keeps the liveness
check small enough for lagging caches and two faults.

In `cluster` one machine has an owner, so a host does not change hands; with two,
`HandOver` fails, because `RemovePauseAnnotation` looks at the host's cluster label and
not at its ConsumerRef: a worker whose cache still has the annotation of a machine that
was just released touches the host of the next one.  The premises of `PauseFollowsCluster`
are needed: without `infra` TLC finds a Cluster that is paused before its infrastructure
was ready, or after a failed look-up of the owner took the readiness back, and whose hosts
stay as they are; without `~m3c.del` one whose deleted Metal3Cluster does not become ready
again.  So is that of `NodeIsMatched`: a Node that is deleted after it became the nodeRef
of its machine and joins again gets no providerID (the TODO at
`metal3machine_manager.go:1715`).  The `CONSTRAINT` of `nodes` only
leaves out steps of the environment that have no fairness (a second machine before the
first is gone, the mirror image of a choice of hosts), so it does not hide a liveness
violation.

Two runs are expected to end in a counterexample; each states a sentence of the
documentation, or of a comment, which the code does not always keep.

| Run | Property | What happens |
|---|---|---|
| `lost_userdata` | `DataReadyStartsProvisioning` | The annotation is written and the status is not.  `Associate`, the only place that sets the userData reference, is not called again, and a machine that waits for its metadata is never provisioned. |
| `unclaimed_pool` | `AllPoolsReferenced` | A route of a DHCP or SLAAC network may name its gateway's pool by an annotation; `getReferencedPools` leaves that case out, `getRoutesv4` and `getRoutesv6` look the pool up, and rendering fails in every round. |

More weaknesses follow from the code as modelled; no checked property rules them out.

* `Metal3Machine`: `Update` takes over a host that was enrolled again under its name
  and chosen by another machine (`ConsumerNotStolen` fails with `HostChurn = Hosts`).
  The finalizer is written by the deferred patch, so a machine deleted in its first
  reconcile is gone while the host gets its ConsumerRef and image, and no deletion
  releases it.  `DissociateM3Metadata` clears the status that `Delete` compares with,
  so generated metaData stays on the released host (`docs/fast-track.md:107` says it
  is cleared) and a machine without metaData of its own gets it.  A host whose BMC
  Secret cannot be read is released with the cluster label on it, and nothing removes
  that later.
* `DataTemplate`: with `Lag = TRUE`, two claims and two indexes `OneDataPerClaim`
  fails: a list that misses a claim's Metal3Data and a freed lower index give the claim
  a second one.  The template controller's patch of a claim can put back the
  MachineFinalizer the machine controller has just removed, and an IPClaim its
  informer has not seen is not released: either way an address is never given back.
  The Metal3Data exists before the claim and the template have the finalizers that
  see to its end.
* `Remediation`: a Metal3Remediation that gives up, or fails, before its node came back
  keeps its finalizer, and no later phase removes it; `PowerOffIsGuarded` fails with
  `Lag = TRUE`, because a worker that still reads the phase Waiting after a retry began
  drops the finalizer of that retry.
* `Cluster`: an error of `EnsureBlockMoveAnnotation` is only logged; `Delete` leaves the
  block-move annotation on the host it releases, which blocks every move until the host
  has a machine again; a host its user resumes just before it is unblocked is handed
  over unpaused.  Hosts of a Cluster that is paused while its infrastructure is not ready are
  not paused and stay blocked, so `clusterctl move` waits for them.
* `Nodes`: a Node that is deleted by hand and joins again is not looked for.  A Node left
  behind without a providerID is taken for the next machine's; a
  Node named after its machine that registers again after a move, with the old label,
  is not found.
* `Conversion`, `Webhooks`, `Rendering`: `noCloudProvider` of a v1beta1 client is
  dropped; a Metal3Machine whose hub copy has no checksum loses one that a v1beta1
  client adds; a port of 2^32 + 443 is stored as 443; a Metal3Data without an index becomes index 0 under any name; an
  unchanged write-back of a Metal3DataTemplate is refused when conversion turned a nil
  into something else; DNS servers from a pool in metaData are claimed and never
  rendered; offset + index * step wraps around.

### Fairness

* `WF(Worker(m))`, `WF(TemplateWorker)`, `WF(DataWorker(i))`: errors requeue with
  back-off, waits requeue after a delay, and the resync period runs every key again.
* `SF(AssociateLock(m))`: Go's mutex hands over to a waiter that starves.
* `WF` of informers, operator, garbage collector and IP address manager: they run on
  their own and nothing in these controllers keeps them from it.
* `SF(MachineGone)` in `DataTemplate`: a deleted machine's host is released in the
  end, which is `DeletionCompletes` of the other module.
* `WF(Worker)` and `WF(TimeOut)` in `Remediation`: every wait is a requeue, and time
  passes.  `SF(SwitchToWaiting)`: the out-of-service taint makes Kubernetes delete the
  pods and detach the volumes of a node, so a tainted node is seen drained in the end.
* `WF(Reconcile(m))`, `WF(SyncLabels(h))` in `Nodes`, `WF(Reconcile(m))`,
  `WF(ReconcileCluster)`, `WF(ReconcileTemplate)` in `Cluster`: requeues, watches and
  the resync period, as above; a failed call is bounded by `MaxEvents`.
  `WF(SetNodeRef)`, `WF(CloudProvider)`, `WF(SetOwner)`, `WF(SetInfrastructureReady)`:
  Cluster API and the cloud provider run on their own.  `SF(InformerSync)` in `Cluster`: an informer delivers what
  changed although it may be up to date, or the manager restarted, in between.
* None for users, kubelets, `clusterctl`, health checks, bootstrap providers, crashes and
  failed calls.

## 4. Proofs

`Metal3MachineProofs`, for every set of machines, hosts and deployments, every
configuration and every `MaxFaults`:

| Theorem | Statement | Assumes |
|---|---|---|
| `TypeCorrect` | `Spec => []TypeOK` | - |
| `MutexCoversAssociation` | `Spec => []AssociationIsExclusive` | - |
| `NeverTwoHosts` | `Spec => []OneHostPerMachine` | `HostChurn = {}` |
| `AnnotationAgrees` | `Spec => []AnnotationMatchesConsumer` | `HostChurn = {}` |
| `LabelMeansCluster` | `Spec => []ReuseLabelMeansCluster` | `HostChurn = {}` |
| `NoTheft` | `Spec => ConsumerNotStolen` | `HostChurn = {}` |
| `HostPoolRefined` | `Spec => ImplementsHostPool` | `HostChurn = {}` |

`ProvisioningProofs`, for the same:

| Theorem | Statement | Assumes |
|---|---|---|
| `NeverReleasedRunning` | `Spec => []RunningHostIsOwned` | `HostChurn = {}` |
| `ImageBelongsToConsumer` | `Spec => []ImageIsConsumers` | `HostChurn = {}` |
| `ReleasedIsClean` | `Spec => []ReleasedHostIsClean` | `HostChurn = {}` |

Those that assume it need that hosts are not deleted and enrolled again; without that
they do not hold (see above).  `AssociationIsExclusive` (at most one worker is between
choosing a host and writing its ConsumerRef) and `ReuseLabelMeansCluster` (a host with
a node-reuse label is the cluster's, not a machine's) are proved and not checked by a
run.

The argument.  `TypeOK` alone is not inductive: `TypeInv` adds that a worker about
to write a host has read one.  The inductive invariant for the rest is `Ownership`:

* the mutex covers an association, so between `AssociateChoose` and `AssociatePatch`
  no other worker gives a host away, and the chosen host is still nobody's
  (`ChoiceIsGood`);
* a deletion is known to the API server, then to the cache, then to the worker
  (`DeletionSpreads`), so a worker that still updates a host is one whose machine has
  not released it;
* until the worker is releasing, the API server's, the cache's and the worker's copy
  of the machine name a host whose consumer it is (`CopiesAgree`); this is what makes
  stale caches harmless, and what fails when a host comes back under its name;
* the consumer and label a worker read of a host are still so when it writes
  (`ReadIsFresh`), and the host it updates or deletes is its own (`HeldIsOwn`), so a
  merge patch of an old copy undoes nothing;
* a machine's host is one its selector matches (`OwnIsSelected`), so `chooseHost`
  finds it again after a crash; with `OneHostPerMachine` and
  `ReuseLabelMeansCluster` this gives the theorems.

The proof has one lemma for the steps that change no owner (`WorkerStep`), one each
for the two that do (`AssociateStep`, `DeleteStep`), and `Bystander` and
`OtherWorker` for the machines that do not move.  The refinement needs no more: with
`Ownership`, only `AssociatePatch` and `DeletePatch` change an owner, and they are `Take`
and `GiveUp`.

What is on a host is the subject of `Content`, the inductive invariant of
`ProvisioningProofs`: `Ownership`, the three properties themselves, and two facts that
make them inductive.  `IdleHostIsEmpty`: a host the operator reports as
registering or available has nothing on its disk.  `SpecIsFresh`: the image and
userData a worker read of a host are still there when it writes, a host it saw idle and
without an image is idle still, and the secret has lost its label before the host is
given up, unless something failed.  So `DeletePatch` releases a
host only after a deprovisioning that it saw, and `setHostSpec`, which leaves an image
that is already there alone, finds none but its own.

`RemediationProofs`, for every set of modes, every `RetryLimit` and `MaxFaults`:

| Theorem | Statement | Assumes |
|---|---|---|
| `RemediationTypes` | `Spec => []TypeOK` | - |
| `EvictionIsSafe` | `Spec => NodeEvictedWhenOff` | - |
| `GivenUpLast` | `Spec => []GivenUpAfterRetries` | - |
| `NoOrphanedPowerOff` | `Spec => []PowerOffIsGuarded` | `Lag = FALSE` |

`NodeEvictedWhenOff` follows from `OffWhenEvicting`: a worker about to evict has seen
the host off, and the annotation that keeps it off is its own.  `GivenUpAfterRetries`
needs `Attempts`: in every copy of the Metal3Remediation, old ones too, the attempts
before the counted one have timed out.  `PowerOffIsGuarded` needs `Guarded`: while a
worker that started with a fresh copy works, the finalizer on the API server is the
one it read, it asks for power-off only with it, and drops it only after it has taken
the request back.

`DataTemplateProofs`, for every set of claims, every number of indexes and whatever may
be deleted:

| Theorem | Statement | Assumes |
|---|---|---|
| `DataTemplateTypes` | `Spec => []TypeOK` | - |
| `ClaimsHaveOneData` | `Spec /\ [][FreshRound]_vars => []OneDataPerClaim` | - |
| `StaleRoundsAreRefused` | `Spec => []OneDataPerClaim` | `Deletable \cap Claims = {}` |
| `FinalizerHolds` | `Spec /\ [][FreshRound]_vars => TemplateFinalizerHolds` | - |
| `RenderedDataOwned` | `Spec /\ [][FreshRound /\ ~Torn]_vars => []RenderedDataIsOwn` | - |
| `AddressesAreHeld` | `Spec /\ [][FreshRound /\ FreshRead /\ ~Torn]_vars => []AddressHeldWhileRunning` | `Pool = TRUE` |

The caches may lag and calls may fail, but for what the hypotheses name.  `FreshRound`: a
round of the template controller starts from lists that are up to date.  `FreshRead`: a
worker of a Metal3Data reads that one up to date.  `Torn`, which must not happen: a
Metal3Data of a deleted claim was deleted, and the manager stops, or the patch of the
claim's status fails, before the claim has forgotten it.

A round of the template controller works for long on the lists it started from.
`Entries`, a part of `RoundInv`, says that all the same no Metal3Data appears behind its
back: every one that exists is an entry of the round's indexes, under its claim, or
belongs to a claim the round deletes.  The first index that is not an entry is free
(`FreeIndexIsFree`: the gap is found because no more indexes are in use than there are
entries), which gives one Metal3Data per claim.  A round that decided to remove the
template's finalizer had no entries, so there is nothing left (`Verdict`).  Both hold
with any crashes and failed calls.

With stale lists the same holds as long as no machine is deleted, for another reason:
Metal3Data fill the indexes from 0 without a gap (`Filled`), a stale round starts at one
of them, and the API server refuses to create what exists.  A deletion makes a gap, and
then a stale round can give a claim a second Metal3Data (section 3).

`RenderedDataIsOwn` needs `ReferenceInv`.  The name in a claim's status is used to look
up the Metal3Data that is deleted with the claim, so it must not outlive it: a claim
refers to a live Metal3Data of its own, or the round at hand has just deleted that and is
about to clear the reference (`References`, `Forgetting`); a Metal3Data that is being
deleted belongs to a claim that is gone or going for good (`DeletedAreDead`); what the
round listed of the claims it has still to handle is still so (`Round`, `Current`).  A
failure between the deletion and the patch of the claim (`Torn`) breaks this, as does a
stale list: the index is given away and the old claim, handled again, deletes the
Metal3Data of the new one.  TLC finds both, so neither hypothesis can be dropped; a crash
or a failed call anywhere else does no harm.

`AddressHeldWhileRunning` needs `LeaseInv`: an IPClaim has the name of an index, not of
a claim, so a worker of an old Metal3Data may meet the one of its successor.  Such a
worker works for a dead claim (`DataAtHand`), and it releases only what is its own or a
dead claim's (`Leases`); hence the secret of a running machine has its address
(`Secrets`).  `Pool = TRUE` says that the template refers to a pool; without one no
address is rendered.

`ClusterProofs`, for all machines, hosts and cleaning modes and any number of moves,
crashes, failures and edits:

| Theorem | Statement | Assumes |
|---|---|---|
| `ClusterTypes` | `Spec => []TypeOK` | - |
| `TemplateTouchesMode` | `Spec => TemplateOnlyTouchesMode` | - |
| `MachinesGoBeforeCluster` | `Spec => MachinesGoFirst` | - |
| `HandOverIsSafe` | `Spec /\ []Apart => HandOver` | `Apart`: no two workers have the same host at hand |
| `SoleWorkerIsApart` | `Spec => []Apart /\ HandOver` | one owned machine |

`MachinesGoFirst` is the safety half of `ClusterOutlivesMachines`; it holds although
Machines are counted in a cache, because a cache that lags behind deletions has every
Machine there is (`CacheBehind`).  The Machines of the model are there from the start:
the theorem does not cover one that is created while the cluster is deleted, which
Cluster API does not do.  `HandOver` needs `PauseInv`: between its patches a worker
knows whether its host is paused and its status saved.  That is true only while no
other worker patches the host, which is what `Apart` says.  The code does not guarantee
it (`RemovePauseAnnotation` does not look at the ConsumerRef, section 3), so the theorem
says exactly what the property depends on, and `SoleWorkerIsApart` that the instance of
the run has it.

`NodesProofs`, for all machines, hosts and modes and any number of moves and events:

| Theorem | Statement | Assumes |
|---|---|---|
| `NodesTypes` | `Spec => []TypeOK` | - |
| `PidIdentifies` | `Spec => []PidIdentifiesNode` | - |
| `SyncIsHarmless` | `Spec => SyncOnlyTouchesItsLabels` | - |

The invariant `NodesInv` follows a providerID back to where it came from.  A host has one
live machine, the last it was given to (`HostsInTurn`); a Node runs where its name tells
(`NodesAreNamed`), so with Nodes named after hosts the host identifies it.  With Nodes
named after machines, one that was given its providerID by kubelet or the cloud provider
has its own machine's (`GivenNamesMachine`), and one that got it from the controller
was found by its label, is no older than the machine it names and on its host
(`FoundIsRecent`); a worker about to patch has looked, and no other Node can get that
providerID before it does (`TargetIsOwn`).

`ConversionProofs` and `APIServerProofs`, for whatever clients of both versions send:

| Theorem | Statement | Assumes |
|---|---|---|
| `StoredObjectsAreValid` | `Spec => []StoredIsValid` | - |
| `ConversionTypes` | `Spec => []TypeOK` | - |
| `WriteBackIsHarmless` | `Spec => []WriteBackHarmless` | - |
| `EditsStick` | `Spec => []EditSticks` | - |
| `StatusIsKept` | `Spec => []StatusKept` | - |
| `SecretsStayTrue` | `Spec => []SecretIsTemplates` | - |
| `ClaimedPoolsSuffice` | `Spec => []ClaimsSuffice` | - |

They hold for all nine kinds, every machine, host and set of pools.  Of each kind
`ConversionProofs` shows laws (`Lawful`): both conversions keep the types, converting back
and forth keeps the meaning, what was edited is found again, defaults are applied once;
and for the four kinds with a status (`StatusLawful`) that the status comes back as it
was.  `APIInv` says that what is stored has its defaults and is valid and that a client's
copy is something that was once stored; the laws then give the theorems for every later
request.

The kinds with maps need to know that the keys of a map can be sorted at all, or
`SortedBy` would be any value.  That is an induction on the number of keys, which is
written out as an argument about the least number of keys that cannot be sorted: take
away a least one, sort the rest, put it in front.  The rest is then about positions: a map
becomes a list with each key once, and a list with each name once becomes the map with
those entries.  Of a Metal3DataTemplate metaData and networkData come back with the same
meaning for a reason of their own: the webhook compares them with what is stored and
refuses the update otherwise.

`SecretIsTemplates` needs no more than that rendering reads metaData and networkData only
(`RenderedFromData`), which no accepted update changes.

`ClaimsSuffice` compares two traversals of a template, so its proof follows them: every
place where rendering looks a pool up (an item of metaData, a network, its services, the
gateway and the services of a route, by name, reference or annotation) is one where
`getReferencedPools` has added it, and from there up the rendered parts are equal one
list element at a time.  Its hypothesis that no route of a DHCP or SLAAC network takes its
pool from an annotation is the one place where the traversals differ, which is the
finding of `unclaimed_pool`.

The assumptions on constants are in the modules (`ConfigAssumption`, `DataAssumption` and their like):
sets are what their names say and finite where something is counted, `None` and `Nil` are
no object, clients send what the types allow.  TLC evaluates them in every run.

Only model-checked:

* the liveness properties, among them the other half of `ClusterOutlivesMachines`:
  fairness and `ENABLED` are out of the prover's reach;
* `HandOver` with more than one worker on a host, and `RenderedDataIsOwn` and
  `AddressHeldWhileRunning` without the hypotheses above, which do not hold.

## 5. Not modelled

* Metrics, logging, events, conditions, start-up, remote clients: I/O, or without
  influence on the state above.  Generated deep copies: values of TLA+ are not shared.
  The fake API server and the release tools are not part of the provider.
* The CRD schemas, which are generated, and fields that conversion copies as they are.
* In `Metal3Machine` hosts are not externally provisioned, the owner chain (Machine,
  Cluster) exists and the Cluster's infrastructure is ready.
* In `DataTemplate` preallocation by host name is off, pausing (an early return) is left
  out, and one pool of the Metal3 IP address manager stands for all pools; the claims of
  the Cluster API IPAM contract go through the same steps.
* The text that metaData and networkData are marshalled into.

## 6. Plan

1. Done: `Metal3Machine`, `DataTemplate`, `Remediation`, `Cluster`, `Nodes`, `APIServer`
   with `Conversion`, `Webhooks` and `Rendering`; `HostPool` and its refinement; the
   theorems of section 4.
2. The composition of `Metal3Machine` and `DataTemplate`: the claim, and with it the
   address, is given up before the host is wiped.
3. Proofs: every invariant that a run checks is proved, some under the assumptions of
   section 4.
4. Liveness of the release of an address, from the deletion of its machine on, for a template controller whose patch of
   the finalizers carries a resource version.
