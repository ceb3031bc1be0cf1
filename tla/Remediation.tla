---------------------------- MODULE Remediation ----------------------------
(***************************************************************************)
(* The Metal3Remediation controller with the reboot strategy: an unhealthy *)
(* host is powered off, its node is taken out of service (deleted, or      *)
(* tainted where the cluster supports it), the host is powered on again    *)
(* and the node restored; after a time-out this is tried again, and after  *)
(* the last one the machine is given up.                                   *)
(*                                                                         *)
(* One Metal3Remediation with its worker.  It is read from an informer     *)
(* cache; the host and the node are read live.  The worker is cut at the   *)
(* calls whose result others can change.  It alone writes its power-off    *)
(* annotation (the key holds its UID), so reading that and writing it are  *)
(* one step.  The deferred patch is two calls: metadata, then status.      *)
(*                                                                         *)
(* Abstractions: the owning machine keeps its host while it exists and has *)
(* a node reference; lastRemediated is identified with the number of the   *)
(* attempt it is written for; annotations and labels of the node are one   *)
(* field: "own" with what users put there, "fresh" as a kubelet registers  *)
(* them.                                                                   *)
(***************************************************************************)
EXTENDS Naturals

CONSTANTS Modes,       \* how nodes are taken out of service
          RetryLimit,  \* spec.strategy.retryLimit
          HostsOffline,\* TRUE: spec.online of the host may change
          Lag,         \* TRUE: the cache may be behind when a reconcile starts
          MaxFaults    \* bound on crashes and failed API calls

\* "forbidden": a workload cluster without access to nodes.
ASSUME RemediationAssumption ==
    /\ Modes \subseteq {"delete", "taint", "forbidden"}
    /\ RetryLimit \in Nat /\ MaxFaults \in Nat
    /\ HostsOffline \in BOOLEAN /\ Lag \in BOOLEAN

VARIABLES mode,
          cr,       \* the Metal3Remediation on the API server
          cache,    \* the informer's copy
          host,     \* the BareMetalHost
          node,     \* the Node in the workload cluster
          machine,  \* the Machine that owns the Metal3Remediation
          expired,  \* attempts whose time-out is over
          pc,       \* the worker: next call,
          mem,      \*   its copy of the Metal3Remediation,
          base,     \*   as it was read,
          seen,     \*   the node it read
          faults

worker == <<pc, mem, base, seen>>
vars == <<mode, cr, cache, host, node, machine, expired, worker, faults>>

----------------------------------------------------------------------------
(* Objects. *)

Labels == {"none", "own", "fresh"}

\* backup: the node's annotations and labels, kept as annotations.
CR == [ex : BOOLEAN, del : BOOLEAN, fin : BOOLEAN,
       phase : {"none", "Running", "Waiting", "Deleting", "Failed"},
       retry : 0..RetryLimit, backup : Labels]
NewCR == [ex |-> TRUE, del |-> FALSE, fin |-> FALSE, phase |-> "none",
          retry |-> 0, backup |-> "none"]
NoCR == [NewCR EXCEPT !.ex = FALSE]

\* online: spec.online; off: the power-off annotation; on: status.poweredOn;
\* unhealthy: the unhealthy annotation.
Host == [online : BOOLEAN, off : BOOLEAN, on : BOOLEAN, unhealthy : BOOLEAN]

Node == [ex : BOOLEAN, lab : Labels, taint : BOOLEAN]
NoNode == [ex |-> FALSE, lab |-> "none", taint |-> FALSE]

\* What the API servers, the informer and the worker can hold.
TypeOK ==
    /\ mode \in Modes
    /\ cr \in CR /\ cache \in CR
    /\ host \in Host
    /\ node \in Node /\ seen \in Node
    /\ machine \in {"live", "remediated", "gone"}
    /\ expired \subseteq 0..RetryLimit
    /\ pc \in {"idle", "node", "powerOff", "evict", "powerOn", "isOn",
               "restore", "giveUp", "unhealthy", "patchMeta", "patchStatus"}
    /\ mem \in CR /\ base \in CR
    /\ faults \in 0..MaxFaults

Init ==
    /\ mode \in Modes
    /\ cr = NewCR /\ cache = NewCR
    /\ host = [online |-> TRUE, off |-> FALSE, on |-> TRUE, unhealthy |-> FALSE]
    /\ node = [ex |-> TRUE, lab |-> "own", taint |-> FALSE]
    /\ machine = "live"
    /\ expired = {}
    /\ pc = "idle" /\ mem = NoCR /\ base = NoCR /\ seen = NoNode
    /\ faults = 0

\* A deleted object without finalizers is gone.
Settle(o) == IF o.del /\ ~o.fin THEN NoCR ELSE o

----------------------------------------------------------------------------
(* A reconcile. *)

\* Up to the phase: a host that is to be off is not remediated.
Reconcile ==
    /\ pc = "idle" /\ cache.ex /\ machine # "gone"
    /\ Lag \/ cache = cr
    /\ \/ /\ ~host.online /\ cache.phase # "Failed"
          /\ mem' = [cache EXCEPT !.phase = "Failed"]
          /\ pc' = "patchMeta"
       \/ /\ host.online /\ cache.phase = "none"
          /\ mem' = [cache EXCEPT !.phase = "Running"]
          /\ pc' = "patchMeta"
       \/ /\ host.online /\ cache.phase \in {"Running", "Waiting"}
          /\ mem' = cache
          /\ pc' = "node"
    /\ base' = cache
    /\ UNCHANGED <<mode, cr, cache, host, node, machine, expired, seen, faults>>

\* Mutant: the worker goes on before its finalizer is written.
GetNodeAndGoOn ==
    /\ pc = "node"
    /\ seen' = IF mode = "forbidden" THEN NoNode ELSE node
    /\ mem' = [mem EXCEPT !.fin = @ \/ mem.phase = "Running"]
    /\ pc' = IF mem.phase = "Running" THEN "powerOff" ELSE "powerOn"
    /\ UNCHANGED <<mode, cr, cache, host, node, machine, expired, base, faults>>

\* The node, and the finalizer before anything is done.
GetNode ==
    /\ pc = "node"
    /\ seen' = IF mode = "forbidden" THEN NoNode ELSE node
    /\ \/ /\ mem.phase = "Running" /\ ~mem.fin
          /\ mem' = [mem EXCEPT !.fin = TRUE]
          /\ pc' = "patchMeta"
       \/ /\ mem.phase = "Running" /\ mem.fin
          /\ pc' = "powerOff" /\ UNCHANGED mem
       \/ /\ mem.phase = "Waiting"
          /\ pc' = "powerOn" /\ UNCHANGED mem
    /\ UNCHANGED <<mode, cr, cache, host, node, machine, expired, base, faults>>

----------------------------------------------------------------------------
(* Phase Running: remediateRebootStrategy. *)

\* Mutant: the host counts as off once it was asked to power off.
PowerOffNoWait ==
    /\ pc = "powerOff"
    /\ host' = [host EXCEPT !.off = TRUE]
    /\ pc' = IF host.off THEN "evict" ELSE "patchMeta"
    /\ UNCHANGED <<mode, cr, cache, node, machine, expired, mem, base, seen,
                   faults>>

\* SetPowerOffAnnotation, then wait until the host is off.
PowerOff ==
    /\ pc = "powerOff"
    /\ host' = [host EXCEPT !.off = TRUE]
    /\ pc' = IF host.off /\ ~host.on THEN "evict" ELSE "patchMeta"
    /\ UNCHANGED <<mode, cr, cache, node, machine, expired, mem, base, seen,
                   faults>>

Evicting ==
    /\ pc = "evict" /\ pc' = "patchMeta"
    /\ UNCHANGED <<mode, cr, cache, host, machine, expired, base, seen, faults>>

\* UpdateNode is refused if the node is not the one that was read.
AddOutOfServiceTaint ==
    /\ Evicting
    /\ seen.ex /\ mode = "taint" /\ ~seen.taint
    /\ node' = IF node = seen THEN [node EXCEPT !.taint = TRUE] ELSE node
    /\ UNCHANGED mem

\* IsNodeDrained: pods or volumes are left.
AwaitDrain ==
    /\ Evicting
    /\ seen.ex /\ mode = "taint" /\ seen.taint
    /\ UNCHANGED <<mem, node>>

BackupNode ==
    /\ Evicting
    /\ seen.ex /\ mode = "delete" /\ mem.backup # seen.lab
    /\ mem' = [mem EXCEPT !.backup = seen.lab]
    /\ UNCHANGED node

DeleteNode ==
    /\ Evicting
    /\ seen.ex /\ mode = "delete" /\ mem.backup = seen.lab
    /\ node' = NoNode
    /\ UNCHANGED mem

\* There is no node, or it is drained.
SwitchToWaiting ==
    /\ Evicting
    /\ ~seen.ex \/ (mode = "taint" /\ seen.taint)
    /\ mem' = [mem EXCEPT !.phase = "Waiting"]
    /\ UNCHANGED node

----------------------------------------------------------------------------
(* Phase Waiting. *)

\* Mutant: the power-off annotation stays.
PowerOnForgotten ==
    /\ pc = "powerOn" /\ pc' = "isOn"
    /\ UNCHANGED <<mode, cr, cache, host, node, machine, expired, mem, base,
                   seen, faults>>

\* RemovePowerOffAnnotation.
PowerOn ==
    /\ pc = "powerOn" /\ pc' = "isOn"
    /\ host' = [host EXCEPT !.off = FALSE]
    /\ UNCHANGED <<mode, cr, cache, node, machine, expired, mem, base, seen,
                   faults>>

\* Mutants: the last attempt is not made, one too many is made.
HasReachRetryLimitEarly(o) == o.retry + 1 = RetryLimit
HasReachRetryLimitLate(o) == o.retry > RetryLimit
HasReachRetryLimit(o) == o.retry = RetryLimit
RetryLimitIsSet == RetryLimit > 0
TimeToRemediate(o) == o.retry \in expired

\* Wait for the host, then for the node; then for the node to be healthy and
\* the Metal3Remediation to be deleted, until the time-out.
AwaitNode ==
    /\ pc = "isOn"
    /\ IF ~host.on
       THEN pc' = "patchMeta" /\ UNCHANGED mem
       ELSE \/ /\ mem.fin /\ seen.ex
               /\ pc' = "restore" /\ UNCHANGED mem
            \/ /\ mem.fin /\ mode = "forbidden"
               /\ mem' = [mem EXCEPT !.fin = FALSE] /\ pc' = "patchMeta"
            \/ /\ ~mem.fin \/ (~seen.ex /\ mode # "forbidden")
               /\ \/ /\ ~TimeToRemediate(mem)
                     /\ pc' = "patchMeta" /\ UNCHANGED mem
                  \/ /\ TimeToRemediate(mem)
                     /\ RetryLimitIsSet /\ ~HasReachRetryLimit(mem)
                     /\ mem' = [mem EXCEPT !.phase = "Running",
                                           !.retry = @ + 1]
                     /\ pc' = "patchMeta"
                  \/ /\ TimeToRemediate(mem)
                     /\ ~RetryLimitIsSet \/ HasReachRetryLimit(mem)
                     /\ pc' = "giveUp" /\ UNCHANGED mem
    /\ UNCHANGED <<mode, cr, cache, host, node, machine, expired, base, seen,
                   faults>>

\* An update that is refused is an error ...
RemoveOutOfServiceTaint ==
    /\ pc = "restore" /\ mode = "taint"
    /\ node' = IF node = seen THEN [node EXCEPT !.taint = FALSE] ELSE node
    /\ mem' = IF node = seen \/ ~seen.taint THEN [mem EXCEPT !.fin = FALSE]
              ELSE mem
    /\ pc' = "patchMeta"
    /\ UNCHANGED <<mode, cr, cache, host, machine, expired, base, seen, faults>>

\* ... for the taint, but is only logged for annotations and labels.
RestoreNode ==
    /\ pc = "restore" /\ mode = "delete"
    /\ node' = IF node = seen /\ mem.backup = "own"
               THEN [node EXCEPT !.lab = "own"] ELSE node
    /\ mem' = [mem EXCEPT !.fin = FALSE, !.backup = "none"]
    /\ pc' = "patchMeta"
    /\ UNCHANGED <<mode, cr, cache, host, machine, expired, base, seen, faults>>

\* SetOwnerRemediatedConditionNew, then SetUnhealthyAnnotation.
SetOwnerRemediated ==
    /\ pc = "giveUp" /\ pc' = "unhealthy"
    /\ machine' = IF machine = "live" THEN "remediated" ELSE machine
    /\ UNCHANGED <<mode, cr, cache, host, node, expired, mem, base, seen,
                   faults>>

SetUnhealthyAnnotation ==
    /\ pc = "unhealthy" /\ pc' = "patchMeta"
    /\ host' = [host EXCEPT !.unhealthy = TRUE]
    /\ mem' = [mem EXCEPT !.phase = "Deleting"]
    /\ UNCHANGED <<mode, cr, cache, node, machine, expired, base, seen, faults>>

----------------------------------------------------------------------------
(* The deferred patch. *)

Sent(now, old, new) == IF new # old THEN new ELSE now

PatchMeta ==
    /\ pc = "patchMeta" /\ pc' = "patchStatus"
    /\ cr' = IF cr.ex
             THEN Settle([cr EXCEPT !.fin = Sent(@, base.fin, mem.fin),
                                    !.backup = Sent(@, base.backup, mem.backup)])
             ELSE cr
    /\ UNCHANGED <<mode, cache, host, node, machine, expired, mem, base, seen,
                   faults>>

Done == pc' = "idle" /\ mem' = NoCR /\ base' = NoCR /\ seen' = NoNode

PatchStatus ==
    /\ pc = "patchStatus" /\ Done
    /\ cr' = IF cr.ex
             THEN [cr EXCEPT !.phase = Sent(@, base.phase, mem.phase),
                             !.retry = Sent(@, base.retry, mem.retry)]
             ELSE cr
    /\ UNCHANGED <<mode, cache, host, node, machine, expired, faults>>

Worker ==
    \/ Reconcile \/ GetNode \/ PowerOff
    \/ AddOutOfServiceTaint \/ AwaitDrain \/ BackupNode \/ DeleteNode
    \/ SwitchToWaiting
    \/ PowerOn \/ AwaitNode \/ RemoveOutOfServiceTaint \/ RestoreNode
    \/ SetOwnerRemediated \/ SetUnhealthyAnnotation
    \/ PatchMeta \/ PatchStatus

----------------------------------------------------------------------------
(* Faults. *)

Fault == faults < MaxFaults /\ faults' = faults + 1

\* A call fails: the handler returns and the deferred patch runs; the patch
\* helper goes on to the status after a failed metadata patch.
CallFails ==
    /\ Fault
    /\ pc \notin {"idle", "restore"} /\ (pc = "evict" => seen.ex)
    /\ IF pc = "patchStatus" THEN Done
       ELSE /\ pc' = IF pc = "patchMeta" THEN "patchStatus" ELSE "patchMeta"
            /\ UNCHANGED <<mem, base, seen>>
    /\ UNCHANGED <<mode, cr, cache, host, node, machine, expired>>

\* UpdateNode fails while the node is restored.
RestoreFails ==
    /\ Fault
    /\ pc = "restore" /\ pc' = "patchMeta"
    /\ mem' = IF mode = "delete"
              THEN [mem EXCEPT !.fin = FALSE, !.backup = "none"] ELSE mem
    /\ UNCHANGED <<mode, cr, cache, host, node, machine, expired, base, seen>>

\* The manager restarts: its worker is lost, its cache filled again.
Crash ==
    /\ Fault
    /\ Done
    /\ cache' = cr
    /\ UNCHANGED <<mode, cr, host, node, machine, expired>>

----------------------------------------------------------------------------
(* The environment. *)

CacheSync ==
    /\ cache # cr
    /\ cache' = cr
    /\ UNCHANGED <<mode, cr, host, node, machine, expired, worker, faults>>

\* The MachineHealthCheck, when the node is healthy, or the garbage collector,
\* when the machine is gone, deletes the Metal3Remediation.
DeleteRemediation ==
    /\ cr.ex /\ ~cr.del
    /\ cr' = Settle([cr EXCEPT !.del = TRUE])
    /\ UNCHANGED <<mode, cache, host, node, machine, expired, worker, faults>>

\* The owner of a machine that was given up deletes it.
DeleteMachine ==
    /\ machine = "remediated"
    /\ machine' = "gone"
    /\ UNCHANGED <<mode, cr, cache, host, node, expired, worker, faults>>

\* The BareMetalHost operator turns the host off and on.
BMOPower ==
    /\ host.on # (host.online /\ ~host.off)
    /\ host' = [host EXCEPT !.on = ~@]
    /\ UNCHANGED <<mode, cr, cache, node, machine, expired, worker, faults>>

\* A user, or Delete of the Metal3Machine controller, changes spec.online.
SetOnline ==
    /\ HostsOffline
    /\ host' = [host EXCEPT !.online = ~@]
    /\ UNCHANGED <<mode, cr, cache, node, machine, expired, worker, faults>>

\* The kubelet of a host that runs registers its node, if it can.
RegisterNode ==
    /\ host.on /\ ~node.ex
    /\ node' = [ex |-> TRUE, lab |-> "fresh", taint |-> FALSE]
    /\ UNCHANGED <<mode, cr, cache, host, machine, expired, worker, faults>>

\* timeoutSeconds have passed since lastRemediated.
TimeOut ==
    /\ cr.ex /\ cr.phase # "none" /\ cr.retry \notin expired
    /\ expired' = expired \cup {cr.retry}
    /\ UNCHANGED <<mode, cr, cache, host, node, machine, worker, faults>>

Next ==
    \/ Worker
    \/ CallFails \/ RestoreFails \/ Crash
    \/ CacheSync \/ DeleteRemediation \/ DeleteMachine
    \/ BMOPower \/ SetOnline \/ RegisterNode \/ TimeOut

Spec == Init /\ [][Next]_vars

\* Requeues run the worker again and again; informers and the operator make
\* progress, time passes, and the out-of-service taint makes Kubernetes remove
\* pods and volumes, so that a node is drained in the end.  Users, health
\* checks and kubelets owe nothing.
Fairness ==
    /\ WF_vars(Worker) /\ SF_vars(SwitchToWaiting)
    /\ WF_vars(CacheSync) /\ WF_vars(BMOPower) /\ WF_vars(TimeOut)

FairSpec == Spec /\ Fairness

----------------------------------------------------------------------------
(* Properties. *)

\* "Delete the node only after the host is powered off": a node is deleted or
\* tainted, so that its workload starts elsewhere, only while the host is off
\* and stays off (remediateRebootStrategy).
Evicted == (node.ex /\ ~node'.ex) \/ (node'.taint /\ ~node.taint)
NodeEvictedWhenOff == [][Evicted => ~host.on /\ host.off]_vars

\* A host is told to stay off only by a remediation that exists and that the
\* API server keeps until the host is on again (SetFinalizer, UnsetFinalizer).
PowerOffIsGuarded == host.off => cr.ex /\ cr.fin

\* A machine is given up only after every attempt has had its time, whatever
\* was retried or read from an old cache (TimeToRemediate, IncreaseRetryCount).
GivenUpAfterRetries == machine # "live" => expired = 0..RetryLimit

\* A host that was told to power off is told to power on again, with or
\* without its node, unless it was set offline meanwhile (PhaseFailed).
PowerOffEnds == host.off ~> ~host.off \/ cr.phase = "Failed"

=============================================================================
