------------------------------ MODULE Cluster ------------------------------
(***************************************************************************)
(* A cluster as a whole: its Metal3Cluster, the pausing of its hosts with  *)
(* the hand-over to clusterctl move, and the Metal3MachineTemplate whose   *)
(* automatedCleaningMode its Metal3Machines follow.                        *)
(*                                                                         *)
(* A Metal3Machine's worker begins every reconcile with the host: it sees  *)
(* to the block-move annotation, then sets or removes the pause annotation *)
(* as the Cluster says, each a read and one to three patches, cut here at  *)
(* every patch.  The Cluster and the Metal3Machines are read from caches,  *)
(* hosts are read live.  Patches change the fields they name and carry no  *)
(* resource version; the template controller's Update carries one.         *)
(*                                                                         *)
(* Abstractions: one template; the association and the release of a host,  *)
(* which module Metal3Machine has in detail, are one step each and need no *)
(* image; a host's status is abstracted to whether a copy of it is in the  *)
(* status annotation; the Metal3Cluster's reconcile, whose one write is    *)
(* its patch at the end, is one step; its control plane endpoint is valid, *)
(* as the webhooks see to; conditions and events are left out.             *)
(***************************************************************************)
EXTENDS Naturals, FiniteSets

CONSTANTS Machines, Hosts, None,
          Owned,      \* machines whose Machine is set as their owner
          Cloned,     \* machines cloned from the template
          CleaningModes,  \* values of automatedCleaningMode
          MaxMoves,   \* bound on clusterctl move
          MaxEvents   \* bound on crashes, failed calls, edits and deletions

ASSUME ClusterAssumption ==
    /\ None \notin Machines \cup Hosts \cup CleaningModes
    /\ IsFiniteSet(Machines)
    /\ Owned \subseteq Machines /\ Cloned \subseteq Machines
    /\ MaxMoves \in Nat /\ MaxEvents \in Nat

VARIABLES paused,    \* Cluster.spec.paused
          infra,     \* its condition InfrastructureReady
          seen,      \* the informer's copy of both
          m3c,       \* the Metal3Cluster
          m3m,       \* Metal3Machines, each with its Machine
          cache,     \* the informer's copy of them
          bmh,       \* BareMetalHosts
          template,  \* the template's automatedCleaningMode
          pc,        \* the next step of each Metal3Machine's worker
          mem,       \* what it read: the machine and the Cluster's pause
          list,      \* what the template's worker read and has left to do
          moves, events

vars == <<paused, infra, seen, m3c, m3m, cache, bmh, template, pc, mem, list,
          moves, events>>

----------------------------------------------------------------------------
(* Objects. *)

\* del: deletionTimestamp.  ann: the HostAnnotation.  ready: provisioned,
\* its Machine has a nodeRef.  mode: automatedCleaningMode.
M3M == [exists : BOOLEAN, del : BOOLEAN, ann : Hosts \cup {None},
        ready : BOOLEAN, mode : CleaningModes \cup {None}]
NewM3M == [exists |-> TRUE, del |-> FALSE, ann |-> None, ready |-> FALSE,
           mode |-> None]
NoM3M == [NewM3M EXCEPT !.exists = FALSE]

\* The ConsumerRef (and with it the cluster label), the block-move and pause
\* annotations, and whether the status annotation is there.
BMH == [consumer : Machines \cup {None}, block : BOOLEAN,
        pause : {"no", "capm3", "user"}, saved : BOOLEAN]
NewBMH == [consumer |-> None, block |-> FALSE, pause |-> "no",
           saved |-> FALSE]

\* owner: the OwnerRef that names the Cluster.  published: the status has the
\* failureDomains of the spec.  ready: the condition
\* BaremetalInfrastructureReady, which the Ready condition sums up.
M3C == [exists : BOOLEAN, del : BOOLEAN, fin : BOOLEAN, owner : BOOLEAN,
        published : BOOLEAN, ready : BOOLEAN]
NewM3C == [exists |-> TRUE, del |-> FALSE, fin |-> FALSE, owner |-> FALSE,
           published |-> FALSE, ready |-> FALSE]

\* The Cluster.
Capi == [paused : BOOLEAN, infra : BOOLEAN]
theCluster == [paused |-> paused, infra |-> infra]

Mem == [m3m : M3M, paused : BOOLEAN]
NoMem == [m3m |-> NoM3M, paused |-> FALSE]

List == [todo : SUBSET Machines, items : [Machines -> M3M],
         mode : CleaningModes \cup {None}]
NoList == [todo |-> {}, items |-> [m \in Machines |-> NoM3M], mode |-> None]

\* What the management cluster and the workers can hold; a worker at a step on
\* its host has one.
TypeOK ==
    /\ paused \in BOOLEAN /\ infra \in BOOLEAN /\ seen \in Capi
    /\ m3c \in M3C
    /\ m3m \in [Machines -> M3M] /\ cache \in [Machines -> M3M]
    /\ bmh \in [Hosts -> BMH]
    /\ template \in CleaningModes \cup {None}
    /\ pc \in [Machines -> {"idle", "ensure", "pause", "pauseBlock",
                            "pauseSet", "unblock", "unblockStale", "resume",
                            "resumePatch", "work"}]
    /\ mem \in [Machines -> Mem]
    /\ \A m \in Machines : pc[m] \notin {"idle", "work"} => mem[m].m3m.ann # None
    /\ list \in List
    /\ moves \in 0..MaxMoves /\ events \in 0..MaxEvents

Init ==
    /\ paused = FALSE /\ infra = FALSE /\ seen = theCluster
    /\ m3c = NewM3C
    /\ m3m = [m \in Machines |-> NewM3M]
    /\ cache = m3m
    /\ bmh = [h \in Hosts |-> NewBMH]
    /\ template = None
    /\ pc = [m \in Machines |-> "idle"]
    /\ mem = [m \in Machines |-> NoMem]
    /\ list = NoList
    /\ moves = 0
    /\ events = 0

Event == events < MaxEvents /\ events' = events + 1

\* A call to the API server succeeds or fails.
Call(ok) == IF ok THEN UNCHANGED events ELSE Event

----------------------------------------------------------------------------
(* The Metal3Machine worker: block-move, pause, and then its work. *)

goto(m, label) == pc' = [pc EXCEPT ![m] = label]

\* The reconcile is over; the worker forgets what it read.
finish(m) == goto(m, "idle") /\ mem' = [mem EXCEPT ![m] = NoMem]

\* The host that the machine's annotation names, as the worker read it.
getHost(m) == mem[m].m3m.ann

worker(m, at) ==
    /\ pc[m] = at
    /\ UNCHANGED <<paused, infra, seen, m3c, cache, template, list, moves>>

\* Mutant: forgets that there may be no host.
afterEnsureAlways(m3, stop) == IF stop THEN "pause" ELSE "resume"

\* The next step after EnsureBlockMoveAnnotation, whose errors are only
\* logged.  Without a host there is nothing to pause or resume.
afterEnsure(m3, stop) ==
    IF m3.ann # None THEN IF stop THEN "pause" ELSE "resume"
    ELSE IF stop THEN "idle" ELSE "work"

\* A reconcile begins: Cluster and Metal3Machine from the cache, then the
\* host.  A Metal3Machine without its owner is left alone, and so is one of a
\* Cluster whose infrastructure is not ready, paused or not.
EnsureBlockMoveAnnotation(m) ==
    /\ worker(m, "idle")
    /\ m \in Owned /\ cache[m].exists /\ seen.infra /\ m3c.exists
    /\ LET m3 == cache[m]
           missing == /\ m3.ann # None
                      /\ bmh[m3.ann].consumer = m
                      /\ ~bmh[m3.ann].block
                      /\ bmh[m3.ann].pause = "no"
           next == IF missing THEN "ensure" ELSE afterEnsure(m3, seen.paused)
       IN /\ goto(m, next)
          /\ mem' = [mem EXCEPT ![m] =
                IF next = "idle" THEN NoMem
                ELSE [m3m |-> m3, paused |-> seen.paused]]
    /\ UNCHANGED <<m3m, bmh, events>>

EnsurePatch(m, ok) ==
    /\ worker(m, "ensure")
    /\ Call(ok)
    /\ bmh' = IF ok THEN [bmh EXCEPT ![getHost(m)].block = TRUE] ELSE bmh
    /\ goto(m, afterEnsure(mem[m].m3m, mem[m].paused))
    /\ UNCHANGED <<m3m, mem>>

\* Mutant: a host that is paused already is left as it is.
SetPauseAnnotationPaused(m, ok) ==
    /\ worker(m, "pause")
    /\ Call(ok)
    /\ LET b == bmh[getHost(m)] IN
       \/ (~ok \/ b.pause # "no") /\ finish(m)
       \/ /\ ok /\ b.pause = "no"
          /\ goto(m, IF b.block THEN "pauseSet" ELSE "pauseBlock")
          /\ UNCHANGED mem
    /\ UNCHANGED <<m3m, bmh>>

\* A host that is paused already only loses its block-move annotation.
\* Otherwise: block-move, then pause with a copy of the status, then no
\* block-move, in three patches computed from one read.
SetPauseAnnotation(m, ok) ==
    /\ worker(m, "pause")
    /\ Call(ok)
    /\ LET b == bmh[getHost(m)] IN
       \/ /\ ~ok \/ (b.pause # "no" /\ ~b.block)
          /\ finish(m)
       \/ /\ ok /\ (b.pause = "no" \/ b.block)
          /\ goto(m, IF b.pause # "no" THEN "unblockStale"
                     ELSE IF b.block THEN "pauseSet" ELSE "pauseBlock")
          /\ UNCHANGED mem
    /\ UNCHANGED <<m3m, bmh>>

PauseBlockPatch(m, ok) ==
    /\ worker(m, "pauseBlock")
    /\ Call(ok)
    /\ IF ok THEN /\ bmh' = [bmh EXCEPT ![getHost(m)].block = TRUE]
                  /\ goto(m, "pauseSet") /\ UNCHANGED mem
             ELSE finish(m) /\ UNCHANGED bmh
    /\ UNCHANGED m3m

\* Mutant: goes on after a failed patch.
PauseSetPatchUnchecked(m, ok) ==
    /\ worker(m, "pauseSet")
    /\ Call(ok)
    /\ bmh' = IF ok THEN [bmh EXCEPT ![getHost(m)].pause = "capm3",
                                     ![getHost(m)].saved = TRUE]
              ELSE bmh
    /\ goto(m, "unblock")
    /\ UNCHANGED <<m3m, mem>>

PauseSetPatch(m, ok) ==
    /\ worker(m, "pauseSet")
    /\ Call(ok)
    /\ IF ok THEN /\ bmh' = [bmh EXCEPT ![getHost(m)].pause = "capm3",
                                        ![getHost(m)].saved = TRUE]
                  /\ goto(m, "unblock") /\ UNCHANGED mem
             ELSE finish(m) /\ UNCHANGED bmh
    /\ UNCHANGED m3m

UnblockPatch(m, ok) ==
    /\ worker(m, "unblock") \/ worker(m, "unblockStale")
    /\ Call(ok)
    /\ bmh' = IF ok THEN [bmh EXCEPT ![getHost(m)].block = FALSE] ELSE bmh
    /\ finish(m)
    /\ UNCHANGED m3m

\* Mutant: looks for the user's pause.
RemovePauseAnnotationUsers(m, ok) ==
    /\ worker(m, "resume")
    /\ Call(ok)
    /\ LET b == bmh[getHost(m)] IN
       IF ~ok THEN finish(m)
       ELSE /\ goto(m, IF b.pause = "user" /\ b.consumer # None
                       THEN "resumePatch" ELSE "work")
            /\ UNCHANGED mem
    /\ UNCHANGED <<m3m, bmh>>

\* Only the controller's own pause is removed, and only from a host with the
\* cluster's label.
RemovePauseAnnotation(m, ok) ==
    /\ worker(m, "resume")
    /\ Call(ok)
    /\ LET b == bmh[getHost(m)] IN
       IF ~ok THEN finish(m)
       ELSE /\ goto(m, IF b.pause = "capm3" /\ b.consumer # None
                       THEN "resumePatch" ELSE "work")
            /\ UNCHANGED mem
    /\ UNCHANGED <<m3m, bmh>>

ResumePatch(m, ok) ==
    /\ worker(m, "resumePatch")
    /\ Call(ok)
    /\ IF ok THEN /\ bmh' = [bmh EXCEPT ![getHost(m)].pause = "no"]
                  /\ goto(m, "work") /\ UNCHANGED mem
             ELSE finish(m) /\ UNCHANGED bmh
    /\ UNCHANGED m3m

\* The rest of the reconcile: a machine without a host gets one that is free
\* and not paused, a machine with one becomes ready, a deleted machine
\* releases its host.
Work(m) ==
    /\ worker(m, "work")
    /\ LET m3 == mem[m].m3m IN
       \/ /\ ~m3.del /\ m3.ann = None
          /\ \E h \in Hosts :
               /\ bmh[h].consumer = None /\ bmh[h].pause = "no"
               /\ \A g \in Hosts : bmh[g].consumer # m
               /\ bmh' = [bmh EXCEPT ![h].consumer = m]
               /\ m3m' = [m3m EXCEPT ![m].ann = h]
       \/ /\ ~m3.del /\ m3.ann = None
          /\ \/ \A h \in Hosts : bmh[h].consumer # None \/ bmh[h].pause # "no"
             \/ \E g \in Hosts : bmh[g].consumer = m
          /\ UNCHANGED <<m3m, bmh>>
       \/ /\ ~m3.del /\ m3.ann # None
          /\ m3m' = [m3m EXCEPT ![m].ready = m3m[m].exists]
          /\ UNCHANGED bmh
       \/ /\ m3.del
          /\ bmh' = [h \in Hosts |->
                IF h # m3.ann \/ bmh[h].consumer # m THEN bmh[h]
                ELSE [bmh[h] EXCEPT !.consumer = None,
                        !.pause = IF @ = "capm3" THEN "no" ELSE @]]
          /\ m3m' = [m3m EXCEPT ![m] = NoM3M]
    /\ finish(m)
    /\ UNCHANGED events

Reconcile(m) ==
    \/ EnsureBlockMoveAnnotation(m)
    \/ Work(m)
    \/ \E ok \in BOOLEAN :
         \/ EnsurePatch(m, ok)
         \/ SetPauseAnnotation(m, ok)
         \/ PauseBlockPatch(m, ok)
         \/ PauseSetPatch(m, ok)
         \/ UnblockPatch(m, ok)
         \/ RemovePauseAnnotation(m, ok)
         \/ ResumePatch(m, ok)

----------------------------------------------------------------------------
(* The Metal3Cluster and Metal3MachineTemplate controllers. *)

\* Mutant: machines that are on their way out do not count.
CountDescendantsLeft ==
    Cardinality({m \in Owned : cache[m].exists /\ ~cache[m].del})

\* Machines, not Metal3Machines, are counted.
CountDescendants == Cardinality({m \in Owned : cache[m].exists})

reconcileClusterNormal(c) == [c EXCEPT !.fin = TRUE, !.ready = TRUE]

\* Without its finalizer a deleted object is gone.
reconcileClusterDelete(c) ==
    IF CountDescendants > 0 THEN c
    ELSE [c EXCEPT !.fin = FALSE, !.exists = FALSE]

\* Mutant: the failure domains are copied after the check for the pause.
ReconcileClusterLate(found, ok) ==
    /\ m3c.exists /\ m3c.owner /\ ~seen.paused /\ found
    /\ Call(ok)
    /\ LET c == [m3c EXCEPT !.published = TRUE]
           new == IF m3c.del THEN reconcileClusterDelete(c)
                  ELSE reconcileClusterNormal(c)
       IN /\ new # m3c
          /\ m3c' = IF ok THEN new ELSE m3c
    /\ UNCHANGED <<paused, infra, seen, m3m, cache, bmh, template, pc, mem,
                   list, moves>>

\* The failure domains are copied before anything else.  A failed look-up of
\* the owner makes the Metal3Cluster not ready; one without an owner, or
\* paused, is left alone.  The patch at the end may fail.
ReconcileCluster(found, ok) ==
    /\ m3c.exists /\ (found \/ m3c.owner)
    /\ Call(found /\ ok)
    /\ LET c == [m3c EXCEPT !.published = TRUE]
           active == m3c.owner /\ ~seen.paused
           new == IF ~found THEN [c EXCEPT !.ready = FALSE]
                  ELSE IF ~active THEN c
                  ELSE IF m3c.del THEN reconcileClusterDelete(c)
                  ELSE reconcileClusterNormal(c)
       IN /\ new # m3c
          /\ m3c' = IF ok THEN new ELSE m3c
    /\ UNCHANGED <<paused, infra, seen, m3m, cache, bmh, template, pc, mem,
                   list, moves>>

\* Mutant: leaves out the clones that have a host.
ListClonesNew ==
    /\ list.todo = {} /\ template # None
    /\ \E m \in Cloned :
         cache[m].exists /\ cache[m].mode # template /\ cache[m].ann = None
    /\ list' = [todo |-> {m \in Cloned : cache[m].exists /\ cache[m].ann = None},
                items |-> cache, mode |-> template]
    /\ UNCHANGED <<paused, infra, seen, m3c, m3m, cache, bmh, template, pc, mem,
                   moves, events>>

\* The list of the template's clones, from the cache.  Without a mode in the
\* template there is nothing to do.
ListClones ==
    /\ list.todo = {} /\ template # None
    /\ \E m \in Cloned : cache[m].exists /\ cache[m].mode # template
    /\ list' = [todo |-> {m \in Cloned : cache[m].exists},
                items |-> cache, mode |-> template]
    /\ UNCHANGED <<paused, infra, seen, m3c, m3m, cache, bmh, template, pc, mem,
                   moves, events>>

\* Mutant: the Update carries no resource version.
UpdateAutomatedCleaningModeForced(m, ok) ==
    /\ m \in list.todo
    /\ Call(ok)
    /\ IF ok /\ m3m[m].exists
       THEN /\ m3m' = [m3m EXCEPT ![m] = [list.items[m] EXCEPT
                                            !.mode = list.mode]]
            /\ list' = IF list.todo = {m} THEN NoList
                       ELSE [list EXCEPT !.todo = @ \ {m},
                                         !.items[m] = NoM3M]
       ELSE list' = NoList /\ UNCHANGED m3m
    /\ UNCHANGED <<paused, infra, seen, m3c, cache, bmh, template, pc, mem,
                   moves>>

\* One Update of the loop: it fails when the machine is not the one that was
\* read, and the first failure ends the loop.
UpdateAutomatedCleaningMode(m, ok) ==
    /\ m \in list.todo
    /\ Call(ok)
    /\ IF ok /\ m3m[m] = list.items[m]
       THEN /\ m3m' = [m3m EXCEPT ![m] = [list.items[m] EXCEPT
                                            !.mode = list.mode]]
            /\ list' = IF list.todo = {m} THEN NoList
                       ELSE [list EXCEPT !.todo = @ \ {m},
                                         !.items[m] = NoM3M]
       ELSE list' = NoList /\ UNCHANGED m3m
    /\ UNCHANGED <<paused, infra, seen, m3c, cache, bmh, template, pc, mem,
                   moves>>

ReconcileTemplate ==
    \/ ListClones
    \/ \E m \in Machines, ok \in BOOLEAN : UpdateAutomatedCleaningMode(m, ok)

----------------------------------------------------------------------------
(* The environment. *)

\* Cluster API sets the OwnerRef.
SetOwner ==
    /\ m3c.exists /\ ~m3c.owner
    /\ m3c' = [m3c EXCEPT !.owner = TRUE]
    /\ UNCHANGED <<paused, infra, seen, m3m, cache, bmh, template, pc, mem,
                   list, moves, events>>

\* Cluster API mirrors the Metal3Cluster's readiness in the condition of the
\* Cluster, unless that is paused.
SetInfrastructureReady ==
    /\ m3c.exists /\ m3c.owner /\ ~paused
    /\ infra # m3c.ready
    /\ infra' = m3c.ready
    /\ UNCHANGED <<paused, seen, m3c, m3m, cache, bmh, template, pc, mem, list,
                   moves, events>>

InformerSync ==
    /\ \/ /\ seen # theCluster
          /\ seen' = theCluster
          /\ UNCHANGED cache
       \/ /\ \E m \in Machines : /\ cache[m] # m3m[m]
                                 /\ cache' = [cache EXCEPT ![m] = m3m[m]]
          /\ UNCHANGED seen
    /\ UNCHANGED <<paused, infra, m3c, m3m, bmh, template, pc, mem, list, moves,
                   events>>

\* A Machine is deleted and with it its Metal3Machine, or a Metal3Cluster is.
DeleteMachine(m) ==
    /\ Event
    /\ m3m[m].exists /\ ~m3m[m].del
    /\ m3m' = [m3m EXCEPT ![m].del = TRUE]
    /\ UNCHANGED <<paused, infra, seen, m3c, cache, bmh, template, pc, mem,
                   list, moves>>

DeleteCluster ==
    /\ Event
    /\ m3c.exists /\ m3c.fin /\ ~m3c.del
    /\ m3c' = [m3c EXCEPT !.del = TRUE]
    /\ UNCHANGED <<paused, infra, seen, m3m, cache, bmh, template, pc, mem,
                   list, moves>>

\* clusterctl or the user pauses and resumes the cluster; the user pauses and
\* resumes a host, edits the failure domains, the template's mode.
Edit ==
    /\ Event
    /\ \/ /\ paused' = ~paused
          /\ UNCHANGED <<infra, m3c, bmh, template>>
       \/ /\ \E h \in Hosts :
               \/ /\ bmh[h].pause = "no"
                  /\ bmh' = [bmh EXCEPT ![h].pause = "user"]
               \/ /\ bmh[h].pause = "user"
                  /\ bmh' = [bmh EXCEPT ![h].pause = "no"]
          /\ UNCHANGED <<paused, infra, m3c, template>>
       \/ /\ m3c.exists
          /\ m3c' = [m3c EXCEPT !.published = FALSE]
          /\ UNCHANGED <<paused, infra, bmh, template>>
       \/ /\ \E t \in (CleaningModes \cup {None}) \ {template} : template' = t
          /\ UNCHANGED <<paused, infra, m3c, bmh>>
    /\ UNCHANGED <<seen, m3m, cache, pc, mem, list, moves>>

\* clusterctl moves a paused cluster whose Machines all have Nodes once no
\* object carries the block-move annotation.  Status is not moved: the other
\* cluster's operator takes a host's from the annotation, its controllers
\* rebuild the rest.  The workers here have nothing left to work on.
Move ==
    /\ moves < MaxMoves /\ paused /\ m3c.exists /\ m3c.owner
    /\ \A h \in Hosts : ~bmh[h].block
    /\ \A m \in Owned : m3m[m].exists => m3m[m].ready
    /\ moves' = moves + 1
    /\ bmh' = [h \in Hosts |-> [bmh[h] EXCEPT !.saved = FALSE]]
    /\ m3c' = [m3c EXCEPT !.published = FALSE, !.ready = FALSE]
    /\ infra' = FALSE
    /\ m3m' = [m \in Machines |-> [m3m[m] EXCEPT !.ready = FALSE]]
    /\ cache' = m3m'
    /\ seen' = [theCluster EXCEPT !.infra = FALSE]
    /\ pc' = [m \in Machines |-> "idle"]
    /\ mem' = [m \in Machines |-> NoMem]
    /\ list' = NoList
    /\ UNCHANGED <<paused, template, events>>

\* The manager stops and starts again.
Crash ==
    /\ Event
    /\ pc' = [m \in Machines |-> "idle"]
    /\ mem' = [m \in Machines |-> NoMem]
    /\ list' = NoList
    /\ cache' = m3m /\ seen' = theCluster
    /\ UNCHANGED <<paused, infra, m3c, m3m, bmh, template, moves>>

Next ==
    \/ \E m \in Machines : Reconcile(m)
    \/ \E m \in Owned : DeleteMachine(m)
    \/ \E found, ok \in BOOLEAN : ReconcileCluster(found, ok)
    \/ ReconcileTemplate
    \/ SetOwner \/ SetInfrastructureReady \/ InformerSync
    \/ DeleteCluster \/ Edit \/ Move \/ Crash

\* Requeues, watches and the resync period run every worker again and again;
\* informers deliver; Cluster API sets the OwnerRef and the condition.
Fairness ==
    /\ \A m \in Machines : WF_vars(Reconcile(m))
    /\ WF_vars(\E found, ok \in BOOLEAN : ReconcileCluster(found, ok))
    /\ WF_vars(ReconcileTemplate)
    /\ SF_vars(InformerSync)
    /\ WF_vars(SetOwner)
    /\ WF_vars(SetInfrastructureReady)

Spec == Init /\ [][Next]_vars /\ Fairness

----------------------------------------------------------------------------
(* Properties. *)

Associated(m, h) == m3m[m].ann = h /\ bmh[h].consumer = m

\* The block-move annotation is taken off a host only when the controller has
\* paused it and saved its status, or when it found the host paused by its
\* user: clusterctl never gets hold of a host in between, across failed patches
\* and crashes (SetPauseAnnotation).  A user's pause may be gone again by then.
HandOver ==
    [][\A h \in Hosts : bmh[h].block /\ ~bmh'[h].block =>
         \/ bmh[h].pause = "capm3" /\ bmh[h].saved
         \/ /\ bmh[h].pause # "capm3"
            /\ \E m \in Machines : /\ mem[m].m3m.ann = h
                                   /\ pc[m] = "unblockStale"]_vars

\* The hosts of machines of a Cluster that stays paused end up paused and free
\* to be moved (SetPauseAnnotation), if its infrastructure was ready when it
\* was paused: otherwise the machines are not reconciled at all.
PauseCompletes ==
    \A m \in Machines, h \in Hosts :
      <>[](/\ paused /\ infra /\ m3c.exists
           /\ Associated(m, h) /\ bmh[h].pause # "user")
        => <>[](Associated(m, h) => bmh[h].pause # "no" /\ ~bmh[h].block)

\* Those of a Cluster that stays resumed are not left paused by the controller
\* and are blocked from being moved again (RemovePauseAnnotation,
\* EnsureBlockMoveAnnotation): the infrastructure becomes ready again, unless
\* the Metal3Cluster is deleted.
ResumeCompletes ==
    \A m \in Machines, h \in Hosts :
      <>[](/\ ~paused /\ m3c.exists /\ ~m3c.del
           /\ Associated(m, h) /\ bmh[h].pause # "user")
        => <>[](Associated(m, h) => bmh[h].pause # "capm3" /\ bmh[h].block)

\* Hosts follow the pausing and resuming of their Cluster, so that clusterctl
\* can go on and the machines afterwards, across failed patches, crashes and
\* moves (SetPauseAnnotation, RemovePauseAnnotation).
PauseFollowsCluster == PauseCompletes /\ ResumeCompletes

\* A Metal3Cluster does not go before its Machines have, although they are
\* counted in a cache (CountDescendants).
MachinesGoFirst ==
    [][m3c.exists /\ ~m3c'.exists => \A m \in Owned : ~m3m[m].exists]_vars

\* A deleted Metal3Cluster goes away once its Machines have, and not before
\* (reconcileClusterDelete, CountDescendants).
ClusterOutlivesMachines ==
    /\ MachinesGoFirst
    /\ <>[](m3c.del /\ ~paused /\ \A m \in Owned : ~m3m[m].exists)
         => <>[](~m3c.exists)

\* Failure domains reach the status of a Metal3Cluster again and again, paused
\* or not (Reconcile of the Metal3Cluster controller).
DomainsPublished == []<>(m3c.exists => m3c.published)

\* Every clone ends up with the template's mode, although an Update of one
\* clone that fails leaves out the rest of the round.
ModeArrives ==
    \A m \in Cloned :
      <>[](m3m[m].exists /\ template # None)
        => <>[](m3m[m].exists => m3m[m].mode = template)

\* What a user edits arrives: the cleaning mode of a template at its clones,
\* the failure domains at the status, after failed calls, crashes and moves
\* (UpdateAutomatedCleaningMode, Reconcile of the Metal3Cluster controller).
EditsArrive == ModeArrives /\ DomainsPublished

\* Writing a whole Metal3Machine, the template controller changes its mode
\* and nothing that others wrote since it was read.
TemplateOnlyTouchesMode ==
    [][\A m \in Machines : m3m'[m].exists /\ m3m'[m].mode # m3m[m].mode =>
         m3m'[m] = [m3m[m] EXCEPT !.mode = m3m'[m].mode]]_vars
============================================================================
