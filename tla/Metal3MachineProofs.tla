------------------------ MODULE Metal3MachineProofs ------------------------
(***************************************************************************)
(* Theorems about Metal3Machine, for every set of machines and hosts, every *)
(* configuration and every bound on the number of faults.                  *)
(***************************************************************************)
EXTENDS Metal3Machine, TLAPS

----------------------------------------------------------------------------
(* The operators the controller is built from, and their types. *)

\* What the assumptions say of the constants, in the form the proofs use.
LEMMA Constants ==
    /\ None \notin Machines /\ None \notin Hosts /\ None \notin Deployments
    /\ ClusterRef \notin Machines /\ ClusterRef # None
    /\ Deployment \in [Machines -> Deployments]
    /\ MaxFaults \in Nat
BY NoneAssumption, ConfigAssumption

\* The initial and the absent objects are objects.
LEMMA ObjectTypes ==
    /\ NewM3M \in M3M /\ GoneM3M \in M3M
    /\ NewBMH \in BMH /\ GoneBMH \in BMH
    /\ NoSnapshot \in Snapshot
BY DEF NewM3M, GoneM3M, M3M, NewBMH, GoneBMH, BMH, State, Owner, Consumer,
       NoSnapshot, Snapshot

\* A merge patch of a BareMetalHost is a BareMetalHost (patch.Helper).
LEMMA PatchBMHType ==
    ASSUME NEW cur \in BMH, NEW old \in BMH, NEW new \in BMH
    PROVE  PatchBMH(cur, old, new) \in BMH
<1>1. /\ Sent(cur.consumer, old.consumer, new.consumer) \in Consumer
      /\ Sent(cur.reuse, old.reuse, new.reuse) \in Deployments \cup {None}
      /\ Sent(cur.img, old.img, new.img) \in Owner
      /\ Sent(cur.ud, old.ud, new.ud) \in Owner
      /\ Sent(cur.md, old.md, new.md) \in Owner
      /\ Sent(cur.online, old.online, new.online) \in BOOLEAN
  BY DEF Sent, BMH
<1> QED
  BY <1>1 DEF PatchBMH, BMH

\* So is one of a Metal3Machine, metadata or status (patchMetal3Machine).
LEMMA PatchM3MType ==
    ASSUME NEW cur \in M3M, NEW old \in M3M, NEW new \in M3M
    PROVE  /\ PatchM3MMeta(cur, old, new) \in M3M
           /\ PatchM3MStatus(cur, old, new) \in M3M
BY ObjectTypes, ZenonT(40) DEF PatchM3MMeta, PatchM3MStatus, Sent, M3M

\* setHostConsumerRef returns a host.
LEMMA HostConsumerType ==
    ASSUME NEW b \in BMH, NEW m \in Machines
    PROVE  setHostConsumerRef(b, m) \in BMH
BY DEF setHostConsumerRef, BMH, Consumer

\* setHostSpec returns a host ...
LEMMA HostSpecType ==
    ASSUME NEW b \in BMH, NEW m \in Machines, NEW mm \in M3M
    PROVE  setHostSpec(b, m, mm) \in BMH
BY DEF setHostSpec, BMH, Owner

\* ... and leaves its ConsumerRef and node-reuse label alone.
LEMMA HostSpecKeepsOwner ==
    ASSUME NEW b \in BMH, NEW m \in Machines, NEW mm \in M3M
    PROVE  /\ setHostSpec(b, m, mm).consumer = b.consumer
           /\ setHostSpec(b, m, mm).reuse = b.reuse
BY DEF setHostSpec, BMH

\* The deprovisioning part of Delete returns a host.
LEMMA HostClearType ==
    ASSUME NEW b \in BMH, NEW h \in Hosts, NEW mm \in M3M
    PROVE  clearHostSpec(b, h, mm) \in BMH
<1> DEFINE u == IF mm.ud THEN None ELSE b.ud
           v == IF mm.md THEN None ELSE b.md
           w == h \in KeepOnline
<1>1. u \in Owner /\ v \in Owner /\ w \in BOOLEAN /\ None \in Owner
  BY DEF BMH, Owner
<1>2. clearHostSpec(b, h, mm)
        = [b EXCEPT !.img = None, !.ud = u, !.md = v, !.online = w]
  BY DEF clearHostSpec, BMH
<1> HIDE DEF u, v, w
<1> QED
  BY <1>1, <1>2 DEF BMH

\* The releasing part of Delete returns a host.
LEMMA HostReleaseType ==
    ASSUME NEW b \in BMH, NEW m \in Machines, NEW reuse \in BOOLEAN
    PROVE  releaseHost(b, m, reuse) \in BMH
BY Constants DEF releaseHost, BMH, Consumer

\* The operator's step returns a host.
LEMMA HostStepType ==
    ASSUME NEW b \in BMH
    PROVE  HostStep(b) \in BMH
<1>1. /\ [b EXCEPT !.st = "deleting", !.disk = None] \in BMH
      /\ [b EXCEPT !.st = "available", !.disk = None] \in BMH
      /\ [b EXCEPT !.st = "provisioning", !.disk = b.img] \in BMH
  BY DEF BMH, State, Owner
<1>2. /\ [b EXCEPT !.st = "available"] \in BMH
      /\ [b EXCEPT !.st = "provisioned"] \in BMH
      /\ [b EXCEPT !.st = "deprovisioning"] \in BMH
  BY DEF BMH, State
<1> QED
  BY <1>1, <1>2, ObjectTypes DEF HostStep

\* Setting one field of a Metal3Machine gives a Metal3Machine.
LEMMA MachineFields ==
    ASSUME NEW r \in M3M
    PROVE  /\ \A x \in BOOLEAN : /\ [r EXCEPT !.fin = x] \in M3M
                                 /\ [r EXCEPT !.del = x] \in M3M
                                 /\ [r EXCEPT !.ud = x] \in M3M
                                 /\ [r EXCEPT !.md = x] \in M3M
                                 /\ [r EXCEPT !.ready = x] \in M3M
           /\ \A h \in Hosts : [r EXCEPT !.ann = h] \in M3M
           /\ r.ann \in Hosts \cup {None}
           /\ r.md \in BOOLEAN
BY DEF M3M

\* Setting one field of a BareMetalHost gives a BareMetalHost.
LEMMA HostFields ==
    ASSUME NEW b \in BMH
    PROVE  /\ \A x \in BOOLEAN : /\ [b EXCEPT !.del = x] \in BMH
                                 /\ [b EXCEPT !.bad = x] \in BMH
           /\ b.bad \in BOOLEAN
           /\ \A h \in Hosts : [name |-> h, val |-> b] \in Snapshot
BY DEF BMH, Snapshot

\* chooseHost only returns hosts.
LEMMA ChosenHostListed ==
    ASSUME NEW m \in Machines
    PROVE  chooseHost(m) \subseteq Hosts
BY ConfigAssumption
   DEF chooseHost, pickHost, ReuseHosts, FreeHosts, Listed

----------------------------------------------------------------------------
(* Type correctness. *)

\* A patched host is a host.
LEMMA PatchHostType ==
    ASSUME TypeOK, NEW m \in Machines, NEW new \in BMH, PatchHost(m, new)
    PROVE  bmh' \in [Hosts -> BMH]
<1>1. host[m].val \in BMH /\ bmh \in [Hosts -> BMH]
  BY DEF TypeOK, Snapshot
<1>2. \A h \in Hosts : PatchBMH(bmh[h], host[m].val, new) \in BMH
  BY <1>1, PatchBMHType
<1> QED
  BY <1>1, <1>2 DEF PatchHost

\* A worker that is about to write a host has read one.
HostRead ==
    \A m \in Machines :
        pc[m] \in {"assocPatch", "assocSecret", "updPatch", "delSecret",
                   "delPatch"} => host[m].name \in Hosts

TypeInv == TypeOK /\ HostRead

\* The initial state is well typed.
LEMMA TypeInit == Init => TypeInv
BY ObjectTypes, Constants DEF Init, TypeInv, TypeOK, HostRead, PC

\* Every worker step, fault and environment step keeps the types.
LEMMA TypeStep == TypeInv /\ [Next]_vars => TypeInv'
<1> SUFFICES ASSUME TypeInv, [Next]_vars PROVE TypeInv'
  OBVIOUS
<1> USE DEF apiVars, workerVars, Goto, Unlock, TypeInv, HostRead, PC
<1>1. ASSUME NEW m \in Machines, ReconcileNormal(m) PROVE TypeInv'
  <2>1. [cache[m] EXCEPT !.fin = TRUE] \in M3M
    BY MachineFields DEF TypeOK
  <2> QED
    BY <1>1, <2>1 DEF ReconcileNormal, TypeOK
<1>2. ASSUME NEW m \in Machines, AssociateLock(m) PROVE TypeInv'
  BY <1>2 DEF AssociateLock, TypeOK
<1>3. ASSUME NEW m \in Machines, AssociateChoose(m) PROVE TypeInv'
  <2>1. [mem[m] EXCEPT !.ud = TRUE] \in M3M
    BY MachineFields DEF TypeOK
  <2>2. \A h \in Hosts : [name |-> h, val |-> bmh[h]] \in Snapshot
    BY HostFields DEF TypeOK
  <2>3. CASE chooseHost(m) = {} /\ UNCHANGED <<mem, host>>
    BY <1>3, <2>3 DEF AssociateChoose, TypeOK
  <2>4. CASE \E h \in chooseHost(m) :
               /\ host' = [host EXCEPT ![m] = [name |-> h, val |-> bmh[h]]]
               /\ mem' = [mem EXCEPT ![m].ud = TRUE]
               /\ Goto(m, "assocPatch")
               /\ UNCHANGED mutex
    <3>1. PICK h \in Hosts :
               /\ host' = [host EXCEPT ![m] = [name |-> h, val |-> bmh[h]]]
               /\ mem' = [mem EXCEPT ![m].ud = TRUE]
               /\ Goto(m, "assocPatch")
               /\ UNCHANGED mutex
      BY <2>4, ChosenHostListed
    <3> QED
      BY <1>3, <2>1, <2>2, <3>1 DEF AssociateChoose, TypeOK
  <2> QED
    BY <1>3, <2>3, <2>4 DEF AssociateChoose
<1>4. ASSUME NEW m \in Machines, AssociatePatch(m) PROVE TypeInv'
  <2>1. bmh' \in [Hosts -> BMH]
    <3> DEFINE b == setHostConsumerRef(host[m].val, m)
    <3>1. host[m].val \in BMH /\ mem[m] \in M3M
      BY DEF TypeOK, Snapshot
    <3>2. b \in BMH
      BY <3>1, HostConsumerType
    <3>3. setHostSpec(b, m, mem[m]) \in BMH
      BY <3>1, <3>2, HostSpecType
    <3> HIDE DEF b
    <3>4. \E new \in BMH : PatchHost(m, new)
      BY <1>4, <3>2, <3>3 DEF AssociatePatch, b
    <3> QED
      BY <3>4, PatchHostType
  <2> QED
    BY <1>4, <2>1 DEF AssociatePatch, TypeOK
<1>5. ASSUME NEW m \in Machines, AssociateSecret(m) PROVE TypeInv'
  <2>1. host[m].name \in Hosts
    BY <1>5 DEF AssociateSecret
  <2>2. [mem[m] EXCEPT !.ann = host[m].name] \in M3M
    BY <2>1, MachineFields DEF TypeOK
  <2> QED
    BY <1>5, <2>1, <2>2 DEF AssociateSecret, TypeOK
<1>6. ASSUME NEW m \in Machines, AssociateM3Metadata(m) PROVE TypeInv'
  <2>1. [mem[m] EXCEPT !.md = @ \/ m \in UserMeta] \in M3M
    BY MachineFields DEF TypeOK
  <2> QED
    BY <1>6, <2>1 DEF AssociateM3Metadata, TypeOK
<1>7. ASSUME NEW m \in Machines, UpdateGet(m) PROVE TypeInv'
  <2>1. /\ [mem[m] EXCEPT !.md = @ \/ m \in Templated] \in M3M
        /\ mem[m].ann \in Hosts \cup {None}
    BY MachineFields DEF TypeOK
  <2>2. \A h \in Hosts : [name |-> h, val |-> bmh[h]] \in Snapshot
    BY HostFields DEF TypeOK
  <2> QED
    BY <1>7, <2>1, <2>2 DEF UpdateGet, TypeOK
<1>8. ASSUME NEW m \in Machines, UpdatePatch(m) PROVE TypeInv'
  <2>1. bmh' \in [Hosts -> BMH]
    <3> DEFINE b == setHostConsumerRef(host[m].val, m)
    <3>1. host[m].val \in BMH /\ mem[m] \in M3M
      BY DEF TypeOK, Snapshot
    <3>2. b \in BMH
      BY <3>1, HostConsumerType
    <3>3. setHostSpec(b, m, mem[m]) \in BMH
      BY <3>1, <3>2, HostSpecType
    <3> QED
      BY <1>8, <3>3, PatchHostType DEF UpdatePatch
  <2> QED
    BY <1>8, <2>1 DEF UpdatePatch, TypeOK
<1>9. ASSUME NEW m \in Machines, CheckProvisioned(m) PROVE TypeInv'
  <2>1. [mem[m] EXCEPT !.ready = TRUE] \in M3M
    BY MachineFields DEF TypeOK
  <2>2. \/ UNCHANGED mem
        \/ mem' = [mem EXCEPT ![m] = [mem[m] EXCEPT !.ready = TRUE]]
    BY <1>9, Zenon DEF CheckProvisioned
  <2>3. UNCHANGED todo \/ \E n \in 0..3 : todo' = [todo EXCEPT ![m] = n]
    <3>1. UNCHANGED todo
          \/ todo' = [todo EXCEPT ![m] = IF mem[m].ready THEN 1 ELSE 2]
      BY <1>9, Zenon DEF CheckProvisioned
    <3> QED
      BY <3>1
  <2>4. mem' \in [Machines -> M3M] /\ todo' \in [Machines -> 0..3]
    <3>1. mem' \in [Machines -> M3M]
      BY <2>1, <2>2 DEF TypeOK
    <3>2. todo' \in [Machines -> 0..3]
      BY <2>3 DEF TypeOK
    <3> QED
      BY <3>1, <3>2
  <2>5. \E p \in {"patchMeta", "updGet"} : pc' = [pc EXCEPT ![m] = p]
    BY <1>9 DEF CheckProvisioned
  <2> QED
    BY <1>9, <2>4, <2>5 DEF CheckProvisioned, TypeOK
<1>10. ASSUME NEW m \in Machines, ReconcileDelete(m) PROVE TypeInv'
  BY <1>10 DEF ReconcileDelete, TypeOK
<1>11. ASSUME NEW m \in Machines, DissociateM3Metadata(m) PROVE TypeInv'
  <2>1. [mem[m] EXCEPT !.md = @ /\ m \in UserMeta] \in M3M
    BY MachineFields DEF TypeOK
  <2> QED
    BY <1>11, <2>1 DEF DissociateM3Metadata, TypeOK
<1>12. ASSUME NEW m \in Machines, DeleteGet(m) PROVE TypeInv'
  <2>1. /\ [mem[m] EXCEPT !.fin = FALSE] \in M3M
        /\ mem[m].ann \in Hosts \cup {None}
    BY MachineFields DEF TypeOK
  <2>2. \A h \in Hosts : [name |-> h, val |-> bmh[h]] \in Snapshot
    BY HostFields DEF TypeOK
  <2>3. \/ /\ mem' = [mem EXCEPT ![m] = [mem[m] EXCEPT !.fin = FALSE]]
           /\ Goto(m, "patchMeta")
           /\ UNCHANGED host
        \/ /\ mem[m].ann # None
           /\ host' = [host EXCEPT ![m] = [name |-> mem[m].ann,
                                          val |-> bmh[mem[m].ann]]]
           /\ Goto(m, "delSecret")
           /\ UNCHANGED mem
    BY <1>12, Zenon DEF DeleteGet
  <2>4. mem' \in [Machines -> M3M]
    BY <2>1, <2>3 DEF TypeOK
  <2>5. host' \in [Machines -> Snapshot]
    BY <2>1, <2>2, <2>3 DEF TypeOK
  <2>6. pc' \in [Machines -> PC]
    BY <2>3 DEF TypeOK
  <2>7. HostRead'
    BY <2>1, <2>3 DEF TypeOK
  <2> QED
    BY <1>12, <2>4, <2>5, <2>6, <2>7 DEF DeleteGet, TypeOK
<1>13. ASSUME NEW m \in Machines, DeleteSecret(m) PROVE TypeInv'
  BY <1>13 DEF DeleteSecret, TypeOK
<1>14. ASSUME NEW m \in Machines, DeletePatch(m) PROVE TypeInv'
  <2> DEFINE b == host[m].val
             c == clearHostSpec(b, host[m].name, mem[m])
  <2>1. b \in BMH /\ mem[m] \in M3M /\ host[m].name \in Hosts
    BY <1>14 DEF TypeOK, Snapshot, DeletePatch
  <2>2. c \in BMH
    BY <2>1, HostClearType
  <2>3. \A reuse \in BOOLEAN : releaseHost(b, m, reuse) \in BMH
    BY <2>1, HostReleaseType
  <2>4. [mem[m] EXCEPT !.fin = FALSE] \in M3M
    BY <2>1, MachineFields
  <2>5. bmh' \in [Hosts -> BMH]
    <3>0. (Deployment[m] \in NodeReuse) \in BOOLEAN
      OBVIOUS
    <3>1. \/ PatchHost(m, c)
          \/ UNCHANGED bmh
          \/ \E reuse \in {Deployment[m] \in NodeReuse, FALSE} :
                PatchHost(m, releaseHost(b, m, reuse))
      BY <1>14, Zenon DEF DeletePatch
    <3> HIDE DEF b, c
    <3> QED
      BY <2>2, <2>3, <3>0, <3>1, PatchHostType DEF TypeOK
  <2> HIDE DEF b, c
  <2>6. mem' \in [Machines -> M3M]
    BY <1>14, <2>4 DEF DeletePatch, TypeOK
  <2> QED
    BY <1>14, <2>5, <2>6 DEF DeletePatch, TypeOK
<1>15. ASSUME NEW m \in Machines, PatchMeta(m) PROVE TypeInv'
  <2>1. PatchM3MMeta(m3m[m], base[m], mem[m]) \in M3M
    BY PatchM3MType DEF TypeOK
  <2> QED
    BY <1>15, <2>1 DEF PatchMeta, TypeOK
<1>16. ASSUME NEW m \in Machines, PatchStatus(m) PROVE TypeInv'
  <2>1. PatchM3MStatus(m3m[m], base[m], mem[m]) \in M3M
    BY PatchM3MType DEF TypeOK
  <2> QED
    BY <1>16, <2>1, ObjectTypes DEF PatchStatus, Finish, TypeOK
<1>17. ASSUME NEW m \in Machines, CallFails(m) PROVE TypeInv'
  <2>1. [mem[m] EXCEPT !.md = @ /\ m \in UserMeta] \in M3M
    BY MachineFields DEF TypeOK
  <2> QED
    BY <1>17, <2>1, ObjectTypes, Constants DEF CallFails, Finish, TypeOK
<1>18. CASE Crash
  BY <1>18, ObjectTypes, Constants DEF Crash, TypeOK
<1>19. ASSUME NEW m \in Machines, CacheSync(m) \/ BootstrapReady(m)
       PROVE  TypeInv'
  BY <1>19 DEF CacheSync, BootstrapReady, TypeOK
<1>20. ASSUME NEW m \in Machines, DeleteMachine(m) PROVE TypeInv'
  <2>1. [m3m[m] EXCEPT !.del = TRUE] \in M3M
    BY MachineFields DEF TypeOK
  <2> QED
    BY <1>20, <2>1, ObjectTypes DEF DeleteMachine, TypeOK
<1>21. ASSUME NEW m \in Machines, ClaimProgress(m) PROVE TypeInv'
  BY <1>21 DEF ClaimProgress, TypeOK
<1>22. ASSUME NEW h \in Hosts, BMOProgress(h) PROVE TypeInv'
  <2>1. HostStep(bmh[h]) \in BMH
    BY HostStepType DEF TypeOK
  <2> QED
    BY <1>22, <2>1 DEF BMOProgress, TypeOK
<1>23. ASSUME NEW h \in Hosts, DeleteHost(h) \/ EnrolHost(h) \/ DegradeHost(h)
       PROVE  TypeInv'
  <2>1. /\ [bmh[h] EXCEPT !.del = TRUE] \in BMH
        /\ [bmh[h] EXCEPT !.bad = ~@] \in BMH
    BY HostFields DEF TypeOK
  <2> QED
    BY <1>23, <2>1, ObjectTypes DEF DeleteHost, EnrolHost, DegradeHost, TypeOK
<1>24. CASE UNCHANGED vars
  BY <1>24 DEF vars, TypeOK
<1> QED
  BY <1>1, <1>2, <1>3, <1>4, <1>5, <1>6, <1>7, <1>8, <1>9, <1>10, <1>11,
     <1>12, <1>13, <1>14, <1>15, <1>16, <1>17, <1>18, <1>19, <1>20, <1>21,
     <1>22, <1>23, <1>24
  DEF Next, Worker, Environment

\* Every reachable state of the controller, the hosts and their operator is
\* well typed, whatever crashes and whichever API call fails.
THEOREM TypeCorrect == Spec => []TypeOK
<1>1. TypeInv => TypeOK
  BY DEF TypeInv
<1> QED
  BY <1>1, TypeInit, TypeStep, PTL DEF Spec

----------------------------------------------------------------------------
(* Ownership: while no host is deleted and enrolled again, the two ends of  *)
(* every association agree, in spite of stale caches, crashes, failed calls *)
(* and merge patches computed from old copies.                              *)

Normal == {"lock", "choose", "assocPatch", "assocSecret", "claim", "updGet",
           "updPatch", "isProvisioned"}
Deleting == {"dissociate", "delGet", "delSecret", "delPatch"}

\* Hosts stay.
HostsStay ==
    \A h \in Hosts : ~bmh[h].del /\ bmh[h].st \notin {"absent", "deleting"}

OwnIsSelected ==
    \A m \in Machines, h \in Hosts : bmh[h].consumer = m => h \in Selected[m]

\* A worker is on the side of the reconcile that the deletion timestamp it
\* read puts it on; a deletion is known to the API server first, then to the
\* cache, then to the worker.
DeletionSpreads(m) ==
    /\ pc[m] \in Normal => ~mem[m].del
    /\ pc[m] \in Deleting => mem[m].del
    /\ pc[m] # "idle" /\ mem[m].del => cache[m].del
    /\ cache[m].del => m3m[m].del

\* The worker of m releases its host, or will from its next reconcile on.
Releasing(m) == cache[m].del /\ (pc[m] # "idle" => mem[m].del)

\* Before that, every copy of the machine names a host whose consumer it is.
CopiesAgree(m) ==
    ~Releasing(m) =>
        /\ m3m[m].ann # None => bmh[m3m[m].ann].consumer = m
        /\ cache[m].ann # None => bmh[cache[m].ann].consumer = m
        /\ mem[m].ann # None => bmh[mem[m].ann].consumer = m

\* What a worker read of a host and is about to overwrite is still so.
ReadIsFresh(m) ==
    pc[m] \in {"assocPatch", "updPatch", "delSecret", "delPatch"}
        => /\ host[m].val.consumer = bmh[host[m].name].consumer
           /\ host[m].val.reuse = bmh[host[m].name].reuse

\* The host a worker is done associating, updates or deletes is its own.
HeldIsOwn(m) ==
    pc[m] \in {"assocSecret", "updPatch", "delSecret", "delPatch"}
        => bmh[host[m].name].consumer = m

\* The chosen host is nobody else's and not kept for another deployment, and
\* no other host is the machine's.
ChoiceIsGood(m) ==
    pc[m] = "assocPatch" =>
        /\ bmh[host[m].name].consumer \in {None, ClusterRef, m}
        /\ bmh[host[m].name].reuse \in {None, Deployment[m]}
        /\ host[m].name \in Selected[m]
        /\ \A g \in Hosts : bmh[g].consumer = m => g = host[m].name

WorkerOK(m) ==
    /\ Associating(m) => mutex = m
    /\ DeletionSpreads(m)
    /\ CopiesAgree(m)
    /\ ReadIsFresh(m)
    /\ HeldIsOwn(m)
    /\ ChoiceIsGood(m)

Ownership ==
    /\ TypeInv
    /\ HostsStay
    /\ OwnIsSelected
    /\ OneHostPerMachine
    /\ ReuseLabelMeansCluster
    /\ \A m \in Machines : WorkerOK(m)

\* A step that changes no consumer and no label.
SameOwners ==
    \A h \in Hosts : /\ bmh'[h].consumer = bmh[h].consumer
                     /\ bmh'[h].reuse = bmh[h].reuse
                     /\ bmh'[h].st \notin {"absent", "deleting"}
                     /\ ~bmh'[h].del

\* Such a step keeps what is said of the hosts alone.
LEMMA SameOwnersKeeps ==
    ASSUME Ownership, SameOwners
    PROVE  /\ HostsStay' /\ OwnIsSelected'
           /\ OneHostPerMachine' /\ ReuseLabelMeansCluster'
BY DEF Ownership, SameOwners, HostsStay, OwnIsSelected, OneHostPerMachine,
       ReuseLabelMeansCluster

\* A step that leaves every host alone is such a step.
LEMMA UnchangedHosts ==
    ASSUME Ownership, UNCHANGED bmh
    PROVE  SameOwners
BY DEF Ownership, SameOwners, HostsStay

\* A merge patch and the fields that ownership is about.
LEMMA PatchedFields ==
    ASSUME NEW cur \in BMH, NEW old \in BMH, NEW new \in BMH
    PROVE  LET p == PatchBMH(cur, old, new)
           IN  /\ p.consumer = Sent(cur.consumer, old.consumer, new.consumer)
               /\ p.reuse = Sent(cur.reuse, old.reuse, new.reuse)
               /\ p.st = cur.st
               /\ p.del = cur.del
BY DEF PatchBMH, BMH

\* What a patch by the worker of m does to the hosts.
LEMMA PatchHostEffect ==
    ASSUME TypeInv, HostsStay, NEW m \in Machines, NEW new \in BMH,
           PatchHost(m, new), host[m].name \in Hosts
    PROVE  /\ \A h \in Hosts \ {host[m].name} : bmh'[h] = bmh[h]
           /\ LET p == bmh'[host[m].name]
                  cur == bmh[host[m].name]
                  old == host[m].val
              IN  /\ p.consumer = Sent(cur.consumer, old.consumer, new.consumer)
                  /\ p.reuse = Sent(cur.reuse, old.reuse, new.reuse)
                  /\ p.st = cur.st
                  /\ p.del = cur.del
<1>1. /\ bmh \in [Hosts -> BMH]
      /\ host[m].val \in BMH
      /\ bmh[host[m].name] \in BMH
      /\ bmh[host[m].name].st # "absent"
  BY DEF TypeInv, TypeOK, Snapshot, HostsStay
<1>2. bmh' = [bmh EXCEPT ![host[m].name] =
                 PatchBMH(bmh[host[m].name], host[m].val, new)]
  BY <1>1 DEF PatchHost
<1> QED
  BY <1>1, <1>2, PatchedFields

\* Update finds the machine's own ConsumerRef and no label: it writes neither.
LEMMA UpdateKeepsOwners ==
    ASSUME Ownership, NEW m \in Machines, UpdatePatch(m)
    PROVE  SameOwners
<1> DEFINE old == host[m].val
           new == setHostSpec(setHostConsumerRef(old, m), m, mem[m])
           h == host[m].name
<1>1. TypeInv /\ HostsStay /\ h \in Hosts /\ old \in BMH /\ mem[m] \in M3M
  BY DEF Ownership, TypeInv, TypeOK, Snapshot, HostRead, UpdatePatch
<1>2. new \in BMH /\ new.consumer = m /\ new.reuse = None
  <2>1. setHostConsumerRef(old, m) \in BMH
    BY <1>1, HostConsumerType
  <2>2. new \in BMH
    BY <1>1, <2>1, HostSpecType
  <2>3. LET b == setHostConsumerRef(old, m) IN b.consumer = m /\ b.reuse = None
    BY <1>1 DEF setHostConsumerRef, BMH
  <2> QED
    BY <1>1, <2>1, <2>2, <2>3, HostSpecKeepsOwner
<1>3. old.consumer = m /\ old.reuse = None
  <2>1. /\ bmh[h].consumer = m
        /\ old.consumer = bmh[h].consumer /\ old.reuse = bmh[h].reuse
    BY DEF Ownership, WorkerOK, ReadIsFresh, HeldIsOwn, UpdatePatch
  <2>2. bmh[h].reuse = None
    BY <1>1, <2>1, Constants DEF Ownership, ReuseLabelMeansCluster
  <2> QED
    BY <2>1, <2>2
<1>4. PatchHost(m, new)
  BY DEF UpdatePatch
<1> HIDE DEF old, new, h
<1>5. /\ \A g \in Hosts \ {h} : bmh'[g] = bmh[g]
      /\ bmh'[h].consumer = bmh[h].consumer
      /\ bmh'[h].reuse = bmh[h].reuse
      /\ bmh'[h].st = bmh[h].st /\ bmh'[h].del = bmh[h].del
  BY <1>1, <1>2, <1>3, <1>4, PatchHostEffect DEF Sent, old, h
<1> QED
  BY <1>1, <1>5 DEF SameOwners, HostsStay

\* Neither the operator nor the state of a host touches its owner.
LEMMA OperatorKeepsOwners ==
    ASSUME Ownership, NEW h \in Hosts, BMOProgress(h) \/ DegradeHost(h)
    PROVE  SameOwners
<1>1. bmh \in [Hosts -> BMH] /\ HostsStay
  BY DEF Ownership, TypeInv, TypeOK
<1>2. LET b == HostStep(bmh[h])
      IN  /\ b.consumer = bmh[h].consumer /\ b.reuse = bmh[h].reuse
          /\ b.st \notin {"absent", "deleting"} /\ ~b.del
  BY <1>1 DEF HostsStay, HostStep, BMH
<1>3. CASE BMOProgress(h)
  BY <1>1, <1>2, <1>3 DEF BMOProgress, SameOwners, HostsStay
<1>4. CASE DegradeHost(h)
  BY <1>1, <1>4 DEF DegradeHost, SameOwners, HostsStay, BMH
<1> QED
  BY <1>3, <1>4

\* A worker that does not move keeps what it knows.
LEMMA OtherWorker ==
    ASSUME Ownership, SameOwners, NEW n \in Machines,
           UNCHANGED <<m3m[n], cache[n], pc[n], mem[n], host[n]>>,
           mutex = n => mutex' = n
    PROVE  WorkerOK(n)'
<1>1. /\ WorkerOK(n)
      /\ m3m[n].ann \in Hosts \cup {None}
      /\ cache[n].ann \in Hosts \cup {None}
      /\ mem[n].ann \in Hosts \cup {None}
      /\ pc[n] \in {"assocPatch", "assocSecret", "updPatch", "delSecret",
                    "delPatch"} => host[n].name \in Hosts
  BY DEF Ownership, TypeInv, TypeOK, HostRead, M3M
<1> QED
  BY <1>1 DEF WorkerOK, SameOwners, Associating, DeletionSpreads, CopiesAgree,
              Releasing, ReadIsFresh, HeldIsOwn, ChoiceIsGood

\* The steps of the worker of m, and of the world around it, that leave every
\* consumer alone.
WorkerQuiet(m) ==
    \/ ReconcileNormal(m) \/ AssociateLock(m) \/ AssociateChoose(m)
    \/ AssociateSecret(m) \/ AssociateM3Metadata(m) \/ UpdateGet(m)
    \/ UpdatePatch(m) \/ CheckProvisioned(m) \/ ReconcileDelete(m)
    \/ DissociateM3Metadata(m) \/ DeleteGet(m) \/ DeleteSecret(m)
    \/ PatchMeta(m) \/ PatchStatus(m) \/ CallFails(m)
    \/ CacheSync(m) \/ DeleteMachine(m)

\* Such a step of one worker leaves every other worker as it was.
LEMMA OthersStay ==
    ASSUME TypeOK, NEW m \in Machines, NEW n \in Machines, n # m,
           WorkerQuiet(m) \/ AssociatePatch(m) \/ DeletePatch(m)
    PROVE  /\ UNCHANGED <<m3m[n], cache[n], pc[n], mem[n], host[n]>>
           /\ mutex = n => mutex' = n
<1> USE Constants DEF TypeOK, apiVars, workerVars, Goto, Unlock
<1>1. CASE ReconcileNormal(m) \/ AssociateLock(m) \/ AssociateChoose(m)
           \/ AssociatePatch(m) \/ AssociateSecret(m)
  BY <1>1 DEF ReconcileNormal, AssociateLock, AssociateChoose, AssociatePatch,
              AssociateSecret
<1>2. CASE AssociateM3Metadata(m) \/ UpdateGet(m) \/ UpdatePatch(m)
  BY <1>2 DEF AssociateM3Metadata, UpdateGet, UpdatePatch
<1>3. CASE CheckProvisioned(m)
  BY <1>3 DEF CheckProvisioned
<1>4. CASE ReconcileDelete(m) \/ DissociateM3Metadata(m) \/ DeleteGet(m)
           \/ DeleteSecret(m)
  BY <1>4 DEF ReconcileDelete, DissociateM3Metadata, DeleteGet, DeleteSecret
<1>5. CASE DeletePatch(m)
  BY <1>5 DEF DeletePatch
<1>6. CASE PatchMeta(m) \/ PatchStatus(m)
  BY <1>6 DEF PatchMeta, PatchStatus, Finish
<1>7. CASE CallFails(m)
  BY <1>7 DEF CallFails, Finish
<1>8. CASE CacheSync(m) \/ DeleteMachine(m)
  BY <1>8 DEF CacheSync, DeleteMachine
<1> QED
  BY <1>1, <1>2, <1>3, <1>4, <1>5, <1>6, <1>7, <1>8 DEF WorkerQuiet

\* chooseHost returns the machine's own host if it has one, and a host of
\* nobody's otherwise.
LEMMA ChosenHost ==
    ASSUME Ownership, NEW m \in Machines, NEW h \in chooseHost(m)
    PROVE  /\ h \in Hosts /\ h \in Selected[m]
           /\ bmh[h].consumer \in {None, ClusterRef, m}
           /\ bmh[h].reuse \in {None, Deployment[m]}
           /\ \A g \in Hosts : bmh[g].consumer = m => g = h
<1> DEFINE mine == {g \in Listed(m) : consumerRefMatches(g, m)}
<1>1. h \in Hosts /\ h \in Selected[m]
  BY ConfigAssumption
     DEF chooseHost, pickHost, ReuseHosts, FreeHosts, Listed
<1>2. \A g \in Hosts : bmh[g].consumer = m => g \in mine
  BY DEF Ownership, OwnIsSelected, HostsStay, Listed, consumerRefMatches
<1>3. CASE mine # {}
  <2>1. bmh[h].consumer = m
    BY <1>3 DEF chooseHost, consumerRefMatches
  <2>2. bmh[h].reuse = None
    BY <1>1, <2>1, Constants DEF Ownership, ReuseLabelMeansCluster
  <2> QED
    BY <1>1, <2>1, <2>2 DEF Ownership, OneHostPerMachine
<1>4. CASE mine = {}
  <2>1. h \in ReuseHosts(m) \/ h \in FreeHosts(m)
    BY <1>4 DEF chooseHost, pickHost
  <2>2. bmh[h].consumer \in {None, ClusterRef}
    BY <1>1, <2>1, Constants
       DEF ReuseHosts, FreeHosts, Ownership, ReuseLabelMeansCluster
  <2>3. bmh[h].reuse \in {None, Deployment[m]}
    BY <2>1 DEF ReuseHosts, FreeHosts
  <2> QED
    BY <1>1, <1>2, <1>4, <2>2, <2>3
<1> QED
  BY <1>3, <1>4

\* A worker step that changes no owner keeps Ownership.
LEMMA WorkerStep ==
    ASSUME Ownership, TypeInv', SameOwners, NEW m \in Machines, WorkerQuiet(m)
    PROVE  WorkerOK(m)'
<1>1. /\ WorkerOK(m) /\ TypeOK /\ TypeOK'
      /\ m3m[m] \in M3M /\ cache[m] \in M3M /\ mem[m] \in M3M
      /\ m3m[m].ann \in Hosts \cup {None}
      /\ cache[m].ann \in Hosts \cup {None}
      /\ mem[m].ann \in Hosts \cup {None}
      /\ pc[m] \in {"assocPatch", "assocSecret", "updPatch", "delSecret",
                    "delPatch"} => host[m].name \in Hosts
  BY DEF Ownership, TypeInv, TypeOK, HostRead, M3M
<1> USE <1>1, Constants
    DEF apiVars, workerVars, Goto, Unlock, Normal, Deleting, WorkerOK,
        SameOwners, Associating, DeletionSpreads, CopiesAgree, Releasing,
        ReadIsFresh, HeldIsOwn, ChoiceIsGood
<1>2. CASE ReconcileNormal(m)
  BY <1>2 DEF ReconcileNormal, TypeOK, M3M
<1>3. CASE AssociateLock(m)
  BY <1>3 DEF AssociateLock, TypeOK, M3M
<1>4. CASE AssociateChoose(m)
  <2>1. CASE chooseHost(m) = {}
    BY <1>4, <2>1 DEF AssociateChoose, TypeOK
  <2>2. CASE chooseHost(m) # {}
    <3>1. PICK h \in chooseHost(m) :
             /\ host' = [host EXCEPT ![m] = [name |-> h, val |-> bmh[h]]]
             /\ mem' = [mem EXCEPT ![m].ud = TRUE]
             /\ Goto(m, "assocPatch")
             /\ UNCHANGED mutex
      BY <1>4, <2>2 DEF AssociateChoose
    <3>2. /\ pc'[m] = "assocPatch"
          /\ host'[m].name = h /\ host'[m].val = bmh[h]
          /\ mem'[m].ann = mem[m].ann /\ mem'[m].del = mem[m].del
      BY <3>1 DEF TypeOK, M3M
    <3>3. /\ h \in Hosts /\ h \in Selected[m]
          /\ bmh[h].consumer \in {None, ClusterRef, m}
          /\ bmh[h].reuse \in {None, Deployment[m]}
          /\ \A g \in Hosts : bmh[g].consumer = m => g = h
      BY ChosenHost
    <3> QED
      BY <1>4, <3>1, <3>2, <3>3 DEF AssociateChoose, TypeOK
  <2> QED
    BY <2>1, <2>2
<1>5. CASE AssociateSecret(m)
  BY <1>5 DEF AssociateSecret, TypeOK, M3M
<1>6. CASE AssociateM3Metadata(m)
  BY <1>6 DEF AssociateM3Metadata, TypeOK, M3M
<1>7. CASE UpdateGet(m)
  <2>1. pc[m] = "updGet" /\ pc'[m] \in {"patchMeta", "updPatch"}
    BY <1>7 DEF UpdateGet, TypeOK
  <2>2. mem'[m].ann = mem[m].ann /\ mem'[m].del = mem[m].del
    BY <1>7 DEF UpdateGet, TypeOK, M3M
  <2>3. pc'[m] = "updPatch" =>
          /\ mem[m].ann \in Hosts
          /\ host'[m].name = mem[m].ann /\ host'[m].val = bmh[mem[m].ann]
    BY <1>7 DEF UpdateGet, TypeOK
  <2> QED
    BY <1>7, <2>1, <2>2, <2>3 DEF UpdateGet
<1>8. CASE UpdatePatch(m)
  BY <1>8 DEF UpdatePatch, TypeOK, M3M
<1>9. CASE CheckProvisioned(m)
  BY <1>9 DEF CheckProvisioned, TypeOK, M3M
<1>10. CASE ReconcileDelete(m)
  BY <1>10 DEF ReconcileDelete, TypeOK, M3M
<1>11. CASE DissociateM3Metadata(m)
  BY <1>11 DEF DissociateM3Metadata, TypeOK, M3M
<1>12. CASE DeleteGet(m)
  <2> DEFINE h == mem[m].ann
  <2>1. CASE h = None \/ bmh[h].st = "absent" \/ ~consumerRefMatches(h, m)
    BY <1>12, <2>1 DEF DeleteGet, TypeOK, M3M
  <2>2. CASE ~(h = None \/ bmh[h].st = "absent" \/ ~consumerRefMatches(h, m))
    <3>1. /\ host' = [host EXCEPT ![m] = [name |-> h, val |-> bmh[h]]]
          /\ pc' = [pc EXCEPT ![m] = "delSecret"]
          /\ UNCHANGED <<m3m, cache, mem, mutex>>
      BY <1>12, <2>2 DEF DeleteGet
    <3> QED
      BY <1>12, <2>2, <3>1 DEF DeleteGet, TypeOK, consumerRefMatches
  <2> QED
    BY <2>1, <2>2
<1>13. CASE DeleteSecret(m)
  BY <1>13 DEF DeleteSecret, TypeOK, M3M
<1>14. CASE PatchMeta(m)
  BY <1>14 DEF PatchMeta, PatchM3MMeta, Sent, GoneM3M, NewM3M, TypeOK, M3M
<1>15. CASE PatchStatus(m)
  BY <1>15 DEF PatchStatus, Finish, PatchM3MStatus, Sent, GoneM3M, NewM3M, TypeOK, M3M
<1>16. CASE CallFails(m)
  <2>1. CASE pc[m] = "patchStatus"
    <3>1. Finish(m) /\ UNCHANGED <<m3m, cache>>
      BY <1>16, <2>1, Zenon DEF CallFails
    <3>2. pc'[m] = "idle" /\ mem'[m].ann = None
      BY <3>1 DEF Finish, GoneM3M, NewM3M, TypeOK
    <3> QED
      BY <2>1, <3>1, <3>2
  <2>2. CASE pc[m] = "delSecret"
    <3>1. /\ pc'[m] \in {"delPatch", "patchMeta"}
          /\ UNCHANGED <<m3m, cache, mem, host>>
      BY <1>16, <2>2 DEF CallFails, TypeOK
    <3> QED
      BY <1>16, <2>2, <3>1
  <2>3. CASE pc[m] \notin {"patchStatus", "delSecret"}
    <3>1. /\ pc'[m] \in {"patchMeta", "patchStatus"}
          /\ pc[m] # "idle"
          /\ UNCHANGED <<m3m, cache>>
          /\ mem'[m].ann = mem[m].ann /\ mem'[m].del = mem[m].del
          /\ mem'[m].fin = mem[m].fin
      BY <1>16, <2>3 DEF CallFails, TypeOK, M3M
    <3> QED
      BY <1>16, <3>1
  <2> QED
    BY <2>1, <2>2, <2>3
<1>17. CASE CacheSync(m)
  BY <1>17 DEF CacheSync, TypeOK, M3M
<1>18. CASE DeleteMachine(m)
  BY <1>18 DEF DeleteMachine, GoneM3M, NewM3M, TypeOK, M3M
<1> QED
  BY <1>2, <1>3, <1>4, <1>5, <1>6, <1>7, <1>8, <1>9, <1>10, <1>11, <1>12, <1>13, <1>14, <1>15, <1>16, <1>17, <1>18
  DEF WorkerQuiet

\* A worker that does not move and has nothing to do with the host h that
\* changes hands keeps what it knows.
LEMMA Bystander ==
    ASSUME Ownership, NEW h \in Hosts, NEW n \in Machines,
           \A g \in Hosts \ {h} : bmh'[g] = bmh[g],
           bmh[h].consumer # n, bmh'[h].consumer # n,
           pc[n] = "assocPatch" => host[n].name # h,
           UNCHANGED <<m3m[n], cache[n], pc[n], mem[n], host[n]>>,
           mutex = n => mutex' = n
    PROVE  WorkerOK(n)'
<1>1. /\ WorkerOK(n)
      /\ m3m[n].ann \in Hosts \cup {None}
      /\ cache[n].ann \in Hosts \cup {None}
      /\ mem[n].ann \in Hosts \cup {None}
      /\ pc[n] \in {"assocPatch", "assocSecret", "updPatch", "delSecret",
                    "delPatch"} => host[n].name \in Hosts
  BY DEF Ownership, TypeInv, TypeOK, HostRead, M3M
<1> QED
  BY <1>1 DEF WorkerOK, Associating, DeletionSpreads, CopiesAgree,
              Releasing, ReadIsFresh, HeldIsOwn, ChoiceIsGood

\* Associate gives the chosen host to the machine.
LEMMA AssociateGives ==
    ASSUME Ownership, NEW m \in Machines, AssociatePatch(m)
    PROVE  /\ host[m].name \in Hosts
           /\ \A g \in Hosts \ {host[m].name} : bmh'[g] = bmh[g]
           /\ bmh'[host[m].name].consumer = m
           /\ bmh'[host[m].name].reuse = None
           /\ bmh'[host[m].name].st = bmh[host[m].name].st
           /\ bmh'[host[m].name].del = bmh[host[m].name].del
<1> DEFINE old == host[m].val
           b == setHostConsumerRef(old, m)
           new == IF m \in Templated THEN b ELSE setHostSpec(b, m, mem[m])
           h == host[m].name
<1>1. TypeInv /\ HostsStay /\ h \in Hosts /\ old \in BMH /\ mem[m] \in M3M
  BY DEF Ownership, TypeInv, TypeOK, Snapshot, HostRead, AssociatePatch
<1>2. b \in BMH /\ b.consumer = m /\ b.reuse = None
  <2>1. b \in BMH
    BY <1>1, HostConsumerType
  <2> QED
    BY <1>1, <2>1 DEF setHostConsumerRef, BMH
<1>3. new \in BMH /\ new.consumer = m /\ new.reuse = None
  <2> HIDE DEF b
  <2>1. /\ setHostSpec(b, m, mem[m]) \in BMH
        /\ setHostSpec(b, m, mem[m]).consumer = m
        /\ setHostSpec(b, m, mem[m]).reuse = None
    BY <1>1, <1>2, HostSpecType, HostSpecKeepsOwner
  <2> QED
    BY <1>2, <2>1
<1>4. PatchHost(m, new)
  BY DEF AssociatePatch
<1>5. old.consumer = bmh[h].consumer /\ old.reuse = bmh[h].reuse
  BY DEF Ownership, WorkerOK, ReadIsFresh, AssociatePatch
<1> HIDE DEF old, new, b, h
<1> QED
  BY <1>1, <1>3, <1>4, <1>5, PatchHostEffect DEF Sent, old, h

\* The patch of Associate keeps Ownership.
LEMMA AssociateStep ==
    ASSUME Ownership, TypeInv', NEW m \in Machines, AssociatePatch(m)
    PROVE  Ownership'
<1> DEFINE h == host[m].name
<1>1. /\ h \in Hosts
      /\ \A g \in Hosts \ {h} : bmh'[g] = bmh[g]
      /\ bmh'[h].consumer = m /\ bmh'[h].reuse = None
      /\ bmh'[h].st = bmh[h].st /\ bmh'[h].del = bmh[h].del
  BY AssociateGives
<1>2. /\ pc[m] = "assocPatch" /\ mutex = m
      /\ bmh[h].consumer \in {None, ClusterRef, m} /\ h \in Selected[m]
      /\ \A g \in Hosts : bmh[g].consumer = m => g = h
  BY DEF Ownership, WorkerOK, ChoiceIsGood, Associating, AssociatePatch
<1> HIDE DEF h
<1>3. HostsStay' /\ OwnIsSelected'
  BY <1>1, <1>2 DEF Ownership, HostsStay, OwnIsSelected
<1>4. OneHostPerMachine'
  BY <1>1, <1>2 DEF Ownership, OneHostPerMachine
<1>5. ReuseLabelMeansCluster'
  BY <1>1, Constants DEF Ownership, ReuseLabelMeansCluster
<1>6. WorkerOK(m)'
  <2>1. /\ WorkerOK(m) /\ TypeOK
        /\ m3m[m].ann \in Hosts \cup {None}
        /\ cache[m].ann \in Hosts \cup {None}
        /\ mem[m].ann \in Hosts \cup {None}
    BY DEF Ownership, TypeInv, TypeOK, M3M
  <2>2. bmh[h].st # "absent"
    BY <1>1 DEF Ownership, HostsStay
  <2>3. /\ pc'[m] = "assocSecret"
        /\ UNCHANGED <<m3m, cache, mem, host, mutex>>
    BY <2>1, <2>2 DEF AssociatePatch, Goto, TypeOK, h
  <2> QED
    BY <1>1, <1>2, <2>1, <2>3
       DEF WorkerOK, Associating, DeletionSpreads, CopiesAgree, Releasing,
           ReadIsFresh, HeldIsOwn, ChoiceIsGood, Normal, Deleting, h
<1>7. ASSUME NEW n \in Machines, n # m PROVE WorkerOK(n)'
  <2>1. pc[n] # "assocPatch"
    BY <1>2, <1>7 DEF Ownership, WorkerOK, Associating
  <2>2. /\ UNCHANGED <<m3m[n], cache[n], pc[n], mem[n], host[n]>>
        /\ mutex = n => mutex' = n
    BY <1>7, OthersStay DEF Ownership, TypeInv
  <2>3. bmh[h].consumer # n
    BY <1>2, <1>7, Constants
  <2> QED
    BY <1>1, <1>7, <2>1, <2>2, <2>3, Bystander
<1> QED
  BY <1>3, <1>4, <1>5, <1>6, <1>7 DEF Ownership

\* Delete leaves the owner of the host alone while it deprovisions it, and
\* then takes it from the machine.
LEMMA DeleteTakes ==
    ASSUME Ownership, NEW m \in Machines, DeletePatch(m)
    PROVE  \/ SameOwners
           \/ /\ host[m].name \in Hosts
              /\ bmh[host[m].name].consumer = m
              /\ \A g \in Hosts \ {host[m].name} : bmh'[g] = bmh[g]
              /\ LET p == bmh'[host[m].name]
                 IN  /\ \/ p.consumer = None /\ p.reuse = None
                        \/ p.consumer = ClusterRef /\ p.reuse = Deployment[m]
                     /\ p.st = bmh[host[m].name].st
                     /\ p.del = bmh[host[m].name].del
<1> DEFINE b == host[m].val
           h == host[m].name
           c == clearHostSpec(b, h, mem[m])
<1>1. /\ TypeInv /\ HostsStay /\ h \in Hosts /\ b \in BMH /\ mem[m] \in M3M
      /\ bmh \in [Hosts -> BMH]
  BY DEF Ownership, TypeInv, TypeOK, Snapshot, HostRead, DeletePatch
<1>2. /\ bmh[h].consumer = m
      /\ b.consumer = bmh[h].consumer /\ b.reuse = bmh[h].reuse
  BY DEF Ownership, WorkerOK, ReadIsFresh, HeldIsOwn, DeletePatch
<1>3. bmh[h].reuse = None
  BY <1>1, <1>2, Constants DEF Ownership, ReuseLabelMeansCluster
<1>4. c \in BMH /\ c.consumer = b.consumer /\ c.reuse = b.reuse
  <2>1. c \in BMH
    BY <1>1, HostClearType
  <2> QED
    BY <1>1, <2>1 DEF clearHostSpec, BMH
<1>5. \/ PatchHost(m, c)
      \/ UNCHANGED bmh
      \/ \E reuse \in {Deployment[m] \in NodeReuse, FALSE} :
            PatchHost(m, releaseHost(b, m, reuse))
  BY Zenon DEF DeletePatch
<1>6. (Deployment[m] \in NodeReuse) \in BOOLEAN
  OBVIOUS
<1> HIDE DEF b, h, c
<1>7. CASE PatchHost(m, c)
  <2>1. /\ \A g \in Hosts \ {h} : bmh'[g] = bmh[g]
        /\ bmh'[h].consumer = bmh[h].consumer
        /\ bmh'[h].reuse = bmh[h].reuse
        /\ bmh'[h].st = bmh[h].st /\ bmh'[h].del = bmh[h].del
    BY <1>1, <1>4, <1>7, PatchHostEffect DEF Sent, b, h
  <2> QED
    BY <1>1, <2>1 DEF SameOwners, HostsStay
<1>8. CASE UNCHANGED bmh
  BY <1>8, UnchangedHosts
<1>9. ASSUME NEW reuse \in BOOLEAN, PatchHost(m, releaseHost(b, m, reuse))
      PROVE  /\ \A g \in Hosts \ {h} : bmh'[g] = bmh[g]
             /\ \/ bmh'[h].consumer = None /\ bmh'[h].reuse = None
                \/ bmh'[h].consumer = ClusterRef /\ bmh'[h].reuse = Deployment[m]
             /\ bmh'[h].st = bmh[h].st /\ bmh'[h].del = bmh[h].del
  <2> DEFINE new == releaseHost(b, m, reuse)
  <2>1. new \in BMH
    BY <1>1, HostReleaseType
  <2>2. \/ new.consumer = None /\ new.reuse = None
        \/ new.consumer = ClusterRef /\ new.reuse = Deployment[m]
    BY <1>1, <1>2, <1>3, Constants DEF releaseHost, BMH
  <2> HIDE DEF new
  <2>3. PatchHost(m, new)
    BY <1>9 DEF new
  <2> QED
    BY <1>1, <1>2, <1>3, <2>1, <2>2, <2>3, Constants, PatchHostEffect
       DEF Sent, b, h
<1> QED
  BY <1>1, <1>2, <1>5, <1>6, <1>7, <1>8, <1>9 DEF b, h

\* The patch of Delete keeps Ownership.
LEMMA DeleteStep ==
    ASSUME Ownership, TypeInv', NEW m \in Machines, DeletePatch(m)
    PROVE  Ownership'
<1> DEFINE h == host[m].name
<1>1. WorkerOK(m)'
  <2>1. /\ WorkerOK(m) /\ TypeOK /\ mem[m] \in M3M
        /\ pc[m] = "delPatch"
    BY DEF Ownership, TypeInv, TypeOK, DeletePatch
  <2>2. /\ pc' = [pc EXCEPT ![m] = "patchMeta"]
        /\ UNCHANGED <<m3m, cache, mutex>>
        /\ \/ UNCHANGED mem
           \/ mem' = [mem EXCEPT ![m] = [mem[m] EXCEPT !.fin = FALSE]]
    BY Zenon DEF DeletePatch, Goto
  <2>3. pc'[m] = "patchMeta" /\ mem'[m].del = mem[m].del
    BY <2>1, <2>2 DEF TypeOK, M3M
  <2> QED
    BY <2>1, <2>2, <2>3
       DEF WorkerOK, Associating, DeletionSpreads, CopiesAgree, Releasing,
           ReadIsFresh, HeldIsOwn, ChoiceIsGood, Normal, Deleting
<1>2. ASSUME NEW n \in Machines, n # m
      PROVE  /\ UNCHANGED <<m3m[n], cache[n], pc[n], mem[n], host[n]>>
             /\ mutex = n => mutex' = n
  BY <1>2, OthersStay DEF Ownership, TypeInv
<1>3. CASE SameOwners
  <2>1. ASSUME NEW n \in Machines, n # m PROVE WorkerOK(n)'
    BY <1>2, <1>3, <2>1, OtherWorker
  <2> QED
    BY <1>1, <1>3, <2>1, SameOwnersKeeps DEF Ownership
<1>4. CASE ~SameOwners
  <2>1. /\ h \in Hosts
        /\ bmh[h].consumer = m
        /\ \A g \in Hosts \ {h} : bmh'[g] = bmh[g]
        /\ \/ bmh'[h].consumer = None /\ bmh'[h].reuse = None
           \/ bmh'[h].consumer = ClusterRef /\ bmh'[h].reuse = Deployment[m]
        /\ bmh'[h].st = bmh[h].st /\ bmh'[h].del = bmh[h].del
        /\ Deployment[m] # None
    BY <1>4, DeleteTakes, Constants
  <2> HIDE DEF h
  <2>2. HostsStay' /\ OwnIsSelected'
    BY <2>1, Constants DEF Ownership, HostsStay, OwnIsSelected
  <2>3. OneHostPerMachine'
    BY <2>1, Constants DEF Ownership, OneHostPerMachine
  <2>4. ReuseLabelMeansCluster'
    BY <2>1, Constants DEF Ownership, ReuseLabelMeansCluster
  <2>5. ASSUME NEW n \in Machines, n # m PROVE WorkerOK(n)'
    <3>1. pc[n] = "assocPatch" => host[n].name # h
      BY <2>1, <2>5, Constants DEF Ownership, WorkerOK, ChoiceIsGood
    <3>2. bmh[h].consumer # n /\ bmh'[h].consumer # n
      BY <2>1, <2>5, Constants
    <3> QED
      BY <1>2, <2>1, <2>5, <3>1, <3>2, Bystander
  <2> QED
    BY <1>1, <2>2, <2>3, <2>4, <2>5 DEF Ownership
<1> QED
  BY <1>3, <1>4

\* Ownership holds at the start and is kept by every step, as long as no
\* host is deleted.
LEMMA OwnershipInit == Init => Ownership
<1> SUFFICES ASSUME Init PROVE Ownership
  OBVIOUS
<1>1. TypeInv
  BY TypeInit
<1>2. /\ \A h \in Hosts : bmh[h] = NewBMH
      /\ \A m \in Machines : /\ m3m[m] = NewM3M /\ cache[m] = NewM3M
                             /\ mem[m] = GoneM3M /\ pc[m] = "idle"
  BY DEF Init
<1>3. /\ HostsStay /\ OwnIsSelected /\ OneHostPerMachine
      /\ ReuseLabelMeansCluster
  BY <1>2, Constants
     DEF HostsStay, OwnIsSelected, OneHostPerMachine, ReuseLabelMeansCluster,
         NewBMH
<1>4. ASSUME NEW m \in Machines PROVE WorkerOK(m)
  BY ZenonT(40), <1>2
     DEF WorkerOK, Associating, DeletionSpreads, CopiesAgree, Releasing,
         ReadIsFresh, HeldIsOwn, ChoiceIsGood, Normal, Deleting, NewM3M,
         GoneM3M
<1> QED
  BY <1>1, <1>3, <1>4 DEF Ownership

\* Every step keeps Ownership.
LEMMA OwnershipStep ==
    ASSUME HostChurn = {}
    PROVE  Ownership /\ [Next]_vars => Ownership'
<1> SUFFICES ASSUME Ownership, [Next]_vars PROVE Ownership'
  OBVIOUS
<1>0. TypeInv /\ TypeInv' /\ TypeOK /\ TypeOK'
  BY TypeStep DEF Ownership, TypeInv
<1>1. ASSUME SameOwners, \A n \in Machines : WorkerOK(n)' PROVE Ownership'
  BY <1>0, <1>1, SameOwnersKeeps DEF Ownership
<1>2. ASSUME SameOwners, UNCHANGED <<m3m, cache, pc, mem, host, mutex>>
      PROVE  Ownership'
  <2>1. ASSUME NEW n \in Machines PROVE WorkerOK(n)'
    BY <1>2, OtherWorker
  <2> QED
    BY <1>1, <1>2, <2>1
<1>3. ASSUME NEW m \in Machines, WorkerQuiet(m) PROVE Ownership'
  <2>1. SameOwners
    <3>1. UpdatePatch(m) \/ UNCHANGED bmh
      BY <1>3
         DEF WorkerQuiet, apiVars, ReconcileNormal, AssociateLock,
             AssociateChoose, AssociateSecret, AssociateM3Metadata, UpdateGet,
             CheckProvisioned, ReconcileDelete, DissociateM3Metadata,
             DeleteGet, DeleteSecret, PatchMeta, PatchStatus, CallFails,
             CacheSync, DeleteMachine
    <3> QED
      BY <3>1, UpdateKeepsOwners, UnchangedHosts
  <2>2. WorkerOK(m)'
    BY <1>0, <1>3, <2>1, WorkerStep
  <2>3. ASSUME NEW n \in Machines, n # m PROVE WorkerOK(n)'
    <3>1. /\ UNCHANGED <<m3m[n], cache[n], pc[n], mem[n], host[n]>>
          /\ mutex = n => mutex' = n
      BY <1>0, <1>3, <2>3, OthersStay
    <3> QED
      BY <2>1, <3>1, OtherWorker
  <2> QED
    BY <1>1, <2>1, <2>2, <2>3
<1>4. ASSUME NEW m \in Machines, AssociatePatch(m) PROVE Ownership'
  BY <1>0, <1>4, AssociateStep
<1>5. ASSUME NEW m \in Machines, DeletePatch(m) PROVE Ownership'
  BY <1>0, <1>5, DeleteStep
<1>6. CASE Crash
  <2>1. SameOwners
    BY <1>6, UnchangedHosts DEF Crash, apiVars
  <2>2. ASSUME NEW n \in Machines PROVE WorkerOK(n)'
    <3>1. /\ WorkerOK(n) /\ m3m[n].ann \in Hosts \cup {None}
          /\ pc'[n] = "idle" /\ mem'[n].ann = None
          /\ cache'[n] = m3m[n] /\ m3m'[n] = m3m[n] /\ UNCHANGED bmh
      BY <1>0, <1>6
         DEF Ownership, TypeOK, M3M, Crash, apiVars, GoneM3M, NewM3M
    <3> QED
      BY <3>1 DEF WorkerOK, Associating, DeletionSpreads, CopiesAgree,
                  Releasing, ReadIsFresh, HeldIsOwn, ChoiceIsGood, Normal,
                  Deleting
  <2> QED
    BY <1>1, <2>1, <2>2
<1>7. ASSUME NEW m \in Machines, BootstrapReady(m) \/ ClaimProgress(m)
      PROVE  Ownership'
  BY <1>2, <1>7, UnchangedHosts
     DEF BootstrapReady, ClaimProgress, apiVars, workerVars
<1>8. ASSUME NEW h \in Hosts, BMOProgress(h) \/ DegradeHost(h)
      PROVE  Ownership'
  BY <1>2, <1>8, OperatorKeepsOwners
     DEF BMOProgress, DegradeHost, workerVars
<1>9. ASSUME NEW h \in Hosts, DeleteHost(h) \/ EnrolHost(h) PROVE Ownership'
  BY <1>9 DEF Ownership, HostsStay, DeleteHost, EnrolHost
<1>10. CASE UNCHANGED vars
  BY <1>2, <1>10, UnchangedHosts DEF vars
<1> QED
  BY <1>3, <1>4, <1>5, <1>6, <1>7, <1>8, <1>9, <1>10
     DEF Next, Worker, Environment, WorkerQuiet

\* A machine that is not being deleted and its host agree about their
\* association, in every reachable state.
THEOREM AnnotationAgrees ==
    ASSUME HostChurn = {}
    PROVE  Spec => []AnnotationMatchesConsumer
<1>1. Ownership => AnnotationMatchesConsumer
  BY DEF Ownership, WorkerOK, DeletionSpreads, CopiesAgree, Releasing, Live,
         AnnotationMatchesConsumer, consumerRefMatches
<1> QED
  BY <1>1, OwnershipInit, OwnershipStep, PTL DEF Spec

\* No machine ever holds two hosts: Associate, cut short anywhere, resumes on
\* the host it had given itself.
THEOREM NeverTwoHosts ==
    ASSUME HostChurn = {}
    PROVE  Spec => []OneHostPerMachine
<1>1. Ownership => OneHostPerMachine
  BY DEF Ownership
<1> QED
  BY <1>1, OwnershipInit, OwnershipStep, PTL DEF Spec

\* A labelled host is the Cluster's, and the Cluster's hosts are labelled:
\* Delete sets both in one patch, setHostConsumerRef clears both in one.
THEOREM LabelMeansCluster ==
    ASSUME HostChurn = {}
    PROVE  Spec => []ReuseLabelMeansCluster
<1>1. Ownership => ReuseLabelMeansCluster
  BY DEF Ownership
<1> QED
  BY <1>1, OwnershipInit, OwnershipStep, PTL DEF Spec

\* No step of Associate, Update or Delete gives one machine's host to another
\* machine.
THEOREM NoTheft ==
    ASSUME HostChurn = {}
    PROVE  Spec => ConsumerNotStolen
<1>1. Ownership /\ [Next]_vars => [ConsumerStep]_vars
  <2> SUFFICES ASSUME Ownership, Next PROVE ConsumerStep
    BY DEF ConsumerStep
  <2>1. ASSUME SameOwners PROVE ConsumerStep
    BY <2>1 DEF SameOwners, ConsumerStep
  <2>2. ASSUME NEW m \in Machines, AssociatePatch(m) PROVE ConsumerStep
    <3>1. bmh[host[m].name].consumer \in {None, ClusterRef, m}
      BY <2>2 DEF Ownership, WorkerOK, ChoiceIsGood, AssociatePatch
    <3> QED
      BY <2>2, <3>1, Constants, AssociateGives DEF ConsumerStep
  <2>3. ASSUME NEW m \in Machines, DeletePatch(m) PROVE ConsumerStep
    BY <2>1, <2>3, DeleteTakes DEF ConsumerStep
  <2>4. ASSUME NEW m \in Machines, UpdatePatch(m) PROVE ConsumerStep
    BY <2>1, <2>4, UpdateKeepsOwners
  <2>5. ASSUME NEW h \in Hosts, BMOProgress(h) \/ DegradeHost(h)
        PROVE  ConsumerStep
    BY <2>1, <2>5, OperatorKeepsOwners
  <2>6. ASSUME NEW h \in Hosts, DeleteHost(h) \/ EnrolHost(h)
        PROVE  ConsumerStep
    BY <2>6 DEF Ownership, HostsStay, DeleteHost, EnrolHost
  <2>7. CASE UNCHANGED bmh
    BY <2>1, <2>7, UnchangedHosts
  <2> QED
    BY <2>2, <2>3, <2>4, <2>5, <2>6, <2>7
       DEF Next, Worker, Environment, apiVars, ReconcileNormal,
           AssociateLock, AssociateChoose, AssociateSecret,
           AssociateM3Metadata, UpdateGet, CheckProvisioned, ReconcileDelete,
           DissociateM3Metadata, DeleteGet, DeleteSecret, PatchMeta,
           PatchStatus, CallFails, Crash, CacheSync, BootstrapReady,
           DeleteMachine, ClaimProgress
<1> QED
  BY <1>1, OwnershipInit, OwnershipStep, PTL DEF Spec, ConsumerNotStolen

\* A step that changes no owner is no step of the pool.
LEMMA SameOwnersStutters ==
    ASSUME SameOwners
    PROVE  UNCHANGED <<ownerOf, keptFor>>
BY DEF SameOwners, ownerOf, keptFor

\* Associate's patch takes the chosen host out of the pool, or finds that it is
\* the machine's already.
LEMMA AssociateTakes ==
    ASSUME Ownership, NEW m \in Machines, AssociatePatch(m)
    PROVE  Pool!Next \/ UNCHANGED <<ownerOf, keptFor>>
<1> DEFINE h == host[m].name
<1>1. /\ h \in Hosts
      /\ \A g \in Hosts \ {h} : bmh'[g] = bmh[g]
      /\ bmh'[h].consumer = m /\ bmh'[h].reuse = None
  BY AssociateGives
<1>2. /\ bmh[h].consumer \in {None, ClusterRef, m}
      /\ bmh[h].reuse \in {None, Deployment[m]}
      /\ \A g \in Hosts : bmh[g].consumer = m => g = h
  BY DEF Ownership, WorkerOK, ChoiceIsGood, AssociatePatch
<1>3. bmh[h].consumer = m => bmh[h].reuse = None
  BY <1>1, Constants DEF Ownership, ReuseLabelMeansCluster
<1> HIDE DEF h
<1>4. CASE bmh[h].consumer = m
  BY <1>1, <1>3, <1>4 DEF ownerOf, keptFor
<1>5. CASE bmh[h].consumer # m
  <2>1. ownerOf[h] = None /\ keptFor[h] \in {None, Deployment[m]}
    BY <1>1, <1>2, <1>5, Constants DEF ownerOf, keptFor
  <2>2. \A g \in Hosts : ownerOf[g] # m
    BY <1>2, <1>5, Constants DEF ownerOf
  <2>3. /\ ownerOf' = [ownerOf EXCEPT ![h] = m]
        /\ keptFor' = [keptFor EXCEPT ![h] = None]
    BY <1>1 DEF ownerOf, keptFor
  <2>4. Pool!Take(m, h)
    BY <2>1, <2>2, <2>3 DEF Pool!Take
  <2> QED
    BY <1>1, <2>4 DEF Pool!Next
<1> QED
  BY <1>4, <1>5

\* Delete's last patch gives the host back to the pool.
LEMMA DeleteGivesUp ==
    ASSUME Ownership, NEW m \in Machines, DeletePatch(m)
    PROVE  Pool!Next \/ UNCHANGED <<ownerOf, keptFor>>
<1> DEFINE h == host[m].name
<1>1. CASE SameOwners
  BY <1>1, SameOwnersStutters
<1>2. CASE ~SameOwners
  <2>1. /\ h \in Hosts
        /\ bmh[h].consumer = m
        /\ \A g \in Hosts \ {h} : bmh'[g] = bmh[g]
        /\ \/ bmh'[h].consumer = None /\ bmh'[h].reuse = None
           \/ bmh'[h].consumer = ClusterRef /\ bmh'[h].reuse = Deployment[m]
    BY <1>2, DeleteTakes
  <2> HIDE DEF h
  <2>2. /\ ownerOf[h] = m
        /\ ownerOf' = [ownerOf EXCEPT ![h] = None]
    BY <2>1, Constants DEF ownerOf
  <2>3. /\ keptFor' = [keptFor EXCEPT ![h] = bmh'[h].reuse]
        /\ bmh'[h].reuse \in {None, Deployment[m]}
    BY <2>1 DEF keptFor
  <2>4. Pool!GiveUp(m, h)
    BY <2>2, <2>3 DEF Pool!GiveUp
  <2> QED
    BY <2>1, <2>4 DEF Pool!Next
<1> QED
  BY <1>1, <1>2

\* The controller, with its caches, patches, mutex, crashes and failed calls,
\* implements the pool of hosts that HostPool describes.
THEOREM HostPoolRefined ==
    ASSUME HostChurn = {}
    PROVE  Spec => ImplementsHostPool
<1>1. Init => Pool!Init
  BY Constants DEF Init, Pool!Init, ownerOf, keptFor, NewBMH
<1>2. Ownership /\ [Next]_vars => [Pool!Next]_<<ownerOf, keptFor>>
  <2> SUFFICES ASSUME Ownership, [Next]_vars
               PROVE  Pool!Next \/ UNCHANGED <<ownerOf, keptFor>>
    OBVIOUS
  <2>1. ASSUME NEW m \in Machines, UpdatePatch(m)
        PROVE  UNCHANGED <<ownerOf, keptFor>>
    BY <2>1, UpdateKeepsOwners, SameOwnersStutters
  <2>2. ASSUME NEW h \in Hosts, BMOProgress(h) \/ DegradeHost(h)
        PROVE  UNCHANGED <<ownerOf, keptFor>>
    BY <2>2, OperatorKeepsOwners, SameOwnersStutters
  <2>3. ASSUME NEW h \in Hosts, DeleteHost(h) \/ EnrolHost(h)
        PROVE  FALSE
    BY <2>3 DEF Ownership, HostsStay, DeleteHost, EnrolHost
  <2>4. CASE UNCHANGED bmh
    BY <2>4 DEF ownerOf, keptFor
  <2> QED
    BY ZenonT(40), <2>1, <2>2, <2>3, <2>4, AssociateTakes, DeleteGivesUp
       DEF Next, Worker, Environment, apiVars, vars, ReconcileNormal,
           AssociateLock, AssociateChoose, AssociateSecret,
           AssociateM3Metadata, UpdateGet, CheckProvisioned, ReconcileDelete,
           DissociateM3Metadata, DeleteGet, DeleteSecret, PatchMeta,
           PatchStatus, CallFails, Crash, CacheSync, BootstrapReady,
           DeleteMachine, ClaimProgress
<1> QED
  BY <1>1, <1>2, OwnershipInit, OwnershipStep, PTL
     DEF Spec, ImplementsHostPool, Pool!Spec

\* The mutex covers every association from the choice of a host to the
\* annotation, for hosts that come and go too.
THEOREM MutexCoversAssociation == Spec => []AssociationIsExclusive
<1>1. Init => AssociationIsExclusive
  BY DEF Init, AssociationIsExclusive, Associating
<1>2. TypeInv /\ AssociationIsExclusive /\ [Next]_vars
        => AssociationIsExclusive'
  <2> SUFFICES ASSUME TypeInv, AssociationIsExclusive, [Next]_vars
               PROVE  AssociationIsExclusive'
    OBVIOUS
  <2>1. ASSUME NEW m \in Machines, Worker(m) \/ CallFails(m)
                                   \/ CacheSync(m) \/ DeleteMachine(m)
        PROVE  AssociationIsExclusive'
    <3>1. ASSUME NEW n \in Machines, n # m, Associating(n)'
          PROVE  mutex' = n
      BY <2>1, <3>1, OthersStay
         DEF AssociationIsExclusive, Associating, TypeInv, Worker, WorkerQuiet
    <3>2. Associating(m)' => mutex' = m
      <4> USE DEF AssociationIsExclusive, Associating, TypeInv, TypeOK, Goto,
                  apiVars, workerVars
      <4>1. CASE AssociateLock(m) \/ AssociateChoose(m) \/ AssociatePatch(m)
        BY <2>1, <4>1 DEF AssociateLock, AssociateChoose, AssociatePatch
      <4>2. CASE CacheSync(m) \/ DeleteMachine(m)
        BY <4>2 DEF CacheSync, DeleteMachine
      <4>3. CASE CallFails(m)
        BY <4>3 DEF CallFails, Finish
      <4>4. CASE ReconcileNormal(m) \/ AssociateSecret(m)
                 \/ AssociateM3Metadata(m) \/ UpdateGet(m) \/ UpdatePatch(m)
        BY <4>4 DEF ReconcileNormal, AssociateSecret, AssociateM3Metadata,
                    UpdateGet, UpdatePatch
      <4>5. CASE CheckProvisioned(m)
        BY <4>5 DEF CheckProvisioned
      <4>6. CASE ReconcileDelete(m) \/ DissociateM3Metadata(m)
                 \/ DeleteGet(m) \/ DeleteSecret(m) \/ DeletePatch(m)
        BY <4>6 DEF ReconcileDelete, DissociateM3Metadata, DeleteGet,
                    DeleteSecret, DeletePatch
      <4>7. CASE PatchMeta(m) \/ PatchStatus(m)
        BY <4>7 DEF PatchMeta, PatchStatus, Finish
      <4> QED
        BY <2>1, <4>1, <4>2, <4>3, <4>4, <4>5, <4>6, <4>7 DEF Worker
    <3> QED
      BY <3>1, <3>2 DEF AssociationIsExclusive
  <2>2. CASE Crash
    BY <2>2 DEF Crash, AssociationIsExclusive, Associating
  <2>3. CASE UNCHANGED <<pc, mutex>>
    BY <2>3 DEF AssociationIsExclusive, Associating
  <2> QED
    BY <2>1, <2>2, <2>3
       DEF Next, Environment, vars, workerVars, BootstrapReady, ClaimProgress,
           BMOProgress, DeleteHost, EnrolHost, DegradeHost
<1> QED
  BY <1>1, <1>2, TypeInit, TypeStep, PTL DEF Spec

=============================================================================
