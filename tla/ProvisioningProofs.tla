------------------------- MODULE ProvisioningProofs -------------------------
(***************************************************************************)
(* Proofs about what is on the hosts of module Metal3Machine: an image, its *)
(* userData and what runs from it are those of the host's consumer, and a  *)
(* host that is given up has none of them.  They build on Ownership.       *)
(***************************************************************************)
EXTENDS Metal3MachineProofs

\* A worker is about to write the host it read.
Writing == {"assocPatch", "updPatch", "delSecret", "delPatch"}

\* Nothing runs on a host the operator reports as registering or available.
IdleHostIsEmpty ==
    \A h \in Hosts :
        bmh[h].st \in {"registering", "available"} => bmh[h].disk = None

\* The image and userData a worker read of a host are still there when it
\* writes; a host it saw idle and without an image is idle still; before the
\* host is given up its BMC Secret is without the label, or something failed.
SpecIsFresh(m) ==
    /\ pc[m] \in Writing =>
         /\ host[m].val.img = bmh[host[m].name].img
         /\ host[m].val.ud = bmh[host[m].name].ud
    /\ pc[m] \in Writing /\ host[m].val.img = None =>
         \/ host[m].val.st \notin {"registering", "available"}
         \/ bmh[host[m].name].st \in {"registering", "available"}
    /\ pc[m] = "delPatch" /\ host[m].name \in bmcSecret => faults > 0

Content ==
    /\ Ownership
    /\ RunningHostIsOwned
    /\ ImageIsConsumers
    /\ ReleasedHostIsClean
    /\ IdleHostIsEmpty
    /\ \A m \in Machines : SpecIsFresh(m)

----------------------------------------------------------------------------
(* The operators. *)

\* setHostConsumerRef leaves the spec alone.
LEMMA ConsumerKeepsSpec ==
    ASSUME NEW b \in BMH, NEW m \in Machines
    PROVE  LET r == setHostConsumerRef(b, m)
           IN  r.img = b.img /\ r.ud = b.ud /\ r.consumer = m
BY DEF setHostConsumerRef, BMH

\* setHostSpec sets image and userData together, on a host without image.
LEMMA SpecSetTogether ==
    ASSUME NEW b \in BMH, NEW m \in Machines, NEW mm \in M3M
    PROVE  LET r == setHostSpec(b, m, mm)
           IN  \/ b.img = None /\ r.img = m /\ r.ud = m
               \/ r.img = b.img /\ r.ud = b.ud
BY DEF setHostSpec, BMH

\* The first part of Delete takes the image away.
LEMMA ClearTakesImage ==
    ASSUME NEW b \in BMH, NEW h \in Hosts, NEW mm \in M3M
    PROVE  /\ clearHostSpec(b, h, mm).img = None
           /\ clearHostSpec(b, h, mm).consumer = b.consumer
BY DEF clearHostSpec, BMH

\* Its last part leaves the spec alone.
LEMMA ReleaseKeepsSpec ==
    ASSUME NEW b \in BMH, NEW m \in Machines, NEW reuse \in BOOLEAN
    PROVE  LET r == releaseHost(b, m, reuse)
           IN  r.img = b.img /\ r.ud = b.ud
BY DEF releaseHost, BMH

\* What a patch by the worker of m does to the spec of its host.
LEMMA PatchHostSpec ==
    ASSUME TypeInv, HostsStay, NEW m \in Machines, NEW new \in BMH,
           PatchHost(m, new), host[m].name \in Hosts
    PROVE  LET p == bmh'[host[m].name]
               cur == bmh[host[m].name]
               old == host[m].val
           IN  /\ p.img = Sent(cur.img, old.img, new.img)
               /\ p.ud = Sent(cur.ud, old.ud, new.ud)
               /\ p.consumer = Sent(cur.consumer, old.consumer, new.consumer)
               /\ p.st = cur.st
               /\ p.disk = cur.disk
<1>1. /\ bmh \in [Hosts -> BMH]
      /\ host[m].val \in BMH
      /\ bmh[host[m].name] \in BMH
      /\ bmh[host[m].name].st # "absent"
  BY DEF TypeInv, TypeOK, Snapshot, HostsStay
<1>2. bmh'[host[m].name] = PatchBMH(bmh[host[m].name], host[m].val, new)
  BY <1>1 DEF PatchHost
<1> QED
  BY <1>1, <1>2 DEF PatchBMH, BMH

----------------------------------------------------------------------------
(* The three steps of a worker that write its host. *)

\* The host that the worker of m writes is in no other writer's hands.
LEMMA OneWriter ==
    ASSUME Content, NEW m \in Machines, NEW n \in Machines, n # m,
           pc[m] \in Writing, pc[n] \in Writing
    PROVE  host[n].name # host[m].name
<1>1. ASSUME NEW k \in Machines, pc[k] \in Writing
      PROVE  \/ bmh[host[k].name].consumer = k
             \/ /\ mutex = k
                /\ bmh[host[k].name].consumer \in {None, ClusterRef}
  BY <1>1 DEF Content, Ownership, WorkerOK, HeldIsOwn, ChoiceIsGood,
              Associating, Writing
<1> QED
  BY <1>1, Constants

\* What such a step leaves behind on its host.
HostIsSound(h) ==
    /\ bmh[h].disk # None => bmh[h].consumer = bmh[h].disk
    /\ bmh[h].img # None => bmh[h].img = bmh[h].consumer /\ bmh[h].ud = bmh[h].img
    /\ bmh[h].consumer \notin Machines => bmh[h].img = None /\ (h \in bmcSecret => faults > 0)
    /\ bmh[h].st \in {"registering", "available"} => bmh[h].disk = None

\* A host that is written without its image, consumer and state changing in a
\* bad way keeps Content.
LEMMA WriteStep ==
    ASSUME Content, Ownership', NEW m \in Machines, pc[m] \in Writing,
           host[m].name \in Hosts,
           AssociatePatch(m) \/ UpdatePatch(m) \/ DeletePatch(m),
           \A g \in Hosts \ {host[m].name} : bmh'[g] = bmh[g],
           HostIsSound(host[m].name)'
    PROVE  Content'
<1>1. /\ pc'[m] \notin Writing
      /\ UNCHANGED <<bmcSecret, host, faults>>
  <2>1. pc \in [Machines -> PC]
    BY DEF Content, Ownership, TypeInv, TypeOK
  <2>2. /\ \E p \in {"patchMeta", "assocSecret", "isProvisioned", "updGet"} :
             pc' = [pc EXCEPT ![m] = p]
        /\ UNCHANGED <<bmcSecret, host, faults>>
    BY DEF AssociatePatch, UpdatePatch, DeletePatch, Goto
  <2> QED
    BY <2>1, <2>2 DEF Writing
<1>2. \A h \in Hosts : HostIsSound(h)'
  <2>1. ASSUME NEW h \in Hosts, h # host[m].name PROVE HostIsSound(h)'
    BY <1>1, <2>1 DEF HostIsSound, Content, RunningHostIsOwned,
       ImageIsConsumers, ReleasedHostIsClean, IdleHostIsEmpty
  <2>2. ASSUME NEW h \in Hosts, h = host[m].name PROVE HostIsSound(h)'
    BY <1>1, <2>2 DEF HostIsSound
  <2> QED
    BY <2>1, <2>2
<1>3. ASSUME NEW n \in Machines PROVE SpecIsFresh(n)'
  <2>1. CASE n = m
    BY <1>1, <2>1 DEF SpecIsFresh, Writing
  <2>2. CASE n # m
    <3>1. pc'[n] = pc[n] /\ host'[n] = host[n]
      BY <2>2, OthersStay DEF Content, Ownership, TypeInv, WorkerQuiet
    <3>2. pc[n] \in Writing => host[n].name \in Hosts \ {host[m].name}
      BY <2>2, OneWriter DEF Content, Ownership, TypeInv, HostRead, Writing
    <3> QED
      BY <1>1, <3>1, <3>2 DEF Content, SpecIsFresh, Writing
  <2> QED
    BY <2>1, <2>2
<1> QED
  BY <1>2, <1>3 DEF Content, HostIsSound, RunningHostIsOwned,
     ImageIsConsumers, ReleasedHostIsClean, IdleHostIsEmpty

\* Associate writes a host that has no image, or its own.
LEMMA AssociateContent ==
    ASSUME Content, Ownership', NEW m \in Machines, AssociatePatch(m)
    PROVE  Content'
<1> DEFINE old == host[m].val
           b == setHostConsumerRef(old, m)
           new == IF m \in Templated THEN b ELSE setHostSpec(b, m, mem[m])
           h == host[m].name
<1>1. /\ TypeInv /\ HostsStay /\ h \in Hosts /\ old \in BMH /\ mem[m] \in M3M
      /\ pc[m] \in Writing /\ bmh[h] \in BMH
  BY DEF Content, Ownership, TypeInv, TypeOK, Snapshot, HostRead,
         AssociatePatch, Writing
<1>2. b \in BMH /\ b.img = old.img /\ b.ud = old.ud
  BY <1>1, HostConsumerType, ConsumerKeepsSpec
<1>3. /\ new \in BMH
      /\ \/ old.img = None /\ new.img = m /\ new.ud = m
         \/ new.img = old.img /\ new.ud = old.ud
  <2> HIDE DEF b
  <2>1. /\ setHostSpec(b, m, mem[m]) \in BMH
        /\ LET r == setHostSpec(b, m, mem[m])
           IN  \/ b.img = None /\ r.img = m /\ r.ud = m
               \/ r.img = b.img /\ r.ud = b.ud
    BY <1>1, <1>2, HostSpecType, SpecSetTogether
  <2> QED
    BY <1>2, <2>1
<1>4. PatchHost(m, new)
  BY DEF AssociatePatch
<1>5. old.img = bmh[h].img /\ old.ud = bmh[h].ud
  BY <1>1 DEF Content, SpecIsFresh
<1>6. /\ \A g \in Hosts \ {h} : bmh'[g] = bmh[g]
      /\ bmh'[h].consumer = m
  BY AssociateGives DEF Content
<1>7. bmh[h].consumer \in {None, ClusterRef, m}
  BY DEF Content, Ownership, WorkerOK, ChoiceIsGood, AssociatePatch
<1>8. UNCHANGED <<host, bmcSecret, faults>>
  BY DEF AssociatePatch
<1> HIDE DEF old, new, b, h
<1>9. /\ \/ bmh'[h].img = m /\ bmh'[h].ud = m
         \/ bmh'[h].img = bmh[h].img /\ bmh'[h].ud = bmh[h].ud
      /\ bmh'[h].st = bmh[h].st /\ bmh'[h].disk = bmh[h].disk
  BY <1>1, <1>3, <1>4, <1>5, PatchHostSpec DEF Sent, old, h
<1>10. /\ bmh[h].disk # None => bmh[h].consumer = bmh[h].disk
       /\ bmh[h].img # None => bmh[h].img = bmh[h].consumer /\ bmh[h].ud = bmh[h].img
       /\ bmh[h].st \in {"registering", "available"} => bmh[h].disk = None
       /\ bmh[h].disk \in Machines \cup {None} /\ bmh[h].img \in Machines \cup {None}
  BY <1>1 DEF Content, RunningHostIsOwned, ImageIsConsumers, IdleHostIsEmpty,
              BMH, Owner
<1>11. HostIsSound(host[m].name)'
  BY <1>6, <1>7, <1>8, <1>9, <1>10, Constants DEF HostIsSound, h
<1> QED
  BY <1>1, <1>6, <1>11, WriteStep DEF h

\* Update writes the image of the machine whose host it is.
LEMMA UpdateContent ==
    ASSUME Content, Ownership', NEW m \in Machines, UpdatePatch(m)
    PROVE  Content'
<1> DEFINE old == host[m].val
           b == setHostConsumerRef(old, m)
           new == setHostSpec(b, m, mem[m])
           h == host[m].name
<1>1. /\ TypeInv /\ HostsStay /\ h \in Hosts /\ old \in BMH /\ mem[m] \in M3M
      /\ pc[m] \in Writing /\ bmh \in [Hosts -> BMH] /\ bmh[h] \in BMH
  BY DEF Content, Ownership, TypeInv, TypeOK, Snapshot, HostRead,
         UpdatePatch, Writing
<1>2. b \in BMH /\ b.img = old.img /\ b.ud = old.ud
  BY <1>1, HostConsumerType, ConsumerKeepsSpec
<1>3. /\ new \in BMH
      /\ \/ old.img = None /\ new.img = m /\ new.ud = m
         \/ new.img = old.img /\ new.ud = old.ud
  <2> HIDE DEF b
  <2> QED
    BY <1>1, <1>2, HostSpecType, SpecSetTogether
<1>4. PatchHost(m, new)
  BY DEF UpdatePatch
<1>5. old.img = bmh[h].img /\ old.ud = bmh[h].ud
  BY <1>1 DEF Content, SpecIsFresh
<1>6. \A g \in Hosts \ {h} : bmh'[g] = bmh[g]
  BY <1>1, <1>4 DEF PatchHost
<1>7. bmh[h].consumer = m /\ bmh'[h].consumer = m
  <2>1. bmh[h].consumer = m
    BY DEF Content, Ownership, WorkerOK, HeldIsOwn, UpdatePatch
  <2>2. SameOwners
    BY UpdateKeepsOwners DEF Content
  <2> QED
    BY <1>1, <2>1, <2>2 DEF SameOwners
<1>8. UNCHANGED <<host, bmcSecret, faults>>
  BY DEF UpdatePatch
<1> HIDE DEF old, new, b, h
<1>9. /\ \/ bmh'[h].img = m /\ bmh'[h].ud = m
         \/ bmh'[h].img = bmh[h].img /\ bmh'[h].ud = bmh[h].ud
      /\ bmh'[h].st = bmh[h].st /\ bmh'[h].disk = bmh[h].disk
  BY <1>1, <1>3, <1>4, <1>5, PatchHostSpec DEF Sent, old, h
<1>10. /\ bmh[h].disk # None => bmh[h].consumer = bmh[h].disk
       /\ bmh[h].img # None => bmh[h].img = bmh[h].consumer /\ bmh[h].ud = bmh[h].img
       /\ bmh[h].st \in {"registering", "available"} => bmh[h].disk = None
  BY <1>1 DEF Content, RunningHostIsOwned, ImageIsConsumers, IdleHostIsEmpty
<1>11. HostIsSound(host[m].name)'
  BY <1>7, <1>8, <1>9, <1>10, Constants DEF HostIsSound, h
<1> QED
  BY <1>1, <1>6, <1>11, WriteStep DEF h

\* Delete takes the image away, and gives up a host that has been wiped.
LEMMA DeleteContent ==
    ASSUME Content, Ownership', NEW m \in Machines, DeletePatch(m)
    PROVE  Content'
<1> DEFINE b == host[m].val
           h == host[m].name
           c == clearHostSpec(b, h, mem[m])
<1>1. /\ TypeInv /\ HostsStay /\ h \in Hosts /\ b \in BMH /\ mem[m] \in M3M
      /\ pc[m] \in Writing /\ bmh \in [Hosts -> BMH] /\ bmh[h] \in BMH
  BY DEF Content, Ownership, TypeInv, TypeOK, Snapshot, HostRead,
         DeletePatch, Writing
<1>2. bmh[h].consumer = m /\ b.consumer = m
  BY DEF Content, Ownership, WorkerOK, ReadIsFresh, HeldIsOwn, DeletePatch
<1>3. /\ b.img = bmh[h].img /\ b.ud = bmh[h].ud
      /\ b.img = None => \/ waiting(b)
                         \/ bmh[h].st \in {"registering", "available"}
      /\ h \in bmcSecret => faults > 0
  BY <1>1 DEF Content, SpecIsFresh, waiting, DeletePatch
<1>4. c \in BMH /\ c.img = None /\ c.consumer = m
  BY <1>1, <1>2, HostClearType, ClearTakesImage
<1>5. \/ PatchHost(m, c)
      \/ UNCHANGED bmh
      \/ /\ c = b /\ ~waiting(b)
         /\ \E reuse \in {Deployment[m] \in NodeReuse, FALSE} :
               PatchHost(m, releaseHost(b, m, reuse))
  BY Zenon DEF DeletePatch
<1>6. (Deployment[m] \in NodeReuse) \in BOOLEAN
  OBVIOUS
<1>7. UNCHANGED <<bmcSecret, host, faults>>
  BY DEF DeletePatch
<1>8. /\ bmh[h].disk # None => bmh[h].consumer = bmh[h].disk
      /\ bmh[h].img # None => bmh[h].img = bmh[h].consumer /\ bmh[h].ud = bmh[h].img
      /\ bmh[h].st \in {"registering", "available"} => bmh[h].disk = None
  BY <1>1 DEF Content, RunningHostIsOwned, ImageIsConsumers, IdleHostIsEmpty
<1> HIDE DEF b, h, c
<1>9. CASE PatchHost(m, c)
  <2>1. /\ bmh'[h].img = None
        /\ bmh'[h].consumer = m
        /\ bmh'[h].st = bmh[h].st /\ bmh'[h].disk = bmh[h].disk
    BY <1>1, <1>2, <1>3, <1>4, <1>9, PatchHostSpec DEF Sent, b, h
  <2>2. HostIsSound(host[m].name)'
    BY <1>2, <1>7, <1>8, <2>1 DEF HostIsSound, h
  <2>3. \A g \in Hosts \ {h} : bmh'[g] = bmh[g]
    BY <1>1, <1>9 DEF PatchHost, h
  <2> QED
    BY <1>1, <2>2, <2>3, WriteStep DEF h
<1>10. CASE UNCHANGED bmh
  <2>1. HostIsSound(host[m].name)'
    BY <1>2, <1>7, <1>8, <1>10 DEF HostIsSound, h
  <2> QED
    BY <1>1, <1>10, <2>1, WriteStep DEF h
<1>11. ASSUME c = b, ~waiting(b), NEW reuse \in BOOLEAN,
              PatchHost(m, releaseHost(b, m, reuse))
       PROVE  Content'
  <2> DEFINE new == releaseHost(b, m, reuse)
  <2>1. new \in BMH /\ new.img = b.img /\ new.ud = b.ud
    BY <1>1, HostReleaseType, ReleaseKeepsSpec
  <2>2. PatchHost(m, new)
    BY <1>11
  <2> HIDE DEF new
  <2>3. b.img = None
    BY <1>4, <1>11
  <2>4. /\ bmh'[h].img = None
        /\ bmh'[h].st = bmh[h].st /\ bmh'[h].disk = bmh[h].disk
    BY <1>1, <1>3, <2>1, <2>2, <2>3, PatchHostSpec DEF Sent, b, h
  <2>5. bmh[h].disk = None
    BY <1>3, <1>8, <1>11, <2>3
  <2>6. HostIsSound(host[m].name)'
    BY <1>3, <1>7, <2>4, <2>5 DEF HostIsSound, h
  <2>7. \A g \in Hosts \ {h} : bmh'[g] = bmh[g]
    BY <1>1, <2>2 DEF PatchHost, h
  <2> QED
    BY <1>1, <2>6, <2>7, WriteStep DEF h
<1> QED
  BY <1>5, <1>6, <1>9, <1>10, <1>11

----------------------------------------------------------------------------
(* The steps that write no host, and those of the operator. *)

\* A step that leaves the hosts alone, and what it does to BMC Secrets.
LEMMA SameHosts ==
    ASSUME Content, Ownership', UNCHANGED bmh,
           \A n \in Machines : SpecIsFresh(n)',
           \A h \in bmcSecret' \ bmcSecret : bmh[h].consumer \in Machines,
           faults > 0 => faults' > 0
    PROVE  Content'
BY DEF Content, RunningHostIsOwned, ImageIsConsumers, ReleasedHostIsClean,
       IdleHostIsEmpty

\* A worker that reads a host, or does not write one, knows its spec.
LEMMA ReadContent ==
    ASSUME Content, Ownership', NEW m \in Machines, WorkerQuiet(m),
           ~UpdatePatch(m)
    PROVE  Content'
<1>1. TypeOK
  BY DEF Content, Ownership, TypeInv
<1>2. UNCHANGED bmh
  BY DEF WorkerQuiet, apiVars, ReconcileNormal, AssociateLock,
         AssociateChoose, AssociateSecret, AssociateM3Metadata, UpdateGet,
         CheckProvisioned, ReconcileDelete, DissociateM3Metadata,
         DeleteGet, DeleteSecret, PatchMeta, PatchStatus, CallFails,
         CacheSync, DeleteMachine
<1>3. \/ AssociateSecret(m) /\ bmcSecret' = bmcSecret \cup {host[m].name}
      \/ bmcSecret' = bmcSecret \ {host[m].name}
      \/ UNCHANGED bmcSecret
  BY DEF WorkerQuiet, apiVars, ReconcileNormal, AssociateLock,
         AssociateChoose, AssociateSecret, AssociateM3Metadata, UpdateGet,
         CheckProvisioned, ReconcileDelete, DissociateM3Metadata,
         DeleteGet, DeleteSecret, PatchMeta, PatchStatus, CallFails,
         CacheSync, DeleteMachine
<1>4. AssociateSecret(m) => bmh[host[m].name].consumer = m
  BY DEF Content, Ownership, WorkerOK, HeldIsOwn, AssociateSecret
<1>5. (faults > 0 => faults' > 0) /\ (CallFails(m) => faults' > 0)
  BY <1>1 DEF WorkerQuiet, ReconcileNormal, AssociateLock,
         AssociateChoose, AssociateSecret, AssociateM3Metadata, UpdateGet,
         CheckProvisioned, ReconcileDelete, DissociateM3Metadata,
         DeleteGet, DeleteSecret, PatchMeta, PatchStatus, CallFails,
         CacheSync, DeleteMachine, TypeOK
<1>6. SpecIsFresh(m)'
  <2> USE <1>1, <1>2 DEF TypeOK, SpecIsFresh, Writing, Goto
  <2>1. CASE AssociateChoose(m)
    BY <2>1 DEF AssociateChoose, Unlock
  <2>2. CASE UpdateGet(m)
    BY <2>2 DEF UpdateGet
  <2>3. CASE DeleteGet(m)
    BY <2>3 DEF DeleteGet
  <2>4. CASE DeleteSecret(m)
    BY <2>4 DEF DeleteSecret, Content
  <2>5. CASE CacheSync(m) \/ DeleteMachine(m)
    BY <2>5 DEF CacheSync, DeleteMachine, apiVars, workerVars, Content
  <2>6. CASE CallFails(m)
    BY <1>5, <2>6 DEF CallFails, Finish, Content
  <2>7. CASE ReconcileNormal(m) \/ AssociateLock(m) \/ AssociateSecret(m)
             \/ AssociateM3Metadata(m)
    BY <2>7 DEF ReconcileNormal, AssociateLock, AssociateSecret,
                AssociateM3Metadata
  <2>8. CASE CheckProvisioned(m)
    BY <2>8 DEF CheckProvisioned
  <2>9. CASE ReconcileDelete(m) \/ DissociateM3Metadata(m) \/ PatchMeta(m)
             \/ PatchStatus(m)
    BY <2>9 DEF ReconcileDelete, DissociateM3Metadata, PatchMeta, PatchStatus,
                Finish
  <2> QED
    BY <2>1, <2>2, <2>3, <2>4, <2>5, <2>6, <2>7, <2>8, <2>9 DEF WorkerQuiet
<1>7. ASSUME NEW n \in Machines, n # m PROVE SpecIsFresh(n)'
  <2>1. pc'[n] = pc[n] /\ host'[n] = host[n]
    BY <1>1, <1>7, OthersStay
  <2>2. pc[n] = "delPatch" => bmh[host[n].name].consumer = n
    BY DEF Content, Ownership, WorkerOK, HeldIsOwn
  <2>3. pc[n] = "delPatch" /\ host[n].name \in bmcSecret' => faults' > 0
    BY <1>3, <1>4, <1>5, <1>7, <2>2 DEF Content, SpecIsFresh
  <2> QED
    BY <1>2, <2>1, <2>3 DEF Content, SpecIsFresh
<1>8. \A h \in bmcSecret' \ bmcSecret : bmh[h].consumer \in Machines
  BY <1>3, <1>4
<1> QED
  BY <1>2, <1>5, <1>6, <1>7, <1>8, SameHosts

\* The operator writes the image of the spec to the disk, wipes the disk, and
\* leaves a host without an image where it is idle.
LEMMA OperatorContent ==
    ASSUME Content, Ownership', NEW h \in Hosts,
           BMOProgress(h) \/ DegradeHost(h)
    PROVE  Content'
<1>1. /\ bmh \in [Hosts -> BMH] /\ bmh[h] \in BMH /\ HostsStay
      /\ HostStep(bmh[h]) \in BMH
  BY HostStepType DEF Content, Ownership, TypeInv, TypeOK
<1>2. /\ UNCHANGED <<bmcSecret, pc, host, faults>>
      /\ \A g \in Hosts \ {h} : bmh'[g] = bmh[g]
  BY <1>1 DEF BMOProgress, DegradeHost, workerVars
<1>3. /\ bmh'[h].consumer = bmh[h].consumer
      /\ bmh'[h].img = bmh[h].img /\ bmh'[h].ud = bmh[h].ud
      /\ bmh'[h].disk \in {bmh[h].disk, bmh[h].img, None}
      /\ bmh'[h].st \in {"registering", "available"} =>
            \/ bmh'[h].disk = None
            \/ /\ bmh[h].st \in {"registering", "available"}
               /\ bmh'[h].disk = bmh[h].disk
      /\ bmh[h].st \in {"registering", "available"} /\ bmh[h].img = None =>
            bmh'[h].st \in {"registering", "available"}
  <2>1. CASE BMOProgress(h)
    <3>1. bmh'[h] = HostStep(bmh[h])
      BY <1>1, <2>1 DEF BMOProgress
    <3>2. ~bmh[h].del /\ bmh[h].st \notin {"absent", "deleting"}
      BY <1>1 DEF HostsStay
    <3> QED
      BY <1>1, <3>1, <3>2 DEF HostStep, BMH
  <2>2. CASE DegradeHost(h)
    BY <1>1, <2>2 DEF DegradeHost, BMH
  <2> QED
    BY <2>1, <2>2
<1>4. /\ bmh[h].disk # None => bmh[h].consumer = bmh[h].disk
      /\ bmh[h].img # None => bmh[h].img = bmh[h].consumer /\ bmh[h].ud = bmh[h].img
      /\ bmh[h].consumer \notin Machines => bmh[h].img = None /\ (h \in bmcSecret => faults > 0)
      /\ bmh[h].st \in {"registering", "available"} => bmh[h].disk = None
  BY DEF Content, RunningHostIsOwned, ImageIsConsumers, ReleasedHostIsClean,
         IdleHostIsEmpty
<1>5. ASSUME NEW g \in Hosts PROVE HostIsSound(g)'
  <2>1. CASE g = h
    BY <1>2, <1>3, <1>4, <2>1 DEF HostIsSound
  <2>2. CASE g # h
    BY <1>2, <2>2 DEF HostIsSound, Content, RunningHostIsOwned,
       ImageIsConsumers, ReleasedHostIsClean, IdleHostIsEmpty
  <2> QED
    BY <2>1, <2>2
<1>6. ASSUME NEW n \in Machines PROVE SpecIsFresh(n)'
  <2>1. SpecIsFresh(n) /\ (pc[n] \in Writing => host[n].name \in Hosts)
    BY DEF Content, Ownership, TypeInv, HostRead, Writing
  <2>2. CASE host[n].name = h
    BY <1>2, <1>3, <2>1, <2>2 DEF SpecIsFresh
  <2>3. CASE host[n].name # h
    BY <1>2, <2>1, <2>3 DEF SpecIsFresh
  <2> QED
    BY <2>2, <2>3
<1> QED
  BY <1>5, <1>6 DEF Content, HostIsSound, RunningHostIsOwned,
     ImageIsConsumers, ReleasedHostIsClean, IdleHostIsEmpty

\* Nothing is on the hosts at first.
LEMMA ContentInit == Init => Content
<1> SUFFICES ASSUME Init PROVE Content
  OBVIOUS
<1>1. /\ \A h \in Hosts : bmh[h].img = None /\ bmh[h].disk = None
      /\ bmcSecret = {}
      /\ \A m \in Machines : pc[m] = "idle"
  BY DEF Init, NewBMH
<1> QED
  BY <1>1, OwnershipInit DEF Content, RunningHostIsOwned, ImageIsConsumers,
     ReleasedHostIsClean, IdleHostIsEmpty, SpecIsFresh, Writing

\* Every step keeps Content.
LEMMA ContentStep ==
    ASSUME HostChurn = {}
    PROVE  Content /\ [Next]_vars => Content'
<1> SUFFICES ASSUME Content, [Next]_vars PROVE Content'
  OBVIOUS
<1>1. Ownership'
  BY OwnershipStep DEF Content
<1>2. ASSUME UNCHANGED <<bmh, bmcSecret, pc, host, faults>> PROVE Content'
  <2>1. \A n \in Machines : SpecIsFresh(n)'
    BY <1>2 DEF Content, SpecIsFresh
  <2> QED
    BY <1>1, <1>2, <2>1, SameHosts
<1>3. ASSUME NEW m \in Machines, WorkerQuiet(m) PROVE Content'
  BY <1>1, <1>3, UpdateContent, ReadContent
<1>4. ASSUME NEW m \in Machines, AssociatePatch(m) PROVE Content'
  BY <1>1, <1>4, AssociateContent
<1>5. ASSUME NEW m \in Machines, DeletePatch(m) PROVE Content'
  BY <1>1, <1>5, DeleteContent
<1>6. CASE Crash
  <2>1. \A n \in Machines : SpecIsFresh(n)'
    BY <1>6 DEF Crash, SpecIsFresh, Writing
  <2>2. faults > 0 => faults' > 0
    BY <1>6 DEF Crash, Content, Ownership, TypeInv, TypeOK
  <2> QED
    BY <1>1, <1>6, <2>1, <2>2, SameHosts DEF Crash, apiVars
<1>7. ASSUME NEW m \in Machines, BootstrapReady(m) \/ ClaimProgress(m)
      PROVE  Content'
  BY <1>2, <1>7 DEF BootstrapReady, ClaimProgress, apiVars, workerVars
<1>8. ASSUME NEW h \in Hosts, BMOProgress(h) \/ DegradeHost(h)
      PROVE  Content'
  BY <1>1, <1>8, OperatorContent
<1>9. ASSUME NEW h \in Hosts, DeleteHost(h) \/ EnrolHost(h) PROVE Content'
  BY <1>9 DEF Content, Ownership, HostsStay, DeleteHost, EnrolHost
<1>10. CASE UNCHANGED vars
  BY <1>2, <1>10 DEF vars
<1> QED
  BY <1>3, <1>4, <1>5, <1>6, <1>7, <1>8, <1>9, <1>10
     DEF Next, Worker, Environment, WorkerQuiet

----------------------------------------------------------------------------
(* The theorems. *)

\* No host is given up while a machine's image runs on it: Delete waits for
\* the operator to wipe the disk, whatever it read and whenever it read it.
THEOREM NeverReleasedRunning ==
    ASSUME HostChurn = {}
    PROVE  Spec => []RunningHostIsOwned
<1>1. Content => RunningHostIsOwned
  BY DEF Content
<1> QED
  BY <1>1, ContentInit, ContentStep, PTL DEF Spec

\* The image on a host's spec, and the userData beside it, are its consumer's:
\* setHostSpec sets the two together and Delete takes the image away before
\* it gives up the host.
THEOREM ImageBelongsToConsumer ==
    ASSUME HostChurn = {}
    PROVE  Spec => []ImageIsConsumers
<1>1. Content => ImageIsConsumers
  BY DEF Content
<1> QED
  BY <1>1, ContentInit, ContentStep, PTL DEF Spec

\* A host that Delete gave up has no image, whatever failed.  Its BMC Secret is
\* without the cluster label as long as no call failed and the manager did not
\* stop: Delete goes on when it cannot read the Secret.
THEOREM ReleasedIsClean ==
    ASSUME HostChurn = {}
    PROVE  Spec => []ReleasedHostIsClean
<1>1. Content => ReleasedHostIsClean
  BY DEF Content
<1> QED
  BY <1>1, ContentInit, ContentStep, PTL DEF Spec
=============================================================================
