--------------------------- MODULE ClusterProofs ---------------------------
(***************************************************************************)
(* Theorems about Cluster, for any machines, hosts and cleaning modes, any *)
(* number of moves, crashes, failed calls and edits.                       *)
(***************************************************************************)
EXTENDS Cluster, FiniteSetTheorems, TLAPS

----------------------------------------------------------------------------
(* Types. *)

Labels == {"idle", "ensure", "pause", "pauseBlock", "pauseSet", "unblock",
           "unblockStale", "resume", "resumePatch", "work"}

LEMMA ObjectTypes ==
    /\ NewM3M \in M3M /\ NoM3M \in M3M /\ NewBMH \in BMH /\ NewM3C \in M3C
    /\ NoMem \in Mem /\ NoList \in List
<1>1. NewM3M \in M3M
  BY DEF NewM3M, M3M
<1>2. NoM3M \in M3M
  BY <1>1 DEF NoM3M, M3M
<1>3. NewBMH \in BMH /\ NewM3C \in M3C
  BY DEF NewBMH, BMH, NewM3C, M3C
<1>4. QED
  BY <1>1, <1>2, <1>3 DEF NoMem, Mem, NoList, List

\* How a worker leaves a step: its machine's host, if it goes on.
LEMMA WorkerTypes ==
    ASSUME TypeOK, NEW m \in Machines
    PROVE  /\ finish(m) => /\ pc' \in [Machines -> Labels]
                           /\ mem' \in [Machines -> Mem]
                           /\ \A n \in Machines : pc'[n] \notin {"idle", "work"}
                                                => mem'[n].m3m.ann # None
           /\ \A l \in Labels : goto(m, l) /\ UNCHANGED mem =>
                  /\ pc' \in [Machines -> Labels]
                  /\ mem' \in [Machines -> Mem]
                  /\ l \in {"idle", "work"} \/ mem[m].m3m.ann # None =>
                       \A n \in Machines : pc'[n] \notin {"idle", "work"}
                                             => mem'[n].m3m.ann # None
  BY ObjectTypes DEF TypeOK, finish, goto, Labels

\* The hosts after a patch of one.
LEMMA HostTypes ==
    ASSUME bmh \in [Hosts -> BMH], NEW h \in Hosts
    PROVE  /\ \A x \in BOOLEAN : [bmh EXCEPT ![h].block = x] \in [Hosts -> BMH]
           /\ \A p \in {"no", "capm3", "user"} :
                 [bmh EXCEPT ![h].pause = p] \in [Hosts -> BMH]
           /\ [bmh EXCEPT ![h].pause = "capm3", ![h].saved = TRUE]
                 \in [Hosts -> BMH]
           /\ \A n \in Machines \cup {None} :
                 [bmh EXCEPT ![h].consumer = n] \in [Hosts -> BMH]
           /\ [bmh[h] EXCEPT !.consumer = None,
                             !.pause = IF @ = "capm3" THEN "no" ELSE @] \in BMH
           /\ [bmh[h] EXCEPT !.saved = FALSE] \in BMH
<1>1. bmh[h] \in BMH
  OBVIOUS
<1>2. ASSUME NEW b \in BMH
      PROVE  /\ \A x \in BOOLEAN : [b EXCEPT !.block = x] \in BMH
             /\ \A p \in {"no", "capm3", "user"} : [b EXCEPT !.pause = p] \in BMH
             /\ [b EXCEPT !.saved = TRUE] \in BMH
             /\ [b EXCEPT !.saved = FALSE] \in BMH
             /\ \A n \in Machines \cup {None} : [b EXCEPT !.consumer = n] \in BMH
             /\ [b EXCEPT !.consumer = None,
                          !.pause = IF @ = "capm3" THEN "no" ELSE @] \in BMH
  BY DEF BMH
<1>3. ASSUME NEW f \in [Hosts -> BMH], NEW b \in BMH
      PROVE  [f EXCEPT ![h] = b] \in [Hosts -> BMH]
  OBVIOUS
<1>4. [bmh EXCEPT ![h].pause = "capm3", ![h].saved = TRUE] \in [Hosts -> BMH]
  <2> DEFINE f == [bmh EXCEPT ![h] = [bmh[h] EXCEPT !.pause = "capm3"]]
  <2>1. f \in [Hosts -> BMH]
    BY <1>1, <1>2, <1>3
  <2> HIDE DEF f
  <2>2. [f EXCEPT ![h] = [f[h] EXCEPT !.saved = TRUE]] \in [Hosts -> BMH]
    BY <1>2, <1>3, <2>1
  <2>3. QED
    BY <2>2 DEF f
<1>5. QED
  BY <1>1, <1>2, <1>3, <1>4

\* The machines after a change of one.
LEMMA MachineTypes ==
    ASSUME m3m \in [Machines -> M3M], NEW m \in Machines
    PROVE  /\ \A h \in Hosts \cup {None} :
                 [m3m EXCEPT ![m].ann = h] \in [Machines -> M3M]
           /\ \A b \in BOOLEAN : /\ [m3m EXCEPT ![m].ready = b] \in [Machines -> M3M]
                                 /\ [m3m EXCEPT ![m].del = b] \in [Machines -> M3M]
                                 /\ [m3m[m] EXCEPT !.ready = b] \in M3M
           /\ m3m[m].exists \in BOOLEAN
<1>1. ASSUME NEW x \in M3M
      PROVE  /\ \A h \in Hosts \cup {None} : [x EXCEPT !.ann = h] \in M3M
             /\ \A b \in BOOLEAN : /\ [x EXCEPT !.ready = b] \in M3M
                                   /\ [x EXCEPT !.del = b] \in M3M
             /\ x.exists \in BOOLEAN
  BY DEF M3M
<1>2. ASSUME NEW x \in M3M PROVE [m3m EXCEPT ![m] = x] \in [Machines -> M3M]
  OBVIOUS
<1>3. QED
  BY <1>1, <1>2

WorkerOK ==
    /\ pc \in [Machines -> Labels] /\ mem \in [Machines -> Mem]
    /\ \A m \in Machines : pc[m] \notin {"idle", "work"} => mem[m].m3m.ann # None

LEMMA ReconcileTypes ==
    ASSUME TypeOK, NEW m \in Machines, Reconcile(m)
    PROVE  TypeOK'
<1> DEFINE h == getHost(m)
<1>1. /\ mem[m].m3m \in M3M /\ mem[m].paused \in BOOLEAN /\ h \in Hosts \cup {None}
      /\ pc[m] \in Labels
      /\ pc[m] \notin {"idle", "work"} => h # None /\ h \in Hosts
  BY DEF TypeOK, Mem, M3M, Labels, getHost
<1>2. SUFFICES /\ UNCHANGED <<paused, infra, seen, m3c, cache, template, list, moves>>
               /\ m3m' \in [Machines -> M3M] /\ bmh' \in [Hosts -> BMH]
               /\ WorkerOK' /\ events' \in 0..MaxEvents
  BY DEF TypeOK, WorkerOK, Labels
<1>3. ASSUME NEW ok \in BOOLEAN, Call(ok) PROVE events' \in 0..MaxEvents
  BY <1>3, ClusterAssumption DEF Call, Event, TypeOK
<1>4. /\ finish(m) => WorkerOK'
      /\ \A l \in Labels : goto(m, l) /\ UNCHANGED mem
             /\ (l \in {"idle", "work"} \/ h # None) => WorkerOK'
  BY WorkerTypes DEF WorkerOK, getHost
<1>5. /\ m3m \in [Machines -> M3M] /\ bmh \in [Hosts -> BMH]
      /\ cache \in [Machines -> M3M] /\ seen.paused \in BOOLEAN
      /\ events \in 0..MaxEvents
  BY DEF TypeOK, Capi
<1>6. CASE EnsureBlockMoveAnnotation(m)
  <2> DEFINE x == cache[m]
             missing == /\ x.ann # None /\ bmh[x.ann].consumer = m
                        /\ ~bmh[x.ann].block /\ bmh[x.ann].pause = "no"
             next == IF missing THEN "ensure" ELSE afterEnsure(x, seen.paused)
             new == IF next = "idle" THEN NoMem
                    ELSE [m3m |-> x, paused |-> seen.paused]
  <2>1. /\ pc' = [pc EXCEPT ![m] = next] /\ mem' = [mem EXCEPT ![m] = new]
        /\ UNCHANGED <<m3m, bmh, events>>
        /\ UNCHANGED <<paused, infra, seen, m3c, cache, template, list, moves>>
    BY <1>6 DEF EnsureBlockMoveAnnotation, goto, worker
  <2>2. next \in Labels /\ (next \notin {"idle", "work"} => x.ann # None)
    BY DEF afterEnsure, Labels
  <2>3. new \in Mem /\ (next # "idle" => new.m3m = x)
    BY <1>5, ObjectTypes DEF Mem
  <2> HIDE DEF next, new
  <2>4. WorkerOK'
    BY <2>1, <2>2, <2>3 DEF TypeOK, WorkerOK, Labels
  <2>5. QED
    BY <1>5, <2>1, <2>4
<1>7. CASE Work(m)
  <2>1. /\ finish(m) /\ UNCHANGED events
        /\ UNCHANGED <<paused, infra, seen, m3c, cache, template, list, moves>>
    BY <1>7 DEF Work, worker
  <2>2. m3m' \in [Machines -> M3M]
    <3>1. \/ m3m' = m3m
          \/ \E g \in Hosts : m3m' = [m3m EXCEPT ![m].ann = g]
          \/ m3m' = [m3m EXCEPT ![m].ready = m3m[m].exists]
          \/ m3m' = [m3m EXCEPT ![m] = NoM3M]
      BY <1>7 DEF Work
    <3>2. ASSUME NEW g \in Hosts, m3m' = [m3m EXCEPT ![m].ann = g]
          PROVE  m3m' \in [Machines -> M3M]
      BY <1>5, <3>2, MachineTypes
    <3>3. ASSUME m3m' = [m3m EXCEPT ![m].ready = m3m[m].exists]
          PROVE  m3m' \in [Machines -> M3M]
      BY <1>5, <3>3, MachineTypes
    <3>4. [m3m EXCEPT ![m] = NoM3M] \in [Machines -> M3M]
      BY <1>5, ObjectTypes
    <3>5. QED
      BY <1>5, <3>1, <3>2, <3>3, <3>4
  <2>3. bmh' \in [Hosts -> BMH]
    <3>1. \/ bmh' = bmh
          \/ \E g \in Hosts : bmh' = [bmh EXCEPT ![g].consumer = m]
          \/ bmh' = [g \in Hosts |->
                IF g # h \/ bmh[g].consumer # m THEN bmh[g]
                ELSE [bmh[g] EXCEPT !.consumer = None,
                        !.pause = IF @ = "capm3" THEN "no" ELSE @]]
      BY <1>7 DEF Work, getHost
    <3>2. ASSUME NEW g \in Hosts, bmh' = [bmh EXCEPT ![g].consumer = m]
          PROVE  bmh' \in [Hosts -> BMH]
      BY <1>5, <3>2, HostTypes
    <3>3. ASSUME NEW g \in Hosts
          PROVE  (IF g # h \/ bmh[g].consumer # m THEN bmh[g]
                  ELSE [bmh[g] EXCEPT !.consumer = None,
                          !.pause = IF @ = "capm3" THEN "no" ELSE @]) \in BMH
      BY <1>5, HostTypes
    <3>4. QED
      BY <1>5, <3>1, <3>2, <3>3
  <2>4. QED
    BY <1>4, <1>5, <2>1, <2>2, <2>3
<1>8. ASSUME NEW ok \in BOOLEAN, EnsurePatch(m, ok) PROVE <1>2!1
  <2>1. afterEnsure(mem[m].m3m, mem[m].paused) \in Labels
    BY DEF afterEnsure, Labels
  <2>2. /\ pc[m] = "ensure" /\ Call(ok) /\ UNCHANGED <<m3m, mem>>
        /\ bmh' = IF ok THEN [bmh EXCEPT ![h].block = TRUE] ELSE bmh
        /\ goto(m, afterEnsure(mem[m].m3m, mem[m].paused))
        /\ UNCHANGED <<paused, infra, seen, m3c, cache, template, list, moves>>
    BY <1>8 DEF EnsurePatch, worker
  <2>3. h \in Hosts /\ h # None
    BY <1>1, <2>2
  <2>4. WorkerOK'
    BY <1>4, <2>1, <2>2, <2>3
  <2>5. bmh' \in [Hosts -> BMH]
    BY <1>5, <2>2, <2>3, HostTypes
  <2>6. QED
    BY <1>3, <1>5, <2>2, <2>4, <2>5
<1>9. ASSUME NEW ok \in BOOLEAN, SetPauseAnnotation(m, ok) PROVE <1>2!1
  BY <1>1, <1>3, <1>4, <1>5, <1>9 DEF SetPauseAnnotation, worker, Labels
<1>10. ASSUME NEW ok \in BOOLEAN, PauseBlockPatch(m, ok) PROVE <1>2!1
  BY <1>1, <1>3, <1>4, <1>5, <1>10, HostTypes DEF PauseBlockPatch, worker, Labels
<1>11. ASSUME NEW ok \in BOOLEAN, PauseSetPatch(m, ok) PROVE <1>2!1
  BY <1>1, <1>3, <1>4, <1>5, <1>11, HostTypes DEF PauseSetPatch, worker, Labels
<1>12. ASSUME NEW ok \in BOOLEAN, UnblockPatch(m, ok) PROVE <1>2!1
  BY <1>1, <1>3, <1>4, <1>5, <1>12, HostTypes DEF UnblockPatch, worker, Labels
<1>13. ASSUME NEW ok \in BOOLEAN, RemovePauseAnnotation(m, ok) PROVE <1>2!1
  BY <1>1, <1>3, <1>4, <1>5, <1>13 DEF RemovePauseAnnotation, worker, Labels
<1>14. ASSUME NEW ok \in BOOLEAN, ResumePatch(m, ok) PROVE <1>2!1
  BY <1>1, <1>3, <1>4, <1>5, <1>14, HostTypes DEF ResumePatch, worker, Labels
<1>15. QED
  BY <1>6, <1>7, <1>8, <1>9, <1>10, <1>11, <1>12, <1>13, <1>14 DEF Reconcile

LEMMA ClusterStepTypes ==
    ASSUME TypeOK, NEW found \in BOOLEAN, NEW ok \in BOOLEAN,
           ReconcileCluster(found, ok)
    PROVE  TypeOK'
<1> DEFINE c == [m3c EXCEPT !.published = TRUE]
<1>1. c \in M3C /\ m3c \in M3C
  BY DEF TypeOK, M3C
<1>2. m3c' \in {m3c, c, [c EXCEPT !.ready = FALSE],
                reconcileClusterDelete(c), reconcileClusterNormal(c)}
  BY DEF ReconcileCluster
<1> HIDE DEF c
<1>3. /\ reconcileClusterDelete(c) \in M3C /\ reconcileClusterNormal(c) \in M3C
      /\ [c EXCEPT !.ready = FALSE] \in M3C
  BY <1>1 DEF reconcileClusterDelete, reconcileClusterNormal, M3C
<1>4. m3c' \in M3C
  BY <1>1, <1>2, <1>3
<1>5. events' \in 0..MaxEvents
  BY ClusterAssumption DEF ReconcileCluster, Call, Event, TypeOK
<1>6. QED
  BY <1>4, <1>5 DEF ReconcileCluster, TypeOK

LEMMA TemplateStepTypes ==
    ASSUME TypeOK, ReconcileTemplate
    PROVE  TypeOK'
<1>1. /\ list \in List /\ cache \in [Machines -> M3M] /\ m3m \in [Machines -> M3M]
      /\ template \in CleaningModes \cup {None}
  BY DEF TypeOK
<1>2. CASE ListClones
  <2>1. list' = [todo |-> {m \in Cloned : cache[m].exists}, items |-> cache,
                 mode |-> template]
    BY <1>2 DEF ListClones
  <2>2. list' \in List
    BY <1>1, <2>1, ClusterAssumption DEF List
  <2>3. QED
    BY <1>2, <2>2 DEF ListClones, TypeOK
<1>3. ASSUME NEW m \in Machines, NEW ok \in BOOLEAN,
             UpdateAutomatedCleaningMode(m, ok)
      PROVE  TypeOK'
  <2>1. events' \in 0..MaxEvents
    BY <1>3, ClusterAssumption DEF UpdateAutomatedCleaningMode, Call, Event, TypeOK
  <2>2. /\ list.items \in [Machines -> M3M] /\ list.todo \subseteq Machines
        /\ list.mode \in CleaningModes \cup {None} /\ list.items[m] \in M3M
    BY <1>1 DEF List
  <2>3. [list.items[m] EXCEPT !.mode = list.mode] \in M3M
    BY <2>2 DEF M3M
  <2>4. m3m' \in [Machines -> M3M]
    BY <1>1, <1>3, <2>3 DEF UpdateAutomatedCleaningMode
  <2>5. [list EXCEPT !.todo = @ \ {m}, !.items[m] = NoM3M] \in List
    <3> DEFINE l == [list EXCEPT !.todo = @ \ {m}]
    <3>1. l \in List /\ l.items = list.items
      BY <1>1 DEF List
    <3> HIDE DEF l
    <3>2. [list.items EXCEPT ![m] = NoM3M] \in [Machines -> M3M]
      BY <2>2, ObjectTypes
    <3>3. [l EXCEPT !.items = [list.items EXCEPT ![m] = NoM3M]] \in List
      BY <3>1, <3>2 DEF List
    <3>4. QED
      BY <3>1, <3>3 DEF l
  <2>6. list' \in List
    BY <1>3, <2>5, ObjectTypes DEF UpdateAutomatedCleaningMode
  <2>7. QED
    BY <1>3, <2>1, <2>4, <2>6 DEF UpdateAutomatedCleaningMode, TypeOK
<1>4. QED
  BY <1>2, <1>3 DEF ReconcileTemplate

LEMMA EnvironmentTypes ==
    ASSUME TypeOK,
           \/ \E m \in Owned : DeleteMachine(m)
           \/ SetOwner \/ SetInfrastructureReady \/ InformerSync
           \/ DeleteCluster \/ Edit \/ Move \/ Crash
    PROVE  TypeOK'
<1>1. /\ m3m \in [Machines -> M3M] /\ bmh \in [Hosts -> BMH] /\ m3c \in M3C
      /\ events \in 0..MaxEvents /\ moves \in 0..MaxMoves
      /\ MaxEvents \in Nat /\ MaxMoves \in Nat /\ Owned \subseteq Machines
  BY ClusterAssumption DEF TypeOK
<1>2. Event => events' \in 0..MaxEvents
  BY <1>1 DEF Event
<1>3. /\ \A b \in BOOLEAN : /\ [m3c EXCEPT !.owner = b] \in M3C
                            /\ [m3c EXCEPT !.del = b] \in M3C
                            /\ [m3c EXCEPT !.published = b] \in M3C
      /\ [m3c EXCEPT !.published = FALSE, !.ready = FALSE] \in M3C
  BY <1>1 DEF M3C
<1>4. CASE \E m \in Owned : DeleteMachine(m)
  <2>1. m3m' \in [Machines -> M3M]
    BY <1>1, <1>4, MachineTypes DEF DeleteMachine
  <2>2. QED
    BY <1>2, <1>4, <2>1 DEF DeleteMachine, TypeOK
<1>a. theCluster \in Capi /\ [theCluster EXCEPT !.infra = FALSE] \in Capi
  BY DEF TypeOK, Capi, theCluster
<1>5. CASE SetOwner
  BY <1>3, <1>5 DEF SetOwner, TypeOK
<1>b. CASE SetInfrastructureReady
  BY <1>1, <1>b DEF SetInfrastructureReady, TypeOK, M3C
<1>6. CASE InformerSync
  <2>1. cache' \in [Machines -> M3M]
    BY <1>1, <1>6 DEF InformerSync, TypeOK
  <2>2. QED
    BY <1>6, <1>a, <2>1 DEF InformerSync, TypeOK
<1>7. CASE DeleteCluster
  BY <1>2, <1>3, <1>7 DEF DeleteCluster, TypeOK
<1>8. CASE Edit
  <2>1. bmh' \in [Hosts -> BMH]
    <3>1. ASSUME NEW h \in Hosts, NEW p \in {"no", "user"}
          PROVE  [bmh EXCEPT ![h].pause = p] \in [Hosts -> BMH]
      BY <1>1, HostTypes
    <3>2. \/ bmh' = bmh
          \/ \E h \in Hosts, p \in {"no", "user"} :
                bmh' = [bmh EXCEPT ![h].pause = p]
      BY <1>8 DEF Edit
    <3>3. CASE \E h \in Hosts, p \in {"no", "user"} :
                bmh' = [bmh EXCEPT ![h].pause = p]
      <4>1. PICK h \in Hosts, p \in {"no", "user"} :
                bmh' = [bmh EXCEPT ![h].pause = p]
        BY <3>3
      <4>2. [bmh EXCEPT ![h].pause = p] \in [Hosts -> BMH]
        BY <3>1
      <4>3. QED
        BY <4>1, <4>2
    <3>4. QED
      BY <1>1, <3>2, <3>3
  <2>2. m3c' \in M3C
    BY <1>1, <1>3, <1>8 DEF Edit
  <2>3. paused' \in BOOLEAN /\ template' \in CleaningModes \cup {None}
    BY <1>8 DEF Edit, TypeOK
  <2>4. QED
    BY <1>2, <1>8, <2>1, <2>2, <2>3 DEF Edit, TypeOK
<1>9. CASE Move
  <2>1. \A h \in Hosts : [bmh[h] EXCEPT !.saved = FALSE] \in BMH
    BY <1>1, HostTypes
  <2>2. bmh' \in [Hosts -> BMH]
    BY <1>9, <2>1 DEF Move
  <2>3. \A m \in Machines : [m3m[m] EXCEPT !.ready = FALSE] \in M3M
    BY <1>1, MachineTypes
  <2>4. m3m' \in [Machines -> M3M] /\ cache' \in [Machines -> M3M]
    BY <1>9, <2>3 DEF Move
  <2>5. moves' \in 0..MaxMoves
    BY <1>1, <1>9 DEF Move
  <2>6. QED
    BY <1>3, <1>9, <1>a, <2>2, <2>4, <2>5, ObjectTypes DEF Move, TypeOK
<1>10. CASE Crash
  BY <1>2, <1>10, <1>a, ObjectTypes DEF Crash, TypeOK
<1>11. QED
  BY <1>4, <1>5, <1>b, <1>6, <1>7, <1>8, <1>9, <1>10

LEMMA InitTypes == Init => TypeOK
<1> SUFFICES ASSUME Init PROVE TypeOK
  OBVIOUS
<1>1. m3m \in [Machines -> M3M] /\ cache \in [Machines -> M3M]
  BY ObjectTypes DEF Init
<1>2. bmh \in [Hosts -> BMH] /\ m3c \in M3C /\ list \in List
  BY ObjectTypes DEF Init
<1>3. WorkerOK
  BY ObjectTypes DEF Init, WorkerOK, Labels
<1>4. moves \in 0..MaxMoves /\ events \in 0..MaxEvents
  BY ClusterAssumption DEF Init
<1>5. QED
  BY <1>1, <1>2, <1>3, <1>4
     DEF Init, TypeOK, WorkerOK, Labels, Capi, theCluster

LEMMA NextTypes == TypeOK /\ [Next]_vars => TypeOK'
<1>1. ASSUME TypeOK, UNCHANGED vars PROVE TypeOK'
  BY <1>1 DEF vars, TypeOK
<1>2. QED
  BY <1>1, ReconcileTypes, ClusterStepTypes, TemplateStepTypes, EnvironmentTypes
     DEF Next

LEMMA TypesHold == Spec => []TypeOK
  BY InitTypes, NextTypes, PTL DEF Spec

----------------------------------------------------------------------------
(* What the template controller writes. *)

LEMMA ModeWritten ==
    ASSUME TypeOK, NEW m \in Machines, NEW n \in Machines, NEW ok \in BOOLEAN,
           UpdateAutomatedCleaningMode(m, ok)
    PROVE  m3m'[n] = m3m[n] \/ \E x : m3m'[n] = [m3m[n] EXCEPT !.mode = x]
<1>1. \/ m3m' = m3m
      \/ m3m[m] = list.items[m]
         /\ m3m' = [m3m EXCEPT ![m] = [list.items[m] EXCEPT !.mode = list.mode]]
  BY DEF UpdateAutomatedCleaningMode
<1>2. CASE n = m /\ m3m' # m3m
  <2>1. m3m'[n] = [m3m[n] EXCEPT !.mode = list.mode]
    BY <1>1, <1>2 DEF TypeOK
  <2>2. QED
    BY <2>1
<1>3. CASE n # m \/ m3m' = m3m
  BY <1>1, <1>3 DEF TypeOK
<1>4. QED
  BY <1>2, <1>3

LEMMA ModeStep ==
    ASSUME TypeOK, [Next]_vars, NEW n \in Machines
    PROVE  m3m'[n].exists /\ m3m'[n].mode # m3m[n].mode =>
             m3m'[n] = [m3m[n] EXCEPT !.mode = m3m'[n].mode]
<1>1. m3m \in [Machines -> M3M] /\ m3m[n] \in M3M
  BY DEF TypeOK
<1>2. ASSUME NEW m \in Machines, Work(m)
      PROVE  m3m'[n].exists => m3m'[n].mode = m3m[n].mode
  <2>1. \/ m3m' = m3m
        \/ \E g \in Hosts : m3m' = [m3m EXCEPT ![m].ann = g]
        \/ m3m' = [m3m EXCEPT ![m].ready = m3m[m].exists]
        \/ m3m' = [m3m EXCEPT ![m] = NoM3M]
    BY <1>2 DEF Work
  <2>2. ~NoM3M.exists
    BY DEF NoM3M, NewM3M
  <2>3. QED
    BY <1>1, <2>1, <2>2 DEF M3M
<1>3. ASSUME NEW m \in Machines, Reconcile(m), ~Work(m) PROVE m3m' = m3m
  BY <1>3 DEF Reconcile, EnsureBlockMoveAnnotation, EnsurePatch,
              SetPauseAnnotation, PauseBlockPatch, PauseSetPatch, UnblockPatch,
              RemovePauseAnnotation, ResumePatch
<1>4. ASSUME NEW m \in Machines, NEW ok \in BOOLEAN,
             UpdateAutomatedCleaningMode(m, ok)
      PROVE  m3m'[n] = m3m[n]
             \/ \E x : m3m'[n] = [m3m[n] EXCEPT !.mode = x]
  BY <1>4, ModeWritten
<1>5. \A x : [m3m[n] EXCEPT !.mode = x].mode = x
  BY <1>1 DEF M3M
<1>6. ASSUME NEW m \in Owned, DeleteMachine(m) PROVE m3m'[n].mode = m3m[n].mode
  BY <1>1, <1>6 DEF DeleteMachine, M3M
<1>7. ASSUME Move PROVE m3m'[n].mode = m3m[n].mode
  BY <1>1, <1>7 DEF Move, M3M
<1>8. ASSUME \/ ListClones \/ SetOwner \/ SetInfrastructureReady
             \/ InformerSync \/ DeleteCluster
             \/ Edit \/ Crash \/ UNCHANGED vars
             \/ \E found, ok \in BOOLEAN : ReconcileCluster(found, ok)
      PROVE  m3m' = m3m
  BY <1>8 DEF ListClones, SetOwner, SetInfrastructureReady, InformerSync,
              DeleteCluster, Edit, Crash, vars, ReconcileCluster
<1>9. QED
  BY <1>2, <1>3, <1>4, <1>5, <1>6, <1>7, <1>8 DEF Next, ReconcileTemplate

----------------------------------------------------------------------------
(* Machines and their copies in the informer's cache. *)

\* A machine that is not there any more does not come back.
CacheBehind == \A m \in Machines : m3m[m].exists => cache[m].exists

LEMMA ExistenceStep ==
    ASSUME TypeOK, [Next]_vars, NEW n \in Machines, m3m'[n].exists
    PROVE  m3m[n].exists
<1>1. m3m \in [Machines -> M3M] /\ m3m[n] \in M3M
  BY DEF TypeOK
<1>2. ASSUME NEW m \in Machines, Work(m) PROVE m3m[n].exists
  <2>1. \/ m3m' = m3m
        \/ \E g \in Hosts : m3m' = [m3m EXCEPT ![m].ann = g]
        \/ m3m' = [m3m EXCEPT ![m].ready = m3m[m].exists]
        \/ m3m' = [m3m EXCEPT ![m] = NoM3M]
    BY <1>2 DEF Work
  <2>2. ~NoM3M.exists
    BY DEF NoM3M, NewM3M
  <2>3. QED
    BY <1>1, <2>1, <2>2 DEF M3M
<1>3. ASSUME NEW m \in Machines, Reconcile(m), ~Work(m) PROVE m3m' = m3m
  BY <1>3 DEF Reconcile, EnsureBlockMoveAnnotation, EnsurePatch,
              SetPauseAnnotation, PauseBlockPatch, PauseSetPatch, UnblockPatch,
              RemovePauseAnnotation, ResumePatch
<1>4. ASSUME NEW m \in Machines, NEW ok \in BOOLEAN,
             UpdateAutomatedCleaningMode(m, ok)
      PROVE  m3m[n].exists
  <2>1. m3m'[n] = m3m[n] \/ \E x : m3m'[n] = [m3m[n] EXCEPT !.mode = x]
    BY <1>4, ModeWritten
  <2>2. QED
    BY <1>1, <2>1 DEF M3M
<1>5. ASSUME NEW m \in Owned, DeleteMachine(m) PROVE m3m[n].exists
  BY <1>1, <1>5 DEF DeleteMachine, M3M
<1>6. ASSUME Move PROVE m3m[n].exists
  BY <1>1, <1>6 DEF Move, M3M
<1>7. ASSUME \/ ListClones \/ SetOwner \/ SetInfrastructureReady
             \/ InformerSync \/ DeleteCluster
             \/ Edit \/ Crash \/ UNCHANGED vars
             \/ \E found, ok \in BOOLEAN : ReconcileCluster(found, ok)
      PROVE  m3m' = m3m
  BY <1>7 DEF ListClones, SetOwner, SetInfrastructureReady, InformerSync,
              DeleteCluster, Edit, Crash, vars, ReconcileCluster
<1>8. QED
  BY <1>2, <1>3, <1>4, <1>5, <1>6, <1>7 DEF Next, ReconcileTemplate

LEMMA CacheStep ==
    ASSUME TypeOK, CacheBehind, [Next]_vars
    PROVE  CacheBehind'
<1>1. ASSUME NEW n \in Machines, m3m'[n].exists PROVE cache'[n].exists
  <2>1. m3m[n].exists /\ cache[n].exists
    BY <1>1, ExistenceStep DEF CacheBehind
  <2>2. CASE cache' = cache
    BY <2>1, <2>2
  <2>3. CASE InformerSync
    BY <2>1, <2>3 DEF InformerSync, TypeOK
  <2>4. CASE Move \/ Crash
    <3>1. cache' = m3m'
      BY <2>4 DEF Move, Crash
    <3>2. QED
      BY <1>1, <3>1
  <2>5. cache' = cache \/ InformerSync \/ Move \/ Crash
    BY ZenonT(40)
       DEF Next, Reconcile, EnsureBlockMoveAnnotation, EnsurePatch, worker, Work,
           SetPauseAnnotation, PauseBlockPatch, PauseSetPatch, UnblockPatch,
           RemovePauseAnnotation, ResumePatch, DeleteMachine, ReconcileCluster,
           ReconcileTemplate, ListClones, UpdateAutomatedCleaningMode, SetOwner,
           SetInfrastructureReady, DeleteCluster, Edit, vars
  <2>6. QED
    BY <2>2, <2>3, <2>4, <2>5
<1>2. QED
  BY <1>1 DEF CacheBehind

LEMMA ClusterGoes ==
    ASSUME TypeOK, CacheBehind, [Next]_vars, m3c.exists, ~m3c'.exists,
           NEW n \in Owned
    PROVE  ~m3m[n].exists
<1>1. m3c \in M3C /\ Owned \subseteq Machines /\ IsFiniteSet(Machines)
  BY ClusterAssumption DEF TypeOK
<1>2. \/ m3c'.exists = m3c.exists
      \/ \E found, ok \in BOOLEAN : ReconcileCluster(found, ok)
  BY <1>1, ZenonT(40)
     DEF Next, Reconcile, EnsureBlockMoveAnnotation, EnsurePatch, worker,
           Work, SetPauseAnnotation, PauseBlockPatch, PauseSetPatch,
           UnblockPatch, RemovePauseAnnotation, ResumePatch, DeleteMachine,
           ReconcileTemplate, ListClones, UpdateAutomatedCleaningMode, SetOwner,
           SetInfrastructureReady, InformerSync, DeleteCluster, Edit, Move,
           Crash, vars, M3C
<1>3. PICK found \in BOOLEAN, ok \in BOOLEAN : ReconcileCluster(found, ok)
  BY <1>2
<1> DEFINE c == [m3c EXCEPT !.published = TRUE]
<1>4. c \in M3C /\ c.exists
  BY <1>1 DEF M3C
<1>5. m3c' \in {m3c, c, [c EXCEPT !.ready = FALSE],
                reconcileClusterDelete(c), reconcileClusterNormal(c)}
  BY <1>3 DEF ReconcileCluster
<1>6. reconcileClusterNormal(c).exists /\ [c EXCEPT !.ready = FALSE].exists
  BY <1>4 DEF reconcileClusterNormal, M3C
<1> HIDE DEF c
<1>7. ~(CountDescendants > 0)
  BY <1>4, <1>5, <1>6 DEF reconcileClusterDelete
<1>8. {m \in Owned : cache[m].exists} = {}
  <2> DEFINE S == {m \in Owned : cache[m].exists}
  <2>1. IsFiniteSet(S)
    BY <1>1, FS_Subset
  <2> HIDE DEF S
  <2>2. Cardinality(S) \in Nat /\ (Cardinality(S) = 0 <=> S = {})
    BY <2>1, FS_CardinalityType, FS_EmptySet
  <2>3. Cardinality(S) = 0
    BY <1>7, <2>2 DEF CountDescendants, S
  <2>4. QED
    BY <2>2, <2>3 DEF S
<1>9. QED
  BY <1>1, <1>8 DEF CacheBehind

----------------------------------------------------------------------------
(* Pausing. *)

\* No two workers have the same host at hand.
Apart ==
    \A m, n \in Machines :
        m # n => mem[m].m3m.ann = None \/ mem[m].m3m.ann # mem[n].m3m.ann

\* What a worker that is about to patch its host knows of it, and that a host
\* that is blocked and paused by the controller has its status saved.
WorkerKnows(m) ==
    /\ pc[m] = "unblock" => /\ bmh[mem[m].m3m.ann].pause = "capm3"
                            /\ bmh[mem[m].m3m.ann].saved
    /\ pc[m] \in {"ensure", "pauseBlock"} => bmh[mem[m].m3m.ann].pause # "capm3"
HostsSaved == \A h \in Hosts : bmh[h].block /\ bmh[h].pause = "capm3" => bmh[h].saved
PauseInv == HostsSaved /\ \A m \in Machines : WorkerKnows(m)

\* Unblocking is what the hand-over allows.
Unblocks(h) ==
    bmh[h].block /\ ~bmh'[h].block =>
      \/ bmh[h].pause = "capm3" /\ bmh[h].saved
      \/ /\ bmh[h].pause # "capm3"
         /\ \E m \in Machines : mem[m].m3m.ann = h /\ pc[m] = "unblockStale"

LEMMA PauseReconcile ==
    ASSUME Apart, TypeOK, PauseInv, NEW m \in Machines, Reconcile(m)
    PROVE  PauseInv' /\ \A h \in Hosts : Unblocks(h)
<1> DEFINE h == getHost(m)
<1>1. \A n \in Machines : n # m => pc'[n] = pc[n] /\ mem'[n] = mem[n]
  BY DEF TypeOK, Reconcile, EnsureBlockMoveAnnotation, EnsurePatch, Work,
         SetPauseAnnotation, PauseBlockPatch, PauseSetPatch, UnblockPatch,
         RemovePauseAnnotation, ResumePatch, goto, finish
<1>2. ASSUME \A g \in Hosts : g # h => /\ bmh'[g].pause = bmh[g].pause
                                       /\ bmh'[g].saved = bmh[g].saved,
             NEW n \in Machines, n # m
      PROVE  WorkerKnows(n)'
  <2>1. pc'[n] = pc[n] /\ mem'[n] = mem[n] /\ WorkerKnows(n)
    BY <1>1, <1>2 DEF PauseInv
  <2>2. pc[n] \in {"unblock", "ensure", "pauseBlock"} =>
          mem[n].m3m.ann \in Hosts /\ mem[n].m3m.ann # h
    BY <1>2 DEF Apart, TypeOK, Mem, M3M, getHost
  <2>3. QED
    BY <1>2, <2>1, <2>2 DEF WorkerKnows
<1>3. SUFFICES /\ \A g \in Hosts : g # h => /\ bmh'[g].pause = bmh[g].pause
                                            /\ bmh'[g].saved = bmh[g].saved
               /\ WorkerKnows(m)' /\ HostsSaved' /\ \A g \in Hosts : Unblocks(g)
  BY <1>2 DEF PauseInv
<1>4. /\ bmh \in [Hosts -> BMH] /\ pc \in [Machines -> Labels]
      /\ mem \in [Machines -> Mem]
      /\ pc[m] \notin {"idle", "work"} => h \in Hosts
      /\ \A g \in Hosts : bmh[g] \in BMH
  BY DEF TypeOK, Labels, getHost, Mem, M3M
<1>5. HostsSaved /\ WorkerKnows(m)
  BY DEF PauseInv
<1>6. ASSUME bmh' = bmh PROVE HostsSaved' /\ \A g \in Hosts : Unblocks(g)
  BY <1>5, <1>6 DEF HostsSaved, Unblocks
<1>7. finish(m) => pc'[m] = "idle"
  BY <1>4 DEF finish, goto
<1>8. CASE EnsureBlockMoveAnnotation(m)
  <2>1. bmh' = bmh
    BY <1>8 DEF EnsureBlockMoveAnnotation
  <2>2. WorkerKnows(m)'
    <3>1. pc'[m] \notin {"unblock", "pauseBlock"}
      BY <1>4, <1>8 DEF EnsureBlockMoveAnnotation, goto, afterEnsure
    <3>2. pc'[m] = "ensure" => /\ mem'[m].m3m = cache[m]
                               /\ bmh[cache[m].ann].pause = "no"
      BY <1>4, <1>8 DEF EnsureBlockMoveAnnotation, goto, afterEnsure
    <3>3. QED
      BY <2>1, <3>1, <3>2 DEF WorkerKnows
  <2>3. QED
    BY <1>6, <2>1, <2>2
<1>9. CASE Work(m)
  <2>1. \A g \in Hosts : /\ bmh'[g].block = bmh[g].block
                         /\ bmh'[g].saved = bmh[g].saved
                         /\ bmh'[g].pause = "capm3" => bmh[g].pause = "capm3"
                         /\ g # h => bmh'[g].pause = bmh[g].pause
    <3>1. \/ bmh' = bmh
          \/ \E g \in Hosts : bmh' = [bmh EXCEPT ![g].consumer = m]
          \/ bmh' = [g \in Hosts |->
                IF g # h \/ bmh[g].consumer # m THEN bmh[g]
                ELSE [bmh[g] EXCEPT !.consumer = None,
                        !.pause = IF @ = "capm3" THEN "no" ELSE @]]
      BY <1>9 DEF Work, getHost
    <3>2. ASSUME NEW b \in BMH
          PROVE  /\ LET c == [b EXCEPT !.consumer = m]
                    IN  c.block = b.block /\ c.saved = b.saved /\ c.pause = b.pause
                 /\ LET c == [b EXCEPT !.consumer = None,
                                 !.pause = IF @ = "capm3" THEN "no" ELSE @]
                    IN  /\ c.block = b.block /\ c.saved = b.saved
                        /\ c.pause # "capm3"
      BY DEF BMH
    <3>3. ASSUME NEW g \in Hosts
          PROVE  \/ bmh'[g] = bmh[g]
                 \/ bmh'[g] = [bmh[g] EXCEPT !.consumer = m]
                 \/ /\ g = h
                    /\ bmh'[g] = [bmh[g] EXCEPT !.consumer = None,
                                    !.pause = IF @ = "capm3" THEN "no" ELSE @]
      BY <1>4, <3>1
    <3>4. QED
      BY <1>4, <3>2, <3>3
  <2>2. QED
    BY <1>5, <1>7, <1>9, <2>1 DEF Work, WorkerKnows, HostsSaved, Unblocks
<1>10. ASSUME NEW ok \in BOOLEAN, EnsurePatch(m, ok) PROVE <1>3!1
  <2>1. bmh[h].pause # "capm3" /\ h \in Hosts
    BY <1>4, <1>5, <1>10 DEF EnsurePatch, worker, WorkerKnows, getHost
  <2>2. \A g \in Hosts : /\ bmh'[g].pause = bmh[g].pause
                         /\ bmh'[g].saved = bmh[g].saved
                         /\ bmh[g].block => bmh'[g].block
                         /\ g # h => bmh'[g].block = bmh[g].block
    BY <1>4, <1>10, <2>1 DEF EnsurePatch, BMH
  <2>3. pc'[m] \notin {"unblock", "ensure", "pauseBlock"}
    BY <1>4, <1>10 DEF EnsurePatch, goto, afterEnsure
  <2>4. QED
    BY <1>5, <2>1, <2>2, <2>3 DEF WorkerKnows, HostsSaved, Unblocks
<1>11. ASSUME NEW ok \in BOOLEAN, SetPauseAnnotation(m, ok) PROVE <1>3!1
  <2>1. bmh' = bmh
    BY <1>11 DEF SetPauseAnnotation
  <2>2. /\ pc'[m] \notin {"unblock", "ensure"}
        /\ pc'[m] = "pauseBlock" => mem' = mem /\ bmh[h].pause = "no"
    BY <1>4, <1>7, <1>11 DEF SetPauseAnnotation, goto
  <2>3. QED
    BY <1>6, <2>1, <2>2 DEF WorkerKnows, getHost
<1>12. ASSUME NEW ok \in BOOLEAN, PauseBlockPatch(m, ok) PROVE <1>3!1
  <2>1. bmh[h].pause # "capm3" /\ h \in Hosts
    BY <1>4, <1>5, <1>12 DEF PauseBlockPatch, worker, WorkerKnows, getHost
  <2>2. \A g \in Hosts : /\ bmh'[g].pause = bmh[g].pause
                         /\ bmh'[g].saved = bmh[g].saved
                         /\ bmh[g].block => bmh'[g].block
                         /\ g # h => bmh'[g].block = bmh[g].block
    BY <1>4, <1>12, <2>1 DEF PauseBlockPatch, BMH
  <2>3. pc'[m] \notin {"unblock", "ensure", "pauseBlock"}
    BY <1>4, <1>7, <1>12 DEF PauseBlockPatch, goto
  <2>4. QED
    BY <1>5, <2>1, <2>2, <2>3 DEF WorkerKnows, HostsSaved, Unblocks
<1>13. ASSUME NEW ok \in BOOLEAN, PauseSetPatch(m, ok) PROVE <1>3!1
  <2>1. CASE ok = FALSE
    <3>1. bmh' = bmh /\ pc'[m] = "idle"
      BY <1>7, <1>13, <2>1 DEF PauseSetPatch
    <3>2. QED
      BY <1>6, <3>1 DEF WorkerKnows
  <2>2. CASE ok = TRUE
    <3>1. h \in Hosts /\ mem' = mem /\ pc'[m] = "unblock"
      BY <1>4, <1>13, <2>2 DEF PauseSetPatch, worker, goto
    <3>2. /\ bmh'[h].pause = "capm3" /\ bmh'[h].saved
          /\ bmh'[h].block = bmh[h].block
          /\ \A g \in Hosts : g # h => bmh'[g] = bmh[g]
      BY <1>4, <1>13, <2>2, <3>1 DEF PauseSetPatch, BMH
    <3>3. QED
      BY <1>5, <3>1, <3>2 DEF WorkerKnows, HostsSaved, Unblocks, getHost
  <2>3. QED
    BY <2>1, <2>2
<1>14. ASSUME NEW ok \in BOOLEAN, UnblockPatch(m, ok) PROVE <1>3!1
  <2>1. h \in Hosts /\ pc[m] \in {"unblock", "unblockStale"} /\ pc'[m] = "idle"
    BY <1>4, <1>7, <1>14 DEF UnblockPatch, worker
  <2>2. \A g \in Hosts : /\ bmh'[g].pause = bmh[g].pause
                         /\ bmh'[g].saved = bmh[g].saved
                         /\ bmh'[g].block => bmh[g].block
                         /\ g # h => bmh'[g].block = bmh[g].block
    BY <1>4, <1>14, <2>1 DEF UnblockPatch, BMH
  <2>3. \A g \in Hosts : Unblocks(g)
    BY <1>5, <2>1, <2>2 DEF WorkerKnows, HostsSaved, Unblocks, getHost
  <2>4. QED
    BY <1>5, <2>1, <2>2, <2>3 DEF WorkerKnows, HostsSaved
<1>15. ASSUME NEW ok \in BOOLEAN, RemovePauseAnnotation(m, ok) PROVE <1>3!1
  <2>1. bmh' = bmh /\ pc'[m] \in {"idle", "work", "resumePatch"}
    BY <1>4, <1>7, <1>15 DEF RemovePauseAnnotation, goto
  <2>2. QED
    BY <1>6, <2>1 DEF WorkerKnows
<1>16. ASSUME NEW ok \in BOOLEAN, ResumePatch(m, ok) PROVE <1>3!1
  <2>1. h \in Hosts /\ pc'[m] \in {"idle", "work"}
    BY <1>4, <1>7, <1>16 DEF ResumePatch, worker, goto
  <2>2. \A g \in Hosts : /\ bmh'[g].block = bmh[g].block
                         /\ bmh'[g].saved = bmh[g].saved
                         /\ bmh'[g].pause = "capm3" => bmh[g].pause = "capm3"
                         /\ g # h => bmh'[g].pause = bmh[g].pause
    BY <1>4, <1>16, <2>1 DEF ResumePatch, BMH
  <2>3. QED
    BY <1>5, <2>1, <2>2 DEF WorkerKnows, HostsSaved, Unblocks
<1>17. QED
  BY <1>8, <1>9, <1>10, <1>11, <1>12, <1>13, <1>14, <1>15, <1>16 DEF Reconcile

LEMMA PauseOthers ==
    ASSUME TypeOK, PauseInv,
           \/ \E m \in Owned : DeleteMachine(m)
           \/ \E found, ok \in BOOLEAN : ReconcileCluster(found, ok)
           \/ ReconcileTemplate
           \/ SetOwner \/ SetInfrastructureReady \/ InformerSync
           \/ DeleteCluster \/ Edit \/ Move \/ Crash
           \/ UNCHANGED vars
    PROVE  PauseInv' /\ \A h \in Hosts : Unblocks(h)
<1>1. bmh \in [Hosts -> BMH] /\ \A h \in Hosts : bmh[h] \in BMH
  BY DEF TypeOK
<1>2. CASE pc' = pc /\ mem' = mem /\ bmh' = bmh
  BY <1>2 DEF PauseInv, WorkerKnows, HostsSaved, Unblocks
<1>3. CASE Edit
  <2>1. pc' = pc /\ mem' = mem
    BY <1>3 DEF Edit
  <2>2. \/ bmh' = bmh
        \/ \E h \in Hosts : /\ bmh[h].pause \in {"no", "user"}
                            /\ \/ bmh' = [bmh EXCEPT ![h].pause = "user"]
                               \/ bmh' = [bmh EXCEPT ![h].pause = "no"]
    BY <1>3 DEF Edit
  <2>3. \A h \in Hosts : /\ bmh'[h].block = bmh[h].block
                         /\ bmh'[h].saved = bmh[h].saved
                         /\ bmh'[h].pause = "capm3" <=> bmh[h].pause = "capm3"
    BY <1>1, <2>2 DEF BMH
  <2>4. \A m \in Machines : pc[m] \in {"unblock", "ensure", "pauseBlock"} =>
                              mem[m].m3m.ann \in Hosts
    BY DEF TypeOK, Mem, M3M
  <2>5. QED
    BY <2>1, <2>3, <2>4 DEF PauseInv, WorkerKnows, HostsSaved, Unblocks
<1>4. CASE Move
  <2>1. /\ \A m \in Machines : pc'[m] = "idle"
        /\ \A h \in Hosts : ~bmh[h].block /\ bmh'[h].block = bmh[h].block
    BY <1>1, <1>4 DEF Move, BMH
  <2>2. QED
    BY <2>1 DEF PauseInv, WorkerKnows, HostsSaved, Unblocks
<1>5. CASE Crash
  <2>1. bmh' = bmh /\ \A m \in Machines : pc'[m] = "idle"
    BY <1>5 DEF Crash
  <2>2. QED
    BY <2>1 DEF PauseInv, WorkerKnows, HostsSaved, Unblocks
<1>6. Edit \/ Move \/ Crash \/ (pc' = pc /\ mem' = mem /\ bmh' = bmh)
  BY DEF DeleteMachine, ReconcileCluster, ReconcileTemplate, ListClones,
         UpdateAutomatedCleaningMode, SetOwner, SetInfrastructureReady,
         InformerSync, DeleteCluster, vars
<1>7. QED
  BY <1>2, <1>3, <1>4, <1>5, <1>6

LEMMA PauseNext ==
    ASSUME Apart, TypeOK, PauseInv, [Next]_vars
    PROVE  PauseInv' /\ \A h \in Hosts : Unblocks(h)
  BY PauseReconcile, PauseOthers DEF Next

LEMMA PauseInit == TypeOK /\ Init => PauseInv
  BY DEF Init, PauseInv, WorkerKnows, HostsSaved, NewBMH

----------------------------------------------------------------------------
(* The theorems. *)

\* Whatever the controllers, users and clusterctl do, objects and workers have
\* their types, and a worker at a step on its host has one (every call of
\* getHost in SetPauseAnnotation, RemovePauseAnnotation and
\* EnsureBlockMoveAnnotation).
THEOREM ClusterTypes == Spec => []TypeOK
  BY TypesHold

\* The template controller's Update, which writes a whole Metal3Machine, only
\* changes its mode (UpdateAutomatedCleaningMode).
THEOREM TemplateTouchesMode == Spec => TemplateOnlyTouchesMode
<1>1. TypeOK /\ [Next]_vars =>
        [\A m \in Machines : m3m'[m].exists /\ m3m'[m].mode # m3m[m].mode =>
           m3m'[m] = [m3m[m] EXCEPT !.mode = m3m'[m].mode]]_vars
  BY ModeStep
<1>2. QED
  BY <1>1, TypesHold, PTL DEF Spec, TemplateOnlyTouchesMode

\* A Metal3Cluster outlives its Machines, although they are counted in a cache
\* that may be behind (CountDescendants, reconcileClusterDelete): none is
\* created meanwhile, so a Machine in the API server is in the cache as well.
THEOREM MachinesGoBeforeCluster == Spec => MachinesGoFirst
<1>1. Init => CacheBehind
  BY DEF Init, CacheBehind
<1>2. TypeOK /\ CacheBehind /\ [Next]_vars => CacheBehind'
  BY CacheStep
<1>3. TypeOK /\ CacheBehind /\ [Next]_vars =>
        [m3c.exists /\ ~m3c'.exists => \A m \in Owned : ~m3m[m].exists]_vars
  BY ClusterGoes
<1>4. QED
  BY <1>1, <1>2, <1>3, TypesHold, PTL DEF Spec, MachinesGoFirst

\* clusterctl never gets hold of a host between the block-move annotation and
\* the pause with its saved status: failed patches, crashes and moves of any
\* number do not make SetPauseAnnotation give a host away early, as long as no
\* other worker has the host at hand too.
THEOREM HandOverIsSafe == Spec /\ []Apart => HandOver
<1>1. TypeOK /\ Init => PauseInv
  BY PauseInit
<1>2. Apart /\ TypeOK /\ PauseInv /\ [Next]_vars => PauseInv'
  BY PauseNext
<1>3. Apart /\ TypeOK /\ PauseInv /\ [Next]_vars =>
        [\A h \in Hosts : bmh[h].block /\ ~bmh'[h].block =>
           \/ bmh[h].pause = "capm3" /\ bmh[h].saved
           \/ /\ bmh[h].pause # "capm3"
              /\ \E m \in Machines : /\ mem[m].m3m.ann = h
                                     /\ pc[m] = "unblockStale"]_vars
  BY PauseNext DEF Unblocks
<1>4. QED
  BY <1>1, <1>2, <1>3, TypesHold, PTL DEF Spec, HandOver

\* Workers of machines without their owner are idle.
UnownedAreIdle == \A m \in Machines \ Owned : mem[m] = NoMem /\ pc[m] = "idle"

\* With one machine that has its owner, as in the run, no two workers have the
\* same host: reconciles of the others end at once (Reconcile's check for the
\* owner Machine).
THEOREM SoleWorkerIsApart ==
    ASSUME \A m, n \in Owned : m = n
    PROVE  Spec => []Apart /\ HandOver
<1>1. Init => UnownedAreIdle
  BY DEF Init, UnownedAreIdle
<1>2. TypeOK /\ UnownedAreIdle /\ [Next]_vars => UnownedAreIdle'
  <2> SUFFICES ASSUME TypeOK, UnownedAreIdle, [Next]_vars PROVE UnownedAreIdle'
    OBVIOUS
  <2>1. ASSUME NEW m \in Machines, Reconcile(m) PROVE UnownedAreIdle'
    <3>1. m \in Owned
      BY <2>1 DEF UnownedAreIdle, Reconcile, EnsureBlockMoveAnnotation,
             EnsurePatch, worker, Work, SetPauseAnnotation, PauseBlockPatch,
             PauseSetPatch, UnblockPatch, RemovePauseAnnotation, ResumePatch
    <3>2. \A n \in Machines : n # m => pc'[n] = pc[n] /\ mem'[n] = mem[n]
      BY <2>1 DEF TypeOK, Reconcile, EnsureBlockMoveAnnotation, EnsurePatch,
             Work, SetPauseAnnotation, PauseBlockPatch, PauseSetPatch,
             UnblockPatch, RemovePauseAnnotation, ResumePatch, goto, finish
    <3>3. QED
      BY <3>1, <3>2 DEF UnownedAreIdle
  <2>2. CASE Move \/ Crash
    BY <2>2 DEF Move, Crash, UnownedAreIdle
  <2>3. CASE pc' = pc /\ mem' = mem
    BY <2>3 DEF UnownedAreIdle
  <2>4. Move \/ Crash \/ (pc' = pc /\ mem' = mem) \/ \E m \in Machines : Reconcile(m)
    BY DEF Next, DeleteMachine, ReconcileCluster, ReconcileTemplate, ListClones,
           UpdateAutomatedCleaningMode, SetOwner, SetInfrastructureReady,
         InformerSync, DeleteCluster,
           Edit, vars
  <2>5. QED
    BY <2>1, <2>2, <2>3, <2>4
<1>3. UnownedAreIdle => Apart
  BY DEF UnownedAreIdle, Apart, NoMem, NoM3M, NewM3M
<1>4. QED
  BY <1>1, <1>2, <1>3, TypesHold, HandOverIsSafe, PTL DEF Spec

============================================================================
