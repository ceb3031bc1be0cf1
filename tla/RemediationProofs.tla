------------------------- MODULE RemediationProofs -------------------------
(***************************************************************************)
(* Theorems about Remediation, for every retry limit, every way to take a  *)
(* node out of service and any number of faults.                           *)
(***************************************************************************)
EXTENDS Remediation, TLAPS

\* The new and the absent objects are objects.
LEMMA ObjectTypes == NewCR \in CR /\ NoCR \in CR /\ NoNode \in Node
<1>1. NewCR \in CR
  BY RemediationAssumption DEF CR, NewCR, Labels
<1>2. NoCR \in CR
  BY <1>1 DEF CR, NoCR
<1>3. NoNode \in Node
  BY DEF Node, NoNode, Labels
<1>4. QED
  BY <1>1, <1>2, <1>3

\* Init establishes the types.
LEMMA TypeInit == Init => TypeOK
  BY RemediationAssumption, ObjectTypes DEF Init, TypeOK, Host, Node, Labels

\* An object that goes keeps its type.
LEMMA SettleType == \A o \in CR : Settle(o) \in CR
  BY ObjectTypes DEF Settle

\* Writing one field of a Metal3Remediation ...
LEMMA CRUpdates ==
    \A o \in CR :
        /\ \A f \in BOOLEAN : /\ [o EXCEPT !.fin = f] \in CR
                             /\ [o EXCEPT !.del = f] \in CR
        /\ \A k \in Labels : [o EXCEPT !.backup = k] \in CR
        /\ \A f \in BOOLEAN, k \in Labels :
              [o EXCEPT !.fin = f, !.backup = k] \in CR
        /\ \A p \in {"none", "Running", "Waiting", "Deleting", "Failed"} :
              /\ [o EXCEPT !.phase = p] \in CR
              /\ \A r \in 0..RetryLimit :
                    [o EXCEPT !.phase = p, !.retry = r] \in CR
  BY DEF CR

\* ... of a host ...
LEMMA HostUpdates ==
    ASSUME NEW h \in Host, NEW f \in BOOLEAN
    PROVE  /\ [h EXCEPT !.off = f] \in Host
           /\ [h EXCEPT !.on = ~h.on] \in Host
           /\ [h EXCEPT !.online = ~h.online] \in Host
           /\ [h EXCEPT !.unhealthy = f] \in Host
  BY DEF Host

\* ... or of a node keeps its type.
LEMMA NodeUpdates ==
    ASSUME NEW n \in Node, NEW f \in BOOLEAN
    PROVE  [n EXCEPT !.taint = f] \in Node /\ [n EXCEPT !.lab = "own"] \in Node
  BY DEF Node, Labels

\* Every step of the worker, of a fault or of the environment keeps the types;
\* the retry count stays within the limit because an attempt is only added
\* below it (HasReachRetryLimit).
LEMMA TypeStep == TypeOK /\ [Next]_vars => TypeOK'
<1> SUFFICES ASSUME TypeOK, [Next]_vars PROVE TypeOK'
  OBVIOUS
<1> USE RemediationAssumption, ObjectTypes DEF TypeOK
<1>1. CASE Reconcile
  BY <1>1, CRUpdates DEF Reconcile, Labels
<1>2. CASE GetNode
  BY <1>2, CRUpdates DEF GetNode, Labels
<1>3. CASE PowerOff
  BY <1>3, HostUpdates DEF PowerOff
<1>4. CASE AddOutOfServiceTaint
  BY <1>4, NodeUpdates DEF AddOutOfServiceTaint, Evicting
<1>5. CASE AwaitDrain
  BY <1>5 DEF AwaitDrain, Evicting
<1>6. CASE BackupNode
  <2>1. seen.lab \in Labels
    BY DEF Node
  <2>2. QED
    BY <1>6, <2>1, CRUpdates DEF BackupNode, Evicting
<1>7. CASE DeleteNode
  BY <1>7 DEF DeleteNode, Evicting
<1>8. CASE SwitchToWaiting
  BY <1>8, CRUpdates DEF SwitchToWaiting, Evicting, Labels
<1>9. CASE PowerOn
  BY <1>9, HostUpdates DEF PowerOn
<1>10. CASE AwaitNode
  <2>1. mem.retry \in 0..RetryLimit
    BY DEF CR
  <2>2. ~HasReachRetryLimit(mem) => mem.retry + 1 \in 0..RetryLimit
    BY <2>1 DEF HasReachRetryLimit
  <2>3. /\ ~HasReachRetryLimit(mem)
           => [mem EXCEPT !.phase = "Running", !.retry = @ + 1] \in CR
        /\ [mem EXCEPT !.fin = FALSE] \in CR
    BY <2>2, CRUpdates DEF Labels
  <2>4. QED
    BY <1>10, <2>3 DEF AwaitNode
<1>11. CASE RemoveOutOfServiceTaint
  BY <1>11, NodeUpdates, CRUpdates DEF RemoveOutOfServiceTaint, Labels
<1>12. CASE RestoreNode
  BY <1>12, NodeUpdates, CRUpdates DEF RestoreNode, Labels
<1>13. CASE SetOwnerRemediated
  BY <1>13 DEF SetOwnerRemediated
<1>14. CASE SetUnhealthyAnnotation
  BY <1>14, HostUpdates, CRUpdates DEF SetUnhealthyAnnotation, Labels
<1>15. CASE PatchMeta
  <2>1. /\ Sent(cr.fin, base.fin, mem.fin) \in BOOLEAN
        /\ Sent(cr.backup, base.backup, mem.backup) \in Labels
    BY DEF Sent, CR
  <2>2. [cr EXCEPT !.fin = Sent(@, base.fin, mem.fin),
                   !.backup = Sent(@, base.backup, mem.backup)] \in CR
    BY <2>1, CRUpdates
  <2>3. QED
    BY <1>15, <2>2, SettleType DEF PatchMeta
<1>16. CASE PatchStatus
  <2>1. /\ Sent(cr.phase, base.phase, mem.phase)
              \in {"none", "Running", "Waiting", "Deleting", "Failed"}
        /\ Sent(cr.retry, base.retry, mem.retry) \in 0..RetryLimit
    BY DEF Sent, CR
  <2>2. [cr EXCEPT !.phase = Sent(@, base.phase, mem.phase),
                   !.retry = Sent(@, base.retry, mem.retry)] \in CR
    BY <2>1, CRUpdates
  <2>3. QED
    BY <1>16, <2>2 DEF PatchStatus, Done
<1>17. CASE CallFails
  BY <1>17 DEF CallFails, Fault, Done
<1>18. CASE RestoreFails
  <2>1. [mem EXCEPT !.fin = FALSE, !.backup = "none"] \in CR
    BY CRUpdates DEF Labels
  <2>2. QED
    BY <1>18, <2>1 DEF RestoreFails, Fault
<1>19. CASE Crash
  BY <1>19 DEF Crash, Fault, Done
<1>20. CASE DeleteRemediation
  BY <1>20, CRUpdates, SettleType DEF DeleteRemediation, worker, Labels
<1>21. CASE TimeOut
  <2>1. cr.retry \in 0..RetryLimit
    BY DEF CR
  <2>2. QED
    BY <1>21, <2>1 DEF TimeOut, worker
<1>22. CASE BMOPower \/ SetOnline
  BY <1>22, HostUpdates DEF BMOPower, SetOnline, worker
<1>23. CASE RegisterNode
  BY <1>23 DEF RegisterNode, worker, Node, Labels
<1>24. CASE CacheSync \/ DeleteMachine \/ UNCHANGED vars
  BY <1>24 DEF CacheSync, DeleteMachine, vars, worker
<1>25. QED
  BY <1>1, <1>2, <1>3, <1>4, <1>5, <1>6, <1>7, <1>8, <1>9, <1>10, <1>11,
     <1>12, <1>13, <1>14, <1>15, <1>16, <1>17, <1>18, <1>19, <1>20, <1>21,
     <1>22, <1>23, <1>24 DEF Next, Worker

\* Every reachable state of the remediation controller is well typed; a retry
\* count never passes the limit.
THEOREM RemediationTypes == Spec => []TypeOK
  BY TypeInit, TypeStep, PTL DEF Spec

----------------------------------------------------------------------------
(* The node is evicted only while its host is off. *)

\* A worker about to evict has seen the host off, and no one else turns it on:
\* the power-off annotation is the worker's own and outranks spec.online.
OffWhenEvicting == pc = "evict" => host.off /\ ~host.on

\* Every step keeps it.
LEMMA OffStep ==
    TypeOK /\ OffWhenEvicting /\ [Next]_vars => OffWhenEvicting'
<1> SUFFICES ASSUME TypeOK, OffWhenEvicting, [Next]_vars
             PROVE  OffWhenEvicting'
  OBVIOUS
<1> USE DEF OffWhenEvicting
<1>1. host \in Host
  BY DEF TypeOK
<1>2. CASE PowerOff
  BY <1>1, <1>2 DEF PowerOff, Host
<1>3. CASE BMOPower \/ SetOnline
  BY <1>1, <1>3 DEF BMOPower, SetOnline, worker, Host
<1>4. CASE Reconcile \/ GetNode
  BY <1>4 DEF Reconcile, GetNode
<1>5. CASE AddOutOfServiceTaint \/ AwaitDrain \/ BackupNode \/ DeleteNode
           \/ SwitchToWaiting
  BY <1>5 DEF AddOutOfServiceTaint, AwaitDrain, BackupNode, DeleteNode,
              SwitchToWaiting, Evicting
<1>6. CASE PowerOn \/ RemoveOutOfServiceTaint \/ RestoreNode
           \/ SetOwnerRemediated \/ SetUnhealthyAnnotation
           \/ PatchMeta \/ PatchStatus
  BY <1>6 DEF PowerOn, RemoveOutOfServiceTaint, RestoreNode,
              SetOwnerRemediated, SetUnhealthyAnnotation, PatchMeta,
              PatchStatus, Done
<1>7. CASE AwaitNode
  BY <1>7 DEF AwaitNode
<1>8. CASE CallFails \/ RestoreFails \/ Crash
  BY <1>8 DEF CallFails, RestoreFails, Crash, Done
<1>9. CASE CacheSync \/ DeleteRemediation \/ DeleteMachine \/ RegisterNode
           \/ TimeOut \/ UNCHANGED vars
  BY <1>9 DEF CacheSync, DeleteRemediation, DeleteMachine, RegisterNode,
              TimeOut, worker, vars
<1>10. QED
  BY <1>2, <1>3, <1>4, <1>5, <1>6, <1>7, <1>8, <1>9 DEF Next, Worker

\* A step that evicts the node is one of the two that the worker takes at the
\* call "evict".
LEMMA EvictionIsWorkers ==
    TypeOK /\ [Next]_vars /\ Evicted => pc = "evict"
<1> SUFFICES ASSUME TypeOK, [Next]_vars, Evicted, pc # "evict"
             PROVE  FALSE
  OBVIOUS
<1>1. node \in Node
  BY DEF TypeOK
<1>2. CASE UNCHANGED node
  BY <1>2 DEF Evicted
<1>3. CASE RemoveOutOfServiceTaint \/ RestoreNode
  BY <1>1, <1>3 DEF RemoveOutOfServiceTaint, RestoreNode, Evicted, Node
<1>4. CASE RegisterNode
  BY <1>1, <1>4 DEF RegisterNode, Evicted, Node
<1>5. CASE AwaitNode \/ Reconcile \/ GetNode \/ PowerOff \/ PowerOn
           \/ SetOwnerRemediated \/ SetUnhealthyAnnotation
           \/ PatchMeta \/ PatchStatus
  BY <1>2, <1>5 DEF AwaitNode, Reconcile, GetNode, PowerOff, PowerOn,
              SetOwnerRemediated, SetUnhealthyAnnotation, PatchMeta,
              PatchStatus
<1>6. CASE CallFails \/ RestoreFails \/ Crash \/ CacheSync
           \/ DeleteRemediation \/ DeleteMachine \/ BMOPower \/ SetOnline
           \/ TimeOut \/ UNCHANGED vars
  BY <1>2, <1>6 DEF CallFails, RestoreFails, Crash, CacheSync,
              DeleteRemediation, DeleteMachine, BMOPower, SetOnline, TimeOut,
              vars
<1>7. QED
  BY <1>3, <1>4, <1>5, <1>6
  DEF Next, Worker, AddOutOfServiceTaint, AwaitDrain, BackupNode, DeleteNode,
      SwitchToWaiting, Evicting

\* A node is deleted or tainted only while its host is off and stays off
\* (remediateRebootStrategy), with caches however old and any faults.
THEOREM EvictionIsSafe == Spec => NodeEvictedWhenOff
<1>1. Init => OffWhenEvicting
  BY DEF Init, OffWhenEvicting
<1>2. TypeOK /\ OffWhenEvicting /\ [Next]_vars
        => [Evicted => ~host.on /\ host.off]_vars
  BY EvictionIsWorkers DEF OffWhenEvicting
<1>3. QED
  BY <1>1, <1>2, OffStep, RemediationTypes, PTL DEF Spec, NodeEvictedWhenOff

----------------------------------------------------------------------------
(* A machine is given up only after every attempt had its time. *)

\* The time-outs of the attempts before the one o counts are over.
AttemptsPast(o) == \A i \in 0..RetryLimit : i < o.retry => i \in expired

\* So it is in every copy of the Metal3Remediation, however old; a worker that
\* gives up has seen the last attempt time out.
Attempts ==
    /\ AttemptsPast(cr) /\ AttemptsPast(cache)
    /\ AttemptsPast(mem) /\ AttemptsPast(base)
    /\ pc = "giveUp" => expired = 0..RetryLimit
    /\ machine # "live" => expired = 0..RetryLimit

\* The absent object counts no attempts.
LEMMA NoAttempts == AttemptsPast(NoCR) /\ AttemptsPast(NewCR)
<1>1. NewCR.retry = 0 /\ NoCR.retry = 0
  BY DEF NewCR, NoCR
<1>2. QED
  BY <1>1 DEF AttemptsPast

\* Every step keeps the bookkeeping of attempts.
LEMMA AttemptsStep == TypeOK /\ Attempts /\ [Next]_vars => Attempts'
<1> SUFFICES ASSUME TypeOK, Attempts, [Next]_vars PROVE Attempts'
  OBVIOUS
<1> USE RemediationAssumption
<1>0. /\ cr \in CR /\ cache \in CR /\ mem \in CR /\ base \in CR
      /\ expired \subseteq 0..RetryLimit
  BY DEF TypeOK
<1>1. ASSUME UNCHANGED <<cr, cache, mem, base, expired, machine>>,
             pc' # "giveUp" \/ UNCHANGED pc
      PROVE  Attempts'
  BY <1>1 DEF Attempts, AttemptsPast
<1>2. ASSUME UNCHANGED <<cr, cache, expired, machine, base>>,
             mem'.retry = mem.retry, pc' # "giveUp"
      PROVE  Attempts'
  BY <1>2 DEF Attempts, AttemptsPast
<1>3. CASE Reconcile
  <2>1. mem'.retry = cache.retry /\ base' = cache /\ pc' # "giveUp"
    BY <1>0, <1>3 DEF Reconcile, CR
  <2>2. UNCHANGED <<cr, cache, expired, machine>>
    BY <1>3 DEF Reconcile
  <2>3. QED
    BY <2>1, <2>2 DEF Attempts, AttemptsPast
<1>4. CASE GetNode
  BY <1>0, <1>2, <1>4 DEF GetNode, CR
<1>5. CASE PowerOff \/ PowerOn
  BY <1>1, <1>5 DEF PowerOff, PowerOn
<1>6. CASE AddOutOfServiceTaint \/ AwaitDrain \/ DeleteNode
  BY <1>1, <1>6 DEF AddOutOfServiceTaint, AwaitDrain, DeleteNode, Evicting
<1>7. CASE BackupNode \/ SwitchToWaiting
  BY <1>0, <1>2, <1>7 DEF BackupNode, SwitchToWaiting, Evicting, CR
<1>8. CASE AwaitNode
  <2>1. UNCHANGED <<cr, cache, expired, machine, base>>
    BY <1>8 DEF AwaitNode
  <2>2. CASE mem'.retry = mem.retry /\ pc' # "giveUp"
    BY <1>2, <2>1, <2>2
  <2>3. CASE /\ mem.retry \in expired
             /\ mem'.retry = mem.retry + 1 /\ pc' # "giveUp"
    <3>1. AttemptsPast(mem)'
      BY <1>0, <2>1, <2>3 DEF AttemptsPast, Attempts, CR
    <3>2. QED
      BY <2>1, <2>3, <3>1 DEF Attempts, AttemptsPast
  <2>4. CASE /\ mem.retry \in expired
             /\ RetryLimit = 0 \/ mem.retry = RetryLimit
             /\ mem' = mem
    <3>1. mem.retry = RetryLimit
      BY <1>0, <2>4 DEF CR
    <3>2. ASSUME NEW i \in 0..RetryLimit PROVE i \in expired
      BY <2>4, <3>1 DEF AttemptsPast, Attempts
    <3>3. expired = 0..RetryLimit
      BY <1>0, <3>2
    <3>4. QED
      BY <2>1, <2>4, <3>3 DEF Attempts, AttemptsPast
  <2>5. \/ mem' = mem /\ pc' # "giveUp"
        \/ mem' = [mem EXCEPT !.fin = FALSE] /\ pc' # "giveUp"
        \/ /\ TimeToRemediate(mem) /\ pc' # "giveUp"
           /\ mem' = [mem EXCEPT !.phase = "Running", !.retry = @ + 1]
        \/ /\ TimeToRemediate(mem) /\ mem' = mem
           /\ ~RetryLimitIsSet \/ HasReachRetryLimit(mem)
    BY <1>8 DEF AwaitNode
  <2>6. /\ [mem EXCEPT !.fin = FALSE].retry = mem.retry
        /\ [mem EXCEPT !.phase = "Running", !.retry = @ + 1].retry
             = mem.retry + 1
    BY <1>0 DEF CR
  <2>7. ~RetryLimitIsSet => RetryLimit = 0
    BY DEF RetryLimitIsSet
  <2>8. QED
    BY <2>2, <2>3, <2>4, <2>5, <2>6, <2>7
    DEF TimeToRemediate, HasReachRetryLimit
<1>9. CASE RemoveOutOfServiceTaint \/ RestoreNode
  BY <1>0, <1>2, <1>9 DEF RemoveOutOfServiceTaint, RestoreNode, CR
<1>10. CASE SetOwnerRemediated
  BY <1>10 DEF SetOwnerRemediated, Attempts, AttemptsPast
<1>11. CASE SetUnhealthyAnnotation
  BY <1>0, <1>2, <1>11 DEF SetUnhealthyAnnotation, CR
<1>12. CASE PatchMeta
  <2>1. AttemptsPast(cr)'
    <3> DEFINE q == [cr EXCEPT !.fin = Sent(@, base.fin, mem.fin),
                               !.backup = Sent(@, base.backup, mem.backup)]
    <3>1. q.retry = cr.retry
      BY <1>0 DEF CR
    <3>2. cr' \in {cr, q, NoCR} /\ expired' = expired
      BY <1>12 DEF PatchMeta, Settle
    <3> HIDE DEF q
    <3>3. AttemptsPast(cr')
      BY <3>1, <3>2, NoAttempts DEF Attempts, AttemptsPast
    <3>4. QED
      BY <3>2, <3>3 DEF AttemptsPast
  <2>2. UNCHANGED <<cache, mem, base, expired, machine>> /\ pc' # "giveUp"
    BY <1>12 DEF PatchMeta
  <2>3. QED
    BY <2>1, <2>2 DEF Attempts, AttemptsPast
<1>13. CASE PatchStatus
  <2>1. cr'.retry \in {cr.retry, mem.retry}
    BY <1>0, <1>13 DEF PatchStatus, Sent, CR
  <2>2. /\ UNCHANGED <<cache, expired, machine>>
        /\ mem' = NoCR /\ base' = NoCR /\ pc' # "giveUp"
    BY <1>13 DEF PatchStatus, Done
  <2>3. QED
    BY <2>1, <2>2, NoAttempts DEF Attempts, AttemptsPast
<1>14. CASE CallFails
  <2>1. CASE pc = "patchStatus"
    <3>1. /\ UNCHANGED <<cr, cache, expired, machine>>
          /\ mem' = NoCR /\ base' = NoCR /\ pc' # "giveUp"
      BY <1>14, <2>1 DEF CallFails, Done
    <3>2. QED
      BY <3>1, NoAttempts DEF Attempts, AttemptsPast
  <2>2. CASE pc # "patchStatus"
    BY <1>1, <1>14, <2>2 DEF CallFails
  <2>3. QED
    BY <2>1, <2>2
<1>15. CASE RestoreFails
  BY <1>0, <1>2, <1>15 DEF RestoreFails, CR
<1>16. CASE Crash
  <2>1. /\ UNCHANGED <<cr, expired, machine>> /\ cache' = cr
        /\ mem' = NoCR /\ base' = NoCR /\ pc' # "giveUp"
    BY <1>16 DEF Crash, Done
  <2>2. QED
    BY <2>1, NoAttempts DEF Attempts, AttemptsPast
<1>17. CASE CacheSync
  BY <1>17 DEF CacheSync, worker, Attempts, AttemptsPast
<1>18. CASE DeleteRemediation
  <2>1. cr' = NoCR \/ cr'.retry = cr.retry
    BY <1>0, <1>18 DEF DeleteRemediation, Settle, CR
  <2>2. UNCHANGED <<cache, mem, base, expired, machine, pc>>
    BY <1>18 DEF DeleteRemediation, worker
  <2>3. QED
    BY <2>1, <2>2, NoAttempts DEF Attempts, AttemptsPast
<1>19. CASE DeleteMachine
  BY <1>19 DEF DeleteMachine, worker, Attempts, AttemptsPast
<1>20. CASE TimeOut
  <2>1. /\ UNCHANGED <<cr, cache, mem, base, machine, pc>>
        /\ expired \subseteq expired' /\ expired' \subseteq 0..RetryLimit
    BY <1>0, <1>20 DEF TimeOut, worker, CR
  <2>2. QED
    BY <2>1 DEF Attempts, AttemptsPast
<1>21. CASE BMOPower \/ SetOnline \/ RegisterNode \/ UNCHANGED vars
  BY <1>1, <1>21 DEF BMOPower, SetOnline, RegisterNode, worker, vars
<1>22. QED
  BY <1>3, <1>4, <1>5, <1>6, <1>7, <1>8, <1>9, <1>10, <1>11, <1>12, <1>13,
     <1>14, <1>15, <1>16, <1>17, <1>18, <1>19, <1>20, <1>21 DEF Next, Worker

\* A machine is handed to its owner for deletion only after every attempt has
\* had its time (SetOwnerRemediatedConditionNew), with caches however old.
THEOREM GivenUpLast == Spec => []GivenUpAfterRetries
<1>1. Init => Attempts
  BY NoAttempts DEF Init, Attempts
<1>2. Attempts => GivenUpAfterRetries
  BY DEF Attempts, GivenUpAfterRetries
<1>3. QED
  BY <1>1, <1>2, AttemptsStep, RemediationTypes, PTL DEF Spec

----------------------------------------------------------------------------
(* A host told to stay off has a remediation that the API server keeps. *)

\* Calls of a reconcile before its patch.
Working == {"node", "powerOff", "evict", "powerOn", "isOn", "restore", "giveUp",
            "unhealthy"}

\* While a worker that started with a fresh copy works, the finalizer on the API
\* server is the one it read: it alone writes it, and an object that goes had
\* none.  It asks for power-off only with the finalizer, and drops that only
\* after it has taken the request back.
Guarded ==
    /\ PowerOffIsGuarded
    /\ cr.fin => cr.ex
    /\ pc \in Working \cup {"patchMeta"} => base.fin = cr.fin
    /\ pc \in Working => mem.fin = base.fin
    /\ pc = "powerOff" => mem.fin
    /\ pc \in {"isOn", "restore", "giveUp", "unhealthy"} => ~host.off
    /\ pc = "patchMeta" /\ ~mem.fin /\ base.fin => ~host.off

\* Every step keeps it, if a reconcile starts with a cache that caught up.
LEMMA GuardedStep ==
    ASSUME Lag = FALSE
    PROVE  TypeOK /\ Guarded /\ [Next]_vars => Guarded'
<1> SUFFICES ASSUME TypeOK, Guarded, [Next]_vars PROVE Guarded'
  OBVIOUS
<1> USE DEF Guarded, PowerOffIsGuarded, Working
<1>0. /\ cr \in CR /\ cache \in CR /\ mem \in CR /\ base \in CR
      /\ host \in Host
  BY DEF TypeOK
<1>1. NoCR.fin = FALSE /\ NoCR.ex = FALSE
  BY DEF NoCR, NewCR
<1>2. CASE Reconcile
  BY <1>0, <1>2 DEF Reconcile, CR
<1>3. CASE GetNode
  BY <1>0, <1>3 DEF GetNode, CR
<1>4. CASE PowerOff
  BY <1>0, <1>4 DEF PowerOff, Host
<1>5. CASE AddOutOfServiceTaint \/ AwaitDrain \/ DeleteNode
  BY <1>5 DEF AddOutOfServiceTaint, AwaitDrain, DeleteNode, Evicting
<1>6. CASE BackupNode \/ SwitchToWaiting
  BY <1>0, <1>6 DEF BackupNode, SwitchToWaiting, Evicting, CR
<1>7. CASE PowerOn
  BY <1>0, <1>7 DEF PowerOn, Host
<1>8. CASE AwaitNode
  BY <1>0, <1>8 DEF AwaitNode, CR
<1>9. CASE RemoveOutOfServiceTaint \/ RestoreNode \/ RestoreFails
  BY <1>0, <1>9 DEF RemoveOutOfServiceTaint, RestoreNode, RestoreFails, CR
<1>10. CASE SetOwnerRemediated
  BY <1>10 DEF SetOwnerRemediated
<1>11. CASE SetUnhealthyAnnotation
  BY <1>0, <1>11 DEF SetUnhealthyAnnotation, CR, Host
<1>12. CASE PatchMeta
  BY <1>0, <1>1, <1>12 DEF PatchMeta, Sent, Settle, CR
<1>13. CASE PatchStatus
  BY <1>0, <1>13 DEF PatchStatus, Done, CR
<1>14. CASE CallFails
  <2>1. CASE pc \in {"patchMeta", "patchStatus"}
    BY <1>14, <2>1 DEF CallFails, Done
  <2>2. CASE pc \in Working
    BY <1>14, <2>2 DEF CallFails
  <2>3. QED
    BY <1>14, <2>1, <2>2 DEF CallFails, TypeOK
<1>15. CASE Crash
  BY <1>15 DEF Crash, Done
<1>16. CASE DeleteRemediation
  BY <1>0, <1>1, <1>16 DEF DeleteRemediation, Settle, worker, CR
<1>17. CASE BMOPower \/ SetOnline
  BY <1>0, <1>17 DEF BMOPower, SetOnline, worker, Host
<1>18. CASE CacheSync \/ DeleteMachine \/ RegisterNode \/ TimeOut
            \/ UNCHANGED vars
  BY <1>18 DEF CacheSync, DeleteMachine, RegisterNode, TimeOut, worker, vars
<1>19. QED
  BY <1>2, <1>3, <1>4, <1>5, <1>6, <1>7, <1>8, <1>9, <1>10, <1>11, <1>12,
     <1>13, <1>14, <1>15, <1>16, <1>17, <1>18 DEF Next, Worker

\* No host is left with a power-off request of a remediation that is gone or may
\* go at any time (SetFinalizer, UnsetFinalizer), if every reconcile sees what
\* the one before it wrote.
THEOREM NoOrphanedPowerOff ==
    ASSUME Lag = FALSE
    PROVE  Spec => []PowerOffIsGuarded
<1>1. Init => Guarded
  BY DEF Init, Guarded, PowerOffIsGuarded, Working, NewCR
<1>2. Guarded => PowerOffIsGuarded
  BY DEF Guarded
<1>3. TypeOK /\ Guarded /\ [Next]_vars => Guarded'
  BY GuardedStep
<1>4. QED
  BY <1>1, <1>2, <1>3, RemediationTypes, PTL DEF Spec

=============================================================================
