---------------------------- MODULE DataTemplate ----------------------------
(***************************************************************************)
(* Metal3DataClaims, Metal3Data and IP leases: the Metal3DataTemplate      *)
(* controller gives each claim an index and a Metal3Data, the Metal3Data   *)
(* controller leases an address and renders the secret, and everything is  *)
(* taken down again when the machine goes.                                 *)
(*                                                                         *)
(* One template, with one worker; one worker per Metal3Data.  A claim has  *)
(* the name of its Metal3Machine, a Metal3Data that of its index.  Workers *)
(* are cut at their API calls.  Metal3DataClaims and Metal3Data are read   *)
(* from informer caches, each a past state of the API server's collection. *)
(* IPClaims too: one the informer has not seen yet is marked.              *)
(*                                                                         *)
(* Finalizers are a list, and a merge patch replaces a list as a whole: a  *)
(* patch that adds or removes one finalizer writes back the others as they *)
(* were when the object was read.  The API server refuses a new finalizer  *)
(* on an object that is being deleted.                                     *)
(*                                                                         *)
(* Abstractions: one IP pool and one secret per machine; what is rendered  *)
(* is the index it is rendered from; a UID is the claim a Metal3Data was   *)
(* made for; pausing is left out.  The machine has its host before it has  *)
(* a claim, so a failed look-up of the host counts as a fault.             *)
(***************************************************************************)
EXTENDS Integers, FiniteSets, FiniteSetsExt

CONSTANTS Claims,      \* names of machines with a dataTemplate
          MaxIndex,    \* bound on indexes
          None,
          Deletable,   \* the machines, and perhaps the "template", users delete
          Pool,        \* TRUE: the template refers to an IP pool
          Lag,         \* TRUE: informer caches may be behind when a round starts
          MaxFaults    \* bound on crashes and failed API calls

ASSUME DataAssumption ==
    /\ None \notin Claims \cup Int
    /\ "template" \notin Claims /\ Deletable \subseteq Claims \cup {"template"}
    /\ MaxIndex \in Nat
    /\ Pool \in BOOLEAN /\ Lag \in BOOLEAN
    /\ MaxFaults \in Nat

Indexes == 0..MaxIndex

VARIABLES machine,     \* how far each Metal3Machine is
          template,    \* the Metal3DataTemplate
          claim,       \* Metal3DataClaims on the API server
          claimCache,
          data,        \* Metal3Data on the API server
          dataCache,
          lease,       \* the IPClaim of each Metal3Data
          secret,      \* the index each machine's secret is rendered from
          tpc,         \* the template worker: next call,
          listed,      \*   the claims it listed,
          left,        \*   those it has still to handle,
          cur,         \*   the one at hand and its new fields,
          idx,         \*   indexes in use, as far as it knows,
          tgt,         \*   the Metal3Data it deletes,
          verdict,     \*   what becomes of the template's finalizer
          dpc,         \* the Metal3Data workers: next call,
          dmem,        \*   the object at hand,
          dbase,       \*   as it was read
          faults

tWork == <<tpc, listed, left, cur, idx, tgt, verdict>>
dWork == <<dpc, dmem, dbase>>
vars == <<machine, template, claim, claimCache, data, dataCache, lease, secret,
          tWork, dWork, faults>>

----------------------------------------------------------------------------
(* Objects. *)

\* mfin, cfin: MachineFinalizer, DataClaimFinalizer; rd: status.renderedData.
Claim == [ex : BOOLEAN, del : BOOLEAN, mfin : BOOLEAN, cfin : BOOLEAN,
          rd : Indexes \cup {None}]
NoClaim == [ex |-> FALSE, del |-> FALSE, mfin |-> FALSE, cfin |-> FALSE,
            rd |-> None]

\* cfin, dfin: DataClaimFinalizer, DataFinalizer.
Data == [ex : BOOLEAN, del : BOOLEAN, cfin : BOOLEAN, dfin : BOOLEAN,
         claim : Claims \cup {None}, ready : BOOLEAN]
NoData == [ex |-> FALSE, del |-> FALSE, cfin |-> FALSE, dfin |-> FALSE,
           claim |-> None, ready |-> FALSE]

\* fin: DataFinalizer; addr: an address is allocated; seen: by the informer.
Lease == [ex : BOOLEAN, del : BOOLEAN, fin : BOOLEAN,
          owner : Claims \cup {None}, addr : BOOLEAN, seen : BOOLEAN]
NoLease == [ex |-> FALSE, del |-> FALSE, fin |-> FALSE, owner |-> None,
            addr |-> FALSE, seen |-> FALSE]

\* A deleted object without finalizers is gone.
SettleClaim(o) == IF o.del /\ ~o.mfin /\ ~o.cfin THEN NoClaim ELSE o
SettleData(o) == IF o.del /\ ~o.cfin /\ ~o.dfin THEN NoData ELSE o
SettleLease(o) == IF o.del /\ ~o.fin /\ ~o.addr THEN NoLease ELSE o

\* Delete: nothing happens to an object that is gone.
DeletedClaim(o) == IF o.ex THEN SettleClaim([o EXCEPT !.del = TRUE]) ELSE o
DeletedData(o) == IF o.ex THEN SettleData([o EXCEPT !.del = TRUE]) ELSE o
DeletedLease(o) == IF o.ex THEN SettleLease([o EXCEPT !.del = TRUE]) ELSE o

NoWork == [c |-> None, cfin |-> FALSE, rd |-> None]

\* What the API server, the informers and the workers can hold.
TypeOK ==
    /\ machine \in [Claims -> {"running", "deleting", "claimDelete",
                               "dissociated", "gone"}]
    /\ template \in {"new", "normal", "deleting", "gone"}
    /\ claim \in [Claims -> Claim] /\ claimCache \in [Claims -> Claim]
    /\ data \in [Indexes -> Data] /\ dataCache \in [Indexes -> Data]
    /\ lease \in [Indexes -> Lease]
    /\ secret \in [Claims -> Indexes \cup {None}]
    /\ tpc \in {"idle", "next", "fin", "del", "patchMeta", "patchStatus"}
    /\ listed \in [Claims -> Claim]
    /\ left \subseteq Claims
    /\ cur \in [c : Claims \cup {None}, cfin : BOOLEAN,
                rd : Indexes \cup {None}]
    /\ idx \subseteq Claims \X Indexes
    /\ tgt \in [i : Indexes \cup {None}, copy : Data]
    /\ verdict \in {"add", "keep", "remove"}
    /\ dpc \in [Indexes -> {"idle", "lease", "secret", "release", "patchMeta",
                            "patchStatus"}]
    /\ dmem \in [Indexes -> Data] /\ dbase \in [Indexes -> Data]
    /\ faults \in 0..MaxFaults

NoTarget == [i |-> None, copy |-> NoData]

Init ==
    /\ machine = [c \in Claims |-> "running"]
    /\ template = "new"
    /\ claim = [c \in Claims |-> NoClaim]
    /\ claimCache = claim
    /\ data = [i \in Indexes |-> NoData]
    /\ dataCache = data
    /\ lease = [i \in Indexes |-> NoLease]
    /\ secret = [c \in Claims |-> None]
    /\ tpc = "idle"
    /\ listed = claim
    /\ left = {}
    /\ cur = NoWork
    /\ idx = {}
    /\ tgt = NoTarget
    /\ verdict = "keep"
    /\ dpc = [i \in Indexes |-> "idle"]
    /\ dmem = data
    /\ dbase = data
    /\ faults = 0

----------------------------------------------------------------------------
(* The machine controller's part. *)

\* AssociateM3Metadata: create the claim.  While the informer has not seen it
\* the call is repeated and fails.
AssociateM3Metadata(c) ==
    /\ machine[c] = "running"
    /\ ~claimCache[c].ex /\ ~claim[c].ex
    /\ claim' = [claim EXCEPT ![c] = [NoClaim EXCEPT !.ex = TRUE,
                                                     !.mfin = TRUE]]
    /\ UNCHANGED <<machine, template, claimCache, data, dataCache, lease,
                   secret, tWork, dWork, faults>>

\* DissociateM3Metadata: take the finalizer off the claim, unless it has
\* changed since it was cached.  A claim that is not found is left alone.
Dissociate(c) ==
    /\ machine[c] = "deleting"
    /\ \/ /\ ~claimCache[c].ex
          /\ machine' = [machine EXCEPT ![c] = "dissociated"]
          /\ UNCHANGED claim
       \/ /\ claimCache[c].ex
          /\ claim[c].ex => claim[c] = claimCache[c]
          /\ claim' = [claim EXCEPT ![c] =
                          SettleClaim([@ EXCEPT !.mfin = FALSE])]
          /\ machine' = [machine EXCEPT ![c] = "claimDelete"]
    /\ UNCHANGED <<template, claimCache, data, dataCache, lease, secret, tWork,
                   dWork, faults>>

\* ... and delete it.
DissociateDelete(c) ==
    /\ machine[c] = "claimDelete"
    /\ claim' = [claim EXCEPT ![c] = DeletedClaim(@)]
    /\ machine' = [machine EXCEPT ![c] = "dissociated"]
    /\ UNCHANGED <<template, claimCache, data, dataCache, lease, secret, tWork,
                   dWork, faults>>

\* The host is not released yet and the deletion is reconciled again, or the
\* machine is gone.
MachineRequeued(c) ==
    /\ machine[c] = "dissociated"
    /\ machine' = [machine EXCEPT ![c] = "deleting"]
    /\ UNCHANGED <<template, claim, claimCache, data, dataCache, lease, secret,
                   tWork, dWork, faults>>
MachineGone(c) ==
    /\ machine[c] = "dissociated"
    /\ machine' = [machine EXCEPT ![c] = "gone"]
    /\ UNCHANGED <<template, claim, claimCache, data, dataCache, lease, secret,
                   tWork, dWork, faults>>

----------------------------------------------------------------------------
(* The Metal3DataTemplate controller. *)

Fresh == Lag \/ (claimCache = claim /\ dataCache = data)

\* Mutant: a claim that has the finalizer counts as handled.
pendingWithoutFinalizer(c) == LET o == claimCache[c] IN
    o.ex /\ (o.del \/ ~o.cfin)
\* Claims to handle: deleted ones, and those without a Metal3Data.
pending(c) == LET o == claimCache[c] IN o.ex /\ (o.del \/ o.rd = None)

\* Mutant: Metal3Data that are still there are not looked at.
unusedIgnoresData == ~\E c \in Claims : claimCache[c].ex /\ ~claimCache[c].del
\* Whether the template may go: ~hasData and ~hasClaims.
unused == /\ ~\E i \in Indexes : dataCache[i].ex
          /\ ~\E c \in Claims : claimCache[c].ex /\ ~claimCache[c].del

\* getIndexes and the list of claims; SetFinalizer, or the test whether the
\* template may go.  Rounds that would change nothing are left out.
UpdateDatas ==
    /\ tpc = "idle"
    /\ template # "gone"
    /\ Fresh
    /\ idx' = {<<dataCache[i].claim, i>> : i \in {j \in Indexes : dataCache[j].ex}}
    /\ listed' = claimCache
    /\ left' = {c \in Claims : pending(c)}
    /\ verdict' = IF template # "deleting" THEN "add"
                  ELSE IF unused THEN "remove" ELSE "keep"
    /\ left' # {} \/ (template = "new" /\ verdict' = "add") \/ verdict' = "remove"
    /\ tpc' = "next"
    /\ UNCHANGED <<machine, template, claim, claimCache, data, dataCache, lease,
                   secret, cur, tgt, dWork, faults>>

\* An error ends the round: the claim at hand is patched, the rest and the
\* removal of the finalizer wait for the next one.
Abort == left' = {} /\ verdict' = IF verdict = "remove" THEN "keep" ELSE verdict

\* The first gap in the indexes, or the next one.
FreeIndex == LET used == {e[2] : e \in idx}
                 n == Cardinality(idx)
             IN  Min({i \in 0..n : i = n \/ i \notin used})

\* Mutant: the name of the claim is not compared.
EntriesOfAnyClaim(c) == {e[2] : e \in idx}
\* Mutant: existing Metal3Data of the claim are not looked for.
EntriesOfNone(c) == {}
\* The indexes recorded for a claim.
EntriesOf(c) == {e[2] : e \in {f \in idx : f[1] = c}}

\* Mutant: name and index are swapped.
newEntrySwapped(c) == <<FreeIndex, c>>
\* The index entry a new Metal3Data gets.
newEntry(c) == <<c, FreeIndex>>

\* createData: use the Metal3Data the claim has, or create one.
createData(c) ==
    /\ tpc = "next"
    /\ c \in left /\ ~listed[c].del
    /\ tpc' = "patchMeta"
    /\ IF EntriesOf(c) # {}
       THEN /\ cur' = [c |-> c, cfin |-> TRUE, rd |-> Min(EntriesOf(c))]
            /\ left' = left \ {c}
            /\ UNCHANGED <<data, idx, verdict>>
       ELSE /\ FreeIndex \in Indexes
            /\ IF data[FreeIndex].ex
               THEN /\ cur' = [c |-> c, cfin |-> TRUE, rd |-> None]
                    /\ Abort
                    /\ UNCHANGED <<data, idx>>
               ELSE /\ data' = [data EXCEPT ![FreeIndex] =
                           [NoData EXCEPT !.ex = TRUE, !.cfin = TRUE,
                                          !.claim = c]]
                    /\ idx' = idx \cup {newEntry(c)}
                    /\ cur' = [c |-> c, cfin |-> TRUE, rd |-> FreeIndex]
                    /\ left' = left \ {c}
                    /\ UNCHANGED verdict
    /\ UNCHANGED <<machine, template, claim, claimCache, dataCache, lease,
                   secret, listed, tgt, dWork, faults>>

\* Bound: a claim that would get an index above MaxIndex waits.
OutOfIndexes(c) ==
    /\ tpc = "next"
    /\ c \in left /\ ~listed[c].del
    /\ EntriesOf(c) = {} /\ FreeIndex \notin Indexes
    /\ left' = left \ {c}
    /\ UNCHANGED <<machine, template, claim, claimCache, data, dataCache, lease,
                   secret, tpc, listed, cur, idx, tgt, verdict, dWork, faults>>

\* deleteMetal3DataAndClaim: look the Metal3Data up by index, then by the
\* reference in the claim.
Target(c) ==
    LET byIndex == {i \in EntriesOf(c) : i = Min(EntriesOf(c)) /\ dataCache[i].ex}
        byRef == {i \in Indexes : i = listed[c].rd /\ dataCache[i].ex}
    IN  IF byIndex # {} THEN byIndex ELSE byRef

\* The entries a deletion drops: those of the claim, or of its index.
Drop(c) == {e \in idx : e[1] # c /\ e[2] \notin {Min(EntriesOf(c))}}
Dropped(c) == IF EntriesOf(c) = {} THEN idx ELSE Drop(c)

deleteData(c) ==
    /\ tpc = "next"
    /\ c \in left /\ listed[c].del
    /\ left' = left \ {c}
    /\ cur' = [c |-> c, cfin |-> FALSE, rd |-> None]
    /\ IF Target(c) = {}
       THEN /\ tpc' = "patchMeta"
            /\ idx' = Dropped(c)
            /\ UNCHANGED tgt
       ELSE /\ tpc' = "fin"
            /\ \E i \in Target(c) : tgt' = [i |-> i, copy |-> dataCache[i]]
            /\ UNCHANGED idx
    /\ UNCHANGED <<machine, template, claim, claimCache, data, dataCache, lease,
                   secret, listed, verdict, dWork, faults>>

\* Take the DataClaimFinalizer off the Metal3Data; one that has changed is a
\* conflict.
deleteDataFinalizer ==
    /\ tpc = "fin"
    /\ LET d == data[tgt.i]
       IN  IF d.ex /\ d # tgt.copy
           THEN /\ tpc' = "patchMeta"
                /\ cur' = [c |-> cur.c, cfin |-> listed[cur.c].cfin,
                           rd |-> listed[cur.c].rd]
                /\ Abort
                /\ UNCHANGED data
           ELSE /\ tpc' = "del"
                /\ data' = [data EXCEPT ![tgt.i] =
                               SettleData([@ EXCEPT !.cfin = FALSE])]
                /\ UNCHANGED <<cur, left, verdict>>
    /\ UNCHANGED <<machine, template, claim, claimCache, dataCache, lease,
                   secret, listed, idx, tgt, dWork, faults>>

deleteDataObject ==
    /\ tpc = "del"
    /\ data' = [data EXCEPT ![tgt.i] = DeletedData(@)]
    /\ idx' = Dropped(cur.c)
    /\ tgt' = NoTarget
    /\ tpc' = "patchMeta"
    /\ UNCHANGED <<machine, template, claim, claimCache, dataCache, lease,
                   secret, listed, left, cur, verdict, dWork, faults>>

\* The deferred patch of the claim: finalizers, unless the API server refuses
\* to add one ...
PatchedClaim(o, old, new) ==
    IF \/ ~o.ex
       \/ new.cfin = old.cfin
       \/ o.del /\ ((old.mfin /\ ~o.mfin) \/ (new.cfin /\ ~o.cfin))
    THEN o ELSE SettleClaim([o EXCEPT !.mfin = old.mfin, !.cfin = new.cfin])

patchClaimMeta ==
    /\ tpc = "patchMeta"
    /\ claim' = [claim EXCEPT ![cur.c] = PatchedClaim(@, listed[cur.c], cur)]
    /\ tpc' = "patchStatus"
    /\ UNCHANGED <<machine, template, claimCache, data, dataCache, lease,
                   secret, listed, left, cur, idx, tgt, verdict, dWork, faults>>

\* ... then status.  Errors of the patch are logged only.
patchClaimStatus ==
    /\ tpc = "patchStatus"
    /\ claim' = [claim EXCEPT ![cur.c] =
                    IF @.ex /\ cur.rd # listed[cur.c].rd
                    THEN [@ EXCEPT !.rd = cur.rd] ELSE @]
    /\ cur' = NoWork
    /\ tpc' = "next"
    /\ UNCHANGED <<machine, template, claimCache, data, dataCache, lease,
                   secret, listed, left, idx, tgt, verdict, dWork, faults>>

endRound ==
    /\ tpc' = "idle"
    /\ idx' = {}
    /\ listed' = [c \in Claims |-> NoClaim]
    /\ verdict' = "keep"

\* The deferred patch of the template.
patchTemplate ==
    /\ tpc = "next" /\ left = {}
    /\ template' = CASE verdict = "add" /\ template = "new" -> "normal"
                     [] verdict = "remove" -> "gone"
                     [] OTHER -> template
    /\ endRound
    /\ UNCHANGED <<machine, claim, claimCache, data, dataCache, lease, secret,
                   left, cur, tgt, dWork, faults>>

TemplateWorker ==
    \/ UpdateDatas
    \/ \E c \in Claims : createData(c) \/ OutOfIndexes(c) \/ deleteData(c)
    \/ deleteDataFinalizer \/ deleteDataObject
    \/ patchClaimMeta \/ patchClaimStatus \/ patchTemplate

----------------------------------------------------------------------------
(* The Metal3Data controller. *)

apiNoData == <<machine, template, claim, claimCache, dataCache>>

\* A Metal3Data whose secret exists is ready.
secretExists(m) == [m EXCEPT !.ready = TRUE]

\* A round begins.  A deleted Metal3Data waits until its claim is gone; a live
\* one gets its finalizer and is not ready until its secret exists.  Rounds
\* that would change nothing are left out.
DataRead(i) ==
    LET d == dataCache[i]
        m == [d EXCEPT !.dfin = TRUE, !.ready = FALSE]
        has == /\ template # "gone"
               /\ claimCache[d.claim].ex
               /\ machine[d.claim] # "gone"
    IN  /\ dpc[i] = "idle" /\ d.ex
        /\ Fresh
        /\ \/ /\ d.del /\ ~claimCache[d.claim].ex
              /\ dmem' = [dmem EXCEPT ![i] = d]
              /\ dpc' = [dpc EXCEPT ![i] = "release"]
           \/ /\ ~d.del /\ ~has
              /\ m # d
              /\ dmem' = [dmem EXCEPT ![i] = m]
              /\ dpc' = [dpc EXCEPT ![i] = "patchMeta"]
           \/ /\ ~d.del /\ has /\ secret[d.claim] # None
              /\ secretExists(m) # d
              /\ dmem' = [dmem EXCEPT ![i] = secretExists(m)]
              /\ dpc' = [dpc EXCEPT ![i] = "patchMeta"]
           \/ /\ ~d.del /\ has /\ secret[d.claim] = None
              /\ dmem' = [dmem EXCEPT ![i] = m]
              /\ dpc' = [dpc EXCEPT ![i] = IF Pool THEN "lease" ELSE "secret"]
        /\ dbase' = [dbase EXCEPT ![i] = d]
        /\ UNCHANGED <<apiNoData, data, lease, secret, tWork, faults>>

\* Mutant: the owner of the IPClaim is not compared.
usableAnyOwner(l, c) == l.ex /\ l.seen /\ l.addr
\* An IPClaim to take the address from: seen, this Metal3Data's, and served.
usable(l, c) == l.ex /\ l.seen /\ l.owner = c /\ l.addr

\* Mutant: the owners are compared the wrong way round.
leftBehindOwn(l, c) == l.seen /\ l.owner = c /\ l.del
\* A deleted IPClaim of an earlier Metal3Data of the same name.
leftBehind(l, c) == l.seen /\ l.owner # c /\ l.del

\* ensureM3IPClaim and addressFromM3Claim: create the IPClaim under the name
\* the index gives it, wait for its address, and take the finalizer off a
\* deleted one of an earlier Metal3Data of that name.
ensureIPClaim(i) ==
    LET l == lease[i]
        c == dmem[i].claim
    IN  /\ dpc[i] = "lease"
        /\ \/ /\ ~l.ex
              /\ lease' = [lease EXCEPT ![i] = [NoLease EXCEPT !.ex = TRUE,
                               !.fin = TRUE, !.owner = c]]
              /\ UNCHANGED dpc
           \/ /\ usable(l, c)
              /\ dpc' = [dpc EXCEPT ![i] = "secret"]
              /\ UNCHANGED lease
           \/ /\ l.ex /\ ~usable(l, c)
              /\ lease' = IF leftBehind(l, c)
                          THEN [lease EXCEPT ![i] =
                                   SettleLease([@ EXCEPT !.fin = FALSE])]
                          ELSE lease
              /\ dpc' = [dpc EXCEPT ![i] = "patchMeta"]
        /\ UNCHANGED <<apiNoData, data, secret, tWork, dmem, dbase, faults>>

createSecrets(i) ==
    /\ dpc[i] = "secret"
    /\ secret' = [secret EXCEPT ![dmem[i].claim] = i]
    /\ dmem' = [dmem EXCEPT ![i].ready = TRUE]
    /\ dpc' = [dpc EXCEPT ![i] = "patchMeta"]
    /\ UNCHANGED <<apiNoData, data, lease, tWork, dbase, faults>>

\* releaseAddressesFromPool: the IPClaims that name the Metal3Data as owner,
\* as far as the informer has seen them.
ReleaseLeases(i) ==
    /\ dpc[i] = "release"
    /\ lease' = IF lease[i].ex /\ lease[i].seen
                THEN [lease EXCEPT ![i] = SettleLease([@ EXCEPT !.fin = FALSE,
                                                                !.del = TRUE])]
                ELSE lease
    /\ dmem' = [dmem EXCEPT ![i].dfin = FALSE]
    /\ dpc' = [dpc EXCEPT ![i] = "patchMeta"]
    /\ UNCHANGED <<apiNoData, data, secret, tWork, dbase, faults>>

\* The deferred patch: nothing if the object is gone from the cache; else the
\* finalizers ...
PatchedData(o, old, new) ==
    IF \/ ~o.ex
       \/ new.dfin = old.dfin
       \/ o.del /\ ((old.cfin /\ ~o.cfin) \/ (new.dfin /\ ~o.dfin))
    THEN o ELSE SettleData([o EXCEPT !.cfin = old.cfin, !.dfin = new.dfin])

DataIdle(i) ==
    /\ dpc' = [dpc EXCEPT ![i] = "idle"]
    /\ dmem' = [dmem EXCEPT ![i] = NoData]
    /\ dbase' = [dbase EXCEPT ![i] = NoData]

patchDataMeta(i) ==
    /\ dpc[i] = "patchMeta"
    /\ IF dataCache[i].ex
       THEN /\ data' = [data EXCEPT ![i] = PatchedData(@, dbase[i], dmem[i])]
            /\ dpc' = [dpc EXCEPT ![i] = "patchStatus"]
            /\ UNCHANGED <<dmem, dbase>>
       ELSE DataIdle(i) /\ UNCHANGED data
    /\ UNCHANGED <<apiNoData, lease, secret, tWork, faults>>

\* ... and the status.
patchDataStatus(i) ==
    /\ dpc[i] = "patchStatus"
    /\ data' = IF data[i].ex /\ dmem[i].ready # dbase[i].ready
               THEN [data EXCEPT ![i].ready = dmem[i].ready] ELSE data
    /\ DataIdle(i)
    /\ UNCHANGED <<apiNoData, lease, secret, tWork, faults>>

DataWorker(i) ==
    \/ DataRead(i) \/ ensureIPClaim(i) \/ createSecrets(i) \/ ReleaseLeases(i)
    \/ patchDataMeta(i) \/ patchDataStatus(i)

----------------------------------------------------------------------------
(* Users, informers, the garbage collector and the IP address manager. *)

DeleteMachine(c) ==
    /\ c \in Deletable /\ machine[c] = "running"
    /\ machine' = [machine EXCEPT ![c] = "deleting"]
    /\ UNCHANGED <<template, claim, claimCache, data, dataCache, lease, secret,
                   tWork, dWork, faults>>

DeleteTemplate ==
    /\ "template" \in Deletable
    /\ template \in {"new", "normal"}
    /\ template' = IF template = "new" THEN "gone" ELSE "deleting"
    /\ UNCHANGED <<machine, claim, claimCache, data, dataCache, lease, secret,
                   tWork, dWork, faults>>

ClaimSync ==
    /\ claimCache' = claim
    /\ UNCHANGED <<machine, template, claim, data, dataCache, lease, secret,
                   tWork, dWork, faults>>
DataSync ==
    /\ dataCache' = data
    /\ UNCHANGED <<machine, template, claim, claimCache, data, lease, secret,
                   tWork, dWork, faults>>
LeaseSync(i) ==
    /\ lease[i].ex /\ ~lease[i].seen
    /\ lease' = [lease EXCEPT ![i].seen = TRUE]
    /\ UNCHANGED <<machine, template, claim, claimCache, data, dataCache,
                   secret, tWork, dWork, faults>>

\* An object is collected when all its owners are gone.
CollectClaim(c) ==
    /\ machine[c] = "gone"
    /\ claim' = [claim EXCEPT ![c] = DeletedClaim(@)]
    /\ UNCHANGED <<machine, template, claimCache, data, dataCache, lease,
                   secret, tWork, dWork, faults>>
CollectData(i) ==
    /\ data[i].ex /\ machine[data[i].claim] = "gone" /\ ~claim[data[i].claim].ex
    /\ data' = [data EXCEPT ![i] = DeletedData(@)]
    /\ UNCHANGED <<machine, template, claim, claimCache, dataCache, lease,
                   secret, tWork, dWork, faults>>
CollectLease(i) ==
    /\ lease[i].ex
    /\ ~(data[i].ex /\ data[i].claim = lease[i].owner)
    /\ lease' = [lease EXCEPT ![i] = DeletedLease(@)]
    /\ UNCHANGED <<machine, template, claim, claimCache, data, dataCache,
                   secret, tWork, dWork, faults>>
CollectSecret(c) ==
    /\ secret[c] # None
    /\ ~(data[secret[c]].ex /\ data[secret[c]].claim = c)
    /\ secret' = [secret EXCEPT ![c] = None]
    /\ UNCHANGED <<machine, template, claim, claimCache, data, dataCache, lease,
                   tWork, dWork, faults>>

\* The IP address manager keeps an address while the IPClaim has another
\* finalizer.
Allocate(i) ==
    /\ lease[i].ex /\ ~lease[i].del /\ ~lease[i].addr
    /\ lease' = [lease EXCEPT ![i].addr = TRUE]
    /\ UNCHANGED <<machine, template, claim, claimCache, data, dataCache,
                   secret, tWork, dWork, faults>>
Free(i) ==
    /\ lease[i].del /\ ~lease[i].fin /\ lease[i].addr
    /\ lease' = [lease EXCEPT ![i] = SettleLease([@ EXCEPT !.addr = FALSE])]
    /\ UNCHANGED <<machine, template, claim, claimCache, data, dataCache,
                   secret, tWork, dWork, faults>>

----------------------------------------------------------------------------
(* Failed calls and a restart of the manager. *)

Fault == faults < MaxFaults /\ faults' = faults + 1

\* Creating, updating or deleting the Metal3Data fails: the round ends with
\* the patch of the claim.
DataCallFails ==
    /\ Fault
    /\ \/ /\ tpc = "next"
          /\ \E c \in left : /\ ~listed[c].del /\ EntriesOf(c) = {}
                             /\ cur' = [c |-> c, cfin |-> TRUE, rd |-> None]
       \/ /\ tpc \in {"fin", "del"}
          /\ cur' = [c |-> cur.c, cfin |-> listed[cur.c].cfin,
                     rd |-> listed[cur.c].rd]
    /\ Abort
    /\ tgt' = NoTarget
    /\ tpc' = "patchMeta"
    /\ UNCHANGED <<apiNoData, data, lease, secret, listed, idx, dWork>>

\* The patch of the claim fails, which is only logged.
ClaimPatchFails ==
    /\ Fault
    /\ \/ tpc = "patchMeta" /\ tpc' = "patchStatus" /\ UNCHANGED cur
       \/ tpc = "patchStatus" /\ tpc' = "next" /\ cur' = NoWork
    /\ UNCHANGED <<apiNoData, data, lease, secret, listed, left, idx, tgt,
                   verdict, dWork>>

\* A call of a Metal3Data worker fails: what it has in memory is still patched.
DataWorkerFails(i) ==
    /\ Fault
    /\ \/ /\ dpc[i] \in {"lease", "secret", "release"}
          /\ dpc' = [dpc EXCEPT ![i] = "patchMeta"]
          /\ UNCHANGED <<dmem, dbase>>
       \/ /\ dpc[i] = "patchMeta"
          /\ dpc' = [dpc EXCEPT ![i] = "patchStatus"]
          /\ UNCHANGED <<dmem, dbase>>
       \/ dpc[i] = "patchStatus" /\ DataIdle(i)
    /\ UNCHANGED <<apiNoData, data, lease, secret, tWork>>

\* The patch of the template fails.
TemplatePatchFails ==
    /\ Fault
    /\ tpc = "next" /\ left = {}
    /\ endRound
    /\ UNCHANGED <<apiNoData, data, lease, secret, left, cur, tgt, dWork>>

\* The manager stops and starts again, with caches that are up to date; a
\* deletion that was under way is started afresh.
Crash ==
    /\ Fault
    /\ machine' = [c \in Claims |-> IF machine[c] = "claimDelete"
                                    THEN "deleting" ELSE machine[c]]
    /\ claimCache' = claim /\ dataCache' = data
    /\ lease' = [i \in Indexes |-> [lease[i] EXCEPT !.seen = lease[i].ex]]
    /\ tpc' = "idle" /\ left' = {} /\ idx' = {}
    /\ cur' = NoWork /\ tgt' = NoTarget /\ verdict' = "keep"
    /\ listed' = [c \in Claims |-> NoClaim]
    /\ dpc' = [i \in Indexes |-> "idle"]
    /\ dmem' = [i \in Indexes |-> NoData] /\ dbase' = dmem'
    /\ UNCHANGED <<template, claim, data, secret>>

MachineWorker(c) ==
    \/ AssociateM3Metadata(c) \/ Dissociate(c) \/ DissociateDelete(c)
    \/ MachineGone(c)

Environment ==
    \/ ClaimSync \/ DataSync
    \/ \E i \in Indexes : LeaseSync(i) \/ CollectData(i) \/ CollectLease(i)
                          \/ Allocate(i) \/ Free(i)
    \/ \E c \in Claims : CollectClaim(c) \/ CollectSecret(c)

Next ==
    \/ \E c \in Claims : MachineWorker(c) \/ MachineRequeued(c) \/ DeleteMachine(c)
    \/ TemplateWorker \/ DeleteTemplate
    \/ \E i \in Indexes : DataWorker(i) \/ DataWorkerFails(i)
    \/ Environment
    \/ DataCallFails \/ ClaimPatchFails \/ TemplatePatchFails \/ Crash

Spec == Init /\ [][Next]_vars

\* Controllers retry, informers catch up, owned objects are collected, IPClaims
\* are served, and the host of a deleted machine is released in the end.
Fairness ==
    /\ WF_vars(TemplateWorker)
    /\ \A i \in Indexes :
           /\ WF_vars(DataWorker(i))
           /\ WF_vars(LeaseSync(i)) /\ WF_vars(Allocate(i)) /\ WF_vars(Free(i))
           /\ WF_vars(CollectData(i)) /\ WF_vars(CollectLease(i))
    /\ WF_vars(ClaimSync) /\ WF_vars(DataSync)
    /\ \A c \in Claims :
           /\ WF_vars(AssociateM3Metadata(c))
           /\ WF_vars(Dissociate(c) \/ DissociateDelete(c))
           /\ SF_vars(MachineGone(c))
           /\ WF_vars(CollectClaim(c)) /\ WF_vars(CollectSecret(c))

FairSpec == Spec /\ Fairness

----------------------------------------------------------------------------
(* Properties. *)

\* The status of a live claim refers to a Metal3Data made for that claim
\* (createData, deleteMetal3DataAndClaim).
RenderedDataIsOwn ==
    \A c \in Claims :
        claim[c].ex /\ ~claim[c].del /\ claim[c].rd # None =>
            data[claim[c].rd].ex /\ data[claim[c].rd].claim = c

\* A claim has one Metal3Data, so one index and one set of addresses
\* (getIndexes, createData).
OneDataPerClaim ==
    \A i, j \in Indexes :
        data[i].ex /\ data[j].ex /\ data[i].claim = data[j].claim => i = j

\* An address rendered into the secret of a machine that is not being deleted
\* stays allocated to that machine's Metal3Data (ReleaseLeases, and the test
\* for the claim before it).
AddressHeldWhileRunning ==
    \A c \in Claims :
        machine[c] = "running" /\ secret[c] # None =>
            LET l == lease[secret[c]] IN l.ex /\ l.owner = c /\ l.addr

\* The template's finalizer is removed only when no Metal3Data of it is left,
\* which nobody would delete any more (reconcileDelete, UpdateDatas).
TemplateFinalizerHolds ==
    [][template = "deleting" /\ template' = "gone" =>
            \A i \in Indexes : ~data'[i].ex]_vars

\* A Metal3Data a running machine was given becomes ready: an IPClaim that an
\* earlier Metal3Data of the same name left behind, with its finalizer or with
\* its address, does not block it for ever (addressFromM3Claim,
\* getAddressesFromPool).
RenderedDataGetsReady ==
    \A c \in Claims, i \in Indexes :
        machine[c] = "running" /\ claim[c].rd = i ~>
            \/ machine[c] # "running" \/ template \in {"deleting", "gone"}
            \/ data[i].claim = c /\ data[i].ready

\* A claim is given a Metal3Data (createData).
ClaimGetsRendered ==
    \A c \in Claims :
        machine[c] = "running" /\ claim[c].ex ~>
            \/ machine[c] # "running" \/ template \in {"deleting", "gone"}
            \/ claim[c].rd # None

=============================================================================
