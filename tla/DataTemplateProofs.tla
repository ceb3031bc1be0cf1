------------------------- MODULE DataTemplateProofs -------------------------
(***************************************************************************)
(* Theorems about DataTemplate, for any claims and any number of indexes.  *)
(***************************************************************************)
EXTENDS DataTemplate, FiniteSetTheorems, WellFoundedInduction, TLAPS

----------------------------------------------------------------------------
(* The least of a set, and the first gap in the indexes. *)

LEMMA MinIsLeast ==
    ASSUME NEW S \in SUBSET Nat, S # {}
    PROVE  Min(S) \in S /\ \A y \in S : Min(S) <= y
<1> DEFINE R == {ss \in Nat \X Nat : ss[1] < ss[2]}
<1>1. R = OpToRel(<, Nat)
  BY Zenon DEF OpToRel
<1>2. IsWellFoundedOn(R, Nat)
  BY <1>1, NatLessThanWellFounded, Zenon
<1>3. PICK x \in S : \A y \in S : ~(<<y, x>> \in R)
  <2> HIDE DEF R
  <2> QED
    BY <1>2, WFMin
<1>4. ASSUME NEW y \in S PROVE x <= y
  <2>1. y < x => <<y, x>> \in R
    BY SMT
  <2>2. ~(y < x)
    BY <1>3, <2>1, Zenon
  <2>3. QED
    BY <2>2
<1>5. QED
  BY <1>4 DEF Min

\* No entry has the index a new Metal3Data gets: there are not more indexes in
\* use than entries.
LEMMA FreeIndexIsFree ==
    ASSUME idx \subseteq Claims \X Indexes, IsFiniteSet(idx)
    PROVE  /\ FreeIndex \in Nat /\ \A e \in idx : e[2] # FreeIndex
           /\ \A i \in Nat : i < FreeIndex => \E e \in idx : e[2] = i
<1> DEFINE used == {e[2] : e \in idx}
           n == Cardinality(idx)
           S == {i \in 0..n : i = n \/ i \notin used}
<1>1. n \in Nat
  BY FS_CardinalityType
<1>2. S \subseteq Nat /\ n \in S
  BY <1>1
<1>3. FreeIndex = Min(S)
  BY DEF FreeIndex
<1>4. IsFiniteSet(used) /\ Cardinality(used) <= n
  <2> DEFINE f == [e \in idx |-> e[2]]
  <2>1. f \in Surjection(idx, used)
    BY DEF Surjection
  <2>2. QED
    BY <2>1, FS_Surjection
<1> HIDE DEF S, used, n
<1>5. Min(S) \in S /\ \A y \in S : Min(S) <= y
  BY <1>2, MinIsLeast
<1>6. Min(S) \notin used
  <2> SUFFICES ASSUME Min(S) \in used PROVE FALSE
    OBVIOUS
  <2>1. Min(S) = n
    BY <1>5 DEF S
  <2>2. 0..n \subseteq used
    <3> SUFFICES ASSUME NEW i \in 0..n, i \notin used PROVE FALSE
      OBVIOUS
    <3>1. i \in S
      BY DEF S
    <3>2. QED
      BY <1>1, <1>5, <2>1, <3>1
  <2>3. Cardinality(0..n) = n + 1
    BY <1>1, FS_Interval
  <2>4. Cardinality(0..n) <= Cardinality(used)
    BY <1>4, <2>2, FS_Subset
  <2>5. Cardinality(used) \in Nat
    BY <1>4, FS_CardinalityType
  <2>6. QED
    BY <1>1, <1>4, <2>3, <2>4, <2>5
<1>7. ASSUME NEW i \in Nat, i < Min(S) PROVE i \in used
  <2>1. i \in 0..n
    BY <1>1, <1>5, <1>7 DEF S
  <2>2. Min(S) \in Nat
    BY <1>2, <1>5
  <2>3. i \notin S
    <3>1. ~(Min(S) <= i)
      BY <1>7, <2>2
    <3>2. QED
      BY <1>5, <3>1
  <2>4. QED
    BY <2>1, <2>3 DEF S
<1>8. QED
  BY <1>2, <1>3, <1>5, <1>6, <1>7 DEF used

LEMMA EntriesAreIndexes ==
    ASSUME idx \subseteq Claims \X Indexes, NEW c
    PROVE  /\ EntriesOf(c) \subseteq Indexes
           /\ EntriesOf(c) # {} =>
                 /\ Min(EntriesOf(c)) \in EntriesOf(c)
                 /\ Min(EntriesOf(c)) \in Indexes
           /\ Dropped(c) \subseteq idx
<1>1. EntriesOf(c) \subseteq Indexes
  BY DEF EntriesOf
<1>2. Indexes \subseteq Nat
  BY DataAssumption DEF Indexes
<1>3. EntriesOf(c) # {} => Min(EntriesOf(c)) \in EntriesOf(c)
  BY <1>1, <1>2, MinIsLeast
<1>4. QED
  BY <1>1, <1>3 DEF Dropped, Drop

----------------------------------------------------------------------------
(* Types. *)

LEMMA ObjectTypes ==
    /\ NoClaim \in Claim /\ NoData \in Data /\ NoLease \in Lease
    /\ [NoClaim EXCEPT !.ex = TRUE, !.mfin = TRUE] \in Claim
    /\ \A c \in Claims : [NoData EXCEPT !.ex = TRUE, !.cfin = TRUE, !.claim = c]
                           \in Data
    /\ \A c \in Claims \cup {None} :
          [NoLease EXCEPT !.ex = TRUE, !.fin = TRUE, !.owner = c] \in Lease
  BY DEF NoClaim, Claim, NoData, Data, NoLease, Lease

LEMMA ClaimTypes ==
    ASSUME NEW o \in Claim
    PROVE  /\ SettleClaim(o) \in Claim
           /\ \A b \in BOOLEAN : [o EXCEPT !.mfin = b] \in Claim
           /\ DeletedClaim(o) \in Claim
           /\ \A r \in Indexes \cup {None} : [o EXCEPT !.rd = r] \in Claim
           /\ \A old \in Claim : \A new :
                new.cfin \in BOOLEAN => PatchedClaim(o, old, new) \in Claim
<1>1. \A p \in Claim : SettleClaim(p) \in Claim
  BY ObjectTypes DEF SettleClaim
<1>2. /\ [o EXCEPT !.del = TRUE] \in Claim
      /\ \A b \in BOOLEAN : [o EXCEPT !.mfin = b] \in Claim
      /\ \A r \in Indexes \cup {None} : [o EXCEPT !.rd = r] \in Claim
      /\ \A a, b \in BOOLEAN : [o EXCEPT !.mfin = a, !.cfin = b] \in Claim
  BY DEF Claim
<1>3. \A old \in Claim : old.mfin \in BOOLEAN
  BY DEF Claim
<1>4. DeletedClaim(o) \in Claim
  BY <1>1, <1>2 DEF DeletedClaim
<1>5. ASSUME NEW old \in Claim, NEW new, new.cfin \in BOOLEAN
      PROVE  PatchedClaim(o, old, new) \in Claim
  <2> DEFINE p == [o EXCEPT !.mfin = old.mfin, !.cfin = new.cfin]
  <2>1. p \in Claim
    BY <1>2, <1>3, <1>5
  <2> HIDE DEF p
  <2>2. SettleClaim(p) \in Claim
    BY <1>1, <2>1
  <2>3. QED
    BY <2>2 DEF PatchedClaim, p
<1>6. QED
  BY <1>1, <1>2, <1>4, <1>5

LEMMA DataTypes ==
    ASSUME NEW o \in Data
    PROVE  /\ SettleData(o) \in Data
           /\ \A b \in BOOLEAN : /\ [o EXCEPT !.cfin = b] \in Data
                                 /\ [o EXCEPT !.dfin = b] \in Data
                                 /\ [o EXCEPT !.ready = b] \in Data
           /\ [o EXCEPT !.dfin = TRUE, !.ready = FALSE] \in Data
           /\ secretExists([o EXCEPT !.dfin = TRUE, !.ready = FALSE]) \in Data
           /\ DeletedData(o) \in Data
           /\ \A old, new \in Data : PatchedData(o, old, new) \in Data
<1>1. \A p \in Data : SettleData(p) \in Data
  BY ObjectTypes DEF SettleData
<1>2. /\ [o EXCEPT !.del = TRUE] \in Data
      /\ \A b \in BOOLEAN : /\ [o EXCEPT !.cfin = b] \in Data
                            /\ [o EXCEPT !.dfin = b] \in Data
                            /\ [o EXCEPT !.ready = b] \in Data
      /\ [o EXCEPT !.dfin = TRUE, !.ready = FALSE] \in Data
      /\ \A a, b \in BOOLEAN : [o EXCEPT !.cfin = a, !.dfin = b] \in Data
      /\ \A old \in Data : old.cfin \in BOOLEAN /\ old.dfin \in BOOLEAN
  BY DEF Data
<1>3. DeletedData(o) \in Data
  BY <1>1, <1>2 DEF DeletedData
<1>4. secretExists([o EXCEPT !.dfin = TRUE, !.ready = FALSE]) \in Data
  BY DEF secretExists, Data
<1>5. ASSUME NEW old \in Data, NEW new \in Data
      PROVE  PatchedData(o, old, new) \in Data
  <2> DEFINE p == [o EXCEPT !.cfin = old.cfin, !.dfin = new.dfin]
  <2>1. p \in Data
    BY <1>2, <1>5
  <2> HIDE DEF p
  <2>2. SettleData(p) \in Data
    BY <1>1, <2>1
  <2>3. QED
    BY <2>2 DEF PatchedData, p
<1>6. QED
  BY <1>1, <1>2, <1>3, <1>4, <1>5

LEMMA LeaseTypes ==
    ASSUME NEW o \in Lease
    PROVE  /\ SettleLease(o) \in Lease
           /\ \A b \in BOOLEAN : /\ [o EXCEPT !.fin = b] \in Lease
                                 /\ [o EXCEPT !.seen = b] \in Lease
                                 /\ [o EXCEPT !.addr = b] \in Lease
           /\ [o EXCEPT !.fin = FALSE, !.del = TRUE] \in Lease
           /\ DeletedLease(o) \in Lease
<1>1. NoLease \in Lease
  BY ObjectTypes
<1>2. \A p \in Lease : SettleLease(p) \in Lease
  BY <1>1 DEF SettleLease
<1>3. /\ \A b \in BOOLEAN : /\ [o EXCEPT !.fin = b] \in Lease
                            /\ [o EXCEPT !.seen = b] \in Lease
                            /\ [o EXCEPT !.addr = b] \in Lease
      /\ [o EXCEPT !.fin = FALSE, !.del = TRUE] \in Lease
      /\ [o EXCEPT !.del = TRUE] \in Lease
  BY DEF Lease
<1>4. DeletedLease(o) \in Lease
  BY <1>2, <1>3 DEF DeletedLease
<1>5. QED
  BY <1>2, <1>3, <1>4

\* What a write to a Metal3Data that exists or existed can do to it: it stays
\* that claim's, or is gone.
Remains(p, o) == p.ex => o.ex /\ p.claim = o.claim /\ (o.del => p.del)

LEMMA DataRemains ==
    ASSUME NEW o \in Data
    PROVE  /\ Remains(SettleData([o EXCEPT !.cfin = FALSE]), o)
           /\ Remains(DeletedData(o), o)
           /\ \A old, new \in Data : Remains(PatchedData(o, old, new), o)
           /\ \A b \in BOOLEAN : Remains([o EXCEPT !.ready = b], o)
           /\ Remains(o, o)
<1>1. \A p \in Data : Remains(SettleData(p), p)
  BY DEF Remains, SettleData, NoData
<1>2. /\ [o EXCEPT !.cfin = FALSE] \in Data /\ [o EXCEPT !.del = TRUE] \in Data
      /\ \A a, b \in BOOLEAN : [o EXCEPT !.cfin = a, !.dfin = b] \in Data
      /\ \A p \in Data : p.cfin \in BOOLEAN /\ p.dfin \in BOOLEAN
  BY DEF Data
<1>3. /\ [o EXCEPT !.cfin = FALSE].ex = o.ex
      /\ [o EXCEPT !.cfin = FALSE].del = o.del
      /\ [o EXCEPT !.cfin = FALSE].claim = o.claim
      /\ [o EXCEPT !.del = TRUE].ex = o.ex
      /\ [o EXCEPT !.del = TRUE].del = TRUE
      /\ [o EXCEPT !.del = TRUE].claim = o.claim
      /\ \A a, b : /\ [o EXCEPT !.cfin = a, !.dfin = b].ex = o.ex
                   /\ [o EXCEPT !.cfin = a, !.dfin = b].del = o.del
                   /\ [o EXCEPT !.cfin = a, !.dfin = b].claim = o.claim
      /\ \A b : /\ [o EXCEPT !.ready = b].ex = o.ex
                /\ [o EXCEPT !.ready = b].del = o.del
                /\ [o EXCEPT !.ready = b].claim = o.claim
  BY DEF Data
<1>4. Remains(SettleData([o EXCEPT !.cfin = FALSE]), o)
  BY <1>1, <1>2, <1>3 DEF Remains
<1>5. Remains(DeletedData(o), o)
  BY <1>1, <1>2, <1>3 DEF Remains, DeletedData
<1>6. ASSUME NEW old \in Data, NEW new \in Data
      PROVE  Remains(PatchedData(o, old, new), o)
  <2> DEFINE p == [o EXCEPT !.cfin = old.cfin, !.dfin = new.dfin]
  <2>1. p \in Data /\ p.ex = o.ex /\ p.del = o.del /\ p.claim = o.claim
    BY <1>6 DEF Data
  <2> HIDE DEF p
  <2>2. Remains(SettleData(p), o)
    BY <1>1, <2>1 DEF Remains
  <2>3. PatchedData(o, old, new) \in {o, SettleData(p)}
    BY DEF PatchedData, p
  <2>4. QED
    BY <2>2, <2>3 DEF Remains
<1>7. QED
  BY <1>3, <1>4, <1>5, <1>6 DEF Remains

\* What the workers have at hand is a claim and a Metal3Data there was.
AtHand ==
    /\ \A i \in Indexes : /\ data[i].ex => data[i].claim \in Claims
                          /\ dataCache[i].ex => dataCache[i].claim \in Claims
                          /\ dpc[i] # "idle" => dmem[i].claim \in Claims
    /\ tpc \in {"fin", "del"} => tgt.i \in Indexes
    /\ tpc \in {"fin", "del", "patchMeta", "patchStatus"} => cur.c \in Claims
    /\ IsFiniteSet(idx)

TypeInv == TypeOK /\ AtHand

LEMMA InitTypes == Init => TypeInv
<1> SUFFICES ASSUME Init PROVE TypeInv
  OBVIOUS
<1>1. NoClaim \in Claim /\ NoData \in Data /\ NoLease \in Lease
  BY ObjectTypes
<1>2. 0 \in 0..MaxFaults
  BY DataAssumption
<1>3. TypeOK
  BY <1>1, <1>2 DEF Init, TypeOK, NoWork, NoTarget
<1>4. AtHand
  BY FS_EmptySet DEF Init, AtHand, NoData
<1>5. QED
  BY <1>3, <1>4 DEF TypeInv

\* The machines' and users' steps, the informers and the collector.
LEMMA OutsideTypes ==
    ASSUME TypeInv, Next,
           \/ \E c \in Claims : \/ MachineWorker(c) \/ MachineRequeued(c)
                                \/ DeleteMachine(c)
           \/ DeleteTemplate \/ Environment
    PROVE  TypeInv'
<1> USE DEF TypeInv
<1>1. ASSUME NEW c \in Claims, AssociateM3Metadata(c) PROVE TypeInv'
  BY ZenonT(40), <1>1, ObjectTypes
     DEF AssociateM3Metadata, TypeOK, AtHand, tWork, dWork
<1>2. ASSUME NEW c \in Claims, Dissociate(c) PROVE TypeInv'
  <2>1. SettleClaim([claim[c] EXCEPT !.mfin = FALSE]) \in Claim
    BY ClaimTypes DEF TypeOK
  <2>2. QED
    BY <1>2, <2>1 DEF Dissociate, TypeOK, AtHand, tWork, dWork
<1>3. ASSUME NEW c \in Claims, DissociateDelete(c) \/ CollectClaim(c)
      PROVE TypeInv'
  <2>1. DeletedClaim(claim[c]) \in Claim
    BY ClaimTypes DEF TypeOK
  <2>2. QED
    BY <1>3, <2>1
       DEF DissociateDelete, CollectClaim, TypeOK, AtHand, tWork, dWork
<1>4. ASSUME NEW c \in Claims,
             MachineRequeued(c) \/ MachineGone(c) \/ DeleteMachine(c)
      PROVE TypeInv'
  BY <1>4 DEF MachineRequeued, MachineGone, DeleteMachine, TypeOK, AtHand,
              tWork, dWork
<1>5. CASE DeleteTemplate \/ ClaimSync \/ DataSync
  BY <1>5 DEF DeleteTemplate, ClaimSync, DataSync, TypeOK, AtHand, tWork, dWork
<1>6. ASSUME NEW i \in Indexes, CollectData(i) PROVE TypeInv'
  <2>1. DeletedData(data[i]) \in Data /\ Remains(DeletedData(data[i]), data[i])
    BY DataTypes, DataRemains DEF TypeOK
  <2>2. QED
    BY <1>6, <2>1 DEF CollectData, TypeOK, AtHand, tWork, dWork, Remains
<1>7. ASSUME NEW i \in Indexes,
             LeaseSync(i) \/ CollectLease(i) \/ Allocate(i) \/ Free(i)
      PROVE TypeInv'
  <2>1. lease[i] \in Lease
    BY DEF TypeOK
  <2>2. /\ [lease[i] EXCEPT !.seen = TRUE] \in Lease
        /\ DeletedLease(lease[i]) \in Lease
        /\ [lease[i] EXCEPT !.addr = TRUE] \in Lease
        /\ SettleLease([lease[i] EXCEPT !.addr = FALSE]) \in Lease
    BY <2>1, LeaseTypes
  <2>3. lease' \in [Indexes -> Lease]
    BY <1>7, <2>2 DEF TypeOK, LeaseSync, CollectLease, Allocate, Free
  <2>4. UNCHANGED <<machine, template, claim, claimCache, data, dataCache,
                    secret, tWork, dWork, faults>>
    BY <1>7 DEF LeaseSync, CollectLease, Allocate, Free
  <2>5. QED
    BY <2>3, <2>4 DEF TypeOK, AtHand, tWork, dWork
<1>8. ASSUME NEW c \in Claims, CollectSecret(c) PROVE TypeInv'
  BY <1>8 DEF CollectSecret, TypeOK, AtHand, tWork, dWork
<1>9. QED
  BY <1>1, <1>2, <1>3, <1>4, <1>5, <1>6, <1>7, <1>8
     DEF MachineWorker, Environment

\* An abandoned round has nothing left to do.
LEMMA AbortTypes ==
    ASSUME TypeOK, Abort
    PROVE  left' = {} /\ verdict' \in {"add", "keep"}
  BY DEF Abort, TypeOK

LEMMA TemplateTypes == ASSUME TypeInv, TemplateWorker PROVE TypeInv'
<1> USE DEF TypeInv
<1>1. CASE UpdateDatas
  <2> DEFINE J == {j \in Indexes : dataCache[j].ex}
             f == [i \in J |-> <<dataCache[i].claim, i>>]
  <2>1. idx' = {<<dataCache[i].claim, i>> : i \in J}
    BY <1>1 DEF UpdateDatas
  <2>2. idx' \subseteq Claims \X Indexes
    BY <2>1 DEF AtHand
  <2>3. IsFiniteSet(idx')
    <3>1. f \in Surjection(J, idx')
      BY <2>1 DEF Surjection
    <3>2. IsFiniteSet(Indexes) /\ J \subseteq Indexes
      BY DataAssumption, FS_Interval DEF Indexes
    <3>3. IsFiniteSet(J)
      BY <3>2, FS_Subset
    <3>4. QED
      BY <3>1, <3>3, FS_Surjection
  <2>4. QED
    BY <1>1, <2>2, <2>3 DEF UpdateDatas, TypeOK, AtHand, dWork
<1>2. ASSUME NEW c \in Claims, createData(c) PROVE TypeInv'
  <2>1. CASE EntriesOf(c) # {}
    <3>1. Min(EntriesOf(c)) \in Indexes
      BY <2>1, EntriesAreIndexes DEF TypeOK
    <3>2. cur' = [c |-> c, cfin |-> TRUE, rd |-> Min(EntriesOf(c))]
          /\ left' = left \ {c} /\ tpc' = "patchMeta"
          /\ UNCHANGED <<machine, template, claim, claimCache, data, dataCache,
                         lease, secret, listed, idx, tgt, verdict, dWork, faults>>
      BY <1>2, <2>1 DEF createData
    <3>3. QED
      BY <3>1, <3>2 DEF TypeOK, AtHand, dWork
  <2>2. CASE EntriesOf(c) = {} /\ data[FreeIndex].ex
    <3>1. left' = {} /\ verdict' \in {"add", "keep"}
      BY <1>2, <2>2, AbortTypes DEF createData
    <3>2. cur' = [c |-> c, cfin |-> TRUE, rd |-> None] /\ tpc' = "patchMeta"
          /\ UNCHANGED <<machine, template, claim, claimCache, data, dataCache,
                         lease, secret, listed, idx, tgt, dWork, faults>>
      BY <1>2, <2>2 DEF createData
    <3>3. QED
      BY <3>1, <3>2 DEF TypeOK, AtHand, dWork
  <2>3. CASE EntriesOf(c) = {} /\ ~data[FreeIndex].ex
    <3> DEFINE d == [NoData EXCEPT !.ex = TRUE, !.cfin = TRUE, !.claim = c]
    <3>1. d \in Data /\ d.claim = c
      BY ObjectTypes DEF NoData
    <3>2. FreeIndex \in Indexes /\ data' = [data EXCEPT ![FreeIndex] = d]
      BY <1>2, <2>3 DEF createData
    <3>3. idx' = idx \cup {<<c, FreeIndex>>}
      BY <1>2, <2>3 DEF createData, newEntry
    <3>4. IsFiniteSet(idx')
      BY <3>3, FS_AddElement DEF AtHand
    <3> HIDE DEF d
    <3>5. cur' = [c |-> c, cfin |-> TRUE, rd |-> FreeIndex] /\ left' = left \ {c}
          /\ tpc' = "patchMeta" /\ verdict' = verdict
          /\ UNCHANGED <<machine, template, claim, claimCache, dataCache, lease,
                         secret, listed, tgt, dWork, faults>>
      BY <1>2, <2>3 DEF createData
    <3>6. QED
      BY <3>1, <3>2, <3>3, <3>4, <3>5 DEF TypeOK, AtHand, dWork
  <2>4. QED
    BY <2>1, <2>2, <2>3
<1>3. ASSUME NEW c \in Claims, OutOfIndexes(c) PROVE TypeInv'
  BY <1>3 DEF OutOfIndexes, TypeOK, AtHand, dWork
<1>4. ASSUME NEW c \in Claims, deleteData(c) PROVE TypeInv'
  <2>1. Dropped(c) \subseteq idx /\ IsFiniteSet(Dropped(c))
    BY EntriesAreIndexes, FS_Subset DEF TypeOK, AtHand
  <2>2. Target(c) \subseteq Indexes
    BY EntriesAreIndexes DEF Target, TypeOK
  <2>3. QED
    BY <1>4, <2>1, <2>2 DEF deleteData, TypeOK, AtHand, dWork
<1>5. CASE deleteDataFinalizer
  <2> DEFINE d == data[tgt.i]
             n == SettleData([d EXCEPT !.cfin = FALSE])
  <2>1. tgt.i \in Indexes /\ cur.c \in Claims
    BY <1>5 DEF deleteDataFinalizer, AtHand
  <2>2. n \in Data /\ Remains(n, d)
    BY <2>1, DataTypes, DataRemains DEF TypeOK
  <2> HIDE DEF n
  <2>3. CASE d.ex /\ d # tgt.copy
    <3>1. left' = {} /\ verdict' \in {"add", "keep"}
      BY <1>5, <2>3, AbortTypes DEF deleteDataFinalizer
    <3>2. listed[cur.c].cfin \in BOOLEAN /\ listed[cur.c].rd \in Indexes \cup {None}
      BY <2>1 DEF TypeOK, Claim
    <3>3. QED
      BY <1>5, <2>1, <2>3, <3>1, <3>2 DEF deleteDataFinalizer, TypeOK, AtHand,
         dWork
  <2>4. CASE ~(d.ex /\ d # tgt.copy)
    <3>1. data' = [data EXCEPT ![tgt.i] = n] /\ tpc' = "del"
          /\ UNCHANGED <<machine, template, claim, claimCache, dataCache, lease,
                   secret, listed, idx, tgt, dWork, faults, cur, left, verdict>>
      BY <1>5, <2>4 DEF deleteDataFinalizer, n
    <3>2. QED
      BY <2>1, <2>2, <3>1 DEF TypeOK, AtHand, dWork, Remains
  <2>5. QED
    BY <2>3, <2>4
<1>6. CASE deleteDataObject
  <2>1. tgt.i \in Indexes /\ cur.c \in Claims
    BY <1>6 DEF deleteDataObject, AtHand
  <2>2. /\ DeletedData(data[tgt.i]) \in Data
        /\ Remains(DeletedData(data[tgt.i]), data[tgt.i])
    BY <2>1, DataTypes, DataRemains DEF TypeOK
  <2>3. Dropped(cur.c) \subseteq idx /\ IsFiniteSet(Dropped(cur.c))
    BY EntriesAreIndexes, FS_Subset DEF TypeOK, AtHand
  <2>4. NoTarget \in [i : Indexes \cup {None}, copy : Data]
    BY ObjectTypes DEF NoTarget
  <2>5. QED
    BY <1>6, <2>1, <2>2, <2>3, <2>4
       DEF deleteDataObject, TypeOK, AtHand, dWork, Remains
<1>7. CASE patchClaimMeta
  <2>1. cur.c \in Claims
    BY <1>7 DEF patchClaimMeta, AtHand
  <2>2. PatchedClaim(claim[cur.c], listed[cur.c], cur) \in Claim
    <3>1. /\ claim[cur.c] \in Claim /\ listed[cur.c] \in Claim
          /\ cur.cfin \in BOOLEAN
      BY <2>1 DEF TypeOK
    <3>2. \A old \in Claim : \A new : new.cfin \in BOOLEAN =>
            PatchedClaim(claim[cur.c], old, new) \in Claim
      BY <3>1, ClaimTypes
    <3>3. QED
      BY <3>1, <3>2
  <2>3. QED
    BY <1>7, <2>1, <2>2 DEF patchClaimMeta, TypeOK, AtHand, dWork
<1>8. CASE patchClaimStatus
  <2>1. cur.c \in Claims
    BY <1>8 DEF patchClaimStatus, AtHand
  <2>2. [claim[cur.c] EXCEPT !.rd = cur.rd] \in Claim
    BY <2>1, ClaimTypes DEF TypeOK
  <2>3. QED
    BY <1>8, <2>1, <2>2 DEF patchClaimStatus, TypeOK, AtHand, dWork, NoWork
<1>9. CASE patchTemplate
  <2>1. template' \in {"new", "normal", "deleting", "gone"}
    BY <1>9 DEF patchTemplate, TypeOK
  <2>2. QED
    BY <1>9, <2>1, ObjectTypes, FS_EmptySet
       DEF patchTemplate, endRound, TypeOK, AtHand, dWork
<1>10. QED
  BY <1>1, <1>2, <1>3, <1>4, <1>5, <1>6, <1>7, <1>8, <1>9 DEF TemplateWorker

LEMMA WorkerTypes ==
    ASSUME TypeInv, NEW i \in Indexes, DataWorker(i) PROVE TypeInv'
<1> USE DEF TypeInv
<1> DEFINE Pcs == {"idle", "lease", "secret", "release", "patchMeta",
                   "patchStatus"}
<1>0. /\ data[i] \in Data /\ dataCache[i] \in Data /\ dmem[i] \in Data
      /\ dbase[i] \in Data /\ lease[i] \in Lease /\ NoData \in Data
  BY ObjectTypes DEF TypeOK
<1>1. CASE DataRead(i)
  <2> DEFINE d == dataCache[i]
             m == [d EXCEPT !.dfin = TRUE, !.ready = FALSE]
  <2>1. /\ m \in Data /\ secretExists(m) \in Data
        /\ m.claim = d.claim /\ secretExists(m).claim = d.claim
    <3>1. m \in Data /\ secretExists(m) \in Data
      BY <1>0, DataTypes
    <3>2. m.claim = d.claim /\ secretExists(m).claim = d.claim
      BY <1>0 DEF Data, secretExists
    <3>3. QED
      BY <3>1, <3>2
  <2>2. d.claim \in Claims
    BY <1>1 DEF DataRead, AtHand
  <2>3. \E x \in {d, m, secretExists(m)}, p \in Pcs :
           dmem' = [dmem EXCEPT ![i] = x] /\ dpc' = [dpc EXCEPT ![i] = p]
    BY <1>1 DEF DataRead
  <2>4. PICK x \in {d, m, secretExists(m)}, p \in Pcs :
           dmem' = [dmem EXCEPT ![i] = x] /\ dpc' = [dpc EXCEPT ![i] = p]
    BY <2>3
  <2>5. dbase' = [dbase EXCEPT ![i] = d]
        /\ UNCHANGED <<apiNoData, data, lease, secret, tWork, faults>>
    BY <1>1 DEF DataRead
  <2>6. x \in Data /\ x.claim \in Claims
    BY <1>0, <2>1, <2>2
  <2> HIDE DEF m, d
  <2>7. QED
    BY <1>0, <2>4, <2>5, <2>6 DEF TypeOK, AtHand, apiNoData, tWork, d
<1>2. CASE ensureIPClaim(i)
  <2>1. /\ [NoLease EXCEPT !.ex = TRUE, !.fin = TRUE, !.owner = dmem[i].claim]
              \in Lease
        /\ SettleLease([lease[i] EXCEPT !.fin = FALSE]) \in Lease
    BY <1>0, ObjectTypes, LeaseTypes DEF Data
  <2>2. lease' \in [Indexes -> Lease]
    BY <1>2, <2>1 DEF ensureIPClaim, TypeOK
  <2>3. dpc' \in [Indexes -> Pcs] /\ \A j \in Indexes : dpc'[j] # "idle" =>
                                        dpc[j] # "idle"
    BY <1>2 DEF ensureIPClaim, TypeOK
  <2>4. UNCHANGED <<apiNoData, data, secret, tWork, dmem, dbase, faults>>
    BY <1>2 DEF ensureIPClaim
  <2>5. QED
    BY <2>2, <2>3, <2>4 DEF TypeOK, AtHand, apiNoData, tWork
<1>3. CASE createSecrets(i)
  <2>1. /\ [dmem[i] EXCEPT !.ready = TRUE] \in Data
        /\ [dmem[i] EXCEPT !.ready = TRUE].claim = dmem[i].claim
    BY <1>0 DEF Data
  <2>2. dmem' = [dmem EXCEPT ![i] = [dmem[i] EXCEPT !.ready = TRUE]]
    BY <1>3 DEF createSecrets
  <2>3. QED
    BY <1>3, <2>1, <2>2 DEF createSecrets, TypeOK, AtHand, apiNoData, tWork
<1>4. CASE ReleaseLeases(i)
  <2>1. /\ [dmem[i] EXCEPT !.dfin = FALSE] \in Data
        /\ [dmem[i] EXCEPT !.dfin = FALSE].claim = dmem[i].claim
    BY <1>0 DEF Data
  <2>2. dmem' = [dmem EXCEPT ![i] = [dmem[i] EXCEPT !.dfin = FALSE]]
    BY <1>4 DEF ReleaseLeases
  <2>3. SettleLease([lease[i] EXCEPT !.fin = FALSE, !.del = TRUE]) \in Lease
    BY <1>0, LeaseTypes
  <2>4. lease' \in [Indexes -> Lease]
    BY <1>4, <2>3 DEF ReleaseLeases, TypeOK
  <2>5. QED
    BY <1>4, <2>1, <2>2, <2>4
       DEF ReleaseLeases, TypeOK, AtHand, apiNoData, tWork
<1>5. CASE patchDataMeta(i)
  <2>1. /\ PatchedData(data[i], dbase[i], dmem[i]) \in Data
        /\ Remains(PatchedData(data[i], dbase[i], dmem[i]), data[i])
    BY <1>0, DataTypes, DataRemains
  <2>2. QED
    BY <1>0, <1>5, <2>1 DEF patchDataMeta, DataIdle, TypeOK, AtHand, apiNoData,
       tWork, Remains
<1>6. CASE patchDataStatus(i)
  <2>1. /\ [data[i] EXCEPT !.ready = dmem[i].ready] \in Data
        /\ Remains([data[i] EXCEPT !.ready = dmem[i].ready], data[i])
    <3>1. dmem[i].ready \in BOOLEAN
      BY <1>0 DEF Data
    <3>2. QED
      BY <1>0, <3>1, DataTypes, DataRemains
  <2>2. \/ data' = [data EXCEPT ![i] = [data[i] EXCEPT !.ready = dmem[i].ready]]
        \/ data' = data
    BY <1>6 DEF patchDataStatus
  <2>3. QED
    BY <1>0, <1>6, <2>1, <2>2 DEF patchDataStatus, DataIdle, TypeOK, AtHand,
       apiNoData, tWork, Remains
<1>7. QED
  BY <1>1, <1>2, <1>3, <1>4, <1>5, <1>6 DEF DataWorker

LEMMA FaultTypes ==
    ASSUME TypeInv,
           \/ \E i \in Indexes : DataWorkerFails(i)
           \/ DataCallFails \/ ClaimPatchFails \/ TemplatePatchFails \/ Crash
    PROVE  TypeInv'
<1> USE DEF TypeInv
<1>0. Fault => faults' \in 0..MaxFaults
  BY DataAssumption DEF Fault, TypeOK
<1>1. ASSUME NEW i \in Indexes, DataWorkerFails(i) PROVE TypeInv'
  <2>1. \/ /\ dpc[i] # "idle"
           /\ \E p \in {"patchMeta", "patchStatus"} : dpc' = [dpc EXCEPT ![i] = p]
           /\ UNCHANGED <<dmem, dbase>>
        \/ DataIdle(i)
    BY <1>1 DEF DataWorkerFails
  <2>2. dpc' \in [Indexes -> {"idle", "lease", "secret", "release", "patchMeta",
                              "patchStatus"}]
        /\ dmem' \in [Indexes -> Data] /\ dbase' \in [Indexes -> Data]
    <3>1. ASSUME NEW p \in {"patchMeta", "patchStatus"},
                 dpc' = [dpc EXCEPT ![i] = p] /\ UNCHANGED <<dmem, dbase>>
          PROVE  <2>2!:
      BY <3>1 DEF TypeOK
    <3>2. CASE DataIdle(i)
      BY <3>2, ObjectTypes DEF DataIdle, TypeOK
    <3>3. QED
      BY <2>1, <3>1, <3>2
  <2>3. \A j \in Indexes : dpc'[j] # "idle" => dmem'[j].claim \in Claims
    <3>1. CASE UNCHANGED <<dmem, dbase>>
      BY <2>1, <3>1 DEF DataIdle, TypeOK, AtHand
    <3>2. CASE DataIdle(i)
      BY <3>2 DEF DataIdle, TypeOK, AtHand
    <3>3. QED
      BY <2>1, <3>1, <3>2
  <2>4. Fault /\ UNCHANGED <<apiNoData, data, lease, secret, tWork>>
    BY <1>1 DEF DataWorkerFails
  <2>5. QED
    BY <1>0, <2>2, <2>3, <2>4 DEF TypeOK, AtHand, apiNoData, tWork
<1>2. CASE DataCallFails
  <2>1. cur' \in [c : Claims, cfin : BOOLEAN, rd : Indexes \cup {None}]
    <3>1. \A c \in Claims : /\ listed[c].cfin \in BOOLEAN
                            /\ listed[c].rd \in Indexes \cup {None}
      BY DEF TypeOK, Claim
    <3>2. CASE tpc = "next"
      <4>1. PICK c \in left : cur' = [c |-> c, cfin |-> TRUE, rd |-> None]
        BY <1>2, <3>2 DEF DataCallFails
      <4>2. c \in Claims
        BY DEF TypeOK
      <4>3. QED
        BY <4>1, <4>2
    <3>3. CASE tpc \in {"fin", "del"}
      BY <1>2, <3>1, <3>3 DEF DataCallFails, AtHand
    <3>4. QED
      BY <1>2, <3>2, <3>3 DEF DataCallFails
  <2>2. left' = {} /\ verdict' \in {"add", "keep"}
    BY <1>2, AbortTypes DEF DataCallFails
  <2>3. tgt' \in [i : Indexes \cup {None}, copy : Data]
    BY <1>2, ObjectTypes DEF DataCallFails, NoTarget
  <2>4. /\ Fault /\ tpc' = "patchMeta"
        /\ UNCHANGED <<apiNoData, data, lease, secret, listed, idx, dWork>>
    BY <1>2 DEF DataCallFails
  <2>5. QED
    BY <1>0, <2>1, <2>2, <2>3, <2>4 DEF TypeOK, AtHand, apiNoData, dWork
<1>3. CASE ClaimPatchFails
  <2>1. /\ Fault
        /\ UNCHANGED <<apiNoData, data, lease, secret, listed, left, idx, tgt,
                       verdict, dWork>>
    BY <1>3 DEF ClaimPatchFails
  <2>2. CASE tpc = "patchMeta" /\ tpc' = "patchStatus" /\ cur' = cur
    BY <1>0, <2>1, <2>2 DEF TypeOK, AtHand, apiNoData, dWork
  <2>3. CASE tpc' = "next" /\ cur' = NoWork
    BY <1>0, <2>1, <2>3 DEF TypeOK, AtHand, apiNoData, dWork, NoWork
  <2>4. QED
    BY <1>3, <2>2, <2>3 DEF ClaimPatchFails
<1>4. CASE TemplatePatchFails
  BY <1>0, <1>4, ObjectTypes, FS_EmptySet
     DEF TemplatePatchFails, endRound, TypeOK, AtHand, apiNoData, dWork
<1>5. CASE Crash
  <2>1. \A i \in Indexes : [lease[i] EXCEPT !.seen = lease[i].ex] \in Lease
    <3>1. \A i \in Indexes : lease[i] \in Lease
      BY DEF TypeOK
    <3>2. QED
      BY <3>1 DEF Lease
  <2>2. lease' \in [Indexes -> Lease]
    BY <1>5, <2>1 DEF Crash
  <2>3. tgt' \in [i : Indexes \cup {None}, copy : Data]
    BY <1>5, ObjectTypes DEF Crash, NoTarget
  <2>4. dmem' \in [Indexes -> Data] /\ dbase' = dmem'
    BY <1>5, ObjectTypes DEF Crash
  <2>5. machine' \in [Claims -> {"running", "deleting", "claimDelete",
                                 "dissociated", "gone"}]
    BY <1>5 DEF Crash, TypeOK
  <2>6. /\ claimCache' = claim /\ dataCache' = data /\ tpc' = "idle"
        /\ left' = {} /\ idx' = {} /\ cur' = NoWork /\ verdict' = "keep"
        /\ listed' = [c \in Claims |-> NoClaim]
        /\ dpc' = [i \in Indexes |-> "idle"] /\ Fault
        /\ UNCHANGED <<template, claim, data, secret>>
    BY <1>5 DEF Crash
  <2>7. QED
    BY <1>0, <2>2, <2>3, <2>4, <2>5, <2>6, ObjectTypes, FS_EmptySet
       DEF TypeOK, AtHand, NoWork
<1>6. QED
  BY <1>1, <1>2, <1>3, <1>4, <1>5

LEMMA StepTypes == TypeInv /\ [Next]_vars => TypeInv'
<1> SUFFICES ASSUME TypeInv, [Next]_vars PROVE TypeInv'
  OBVIOUS
<1>1. CASE UNCHANGED vars
  BY <1>1 DEF TypeInv, TypeOK, AtHand, vars, tWork, dWork
<1>2. CASE Next
  BY <1>2, OutsideTypes, TemplateTypes, WorkerTypes, FaultTypes DEF Next
<1>3. QED
  BY <1>1, <1>2

\* Objects and workers keep their types: in particular what a worker has at
\* hand is a claim and a Metal3Data (createData, deleteMetal3DataAndClaim).
THEOREM DataTemplateTypes == Spec => []TypeOK
<1>1. Spec => []TypeInv
  BY InitTypes, StepTypes, PTL DEF Spec
<1>2. QED
  BY <1>1, PTL DEF TypeInv

----------------------------------------------------------------------------
(* What the theorems below assume of a behaviour, beside Spec.              *)

\* A round of the template worker starts from lists that are up to date.
FreshRound == UpdateDatas => claimCache = claim /\ dataCache = data

\* A Metal3Data worker reads its object up to date.  The claims, and the other
\* Metal3Data, may be out of date.
FreshRead == \A i \in Indexes : DataRead(i) => dataCache[i] = data[i]

\* The Metal3Data of a deleted claim was deleted, and the manager stops, or the
\* patch of the claim's status fails, before the claim has forgotten it.
Torn ==
    /\ tpc \in {"patchMeta", "patchStatus"}
    /\ listed[cur.c].del /\ cur.rd # listed[cur.c].rd
    /\ Crash \/ (tpc = "patchStatus" /\ ClaimPatchFails)

----------------------------------------------------------------------------
(* One Metal3Data per claim: rounds that start from lists that are up to    *)
(* date, with any crashes and failed calls.                                 *)

Entries ==
    \* One claim per index, and the claim its Metal3Data is made for.
    /\ \A e, f \in idx : e[2] = f[2] => e = f
    /\ \A e \in idx : data[e[2]].ex => data[e[2]].claim = e[1]
    \* A round knows every Metal3Data, but those it deletes.
    /\ tpc # "idle" => \A i \in Indexes : data[i].ex =>
          <<data[i].claim, i>> \in idx \/ listed[data[i].claim].del
    /\ tpc \in {"fin", "del"} => listed[cur.c].del

Verdict ==
    /\ \A c \in left : listed[c].ex
    /\ verdict = "remove" =>
          /\ tpc # "idle"
          /\ \A i \in Indexes : ~data[i].ex
          /\ \A c \in Claims : listed[c].ex => listed[c].del

RoundInv == TypeInv /\ Entries /\ OneDataPerClaim /\ Verdict

\* Steps that are not the template worker's leave its work alone, and make no
\* Metal3Data.
Aside == UNCHANGED tWork /\ \A i \in Indexes : Remains(data'[i], data[i])

LEMMA StepsAside ==
    ASSUME TypeInv, [Next]_vars
    PROVE  \/ Aside \/ TemplateWorker
           \/ DataCallFails \/ ClaimPatchFails \/ TemplatePatchFails \/ Crash
<1>0. \A i \in Indexes : data[i] \in Data /\ dmem[i] \in Data /\ dbase[i] \in Data
  BY DEF TypeInv, TypeOK
<1>1. UNCHANGED <<data, tWork>> => Aside
  BY DEF Aside, Remains
<1>2. ASSUME NEW c \in Claims,
             MachineWorker(c) \/ MachineRequeued(c) \/ DeleteMachine(c)
      PROVE  Aside
  BY <1>1, <1>2 DEF MachineWorker, AssociateM3Metadata, Dissociate,
     DissociateDelete, MachineGone, MachineRequeued, DeleteMachine
<1>3. ASSUME NEW i \in Indexes, DataRead(i) \/ ensureIPClaim(i)
                 \/ createSecrets(i) \/ ReleaseLeases(i) \/ DataWorkerFails(i)
      PROVE  Aside
  BY <1>1, <1>3 DEF DataRead, ensureIPClaim, createSecrets, ReleaseLeases,
     DataWorkerFails
<1>4. ASSUME NEW i \in Indexes, patchDataMeta(i) PROVE Aside
  <2>1. Remains(PatchedData(data[i], dbase[i], dmem[i]), data[i])
    BY <1>0, DataRemains
  <2>2. QED
    BY <1>0, <1>4, <2>1 DEF patchDataMeta, Aside, Remains, TypeInv, TypeOK
<1>5. ASSUME NEW i \in Indexes, patchDataStatus(i) PROVE Aside
  <2>1. \/ data' = [data EXCEPT ![i] = [data[i] EXCEPT !.ready = dmem[i].ready]]
        \/ data' = data
    BY <1>5 DEF patchDataStatus
  <2>2. Remains([data[i] EXCEPT !.ready = dmem[i].ready], data[i])
    <3>1. dmem[i].ready \in BOOLEAN
      BY <1>0 DEF Data
    <3>2. QED
      BY <1>0, <3>1, DataRemains
  <2>3. QED
    BY <1>5, <2>1, <2>2 DEF patchDataStatus, Aside, Remains, TypeInv, TypeOK
<1>6. ASSUME NEW i \in Indexes, CollectData(i) PROVE Aside
  <2>1. Remains(DeletedData(data[i]), data[i])
    BY <1>0, DataRemains
  <2>2. QED
    BY <1>6, <2>1 DEF CollectData, Aside, Remains, TypeInv, TypeOK
<1>7. Environment => Aside
  BY <1>1, <1>6 DEF Environment, ClaimSync, DataSync, LeaseSync, CollectLease,
     Allocate, Free, CollectClaim, CollectSecret
<1>8. DeleteTemplate \/ UNCHANGED vars => Aside
  BY <1>1 DEF DeleteTemplate, vars
<1>9. QED
  BY <1>2, <1>3, <1>4, <1>5, <1>7, <1>8 DEF Next, DataWorker

LEMMA RoundInit == Init => RoundInv
<1> SUFFICES ASSUME Init PROVE RoundInv
  OBVIOUS
<1>1. Entries /\ OneDataPerClaim /\ Verdict
  BY DEF Init, Entries, OneDataPerClaim, Verdict, NoData
<1>2. QED
  BY <1>1, InitTypes DEF RoundInv

LEMMA RoundAside == ASSUME RoundInv, TypeInv', Aside PROVE RoundInv'
<1>1. /\ \A i \in Indexes : data'[i].ex =>
            data[i].ex /\ data'[i].claim = data[i].claim
      /\ tpc' = tpc /\ listed' = listed /\ left' = left /\ cur' = cur
      /\ idx' = idx /\ tgt' = tgt /\ verdict' = verdict
  BY DEF Aside, Remains, tWork
<1>2. idx \subseteq Claims \X Indexes
  BY DEF RoundInv, TypeInv, TypeOK
<1>3. Entries'
  BY <1>1, <1>2 DEF RoundInv, Entries
<1>4. OneDataPerClaim' /\ Verdict'
  BY <1>1 DEF RoundInv, OneDataPerClaim, Verdict
<1>5. QED
  BY <1>3, <1>4 DEF RoundInv

\* The entries a deletion drops are the claim's.
LEMMA DroppedAreOwn ==
    ASSUME idx \subseteq Claims \X Indexes,
           \A e, f \in idx : e[2] = f[2] => e = f,
           NEW c
    PROVE  /\ Dropped(c) \subseteq idx
           /\ \A e \in idx : e[1] # c => e \in Dropped(c)
<1>1. CASE EntriesOf(c) = {}
  BY <1>1 DEF Dropped
<1>2. CASE EntriesOf(c) # {}
  <2>1. PICK f \in idx : f[1] = c /\ f[2] = Min(EntriesOf(c))
    <3>1. Min(EntriesOf(c)) \in EntriesOf(c)
      BY <1>2, EntriesAreIndexes
    <3>2. \A i \in EntriesOf(c) : \E e \in idx : e[1] = c /\ e[2] = i
      BY DEF EntriesOf
    <3>3. QED
      BY <3>1, <3>2
  <2>2. QED
    BY <1>2, <2>1 DEF Dropped, Drop
<1>3. QED
  BY <1>1, <1>2

LEMMA RoundWorker ==
    ASSUME RoundInv, TypeInv', TemplateWorker, FreshRound PROVE RoundInv'
<1>0. /\ TypeOK /\ idx \subseteq Claims \X Indexes /\ left \subseteq Claims
      /\ IsFiniteSet(idx)
      /\ \A i \in Indexes : data[i].ex => data[i].claim \in Claims
      /\ Entries /\ OneDataPerClaim /\ Verdict
  BY DEF RoundInv, TypeInv, TypeOK, AtHand
<1>1. CASE UpdateDatas
  <2>1. claimCache = claim /\ dataCache = data
    BY <1>1 DEF FreshRound
  <2>2. idx' = {<<data[i].claim, i>> : i \in {j \in Indexes : data[j].ex}}
    BY <1>1, <2>1 DEF UpdateDatas
  <2>3. /\ listed' = claim /\ tpc' = "next" /\ data' = data
        /\ \A c \in left' : claim[c].ex
        /\ verdict' = "remove" => unused
    BY <1>1, <2>1 DEF UpdateDatas, pending
  <2>4. Entries'
    BY <1>0, <2>2, <2>3 DEF Entries
  <2>5. Verdict'
    BY <2>1, <2>3 DEF Verdict, unused
  <2>6. QED
    BY <1>0, <2>3, <2>4, <2>5 DEF RoundInv, OneDataPerClaim
<1>2. ASSUME NEW c \in Claims, createData(c) PROVE RoundInv'
  <2>1. /\ tpc = "next" /\ c \in left /\ ~listed[c].del
        /\ listed' = listed /\ tpc' = "patchMeta" /\ left' \subseteq left
        /\ verdict # "remove"
    BY <1>0, <1>2 DEF createData, Abort, Verdict
  <2>2. CASE UNCHANGED <<data, idx>>
    <3>1. verdict' # "remove"
      BY <1>2, <2>1 DEF createData, Abort
    <3>2. QED
      BY <1>0, <2>1, <2>2, <3>1 DEF RoundInv, Entries, Verdict, OneDataPerClaim
  <2>3. CASE /\ EntriesOf(c) = {} /\ FreeIndex \in Indexes
             /\ data' = [data EXCEPT ![FreeIndex] =
                   [NoData EXCEPT !.ex = TRUE, !.cfin = TRUE, !.claim = c]]
             /\ idx' = idx \cup {newEntry(c)} /\ verdict' = verdict
    <3>1. \A e \in idx : e[2] # FreeIndex
      BY <1>0, FreeIndexIsFree
    <3>2. \A i \in Indexes : data[i].ex => data[i].claim # c
      <4> SUFFICES ASSUME NEW i \in Indexes, data[i].ex, data[i].claim = c
                   PROVE FALSE
        OBVIOUS
      <4>1. <<c, i>> \in idx
        BY <1>0, <2>1 DEF Entries
      <4>2. i \in EntriesOf(c)
        BY <4>1 DEF EntriesOf
      <4>3. QED
        BY <2>3, <4>2
    <3>3. /\ data'[FreeIndex].ex /\ data'[FreeIndex].claim = c
          /\ \A i \in Indexes \ {FreeIndex} : data'[i] = data[i]
      BY <1>0, <2>3 DEF TypeOK, NoData
    <3>4. idx' = idx \cup {<<c, FreeIndex>>}
      BY <2>3 DEF newEntry
    <3>5. Entries'
      <4>1. \A e, f \in idx' : e[2] = f[2] => e = f
        BY <1>0, <3>1, <3>4 DEF Entries
      <4>2. \A e \in idx' : data'[e[2]].ex => data'[e[2]].claim = e[1]
        <5> SUFFICES ASSUME NEW e \in idx', data'[e[2]].ex
                     PROVE  data'[e[2]].claim = e[1]
          OBVIOUS
        <5>1. CASE e \in idx
          BY <1>0, <3>1, <3>3, <5>1 DEF Entries
        <5>2. CASE e = <<c, FreeIndex>>
          BY <3>3, <5>2
        <5>3. QED
          BY <3>4, <5>1, <5>2
      <4>3. \A i \in Indexes : data'[i].ex =>
              <<data'[i].claim, i>> \in idx' \/ listed'[data'[i].claim].del
        <5> SUFFICES ASSUME NEW i \in Indexes, data'[i].ex
                     PROVE  \/ <<data'[i].claim, i>> \in idx'
                            \/ listed'[data'[i].claim].del
          OBVIOUS
        <5>1. CASE i = FreeIndex
          BY <3>3, <3>4, <5>1
        <5>2. CASE i # FreeIndex
          BY <1>0, <2>1, <3>3, <3>4, <5>2 DEF Entries
        <5>3. QED
          BY <5>1, <5>2
      <4>4. QED
        BY <2>1, <4>1, <4>2, <4>3 DEF Entries
    <3>6. OneDataPerClaim'
      <4> SUFFICES ASSUME NEW i \in Indexes, NEW j \in Indexes, data'[i].ex,
                          data'[j].ex, data'[i].claim = data'[j].claim
                   PROVE  i = j
        BY DEF OneDataPerClaim
      <4>1. CASE i = FreeIndex \/ j = FreeIndex
        BY <3>2, <3>3, <4>1
      <4>2. CASE i # FreeIndex /\ j # FreeIndex
        BY <1>0, <3>3, <4>2 DEF OneDataPerClaim
      <4>3. QED
        BY <4>1, <4>2
    <3>7. Verdict'
      BY <1>0, <2>1, <2>3 DEF Verdict
    <3>8. QED
      BY <3>5, <3>6, <3>7 DEF RoundInv
  <2>4. QED
    BY <1>2, <2>2, <2>3 DEF createData
<1>3. ASSUME NEW c \in Claims, OutOfIndexes(c) PROVE RoundInv'
  BY <1>0, <1>3 DEF OutOfIndexes, RoundInv, Entries, Verdict, OneDataPerClaim
<1>4. ASSUME NEW c \in Claims, deleteData(c) PROVE RoundInv'
  <2>1. /\ tpc = "next" /\ c \in left /\ listed[c].del
        /\ listed' = listed /\ data' = data /\ left' \subseteq left
        /\ verdict' = verdict /\ cur'.c = c /\ tpc' # "idle"
        /\ idx' = idx \/ idx' = Dropped(c)
    BY <1>4 DEF deleteData
  <2>2. idx' \subseteq idx /\ \A e \in idx : e[1] # c => e \in idx'
    BY <1>0, <2>1, DroppedAreOwn DEF Entries
  <2>3. Entries'
    <3>1. \A i \in Indexes : data[i].ex =>
             <<data[i].claim, i>> \in idx' \/ listed[data[i].claim].del
      BY <1>0, <2>1, <2>2 DEF Entries
    <3>2. QED
      BY <1>0, <2>1, <2>2, <3>1 DEF Entries
  <2>4. QED
    BY <1>0, <2>1, <2>3 DEF RoundInv, Verdict, OneDataPerClaim
<1>5. CASE deleteDataFinalizer \/ deleteDataObject
  <2>1. tgt.i \in Indexes /\ cur.c \in Claims /\ tpc # "idle"
    BY <1>5 DEF deleteDataFinalizer, deleteDataObject, RoundInv, TypeInv, AtHand
  <2>2. \A i \in Indexes : Remains(data'[i], data[i])
    <3> DEFINE n == SettleData([data[tgt.i] EXCEPT !.cfin = FALSE])
    <3>1. data[tgt.i] \in Data
      BY <1>0, <2>1 DEF TypeOK
    <3>2. /\ Remains(n, data[tgt.i])
          /\ Remains(DeletedData(data[tgt.i]), data[tgt.i])
      BY <3>1, DataRemains
    <3>3. \/ data' = data \/ data' = [data EXCEPT ![tgt.i] = n]
          \/ data' = [data EXCEPT ![tgt.i] = DeletedData(data[tgt.i])]
      BY <1>5 DEF deleteDataFinalizer, deleteDataObject
    <3> HIDE DEF n
    <3>4. QED
      BY <1>0, <3>2, <3>3 DEF Remains, TypeOK
  <2>3. /\ listed' = listed /\ left' \subseteq left /\ tpc' # "idle"
        /\ verdict' # "remove" \/ verdict' = verdict
        /\ idx' = idx \/ (idx' = Dropped(cur.c))
    BY <1>5 DEF deleteDataFinalizer, deleteDataObject, Abort
  <2>4. listed[cur.c].del
    BY <1>0, <1>5 DEF Entries, deleteDataFinalizer, deleteDataObject
  <2>5. idx' \subseteq idx /\ \A e \in idx : e[1] # cur.c => e \in idx'
    BY <1>0, <2>3, DroppedAreOwn DEF Entries
  <2>6. tpc' \in {"fin", "del"} => cur' = cur
    BY <1>5 DEF deleteDataFinalizer, deleteDataObject
  <2>7. Entries'
    <3>1. \A i \in Indexes : data'[i].ex =>
             <<data'[i].claim, i>> \in idx' \/ listed[data'[i].claim].del
      BY <1>0, <2>1, <2>2, <2>4, <2>5 DEF Entries, Remains
    <3>2. \A e \in idx' : data'[e[2]].ex => data'[e[2]].claim = e[1]
      BY <1>0, <2>2, <2>5 DEF Entries, Remains
    <3>3. QED
      BY <1>0, <2>3, <2>4, <2>5, <2>6, <3>1, <3>2 DEF Entries
  <2>8. OneDataPerClaim' /\ Verdict'
    BY <1>0, <2>2, <2>3 DEF OneDataPerClaim, Verdict, Remains
  <2>9. QED
    BY <2>7, <2>8 DEF RoundInv
<1>6. CASE patchClaimMeta \/ patchClaimStatus
  BY <1>0, <1>6 DEF patchClaimMeta, patchClaimStatus, RoundInv, Entries,
     Verdict, OneDataPerClaim
<1>7. CASE patchTemplate
  BY <1>0, <1>7 DEF patchTemplate, endRound, RoundInv, Entries, Verdict,
     OneDataPerClaim
<1>8. QED
  BY <1>1, <1>2, <1>3, <1>4, <1>5, <1>6, <1>7 DEF TemplateWorker

LEMMA RoundFaults ==
    ASSUME RoundInv, TypeInv',
           DataCallFails \/ ClaimPatchFails \/ TemplatePatchFails \/ Crash
    PROVE  RoundInv'
<1>0. Entries /\ OneDataPerClaim /\ Verdict
  BY DEF RoundInv
<1>1. data' = data
  BY DEF DataCallFails, ClaimPatchFails, TemplatePatchFails, Crash
<1>2. CASE DataCallFails \/ ClaimPatchFails
  BY <1>0, <1>1, <1>2 DEF DataCallFails, ClaimPatchFails, Abort, RoundInv,
     Entries, OneDataPerClaim, Verdict
<1>3. CASE TemplatePatchFails \/ Crash
  BY <1>0, <1>1, <1>3 DEF TemplatePatchFails, endRound, Crash, RoundInv,
     Entries, OneDataPerClaim, Verdict
<1>4. QED
  BY <1>2, <1>3

\* A step that does nothing starts no round.
LEMMA FreshStep == [FreshRound]_vars => FreshRound
BY DEF FreshRound, UpdateDatas, vars, tWork

LEMMA RoundStep == RoundInv /\ [Next]_vars /\ [FreshRound]_vars => RoundInv'
<1> SUFFICES ASSUME RoundInv, [Next]_vars, FreshRound PROVE RoundInv'
  BY FreshStep
<1>1. TypeInv /\ TypeInv'
  BY StepTypes DEF RoundInv
<1>2. QED
  BY <1>1, StepsAside, RoundAside, RoundWorker, RoundFaults

\* A claim has one Metal3Data, if rounds start from lists that are up to date,
\* whatever is deleted and whichever calls fail: the indexes a round has read
\* are those in use until it gives out its own (getIndexes, createData).
THEOREM ClaimsHaveOneData == Spec /\ [][FreshRound]_vars => []OneDataPerClaim
<1>1. Spec /\ [][FreshRound]_vars => []RoundInv
  BY RoundInit, RoundStep, PTL DEF Spec
<1>2. RoundInv => OneDataPerClaim
  BY DEF RoundInv
<1>3. QED
  BY <1>1, <1>2, PTL

LEMMA FinalizerStep ==
    ASSUME RoundInv, [Next]_vars
    PROVE  template = "deleting" /\ template' = "gone" =>
               \A i \in Indexes : ~data'[i].ex
<1> SUFFICES ASSUME template = "deleting", template' = "gone"
             PROVE  \A i \in Indexes : ~data'[i].ex
  OBVIOUS
<1>1. patchTemplate
  BY DEF Next, vars, MachineWorker, AssociateM3Metadata, Dissociate,
     DissociateDelete, MachineGone, MachineRequeued, DeleteMachine,
     TemplateWorker, UpdateDatas, createData, OutOfIndexes, deleteData,
     deleteDataFinalizer, deleteDataObject, patchClaimMeta, patchClaimStatus,
     DeleteTemplate, DataWorker, DataRead, ensureIPClaim, createSecrets,
     ReleaseLeases, patchDataMeta, patchDataStatus, DataWorkerFails, apiNoData,
     Environment, ClaimSync, DataSync, LeaseSync, CollectData, CollectLease,
     Allocate, Free, CollectClaim, CollectSecret, DataCallFails,
     ClaimPatchFails, TemplatePatchFails, Crash
<1>2. verdict = "remove" /\ data' = data
  BY <1>1 DEF patchTemplate
<1>3. QED
  BY <1>2 DEF RoundInv, Verdict

\* The template's finalizer is removed only when no Metal3Data of it is left,
\* under the same condition: the round that decided so makes none
\* (reconcileDelete, UpdateDatas).
THEOREM FinalizerHolds ==
    Spec /\ [][FreshRound]_vars => TemplateFinalizerHolds
<1>1. Spec /\ [][FreshRound]_vars => []RoundInv
  BY RoundInit, RoundStep, PTL DEF Spec
<1>2. RoundInv /\ [Next]_vars =>
        [template = "deleting" /\ template' = "gone" =>
            \A i \in Indexes : ~data'[i].ex]_vars
  BY FinalizerStep
<1>3. QED
  BY <1>1, <1>2, PTL DEF Spec, TemplateFinalizerHolds

----------------------------------------------------------------------------
(* The reference in a claim's status: lists that are up to date when a      *)
(* round starts, and faults everywhere but in one place.                    *)

\* The machine goes, and its claim is deleted or gone: for good.
Dead(c) == machine[c] # "running" /\ (~claim[c].ex \/ claim[c].del)

\* A copy of a claim that is outdated, or deleted, tells that it is dead.
Past(o, c) == (o.ex /\ ~claim[c].ex) \/ o.del => Dead(c)

\* The claim's Metal3Data is deleted and the claim is about to forget it.
Forgetting(c) ==
    /\ tpc \in {"patchMeta", "patchStatus"} /\ cur.c = c /\ cur.rd = None
    /\ listed[c].rd = claim[c].rd /\ listed[c].del

LiveData(i, c) == data[i].ex /\ ~data[i].del /\ data[i].claim = c

Copies == \A c \in Claims : /\ Past(claim[c], c) /\ Past(claimCache[c], c)
                            /\ Past(listed[c], c)

References ==
    \A c \in Claims : claim[c].ex /\ claim[c].rd # None =>
        LiveData(claim[c].rd, c) \/ Forgetting(c)

DeletedAreDead ==
    \A i \in Indexes : data[i].ex /\ data[i].del =>
        LET c == data[i].claim
        IN  Dead(c) /\ (claim[c].ex => claim[c].rd = None \/ Forgetting(c))

\* What the round knows of the claims it has still to handle.
Round ==
    /\ \A c \in left : /\ listed[c].rd # None => <<c, listed[c].rd>> \in idx
                       /\ claim[c].ex => claim[c].rd = listed[c].rd
    /\ \A e \in idx :
          listed[e[1]].ex /\ ~listed[e[1]].del /\ claim[e[1]].ex =>
              LiveData(e[2], e[1])

\* What it knows of the one at hand.
Current ==
    tpc \in {"fin", "del", "patchMeta", "patchStatus"} =>
        /\ cur.c \notin left /\ listed[cur.c].ex
        /\ claim[cur.c].ex => claim[cur.c].rd = listed[cur.c].rd
        /\ IF tpc \in {"fin", "del"}
           THEN /\ cur.rd = None
                /\ data[tgt.i].ex => data[tgt.i].claim = cur.c
           ELSE \/ cur.rd \in {None, listed[cur.c].rd}
                \/ <<cur.c, cur.rd>> \in idx /\ ~listed[cur.c].del

ReferenceInv == /\ RoundInv /\ Copies /\ References /\ DeletedAreDead
                /\ Round /\ Current

\* What a step can do to a machine and its claim.
ClaimMoves(c) ==
    /\ machine'[c] = "running" => machine[c] = "running"
    /\ claim'[c].ex /\ ~claim[c].ex =>
          /\ machine[c] = "running" /\ claim'[c].rd = None
          /\ ~claim'[c].del
    /\ claim[c].ex /\ ~claim'[c].ex => machine'[c] # "running" \/ claim[c].del
    /\ claim'[c].del => claim[c].del \/ machine'[c] # "running"
    /\ claim[c].ex /\ claim'[c].ex /\ claim[c].del => claim'[c].del

\* Only the template worker writes the reference.
RdKept == \A c \in Claims : claim'[c].ex /\ claim[c].ex =>
                                claim'[c].rd = claim[c].rd

LEMMA ClaimWrites ==
    ASSUME NEW o \in Claim
    PROVE  /\ \A p \in {DeletedClaim(o), SettleClaim([o EXCEPT !.mfin = FALSE])} :
                /\ p.ex => o.ex /\ p.rd = o.rd /\ (o.del => p.del)
           /\ o.ex => SettleClaim([o EXCEPT !.mfin = FALSE]).ex \/ o.del
           /\ SettleClaim([o EXCEPT !.mfin = FALSE]).del => o.del
<1>1. [o EXCEPT !.del = TRUE] \in Claim /\ [o EXCEPT !.mfin = FALSE] \in Claim
  BY DEF Claim
<1>2. /\ [o EXCEPT !.del = TRUE].ex = o.ex /\ [o EXCEPT !.del = TRUE].rd = o.rd
      /\ [o EXCEPT !.del = TRUE].del
      /\ [o EXCEPT !.mfin = FALSE].ex = o.ex
      /\ [o EXCEPT !.mfin = FALSE].rd = o.rd
      /\ [o EXCEPT !.mfin = FALSE].del = o.del
  BY DEF Claim
<1>3. ~NoClaim.ex /\ ~NoClaim.del
  BY DEF NoClaim
<1>4. QED
  BY <1>1, <1>2, <1>3 DEF DeletedClaim, SettleClaim

LEMMA PatchWrites ==
    ASSUME NEW o \in Claim, NEW old \in Claim, NEW new, new.cfin \in BOOLEAN
    PROVE  LET p == PatchedClaim(o, old, new)
           IN  /\ p.ex => o.ex /\ p.rd = o.rd /\ p.del = o.del
               /\ o.ex => p.ex \/ o.del
               /\ p.del => o.del
<1> DEFINE q == [o EXCEPT !.mfin = old.mfin, !.cfin = new.cfin]
<1>1. q.ex = o.ex /\ q.rd = o.rd /\ q.del = o.del
  BY DEF Claim
<1>2. ~NoClaim.ex /\ ~NoClaim.del
  BY DEF NoClaim
<1>3. PatchedClaim(o, old, new) \in {o, SettleClaim(q)}
  BY DEF PatchedClaim
<1> HIDE DEF q
<1>4. QED
  BY <1>1, <1>2, <1>3 DEF SettleClaim

LEMMA ClaimSteps ==
    ASSUME TypeInv, [Next]_vars
    PROVE  /\ \A c \in Claims : ClaimMoves(c)
           /\ ~patchClaimStatus => RdKept
<1> DEFINE Moves == (\A c \in Claims : ClaimMoves(c)) /\ RdKept
<1>0. \A c \in Claims : claim[c] \in Claim
  BY DEF TypeInv, TypeOK
<1>1. UNCHANGED <<machine, claim>> => Moves
  BY DEF ClaimMoves, RdKept
<1>2. ASSUME NEW c \in Claims, AssociateM3Metadata(c) PROVE Moves
  <2> DEFINE n == [NoClaim EXCEPT !.ex = TRUE, !.mfin = TRUE]
  <2>1. n.ex /\ ~n.del /\ n.rd = None
    BY DEF NoClaim
  <2>2. /\ claim' = [claim EXCEPT ![c] = n] /\ machine' = machine
        /\ machine[c] = "running" /\ ~claim[c].ex
    BY <1>2 DEF AssociateM3Metadata
  <2> HIDE DEF n
  <2>3. QED
    BY <2>1, <2>2 DEF ClaimMoves, RdKept, TypeInv, TypeOK
<1>3. ASSUME NEW c \in Claims, Dissociate(c) PROVE Moves
  <2> DEFINE n == SettleClaim([claim[c] EXCEPT !.mfin = FALSE])
  <2>1. /\ n.ex => claim[c].ex /\ n.rd = claim[c].rd /\ (claim[c].del => n.del)
        /\ claim[c].ex => n.ex \/ claim[c].del
        /\ n.del => claim[c].del
    BY <1>0, ClaimWrites
  <2>2. /\ claim' = claim \/ claim' = [claim EXCEPT ![c] = n]
        /\ \A d \in Claims : machine'[d] = "running" => machine[d] = "running"
    BY <1>3 DEF Dissociate, TypeInv, TypeOK
  <2> HIDE DEF n
  <2>3. QED
    BY <2>1, <2>2 DEF ClaimMoves, RdKept, TypeInv, TypeOK
<1>4. ASSUME NEW c \in Claims, DissociateDelete(c) \/ CollectClaim(c)
      PROVE  Moves
  <2> DEFINE n == DeletedClaim(claim[c])
  <2>1. n.ex => claim[c].ex /\ n.rd = claim[c].rd /\ (claim[c].del => n.del)
    BY <1>0, ClaimWrites
  <2>2. /\ claim' = [claim EXCEPT ![c] = n] /\ machine'[c] # "running"
        /\ \A d \in Claims : machine'[d] = "running" => machine[d] = "running"
    BY <1>4 DEF DissociateDelete, CollectClaim, TypeInv, TypeOK
  <2> HIDE DEF n
  <2>3. QED
    BY <2>1, <2>2 DEF ClaimMoves, RdKept, TypeInv, TypeOK
<1>5. ASSUME NEW c \in Claims,
             MachineRequeued(c) \/ MachineGone(c) \/ DeleteMachine(c)
      PROVE Moves
  BY <1>5 DEF MachineRequeued, MachineGone, DeleteMachine, ClaimMoves, RdKept,
     TypeInv, TypeOK
<1>6. ASSUME patchClaimMeta PROVE Moves
  <2> DEFINE n == PatchedClaim(claim[cur.c], listed[cur.c], cur)
  <2>1. cur.c \in Claims /\ listed[cur.c] \in Claim /\ cur.cfin \in BOOLEAN
        /\ claim[cur.c] \in Claim
    BY <1>6 DEF patchClaimMeta, TypeInv, AtHand, TypeOK
  <2>2. /\ n.ex => claim[cur.c].ex /\ n.rd = claim[cur.c].rd
                   /\ n.del = claim[cur.c].del
        /\ claim[cur.c].ex => n.ex \/ claim[cur.c].del
        /\ n.del => claim[cur.c].del
    BY <2>1, PatchWrites
  <2>3. claim' = [claim EXCEPT ![cur.c] = n] /\ machine' = machine
    BY <1>6 DEF patchClaimMeta
  <2> HIDE DEF n
  <2>4. QED
    BY <2>2, <2>3 DEF ClaimMoves, RdKept, TypeInv, TypeOK
<1>7. ASSUME patchClaimStatus PROVE \A c \in Claims : ClaimMoves(c)
  <2> DEFINE n == [claim[cur.c] EXCEPT !.rd = cur.rd]
  <2>1. cur.c \in Claims /\ claim[cur.c] \in Claim
    BY <1>7 DEF patchClaimStatus, TypeInv, AtHand, TypeOK
  <2>2. n.ex = claim[cur.c].ex /\ n.del = claim[cur.c].del
    BY <2>1 DEF Claim
  <2>3. /\ \/ claim' = [claim EXCEPT ![cur.c] = n]
           \/ claim' = [claim EXCEPT ![cur.c] = claim[cur.c]]
        /\ machine' = machine
    BY <1>7 DEF patchClaimStatus
  <2> HIDE DEF n
  <2>4. QED
    BY <2>1, <2>2, <2>3 DEF ClaimMoves, TypeInv, TypeOK
<1>8. ASSUME NEW i \in Indexes, DataWorker(i) \/ DataWorkerFails(i) PROVE Moves
  BY <1>1, <1>8 DEF DataWorker, DataRead, ensureIPClaim, createSecrets,
     ReleaseLeases, patchDataMeta, patchDataStatus, DataWorkerFails, apiNoData
<1>9. ASSUME NEW c \in Claims, createData(c) \/ OutOfIndexes(c) \/ deleteData(c)
      PROVE Moves
  BY <1>1, <1>9 DEF createData, OutOfIndexes, deleteData
<1>10. ASSUME UpdateDatas \/ deleteDataFinalizer \/ deleteDataObject
              \/ patchTemplate
       PROVE Moves
  BY <1>1, <1>10 DEF UpdateDatas, deleteDataFinalizer, deleteDataObject,
     patchTemplate
<1>11. Environment => Moves
  BY <1>1, <1>4 DEF Environment, ClaimSync, DataSync, LeaseSync, CollectData,
     CollectLease, Allocate, Free, CollectSecret
<1>12. DataCallFails \/ ClaimPatchFails \/ TemplatePatchFails => Moves
  BY <1>1 DEF DataCallFails, ClaimPatchFails, TemplatePatchFails, apiNoData
<1>13. Crash => Moves
  BY DEF Crash, ClaimMoves, RdKept
<1>14. DeleteTemplate \/ UNCHANGED vars => Moves
  BY <1>1 DEF DeleteTemplate, vars
<1> HIDE DEF Moves
<1>15. Moves \/ patchClaimStatus
  BY <1>2, <1>3, <1>4, <1>5, <1>6, <1>8, <1>9, <1>10, <1>11, <1>12, <1>13,
     <1>14 DEF Next, MachineWorker, TemplateWorker
<1>16. QED
  BY <1>7, <1>15 DEF Moves

\* Dead is for good, and what a copy of a claim tells stays true.
LEMMA DeadForGood ==
    ASSUME Copies, NEW c \in Claims, ClaimMoves(c)
    PROVE  /\ Dead(c) => Dead(c)'
           /\ \A o : Past(o, c) => ((o.ex /\ ~claim'[c].ex) \/ o.del => Dead(c)')
           /\ Past(claim[c], c)'
<1>1. Past(claim[c], c)
  BY DEF Copies
<1>2. Dead(c) => Dead(c)'
  BY DEF ClaimMoves, Dead
<1>3. claim[c].ex /\ ~claim'[c].ex => Dead(c)'
  BY <1>1 DEF ClaimMoves, Dead, Past
<1>4. ASSUME NEW o, Past(o, c), (o.ex /\ ~claim'[c].ex) \/ o.del
      PROVE  Dead(c)'
  BY <1>2, <1>3, <1>4 DEF Past
<1>5. Past(claim[c], c)'
  BY <1>1, <1>2 DEF ClaimMoves, Dead, Past
<1>6. QED
  BY <1>2, <1>4, <1>5

\* Steps that are not the template worker's, and no faults.
Others ==
    \/ \E c \in Claims : MachineWorker(c) \/ MachineRequeued(c) \/ DeleteMachine(c)
    \/ DeleteTemplate \/ Environment \/ UNCHANGED vars
    \/ \E i \in Indexes : DataWorker(i)

\* They delete a Metal3Data only when its claim is gone.
Lasts(i) ==
    data[i].ex /\ ~data[i].del =>
        \/ data'[i].ex /\ ~data'[i].del
        \/ /\ machine[data[i].claim] = "gone" /\ ~claim[data[i].claim].ex
           /\ UNCHANGED <<machine, claim>>

LEMMA OthersKeep ==
    ASSUME TypeInv, Others
    PROVE  /\ UNCHANGED tWork /\ \A i \in Indexes : Remains(data'[i], data[i])
           /\ \A i \in Indexes : Lasts(i)
           /\ claimCache' \in {claimCache, claim}
           /\ ~patchClaimStatus
<1> DEFINE All == \A i \in Indexes : Remains(data'[i], data[i]) /\ Lasts(i)
<1>0. \A i \in Indexes : data[i] \in Data /\ dmem[i] \in Data /\ dbase[i] \in Data
  BY DEF TypeInv, TypeOK
<1>a. UNCHANGED data => All
  BY DEF Remains, Lasts
<1> DEFINE Goal == UNCHANGED tWork /\ All /\ claimCache' \in {claimCache, claim}
<1>1. ASSUME NEW c \in Claims,
             MachineWorker(c) \/ MachineRequeued(c) \/ DeleteMachine(c)
      PROVE  Goal
  BY <1>1, <1>a DEF MachineWorker, AssociateM3Metadata, Dissociate,
     DissociateDelete, MachineGone, MachineRequeued, DeleteMachine
<1>2. ASSUME NEW i \in Indexes, DataRead(i) \/ ensureIPClaim(i)
                 \/ createSecrets(i) \/ ReleaseLeases(i)
      PROVE  Goal
  BY <1>a, <1>2 DEF DataRead, ensureIPClaim, createSecrets, ReleaseLeases,
     apiNoData
<1>3. ASSUME NEW i \in Indexes, patchDataMeta(i) PROVE Goal
  <2> DEFINE n == PatchedData(data[i], dbase[i], dmem[i])
             q == [data[i] EXCEPT !.cfin = dbase[i].cfin, !.dfin = dmem[i].dfin]
  <2>1. Remains(n, data[i])
    BY <1>0, DataRemains
  <2>2. data[i].ex /\ ~data[i].del => n.ex /\ ~n.del
    <3>1. q.ex = data[i].ex /\ q.del = data[i].del
      BY <1>0 DEF Data
    <3>2. n \in {data[i], SettleData(q)}
      BY DEF PatchedData
    <3> HIDE DEF q, n
    <3>3. QED
      BY <3>1, <3>2 DEF SettleData
  <2>3. data' = data \/ data' = [data EXCEPT ![i] = n]
    BY <1>3 DEF patchDataMeta
  <2>4. UNCHANGED tWork /\ claimCache' = claimCache
    BY <1>3 DEF patchDataMeta, apiNoData
  <2> HIDE DEF n
  <2>5. All
    BY <1>a, <2>1, <2>2, <2>3 DEF Remains, Lasts, TypeInv, TypeOK
  <2>6. QED
    BY <2>4, <2>5
<1>4. ASSUME NEW i \in Indexes, patchDataStatus(i) PROVE Goal
  <2> DEFINE n == [data[i] EXCEPT !.ready = dmem[i].ready]
  <2>1. n.ex = data[i].ex /\ n.del = data[i].del /\ n.claim = data[i].claim
    BY <1>0 DEF Data
  <2>2. data' = data \/ data' = [data EXCEPT ![i] = n]
    BY <1>4 DEF patchDataStatus
  <2>3. UNCHANGED tWork /\ claimCache' = claimCache
    BY <1>4 DEF patchDataStatus, apiNoData
  <2> HIDE DEF n
  <2>4. All
    BY <1>a, <2>1, <2>2 DEF Remains, Lasts, TypeInv, TypeOK
  <2>5. QED
    BY <2>3, <2>4
<1>5. ASSUME NEW i \in Indexes, CollectData(i) PROVE Goal
  <2>1. Remains(DeletedData(data[i]), data[i])
    BY <1>0, DataRemains
  <2>2. QED
    BY <1>5, <2>1 DEF CollectData, Remains, Lasts, TypeInv, TypeOK
<1>6. Environment => Goal
  BY <1>a, <1>5 DEF Environment, ClaimSync, DataSync, LeaseSync, CollectLease,
     Allocate, Free, CollectClaim, CollectSecret
<1>7. DeleteTemplate \/ UNCHANGED vars => Goal
  BY <1>a DEF DeleteTemplate, vars
<1> HIDE DEF Goal
<1>8. Goal
  BY <1>1, <1>2, <1>3, <1>4, <1>6, <1>7 DEF Others, DataWorker
<1>9. UNCHANGED tWork => ~patchClaimStatus
  BY DEF patchClaimStatus, tWork
<1>10. QED
  BY <1>8, <1>9 DEF Goal

LEMMA ReferenceInit == Init => ReferenceInv
<1> SUFFICES ASSUME Init PROVE ReferenceInv
  OBVIOUS
<1>1. ~NoClaim.ex /\ ~NoClaim.del /\ ~NoData.ex
  BY DEF NoClaim, NoData
<1>2. Copies /\ References
  BY <1>1 DEF Init, Copies, Past, References
<1>3. DeletedAreDead /\ Round /\ Current
  BY <1>1 DEF Init, DeletedAreDead, Round, Current
<1>4. QED
  BY <1>2, <1>3, RoundInit DEF ReferenceInv

LEMMA CopiesStep ==
    ASSUME TypeInv, Copies, [Next]_vars, claimCache' \in {claimCache, claim},
           listed' \in {listed, claimCache, [c \in Claims |-> NoClaim]}
    PROVE  Copies'
<1> SUFFICES ASSUME NEW c \in Claims
             PROVE  /\ Past(claim[c], c)' /\ Past(claimCache[c], c)'
                    /\ Past(listed[c], c)'
  BY DEF Copies
<1>1. ClaimMoves(c)
  BY ClaimSteps
<1>2. ~NoClaim.ex /\ ~NoClaim.del
  BY DEF NoClaim
<1>3. /\ \A o : Past(o, c) => ((o.ex /\ ~claim'[c].ex) \/ o.del => Dead(c)')
      /\ Past(claim[c], c)'
  BY <1>1, DeadForGood
<1>4. Past(claim[c], c) /\ Past(claimCache[c], c) /\ Past(listed[c], c)
  BY DEF Copies
<1>5. Past(claimCache[c], c)'
  BY <1>3, <1>4 DEF Past
<1>6. Past(listed[c], c)'
  BY <1>2, <1>3, <1>4 DEF Past
<1>7. QED
  BY <1>3, <1>5, <1>6

\* The template worker's patch of the claim's finalizers, and all steps that
\* are not its own, leave a claim's Metal3Data alone.
LEMMA ReferenceOthers ==
    ASSUME ReferenceInv, RoundInv', [Next]_vars, RdKept,
           UNCHANGED <<listed, left, cur, idx, tgt>>,
           tpc' = tpc \/ (tpc = "patchMeta" /\ tpc' = "patchStatus"),
           claimCache' \in {claimCache, claim},
           \A i \in Indexes : Remains(data'[i], data[i]) /\ Lasts(i)
    PROVE  ReferenceInv'
<1>0. /\ RoundInv /\ Copies /\ References /\ DeletedAreDead /\ Round /\ Current
      /\ TypeInv /\ TypeOK /\ Verdict
  BY DEF ReferenceInv, RoundInv, TypeInv
<1>1. \A c \in Claims : ClaimMoves(c)
  BY <1>0, ClaimSteps
<1>2. Copies'
  BY <1>0, CopiesStep
<1>3. \A c \in Claims : Dead(c) => Dead(c)'
  BY <1>0, <1>1, DeadForGood
<1>4. \A c \in Claims : claim'[c].ex /\ claim'[c].rd # None => claim[c].ex
  BY <1>1 DEF ClaimMoves
<1>5. \A c \in Claims : claim'[c].ex /\ (listed[c].ex \/ Dead(c)) => claim[c].ex
  <2>1. \A c \in Claims : Past(listed[c], c)
    BY <1>0 DEF Copies
  <2>2. QED
    BY <1>1, <2>1 DEF ClaimMoves, Past, Dead
<1>6. ASSUME NEW c \in Claims, NEW i \in Indexes, LiveData(i, c), claim[c].ex
      PROVE  LiveData(i, c)'
  BY <1>6 DEF LiveData, Lasts, Remains
<1>7. ASSUME NEW c \in Claims, claim[c].ex, claim'[c].ex, Forgetting(c)
      PROVE  Forgetting(c)'
  BY <1>7 DEF Forgetting, RdKept
<1>8. References'
  <2> SUFFICES ASSUME NEW c \in Claims, claim'[c].ex, claim'[c].rd # None
               PROVE  LiveData(claim[c].rd, c)' \/ Forgetting(c)'
    BY DEF References
  <2>1. claim[c].ex /\ claim'[c].rd = claim[c].rd
    BY <1>4 DEF RdKept
  <2>2. claim[c].rd \in Indexes
    BY <1>0, <2>1 DEF TypeOK, Claim
  <2>3. LiveData(claim[c].rd, c) \/ Forgetting(c)
    BY <1>0, <2>1 DEF References
  <2>4. LiveData(claim[c].rd, c) => LiveData(claim[c].rd, c)'
    <3> SUFFICES ASSUME LiveData(claim[c].rd, c) PROVE LiveData(claim[c].rd, c)'
      OBVIOUS
    <3>1. PICK i \in Indexes : i = claim[c].rd
      BY <2>2
    <3>2. LiveData(i, c)'
      BY <1>6, <2>1, <3>1
    <3>3. QED
      BY <2>1, <3>1, <3>2 DEF LiveData
  <2>5. QED
    BY <1>7, <2>1, <2>3, <2>4
<1>9. DeletedAreDead'
  <2> SUFFICES ASSUME NEW i \in Indexes, data'[i].ex, data'[i].del
               PROVE  /\ Dead(data[i].claim)'
                      /\ claim'[data'[i].claim].ex =>
                            \/ claim'[data'[i].claim].rd = None
                            \/ Forgetting(data[i].claim)'
    BY DEF DeletedAreDead
  <2>1. data[i].ex /\ data'[i].claim = data[i].claim
    BY DEF Remains
  <2>2. PICK c \in Claims : c = data[i].claim
    BY <1>0, <2>1 DEF TypeInv, AtHand
  <2>3. CASE data[i].del
    <3>1. Dead(c) /\ (claim[c].ex => claim[c].rd = None \/ Forgetting(c))
      BY <1>0, <2>1, <2>2, <2>3 DEF DeletedAreDead
    <3>2. Dead(c)' /\ (claim'[c].ex => claim[c].ex /\ claim'[c].rd = claim[c].rd)
      BY <1>3, <1>5, <3>1 DEF RdKept
    <3>3. claim'[c].ex => claim'[c].rd = None \/ Forgetting(c)'
      BY <1>7, <3>1, <3>2
    <3>4. QED
      BY <2>1, <2>2, <3>2, <3>3 DEF Dead, Forgetting
  <2>4. CASE ~data[i].del
    <3>1. machine[c] = "gone" /\ ~claim[c].ex /\ UNCHANGED <<machine, claim>>
      BY <2>1, <2>2, <2>4 DEF Lasts
    <3>2. QED
      BY <2>1, <2>2, <3>1 DEF Dead
  <2>5. QED
    BY <2>3, <2>4
<1>10. Round'
  <2>1. ASSUME NEW c \in left
        PROVE  /\ listed[c].rd # None => <<c, listed[c].rd>> \in idx
               /\ claim'[c].ex => claim'[c].rd = listed[c].rd
    <3>1. c \in Claims /\ listed[c].ex
      BY <1>0, <2>1 DEF TypeOK, Verdict
    <3>2. QED
      BY <1>0, <1>5, <3>1 DEF Round, RdKept
  <2>2. ASSUME NEW e \in idx, listed[e[1]].ex, ~listed[e[1]].del,
               claim'[e[1]].ex
        PROVE  LiveData(e[2], e[1])'
    <3>1. e[1] \in Claims /\ e[2] \in Indexes
      BY <1>0, <2>2 DEF TypeOK
    <3>2. claim[e[1]].ex
      BY <1>5, <2>2, <3>1
    <3>3. LiveData(e[2], e[1])
      BY <1>0, <2>2, <3>2 DEF Round
    <3>4. QED
      BY <1>6, <3>1, <3>2, <3>3
  <2>3. QED
    BY <2>1, <2>2 DEF Round, LiveData
<1>11. Current'
  <2> SUFFICES ASSUME tpc' \in {"fin", "del", "patchMeta", "patchStatus"}
               PROVE  Current'
    BY DEF Current
  <2>1. /\ tpc \in {"fin", "del", "patchMeta", "patchStatus"}
        /\ tpc \in {"fin", "del"} <=> tpc' \in {"fin", "del"}
    OBVIOUS
  <2>2. cur.c \in Claims /\ (tpc \in {"fin", "del"} => tgt.i \in Indexes)
    BY <1>0, <2>1 DEF TypeInv, AtHand
  <2>3. /\ cur.c \notin left /\ listed[cur.c].ex
        /\ claim'[cur.c].ex => claim'[cur.c].rd = listed[cur.c].rd
    BY <1>0, <1>5, <2>1, <2>2 DEF Current, RdKept
  <2>4. CASE tpc \in {"fin", "del"}
    BY <1>0, <2>1, <2>2, <2>3, <2>4 DEF Current, Remains
  <2>5. CASE tpc \notin {"fin", "del"}
    BY <1>0, <2>1, <2>2, <2>3, <2>5 DEF Current
  <2>6. QED
    BY <2>4, <2>5
<1>12. QED
  BY <1>2, <1>8, <1>9, <1>10, <1>11 DEF ReferenceInv

LEMMA ReferenceUpdate ==
    ASSUME ReferenceInv, RoundInv', FreshRound, UpdateDatas
    PROVE  ReferenceInv'
<1>0. /\ RoundInv /\ Copies /\ References /\ DeletedAreDead
      /\ TypeInv /\ TypeOK
  BY DEF ReferenceInv, RoundInv, TypeInv
<1>1. /\ claimCache = claim /\ dataCache = data
      /\ UNCHANGED <<machine, claim, claimCache, data, cur>>
      /\ tpc = "idle" /\ tpc' = "next" /\ listed' = claim
      /\ \A c \in left' : c \in Claims /\ claim[c].ex
    BY DEF UpdateDatas, FreshRound, pending
<1>2. idx' = {<<data[i].claim, i>> : i \in {j \in Indexes : data[j].ex}}
  BY <1>1 DEF UpdateDatas
<1>3. Copies'
  BY <1>0, <1>1 DEF Copies, Past, Dead
<1>4. \A c : ~Forgetting(c)
  BY <1>1 DEF Forgetting
<1>5. References'
  BY <1>0, <1>1, <1>4 DEF References, LiveData
<1>6. DeletedAreDead'
  BY <1>0, <1>1, <1>4 DEF DeletedAreDead, Dead
<1>7. Round'
  <2>1. ASSUME NEW c \in left', claim[c].rd # None
        PROVE  <<c, claim[c].rd>> \in idx'
    <3>1. LiveData(claim[c].rd, c)
      BY <1>0, <1>1, <1>4, <2>1 DEF References
    <3>2. claim[c].rd \in Indexes
      BY <1>0, <1>1, <2>1 DEF TypeOK, Claim
    <3>3. QED
      BY <1>2, <3>1, <3>2 DEF LiveData
  <2>2. ASSUME NEW i \in Indexes, data[i].ex, claim[data[i].claim].ex,
               ~claim[data[i].claim].del
        PROVE  LiveData(i, data[i].claim)
    BY <1>0, <2>2 DEF DeletedAreDead, Dead, LiveData
  <2>3. QED
    BY <1>1, <1>2, <2>1, <2>2 DEF Round, LiveData
<1>8. Current'
  BY <1>1 DEF Current
<1>9. QED
  BY <1>3, <1>5, <1>6, <1>7, <1>8 DEF ReferenceInv

LEMMA ReferenceCreate ==
    ASSUME ReferenceInv, RoundInv', NEW c \in Claims, createData(c)
    PROVE  ReferenceInv'
<1>0. /\ RoundInv /\ Copies /\ References /\ DeletedAreDead /\ Round /\ Current
      /\ TypeInv /\ TypeOK /\ Verdict
  BY DEF ReferenceInv, RoundInv, TypeInv
<1>1. /\ tpc = "next" /\ tpc' = "patchMeta" /\ c \in left /\ ~listed[c].del
      /\ UNCHANGED <<machine, claim, claimCache, listed, tgt>>
      /\ left' \subseteq left /\ c \notin left' /\ cur'.c = c
    BY DEF createData, Abort
<1>2. Copies'
  BY <1>0, <1>1 DEF Copies, Past, Dead
<1>3. \A d : ~Forgetting(d)
  BY <1>1 DEF Forgetting
\* What changes: nothing, or the new Metal3Data.
<1> DEFINE n == [NoData EXCEPT !.ex = TRUE, !.cfin = TRUE, !.claim = c]
<1>4. \/ UNCHANGED <<data, idx>>
      \/ /\ FreeIndex \in Indexes /\ ~data[FreeIndex].ex
         /\ data' = [data EXCEPT ![FreeIndex] = n]
         /\ idx' = idx \cup {<<c, FreeIndex>>}
  BY DEF createData, newEntry
<1>5. n.ex /\ ~n.del /\ n.claim = c
  BY DEF NoData
<1> HIDE DEF n
<1>6. \A i \in Indexes : data[i].ex => data'[i] = data[i]
  BY <1>0, <1>4 DEF TypeOK
<1>7. \A i \in Indexes : data'[i].ex /\ data'[i].del =>
         data[i].ex /\ data'[i] = data[i]
  BY <1>0, <1>4, <1>5 DEF TypeOK
<1>8. References'
  <2> SUFFICES ASSUME NEW d \in Claims, claim[d].ex, claim[d].rd # None
               PROVE  LiveData(claim[d].rd, d)'
    BY <1>1 DEF References
  <2>1. LiveData(claim[d].rd, d) /\ claim[d].rd \in Indexes
    BY <1>0, <1>3 DEF References, TypeOK, Claim
  <2>2. QED
    BY <1>1, <1>6, <2>1 DEF LiveData
<1>9. DeletedAreDead'
  BY <1>0, <1>1, <1>3, <1>7 DEF DeletedAreDead, Dead
<1>10. idx \subseteq idx' /\ \A e \in idx' \ idx : LiveData(e[2], e[1])'
  BY <1>0, <1>4, <1>5 DEF LiveData, TypeOK
<1>11. Round'
  <2>1. ASSUME NEW e \in idx', listed[e[1]].ex, ~listed[e[1]].del, claim[e[1]].ex
        PROVE  LiveData(e[2], e[1])'
    <3>1. CASE e \in idx
      <4>1. LiveData(e[2], e[1]) /\ e[2] \in Indexes
        BY <1>0, <2>1, <3>1 DEF Round, TypeOK
      <4>2. QED
        BY <1>6, <4>1 DEF LiveData
    <3>2. QED
      BY <1>10, <2>1, <3>1
  <2>2. \A d \in left' : /\ listed[d].rd # None => <<d, listed[d].rd>> \in idx'
                         /\ claim[d].ex => claim[d].rd = listed[d].rd
    BY <1>0, <1>1, <1>10 DEF Round
  <2>3. QED
    BY <1>1, <2>1, <2>2 DEF Round, LiveData
<1>12. Current'
  <2>1. listed[c].ex /\ (claim[c].ex => claim[c].rd = listed[c].rd)
    BY <1>0, <1>1 DEF Verdict, Round
  <2>2. cur'.rd = None \/ <<c, cur'.rd>> \in idx'
    <3>1. CASE EntriesOf(c) # {}
      <4>1. cur'.rd = Min(EntriesOf(c)) /\ idx' = idx
        BY <3>1 DEF createData
      <4>2. Min(EntriesOf(c)) \in EntriesOf(c)
        BY <1>0, <3>1, EntriesAreIndexes DEF TypeOK
      <4>3. \A i \in EntriesOf(c) : <<c, i>> \in idx
        BY <1>0 DEF EntriesOf, TypeOK
      <4>4. QED
        BY <4>1, <4>2, <4>3
    <3>2. CASE EntriesOf(c) = {}
      BY <3>2 DEF createData, newEntry
    <3>3. QED
      BY <3>1, <3>2
  <2>3. QED
    BY <1>1, <2>1, <2>2 DEF Current
<1>13. QED
  BY <1>2, <1>8, <1>9, <1>11, <1>12 DEF ReferenceInv

LEMMA ReferenceDelete ==
    ASSUME ReferenceInv, RoundInv', NEW c \in Claims, deleteData(c)
    PROVE  ReferenceInv'
<1>0. /\ RoundInv /\ Copies /\ References /\ DeletedAreDead /\ Round /\ Current
      /\ TypeInv /\ TypeOK /\ Verdict /\ Entries
  BY DEF ReferenceInv, RoundInv, TypeInv
<1>1. /\ tpc = "next" /\ tpc' \in {"patchMeta", "fin"}
      /\ c \in left /\ listed[c].del
      /\ UNCHANGED <<machine, claim, claimCache, data, listed>>
      /\ left' = left \ {c} /\ cur'.c = c /\ cur'.rd = None
      /\ idx' = idx \/ (idx' = Dropped(c) /\ tpc' = "patchMeta")
  BY DEF deleteData
<1>2. Copies'
  BY <1>0, <1>1 DEF Copies, Past, Dead
<1>3. \A d : ~Forgetting(d)
  BY <1>1 DEF Forgetting
<1>4. References' /\ DeletedAreDead'
  BY <1>0, <1>1, <1>3 DEF References, DeletedAreDead, Dead, LiveData
<1>5. idx' \subseteq idx /\ \A e \in idx : e[1] # c => e \in idx'
  BY <1>0, <1>1, DroppedAreOwn DEF Entries, TypeOK
<1>6. Round'
  BY <1>0, <1>1, <1>5 DEF Round, LiveData
<1>7. ASSUME tpc' = "fin"
      PROVE  data[tgt'.i].ex => data[tgt'.i].claim = c
  <2>1. tgt'.i \in Target(c)
    BY <1>7 DEF deleteData
  <2>2. \A i \in EntriesOf(c) : <<c, i>> \in idx
    BY <1>0 DEF EntriesOf, TypeOK
  <2>3. \A i \in Target(c) : i \in EntriesOf(c) \/ (i \in Indexes /\ i = listed[c].rd)
    BY DEF Target
  <2>4. None \notin Indexes
    BY DataAssumption DEF Indexes
  <2>5. \A i \in Target(c) : <<c, i>> \in idx
    BY <1>0, <1>1, <2>2, <2>3, <2>4 DEF Round
  <2>6. QED
    BY <1>0, <2>1, <2>5 DEF Entries
<1>8. Current'
  <2>1. listed[c].ex /\ (claim[c].ex => claim[c].rd = listed[c].rd)
    BY <1>0, <1>1 DEF Verdict, Round
  <2>2. QED
    BY <1>1, <1>7, <2>1 DEF Current
<1>9. QED
  BY <1>2, <1>4, <1>6, <1>8 DEF ReferenceInv

LEMMA ReferenceFinalizer ==
    ASSUME ReferenceInv, RoundInv', deleteDataFinalizer PROVE ReferenceInv'
<1>0. /\ RoundInv /\ Copies /\ References /\ DeletedAreDead /\ Round /\ Current
      /\ TypeInv /\ TypeOK
  BY DEF ReferenceInv, RoundInv, TypeInv
<1>1. /\ tpc = "fin" /\ tpc' \in {"patchMeta", "del"} /\ cur'.c = cur.c
      /\ UNCHANGED <<machine, claim, claimCache, listed, idx, tgt>>
      /\ left' \subseteq left
      /\ tpc' = "patchMeta" => cur'.rd = listed[cur.c].rd
      /\ tpc' = "del" => cur'.rd = cur.rd
  BY DEF deleteDataFinalizer, Abort
<1>2. Copies'
  BY <1>0, <1>1 DEF Copies, Past, Dead
<1>3. \A d : ~Forgetting(d)
  BY <1>1 DEF Forgetting
<1>4. tgt.i \in Indexes /\ data[tgt.i] \in Data
  BY <1>0, <1>1 DEF TypeInv, AtHand, TypeOK
<1> DEFINE q == [data[tgt.i] EXCEPT !.cfin = FALSE]
<1>5. /\ q.ex = data[tgt.i].ex /\ q.del = data[tgt.i].del
      /\ q.claim = data[tgt.i].claim
  BY <1>4 DEF Data
<1>6. data' = data \/ data' = [data EXCEPT ![tgt.i] = SettleData(q)]
  BY DEF deleteDataFinalizer
<1> HIDE DEF q
<1>7. \A i \in Indexes : /\ Remains(data'[i], data[i])
                         /\ data[i].ex /\ ~data[i].del =>
                              data'[i].ex /\ ~data'[i].del
  BY <1>0, <1>5, <1>6 DEF Remains, SettleData, NoData, TypeOK
<1>8. ASSUME NEW i \in Indexes, NEW d, LiveData(i, d) PROVE LiveData(i, d)'
  BY <1>7, <1>8 DEF LiveData, Remains
<1>9. References'
  <2> SUFFICES ASSUME NEW d \in Claims, claim[d].ex, claim[d].rd # None
               PROVE  LiveData(claim[d].rd, d)'
    BY <1>1 DEF References
  <2>1. LiveData(claim[d].rd, d) /\ claim[d].rd \in Indexes
    BY <1>0, <1>3 DEF References, TypeOK, Claim
  <2>2. QED
    BY <1>1, <1>7, <2>1 DEF LiveData, Remains
<1>10. DeletedAreDead'
  <2> SUFFICES ASSUME NEW i \in Indexes, data'[i].ex, data'[i].del
               PROVE  /\ Dead(data[i].claim)'
                      /\ claim[data'[i].claim].ex =>
                            claim[data'[i].claim].rd = None
    BY <1>1 DEF DeletedAreDead
  <2>1. data[i].ex /\ data[i].del /\ data'[i].claim = data[i].claim
    BY <1>7 DEF Remains
  <2>2. QED
    BY <1>0, <1>1, <1>3, <2>1 DEF DeletedAreDead, Dead
<1>11. Round'
  <2>1. ASSUME NEW e \in idx, listed[e[1]].ex, ~listed[e[1]].del, claim[e[1]].ex
        PROVE  LiveData(e[2], e[1])'
    BY <1>0, <1>8, <2>1 DEF Round, TypeOK
  <2>2. QED
    BY <1>0, <1>1, <2>1 DEF Round, LiveData
<1>12. Current'
  <2>1. /\ cur.c \notin left /\ listed[cur.c].ex /\ cur.rd = None
        /\ claim[cur.c].ex => claim[cur.c].rd = listed[cur.c].rd
        /\ data[tgt.i].ex => data[tgt.i].claim = cur.c
    BY <1>0, <1>1 DEF Current
  <2>2. data'[tgt.i].ex => data'[tgt.i].claim = cur.c
    BY <1>4, <1>7, <2>1 DEF Remains
  <2>3. QED
    BY <1>1, <2>1, <2>2 DEF Current
<1>13. QED
  BY <1>2, <1>9, <1>10, <1>11, <1>12 DEF ReferenceInv

LEMMA ReferenceObject ==
    ASSUME ReferenceInv, RoundInv', deleteDataObject PROVE ReferenceInv'
<1>0. /\ RoundInv /\ Copies /\ References /\ DeletedAreDead /\ Round /\ Current
      /\ TypeInv /\ TypeOK /\ Entries
  BY DEF ReferenceInv, RoundInv, TypeInv
<1>1. /\ tpc = "del" /\ tpc' = "patchMeta" /\ idx' = Dropped(cur.c)
      /\ UNCHANGED <<machine, claim, claimCache, listed, left, cur>>
      /\ data' = [data EXCEPT ![tgt.i] = DeletedData(data[tgt.i])]
  BY DEF deleteDataObject
<1>2. Copies'
  BY <1>0, <1>1 DEF Copies, Past, Dead
<1>3. \A d : ~Forgetting(d)
  BY <1>1 DEF Forgetting
<1>4. tgt.i \in Indexes /\ data[tgt.i] \in Data /\ cur.c \in Claims
  BY <1>0, <1>1 DEF TypeInv, AtHand, TypeOK
<1>5. /\ Remains(data'[tgt.i], data[tgt.i])
      /\ \A i \in Indexes : i # tgt.i => data'[i] = data[i]
  BY <1>0, <1>1, <1>4, DataRemains, ZenonT(40) DEF TypeOK
<1>6. /\ cur.c \notin left /\ listed[cur.c].ex /\ cur.rd = None
      /\ claim[cur.c].ex => claim[cur.c].rd = listed[cur.c].rd
      /\ data[tgt.i].ex => data[tgt.i].claim = cur.c
  BY <1>0, <1>1 DEF Current
<1>7. listed[cur.c].del /\ Dead(cur.c)
  BY <1>0, <1>1, <1>4 DEF Entries, Copies, Past
<1>8. claim[cur.c].ex => Forgetting(cur.c)'
  BY <1>1, <1>6, <1>7 DEF Forgetting
<1>9. References'
  <2> SUFFICES ASSUME NEW d \in Claims, claim[d].ex, claim[d].rd # None
               PROVE  LiveData(claim[d].rd, d)' \/ Forgetting(d)'
    BY <1>1 DEF References
  <2>1. LiveData(claim[d].rd, d) /\ claim[d].rd \in Indexes
    BY <1>0, <1>3 DEF References, TypeOK, Claim
  <2>2. CASE claim[d].rd = tgt.i
    <3>1. d = cur.c
      BY <1>6, <2>1, <2>2 DEF LiveData
    <3>2. QED
      BY <1>1, <1>8, <3>1 DEF Forgetting
  <2>3. CASE claim[d].rd # tgt.i
    BY <1>1, <1>5, <2>1, <2>3 DEF LiveData
  <2>4. QED
    BY <2>2, <2>3
<1>10. DeletedAreDead'
  <2> SUFFICES ASSUME NEW i \in Indexes, data'[i].ex, data'[i].del
               PROVE  /\ Dead(data[i].claim)'
                      /\ claim[data'[i].claim].ex =>
                            \/ claim[data'[i].claim].rd = None
                            \/ Forgetting(data[i].claim)'
    BY <1>1 DEF DeletedAreDead
  <2>1. CASE i = tgt.i
    <3>1. data'[i].claim = cur.c
      BY <1>5, <1>6, <2>1 DEF Remains
    <3>2. QED
      BY <1>1, <1>7, <1>8, <3>1 DEF Dead, Forgetting
  <2>2. CASE i # tgt.i
    BY <1>0, <1>1, <1>3, <1>5, <2>2 DEF DeletedAreDead, Dead
  <2>3. QED
    BY <2>1, <2>2
<1>11. idx' \subseteq idx /\ \A e \in idx : e[1] # cur.c => e \in idx'
  BY <1>0, <1>1, DroppedAreOwn DEF Entries, TypeOK
<1>12. Round'
  <2>1. ASSUME NEW e \in idx', listed[e[1]].ex, ~listed[e[1]].del, claim[e[1]].ex
        PROVE  LiveData(e[2], e[1])'
    <3>1. LiveData(e[2], e[1]) /\ e[2] \in Indexes /\ e[1] # cur.c
      BY <1>0, <1>7, <1>11, <2>1 DEF Round, TypeOK
    <3>2. e[2] # tgt.i
      BY <1>6, <3>1 DEF LiveData
    <3>3. QED
      BY <1>5, <3>1, <3>2 DEF LiveData
  <2>2. \A d \in left : listed[d].rd # None => <<d, listed[d].rd>> \in idx'
    BY <1>0, <1>6, <1>11 DEF Round
  <2>3. QED
    BY <1>0, <1>1, <2>1, <2>2 DEF Round, LiveData
<1>13. Current'
  BY <1>1, <1>6 DEF Current
<1>14. QED
  BY <1>2, <1>9, <1>10, <1>12, <1>13 DEF ReferenceInv

LEMMA ReferenceStatus ==
    ASSUME ReferenceInv, RoundInv', patchClaimStatus PROVE ReferenceInv'
<1>0. /\ RoundInv /\ Copies /\ References /\ DeletedAreDead /\ Round /\ Current
      /\ TypeInv /\ TypeOK /\ OneDataPerClaim
  BY DEF ReferenceInv, RoundInv, TypeInv
<1>1. /\ tpc = "patchStatus" /\ tpc' = "next"
      /\ UNCHANGED <<machine, claimCache, data, listed, left, idx>>
  BY DEF patchClaimStatus
<1>2. cur.c \in Claims /\ claim[cur.c] \in Claim
  BY <1>0, <1>1 DEF TypeInv, AtHand, TypeOK
<1>3. /\ \A d \in Claims : d # cur.c => claim'[d] = claim[d]
      /\ claim'[cur.c].ex = claim[cur.c].ex
      /\ claim'[cur.c].del = claim[cur.c].del
      /\ claim[cur.c].ex =>
            claim'[cur.c].rd = IF cur.rd # listed[cur.c].rd THEN cur.rd
                               ELSE claim[cur.c].rd
  <2> DEFINE n == [claim[cur.c] EXCEPT !.rd = cur.rd]
  <2>1. n.ex = claim[cur.c].ex /\ n.del = claim[cur.c].del /\ n.rd = cur.rd
    BY <1>2 DEF Claim
  <2>2. claim' = [claim EXCEPT ![cur.c] =
                    IF claim[cur.c].ex /\ cur.rd # listed[cur.c].rd
                    THEN n ELSE claim[cur.c]]
    BY DEF patchClaimStatus
  <2> HIDE DEF n
  <2>3. QED
    BY <1>0, <1>2, <2>1, <2>2 DEF TypeOK
<1>4. \A d \in Claims : claim'[d].ex = claim[d].ex /\ claim'[d].del = claim[d].del
  BY <1>3
<1>5. Copies'
  BY <1>0, <1>1, <1>4 DEF Copies, Past, Dead
<1>6. /\ cur.c \notin left /\ listed[cur.c].ex
      /\ claim[cur.c].ex => claim[cur.c].rd = listed[cur.c].rd
      /\ \/ cur.rd \in {None, listed[cur.c].rd}
         \/ <<cur.c, cur.rd>> \in idx /\ ~listed[cur.c].del
  BY <1>0, <1>1 DEF Current
\* The claim at hand: its reference, once written.
<1>7. ASSUME claim[cur.c].ex, claim'[cur.c].rd # None
      PROVE  LiveData(claim'[cur.c].rd, cur.c)
  <2>1. CASE cur.rd # listed[cur.c].rd
    <3>1. claim'[cur.c].rd = cur.rd /\ <<cur.c, cur.rd>> \in idx
          /\ ~listed[cur.c].del
      BY <1>3, <1>6, <1>7, <2>1
    <3>2. QED
      BY <1>0, <1>6, <1>7, <3>1 DEF Round
  <2>2. CASE cur.rd = listed[cur.c].rd
    <3>1. claim'[cur.c].rd = claim[cur.c].rd /\ cur.rd # None
      BY <1>3, <1>6, <1>7, <2>2
    <3>2. ~Forgetting(cur.c)
      BY <3>1 DEF Forgetting
    <3>3. QED
      BY <1>0, <1>2, <1>7, <3>1, <3>2 DEF References
  <2>3. QED
    BY <2>1, <2>2
<1>8. References'
  <2> SUFFICES ASSUME NEW d \in Claims, claim'[d].ex, claim'[d].rd # None
               PROVE  LiveData(claim'[d].rd, d)
    BY <1>1 DEF References, LiveData
  <2>1. CASE d = cur.c
    BY <1>3, <1>7, <2>1
  <2>2. CASE d # cur.c
    <3>1. ~Forgetting(d)
      BY <2>2 DEF Forgetting
    <3>2. QED
      BY <1>0, <1>3, <2>2, <3>1 DEF References
  <2>3. QED
    BY <2>1, <2>2
<1>9. DeletedAreDead'
  <2> SUFFICES ASSUME NEW i \in Indexes, data[i].ex, data[i].del
               PROVE  /\ Dead(data[i].claim)'
                      /\ claim'[data[i].claim].ex =>
                            claim'[data[i].claim].rd = None
    BY <1>1 DEF DeletedAreDead
  <2>1. PICK d \in Claims : d = data[i].claim
    BY <1>0 DEF TypeInv, AtHand
  <2>2. Dead(d) /\ (claim[d].ex => claim[d].rd = None \/ Forgetting(d))
    BY <1>0, <2>1 DEF DeletedAreDead
  <2>3. Dead(d)'
    BY <1>1, <1>4, <2>2 DEF Dead
  <2>4. ASSUME claim'[d].ex, claim'[d].rd # None PROVE FALSE
    <3>1. CASE d = cur.c
      <4>1. LiveData(claim'[d].rd, d)
        BY <1>3, <1>7, <2>4, <3>1
      <4>2. claim'[d].rd \in Indexes
        BY <2>4 DEF RoundInv, TypeInv, TypeOK, Claim
      <4>3. i = claim'[d].rd
        BY <1>0, <2>1, <4>1, <4>2 DEF OneDataPerClaim, LiveData
      <4>4. QED
        BY <4>1, <4>3 DEF LiveData
    <3>2. CASE d # cur.c
      BY <1>3, <2>2, <2>4, <3>2 DEF Forgetting
    <3>3. QED
      BY <3>1, <3>2
  <2>5. QED
    BY <1>1, <2>1, <2>3, <2>4 DEF Dead
<1>10. Round'
  <2>1. \A e \in idx : e[1] \in Claims
    BY <1>0 DEF TypeOK
  <2>2. \A d \in left : d \in Claims /\ d # cur.c
    BY <1>0, <1>6 DEF TypeOK
  <2>3. QED
    BY <1>0, <1>1, <1>3, <1>4, <2>1, <2>2 DEF Round, LiveData
<1>11. Current'
  BY <1>1 DEF Current
<1>12. QED
  BY <1>5, <1>8, <1>9, <1>10, <1>11 DEF ReferenceInv

LEMMA ReferenceWorker ==
    ASSUME ReferenceInv, RoundInv', FreshRound, TemplateWorker
    PROVE  ReferenceInv'
<1>0. /\ RoundInv /\ Copies /\ References /\ DeletedAreDead /\ Round /\ Current
      /\ TypeInv /\ TypeOK
  BY DEF ReferenceInv, RoundInv, TypeInv
<1>1. [Next]_vars
  BY DEF Next
<1>2. ASSUME NEW c \in Claims, OutOfIndexes(c) PROVE ReferenceInv'
  <2>1. /\ tpc = "next" /\ left' \subseteq left
        /\ UNCHANGED <<machine, claim, claimCache, data, listed, cur, idx, tgt,
                       tpc>>
    BY <1>2 DEF OutOfIndexes
  <2>2. \A d : ~Forgetting(d)
    BY <2>1 DEF Forgetting
  <2>3. Copies' /\ References'
    BY <1>0, <2>1, <2>2 DEF Copies, Past, Dead, References, LiveData
  <2>4. DeletedAreDead' /\ Round'
    BY <1>0, <2>1, <2>2 DEF DeletedAreDead, Dead, Round, LiveData
  <2>5. Current'
    BY <2>1 DEF Current
  <2>6. QED
    BY <2>3, <2>4, <2>5 DEF ReferenceInv
<1>3. CASE patchClaimMeta
  <2>1. /\ UNCHANGED <<listed, left, cur, idx, tgt>>
        /\ tpc = "patchMeta" /\ tpc' = "patchStatus"
        /\ claimCache' = claimCache /\ data' = data
    BY <1>3 DEF patchClaimMeta
  <2>2. RdKept
    BY <1>0, <1>1, <2>1, ClaimSteps DEF patchClaimStatus
  <2>3. \A i \in Indexes : Remains(data'[i], data[i]) /\ Lasts(i)
    BY <2>1 DEF Remains, Lasts
  <2>4. QED
    BY <1>1, <2>1, <2>2, <2>3, ReferenceOthers
<1>4. CASE patchTemplate
  <2>1. /\ tpc = "next" /\ left = {} /\ tpc' = "idle" /\ left' = left
        /\ UNCHANGED <<machine, claim, claimCache, data>>
        /\ idx' = {} /\ listed' = [c \in Claims |-> NoClaim]
    BY <1>4 DEF patchTemplate, endRound
  <2>2. \A d : ~Forgetting(d)
    BY <2>1 DEF Forgetting
  <2>3. Copies'
    BY <1>0, <1>1, <2>1, CopiesStep
  <2>4. References' /\ DeletedAreDead'
    BY <1>0, <2>1, <2>2 DEF References, LiveData, DeletedAreDead, Dead
  <2>5. Round' /\ Current'
    BY <2>1 DEF Round, Current
  <2>6. QED
    BY <2>3, <2>4, <2>5 DEF ReferenceInv
<1>5. QED
  BY <1>2, <1>3, <1>4, ReferenceUpdate, ReferenceCreate, ReferenceDelete,
     ReferenceFinalizer, ReferenceObject, ReferenceStatus DEF TemplateWorker

\* Faults, but for those between the deletion of a Metal3Data and the patch of
\* its claim's status.
LEMMA ReferenceFaults ==
    ASSUME ReferenceInv, RoundInv', [Next]_vars, ~Torn,
           \/ DataCallFails \/ ClaimPatchFails \/ TemplatePatchFails \/ Crash
           \/ \E i \in Indexes : DataWorkerFails(i)
    PROVE  ReferenceInv'
<1>0. /\ RoundInv /\ Copies /\ References /\ DeletedAreDead /\ Round /\ Current
      /\ TypeInv /\ TypeOK /\ Verdict
  BY DEF ReferenceInv, RoundInv, TypeInv
<1>1. CASE DataCallFails
  <2>1. /\ UNCHANGED <<machine, claim, claimCache, data, listed, idx>>
        /\ left' = {} /\ tpc' = "patchMeta" /\ tpc \in {"next", "fin", "del"}
    BY <1>1 DEF DataCallFails, Abort, apiNoData
  <2>2. \A d : ~Forgetting(d)
    BY <2>1 DEF Forgetting
  <2>3. Copies' /\ References'
    BY <1>0, <2>1, <2>2 DEF Copies, Past, Dead, References, LiveData
  <2>4. DeletedAreDead' /\ Round'
    BY <1>0, <2>1, <2>2 DEF DeletedAreDead, Dead, Round, LiveData
  <2>5. ASSUME tpc = "next" PROVE Current'
    <3>1. PICK c \in left : cur' = [c |-> c, cfin |-> TRUE, rd |-> None]
      BY <1>1, <2>5 DEF DataCallFails
    <3>2. cur'.c = c /\ cur'.rd = None
      BY <3>1
    <3>3. listed[c].ex /\ (claim[c].ex => claim[c].rd = listed[c].rd)
      BY <1>0 DEF Verdict, Round
    <3>4. QED
      BY <2>1, <3>2, <3>3 DEF Current
  <2>6. ASSUME tpc \in {"fin", "del"} PROVE Current'
    <3>1. cur'.c = cur.c /\ cur'.rd = listed[cur.c].rd
      BY <1>1, <2>6 DEF DataCallFails
    <3>2. QED
      BY <1>0, <2>1, <2>6, <3>1 DEF Current
  <2>7. QED
    BY <2>1, <2>3, <2>4, <2>5, <2>6 DEF ReferenceInv
<1>2. ASSUME UNCHANGED <<data, listed, left, cur, idx, tgt>>,
             UNCHANGED <<claim, claimCache>>,
             tpc' = tpc \/ (tpc = "patchMeta" /\ tpc' = "patchStatus")
      PROVE  ReferenceInv'
  BY <1>2, ReferenceOthers DEF RdKept, Remains, Lasts
<1>3. ASSUME NEW i \in Indexes, DataWorkerFails(i) PROVE ReferenceInv'
  BY <1>2, <1>3 DEF DataWorkerFails, apiNoData, tWork
<1>4. CASE ClaimPatchFails /\ tpc = "patchMeta"
  BY <1>2, <1>4 DEF ClaimPatchFails, apiNoData
\* The round has forgotten a reference, but the claim has not: excluded.
<1>5. ASSUME NEW c \in Claims, Forgetting(c), claim[c].rd # None,
             Crash \/ (tpc = "patchStatus" /\ ClaimPatchFails)
      PROVE  FALSE
  BY <1>5 DEF Torn, Forgetting
<1>6. ASSUME Crash \/ (tpc = "patchStatus" /\ ClaimPatchFails),
             UNCHANGED <<claim, data>>, \A c \in Claims : Dead(c)' <=> Dead(c)
      PROVE  References' /\ DeletedAreDead'
  <2>1. References'
    BY <1>0, <1>5, <1>6 DEF References, LiveData
  <2>2. ASSUME NEW i \in Indexes, data[i].ex, data[i].del
        PROVE  /\ Dead(data[i].claim)'
               /\ claim[data[i].claim].ex => claim[data[i].claim].rd = None
    <3>1. PICK c \in Claims : c = data[i].claim
      BY <1>0, <2>2 DEF TypeInv, AtHand
    <3>2. Dead(c)' /\ (claim[c].ex => claim[c].rd = None)
      BY <1>0, <1>5, <1>6, <2>2, <3>1 DEF DeletedAreDead
    <3>3. QED
      BY <1>6, <3>1, <3>2 DEF Dead
  <2>3. QED
    BY <1>6, <2>1, <2>2 DEF DeletedAreDead
<1>7. CASE ClaimPatchFails /\ tpc = "patchStatus"
  <2>1. /\ UNCHANGED <<machine, claim, claimCache, data, listed, left, idx>>
        /\ tpc' = "next"
    BY <1>7 DEF ClaimPatchFails, apiNoData
  <2>2. Copies' /\ Round' /\ Current'
    BY <1>0, <2>1 DEF Copies, Past, Dead, Round, LiveData, Current
  <2>3. References' /\ DeletedAreDead'
    BY <1>6, <1>7, <2>1 DEF Dead
  <2>4. QED
    BY <2>2, <2>3 DEF ReferenceInv
<1>8. CASE TemplatePatchFails
  <2>1. /\ tpc = "next" /\ left = {} /\ tpc' = "idle" /\ left' = left
        /\ UNCHANGED <<machine, claim, claimCache, data>>
        /\ idx' = {} /\ listed' = [c \in Claims |-> NoClaim]
    BY <1>8 DEF TemplatePatchFails, endRound, apiNoData
  <2>2. \A d : ~Forgetting(d)
    BY <2>1 DEF Forgetting
  <2>3. Copies'
    BY <1>0, <2>1, CopiesStep
  <2>4. References' /\ DeletedAreDead'
    BY <1>0, <2>1, <2>2 DEF References, LiveData, DeletedAreDead, Dead
  <2>5. Round' /\ Current'
    BY <2>1 DEF Round, Current
  <2>6. QED
    BY <2>3, <2>4, <2>5 DEF ReferenceInv
<1>9. CASE Crash
  <2>1. /\ tpc' = "idle" /\ left' = {} /\ idx' = {}
        /\ listed' = [c \in Claims |-> NoClaim] /\ claimCache' = claim
        /\ UNCHANGED <<claim, data>>
        /\ \A c \in Claims : machine'[c] = "running" <=> machine[c] = "running"
    BY <1>9 DEF Crash
  <2>2. Copies'
    BY <1>0, <2>1, CopiesStep
  <2>3. References' /\ DeletedAreDead'
    BY <1>6, <1>9, <2>1 DEF Dead
  <2>4. Round' /\ Current'
    BY <2>1 DEF Round, Current
  <2>5. QED
    BY <2>2, <2>3, <2>4 DEF ReferenceInv
<1>10. QED
  BY <1>1, <1>3, <1>4, <1>7, <1>8, <1>9 DEF ClaimPatchFails

\* A step that does nothing is not torn either.
LEMMA TornStep == [FreshRound /\ ~Torn]_vars => FreshRound /\ ~Torn
<1> SUFFICES ASSUME UNCHANGED vars PROVE FreshRound /\ ~Torn
  OBVIOUS
<1>1. FreshRound
  BY FreshStep
<1>2. ~Torn
  BY DEF Torn, Crash, ClaimPatchFails, vars, tWork
<1> QED
  BY <1>1, <1>2

LEMMA ReferenceStep ==
    ReferenceInv /\ [Next]_vars /\ [FreshRound /\ ~Torn]_vars => ReferenceInv'
<1> SUFFICES ASSUME ReferenceInv, [Next]_vars, FreshRound, ~Torn
             PROVE  ReferenceInv'
  BY TornStep
<1>1. RoundInv /\ RoundInv' /\ TypeInv
  BY RoundStep DEF ReferenceInv, RoundInv
<1>2. CASE TemplateWorker
  BY <1>1, <1>2, ReferenceWorker
<1>3. CASE Others
  <2>1. /\ UNCHANGED tWork /\ claimCache' \in {claimCache, claim}
        /\ \A i \in Indexes : Remains(data'[i], data[i])
        /\ \A i \in Indexes : Lasts(i)
        /\ ~patchClaimStatus
    BY <1>1, <1>3, OthersKeep
  <2>2. RdKept
    BY <1>1, <2>1, ClaimSteps
  <2>3. /\ UNCHANGED <<listed, left, cur, idx, tgt>> /\ tpc' = tpc
    BY <2>1 DEF tWork
  <2>4. QED
    BY <1>1, <2>1, <2>2, <2>3, ReferenceOthers
<1>4. QED
  BY <1>1, <1>2, <1>3, ReferenceFaults DEF Next, Others

\* The status of a live claim refers to a Metal3Data made for that claim, for
\* any claims, indexes, deletions, crashes and failed calls, if rounds start from
\* lists that are up to date and none ends between the deletion of a Metal3Data
\* and the patch of its claim (createData, deleteMetal3DataAndClaim).
THEOREM RenderedDataOwned ==
    Spec /\ [][FreshRound /\ ~Torn]_vars => []RenderedDataIsOwn
<1>1. Spec /\ [][FreshRound /\ ~Torn]_vars => []ReferenceInv
  BY ReferenceInit, ReferenceStep, PTL DEF Spec
<1>2. ReferenceInv => RenderedDataIsOwn
  <2> SUFFICES ASSUME ReferenceInv, NEW c \in Claims, claim[c].ex,
                      ~claim[c].del, claim[c].rd # None
               PROVE  data[claim[c].rd].ex /\ data[claim[c].rd].claim = c
    BY DEF RenderedDataIsOwn
  <2>1. LiveData(claim[c].rd, c) \/ Forgetting(c)
    BY DEF ReferenceInv, References
  <2>2. ~Forgetting(c)
    BY DEF ReferenceInv, Copies, Past, Dead, Forgetting
  <2>3. QED
    BY <2>1, <2>2 DEF LiveData
<1>3. QED
  BY <1>1, <1>2, PTL

----------------------------------------------------------------------------
(* The addresses of running machines, under the same assumptions and with   *)
(* Metal3Data that are read up to date.                                     *)

\* The IPClaim of a machine that runs is that of its Metal3Data, and kept.
Leases == \A i \in Indexes :
    LET l == lease[i]
    IN  /\ l.ex => l.owner \in Claims
        /\ l.ex /\ ~Dead(l.owner) =>
              /\ data[i].ex /\ data[i].claim = l.owner /\ ~l.del
              /\ dpc[i] # "idle" => dmem[i].claim = l.owner

\* A Metal3Data worker whose object was replaced works for a dead claim.
DataAtHand == \A i \in Indexes : dpc[i] # "idle" =>
    LET c == dmem[i].claim
    IN  \/ Dead(c)
        \/ /\ data[i].ex /\ data[i].claim = c
           /\ dpc[i] # "release"
           /\ dpc[i] = "secret" => lease[i].ex /\ lease[i].owner = c
                                   /\ lease[i].addr

\* A secret of a machine that runs is backed by its IPClaim.
Secrets == \A c \in Claims : secret[c] # None /\ ~Dead(c) =>
    LET l == lease[secret[c]] IN l.ex /\ l.owner = c /\ l.addr

LeaseInv == ReferenceInv /\ Leases /\ DataAtHand /\ Secrets

LEMMA LeaseInit == Init => LeaseInv
<1> SUFFICES ASSUME Init PROVE LeaseInv
  OBVIOUS
<1>1. Leases /\ DataAtHand /\ Secrets
  BY DEF Init, Leases, DataAtHand, Secrets, NoLease
<1>2. QED
  BY <1>1, ReferenceInit DEF LeaseInv

\* The Metal3Data of a live claim stays.
LiveDataStay ==
    \A i \in Indexes, c \in Claims :
        data[i].ex /\ data[i].claim = c /\ ~Dead(c)' =>
            data'[i].ex /\ data'[i].claim = c

LEMMA LiveDataStays ==
    ASSUME ReferenceInv, [Next]_vars
    PROVE  LiveDataStay /\ \A c \in Claims : Dead(c) => Dead(c)'
<1>0. /\ RoundInv /\ Copies /\ DeletedAreDead /\ Current
      /\ TypeInv /\ TypeOK /\ Entries
  BY DEF ReferenceInv, RoundInv, TypeInv
<1>1. \A c \in Claims : ClaimMoves(c)
  BY <1>0, ClaimSteps
<1>2. \A c \in Claims : Dead(c) => Dead(c)'
  BY <1>0, <1>1, DeadForGood
<1> SUFFICES ASSUME NEW i \in Indexes, NEW c \in Claims,
                    data[i].ex, data[i].claim = c, ~Dead(c)'
             PROVE  data'[i].ex /\ data'[i].claim = c
  BY <1>2 DEF LiveDataStay
<1>3. ~Dead(c) /\ ~data[i].del
  BY <1>0, <1>2 DEF DeletedAreDead
<1>4. CASE Others
  <2>1. Remains(data'[i], data[i]) /\ Lasts(i)
    BY <1>0, <1>4, OthersKeep
  <2>2. QED
    BY <1>3, <2>1 DEF Remains, Lasts, Dead
<1>5. ASSUME NEW d \in Claims, createData(d) PROVE data'[i] = data[i]
  BY <1>0, <1>5 DEF createData, TypeOK
<1>6. CASE deleteDataFinalizer
  <2> DEFINE q == [data[tgt.i] EXCEPT !.cfin = FALSE]
  <2>1. tgt.i \in Indexes /\ data[tgt.i] \in Data
    BY <1>0, <1>6 DEF TypeInv, AtHand, TypeOK, deleteDataFinalizer
  <2>2. /\ q.ex = data[tgt.i].ex /\ q.del = data[tgt.i].del
        /\ q.claim = data[tgt.i].claim
    BY <2>1 DEF Data
  <2>3. data' = data \/ data' = [data EXCEPT ![tgt.i] = SettleData(q)]
    BY <1>6 DEF deleteDataFinalizer
  <2> HIDE DEF q
  <2>4. QED
    BY <1>0, <1>3, <2>2, <2>3 DEF SettleData, TypeOK
<1>7. CASE deleteDataObject
  <2>1. tgt.i \in Indexes /\ cur.c \in Claims /\ tpc = "del"
        /\ data' = [data EXCEPT ![tgt.i] = DeletedData(data[tgt.i])]
    BY <1>0, <1>7 DEF TypeInv, AtHand, deleteDataObject
  <2>2. Dead(cur.c) /\ (data[tgt.i].ex => data[tgt.i].claim = cur.c)
    BY <1>0, <2>1 DEF Entries, Copies, Past, Current
  <2>3. i # tgt.i
    BY <1>3, <2>2
  <2>4. QED
    BY <1>0, <2>1, <2>3 DEF TypeOK
<1>8. ASSUME \/ UpdateDatas \/ patchClaimMeta \/ patchClaimStatus \/ patchTemplate
             \/ \E d \in Claims : OutOfIndexes(d) \/ deleteData(d)
             \/ DataCallFails \/ ClaimPatchFails \/ TemplatePatchFails \/ Crash
             \/ \E j \in Indexes : DataWorkerFails(j)
      PROVE  data' = data
  BY <1>8 DEF UpdateDatas, patchClaimMeta, patchClaimStatus, patchTemplate,
     OutOfIndexes, deleteData, DataCallFails, ClaimPatchFails,
     TemplatePatchFails, Crash, DataWorkerFails
<1>9. QED
  BY <1>4, <1>5, <1>6, <1>7, <1>8 DEF TemplateWorker, Next, Others

\* Steps that give no worker a new object, no machine a new secret and no
\* Metal3Data a new IPClaim.
LEMMA LeaseFrame ==
    ASSUME TypeInv, TypeInv', Leases, DataAtHand, Secrets, LiveDataStay,
           \A c \in Claims : Dead(c) => Dead(c)',
           \A j \in Indexes : /\ lease'[j].ex => lease[j].ex
                              /\ lease'[j].ex => lease'[j].owner = lease[j].owner,
           \A j \in Indexes : lease[j].ex /\ ~Dead(lease[j].owner) =>
               /\ lease'[j].ex /\ ~lease'[j].del
               /\ lease[j].addr => lease'[j].addr,
           \A j \in Indexes : dpc'[j] # "idle" =>
               /\ dpc[j] # "idle" /\ dmem'[j].claim = dmem[j].claim
               /\ dpc'[j] = "release" => dpc[j] = "release"
               /\ dpc'[j] = "secret" => dpc[j] = "secret",
           \A c \in Claims : secret'[c] \in {secret[c], None}
    PROVE  Leases' /\ DataAtHand' /\ Secrets'
<1>1. Leases'
  <2> SUFFICES ASSUME NEW i \in Indexes, lease'[i].ex
               PROVE  /\ lease'[i].owner \in Claims
                      /\ ~Dead(lease[i].owner)' =>
                            /\ data'[i].ex /\ data'[i].claim = lease'[i].owner
                            /\ ~lease'[i].del
                            /\ dpc'[i] # "idle" =>
                                  dmem'[i].claim = lease'[i].owner
    BY DEF Leases
  <2>1. PICK c \in Claims : c = lease[i].owner
    BY DEF Leases
  <2>2. lease'[i].owner = c /\ lease[i].ex
    BY <2>1
  <2>3. ASSUME ~Dead(c)'
        PROVE  /\ data'[i].ex /\ data'[i].claim = c /\ ~lease'[i].del
               /\ dpc'[i] # "idle" => dmem'[i].claim = c
    <3>1. ~Dead(c)
      BY <2>3
    <3>2. /\ data[i].ex /\ data[i].claim = c
          /\ dpc[i] # "idle" => dmem[i].claim = c
      BY <2>1, <2>2, <3>1 DEF Leases
    <3>3. QED
      BY <2>1, <2>2, <2>3, <3>1, <3>2 DEF LiveDataStay
  <2>4. QED
    BY <2>2, <2>3 DEF Dead
<1>2. DataAtHand'
  <2> SUFFICES ASSUME NEW i \in Indexes, dpc'[i] # "idle",
                      ~Dead(dmem[i].claim)'
               PROVE  /\ data'[i].ex /\ data'[i].claim = dmem'[i].claim
                      /\ dpc'[i] # "release"
                      /\ dpc'[i] = "secret" =>
                            /\ lease'[i].ex /\ lease'[i].owner = dmem'[i].claim
                            /\ lease'[i].addr
    BY DEF DataAtHand
  <2>1. dpc[i] # "idle" /\ dmem'[i].claim = dmem[i].claim
    OBVIOUS
  <2>2. PICK c \in Claims : c = dmem[i].claim
    BY <2>1 DEF TypeInv, AtHand
  <2>3. ~Dead(c)' /\ ~Dead(c)
    BY <2>1, <2>2 DEF Dead
  <2>4. /\ data[i].ex /\ data[i].claim = c /\ dpc[i] # "release"
        /\ dpc[i] = "secret" => lease[i].ex /\ lease[i].owner = c /\ lease[i].addr
    BY <2>1, <2>2, <2>3 DEF DataAtHand
  <2>5. QED
    BY <2>1, <2>2, <2>3, <2>4 DEF LiveDataStay
<1>3. Secrets'
  <2> SUFFICES ASSUME NEW c \in Claims, secret'[c] # None, ~Dead(c)'
               PROVE  /\ lease'[secret'[c]].ex /\ lease'[secret'[c]].owner = c
                      /\ lease'[secret'[c]].addr
    BY DEF Secrets
  <2>1. secret'[c] = secret[c] /\ ~Dead(c)
    OBVIOUS
  <2>2. PICK i \in Indexes : i = secret[c]
    BY <2>1 DEF TypeInv, TypeOK
  <2>3. lease[i].ex /\ lease[i].owner = c /\ lease[i].addr
    BY <2>1, <2>2 DEF Secrets
  <2>4. QED
    BY <2>1, <2>2, <2>3
<1>4. QED
  BY <1>1, <1>2, <1>3

LEMMA LeaseOwners ==
    ASSUME NEW o \in Lease
    PROVE  \A p \in {SettleLease([o EXCEPT !.fin = FALSE]),
                     SettleLease([o EXCEPT !.fin = FALSE, !.del = TRUE]),
                     SettleLease([o EXCEPT !.addr = FALSE]), DeletedLease(o),
                     [o EXCEPT !.seen = TRUE], [o EXCEPT !.addr = TRUE]} :
               p.ex => o.ex /\ p.owner = o.owner
<1>1. \A p : SettleLease(p).ex => SettleLease(p) = p
  BY DEF SettleLease, NoLease
<1>2. /\ [o EXCEPT !.fin = FALSE].ex = o.ex
      /\ [o EXCEPT !.fin = FALSE].owner = o.owner
      /\ [o EXCEPT !.fin = FALSE, !.del = TRUE].ex = o.ex
      /\ [o EXCEPT !.fin = FALSE, !.del = TRUE].owner = o.owner
      /\ [o EXCEPT !.addr = FALSE].ex = o.ex
      /\ [o EXCEPT !.addr = FALSE].owner = o.owner
      /\ [o EXCEPT !.del = TRUE].ex = o.ex
      /\ [o EXCEPT !.del = TRUE].owner = o.owner
      /\ [o EXCEPT !.seen = TRUE].ex = o.ex
      /\ [o EXCEPT !.seen = TRUE].owner = o.owner
      /\ [o EXCEPT !.addr = TRUE].ex = o.ex
      /\ [o EXCEPT !.addr = TRUE].owner = o.owner
  BY DEF Lease
<1>3. DeletedLease(o) \in {o, SettleLease([o EXCEPT !.del = TRUE])}
  BY DEF DeletedLease
<1>4. ASSUME NEW q, q.ex = o.ex, q.owner = o.owner
      PROVE  SettleLease(q).ex => o.ex /\ SettleLease(q).owner = o.owner
  BY <1>1, <1>4
<1>5. DeletedLease(o).ex => o.ex /\ DeletedLease(o).owner = o.owner
  BY ZenonT(40), <1>2, <1>3, <1>4
<1> DEFINE Of(p) == p.ex => o.ex /\ p.owner = o.owner
<1>6. Of(SettleLease([o EXCEPT !.fin = FALSE]))
  BY <1>2, <1>4
<1>7. Of(SettleLease([o EXCEPT !.fin = FALSE, !.del = TRUE]))
  BY <1>2, <1>4
<1>8. Of(SettleLease([o EXCEPT !.addr = FALSE]))
  BY <1>2, <1>4
<1>9. Of(DeletedLease(o)) /\ Of([o EXCEPT !.seen = TRUE])
      /\ Of([o EXCEPT !.addr = TRUE])
  BY <1>2, <1>5
<1> HIDE DEF Of
<1>10. QED
  BY <1>6, <1>7, <1>8, <1>9 DEF Of

\* The first and second branch of ensureIPClaim, DataRead and createSecrets.
LEMMA LeaseWorker ==
    ASSUME LeaseInv, FreshRead, Pool = TRUE, TypeInv', NEW i \in Indexes,
           LiveDataStay, \A c \in Claims : Dead(c) => Dead(c)',
           DataRead(i) \/ ensureIPClaim(i) \/ createSecrets(i) \/ ReleaseLeases(i)
    PROVE  Leases' /\ DataAtHand' /\ Secrets'
<1>0. /\ ReferenceInv /\ Leases /\ DataAtHand /\ Secrets /\ TypeInv /\ TypeOK
      /\ DeletedAreDead /\ lease[i] \in Lease /\ dmem[i] \in Data
  BY DEF LeaseInv, ReferenceInv, RoundInv, TypeInv, TypeOK
<1>1. UNCHANGED <<machine, claim, data>>
  BY DEF DataRead, ensureIPClaim, createSecrets, ReleaseLeases, apiNoData
<1>a. \A c : Dead(c)' <=> Dead(c)
  BY <1>1 DEF Dead
<1>2. CASE DataRead(i)
  <2> DEFINE d == data[i]
             m == [d EXCEPT !.dfin = TRUE, !.ready = FALSE]
  <2>1. dataCache[i] = data[i]
    BY <1>2 DEF FreshRead
  <2>2. m.claim = d.claim /\ secretExists(m).claim = d.claim
    BY <1>0 DEF Data, secretExists, TypeOK
  <2>3. /\ d.ex /\ UNCHANGED <<lease, secret>>
        /\ \E x \in {d, m, secretExists(m)}, p \in {"release", "patchMeta", "lease"} :
              /\ dmem' = [dmem EXCEPT ![i] = x] /\ dpc' = [dpc EXCEPT ![i] = p]
              /\ p = "release" => d.del
    BY <1>2, <2>1 DEF DataRead
  <2> HIDE DEF m
  <2>4. PICK x \in {d, m, secretExists(m)}, p \in {"release", "patchMeta", "lease"} :
              /\ dmem' = [dmem EXCEPT ![i] = x] /\ dpc' = [dpc EXCEPT ![i] = p]
              /\ p = "release" => d.del
    BY <2>3
  <2>5. /\ dmem'[i].claim = d.claim /\ dpc'[i] = p
        /\ \A j \in Indexes : j # i => dmem'[j] = dmem[j] /\ dpc'[j] = dpc[j]
    BY <1>0, <2>2, <2>4 DEF TypeOK
  <2>6. Leases'
    BY <1>0, <1>1, <1>a, <2>3, <2>5 DEF Leases, Dead
  <2>7. DataAtHand'
    <3> SUFFICES ASSUME NEW j \in Indexes, dpc'[j] # "idle"
                 PROVE  \/ Dead(dmem'[j].claim)
                        \/ /\ data[j].ex /\ data[j].claim = dmem'[j].claim
                           /\ dpc'[j] # "release"
                           /\ dpc'[j] = "secret" =>
                                /\ lease[j].ex /\ lease[j].owner = dmem'[j].claim
                                /\ lease[j].addr
      BY <1>1, <2>3 DEF DataAtHand, Dead
    <3>1. CASE j = i
      BY <1>0, <2>3, <2>4, <2>5, <3>1 DEF DeletedAreDead
    <3>2. CASE j # i
      BY <1>0, <2>5, <3>2 DEF DataAtHand
    <3>3. QED
      BY <3>1, <3>2
  <2>8. Secrets'
    BY <1>0, <1>a, <2>3 DEF Secrets
  <2>9. QED
    BY <2>6, <2>7, <2>8
<1>3. CASE createSecrets(i)
  <2>1. /\ dpc[i] = "secret" /\ lease' = lease
        /\ secret' = [secret EXCEPT ![dmem[i].claim] = i]
        /\ dmem' = [dmem EXCEPT ![i] = [dmem[i] EXCEPT !.ready = TRUE]]
        /\ dpc' = [dpc EXCEPT ![i] = "patchMeta"]
    BY <1>3 DEF createSecrets
  <2>2. [dmem[i] EXCEPT !.ready = TRUE].claim = dmem[i].claim
    BY <1>0 DEF Data
  <2>3. \A j \in Indexes : dmem'[j].claim = dmem[j].claim /\
              (dpc'[j] = dpc[j] \/ (dpc'[j] = "patchMeta" /\ dpc[j] # "idle"))
    BY <1>0, <2>1, <2>2 DEF TypeOK
  <2>4. Leases' /\ DataAtHand'
    BY <1>0, <1>1, <1>a, <2>1, <2>3 DEF Leases, DataAtHand, Dead
  <2>5. Secrets'
    <3> SUFFICES ASSUME NEW c \in Claims, secret'[c] # None, ~Dead(c)
                 PROVE  /\ lease[secret'[c]].ex /\ lease[secret'[c]].owner = c
                        /\ lease[secret'[c]].addr
      BY <1>a, <2>1 DEF Secrets
    <3>1. CASE c = dmem[i].claim
      <4>1. secret'[c] = i
        BY <1>0, <2>1, <3>1 DEF TypeOK
      <4>2. QED
        BY <1>0, <2>1, <3>1, <4>1 DEF DataAtHand
    <3>2. CASE c # dmem[i].claim
      BY <1>0, <2>1, <3>2 DEF Secrets, TypeOK
    <3>3. QED
      BY <3>1, <3>2
  <2>6. QED
    BY <2>4, <2>5
<1>4. CASE ReleaseLeases(i)
  <2> DEFINE n == SettleLease([lease[i] EXCEPT !.fin = FALSE, !.del = TRUE])
  <2>1. /\ dpc[i] = "release" /\ secret' = secret
        /\ lease' \in {lease, [lease EXCEPT ![i] = n]}
        /\ dmem' = [dmem EXCEPT ![i] = [dmem[i] EXCEPT !.dfin = FALSE]]
        /\ dpc' = [dpc EXCEPT ![i] = "patchMeta"]
    BY <1>4 DEF ReleaseLeases
  <2>2. [dmem[i] EXCEPT !.dfin = FALSE].claim = dmem[i].claim
    BY <1>0 DEF Data
  <2>3. \A j \in Indexes : dmem'[j].claim = dmem[j].claim /\
              (dpc'[j] = dpc[j] \/ (dpc'[j] = "patchMeta" /\ dpc[j] # "idle"))
    BY <1>0, <2>1, <2>2 DEF TypeOK
  <2>4. n.ex => lease[i].ex /\ n.owner = lease[i].owner
    BY <1>0, LeaseOwners
  <2>5. ~(lease[i].ex /\ ~Dead(lease[i].owner))
    BY <1>0, <2>1 DEF Leases, DataAtHand
  <2> HIDE DEF n
  <2>6. /\ \A j \in Indexes : /\ lease'[j].ex => lease[j].ex
                              /\ lease'[j].ex => lease'[j].owner = lease[j].owner
        /\ \A j \in Indexes : j # i => lease'[j] = lease[j]
    BY <1>0, <2>1, <2>4 DEF TypeOK
  <2>7. \A j \in Indexes : lease[j].ex /\ ~Dead(lease[j].owner) =>
               /\ lease'[j].ex /\ ~lease'[j].del
               /\ lease[j].addr => lease'[j].addr
    BY <1>0, <2>5, <2>6 DEF Leases
  <2>8. QED
    BY <1>0, <2>1, <2>3, <2>6, <2>7, LeaseFrame
<1>5. CASE ensureIPClaim(i)
  <2> DEFINE c == dmem[i].claim
  <2>0. /\ dpc[i] = "lease" /\ c \in Claims /\ UNCHANGED <<secret, dmem>>
    BY <1>0, <1>5 DEF ensureIPClaim, TypeInv, AtHand
  <2>1. CASE ~lease[i].ex
    <3> DEFINE n == [NoLease EXCEPT !.ex = TRUE, !.fin = TRUE, !.owner = c]
    <3>1. lease' = [lease EXCEPT ![i] = n] /\ dpc' = dpc
      BY <1>5, <2>1 DEF ensureIPClaim, usable
    <3>2. n.ex /\ n.owner = c /\ ~n.del
      BY DEF NoLease
    <3> HIDE DEF n
    <3>3. lease'[i] = n /\ \A j \in Indexes : j # i => lease'[j] = lease[j]
      BY <1>0, <3>1 DEF TypeOK
    <3>4. ~Dead(c) => data[i].ex /\ data[i].claim = c
      BY <1>0, <2>0 DEF DataAtHand
    <3>5. Leases'
      <4> SUFFICES ASSUME NEW j \in Indexes, lease'[j].ex
                   PROVE  /\ lease'[j].owner \in Claims
                          /\ ~Dead(lease'[j].owner) =>
                              /\ data[j].ex /\ data[j].claim = lease'[j].owner
                              /\ ~lease'[j].del
                              /\ dpc[j] # "idle" => dmem[j].claim = lease'[j].owner
        BY <1>1, <1>a, <2>0, <3>1 DEF Leases, Dead
      <4>1. CASE j = i
        BY <2>0, <3>2, <3>3, <3>4, <4>1
      <4>2. CASE j # i
        BY <1>0, <3>3, <4>2 DEF Leases
      <4>3. QED
        BY <4>1, <4>2
    <3>6. DataAtHand'
      BY <1>0, <1>1, <1>a, <2>0, <3>1, <3>3 DEF DataAtHand, Dead
    <3>7. Secrets'
      BY <1>0, <1>a, <2>0, <2>1, <3>3 DEF Secrets, TypeOK
    <3>8. QED
      BY <3>5, <3>6, <3>7
  <2>2. CASE usable(lease[i], c)
    <3>1. lease' = lease /\ dpc' = [dpc EXCEPT ![i] = "secret"]
      BY <1>5, <2>2 DEF ensureIPClaim, usable
    <3>2. \A j \in Indexes : dpc'[j] = dpc[j] \/ (j = i /\ dpc'[j] = "secret")
      BY <1>0, <3>1 DEF TypeOK
    <3>3. Leases' /\ Secrets'
      BY <1>0, <1>1, <1>a, <2>0, <3>1, <3>2 DEF Leases, Secrets, Dead
    <3>4. DataAtHand'
      BY <1>0, <1>1, <1>a, <2>0, <2>2, <3>1, <3>2 DEF DataAtHand, Dead, usable
    <3>5. QED
      BY <3>3, <3>4
  <2>3. CASE lease[i].ex /\ ~usable(lease[i], c)
    <3> DEFINE n == SettleLease([lease[i] EXCEPT !.fin = FALSE])
    <3>1. /\ lease' = lease \/ (lease[i].del /\ lease' = [lease EXCEPT ![i] = n])
          /\ dpc' = [dpc EXCEPT ![i] = "patchMeta"]
      BY <1>5, <2>3 DEF ensureIPClaim, leftBehind
    <3>2. n.ex => lease[i].ex /\ n.owner = lease[i].owner
      BY <1>0, LeaseOwners
    <3> HIDE DEF n
    <3>3. \A j \in Indexes : /\ lease'[j].ex => lease[j].ex
                             /\ lease'[j].ex => lease'[j].owner = lease[j].owner
                             /\ lease'[j] = lease[j] \/ lease[j].del
      BY <1>0, <3>1, <3>2 DEF TypeOK
    <3>4. \A j \in Indexes : lease[j].ex /\ ~Dead(lease[j].owner) =>
               /\ lease'[j].ex /\ ~lease'[j].del
               /\ lease[j].addr => lease'[j].addr
      BY <1>0, <3>3 DEF Leases
    <3>5. \A j \in Indexes :
              dpc'[j] = dpc[j] \/ (dpc'[j] = "patchMeta" /\ dpc[j] # "idle")
      BY <1>0, <2>0, <3>1 DEF TypeOK
    <3>6. QED
      BY <1>0, <2>0, <3>3, <3>4, <3>5, LeaseFrame
  <2>4. QED
    BY <2>1, <2>2, <2>3
<1>6. QED
  BY <1>2, <1>3, <1>4, <1>5

LEMMA LeaseStep ==
    ASSUME Pool = TRUE
    PROVE  LeaseInv /\ [Next]_vars /\ [FreshRound /\ FreshRead /\ ~Torn]_vars
               => LeaseInv'
<1> SUFFICES ASSUME LeaseInv, [Next]_vars,
                    [FreshRound /\ FreshRead /\ ~Torn]_vars
             PROVE  LeaseInv'
  OBVIOUS
\* A step that does nothing reads nothing.
<1>a. [FreshRound /\ ~Torn]_vars /\ FreshRead
  <2>1. UNCHANGED vars => FreshRead
    <3> SUFFICES ASSUME UNCHANGED vars, NEW i \in Indexes, DataRead(i)
                 PROVE  FALSE
      BY DEF FreshRead
    <3>1. /\ dpc[i] = "idle" /\ dpc' = dpc
          /\ \E x \in {"release", "patchMeta", "lease", "secret"} :
                dpc' = [dpc EXCEPT ![i] = x]
      BY DEF DataRead, vars, dWork
    <3>2. dpc \in [Indexes -> {"idle", "lease", "secret", "release",
                               "patchMeta", "patchStatus"}]
      BY DEF LeaseInv, ReferenceInv, RoundInv, TypeInv, TypeOK
    <3> QED
      BY <3>1, <3>2
  <2> QED
    BY <2>1
<1>0. /\ ReferenceInv /\ Leases /\ DataAtHand /\ Secrets /\ TypeInv /\ TypeOK
      /\ ReferenceInv' /\ TypeInv' /\ LiveDataStay
      /\ \A c \in Claims : Dead(c) => Dead(c)'
  <2>1. /\ ReferenceInv /\ Leases /\ DataAtHand /\ Secrets /\ TypeInv /\ TypeOK
    BY DEF LeaseInv, ReferenceInv, RoundInv, TypeInv
  <2>2. ReferenceInv'
    BY <1>a, <2>1, ReferenceStep
  <2>3. QED
    BY <2>1, <2>2, StepTypes, LiveDataStays
<1> DEFINE Goal == Leases' /\ DataAtHand' /\ Secrets'
\* Steps that leave leases, secrets and Metal3Data workers alone.
<1>1. ASSUME UNCHANGED <<lease, secret, dpc, dmem>> PROVE Goal
  <2>1. \A j \in Indexes : lease[j].ex /\ ~Dead(lease[j].owner) => ~lease[j].del
    BY <1>0 DEF Leases
  <2>2. QED
    BY <1>0, <1>1, <2>1, LeaseFrame
\* Steps on one IPClaim: a live one is not deleted.
<1>2. ASSUME NEW i \in Indexes, NEW n, lease' = [lease EXCEPT ![i] = n],
             UNCHANGED <<secret, dpc, dmem>>,
             n.ex => lease[i].ex /\ n.owner = lease[i].owner,
             lease[i].ex /\ ~Dead(lease[i].owner) =>
                 n.ex /\ ~n.del /\ (lease[i].addr => n.addr)
      PROVE  Goal
  <2>1. lease'[i] = n /\ \A j \in Indexes : j # i => lease'[j] = lease[j]
    BY <1>0, <1>2 DEF TypeOK
  <2>2. \A j \in Indexes : /\ lease'[j].ex => lease[j].ex
                           /\ lease'[j].ex => lease'[j].owner = lease[j].owner
    BY <1>2, <2>1
  <2>3. \A j \in Indexes : lease[j].ex /\ ~Dead(lease[j].owner) =>
               /\ lease'[j].ex /\ ~lease'[j].del
               /\ lease[j].addr => lease'[j].addr
    BY <1>0, <1>2, <2>1 DEF Leases
  <2>4. QED
    BY <1>0, <1>2, <2>2, <2>3, LeaseFrame
<1>3. ASSUME NEW i \in Indexes,
             LeaseSync(i) \/ CollectLease(i) \/ Allocate(i) \/ Free(i)
      PROVE  Goal
  <2>0. /\ lease[i] \in Lease
        /\ lease[i].ex /\ ~Dead(lease[i].owner) =>
              data[i].ex /\ data[i].claim = lease[i].owner /\ ~lease[i].del
    BY <1>0 DEF Leases, TypeOK
  <2>a. UNCHANGED <<secret, dpc, dmem>>
    BY <1>3 DEF LeaseSync, CollectLease, Allocate, Free, dWork
  <2>1. CASE LeaseSync(i)
    <3> DEFINE n == [lease[i] EXCEPT !.seen = TRUE]
    <3>1. lease' = [lease EXCEPT ![i] = n]
      BY <2>1 DEF LeaseSync
    <3>2. /\ n.ex = lease[i].ex /\ n.owner = lease[i].owner
          /\ n.del = lease[i].del /\ n.addr = lease[i].addr
      BY <2>0 DEF Lease
    <3> HIDE DEF n
    <3>3. QED
      BY <1>2, <2>0, <2>a, <3>1, <3>2
  <2>2. CASE Allocate(i)
    <3> DEFINE n == [lease[i] EXCEPT !.addr = TRUE]
    <3>1. lease' = [lease EXCEPT ![i] = n]
      BY <2>2 DEF Allocate
    <3>2. /\ n.ex = lease[i].ex /\ n.owner = lease[i].owner
          /\ n.del = lease[i].del /\ n.addr
      BY <2>0 DEF Lease
    <3> HIDE DEF n
    <3>3. QED
      BY <1>2, <2>0, <2>a, <3>1, <3>2
  <2>3. CASE CollectLease(i)
    <3> DEFINE n == DeletedLease(lease[i])
    <3>1. lease' = [lease EXCEPT ![i] = n]
      BY <2>3 DEF CollectLease
    <3>2. n.ex => lease[i].ex /\ n.owner = lease[i].owner
      BY <2>0, LeaseOwners
    <3>3. ~(lease[i].ex /\ ~Dead(lease[i].owner))
      BY <2>0, <2>3 DEF CollectLease
    <3> HIDE DEF n
    <3>4. QED
      BY <1>2, <2>a, <3>1, <3>2, <3>3
  <2>4. CASE Free(i)
    <3> DEFINE n == SettleLease([lease[i] EXCEPT !.addr = FALSE])
    <3>1. lease' = [lease EXCEPT ![i] = n]
      BY <2>4 DEF Free
    <3>2. n.ex => lease[i].ex /\ n.owner = lease[i].owner
      BY <2>0, LeaseOwners
    <3>3. ~(lease[i].ex /\ ~Dead(lease[i].owner))
      BY <2>0, <2>4 DEF Free
    <3> HIDE DEF n
    <3>4. QED
      BY <1>2, <2>a, <3>1, <3>2, <3>3
  <2>5. QED
    BY <1>3, <2>1, <2>2, <2>3, <2>4
<1>4. ASSUME NEW c \in Claims, CollectSecret(c) PROVE Goal
  <2>1. /\ UNCHANGED <<lease, dpc, dmem>>
        /\ \A d \in Claims : secret'[d] \in {secret[d], None}
    BY <1>0, <1>4 DEF CollectSecret, dWork, TypeOK
  <2>2. \A j \in Indexes : lease[j].ex /\ ~Dead(lease[j].owner) => ~lease[j].del
    BY <1>0 DEF Leases
  <2>3. QED
    BY <1>0, <2>1, <2>2, LeaseFrame
<1>5. ASSUME NEW i \in Indexes, patchDataMeta(i) \/ patchDataStatus(i)
      PROVE  Goal
  <2>1. /\ UNCHANGED <<lease, secret>>
        /\ \A j \in Indexes : dpc'[j] # "idle" =>
              /\ dpc[j] # "idle" /\ dmem'[j].claim = dmem[j].claim
              /\ dpc'[j] \in {dpc[j], "patchStatus"}
    BY <1>0, <1>5 DEF patchDataMeta, patchDataStatus, DataIdle, TypeOK
  <2>2. \A j \in Indexes : lease[j].ex /\ ~Dead(lease[j].owner) => ~lease[j].del
    BY <1>0 DEF Leases
  <2>3. QED
    BY <1>0, <2>1, <2>2, LeaseFrame
<1>6. ASSUME NEW i \in Indexes, DataWorker(i) PROVE Goal
  BY <1>0, <1>5, <1>6, <1>a, LeaseWorker DEF DataWorker
<1>7. ASSUME NEW c \in Claims,
             \/ MachineWorker(c) \/ MachineRequeued(c) \/ DeleteMachine(c)
             \/ createData(c) \/ OutOfIndexes(c) \/ deleteData(c)
             \/ CollectClaim(c)
      PROVE  Goal
  BY <1>1, <1>7 DEF MachineWorker, AssociateM3Metadata, Dissociate,
     DissociateDelete, MachineGone, MachineRequeued, DeleteMachine, createData,
     OutOfIndexes, deleteData, CollectClaim, dWork
<1>8. ASSUME NEW i \in Indexes, CollectData(i) PROVE Goal
  BY <1>1, <1>8 DEF CollectData, dWork
<1>9. ASSUME \/ UpdateDatas \/ deleteDataFinalizer \/ deleteDataObject
             \/ patchClaimMeta \/ patchClaimStatus \/ patchTemplate
             \/ DeleteTemplate \/ ClaimSync \/ DataSync \/ UNCHANGED vars
      PROVE  Goal
  BY <1>1, <1>9 DEF UpdateDatas, deleteDataFinalizer, deleteDataObject,
     patchClaimMeta, patchClaimStatus, patchTemplate, DeleteTemplate, ClaimSync,
     DataSync, vars, dWork
<1>10. ASSUME DataCallFails \/ ClaimPatchFails \/ TemplatePatchFails PROVE Goal
  BY <1>1, <1>10 DEF DataCallFails, ClaimPatchFails, TemplatePatchFails, dWork
<1>11. ASSUME NEW i \in Indexes, DataWorkerFails(i) PROVE Goal
  <2>1. /\ UNCHANGED <<lease, secret>>
        /\ \A j \in Indexes : dpc'[j] # "idle" =>
              /\ dpc[j] # "idle" /\ dmem'[j].claim = dmem[j].claim
              /\ dpc'[j] \in {dpc[j], "patchMeta", "patchStatus"}
    BY <1>0, <1>11 DEF DataWorkerFails, DataIdle, TypeOK
  <2>2. \A j \in Indexes : lease[j].ex /\ ~Dead(lease[j].owner) => ~lease[j].del
    BY <1>0 DEF Leases
  <2>3. QED
    BY <1>0, <2>1, <2>2, LeaseFrame
<1>12. ASSUME Crash PROVE Goal
  <2>1. /\ \A j \in Indexes : dpc'[j] = "idle"
        /\ secret' = secret
        /\ \A j \in Indexes :
              lease'[j] = [lease[j] EXCEPT !.seen = lease[j].ex]
    BY <1>12 DEF Crash
  <2>2. \A j \in Indexes :
            /\ lease'[j].ex = lease[j].ex /\ lease'[j].owner = lease[j].owner
            /\ lease'[j].del = lease[j].del /\ lease'[j].addr = lease[j].addr
    <3> SUFFICES ASSUME NEW j \in Indexes
                 PROVE  /\ lease'[j].ex = lease[j].ex
                        /\ lease'[j].owner = lease[j].owner
                        /\ lease'[j].del = lease[j].del
                        /\ lease'[j].addr = lease[j].addr
      OBVIOUS
    <3>1. lease[j] \in Lease
      BY <1>0 DEF TypeOK
    <3>2. lease'[j] = [lease[j] EXCEPT !.seen = lease[j].ex]
      BY <2>1
    <3>3. QED
      BY <3>1, <3>2 DEF Lease
  <2>3. \A j \in Indexes : lease[j].ex /\ ~Dead(lease[j].owner) => ~lease[j].del
    BY <1>0 DEF Leases
  <2>4. QED
    BY <1>0, <2>1, <2>2, <2>3, LeaseFrame
<1> HIDE DEF Goal
<1>13. Goal
  BY <1>3, <1>4, <1>6, <1>7, <1>8, <1>9, <1>10, <1>11, <1>12
     DEF Next, TemplateWorker, Environment
<1>14. QED
  BY <1>0, <1>13 DEF Goal, LeaseInv

\* An address rendered into the secret of a machine that is not being deleted
\* stays allocated to that machine's Metal3Data, for any claims, indexes,
\* deletions, crashes and failed calls, under the same assumptions and if a
\* Metal3Data is read up to date, its claim and the others perhaps not
\* (ReleaseLeases, and the test for the claim before it).
THEOREM AddressesAreHeld ==
    ASSUME Pool = TRUE
    PROVE  Spec /\ [][FreshRound /\ FreshRead /\ ~Torn]_vars
               => []AddressHeldWhileRunning
<1>1. LeaseInv /\ [Next]_vars /\ [FreshRound /\ FreshRead /\ ~Torn]_vars
          => LeaseInv'
  BY LeaseStep
<1>2. Spec /\ [][FreshRound /\ FreshRead /\ ~Torn]_vars => []LeaseInv
  BY LeaseInit, <1>1, PTL DEF Spec
<1>3. LeaseInv => AddressHeldWhileRunning
  BY DEF LeaseInv, Secrets, Dead, AddressHeldWhileRunning
<1>4. QED
  BY <1>2, <1>3, PTL

----------------------------------------------------------------------------
(* One Metal3Data per claim while no machine is deleted, with caches that   *)
(* may be behind and any faults: Metal3Data fill the indexes from 0, and a  *)
(* round that has not seen the last of them is refused by the API server.   *)

Filled ==
    /\ \A i, j \in Indexes : data[i].ex /\ j < i => data[j].ex
    /\ \A i \in Indexes : data[i].ex => ~data[i].del
    /\ \A i \in Indexes : dataCache[i].ex =>
          data[i].ex /\ data[i].claim = dataCache[i].claim
    /\ \A e \in idx : data[e[2]].ex /\ data[e[2]].claim = e[1]
    /\ tpc \notin {"fin", "del"}

NoneDeleted ==
    \A c \in Claims : /\ machine[c] = "running" /\ ~claim[c].del
                      /\ ~claimCache[c].del /\ ~listed[c].del

StayInv == TypeInv /\ NoneDeleted /\ Filled /\ OneDataPerClaim

LEMMA StayInit == Init => StayInv
<1> SUFFICES ASSUME Init PROVE StayInv
  OBVIOUS
<1>1. ~NoClaim.del /\ ~NoData.ex
  BY DEF NoClaim, NoData
<1>2. NoneDeleted /\ Filled /\ OneDataPerClaim
  BY <1>1 DEF Init, NoneDeleted, Filled, OneDataPerClaim
<1>3. QED
  BY <1>2, InitTypes DEF StayInv

LEMMA MachinesStay ==
    ASSUME Deletable \cap Claims = {}, TypeInv, NoneDeleted, [Next]_vars
    PROVE  NoneDeleted'
<1>1. \A c \in Claims : machine'[c] = "running"
  BY DEF NoneDeleted, Next, vars, MachineWorker, AssociateM3Metadata, Dissociate,
     DissociateDelete, MachineGone, MachineRequeued, DeleteMachine,
     TemplateWorker, UpdateDatas, createData, OutOfIndexes, deleteData,
     deleteDataFinalizer, deleteDataObject, patchClaimMeta, patchClaimStatus,
     patchTemplate, DeleteTemplate, DataWorker, DataRead, ensureIPClaim,
     createSecrets, ReleaseLeases, patchDataMeta, patchDataStatus,
     DataWorkerFails, apiNoData, Environment, ClaimSync, DataSync, LeaseSync,
     CollectData, CollectLease, Allocate, Free, CollectClaim, CollectSecret,
     DataCallFails, ClaimPatchFails, TemplatePatchFails, Crash
<1>2. \A c \in Claims : ~claim'[c].del
  BY <1>1, ClaimSteps DEF ClaimMoves, NoneDeleted
<1>3. claimCache' \in {claimCache, claim}
  <2>1. Others => claimCache' \in {claimCache, claim}
    BY OthersKeep
  <2>2. TemplateWorker => claimCache' = claimCache
    BY DEF TemplateWorker, UpdateDatas, createData, OutOfIndexes, deleteData,
       deleteDataFinalizer, deleteDataObject, patchClaimMeta, patchClaimStatus,
       patchTemplate
  <2>3. ASSUME \/ DataCallFails \/ ClaimPatchFails \/ TemplatePatchFails \/ Crash
               \/ \E i \in Indexes : DataWorkerFails(i)
        PROVE  claimCache' \in {claimCache, claim}
    BY <2>3 DEF DataCallFails, ClaimPatchFails, TemplatePatchFails, Crash,
       DataWorkerFails, apiNoData
  <2>4. QED
    BY <2>1, <2>2, <2>3 DEF Next, Others
<1>4. listed' \in {listed, claimCache, [c \in Claims |-> NoClaim]}
  <2>1. Others => listed' = listed
    BY OthersKeep DEF tWork
  <2>2. TemplateWorker => listed' \in {listed, claimCache, [c \in Claims |-> NoClaim]}
    BY DEF TemplateWorker, UpdateDatas, createData, OutOfIndexes, deleteData,
       deleteDataFinalizer, deleteDataObject, patchClaimMeta, patchClaimStatus,
       patchTemplate, endRound
  <2>3. ASSUME \/ DataCallFails \/ ClaimPatchFails \/ TemplatePatchFails \/ Crash
               \/ \E i \in Indexes : DataWorkerFails(i)
        PROVE  listed' \in {listed, [c \in Claims |-> NoClaim]}
    BY <2>3 DEF DataCallFails, ClaimPatchFails, TemplatePatchFails, Crash,
       DataWorkerFails, endRound, tWork
  <2>4. QED
    BY <2>1, <2>2, <2>3 DEF Next, Others
<1>5. ~NoClaim.del
  BY DEF NoClaim
<1>6. QED
  BY <1>1, <1>2, <1>3, <1>4, <1>5 DEF NoneDeleted

\* Steps that make no Metal3Data.
LEMMA StayFrame ==
    ASSUME StayInv, TypeInv', NoneDeleted',
           \A i \in Indexes : data[i].ex =>
               data'[i].ex /\ ~data'[i].del /\ data'[i].claim = data[i].claim,
           \A i \in Indexes : data'[i].ex => data[i].ex,
           dataCache' \in {dataCache, data},
           \/ idx' \subseteq idx
           \/ idx' = {<<dataCache[i].claim, i>> :
                        i \in {j \in Indexes : dataCache[j].ex}},
           tpc' \notin {"fin", "del"}
    PROVE  StayInv'
<1>0. TypeOK /\ Filled /\ OneDataPerClaim
  BY DEF StayInv, TypeInv
<1>1. OneDataPerClaim'
  BY <1>0 DEF OneDataPerClaim
<1>2. \A e \in idx' : data[e[2]].ex /\ data[e[2]].claim = e[1] /\ e[2] \in Indexes
  <2>1. CASE idx' \subseteq idx
    BY <1>0, <2>1 DEF Filled, TypeOK
  <2>2. CASE idx' = {<<dataCache[i].claim, i>> :
                        i \in {j \in Indexes : dataCache[j].ex}}
    BY <1>0, <2>2 DEF Filled
  <2>3. QED
    BY <2>1, <2>2
<1>3. \A e \in idx' : data'[e[2]].ex /\ data'[e[2]].claim = e[1]
  BY <1>2
<1>4. \A i \in Indexes : dataCache'[i].ex =>
          data'[i].ex /\ data'[i].claim = dataCache'[i].claim
  BY <1>0 DEF Filled
<1>5. /\ \A i, j \in Indexes : data'[i].ex /\ j < i => data'[j].ex
      /\ \A i \in Indexes : data'[i].ex => ~data'[i].del
  BY <1>0 DEF Filled
<1>6. QED
  BY <1>1, <1>3, <1>4, <1>5 DEF StayInv, Filled

LEMMA StayStep ==
    ASSUME Deletable \cap Claims = {}
    PROVE  StayInv /\ [Next]_vars => StayInv'
<1> SUFFICES ASSUME StayInv, [Next]_vars PROVE StayInv'
  OBVIOUS
<1>0. /\ TypeInv /\ TypeOK /\ AtHand /\ NoneDeleted /\ Filled /\ OneDataPerClaim
      /\ TypeInv' /\ NoneDeleted'
  <2>1. TypeInv /\ TypeOK /\ AtHand /\ NoneDeleted /\ Filled /\ OneDataPerClaim
    BY DEF StayInv, TypeInv
  <2>2. QED
    BY <2>1, StepTypes, MachinesStay
<1>1. CASE Others
  <2>1. /\ UNCHANGED tWork
        /\ \A i \in Indexes : Remains(data'[i], data[i]) /\ Lasts(i)
    BY <1>0, <1>1, OthersKeep
  <2>2. \A i \in Indexes : data[i].ex =>
           data'[i].ex /\ ~data'[i].del /\ data'[i].claim = data[i].claim
    <3> SUFFICES ASSUME NEW i \in Indexes, data[i].ex
                 PROVE  data'[i].ex /\ ~data'[i].del
                        /\ data'[i].claim = data[i].claim
      OBVIOUS
    <3>1. machine[data[i].claim] = "running" /\ ~data[i].del
      BY <1>0 DEF AtHand, NoneDeleted, Filled
    <3>2. QED
      BY <2>1, <3>1 DEF Remains, Lasts
  <2>3. \A i \in Indexes : data'[i].ex => data[i].ex
    BY <2>1 DEF Remains
  <2>4. dataCache' \in {dataCache, data}
    BY <1>1 DEF Others, MachineWorker, AssociateM3Metadata, Dissociate,
       DissociateDelete, MachineGone, MachineRequeued, DeleteMachine,
       DeleteTemplate, DataWorker, DataRead, ensureIPClaim, createSecrets,
       ReleaseLeases, patchDataMeta, patchDataStatus, apiNoData, Environment,
       ClaimSync, DataSync, LeaseSync, CollectData, CollectLease, Allocate,
       Free, CollectClaim, CollectSecret, vars
  <2>5. idx' = idx /\ tpc' = tpc /\ tpc \notin {"fin", "del"}
    BY <1>0, <2>1 DEF tWork, Filled
  <2>6. QED
    BY <1>0, <2>2, <2>3, <2>4, <2>5, StayFrame
<1>2. ASSUME UNCHANGED data, dataCache' \in {dataCache, data},
             \/ idx' \subseteq idx
             \/ idx' = {<<dataCache[i].claim, i>> :
                          i \in {j \in Indexes : dataCache[j].ex}},
             tpc' \notin {"fin", "del"}
      PROVE  StayInv'
  <2>1. \A i \in Indexes : data[i].ex =>
           data'[i].ex /\ ~data'[i].del /\ data'[i].claim = data[i].claim
    BY <1>0, <1>2 DEF Filled
  <2>2. QED
    BY <1>0, <1>2, <2>1, StayFrame
<1>3. CASE UpdateDatas
  BY <1>2, <1>3 DEF UpdateDatas
<1>4. ASSUME NEW c \in Claims, deleteData(c) PROVE FALSE
  BY <1>0, <1>4 DEF deleteData, NoneDeleted
<1>5. ~deleteDataFinalizer /\ ~deleteDataObject
  BY <1>0 DEF Filled, deleteDataFinalizer, deleteDataObject
<1>6. ASSUME NEW c \in Claims, OutOfIndexes(c) PROVE StayInv'
  BY <1>2, <1>6 DEF OutOfIndexes
<1>7. CASE patchClaimMeta \/ patchClaimStatus \/ patchTemplate
  BY <1>2, <1>7 DEF patchClaimMeta, patchClaimStatus, patchTemplate, endRound
<1>8. CASE DataCallFails \/ ClaimPatchFails \/ TemplatePatchFails \/ Crash
  BY <1>2, <1>8 DEF DataCallFails, ClaimPatchFails, TemplatePatchFails, Crash,
     endRound, apiNoData
<1>9. ASSUME NEW i \in Indexes, DataWorkerFails(i) PROVE StayInv'
  BY <1>0, <1>2, <1>9 DEF DataWorkerFails, apiNoData, tWork, Filled
<1>10. ASSUME NEW c \in Claims, createData(c) PROVE StayInv'
  <2>1. tpc' = "patchMeta" /\ dataCache' = dataCache
    BY <1>10 DEF createData
  <2>2. CASE UNCHANGED <<data, idx>>
    BY <1>2, <2>1, <2>2
  <2>3. CASE /\ EntriesOf(c) = {} /\ FreeIndex \in Indexes
             /\ ~data[FreeIndex].ex
             /\ data' = [data EXCEPT ![FreeIndex] =
                   [NoData EXCEPT !.ex = TRUE, !.cfin = TRUE, !.claim = c]]
             /\ idx' = idx \cup {newEntry(c)}
    <3> DEFINE n == [NoData EXCEPT !.ex = TRUE, !.cfin = TRUE, !.claim = c]
    <3>1. n.ex /\ ~n.del /\ n.claim = c
      BY DEF NoData
    <3> HIDE DEF n
    <3>2. /\ data'[FreeIndex] = n
          /\ \A i \in Indexes : i # FreeIndex => data'[i] = data[i]
      BY <1>0, <2>3 DEF TypeOK, n
    <3>3. /\ FreeIndex \in Nat
          /\ \A i \in Nat : i < FreeIndex => \E e \in idx : e[2] = i
      BY <1>0, FreeIndexIsFree DEF TypeOK, AtHand
    <3>4. Indexes \subseteq Nat
      BY DataAssumption DEF Indexes
    <3>5. ASSUME NEW i \in Indexes, data[i].ex
          PROVE  i < FreeIndex /\ data[i].claim # c
      <4>1. i < FreeIndex
        <5> SUFFICES ASSUME ~(i < FreeIndex) PROVE FALSE
          OBVIOUS
        <5>1. i = FreeIndex \/ FreeIndex < i
          BY <3>3, <3>4
        <5>2. QED
          BY <1>0, <2>3, <3>5, <5>1 DEF Filled
      <4>2. PICK e \in idx : e[2] = i
        BY <3>3, <3>4, <4>1
      <4>3. data[i].claim = e[1]
        BY <1>0, <4>2 DEF Filled
      <4>4. e[1] # c
        BY <2>3, <4>2 DEF EntriesOf
      <4>5. QED
        BY <4>1, <4>3, <4>4
    <3>6. ASSUME NEW j \in Indexes, j < FreeIndex PROVE data[j].ex
      <4>1. PICK e \in idx : e[2] = j
        BY <3>3, <3>4, <3>6
      <4>2. QED
        BY <1>0, <4>1 DEF Filled
    <3>7. OneDataPerClaim'
      <4> SUFFICES ASSUME NEW i \in Indexes, NEW j \in Indexes, data'[i].ex,
                          data'[j].ex, data'[i].claim = data'[j].claim
                   PROVE  i = j
        BY DEF OneDataPerClaim
      <4>1. CASE i = FreeIndex \/ j = FreeIndex
        BY <3>1, <3>2, <3>5, <4>1
      <4>2. CASE i # FreeIndex /\ j # FreeIndex
        BY <1>0, <3>2, <4>2 DEF OneDataPerClaim
      <4>3. QED
        BY <4>1, <4>2
    <3>8. \A i, j \in Indexes : data'[i].ex /\ j < i => data'[j].ex
      <4> SUFFICES ASSUME NEW i \in Indexes, NEW j \in Indexes, data'[i].ex, j < i
                   PROVE  data'[j].ex
        OBVIOUS
      <4>1. CASE i = FreeIndex
        BY <3>2, <3>3, <3>4, <3>6, <4>1
      <4>2. CASE i # FreeIndex
        BY <1>0, <3>1, <3>2, <4>2 DEF Filled
      <4>3. QED
        BY <4>1, <4>2
    <3>9. \A i \in Indexes : /\ data'[i].ex => ~data'[i].del
                             /\ data[i].ex => data'[i] = data[i]
      <4> SUFFICES ASSUME NEW i \in Indexes
                   PROVE  /\ data'[i].ex => ~data'[i].del
                          /\ data[i].ex => data'[i] = data[i]
        OBVIOUS
      <4>1. CASE i = FreeIndex
        <5>1. ~data[i].ex /\ data'[i] = n
          BY <2>3, <3>2, <4>1
        <5>2. QED
          BY <3>1, <5>1
      <4>2. CASE i # FreeIndex
        BY <1>0, <3>2, <4>2 DEF Filled
      <4>3. QED
        BY <4>1, <4>2
    <3>10. \A e \in idx' : data'[e[2]].ex /\ data'[e[2]].claim = e[1]
      <4>1. \A e \in idx : e[2] \in Indexes /\ data[e[2]].ex
                           /\ data[e[2]].claim = e[1]
        BY <1>0 DEF Filled, TypeOK
      <4>2. \A e \in idx : data'[e[2]].ex /\ data'[e[2]].claim = e[1]
        BY <3>9, <4>1
      <4>3. QED
        BY <2>3, <3>1, <3>2, <4>2 DEF newEntry
    <3>11. \A i \in Indexes : dataCache'[i].ex =>
              data'[i].ex /\ data'[i].claim = dataCache'[i].claim
      BY <1>0, <2>1, <3>9 DEF Filled
    <3>12. QED
      BY <1>0, <2>1, <3>7, <3>8, <3>9, <3>10, <3>11 DEF StayInv, Filled
  <2>4. QED
    BY <1>10, <2>2, <2>3 DEF createData
<1>11. QED
  BY <1>1, <1>3, <1>4, <1>5, <1>6, <1>7, <1>8, <1>9, <1>10
     DEF Next, TemplateWorker, Others

\* While no machine is deleted a claim has one Metal3Data, however far behind
\* the caches are and whichever calls fail: a round that has not seen the last
\* Metal3Data picks an index that is taken and is refused (createData).
THEOREM StaleRoundsAreRefused ==
    ASSUME Deletable \cap Claims = {} PROVE Spec => []OneDataPerClaim
<1>1. StayInv /\ [Next]_vars => StayInv'
  BY StayStep
<1>2. Spec => []StayInv
  BY StayInit, <1>1, PTL DEF Spec
<1>3. StayInv => OneDataPerClaim
  BY DEF StayInv
<1>4. QED
  BY <1>2, <1>3, PTL

============================================================================
