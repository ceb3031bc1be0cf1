--------------------------- MODULE MCDataTemplate ---------------------------
(* Instances of DataTemplate for TLC. *)
EXTENDS DataTemplate

CONSTANTS c1, c2

MCTwoClaims == {c1, c2}

\* c2 was rendered from index 0, deleted, and its Metal3Data is gone.  Its
\* IPClaim may be gone too, may still hold the address, or was not released at
\* all: the informer had not seen it, and it has its finalizer.
MCLeftLeases ==
    {NoLease}
    \cup {l \in Lease : l.ex /\ l.owner = c2 /\ l.fin}
    \cup {l \in Lease : l.ex /\ l.owner = c2 /\ l.del /\ l.seen /\ ~l.fin /\ l.addr}
MCAfterDeletion ==
    /\ machine = [c \in Claims |-> IF c = c2 THEN "gone" ELSE "running"]
    /\ template = "normal"
    /\ \E l \in MCLeftLeases :
           lease = [i \in Indexes |-> IF i = 0 THEN l ELSE NoLease]
    /\ claim = [c \in Claims |-> NoClaim] /\ claimCache = claim /\ listed = claim
    /\ data = [i \in Indexes |-> NoData] /\ dataCache = data
    /\ dmem = data /\ dbase = data
    /\ secret = [c \in Claims |-> None]
    /\ tpc = "idle" /\ left = {} /\ cur = NoWork /\ idx = {}
    /\ tgt = NoTarget /\ verdict = "keep"
    /\ dpc = [i \in Indexes |-> "idle"]
    /\ faults = 0
MCSecondUse == MCAfterDeletion /\ [][Next]_vars /\ Fairness

\* What users delete.
MCNothing == {}
MCOneMachine == {c1}
MCMachineAndTemplate == {c1, "template"}
=============================================================================
