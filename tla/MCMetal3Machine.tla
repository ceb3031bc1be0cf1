-------------------------- MODULE MCMetal3Machine --------------------------
(* Small instances of Metal3Machine. *)
EXTENDS Metal3Machine, TLC

CONSTANTS m1, m2, h1, h2, d1, d2

\* Two machines of one deployment; every host suits every machine.
OneDeployment == [m \in Machines |-> d1]
TwoDeployments == [m \in Machines |-> IF m = m1 THEN d1 ELSE d2]
AllHosts == [m \in Machines |-> Hosts]
NoDomain == [m \in Machines |-> {}]
FirstDomain == [m \in Machines |-> IF m = m1 THEN {h1} ELSE {}]

MachineHostSymmetry == Permutations(Machines) \cup Permutations(Hosts)

=============================================================================
