--------------------------- MODULE MCRemediation ---------------------------
(* Instances of Remediation for TLC. *)
EXTENDS Remediation

AllModes == {"delete", "taint", "forbidden"}
=============================================================================
