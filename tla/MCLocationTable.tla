-------------------------- MODULE MCLocationTable --------------------------
(* Small instances of LocationTable for TLC. *)
EXTENDS LocationTable

CONSTANTS self, n1, n2

=============================================================================
