-------------------------- MODULE MCRetrievalIndex --------------------------
(* Instances of RetrievalIndex for TLC. *)
EXTENDS RetrievalIndex

CONSTANTS v1, v2, s1, s2
=============================================================================
