------------------------- MODULE MCRetainedEvidence -------------------------
(***************************************************************************)
(* A small instance of RetainedEvidence for TLC.                           *)
(***************************************************************************)
EXTENDS RetainedEvidence, TLC

\* No constant tells producers, or bytes, apart.
Interchangeable == Permutations(Producer) \cup Permutations(Bytes)
=============================================================================
