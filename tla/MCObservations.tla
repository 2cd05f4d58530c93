--------------------------- MODULE MCObservations ---------------------------
(***************************************************************************)
(* A small instance of Observations for TLC.                               *)
(***************************************************************************)
EXTENDS Observations, TLC

CONSTANTS r1, r2

Interchangeable == Permutations(Domain) \cup Permutations(Boot)

\* The summaries of the two recordings differ in size.
Sizes == [r \in Recording |-> IF r = r1 THEN 1 ELSE 2]

\* At the limit of the lax policy, and beyond that of the strict one.
AtTheLimit == {[sample_count |-> 2, max_absolute_skew |-> 3]}

Shared == [method |-> "shared_clock_identity"]
Lax    == [method |-> "measured_skew", minimum_samples |-> 2, maximum_absolute_skew |-> 3]
Strict == [method |-> "measured_skew", minimum_samples |-> 2, maximum_absolute_skew |-> 2]

SharedOrMeasured == {Shared, Lax, Strict}

\* Relations and summaries are judged apart from each other: searched apart.
OneConcern ==
  \/ \A e \in Known : e.kind # "recording"
  \/ policy = Shared /\ \A e \in Known : e.kind = "recording"
=============================================================================
