------------------------------- MODULE Status -------------------------------
(***************************************************************************)
(* The outcome lattice every document of this library reports in, and the  *)
(* fold the library uses wherever several outcomes become one: a result    *)
(* over its assertions, an aggregate over its domains, a transport         *)
(* qualification over its relations, channels and chains.                  *)
(* Source: status.py.                                                      *)
(***************************************************************************)
EXTENDS Naturals

\* Declaration order of the StrEnum, least severe first.
StatusPriority ==
  [passed |-> 0, skipped |-> 1, cancelled |-> 2,
   incomplete |-> 3, failed |-> 4, error |-> 5]

OutcomeStatus ==
  {"passed", "skipped", "cancelled", "incomplete", "failed", "error"}

\* worst_status: the collection is non-empty (the code raises otherwise) and
\* only which outcomes occur in it matters.
WorstStatus(S) ==
  CHOOSE s \in S : \A t \in S : StatusPriority[t] <= StatusPriority[s]

\* collapse_cancelled = True.
Collapse(s) == IF s = "cancelled" THEN "incomplete" ELSE s

CollapsedWorst(S) == Collapse(WorstStatus(S))
=============================================================================
