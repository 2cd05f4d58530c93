---------------------------- MODULE MCTransport ----------------------------
(***************************************************************************)
(* Small instances of Transport for TLC.                                   *)
(***************************************************************************)
EXTENDS TransportProperties

CONSTANTS d1, d2, outside, c1, c2, r1, r2, h1

\* One channel from d1 to d2, one chain over it, and a clock relation.
OneChannel ==
  [ends |-> [p \in Probe |-> <<d1, d2>>], route |-> [h \in Chain |-> <<c1>>],
   requires |-> [h \in Chain |-> {d1, d2}]]

\* Another version: the channel runs the other way, the clock relation does
\* not, and the chain forgets one of the domains it crosses.
Turned == [OneChannel EXCEPT !.ends[c1] = <<d2, d1>>, !.requires[h1] = {d2}]

OneChannelLayouts == {OneChannel, Turned}

OnlyOneChannel == {OneChannel}

\* A channel that ends outside the run.
Leaving ==
  [OneChannel EXCEPT !.ends = [p \in Probe |-> <<d1, outside>>],
                     !.requires[h1] = {d1, outside}]

LeavingLayouts == {Leaving}

\* Everything happens once.
Once == [x \in Edited |-> 1]

\* The first domain may be executed again.
FirstAgain == [x \in Edited |-> IF x = d1 THEN 2 ELSE 1]
=============================================================================
