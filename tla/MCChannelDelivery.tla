------------------------- MODULE MCChannelDelivery -------------------------
(***************************************************************************)
(* Small instances of ChannelDelivery for TLC.                             *)
(***************************************************************************)
EXTENDS ChannelDelivery

\* Every threshold at its strictest, and one that tolerates a bit of each.
Strict ==
  [minimum_source_messages |-> 1, max_loss_ratio |-> [of |-> 0, in |-> 1],
   max_duplicate_count |-> 0, max_out_of_order_count |-> 0,
   max_message_age |-> 0, observation_window |-> 1]

Tolerant ==
  [minimum_source_messages |-> 2, max_loss_ratio |-> [of |-> 1, in |-> 2],
   max_duplicate_count |-> 1, max_out_of_order_count |-> 1,
   max_message_age |-> 1, observation_window |-> 2]

StrictAndTolerant == {Strict, Tolerant}
=============================================================================
