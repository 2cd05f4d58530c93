--------------------------- MODULE ChannelPolicy ---------------------------
(***************************************************************************)
(* When the observation of a transport channel is well formed, which       *)
(* violations its counters imply under the delivery section of its         *)
(* contract, and which status follows.  Source: qualification_policy.py,   *)
(* semantics.py (_validate_transport_channel_observation) and              *)
(* _qualification.py (_validate_channel_delivery).                         *)
(*                                                                         *)
(* Ratios are exact fractions: [of |-> n, in |-> m] stands for n / m.  The *)
(* code compares floats within 1e-12, below the difference of any two      *)
(* ratios of counters under a million.                                     *)
(***************************************************************************)
EXTENDS Integers

ErrorViolations ==
  {"ambiguous_message_id", "invalid_observation", "observation_window_exceeded"}

IncompleteViolations == {"insufficient_messages"}

FailedViolations ==
  {"loss_ratio_exceeded", "duplicate_count_exceeded", "out_of_order_count_exceeded",
   "message_age_exceeded"}

Violation == ErrorViolations \cup IncompleteViolations \cup FailedViolations

ChannelStatus(codes) ==
  IF codes = {} THEN "passed"
  ELSE IF codes \cap ErrorViolations # {} THEN "error"
  ELSE IF codes \subseteq IncompleteViolations THEN "incomplete"
  ELSE "failed"

\* The contract's delivery section.
Delivery ==
  [minimum_source_messages : Nat \ {0}, max_loss_ratio : [of : Nat, in : Nat \ {0}],
   max_duplicate_count : Nat, max_out_of_order_count : Nat,
   max_message_age : Nat, observation_window : Nat \ {0}]

AtMost(ratio, limit) == ratio.of * limit.in <= limit.of * ratio.in

\* The thresholds an observation misses.
Missed(delivery, o) ==
  {code \in Violation :
    \/ code = "insufficient_messages" /\ o.sent_count < delivery.minimum_source_messages
    \/ code = "loss_ratio_exceeded" /\ ~ AtMost(o.loss_ratio, delivery.max_loss_ratio)
    \/ code = "duplicate_count_exceeded"
         /\ o.duplicate_count > delivery.max_duplicate_count
    \/ code = "out_of_order_count_exceeded"
         /\ o.out_of_order_count > delivery.max_out_of_order_count
    \/ code = "message_age_exceeded" /\ o.max_message_age > delivery.max_message_age
    \/ code = "observation_window_exceeded"
         /\ o.finished_at - o.started_at > delivery.observation_window}

\* slip: the observer's word is taken for the thresholds
DerivedFromErrors(delivery, o) == o.violations \cap ErrorViolations

\* The thresholds are recomputed; of what the observer reported, only the
\* error codes are believed.
DerivedViolations(delivery, o) ==
  Missed(delivery, o) \cup (o.violations \cap ErrorViolations)

\* The contract and the observation agree.
AgreesWithContract(delivery, o) ==
  /\ o.violations = DerivedViolations(delivery, o)
  /\ o.status = ChannelStatus(DerivedViolations(delivery, o))

Counter == {"sent_count", "received_count", "lost_count", "duplicate_count"}

\* slip: duplicates are left out of the balance
CountersBalanceUnique(o) ==
  /\ o.lost_count <= o.sent_count
  /\ o.received_count >= o.sent_count - o.lost_count
  /\ o.out_of_order_count <= o.sent_count - o.lost_count

\* slip: one message arrives in order
CountersBalanceStrict(o) ==
  /\ o.lost_count <= o.sent_count
  /\ o.received_count = o.sent_count - o.lost_count + o.duplicate_count
  /\ o.out_of_order_count < o.sent_count - o.lost_count

CountersBalance(o) ==
  /\ o.lost_count <= o.sent_count
  /\ o.received_count = o.sent_count - o.lost_count + o.duplicate_count
  /\ o.out_of_order_count <= o.sent_count - o.lost_count

RatioFits(o) ==
  IF o.sent_count = 0 THEN o.loss_ratio.of = 0
  ELSE o.loss_ratio.of * o.sent_count = o.lost_count * o.loss_ratio.in

ObservationWellFormed(o) ==
  /\ o.started_at < o.finished_at
  /\ CountersBalance(o)
  /\ o.status = "passed" => o.sent_count > 0
  /\ RatioFits(o)
=============================================================================
