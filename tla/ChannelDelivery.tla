-------------------------- MODULE ChannelDelivery --------------------------
(***************************************************************************)
(* One observation of one channel: a producer sends over a network that    *)
(* loses, repeats, delays and reorders messages; an observer counts what   *)
(* it sees at both ends until it stops, and may get one of its counters    *)
(* wrong; the validator judges the counters without seeing the messages.   *)
(* Producer, network and observer are external.                            *)
(***************************************************************************)
EXTENDS ChannelPolicy, Sequences, FiniteSets, FiniteSetsExt

CONSTANTS
  Deliveries,   \* contracts to try
  MaxSent,      \* bound: messages sent
  MaxReceived,  \* bound: messages delivered
  MaxClock      \* bound: the wall clock

ASSUME ChannelDeliveryConstants ==
  /\ Deliveries \subseteq Delivery
  /\ MaxSent \in Nat /\ MaxReceived \in Nat /\ MaxClock \in Nat

VARIABLES
  delivery,     \* the contract
  clock,
  sent,         \* <<time message n was sent>>
  received,     \* <<[message, at]>>, in order of arrival
  observation,  \* the report, or None
  slip,         \* ghost: the counter the observer got wrong, or "none"
  verdict

vars == <<delivery, clock, sent, received, observation, slip, verdict>>

None == [absent |-> TRUE]

-----------------------------------------------------------------------------
(* Producer and network (external).                                        *)

Observing == observation = None

Send ==
  /\ Observing /\ Len(sent) < MaxSent
  /\ sent' = Append(sent, clock)
  /\ UNCHANGED <<delivery, clock, received, observation, slip, verdict>>

\* Any message sent so far arrives, again or for the first time.  One that
\* never does is lost.
Deliver ==
  /\ Observing /\ Len(received) < MaxReceived
  /\ \E n \in DOMAIN sent : received' = Append(received, [message |-> n, at |-> clock])
  /\ UNCHANGED <<delivery, clock, sent, observation, slip, verdict>>

Tick ==
  /\ Observing /\ clock < MaxClock
  /\ clock' = clock + 1
  /\ UNCHANGED <<delivery, sent, received, observation, slip, verdict>>

-----------------------------------------------------------------------------
(* The observer (external).                                                *)

First(i) == \A j \in 1..(i - 1) : received[j].message # received[i].message

Arrivals == {i \in DOMAIN received : First(i)}

OutOfOrder ==
  {i \in Arrivals : \E j \in 1..(i - 1) : received[j].message > received[i].message}

Ages == {received[i].at - sent[received[i].message] : i \in DOMAIN received}

Lost == Len(sent) - Cardinality(Arrivals)

Counted ==
  [started_at |-> 0, finished_at |-> clock,
   sent_count |-> Len(sent), received_count |-> Len(received),
   lost_count |-> Lost, duplicate_count |-> Len(received) - Cardinality(Arrivals),
   out_of_order_count |-> Cardinality(OutOfOrder),
   loss_ratio |-> IF sent = <<>> THEN [of |-> 0, in |-> 1]
                                 ELSE [of |-> Lost, in |-> Len(sent)],
   max_message_age |-> IF Ages = {} THEN 0 ELSE Max(Ages),
   violations |-> {}, status |-> "passed"]

\* The observer applies the policy to its own counters, after adding the
\* errors only it can know of (ambiguous identifiers, invalid samples).
Report(o, errors) ==
  LET noted == [o EXCEPT !.violations = errors]
      codes == DerivedViolations(delivery, noted)
  IN  [o EXCEPT !.violations = codes, !.status = ChannelStatus(codes)]

StopObserving ==
  /\ Observing /\ clock > 0
  /\ \E errors \in SUBSET {"ambiguous_message_id"} :
       \/ /\ observation' = Report(Counted, errors)
          /\ slip' = "none"
       \/ \E c \in Counter, step \in {-1, 1} :
            /\ Counted[c] + step >= 0
            /\ observation' = Report([Counted EXCEPT ![c] = @ + step], errors)
            /\ slip' = c
  /\ UNCHANGED <<delivery, clock, sent, received, verdict>>

-----------------------------------------------------------------------------
(* The validator: the document on its own, then against its contract.      *)

Valid(o) == ObservationWellFormed(o) /\ AgreesWithContract(delivery, o)

Validate ==
  /\ observation # None /\ verdict = "none"
  /\ verdict' = IF Valid(observation) THEN "accepted" ELSE "rejected"
  /\ UNCHANGED <<delivery, clock, sent, received, observation, slip>>

Init ==
  /\ delivery \in Deliveries
  /\ clock = 0
  /\ sent = <<>>
  /\ received = <<>>
  /\ observation = None
  /\ slip = "none"
  /\ verdict = "none"

Next == Send \/ Deliver \/ Tick \/ StopObserving \/ Validate

Spec == Init /\ [][Next]_vars

-----------------------------------------------------------------------------
(* Properties.                                                             *)

\* Whatever the network did, the counters of a careful observer are accepted:
\* the balances of _validate_transport_channel_observation hold of every
\* history, also of one without any message.
CarefulObserverQualifies == slip = "none" => verdict # "rejected"

\* One wrong counter never goes unnoticed: the balances leave no slack.
WrongCounterIsNoticed == slip # "none" => verdict # "accepted"

\* What a passed observation says of the messages themselves: enough were
\* sent, hardly any stayed away, came twice or late, and the order of first
\* arrivals was kept as the contract demands.
PassedChannelDelivers ==
  verdict = "accepted" /\ observation.status = "passed" =>
    /\ Len(sent) >= delivery.minimum_source_messages
    /\ LET missing == {n \in DOMAIN sent :
                         \A i \in DOMAIN received : received[i].message # n}
       IN  AtMost([of |-> Cardinality(missing), in |-> Len(sent)], delivery.max_loss_ratio)
    /\ \A i \in DOMAIN received :
         received[i].at - sent[received[i].message] <= delivery.max_message_age
    /\ Cardinality({i \in DOMAIN received : ~ First(i)}) <= delivery.max_duplicate_count
    /\ Cardinality(OutOfOrder) <= delivery.max_out_of_order_count
=============================================================================
