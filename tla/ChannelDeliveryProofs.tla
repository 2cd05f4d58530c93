----------------------- MODULE ChannelDeliveryProofs -----------------------
(***************************************************************************)
(* Proofs about ChannelPolicy and ChannelDelivery: what the policy makes   *)
(* of every observation, and what its verdict says of the messages, for    *)
(* every contract, any number of messages and every network.               *)
(***************************************************************************)
EXTENDS Status, ChannelDelivery, FiniteSetTheorems, TLAPS

-----------------------------------------------------------------------------
(* The channel policy.                                                     *)

\* More violations never make a better status (channel_observation_status):
\* an observer cannot improve its verdict by adding a code to its report.
THEOREM MoreViolationsAreNoBetter ==
  ASSUME NEW A, NEW B, A \subseteq B, B \subseteq Violation
  PROVE  StatusPriority[ChannelStatus(A)] <= StatusPriority[ChannelStatus(B)]
<1>1. CASE A = {}
  BY <1>1 DEF ChannelStatus, StatusPriority
<1>2. CASE A # {} /\ A \cap ErrorViolations # {}
  <2>1. B # {} /\ B \cap ErrorViolations # {}
    BY <1>2
  <2>. QED
    BY <1>2, <2>1 DEF ChannelStatus, StatusPriority
<1>3. CASE A # {} /\ A \cap ErrorViolations = {} /\ A \subseteq IncompleteViolations
  <2>1. ChannelStatus(A) = "incomplete" /\ ChannelStatus(B) # "passed"
    BY <1>3 DEF ChannelStatus
  <2>. QED
    BY <2>1 DEF ChannelStatus, StatusPriority
<1>4. CASE A # {} /\ A \cap ErrorViolations = {} /\ ~ A \subseteq IncompleteViolations
  <2>1. ChannelStatus(A) = "failed"
    BY <1>4 DEF ChannelStatus
  <2>2. ChannelStatus(B) \in {"failed", "error"}
    BY <1>4 DEF ChannelStatus
  <2>. QED
    BY <2>1, <2>2 DEF StatusPriority
<1>. QED
  BY <1>1, <1>2, <1>3, <1>4

\* A status is passed exactly when every threshold was met and the observer
\* knew of no error, whatever else it reported (_validate_channel_delivery).
THEOREM PassedMeetsContract ==
  ASSUME NEW contract, NEW o, AgreesWithContract(contract, o)
  PROVE  o.status = "passed" <=>
           Missed(contract, o) = {} /\ o.violations \cap ErrorViolations = {}
BY DEF AgreesWithContract, DerivedViolations, ChannelStatus

\* The balance of the counters leaves no slack: of two observations that
\* differ in one counter at most one is well formed
\* (_validate_transport_channel_observation).
THEOREM OneCounterOff ==
  ASSUME NEW o, NEW p, CountersBalance(o), CountersBalance(p),
         \A c \in Counter : o[c] \in Nat /\ p[c] \in Nat,
         NEW wrong \in Counter, \A c \in Counter \ {wrong} : o[c] = p[c]
  PROVE  o[wrong] = p[wrong]
<1>1. /\ o["received_count"] = o["sent_count"] - o["lost_count"] + o["duplicate_count"]
      /\ p["received_count"] = p["sent_count"] - p["lost_count"] + p["duplicate_count"]
  BY DEF CountersBalance
<1>. DEFINE ns == o["sent_count"]  ms == p["sent_count"]
            nr == o["received_count"]  mr == p["received_count"]
            nl == o["lost_count"]  ml == p["lost_count"]
            nd == o["duplicate_count"]  md == p["duplicate_count"]
<1>2. /\ ns \in Nat /\ nr \in Nat /\ nl \in Nat /\ nd \in Nat
      /\ ms \in Nat /\ mr \in Nat /\ ml \in Nat /\ md \in Nat
  BY DEF Counter
<1>3. /\ wrong # "sent_count" => ns = ms
      /\ wrong # "received_count" => nr = mr
      /\ wrong # "lost_count" => nl = ml
      /\ wrong # "duplicate_count" => nd = md
  BY DEF Counter
<1>4. wrong \in {"sent_count", "received_count", "lost_count", "duplicate_count"}
  BY DEF Counter
<1>5. nr = ns - nl + nd /\ mr = ms - ml + md
  BY <1>1
<1>6. /\ wrong = "sent_count" => ns = ms
      /\ wrong = "received_count" => nr = mr
      /\ wrong = "lost_count" => nl = ml
      /\ wrong = "duplicate_count" => nd = md
  <2>. HIDE DEF ns, ms, nr, mr, nl, ml, nd, md
  <2>. QED
    BY <1>2, <1>3, <1>5
<1>. QED
  BY <1>4, <1>6

-----------------------------------------------------------------------------
(* The invariant.                                                          *)

\* What producer, network and observer can have done.
Typed ==
  /\ delivery \in Delivery
  /\ clock \in Nat
  /\ sent \in Seq(Nat)
  /\ received \in Seq([message : Nat, at : Nat])
  /\ \A i \in DOMAIN received : received[i].message \in DOMAIN sent

\* Every message delivered has a first arrival.
FirstArrivals ==
  \A i \in DOMAIN received :
    \E j \in Arrivals : received[j].message = received[i].message

\* Some message is the oldest on arrival.
SomeOldest == Ages # {} => \E m \in Ages : \A a \in Ages : m >= a

\* The report is made of the counters, one of them perhaps off by one.
Reported ==
  /\ observation = None => slip = "none" /\ verdict = "none"
  /\ observation # None =>
       /\ clock > 0
       /\ \E errors \in SUBSET {"ambiguous_message_id"} :
            \/ slip = "none" /\ observation = Report(Counted, errors)
            \/ /\ slip \in Counter
               /\ \E step \in {-1, 1} :
                    observation = Report([Counted EXCEPT ![slip] = @ + step], errors)

Judged ==
  /\ verdict = "accepted" => Valid(observation)
  /\ verdict = "rejected" => observation # None /\ ~ Valid(observation)

Inv == Typed /\ FirstArrivals /\ SomeOldest /\ Reported /\ Judged

-----------------------------------------------------------------------------
(* Facts about the counters of a history.                                  *)

LEMMA UpTo ==
  ASSUME NEW n \in Nat
  PROVE  IsFiniteSet(1..n) /\ Cardinality(1..n) = n
BY FS_Interval

LEMMA RecordedArrival ==
  ASSUME Typed, NEW i \in DOMAIN received
  PROVE  /\ i \in Nat /\ i > 0 /\ i <= Len(received)
         /\ received[i].message \in Nat /\ received[i].at \in Nat
         /\ received[i].message \in 1..Len(sent)
         /\ sent[received[i].message] \in Nat
<1>1. received \in Seq([message : Nat, at : Nat]) /\ sent \in Seq(Nat)
      /\ received[i].message \in DOMAIN sent
  BY DEF Typed
<1>2. /\ DOMAIN received = 1..Len(received) /\ Len(received) \in Nat
      /\ DOMAIN sent = 1..Len(sent) /\ Len(sent) \in Nat
  BY <1>1
<1> DEFINE Arrival == [message : Nat, at : Nat]
<1>3. i \in 1..Len(received) /\ received \in Seq(Arrival)
  BY <1>1, <1>2
<1>4. received[i] \in Arrival
  <2>. HIDE DEF Arrival
  <2>. QED
    BY <1>3
<1>5. received[i].message \in Nat /\ received[i].at \in Nat
  BY <1>4
<1>6. sent[received[i].message] \in Nat
  <2> DEFINE n == received[i].message
  <2>1. n \in 1..Len(sent) /\ sent \in Seq(Nat)
    BY <1>1, <1>2
  <2>. HIDE DEF n
  <2>2. sent[n] \in Nat
    BY <2>1
  <2>. QED
    BY <2>2 DEF n
<1>. QED
  BY <1>1, <1>2, <1>3, <1>5, <1>6

LEMMA FiniteArrivals ==
  ASSUME Typed
  PROVE  /\ Arrivals \subseteq DOMAIN received /\ IsFiniteSet(DOMAIN received)
         /\ IsFiniteSet(Arrivals)
         /\ Cardinality(DOMAIN received) = Len(received)
         /\ Cardinality(Arrivals) \in Nat /\ Cardinality(Arrivals) <= Len(received)
         /\ Cardinality(OutOfOrder) \in Nat
         /\ Cardinality(OutOfOrder) <= Cardinality(Arrivals)
         /\ Len(received) \in Nat /\ Len(sent) \in Nat
<1>1. Len(received) \in Nat /\ Len(sent) \in Nat /\ DOMAIN received = 1..Len(received)
  BY DEF Typed
<1>2. IsFiniteSet(DOMAIN received) /\ Cardinality(DOMAIN received) = Len(received)
  BY <1>1, UpTo
<1>3. Arrivals \in SUBSET (DOMAIN received)
  BY DEF Arrivals
<1>4. OutOfOrder \in SUBSET Arrivals
  BY DEF OutOfOrder
<1>5. IsFiniteSet(Arrivals) /\ Cardinality(Arrivals) <= Len(received)
  BY <1>2, <1>3, FS_Subset
<1>6. IsFiniteSet(OutOfOrder) /\ Cardinality(OutOfOrder) <= Cardinality(Arrivals)
  BY <1>4, <1>5, FS_Subset
<1>. QED
  BY <1>1, <1>2, <1>3, <1>5, <1>6, FS_CardinalityType

\* The messages that arrived at all are as many as their first arrivals, so
\* the observer's lost_count is the number of messages that never came.
LEMMA LostAreMissing ==
  ASSUME Typed, FirstArrivals
  PROVE  Cardinality({n \in DOMAIN sent :
           \A i \in DOMAIN received : received[i].message # n}) = Lost
<1> DEFINE Delivered == {n \in DOMAIN sent :
             \E i \in DOMAIN received : received[i].message = n}
           Missing == {n \in DOMAIN sent :
             \A i \in DOMAIN received : received[i].message # n}
           f == [i \in Arrivals |-> received[i].message]
<1>1. f \in Bijection(Arrivals, Delivered)
  <2>1. \A i \in Arrivals : received[i].message \in Delivered
    BY DEF Typed, Arrivals
  <2>2. f \in [Arrivals -> Delivered]
    BY <2>1
  <2>3. ASSUME NEW i \in Arrivals, NEW j \in Arrivals, f[i] = f[j]  PROVE i = j
    <3>1. i \in DOMAIN received /\ j \in DOMAIN received /\ First(i) /\ First(j)
      BY DEF Arrivals
    <3>2. i \in Nat /\ j \in Nat /\ i > 0 /\ j > 0
      BY <3>1, RecordedArrival
    <3>3. received[i].message = received[j].message
      BY <2>3
    <3>. QED
      BY <3>1, <3>2, <3>3 DEF First
  <2>4. \A n \in Delivered : \E i \in Arrivals : f[i] = n
    BY DEF FirstArrivals
  <2>. QED
    BY <2>2, <2>3, <2>4 DEF Bijection, Injection, Surjection, IsInjective
<1>2. Cardinality(Delivered) = Cardinality(Arrivals)
  BY <1>1, FiniteArrivals, FS_Bijection DEF ExistsBijection
<1>3. /\ IsFiniteSet(DOMAIN sent) /\ Cardinality(DOMAIN sent) = Len(sent)
  <2>1. DOMAIN sent = 1..Len(sent) /\ Len(sent) \in Nat
    BY DEF Typed
  <2>. QED
    BY <2>1, UpTo
<1>4. Missing = DOMAIN sent \ Delivered /\ DOMAIN sent \cap Delivered = Delivered
  OBVIOUS
<1>5. Cardinality(Missing) = Len(sent) - Cardinality(Delivered)
  <2>. HIDE DEF Missing, Delivered, f
  <2>1. Cardinality(DOMAIN sent \ Delivered)
          = Cardinality(DOMAIN sent) - Cardinality(DOMAIN sent \cap Delivered)
    BY <1>3, FS_Difference
  <2>. QED
    BY <1>3, <1>4, <2>1
<1>. QED
  BY <1>2, <1>5 DEF Lost

\* What came again is what was received less the first arrivals.
LEMMA RepeatsAreDuplicates ==
  ASSUME Typed
  PROVE  Cardinality({i \in DOMAIN received : ~ First(i)})
           = Len(received) - Cardinality(Arrivals)
<1>1. {i \in DOMAIN received : ~ First(i)} = DOMAIN received \ Arrivals
      /\ DOMAIN received \cap Arrivals = Arrivals
  BY DEF Arrivals
<1>. QED
  BY <1>1, FiniteArrivals, FS_Difference

\* No message was older on arrival than max_message_age says.
LEMMA OldestIsMax ==
  ASSUME Typed, SomeOldest, NEW i \in DOMAIN received
  PROVE  /\ Ages # {} /\ Max(Ages) \in Int
         /\ received[i].at - sent[received[i].message] <= Max(Ages)
<1>1. received[i].at - sent[received[i].message] \in Ages
  BY DEF Ages
<1>2. \A a \in Ages : a \in Int
  BY RecordedArrival DEF Ages
<1>3. Max(Ages) \in Ages /\ \A a \in Ages : Max(Ages) >= a
  BY <1>1 DEF SomeOldest, Max
<1>. QED
  BY <1>1, <1>2, <1>3

-----------------------------------------------------------------------------
(* The report.                                                             *)

Counts ==
  [started_at : Int, finished_at : Int, sent_count : Int, received_count : Int,
   lost_count : Int, duplicate_count : Int, out_of_order_count : Int,
   loss_ratio : [of : Int, in : Int], max_message_age : Int,
   violations : SUBSET Violation, status : OutcomeStatus]

\* Reporting adds the violations and the status and changes no counter.
LEMMA ReportKeeps ==
  ASSUME NEW o \in Counts, NEW errors
  PROVE  LET r == Report(o, errors)
         IN  /\ r.started_at = o.started_at /\ r.finished_at = o.finished_at
             /\ r.sent_count = o.sent_count /\ r.received_count = o.received_count
             /\ r.lost_count = o.lost_count /\ r.duplicate_count = o.duplicate_count
             /\ r.out_of_order_count = o.out_of_order_count
             /\ r.loss_ratio = o.loss_ratio /\ r.max_message_age = o.max_message_age
             /\ r.violations = Missed(delivery, o) \cup (errors \cap ErrorViolations)
             /\ r.status = ChannelStatus(r.violations)
<1> DEFINE noted == [o EXCEPT !.violations = errors]
<1>1. /\ noted.sent_count = o.sent_count /\ noted.loss_ratio = o.loss_ratio
      /\ noted.duplicate_count = o.duplicate_count
      /\ noted.out_of_order_count = o.out_of_order_count
      /\ noted.max_message_age = o.max_message_age
      /\ noted.finished_at = o.finished_at /\ noted.started_at = o.started_at
      /\ noted.violations = errors
  BY DEF Counts
<1>2. DerivedViolations(delivery, noted)
        = Missed(delivery, o) \cup (errors \cap ErrorViolations)
  <2>. HIDE DEF noted
  <2>. QED
    BY <1>1 DEF DerivedViolations, Missed
<1>3. Report(o, errors) =
        [o EXCEPT !.violations = DerivedViolations(delivery, noted),
                  !.status = ChannelStatus(DerivedViolations(delivery, noted))]
  BY DEF Report
<1>. HIDE DEF noted
<1>. QED
  BY <1>2, <1>3 DEF Counts

\* The thresholds depend on nothing the report changed.
LEMMA ReportMisses ==
  ASSUME NEW o \in Counts, NEW errors
  PROVE  Missed(delivery, Report(o, errors)) = Missed(delivery, o)
<1> DEFINE r == Report(o, errors)
<1>1. /\ r.started_at = o.started_at /\ r.finished_at = o.finished_at
      /\ r.sent_count = o.sent_count
      /\ r.duplicate_count = o.duplicate_count
      /\ r.out_of_order_count = o.out_of_order_count
      /\ r.loss_ratio = o.loss_ratio /\ r.max_message_age = o.max_message_age
  BY ReportKeeps
<1>. HIDE DEF r
<1>2. Missed(delivery, r) = Missed(delivery, o)
  BY <1>1 DEF Missed
<1>. QED
  BY <1>2 DEF r

\* An observer that applies the policy to its own counters agrees with the
\* validator, whatever the counters are (_validate_channel_delivery).
LEMMA ReportAgrees ==
  ASSUME NEW o \in Counts, NEW errors
  PROVE  AgreesWithContract(delivery, Report(o, errors))
<1> DEFINE r == Report(o, errors)
<1>1. /\ r.violations = Missed(delivery, o) \cup (errors \cap ErrorViolations)
      /\ r.status = ChannelStatus(r.violations)
  BY ReportKeeps
<1>2. Missed(delivery, r) = Missed(delivery, o)
  BY ReportMisses
<1>3. Missed(delivery, o) \cap ErrorViolations \subseteq Missed(delivery, o)
  OBVIOUS
<1>. HIDE DEF r
<1>4. DerivedViolations(delivery, r) = r.violations
  BY <1>1, <1>2 DEF DerivedViolations
<1>5. AgreesWithContract(delivery, r)
  BY <1>1, <1>4 DEF AgreesWithContract
<1>. QED
  BY <1>5 DEF r

LEMMA ReportIsMade ==
  ASSUME NEW o \in Counts, NEW errors
  PROVE  Report(o, errors) # None
<1>1. "sent_count" \in DOMAIN o
  BY DEF Counts
<1>2. "sent_count" \in DOMAIN Report(o, errors)
  BY <1>1 DEF Report
<1>3. DOMAIN None = {"absent"}
  BY DEF None
<1>. QED
  BY <1>2, <1>3

\* A wrong counter is still a counter.
LEMMA SlipCounts ==
  ASSUME NEW o \in Counts, NEW c \in Counter, NEW v \in Int
  PROVE  /\ [o EXCEPT ![c] = v] \in Counts
         /\ [o EXCEPT ![c] = v][c] = v
         /\ \A d \in Counter \ {c} : [o EXCEPT ![c] = v][d] = o[d]
<1>1. CASE c = "sent_count"
  BY <1>1 DEF Counts, Counter
<1>2. CASE c = "received_count"
  BY <1>2 DEF Counts, Counter
<1>3. CASE c = "lost_count"
  BY <1>3 DEF Counts, Counter
<1>4. CASE c = "duplicate_count"
  BY <1>4 DEF Counts, Counter
<1>. QED
  BY <1>1, <1>2, <1>3, <1>4 DEF Counter

LEMMA CountedCounts ==
  ASSUME Typed, SomeOldest
  PROVE  Counted \in Counts
<1>1. IF Ages = {} THEN TRUE ELSE Max(Ages) \in Int
  <2>1. CASE Ages # {}
    <3>1. PICK i \in DOMAIN received : TRUE
      BY <2>1 DEF Ages
    <3>. QED
      BY <3>1, OldestIsMax
  <2>. QED
    BY <2>1
<1>2. Lost \in Int
  BY FiniteArrivals DEF Lost
<1>3. {} \in SUBSET Violation /\ "passed" \in OutcomeStatus
  BY DEF OutcomeStatus
<1>. HIDE DEF Ages
<1>4. (IF sent = <<>> THEN [of |-> 0, in |-> 1] ELSE [of |-> Lost, in |-> Len(sent)])
        \in [of : Int, in : Int]
  BY <1>2, FiniteArrivals
<1>5. (IF Ages = {} THEN 0 ELSE Max(Ages)) \in Int
  BY <1>1
<1>. QED
  BY <1>2, <1>3, <1>4, <1>5, FiniteArrivals DEF Counted, Counts, Typed

-----------------------------------------------------------------------------
(* The invariant is inductive.                                             *)

LEMMA SendKeeps ==
  ASSUME Inv, Send
  PROVE  Inv'
<1>. USE DEF Inv
<1>1. /\ delivery' = delivery /\ clock' = clock /\ received' = received
      /\ observation' = observation /\ slip' = slip /\ verdict' = verdict
      /\ sent' = Append(sent, clock) /\ sent \in Seq(Nat) /\ clock \in Nat
      /\ observation = None
  BY DEF Send, Observing, Typed
<1>2. /\ sent' \in Seq(Nat) /\ DOMAIN sent \subseteq DOMAIN sent'
      /\ \A n \in DOMAIN sent : sent'[n] = sent[n]
  BY <1>1
<1>3. Typed'
  BY <1>1, <1>2 DEF Typed
<1>4. FirstArrivals'
  BY <1>1 DEF FirstArrivals, Arrivals, First
<1>5. SomeOldest'
  <2>1. Ages' = Ages
    BY <1>1, <1>2 DEF Ages, Typed
  <2>. QED
    BY <2>1 DEF SomeOldest
<1>6. Reported' /\ Judged'
  BY <1>1 DEF Reported, Judged
<1>. QED
  BY <1>3, <1>4, <1>5, <1>6

LEMMA DeliverKeeps ==
  ASSUME Inv, Deliver
  PROVE  Inv'
<1>. USE DEF Inv
<1>1. PICK n \in DOMAIN sent : received' = Append(received, [message |-> n, at |-> clock])
  BY DEF Deliver
<1>2. /\ delivery' = delivery /\ clock' = clock /\ sent' = sent
      /\ observation' = observation /\ slip' = slip /\ verdict' = verdict
      /\ observation = None
  BY DEF Deliver, Observing
<1> DEFINE Arrival == [message : Nat, at : Nat]
           new == [message |-> n, at |-> clock]
<1>. PICK last \in Nat : last = Len(received) + 1
  BY DEF Typed
<1>3. received \in Seq(Arrival) /\ sent \in Seq(Nat) /\ clock \in Nat
  BY DEF Typed
<1>4. n \in Nat /\ new \in Arrival /\ new.message = n
  BY <1>3
<1>5. /\ received' \in Seq(Arrival) /\ last \in Nat /\ last > 0
      /\ DOMAIN received' = DOMAIN received \cup {last}
      /\ DOMAIN received' = 1..last /\ DOMAIN received = 1..(last - 1)
      /\ received'[last] = new
      /\ \A i \in DOMAIN received : received'[i] = received[i]
  <2>. HIDE DEF Arrival, new
  <2>1. received' = Append(received, new)
    BY <1>1 DEF new
  <2>. QED
    BY <1>3, <1>4, <2>1
<1>. HIDE DEF new
<1>6. Typed'
  BY <1>2, <1>4, <1>5 DEF Typed
<1>7. \A i \in DOMAIN received : i \in Nat /\ i > 0 /\ 1..(i - 1) \subseteq DOMAIN received
  BY <1>5
<1>8. \A i \in DOMAIN received : First(i)' <=> First(i)
  BY <1>5, <1>7 DEF First
<1>9. Arrivals \subseteq Arrivals'
  BY <1>5, <1>8 DEF Arrivals
<1>10. FirstArrivals'
  <2>1. ASSUME NEW i \in DOMAIN received
        PROVE  \E j \in Arrivals' : received'[j].message = received'[i].message
    <3>1. PICK j \in Arrivals : received[j].message = received[i].message
      BY DEF FirstArrivals
    <3>2. j \in DOMAIN received /\ j \in Arrivals'
      BY <1>9 DEF Arrivals
    <3>. QED
      BY <1>5, <3>1, <3>2
  <2>2. \E j \in Arrivals' : received'[j].message = received'[last].message
    <3>1. CASE First(last)'
      BY <1>5, <3>1 DEF Arrivals
    <3>2. CASE ~ First(last)'
      <4>1. PICK i \in 1..(last - 1) : received'[i].message = received'[last].message
        BY <1>5, <3>2 DEF First
      <4>. QED
        BY <1>5, <2>1, <4>1
    <3>. QED
      BY <3>1, <3>2
  <2>. QED
    BY <1>5, <2>1, <2>2 DEF FirstArrivals
<1>11. SomeOldest'
  <2> DEFINE age == received'[last].at - sent[n]
  <2>1. Ages' = Ages \cup {age}
    BY <1>2, <1>4, <1>5 DEF Ages
  <2>2. age \in Int /\ \A a \in Ages : a \in Int
    <3>1. \A a \in Ages : a \in Int
      BY RecordedArrival DEF Ages
    <3>. QED
      BY <1>3, <1>5, <3>1 DEF new
  <2>. HIDE DEF age
  <2>3. CASE Ages = {}
    BY <2>1, <2>2, <2>3 DEF SomeOldest
  <2>4. CASE Ages # {}
    <3>1. PICK m \in Ages : \A a \in Ages : m >= a
      BY <2>4 DEF SomeOldest
    <3>. QED
      BY <2>1, <2>2, <3>1 DEF SomeOldest
  <2>. QED
    BY <2>3, <2>4
<1>12. Reported' /\ Judged'
  BY <1>2 DEF Reported, Judged
<1>. QED
  BY <1>6, <1>10, <1>11, <1>12

LEMMA TickKeeps ==
  ASSUME Inv, Tick
  PROVE  Inv'
<1>1. /\ delivery' = delivery /\ sent' = sent /\ received' = received
      /\ observation' = observation /\ slip' = slip /\ verdict' = verdict
      /\ clock' = clock + 1 /\ observation = None
  BY DEF Tick, Observing
<1>2. Typed' /\ FirstArrivals' /\ SomeOldest'
  BY <1>1 DEF Inv, Typed, FirstArrivals, SomeOldest, Arrivals, First, Ages
<1>3. Reported' /\ Judged'
  BY <1>1 DEF Inv, Reported, Judged
<1>. QED
  BY <1>2, <1>3 DEF Inv

LEMMA StopObservingKeeps ==
  ASSUME Inv, StopObserving
  PROVE  Inv'
<1>1. /\ delivery' = delivery /\ clock' = clock /\ sent' = sent /\ received' = received
      /\ verdict' = verdict /\ observation = None /\ clock > 0
  BY DEF StopObserving, Observing
<1>2. Typed' /\ FirstArrivals' /\ SomeOldest'
  BY <1>1 DEF Inv, Typed, FirstArrivals, SomeOldest, Arrivals, First, Ages
<1>3. verdict' = "none" /\ Judged'
  BY <1>1 DEF Inv, Judged, Reported
<1>4. Reported'
  <2>1. PICK errors \in SUBSET {"ambiguous_message_id"} :
          \/ /\ observation' = Report(Counted, errors)
             /\ slip' = "none"
          \/ \E c \in Counter, step \in {-1, 1} :
               /\ Counted[c] + step >= 0
               /\ observation' = Report([Counted EXCEPT ![c] = @ + step], errors)
               /\ slip' = c
    BY DEF StopObserving
  <2>2. Counted' = Counted /\ \A o : Report(o, errors)' = Report(o, errors)
    BY <1>1 DEF Counted, Lost, Arrivals, First, OutOfOrder, Ages, Report
  <2>3. Counted \in Counts
    BY CountedCounts DEF Inv
  <2>4. CASE observation' = Report(Counted, errors) /\ slip' = "none"
    BY <1>1, <1>3, <2>2, <2>4 DEF Reported
  <2>5. CASE \E c \in Counter, step \in {-1, 1} :
               /\ Counted[c] + step >= 0
               /\ observation' = Report([Counted EXCEPT ![c] = @ + step], errors)
               /\ slip' = c
    <3>1. PICK c \in Counter, step \in {-1, 1} :
               /\ observation' = Report([Counted EXCEPT ![c] = @ + step], errors)
               /\ slip' = c
      BY <2>5
    <3>2. Counted[c] + step \in Int
      BY <2>3 DEF Counts, Counter
    <3>3. observation' # None
      BY <2>3, <3>1, <3>2, SlipCounts, ReportIsMade
    <3>. QED
      BY <1>1, <2>2, <3>1, <3>3 DEF Reported
  <2>. QED
    BY <2>1, <2>4, <2>5
<1>. QED
  BY <1>2, <1>3, <1>4 DEF Inv

LEMMA ValidateKeeps ==
  ASSUME Inv, Validate
  PROVE  Inv'
<1>1. /\ delivery' = delivery /\ clock' = clock /\ sent' = sent /\ received' = received
      /\ observation' = observation /\ slip' = slip /\ observation # None
      /\ verdict' = IF Valid(observation) THEN "accepted" ELSE "rejected"
  BY DEF Validate
<1>2. Typed' /\ FirstArrivals' /\ SomeOldest'
  <2>1. Typed'
    BY <1>1 DEF Inv, Typed
  <2>2. Arrivals' = Arrivals
    BY <1>1 DEF Arrivals, First
  <2>3. FirstArrivals'
    BY <1>1, <2>2 DEF Inv, FirstArrivals
  <2>4. Ages' = Ages
    BY <1>1 DEF Ages
  <2>5. SomeOldest'
    BY <2>4 DEF Inv, SomeOldest
  <2>. QED
    BY <2>1, <2>3, <2>5
<1>3. Reported'
  <2>1. Counted' = Counted /\ \A o, errors : Report(o, errors)' = Report(o, errors)
    BY <1>1 DEF Counted, Lost, Arrivals, First, OutOfOrder, Ages, Report
  <2>. QED
    BY <1>1, <2>1 DEF Inv, Reported
<1>4. Judged'
  <2>1. Valid(observation)' <=> Valid(observation)
    BY <1>1 DEF Valid
  <2>. QED
    BY <1>1, <2>1 DEF Judged
<1>. QED
  BY <1>2, <1>3, <1>4 DEF Inv

LEMMA Invariance == Spec => []Inv
<1>1. Init => Inv
  <2>. SUFFICES ASSUME Init PROVE Inv
    OBVIOUS
  <2>1. /\ delivery \in Delivery /\ clock = 0 /\ sent = <<>> /\ received = <<>>
        /\ observation = None /\ slip = "none" /\ verdict = "none"
    BY ChannelDeliveryConstants DEF Init
  <2>2. DOMAIN received = {} /\ Ages = {}
    BY <2>1 DEF Ages
  <2>. QED
    BY <2>1, <2>2 DEF Inv, Typed, FirstArrivals, SomeOldest, Reported, Judged
<1>2. Inv /\ [Next]_vars => Inv'
  <2>. SUFFICES ASSUME Inv, [Next]_vars PROVE Inv'
    OBVIOUS
  <2>1. CASE UNCHANGED vars
    <3>1. Typed' /\ FirstArrivals' /\ SomeOldest'
      BY <2>1 DEF vars, Inv, Typed, FirstArrivals, SomeOldest, Arrivals, First, Ages
    <3>2. Counted' = Counted /\ \A o, errors : Report(o, errors)' = Report(o, errors)
      BY <2>1 DEF vars, Counted, Lost, Arrivals, First, OutOfOrder, Ages, Report
    <3>3. Reported'
      BY <2>1, <3>2 DEF vars, Inv, Reported
    <3>4. Judged'
      BY <2>1 DEF vars, Inv, Judged, Valid
    <3>. QED
      BY <3>1, <3>3, <3>4 DEF Inv
  <2>. QED
    BY <2>1, SendKeeps, DeliverKeeps, TickKeeps, StopObservingKeeps, ValidateKeeps
       DEF Next
<1>. QED
  BY <1>1, <1>2, PTL DEF Spec

-----------------------------------------------------------------------------
(* What the verdict says.                                                  *)

\* The counters of every history balance (what
\* _validate_transport_channel_observation asks of them).
LEMMA HistoryBalances ==
  ASSUME Typed
  PROVE  CountersBalance(Counted)
BY FiniteArrivals DEF CountersBalance, Counted, Lost

LEMMA CarefulReportIsValid ==
  ASSUME Typed, SomeOldest, clock > 0, NEW errors
  PROVE  Valid(Report(Counted, errors))
<1> DEFINE r == Report(Counted, errors)
<1>1. Counted \in Counts
  BY CountedCounts
<1>2. /\ r.started_at = 0 /\ r.finished_at = clock
      /\ r.sent_count = Len(sent) /\ r.received_count = Counted.received_count
      /\ r.lost_count = Lost /\ r.duplicate_count = Counted.duplicate_count
      /\ r.out_of_order_count = Counted.out_of_order_count
      /\ r.loss_ratio = IF sent = <<>> THEN [of |-> 0, in |-> 1]
                                       ELSE [of |-> Lost, in |-> Len(sent)]
      /\ r.violations = Missed(delivery, Counted) \cup (errors \cap ErrorViolations)
      /\ r.status = ChannelStatus(r.violations)
  <2>1. /\ r.started_at = Counted.started_at /\ r.finished_at = Counted.finished_at
        /\ r.sent_count = Counted.sent_count /\ r.lost_count = Counted.lost_count
        /\ r.received_count = Counted.received_count
        /\ r.duplicate_count = Counted.duplicate_count
        /\ r.out_of_order_count = Counted.out_of_order_count
        /\ r.loss_ratio = Counted.loss_ratio
        /\ r.violations = Missed(delivery, Counted) \cup (errors \cap ErrorViolations)
        /\ r.status = ChannelStatus(r.violations)
    BY <1>1, ReportKeeps
  <2>2. /\ Counted.started_at = 0 /\ Counted.finished_at = clock
        /\ Counted.sent_count = Len(sent) /\ Counted.lost_count = Lost
        /\ Counted.loss_ratio = IF sent = <<>> THEN [of |-> 0, in |-> 1]
                                               ELSE [of |-> Lost, in |-> Len(sent)]
    BY DEF Counted
  <2>. HIDE DEF r
  <2>. QED
    BY <2>1, <2>2
<1>3. AgreesWithContract(delivery, r)
  BY <1>1, ReportAgrees
<1>4. /\ Counted.sent_count = Len(sent) /\ Counted.lost_count = Lost
      /\ Lost \in Int /\ Len(sent) \in Nat /\ clock \in Nat
      /\ sent = <<>> <=> Len(sent) = 0
  <2>1. sent \in Seq(Nat) /\ clock \in Nat
    BY DEF Typed
  <2>2. Lost \in Int
    BY FiniteArrivals DEF Lost
  <2>. QED
    BY <2>1, <2>2 DEF Counted
<1>. HIDE DEF r
<1>5. CountersBalance(r)
  BY <1>2, <1>4, HistoryBalances DEF CountersBalance
<1>6. r.status = "passed" => r.sent_count > 0
  <2>1. SUFFICES ASSUME r.status = "passed" PROVE Len(sent) > 0
    BY <1>2
  <2>2. Missed(delivery, Counted) = {}
    BY <1>2, <2>1 DEF ChannelStatus
  <2>3. ~ Counted.sent_count < delivery.minimum_source_messages
    BY <2>2 DEF Missed, Violation, IncompleteViolations
  <2>4. delivery.minimum_source_messages \in Nat \ {0}
    BY DEF Typed, Delivery
  <2>. QED
    BY <1>4, <2>3, <2>4
<1>7. RatioFits(r)
  <2>1. CASE sent = <<>>
    BY <1>2, <1>4, <2>1 DEF RatioFits
  <2>2. CASE sent # <<>>
    <3>1. r.loss_ratio.of = Lost /\ r.loss_ratio.in = Len(sent)
      BY <1>2, <2>2
    <3>. QED
      BY <1>2, <1>4, <2>2, <3>1 DEF RatioFits
  <2>. QED
    BY <2>1, <2>2
<1>8. r.started_at < r.finished_at
  BY <1>2, <1>4
<1>9. Valid(r)
  BY <1>3, <1>5, <1>6, <1>7, <1>8 DEF Valid, ObservationWellFormed
<1>. QED
  BY <1>9 DEF r

\* Changing one of the four counters of a balance breaks it.
LEMMA NoSlack ==
  ASSUME NEW r \in Int, NEW s \in Int, NEW l \in Int, NEW d \in Int, NEW v \in Int,
         r = s - l + d
  PROVE  /\ v # s => r # v - l + d
         /\ v # r => v # s - l + d
         /\ v # l => r # s - v + d
         /\ v # d => r # s - l + v
OBVIOUS

LEMMA SlippedReportIsInvalid ==
  ASSUME Typed, SomeOldest, NEW errors, NEW c \in Counter, NEW step \in {-1, 1}
  PROVE  ~ Valid(Report([Counted EXCEPT ![c] = @ + step], errors))
<1>1. Counted \in Counts /\ Counted[c] \in Int
  BY CountedCounts DEF Counts, Counter
<1>2. PICK v \in Int : v = Counted[c] + step
  BY <1>1
<1> DEFINE off == [Counted EXCEPT ![c] = v]
           r == Report(off, errors)
<1>3. off \in Counts /\ off[c] = v /\ \A d \in Counter \ {c} : off[d] = Counted[d]
  BY <1>1, SlipCounts
<1>4. off = [Counted EXCEPT ![c] = @ + step]
  BY <1>2
<1>. HIDE DEF off
<1>5. /\ r.sent_count = off.sent_count /\ r.received_count = off.received_count
      /\ r.lost_count = off.lost_count /\ r.duplicate_count = off.duplicate_count
  BY <1>3, ReportKeeps
<1>6. Counted.received_count
        = Counted.sent_count - Counted.lost_count + Counted.duplicate_count
  BY HistoryBalances DEF CountersBalance
<1>7. /\ Counted.received_count \in Int /\ Counted.sent_count \in Int
      /\ Counted.lost_count \in Int /\ Counted.duplicate_count \in Int
  BY <1>1 DEF Counts
<1>. HIDE DEF r
<1>8. r.received_count # r.sent_count - r.lost_count + r.duplicate_count
  <2>1. v # Counted[c] /\ v \in Int
    BY <1>1, <1>2
  <2>2. CASE c = "sent_count"
    <3>1. /\ r.sent_count = v /\ r.received_count = Counted.received_count
          /\ r.lost_count = Counted.lost_count
          /\ r.duplicate_count = Counted.duplicate_count
          /\ v # Counted.sent_count
      BY <1>3, <1>5, <2>1, <2>2 DEF Counter
    <3>. QED
      BY <1>6, <1>7, <2>1, <3>1, NoSlack
  <2>3. CASE c = "received_count"
    <3>1. /\ r.sent_count = Counted.sent_count /\ r.received_count = v
          /\ r.lost_count = Counted.lost_count
          /\ r.duplicate_count = Counted.duplicate_count
          /\ v # Counted.received_count
      BY <1>3, <1>5, <2>1, <2>3 DEF Counter
    <3>. QED
      BY <1>6, <1>7, <2>1, <3>1, NoSlack
  <2>4. CASE c = "lost_count"
    <3>1. /\ r.sent_count = Counted.sent_count
          /\ r.received_count = Counted.received_count
          /\ r.lost_count = v /\ r.duplicate_count = Counted.duplicate_count
          /\ v # Counted.lost_count
      BY <1>3, <1>5, <2>1, <2>4 DEF Counter
    <3>. QED
      BY <1>6, <1>7, <2>1, <3>1, NoSlack
  <2>5. CASE c = "duplicate_count"
    <3>1. /\ r.sent_count = Counted.sent_count
          /\ r.received_count = Counted.received_count
          /\ r.lost_count = Counted.lost_count /\ r.duplicate_count = v
          /\ v # Counted.duplicate_count
      BY <1>3, <1>5, <2>1, <2>5 DEF Counter
    <3>. QED
      BY <1>6, <1>7, <2>1, <3>1, NoSlack
  <2>. QED
    BY <2>2, <2>3, <2>4, <2>5 DEF Counter
<1>9. ~ Valid(r)
  BY <1>8 DEF Valid, ObservationWellFormed, CountersBalance
<1>. QED
  BY <1>4, <1>9 DEF r

\* Whatever the network did, the counters of an observer that miscounts
\* nothing are accepted: no history is unreportable (the balances of
\* _validate_transport_channel_observation).
THEOREM CarefulObserversQualify == Spec => []CarefulObserverQualifies
<1>1. Inv => CarefulObserverQualifies
  <2>. SUFFICES ASSUME Inv, slip = "none", verdict = "rejected" PROVE FALSE
    BY DEF CarefulObserverQualifies
  <2>1. observation # None /\ ~ Valid(observation)
    BY DEF Inv, Judged
  <2>2. clock > 0 /\ \E errors : observation = Report(Counted, errors)
    BY <2>1 DEF Inv, Reported, Counter
  <2>. QED
    BY <2>1, <2>2, CarefulReportIsValid DEF Inv
<1>. QED
  BY <1>1, Invariance, PTL

\* A single wrong counter is always rejected, however long the history: the
\* balances leave no slack.
THEOREM WrongCountersAreNoticed == Spec => []WrongCounterIsNoticed
<1>1. Inv => WrongCounterIsNoticed
  <2>. SUFFICES ASSUME Inv, slip # "none", verdict = "accepted" PROVE FALSE
    BY DEF WrongCounterIsNoticed
  <2>1. Valid(observation)
    BY DEF Inv, Judged
  <2>2. PICK errors \in SUBSET {"ambiguous_message_id"}, step \in {-1, 1} :
          /\ slip \in Counter
          /\ observation = Report([Counted EXCEPT ![slip] = @ + step], errors)
    BY DEF Inv, Reported
  <2>. QED
    BY <2>1, <2>2, SlippedReportIsInvalid DEF Inv
<1>. QED
  BY <1>1, Invariance, PTL

\* An accepted observation with status passed says of the messages themselves
\* what the contract demands: enough were sent, hardly any stayed away, came
\* twice or late, and first arrivals kept their order.  The validator judged
\* four counters and saw no message.
THEOREM PassedChannelsDeliver == Spec => []PassedChannelDelivers
<1>1. Inv /\ WrongCounterIsNoticed => PassedChannelDelivers
  <2>. SUFFICES ASSUME Inv, WrongCounterIsNoticed,
                       verdict = "accepted", observation.status = "passed"
                PROVE  /\ Len(sent) >= delivery.minimum_source_messages
                       /\ LET missing == {n \in DOMAIN sent :
                                \A i \in DOMAIN received : received[i].message # n}
                          IN  AtMost([of |-> Cardinality(missing), in |-> Len(sent)],
                                     delivery.max_loss_ratio)
                       /\ \A i \in DOMAIN received :
                            received[i].at - sent[received[i].message]
                              <= delivery.max_message_age
                       /\ Cardinality({i \in DOMAIN received : ~ First(i)})
                            <= delivery.max_duplicate_count
                       /\ Cardinality(OutOfOrder) <= delivery.max_out_of_order_count
    BY DEF PassedChannelDelivers
  <2>1. Typed /\ FirstArrivals /\ SomeOldest /\ Counted \in Counts
    BY CountedCounts DEF Inv
  <2>2. slip = "none"
    BY DEF WrongCounterIsNoticed
  <2>3. PICK errors : observation = Report(Counted, errors)
    BY <2>2 DEF Inv, Reported, Counter
  <2>4. Missed(delivery, Counted) = {}
    BY <2>1, <2>3, ReportKeeps DEF ChannelStatus
  <2>5. /\ ~ Len(sent) < delivery.minimum_source_messages
        /\ AtMost(Counted.loss_ratio, delivery.max_loss_ratio)
        /\ ~ Len(received) - Cardinality(Arrivals) > delivery.max_duplicate_count
        /\ ~ Cardinality(OutOfOrder) > delivery.max_out_of_order_count
        /\ ~ (IF Ages = {} THEN 0 ELSE Max(Ages)) > delivery.max_message_age
    <3>1. /\ Counted.sent_count = Len(sent)
          /\ Counted.duplicate_count = Len(received) - Cardinality(Arrivals)
          /\ Counted.out_of_order_count = Cardinality(OutOfOrder)
          /\ Counted.max_message_age = IF Ages = {} THEN 0 ELSE Max(Ages)
      BY DEF Counted
    <3>. QED
      BY <2>4, <3>1 DEF Missed, Violation, IncompleteViolations, FailedViolations
  <2>6. /\ delivery.minimum_source_messages \in Nat \ {0}
        /\ delivery.max_duplicate_count \in Nat
        /\ delivery.max_out_of_order_count \in Nat
        /\ delivery.max_message_age \in Nat
    BY <2>1 DEF Typed, Delivery
  <2>7. /\ Len(sent) \in Nat /\ Len(received) \in Nat
        /\ Cardinality(Arrivals) \in Nat /\ Cardinality(OutOfOrder) \in Nat
    BY <2>1, FiniteArrivals
  <2>8. Len(sent) >= delivery.minimum_source_messages
    BY <2>5, <2>6, <2>7
  <2>9. Counted.loss_ratio = [of |-> Lost, in |-> Len(sent)]
    <3>1. sent # <<>>
      BY <2>6, <2>7, <2>8
    <3>. QED
      BY <3>1 DEF Counted
  <2>10. ASSUME NEW i \in DOMAIN received
         PROVE  received[i].at - sent[received[i].message] <= delivery.max_message_age
    <3> DEFINE age == received[i].at - sent[received[i].message]
    <3>1. Ages # {} /\ Max(Ages) \in Int /\ age <= Max(Ages) /\ age \in Int
      BY <2>1, OldestIsMax, RecordedArrival
    <3>. HIDE DEF age
    <3>2. age <= delivery.max_message_age
      BY <2>5, <2>6, <3>1
    <3>. QED
      BY <3>2 DEF age
  <2>. QED
    BY <2>1, <2>5, <2>6, <2>7, <2>8, <2>9, <2>10, LostAreMissing, RepeatsAreDuplicates
<1>. QED
  BY <1>1, Invariance, WrongCountersAreNoticed, PTL
=============================================================================
