--------------------------- MODULE Ingestion_proofs ---------------------------
(***************************************************************************)
(* Proofs about the ingestion service, for any number of sources, any page *)
(* of the control plane, any queue and any number of faults.               *)
(***************************************************************************)
EXTENDS Ingestion, FiniteSetTheorems, SequenceTheorems, TLAPS

-----------------------------------------------------------------------------
(* Late polls. *)

\* A source that is still to be polled in this round has not been polled since
\* it was last active, and an active source has no late poll at all.
RoundInv ==
  /\ todo \subseteq Names
  /\ latePolls \in [Names -> Nat]
  /\ \A n \in Names : /\ n \in todo => latePolls[n] = 0
                      /\ table[n] = "active" => latePolls[n] = 0
                      /\ latePolls[n] <= 1

roundVars == <<table, todo, latePolls>>

\* Only the control plane, the reading of the list and the polls themselves,
\* and the end of the process, touch what RoundInv is about.
LEMMA RoundSteps ==
  [Next]_vars => \/ UNCHANGED roundVars
                 \/ Registry \/ List \/ ListFails
                 \/ \E n \in Names : Begin(n)
                 \/ todo' = {} /\ UNCHANGED <<table, latePolls>>
  BY DEF Next, Poll, Fetch, Obtain, FetchTransient, FetchPermanent, Publish,
         PublishRefused, EndBatch, EndRound, Wake, Exit, Deliver, AckLost,
         DeliveryFails, Stop, Kill, Restart, vars, pollerVars, roundVars

LEMMA RoundInit == Init => RoundInv
  BY DEF Init, TableInit, RoundInv

LEMMA RoundStep == RoundInv /\ [Next]_vars => RoundInv'
<1> SUFFICES ASSUME RoundInv, [Next]_vars PROVE RoundInv'
  OBVIOUS
<1>1. CASE UNCHANGED roundVars
  BY <1>1 DEF RoundInv, roundVars
<1>2. CASE Registry
  BY <1>2 DEF RoundInv, Registry, pollerVars
<1>3. CASE List
  BY <1>3 DEF RoundInv, List, StartRound, Pages
<1>4. CASE ListFails
  BY <1>4 DEF RoundInv, ListFails, StartRound
<1>5. ASSUME NEW n \in Names, Begin(n) PROVE RoundInv'
  BY <1>5 DEF RoundInv, Begin
<1>6. CASE todo' = {} /\ UNCHANGED <<table, latePolls>>
  BY <1>6 DEF RoundInv
<1>7. QED
  BY <1>1, <1>2, <1>3, <1>4, <1>5, <1>6, RoundSteps

\* A source that is paused, stopped or withdrawn is polled at most once more
\* (poller.py:61-92), however the control plane and the poller interleave.
THEOREM LatePollsBounded == Spec => []AtMostOneLatePoll
<1>1. RoundInv => AtMostOneLatePoll
  BY DEF RoundInv, AtMostOneLatePoll
<1>2. QED
  BY <1>1, RoundInit, RoundStep, PTL DEF Spec

-----------------------------------------------------------------------------
(* The records on their way to the topics. *)

\* Records come from a source of the control plane.
SourceInv ==
  /\ current \in Names \cup {Absent}
  /\ state = "fetching" => current \in Names
  /\ owner \in Seq(Names) /\ Len(owner) <= MaxRecords

\* A record is obtained once and waits in the batch until it is accepted.
BatchInv ==
  /\ batch \in Seq(1 .. Len(owner))
  /\ buffer \subseteq accepted /\ accepted \subseteq 1 .. Len(owner)
  /\ \A j \in 1 .. Len(batch) :
       /\ batch[j] \notin accepted
       /\ \A h \in 1 .. Len(batch) : h # j => batch[h] # batch[j]

\* It is sent once while it is in the queue; each fault adds at most one copy.
CopyInv ==
  /\ copies \in [Records -> Nat] /\ faults \in Nat /\ faults <= MaxFaults
  /\ \A i \in Records : /\ copies[i] <= faults + 1
                        /\ i \in buffer => copies[i] <= faults
                        /\ i \notin accepted => copies[i] = 0
                        /\ i \in accepted /\ i \notin buffer /\ ~damaged => copies[i] > 0

RInv == SourceInv /\ BatchInv /\ CopyInv

LEMMA RecordInit == Init => RInv
  BY IngestionAssumption DEF Init, RInv, SourceInv, BatchInv, CopyInv, Records

\* The records of a response are new, and obtained one by one.
LEMMA ObtainStep ==
  ASSUME RInv, NEW k \in 0 .. MaxBatch, Obtain(k)
  PROVE  RInv'
<1>. DEFINE own == [i \in 1 .. k |-> current]
            new == [i \in 1 .. k |-> Len(owner) + i]
<1>1. /\ k \in Nat /\ MaxRecords \in Nat
      /\ owner \in Seq(Names) /\ Len(owner) \in Nat /\ current \in Names
  BY IngestionAssumption DEF RInv, SourceInv, Obtain
<1>2. own \in Seq(Names) /\ Len(own) = k
  BY <1>1
<1>3. owner' \in Seq(Names) /\ Len(owner') = Len(owner) + k
  BY <1>1, <1>2 DEF Obtain
<1>4. /\ new \in Seq(1 .. Len(owner')) /\ Len(new) = k
      /\ \A j \in 1 .. k : new[j] = Len(owner) + j
  BY <1>1, <1>3
<1>5. batch' = new
  BY DEF Obtain
<1>6. SourceInv'
  BY <1>1, <1>3 DEF Obtain, RInv, SourceInv
<1>. HIDE DEF own, new
<1>7. BatchInv'
  BY <1>1, <1>3, <1>4, <1>5 DEF Obtain, RInv, BatchInv
<1>8. CopyInv'
  BY DEF Obtain, RInv, CopyInv
<1>. QED
  BY <1>6, <1>7, <1>8 DEF RInv

\* The first record of the batch is none of the records accepted before.
LEMMA PublishStep ==
  ASSUME RInv, Publish
  PROVE  RInv'
<1>1. /\ batch \in Seq(1 .. Len(owner)) /\ batch # <<>>
      /\ Len(owner) \in Nat /\ Len(owner) <= MaxRecords /\ MaxRecords \in Nat
  BY IngestionAssumption DEF RInv, SourceInv, BatchInv, Publish
<1>2. /\ Head(batch) = batch[1] /\ Len(batch) \in Nat /\ 1 \in 1 .. Len(batch)
      /\ Tail(batch) \in Seq(1 .. Len(owner))
      /\ Len(Tail(batch)) = Len(batch) - 1
      /\ \A j \in 1 .. Len(Tail(batch)) : Tail(batch)[j] = batch[j + 1]
  BY <1>1
<1>3. Head(batch) \in 1 .. Len(owner) /\ Head(batch) \notin accepted
  BY <1>1, <1>2 DEF RInv, BatchInv
<1>4. \A j \in 1 .. Len(batch') :
        /\ batch'[j] \notin accepted'
        /\ \A h \in 1 .. Len(batch') : h # j => batch'[h] # batch'[j]
  <2>. SUFFICES ASSUME NEW j \in 1 .. Len(batch')
                PROVE  /\ batch'[j] \notin accepted'
                       /\ \A h \in 1 .. Len(batch') : h # j => batch'[h] # batch'[j]
    OBVIOUS
  <2>1. /\ \A h \in 1 .. Len(batch') : /\ h + 1 \in 1 .. Len(batch) /\ h + 1 # 1
                                       /\ batch'[h] = batch[h + 1]
        /\ accepted' = accepted \cup {batch[1]}
    BY <1>2 DEF Publish
  <2>2. \A g, h \in 1 .. Len(batch) : g # h => batch[g] # batch[h]
    BY DEF RInv, BatchInv
  <2>3. \A h \in 1 .. Len(batch) : batch[h] \notin accepted
    BY DEF RInv, BatchInv
  <2>. QED
    BY <1>2, <2>1, <2>2, <2>3
<1>5. SourceInv'
  BY DEF Publish, RInv, SourceInv
<1>6. BatchInv'
  BY <1>1, <1>2, <1>3, <1>4 DEF Publish, RInv, BatchInv
<1>7. CopyInv'
  BY <1>1, <1>3 DEF Publish, RInv, CopyInv, Records
<1>. QED
  BY <1>5, <1>6, <1>7 DEF RInv

\* What the Kafka client does with a record in its queue.
LEMMA ClientStep ==
  ASSUME RInv, NEW i \in Records, Deliver(i) \/ AckLost(i) \/ DeliveryFails(i)
  PROVE  RInv'
<1>1. SourceInv' /\ BatchInv'
  BY DEF Deliver, AckLost, DeliveryFails, RInv, SourceInv, BatchInv
<1>2. /\ MaxFaults \in Nat /\ copies \in [Records -> Nat] /\ faults \in Nat
      /\ copies' \in [Records -> Nat]
      /\ copies'[i] \in {copies[i], copies[i] + 1}
      /\ \A r \in Records : r # i => copies'[r] = copies[r]
  BY IngestionAssumption DEF Deliver, AckLost, DeliveryFails, RInv, CopyInv
<1>3. ASSUME Deliver(i) PROVE CopyInv'
  BY <1>2, <1>3 DEF Deliver, RInv, CopyInv, BatchInv
<1>4. ASSUME AckLost(i) PROVE CopyInv'
  BY <1>2, <1>4 DEF AckLost, RInv, CopyInv, BatchInv
<1>5. ASSUME DeliveryFails(i) PROVE CopyInv'
  BY <1>2, <1>5 DEF DeliveryFails, RInv, CopyInv, BatchInv
<1>. QED
  BY <1>1, <1>3, <1>4, <1>5 DEF RInv

\* The steps that drop the batch and perhaps the queue, or neither.
LEMMA OtherSteps ==
  ASSUME RInv,
         \/ Registry \/ List \/ ListFails \/ EndRound \/ Wake
         \/ (\E n \in Names : Begin(n))
         \/ FetchTransient \/ FetchPermanent \/ PublishRefused \/ EndBatch
         \/ Exit \/ Stop \/ Kill \/ Restart
  PROVE  RInv'
<1>1. SourceInv'
  BY DEF RInv, SourceInv, Registry, pollerVars, List, ListFails, StartRound,
         EndRound, Wake, Begin, FetchTransient, FetchPermanent, PublishRefused,
         EndBatch, Exit, Stop, Kill, Restart
<1>2. /\ owner' = owner /\ accepted' = accepted /\ copies' = copies
      /\ batch' = batch \/ batch' = <<>>
      /\ \/ buffer' = buffer /\ damaged' = damaged
         \/ buffer' = {} /\ damaged' = TRUE
      /\ \/ faults' = faults
         \/ faults < MaxFaults /\ faults' = faults + 1
  BY DEF Registry, pollerVars, List, ListFails, StartRound, EndRound, Wake,
         Begin, FetchTransient, FetchPermanent, PublishRefused, EndBatch, Exit,
         Stop, Kill, Restart
<1>3. BatchInv'
  <2>1. CASE batch' = batch
    BY <1>2, <2>1 DEF RInv, BatchInv
  <2>2. CASE batch' = <<>>
    <3>1. batch' \in Seq(1 .. Len(owner)) /\ Len(batch') = 0
      BY <2>2
    <3>2. \A j \in 1 .. Len(batch') : FALSE
      BY <3>1
    <3>. QED
      BY <1>2, <3>1, <3>2 DEF RInv, BatchInv
  <2>. QED
    BY <1>2, <2>1, <2>2
<1>4. MaxFaults \in Nat /\ faults' \in Nat /\ faults' <= MaxFaults /\ faults <= faults'
  BY <1>2, IngestionAssumption DEF RInv, CopyInv
<1>5. ASSUME buffer' = buffer /\ damaged' = damaged PROVE CopyInv'
  BY <1>2, <1>4, <1>5 DEF RInv, CopyInv
<1>6. ASSUME buffer' = {} /\ damaged' = TRUE PROVE CopyInv'
  BY <1>2, <1>4, <1>6 DEF RInv, CopyInv
<1>. QED
  BY <1>1, <1>2, <1>3, <1>5, <1>6 DEF RInv

LEMMA RecordStep == RInv /\ [Next]_vars => RInv'
<1> SUFFICES ASSUME RInv, [Next]_vars PROVE RInv'
  OBVIOUS
<1>1. CASE UNCHANGED vars
  BY <1>1 DEF RInv, SourceInv, BatchInv, CopyInv, vars, pollerVars
<1>2. CASE Next
  BY <1>2, ObtainStep, PublishStep, ClientStep, OtherSteps DEF Next, Poll, Fetch
<1>. QED
  BY <1>1, <1>2

\* What publish_event took is in its topic or still in the queue, and more
\* than once in the topic only where a send failed (kafka_producer.py:25-43).
THEOREM AcceptedKept == Spec => []PublishedKept
<1>1. RInv => PublishedKept
  <2>. SUFFICES ASSUME RInv PROVE PublishedKept
    OBVIOUS
  <2>1. accepted \subseteq Records
    BY IngestionAssumption DEF RInv, SourceInv, BatchInv, Records
  <2>2. ~damaged => \A i \in accepted \ buffer : copies[i] > 0
    BY <2>1 DEF RInv, CopyInv
  <2>3. faults = 0 => \A i \in accepted : copies[i] <= (IF i \in buffer THEN 0 ELSE 1)
    BY <2>1 DEF RInv, CopyInv
  <2>4. \A i \in Records \ accepted : copies[i] = 0
    BY DEF RInv, CopyInv
  <2>. QED
    BY <2>2, <2>3, <2>4 DEF PublishedKept
<1>. QED
  BY <1>1, RecordInit, RecordStep, PTL DEF Spec

-----------------------------------------------------------------------------
(* Type correctness. *)

PollInv ==
  /\ TableTypeOK
  /\ state \in Live \cup Ended \cup {"flushing"}
  /\ todo \subseteq sources /\ sources \subseteq Names
  /\ state \in Ended \cup {"flushing"} => todo = {}
  /\ attempt \in 0 .. MaxRetries
  /\ damaged \in BOOLEAN
  /\ IsFiniteSet(buffer) /\ Cardinality(buffer) <= QueueLimit

LEMMA PollInit == Init => PollInv
<1>1. IsFiniteSet({}) /\ Cardinality({}) = 0
  BY FS_EmptySet
<1>2. TableInit => TableTypeOK
  BY DEF TableInit, TableTypeOK
<1> SUFFICES ASSUME Init PROVE PollInv
  OBVIOUS
<1>3. /\ TableTypeOK /\ todo \subseteq sources /\ sources \subseteq Names
      /\ todo = {} /\ damaged \in BOOLEAN /\ state = "listing"
  BY <1>2 DEF Init
<1>4. attempt \in 0 .. MaxRetries /\ IsFiniteSet(buffer) /\ Cardinality(buffer) <= QueueLimit
  BY <1>1, IngestionAssumption DEF Init
<1>. QED
  BY <1>3, <1>4 DEF PollInv, Live

\* The queue grows by one record, and only while it is not full.
LEMMA QueueStep ==
  ASSUME PollInv, [Next]_vars
  PROVE  IsFiniteSet(buffer') /\ Cardinality(buffer') <= QueueLimit
<1>1. \/ Publish
      \/ buffer' \subseteq buffer
  BY DEF Next, Registry, List, ListFails, StartRound, Poll, Begin, EndRound,
         Wake, Fetch, Obtain, FetchTransient, FetchPermanent, PublishRefused,
         EndBatch, Exit, Deliver, AckLost, DeliveryFails, Stop, Kill, Restart,
         vars, pollerVars
<1>2. CASE Publish
  <2>1. PICK i : buffer' = buffer \cup {i}
    BY <1>2 DEF Publish
  <2>2. /\ IsFiniteSet(buffer') /\ Cardinality(buffer) \in Nat
        /\ \/ Cardinality(buffer') = Cardinality(buffer)
           \/ Cardinality(buffer') = Cardinality(buffer) + 1
    BY <2>1, FS_AddElement, FS_CardinalityType DEF PollInv
  <2>3. Cardinality(buffer) < QueueLimit
    BY <1>2 DEF Publish
  <2>. QED
    BY <2>2, <2>3, IngestionAssumption
<1>3. CASE buffer' \subseteq buffer
  <2>1. /\ IsFiniteSet(buffer') /\ Cardinality(buffer') <= Cardinality(buffer)
        /\ Cardinality(buffer') \in Nat /\ Cardinality(buffer) \in Nat
    BY <1>3, FS_Subset, FS_CardinalityType DEF PollInv
  <2>. QED
    BY <2>1, IngestionAssumption DEF PollInv
<1>. QED
  BY <1>1, <1>2, <1>3

LEMMA TableStep == TableTypeOK /\ TableNext => TableTypeOK'
<1> SUFFICES ASSUME TableTypeOK, NEW n \in Names,
                    \/ Register(n) \/ Confirm(n) \/ Withdraw(n)
                    \/ \E s \in Statuses : SetStatus(n, s)
             PROVE  TableTypeOK'
  BY DEF TableNext
<1>1. table' \in [Names -> Statuses \cup {Absent}]
  BY DEF TableTypeOK, Register, Confirm, Withdraw, SetStatus, Statuses
<1>2. \A m \in confirmed' : m \in Names /\ table'[m] # Absent
  BY IngestionAssumption
  DEF TableTypeOK, Register, Confirm, Withdraw, SetStatus, Statuses
<1>. QED
  BY <1>1, <1>2 DEF TableTypeOK

LEMMA PollStep == PollInv /\ [Next]_vars => PollInv'
<1> SUFFICES ASSUME PollInv, [Next]_vars PROVE PollInv'
  OBVIOUS
<1>1. TableTypeOK'
  <2>1. TableNext \/ UNCHANGED tableVars
    BY DEF Next, Registry, List, ListFails, StartRound, Poll, Begin, EndRound,
           Wake, Fetch, Obtain, FetchTransient, FetchPermanent, Publish,
           PublishRefused, EndBatch, Exit, Deliver, AckLost, DeliveryFails,
           Stop, Kill, Restart, vars, pollerVars, tableVars
  <2>. QED
    BY <2>1, TableStep DEF PollInv, TableTypeOK, tableVars
<1>2. /\ todo' \subseteq sources' /\ sources' \subseteq Names
      /\ state' \in Ended \cup {"flushing"} => todo' = {}
  <2>1. CASE List \/ ListFails
    BY <2>1 DEF List, ListFails, StartRound, Pages, Ended
  <2>2. CASE Restart \/ Stop \/ Kill
    BY <2>2 DEF Restart, Stop, Kill, PollInv, Ended
  <2>3. CASE /\ todo' \subseteq todo /\ sources' = sources
             /\ state' \in Ended \cup {"flushing"} =>
                  todo' = {} \/ (state \in Ended \cup {"flushing"} /\ todo' = todo)
    BY <2>3 DEF PollInv
  <2>4. \/ List \/ ListFails \/ Restart \/ Stop \/ Kill
        \/ todo' \subseteq todo /\ sources' = sources
    BY DEF Next, Registry, Poll, Begin, EndRound, Wake, Fetch, Obtain,
           FetchTransient, FetchPermanent, Publish, PublishRefused, EndBatch,
           Exit, Deliver, AckLost, DeliveryFails, vars, pollerVars
  <2>5. \/ List \/ ListFails \/ Restart \/ Stop \/ Kill
        \/ state' \in Ended \cup {"flushing"} =>
             todo' = {} \/ (state \in Ended \cup {"flushing"} /\ todo' = todo)
    BY DEF Ended, Next, Registry, Poll, Begin, EndRound, Wake, Fetch, Obtain,
           FetchTransient, FetchPermanent, Publish, PublishRefused, EndBatch,
           Exit, Deliver, AckLost, DeliveryFails, vars, pollerVars
  <2>. QED
    BY <2>1, <2>2, <2>3, <2>4, <2>5
<1>3. /\ state' \in Live \cup Ended \cup {"flushing"}
      /\ damaged' \in BOOLEAN
  BY DEF PollInv, Live, Ended, Next, Registry, List, ListFails, StartRound,
         Poll, Begin, EndRound, Wake, Fetch, Obtain, FetchTransient,
         FetchPermanent, Publish, PublishRefused, EndBatch, Exit, Deliver,
         AckLost, DeliveryFails, Stop, Kill, Restart, vars, pollerVars
<1>4. attempt' \in 0 .. MaxRetries
  <2>1. \/ attempt' \in {attempt, 0, 1}
        \/ attempt < MaxRetries /\ attempt' = attempt + 1
    BY DEF Next, Registry, List, ListFails, StartRound, Poll, Begin, EndRound,
           Wake, Fetch, Obtain, FetchTransient, FetchPermanent, Publish,
           PublishRefused, EndBatch, Exit, Deliver, AckLost, DeliveryFails,
           Stop, Kill, Restart, vars, pollerVars
  <2>. QED
    BY <2>1, IngestionAssumption DEF PollInv
<1>. QED
  BY <1>1, <1>2, <1>3, <1>4, QueueStep DEF PollInv

\* The shapes of the poller's variables; the queue never outgrows its limit
\* and a record is never sent more often than faults explain.
THEOREM TypeCorrect == Spec => []TypeOK
<1>1. RoundInv /\ RInv /\ PollInv => TypeOK
  <2>. SUFFICES ASSUME RoundInv, RInv, PollInv PROVE TypeOK
    OBVIOUS
  <2>1. copies \in [Records -> 0 .. MaxFaults + 1] /\ faults \in 0 .. MaxFaults
    BY IngestionAssumption DEF RInv, CopyInv
  <2>. QED
    BY <2>1 DEF RoundInv, RInv, SourceInv, BatchInv, PollInv, TypeOK
<1>. QED
  BY <1>1, RoundInit, RoundStep, RecordInit, RecordStep, PollInit, PollStep, PTL
  DEF Spec
=============================================================================
