------------------------ MODULE SourceRegistry_proofs ------------------------
(***************************************************************************)
(* Proofs about the handlers of the table of sources, for any number of    *)
(* requests and sources and any number of faults.                          *)
(***************************************************************************)
EXTENDS SourceRegistry, TLAPS

\* Whoever got past ensure_topic_exists has a topic.
TopicInv ==
  KafkaConfigured =>
    /\ \A c \in Creates : pc[c] \in {"created", "ok"} => NameOf[c] \in topics
    /\ \A r \in Commands :
         pc[r] = "prepared" \/ (pc[r] = "ok" /\ want[r] = "active") =>
           target[r] \in Creates /\ NameOf[target[r]] \in topics

\* While a command is under way, what it read and what is in the row now are
\* among the statuses recorded for it.
HeldInv ==
  /\ \A r \in Commands :
       pc[r] \in {"loaded", "prepared"} => /\ target[r] \in Creates
                                           /\ want[r] \in Statuses
                                           /\ loaded[r] \in held[r]
                                           /\ row[target[r]] \in held[r]
  /\ AnswersHonest

IInv == TypeOK /\ NamesUnique /\ TopicInv /\ ActiveHasTopic /\ HeldInv

LEMMA InitInv == Init => IInv
<1> SUFFICES ASSUME Init PROVE IInv
  OBVIOUS
<1>1. TypeOK
  BY RegistryAssumption DEF Init, TypeOK
<1>2. /\ \A r \in Requests : pc[r] = "idle"
      /\ \A c \in Creates : row[c] = Null
  BY DEF Init
<1>3. NamesUnique
  BY <1>2 DEF NamesUnique
<1>4. TopicInv /\ HeldInv
  BY <1>2 DEF TopicInv, HeldInv, AnswersHonest, Requests
<1>5. Null # "active" => ActiveHasTopic
  BY <1>2 DEF ActiveHasTopic
<1>. QED
  BY <1>1, <1>3, <1>4, <1>5, RegistryAssumption DEF IInv, Statuses

-----------------------------------------------------------------------------
(* What a step does to the rows. *)

\* A step leaves the rows alone, inserts the row of a registration whose name
\* is free, removes the row of one whose topic failed, or writes the status a
\* command wants to a row that is there.
LEMMA RowStep ==
  ASSUME IInv, [Next]_vars
  PROVE  \/ row' = row
         \/ \E c \in Creates : /\ pc[c] = "queried" /\ ~Taken(NameOf[c])
                               /\ pc'[c] \in {"inserted", "error"}
                               /\ row' = [row EXCEPT ![c] = "active"]
         \/ \E c \in Creates : /\ pc[c] = "compensating"
                               /\ pc'[c] \in {"unavailable", "error"}
                               /\ row' = [row EXCEPT ![c] = Null]
         \/ \E r \in Commands : /\ ReadyToStore(r)
                                /\ target[r] \in Creates /\ want[r] \in Statuses
                                /\ row[target[r]] # Null
                                /\ row' = [row EXCEPT ![target[r]] = want[r]]
<1>1. ASSUME NEW r \in Requests, DatabaseFails(r)
      PROVE  \/ row' = row
             \/ /\ r \in Creates /\ pc[r] = "queried" /\ ~Taken(NameOf[r])
                /\ pc'[r] = "error"
                /\ row' = [row EXCEPT ![r] = "active"]
             \/ /\ r \in Creates /\ pc[r] = "compensating" /\ pc'[r] = "error"
                /\ row' = [row EXCEPT ![r] = Null]
             \/ /\ r \in Commands /\ ReadyToStore(r) /\ row[target[r]] # Null
                /\ row' = [row EXCEPT ![target[r]] = want[r]]
  <2>1. PICK rows \in InDoubt(r) : row' = rows
    BY <1>1 DEF DatabaseFails, StoreRows
  <2>2. pc'[r] = "error"
    BY <1>1 DEF DatabaseFails, Goto, IInv, TypeOK
  <2>. QED
    BY <2>1, <2>2 DEF InDoubt, Requests
<1>2. \A r \in Commands : ReadyToStore(r) => target[r] \in Creates /\ want[r] \in Statuses
  BY DEF ReadyToStore, IInv, HeldInv
<1>3. ASSUME NEW c \in Creates, Insert(c)
      PROVE  \/ row' = row
             \/ /\ pc[c] = "queried" /\ ~Taken(NameOf[c]) /\ pc'[c] = "inserted"
                /\ row' = [row EXCEPT ![c] = "active"]
  BY <1>3 DEF Insert, Goto, StoreRows, IInv, TypeOK, Requests
<1>4. ASSUME NEW c \in Creates, Compensate(c)
      PROVE  /\ pc[c] = "compensating" /\ pc'[c] = "unavailable"
             /\ row' = [row EXCEPT ![c] = Null]
  BY <1>4 DEF Compensate, StoreRows, Goto, IInv, TypeOK, Requests
<1>5. ASSUME NEW r \in Commands, StoreStatus(r)
      PROVE  \/ row' = row
             \/ /\ ReadyToStore(r) /\ row[target[r]] # Null
                /\ row' = [row EXCEPT ![target[r]] = want[r]]
  BY <1>5 DEF StoreStatus, StoreRows
<1>6. \/ row' = row
      \/ \E c \in Creates : Insert(c) \/ Compensate(c)
      \/ \E r \in Commands : StoreStatus(r)
      \/ \E r \in Requests : DatabaseFails(r)
  BY DEF Next, Query, Refresh, Return, Load, EnsureTopic, TopicFails, Crash, vars
<1>. QED
  BY <1>1, <1>2, <1>3, <1>4, <1>5, <1>6 DEF Requests

LEMMA UniqueStep ==
  ASSUME IInv, [Next]_vars
  PROVE  NamesUnique' /\ row' \in [Creates -> Statuses \cup {Null}]
<1>1. row \in [Creates -> Statuses \cup {Null}] /\ "active" \in Statuses
  BY DEF IInv, TypeOK, Statuses
<1>2. \A c, d \in Creates :
        row[c] # Null /\ row[d] # Null /\ NameOf[c] = NameOf[d] => c = d
  BY DEF IInv, NamesUnique
<1>3. CASE row' = row
  BY <1>1, <1>2, <1>3 DEF NamesUnique
<1>4. ASSUME NEW c \in Creates, ~Taken(NameOf[c]), row' = [row EXCEPT ![c] = "active"]
      PROVE  NamesUnique' /\ row' \in [Creates -> Statuses \cup {Null}]
  BY <1>1, <1>2, <1>4 DEF NamesUnique, Taken
<1>5. ASSUME NEW c \in Creates, row' = [row EXCEPT ![c] = Null]
      PROVE  NamesUnique' /\ row' \in [Creates -> Statuses \cup {Null}]
  BY <1>1, <1>2, <1>5 DEF NamesUnique
<1>6. ASSUME NEW c \in Creates, NEW s \in Statuses, row[c] # Null,
             row' = [row EXCEPT ![c] = s]
      PROVE  NamesUnique' /\ row' \in [Creates -> Statuses \cup {Null}]
  BY <1>1, <1>2, <1>6 DEF NamesUnique
<1>. QED
  BY <1>3, <1>4, <1>5, <1>6, RowStep

-----------------------------------------------------------------------------
(* The other parts of the invariant. *)

LEMMA TypeStep ==
  ASSUME IInv, [Next]_vars
  PROVE  TypeOK'
<1>1. pc' \in [Requests -> {"idle", "lost"} \cup Running \cup Answered]
  BY DEF IInv, TypeOK, Next, Query, Insert, Refresh, Return, Compensate, Load,
         StoreStatus, EnsureTopic, TopicFails, DatabaseFails, Crash, Goto,
         Requests, Running, Answered, AfterTopic, vars
<1>2. /\ target' \in [Commands -> Creates \cup {Null}]
      /\ want' \in [Commands -> Statuses \cup {Null}]
      /\ loaded' \in [Commands -> Statuses \cup {Null}]
  <2>1. CASE UNCHANGED <<target, want, loaded>>
    BY <2>1 DEF IInv, TypeOK
  <2>2. ASSUME NEW r \in Commands, NEW c \in Creates, NEW s \in Statuses, Load(r, c, s)
        PROVE  /\ target' \in [Commands -> Creates \cup {Null}]
               /\ want' \in [Commands -> Statuses \cup {Null}]
               /\ loaded' \in [Commands -> Statuses \cup {Null}]
    BY <2>2 DEF Load, IInv, TypeOK
  <2>. QED
    BY <2>1, <2>2
    DEF Next, Query, Insert, Refresh, Return, Compensate, StoreStatus,
        EnsureTopic, TopicFails, DatabaseFails, Crash, vars
<1>3. topics' \subseteq Names
  <2>1. \A r \in Requests : NeedsTopic(r) => TopicName(r) \in Names
    BY RegistryAssumption
    DEF NeedsTopic, TopicName, Requests, IInv, HeldInv
  <2>2. \/ topics' = topics
        \/ \E r \in Requests : NeedsTopic(r) /\ topics' = topics \cup {TopicName(r)}
    BY DEF Next, Query, Insert, Refresh, Return, Compensate, Load, StoreStatus,
           EnsureTopic, TopicFails, DatabaseFails, Crash, vars
  <2>. QED
    BY <2>1, <2>2 DEF IInv, TypeOK
<1>4. faults' \in 0 .. MaxFaults
  <2>1. faults' = faults \/ (faults < MaxFaults /\ faults' = faults + 1)
    BY DEF Next, Query, Insert, Refresh, Return, Compensate, Load, StoreStatus,
           EnsureTopic, TopicFails, DatabaseFails, Crash, vars
  <2>. QED
    BY <2>1, RegistryAssumption DEF IInv, TypeOK
<1>5. held' \in [Commands -> SUBSET (Statuses \cup {Null})]
  <2>1. row' \in [Creates -> Statuses \cup {Null}]
    BY UniqueStep
  <2>2. ASSUME StoreRows(row') PROVE held' \in [Commands -> SUBSET (Statuses \cup {Null})]
    <3>1. \A r \in Commands : pc[r] \in {"loaded", "prepared"} => target[r] \in Creates
      BY DEF IInv, HeldInv
    <3>. QED
      BY <2>1, <2>2, <3>1 DEF StoreRows, IInv, TypeOK
  <2>3. CASE UNCHANGED held
    BY <2>3 DEF IInv, TypeOK
  <2>4. ASSUME NEW r \in Commands, NEW c \in Creates, NEW s \in Statuses, Load(r, c, s)
        PROVE  held' \in [Commands -> SUBSET (Statuses \cup {Null})]
    BY <2>4 DEF Load, IInv, TypeOK
  <2>5. \/ StoreRows(row') \/ UNCHANGED held
        \/ \E r \in Commands, c \in Creates, s \in Statuses : Load(r, c, s)
    BY DEF Next, Query, Insert, Refresh, Return, Compensate, StoreStatus,
           EnsureTopic, TopicFails, DatabaseFails, Crash, StoreRows, vars
  <2>. QED
    BY <2>2, <2>3, <2>4, <2>5
<1>. QED
  BY <1>1, <1>2, <1>3, <1>4, <1>5, UniqueStep DEF TypeOK

\* A request reaches "created" or "prepared" with its topic, and topics stay.
LEMMA TopicStep ==
  ASSUME IInv, [Next]_vars
  PROVE  TopicInv'
<1> SUFFICES ASSUME KafkaConfigured PROVE TopicInv'
  BY DEF TopicInv
<1>1. topics \subseteq topics'
  BY DEF Next, Query, Insert, Refresh, Return, Compensate, Load, StoreStatus,
         EnsureTopic, TopicFails, DatabaseFails, Crash, vars
<1>2. ASSUME NEW c \in Creates, pc'[c] \in {"created", "ok"}
      PROVE  NameOf[c] \in topics'
  <2>1. \/ pc[c] \in {"created", "ok"}
        \/ EnsureTopic(c)
    BY <1>2, RegistryAssumption
    DEF IInv, TypeOK, Next, Query, Insert, Refresh, Return, Compensate, Load,
        StoreStatus, EnsureTopic, TopicFails, DatabaseFails, Crash, Goto,
        Requests, AfterTopic, vars
  <2>. QED
    BY <1>1, <2>1 DEF EnsureTopic, TopicName, IInv, TopicInv
<1>3. ASSUME NEW r \in Commands,
             pc'[r] = "prepared" \/ (pc'[r] = "ok" /\ want'[r] = "active")
      PROVE  target'[r] \in Creates /\ NameOf[target'[r]] \in topics'
  <2>1. \/ EnsureTopic(r)
        \/ /\ pc[r] = "prepared" \/ (pc[r] = "ok" /\ want[r] = "active")
           /\ target'[r] = target[r]
    BY <1>3, RegistryAssumption
    DEF IInv, TypeOK, Next, Query, Insert, Refresh, Return, Compensate, Load,
        StoreStatus, ReadyToStore, EnsureTopic, TopicFails, DatabaseFails,
        Crash, Goto, Requests, AfterTopic, vars
  <2>2. CASE EnsureTopic(r)
    <3>1. r \notin Creates
      BY RegistryAssumption
    <3>. QED
      BY <2>2, <3>1 DEF EnsureTopic, NeedsTopic, TopicName, IInv, HeldInv
  <2>. QED
    BY <1>1, <2>1, <2>2 DEF IInv, TopicInv
<1>. QED
  BY <1>2, <1>3 DEF TopicInv

LEMMA ActiveStep ==
  ASSUME IInv, [Next]_vars
  PROVE  ActiveHasTopic'
<1> DEFINE Cut == {"inserted", "refreshed", "compensating", "lost", "error"}
<1> SUFFICES ASSUME KafkaConfigured, NEW c \in Creates, row'[c] = "active",
                    NameOf[c] \notin topics'
             PROVE  pc'[c] \in Cut
  BY DEF ActiveHasTopic
<1>1. NameOf[c] \notin topics
  BY DEF Next, Query, Insert, Refresh, Return, Compensate, Load, StoreStatus,
         EnsureTopic, TopicFails, DatabaseFails, Crash, vars
<1>2. row[c] = "active" \/ pc'[c] \in {"inserted", "error"}
  <2>1. \A r \in Commands : ReadyToStore(r) /\ want[r] = "active" =>
                              target[r] \in Creates /\ NameOf[target[r]] \in topics
    BY DEF ReadyToStore, IInv, TopicInv
  <2>2. row \in [Creates -> Statuses \cup {Null}] /\ "active" # Null
    BY RegistryAssumption DEF IInv, TypeOK, Statuses
  <2>. QED
    BY <1>1, <2>1, <2>2, RowStep
<1>3. CASE row[c] = "active"
  <2>1. pc[c] \in Cut
    BY <1>1, <1>3 DEF IInv, ActiveHasTopic
  <2>2. CASE EnsureTopic(c)
    BY <2>2 DEF EnsureTopic, TopicName
  <2>3. CASE Compensate(c)
    BY <2>3, RegistryAssumption DEF Compensate, StoreRows, IInv, TypeOK, Statuses
  <2>4. CASE ~EnsureTopic(c) /\ ~Compensate(c)
    BY <2>1, <2>4, RegistryAssumption
    DEF IInv, TypeOK, Next, Query, Insert, Refresh, Return, Compensate, Load,
        StoreStatus, ReadyToStore, EnsureTopic, TopicFails, DatabaseFails,
        Crash, Goto, Requests, AfterTopic, vars
  <2>. QED
    BY <2>2, <2>3, <2>4
<1>. QED
  BY <1>2, <1>3

\* What a step does to a command that it neither begins nor answers.
LEMMA HeldGrows ==
  ASSUME IInv, [Next]_vars, NEW r \in Commands,
         ~\E c \in Creates, s \in Statuses : Load(r, c, s)
  PROVE  /\ target'[r] = target[r] /\ want'[r] = want[r] /\ loaded'[r] = loaded[r]
         /\ held[r] \subseteq held'[r]
         /\ pc[r] \in {"loaded", "prepared"} =>
              row'[target[r]] \in held'[r] \/ row' = row
<1>1. ASSUME NEW k \in Commands, k # r, NEW c \in Creates, NEW s \in Statuses,
             Load(k, c, s)
      PROVE  /\ target'[r] = target[r] /\ want'[r] = want[r] /\ loaded'[r] = loaded[r]
             /\ held'[r] = held[r] /\ row' = row
  BY <1>1 DEF Load, IInv, TypeOK
<1>2. ASSUME StoreRows(row')
      PROVE  /\ held[r] \subseteq held'[r]
             /\ pc[r] \in {"loaded", "prepared"} => row'[target[r]] \in held'[r]
  BY <1>2 DEF StoreRows, IInv, TypeOK
<1>3. \/ \E k \in Commands, c \in Creates, s \in Statuses : Load(k, c, s)
      \/ /\ UNCHANGED <<target, want, loaded>>
         /\ StoreRows(row') \/ UNCHANGED <<row, held>>
  BY DEF Next, Query, Insert, Refresh, Return, Compensate, StoreStatus,
         EnsureTopic, TopicFails, DatabaseFails, Crash, StoreRows, vars
<1>. QED
  BY <1>1, <1>2, <1>3

LEMMA HeldStep ==
  ASSUME IInv, [Next]_vars
  PROVE  HeldInv'
<1>1. ASSUME NEW r \in Commands, NEW c \in Creates, NEW s \in Statuses, Load(r, c, s)
      PROVE  /\ pc'[r] # "ok"
             /\ target'[r] \in Creates /\ want'[r] \in Statuses
             /\ loaded'[r] \in held'[r] /\ row'[target'[r]] \in held'[r]
  BY <1>1 DEF Load, Goto, IInv, TypeOK, Requests
<1>2. ASSUME NEW r \in Commands, pc'[r] \in {"loaded", "prepared"}
      PROVE  /\ target'[r] \in Creates /\ want'[r] \in Statuses
             /\ loaded'[r] \in held'[r] /\ row'[target'[r]] \in held'[r]
  <2>1. CASE \E c \in Creates, s \in Statuses : Load(r, c, s)
    BY <1>1, <2>1
  <2>2. CASE ~\E c \in Creates, s \in Statuses : Load(r, c, s)
    <3>1. pc[r] \in {"loaded", "prepared"}
      BY <1>2, <2>2, RegistryAssumption
      DEF IInv, TypeOK, Next, Query, Insert, Refresh, Return, Compensate, Load,
          StoreStatus, ReadyToStore, EnsureTopic, NeedsTopic, TopicFails,
          DatabaseFails, Crash, Goto, Requests, AfterTopic, vars
    <3>. QED
      BY <2>2, <3>1, HeldGrows DEF IInv, HeldInv
  <2>. QED
    BY <2>1, <2>2
<1>3. ASSUME NEW r \in Commands, pc'[r] = "ok"
      PROVE  want'[r] \in held'[r]
  <2>1. ~\E c \in Creates, s \in Statuses : Load(r, c, s)
    BY <1>1, <1>3
  <2>2. pc[r] = "ok" \/ StoreStatus(r)
    <3>1. r \in Requests /\ r \notin Creates
      BY RegistryAssumption DEF Requests
    <3>2. CASE \E c \in Creates : Query(c) \/ Insert(c) \/ Refresh(c) \/ Return(c)
                                                 \/ Compensate(c)
      BY <1>3, <3>1, <3>2
      DEF IInv, TypeOK, Query, Insert, Refresh, Return, Compensate, Goto, Requests
    <3>3. CASE \E k \in Commands : StoreStatus(k)
      BY <1>3, <3>3 DEF IInv, TypeOK, StoreStatus, Goto, Requests
    <3>4. CASE \E k \in Commands, c \in Creates, s \in Statuses : Load(k, c, s)
      BY <1>3, <2>1, <3>4 DEF IInv, TypeOK, Load, Goto, Requests
    <3>5. CASE \E q \in Requests : EnsureTopic(q) \/ TopicFails(q) \/ DatabaseFails(q)
      BY <1>3, <3>1, <3>5
      DEF IInv, TypeOK, EnsureTopic, TopicFails, DatabaseFails, Goto, AfterTopic
    <3>6. CASE Crash \/ UNCHANGED vars
      BY <1>3, <3>1, <3>6 DEF Crash, vars
    <3>. QED
      BY <3>2, <3>3, <3>4, <3>5, <3>6 DEF Next
  <2>3. CASE StoreStatus(r)
    <3>1. pc[r] \in {"loaded", "prepared"} /\ target[r] \in Creates
      BY <2>3 DEF StoreStatus, ReadyToStore, IInv, HeldInv
    <3>2. CASE loaded[r] = want[r]
      BY <2>1, <3>1, <3>2, HeldGrows DEF IInv, HeldInv
    <3>3. CASE loaded[r] # want[r]
      <4>1. row' = [row EXCEPT ![target[r]] = want[r]] /\ StoreRows(row')
        <5>1. pc'[r] # "error"
          BY <1>3
        <5>. QED
          BY <2>3, <3>3, <5>1 DEF StoreStatus, StoreRows, Goto, IInv, TypeOK, Requests
      <4>2. row'[target[r]] = want[r] /\ row'[target[r]] \in held'[r]
        BY <3>1, <4>1 DEF StoreRows, IInv, TypeOK
      <4>. QED
        BY <2>1, <4>2, HeldGrows
    <3>. QED
      BY <3>2, <3>3
  <2>4. CASE pc[r] = "ok"
    BY <2>1, <2>4, HeldGrows DEF IInv, HeldInv, AnswersHonest
  <2>. QED
    BY <2>2, <2>3, <2>4
<1>. QED
  BY <1>2, <1>3 DEF HeldInv, AnswersHonest

LEMMA InvStep == IInv /\ [Next]_vars => IInv'
  BY TypeStep, UniqueStep, TopicStep, ActiveStep, HeldStep DEF IInv

-----------------------------------------------------------------------------
(* The theorems. *)

LEMMA Invariance == Spec => []IInv
  BY InitInv, InvStep, PTL DEF Spec

\* The shapes of requests, rows and topics.
THEOREM TypeCorrect == Spec => []TypeOK
<1>1. IInv => TypeOK
  BY DEF IInv
<1>. QED
  BY <1>1, Invariance, PTL

\* Registrations that race leave at most one row per name (sources.py:116-128).
THEOREM OneRowPerName == Spec => []NamesUnique
<1>1. IInv => NamesUnique
  BY DEF IInv
<1>. QED
  BY <1>1, Invariance, PTL

\* A request that answered with success has its topic (sources.py:131-138,
\* 182-188).
THEOREM SuccessHasTopic == Spec => []AnsweredHasTopic
<1>1. IInv => AnsweredHasTopic
  BY DEF IInv, TopicInv, AnsweredHasTopic
<1>. QED
  BY <1>1, Invariance, PTL

\* A source the poller is to poll has its topic, or its registration is under
\* way or was cut off (sources.py:128-136).
THEOREM PolledHasTopic == Spec => []ActiveHasTopic
<1>1. IInv => ActiveHasTopic
  BY DEF IInv
<1>. QED
  BY <1>1, Invariance, PTL

\* No command is answered with a status its source never had (sources.py:179-202).
THEOREM HonestAnswers == Spec => []AnswersHonest
<1>1. IInv => AnswersHonest
  BY DEF IInv, HeldInv
<1>. QED
  BY <1>1, Invariance, PTL

-----------------------------------------------------------------------------
(* The handlers implement the table of sources. *)

\* A registration has its row from the insert on, until it is compensated.
RowInv == \A c \in Creates :
            pc[c] \in {"inserted", "refreshed", "created", "ok", "compensating"} =>
              row[c] # Null

LEMMA RowInvInit == Init => RowInv
  BY DEF Init, RowInv, Requests

LEMMA RowInvStep ==
  ASSUME IInv, RowInv, [Next]_vars
  PROVE  RowInv'
<1> DEFINE Kept == {"inserted", "refreshed", "created", "ok", "compensating"}
<1> SUFFICES ASSUME NEW c \in Creates, pc'[c] \in Kept PROVE row'[c] # Null
  BY DEF RowInv
<1>1. row \in [Creates -> Statuses \cup {Null}] /\ Null \notin Statuses /\ "active" \in Statuses
  BY RegistryAssumption DEF IInv, TypeOK, Statuses
<1>2. CASE Insert(c)
  BY <1>1, <1>2 DEF Insert, StoreRows, Goto, IInv, TypeOK, Requests
<1>3. CASE ~Insert(c)
  <2>1. pc[c] \in Kept
    <3>1. c \in Requests /\ c \notin Commands
      BY RegistryAssumption DEF Requests
    <3>2. CASE \E d \in Creates : Query(d) \/ Insert(d) \/ Refresh(d) \/ Return(d)
                                             \/ Compensate(d)
      BY <1>3, <3>1, <3>2
      DEF IInv, TypeOK, Query, Insert, Refresh, Return, Compensate, Goto, Requests
    <3>3. CASE \E k \in Commands : \/ StoreStatus(k)
                                   \/ \E d \in Creates, s \in Statuses : Load(k, d, s)
      BY <3>1, <3>3 DEF IInv, TypeOK, StoreStatus, Load, Goto, Requests
    <3>4. CASE \E q \in Requests : EnsureTopic(q) \/ TopicFails(q) \/ DatabaseFails(q)
      BY <3>1, <3>4
      DEF IInv, TypeOK, EnsureTopic, NeedsTopic, TopicFails, DatabaseFails, Goto,
          AfterTopic
    <3>5. CASE Crash \/ UNCHANGED vars
      BY <3>1, <3>5 DEF Crash, vars
    <3>. QED
      BY <3>2, <3>3, <3>4, <3>5 DEF Next
  <2>2. row[c] # Null
    BY <2>1 DEF RowInv
  <2>. QED
    BY <1>1, <2>2, RowStep
<1>. QED
  BY <1>2, <1>3

\* StatusOf, in terms of any rows.
Status(rows, n) ==
  IF \E c \in Creates : rows[c] # Null /\ NameOf[c] = n
  THEN rows[CHOOSE c \in Creates : rows[c] # Null /\ NameOf[c] = n]
  ELSE Null

Unique(rows) ==
  \A c, d \in Creates :
    rows[c] # Null /\ rows[d] # Null /\ NameOf[c] = NameOf[d] => c = d

LEMMA StatusIs ==
  ASSUME NEW rows, Unique(rows), NEW c \in Creates, rows[c] # Null
  PROVE  Status(rows, NameOf[c]) = rows[c]
<1>1. \A d \in Creates : rows[d] # Null /\ NameOf[d] = NameOf[c] => d = c
  BY DEF Unique
<1>2. (CHOOSE d \in Creates : rows[d] # Null /\ NameOf[d] = NameOf[c]) = c
  BY <1>1
<1>. QED
  BY <1>2 DEF Status

Differ(old, new, c, v) ==
  new[c] = v /\ \A d \in Creates : d # c => new[d] = old[d]

\* A row that changes changes the status of its name and of no other.
LEMMA StatusUpdated ==
  ASSUME NEW old \in [Creates -> Statuses \cup {Null}], Unique(old),
         NEW c \in Creates, NEW v \in Statuses \cup {Null},
         NEW new, Unique(new), Differ(old, new, c, v),
         old[c] # Null \/ v # Null
  PROVE  /\ Status(new, NameOf[c]) = v
         /\ \A n : n # NameOf[c] => Status(new, n) = Status(old, n)
<1>1. new[c] = v /\ \A d \in Creates : d # c => new[d] = old[d]
  BY DEF Differ
<1>2. ASSUME NEW n, n # NameOf[c] PROVE Status(new, n) = Status(old, n)
  <2>1. CASE \E d \in Creates : old[d] # Null /\ NameOf[d] = n
    <3>1. PICK d \in Creates : old[d] # Null /\ NameOf[d] = n
      BY <2>1
    <3>2. d # c /\ new[d] = old[d]
      BY <1>1, <1>2, <3>1
    <3>3. Status(old, NameOf[d]) = old[d]
      BY <3>1, StatusIs
    <3>4. Status(new, NameOf[d]) = new[d]
      BY <3>1, <3>2, StatusIs
    <3>. QED
      BY <3>1, <3>2, <3>3, <3>4
  <2>2. CASE ~\E d \in Creates : old[d] # Null /\ NameOf[d] = n
    <3>1. ~\E d \in Creates : new[d] # Null /\ NameOf[d] = n
      BY <1>1, <1>2, <2>2
    <3>. QED
      BY <2>2, <3>1 DEF Status
  <2>. QED
    BY <2>1, <2>2
<1>3. Status(new, NameOf[c]) = v
  <2>1. CASE v # Null
    <3>. QED
      BY <1>1, <2>1, StatusIs
  <2>2. CASE v = Null
    <3>1. \A d \in Creates : NameOf[d] = NameOf[c] => new[d] = Null
      BY <1>1, <2>2 DEF Unique
    <3>. QED
      BY <2>2, <3>1 DEF Status
  <2>. QED
    BY <2>1, <2>2
<1>. QED
  BY <1>2, <1>3

tableVarsMapped == <<StatusTable, Confirmed>>

\* Only the answer to a registration confirms one, and none is forgotten.
LEMMA ConfirmedStep ==
  ASSUME IInv, [Next]_vars
  PROVE  \/ Confirmed' = Confirmed
         \/ \E c \in Creates : /\ pc[c] = "created" /\ row' = row
                               /\ Confirmed' = Confirmed \cup {NameOf[c]}
<1>1. CASE \E c \in Creates : Return(c)
  <2>1. PICK c \in Creates : Return(c)
    BY <1>1
  <2>2. /\ pc[c] = "created" /\ row' = row
        /\ \A d \in Creates : pc'[d] = "ok" <=> pc[d] = "ok" \/ d = c
    BY <2>1 DEF Return, Goto, IInv, TypeOK, Requests
  <2>. QED
    BY <2>2 DEF Confirmed
<1>2. CASE ~\E c \in Creates : Return(c)
  <2>1. ASSUME NEW d \in Creates PROVE pc'[d] = "ok" <=> pc[d] = "ok"
    <3>1. d \in Requests /\ d \notin Commands
      BY RegistryAssumption DEF Requests
    <3>2. CASE \E c \in Creates : Query(c) \/ Insert(c) \/ Refresh(c) \/ Compensate(c)
      BY <3>1, <3>2
      DEF IInv, TypeOK, Query, Insert, Refresh, Compensate, Goto, Requests
    <3>3. CASE \E k \in Commands : \/ StoreStatus(k)
                                   \/ \E c \in Creates, s \in Statuses : Load(k, c, s)
      BY <3>1, <3>3 DEF IInv, TypeOK, StoreStatus, Load, Goto, Requests
    <3>4. CASE \E q \in Requests : EnsureTopic(q) \/ TopicFails(q)
      BY <3>1, <3>4
      DEF IInv, TypeOK, EnsureTopic, NeedsTopic, TopicFails, Goto, AfterTopic
    <3>5. CASE \E q \in Requests : DatabaseFails(q)
      BY <3>1, <3>5
      DEF IInv, TypeOK, DatabaseFails, ReadyToStore, Goto, Requests
    <3>6. CASE Crash \/ UNCHANGED vars
      BY <3>1, <3>6 DEF Crash, Running, vars
    <3>. QED
      BY <1>2, <3>2, <3>3, <3>4, <3>5, <3>6 DEF Next
  <2>. QED
    BY <2>1 DEF Confirmed
<1>. QED
  BY <1>1, <1>2

LEMMA TableStep ==
  ASSUME IInv, RowInv, [Next]_vars
  PROVE  [Table!TableNext]_tableVarsMapped
<1>1. /\ row \in [Creates -> Statuses \cup {Null}]
      /\ row' \in [Creates -> Statuses \cup {Null}]
      /\ Unique(row) /\ Unique(row')
      /\ Null \notin Statuses /\ "active" \in Statuses
  BY UniqueStep, RegistryAssumption DEF IInv, TypeOK, NamesUnique, Unique, Statuses
<1>2. /\ StatusTable = [n \in Names |-> Status(row, n)]
      /\ StatusTable' = [n \in Names |-> Status(row', n)]
  BY DEF StatusTable, StatusOf, Status, Taken
<1>3. \A c \in Creates : NameOf[c] \in Names
  BY RegistryAssumption
<1>4. ASSUME NEW c \in Creates, row[c] # Null
      PROVE  StatusTable[NameOf[c]] = row[c]
  BY <1>1, <1>2, <1>3, <1>4, StatusIs
<1>5. ASSUME NEW c \in Creates, NEW v \in Statuses \cup {Null},
             row' = [row EXCEPT ![c] = v], row[c] # Null \/ v # Null
      PROVE  StatusTable' = [StatusTable EXCEPT ![NameOf[c]] = v]
  <2>1. /\ Status(row', NameOf[c]) = v
        /\ \A n : n # NameOf[c] => Status(row', n) = Status(row, n)
    <3>1. PICK old : old = row
      OBVIOUS
    <3>2. PICK new : new = row'
      OBVIOUS
    <3>3. /\ old \in [Creates -> Statuses \cup {Null}]
          /\ Unique(old) /\ Unique(new) /\ Differ(old, new, c, v)
          /\ old[c] # Null \/ v # Null
      BY <1>1, <1>5, <3>1, <3>2 DEF Differ, Unique
    <3>4. /\ Status(new, NameOf[c]) = v
          /\ \A n : n # NameOf[c] => Status(new, n) = Status(old, n)
      BY <3>3, StatusUpdated
    <3>. QED
      BY <3>1, <3>2, <3>4 DEF Status
  <2>. QED
    BY <1>2, <1>3, <2>1
<1>6. CASE row' = row
  <2>1. StatusTable' = StatusTable
    BY <1>2, <1>6
  <2>2. ASSUME NEW c \in Creates, pc[c] = "created",
               Confirmed' = Confirmed \cup {NameOf[c]}
        PROVE  Table!Confirm(NameOf[c])
    <3>1. row[c] # Null
      BY <2>2 DEF RowInv
    <3>2. StatusTable[NameOf[c]] # Null
      BY <1>4, <3>1
    <3>. QED
      BY <2>1, <2>2, <3>2 DEF Table!Confirm
  <2>3. \A n \in Names : Table!Confirm(n) => Table!TableNext
    BY DEF Table!TableNext
  <2>. QED
    BY <1>3, <2>1, <2>2, <2>3, ConfirmedStep DEF tableVarsMapped
<1>7. CASE row' # row
  <2>1. Confirmed' = Confirmed
    BY <1>7, ConfirmedStep
  <2>2. ASSUME NEW c \in Creates, ~Taken(NameOf[c]),
               row' = [row EXCEPT ![c] = "active"]
        PROVE  Table!Register(NameOf[c])
    <3>1. StatusTable[NameOf[c]] = Null
      BY <1>3, <2>2 DEF StatusTable, StatusOf
    <3>2. StatusTable' = [StatusTable EXCEPT ![NameOf[c]] = "active"]
      BY <1>1, <1>5, <2>2
    <3>. QED
      BY <2>1, <3>1, <3>2 DEF Table!Register
  <2>3. ASSUME NEW c \in Creates, pc[c] = "compensating",
               row' = [row EXCEPT ![c] = Null]
        PROVE  Table!Withdraw(NameOf[c])
    <3>1. row[c] # Null
      BY <2>3 DEF RowInv
    <3>2. NameOf[c] \notin Confirmed
      <4>1. \A d \in Creates : pc[d] = "ok" => row[d] # Null /\ d # c
        BY <2>3 DEF RowInv
      <4>. QED
        BY <1>1, <3>1, <4>1 DEF Confirmed, Unique
    <3>3. StatusTable' = [StatusTable EXCEPT ![NameOf[c]] = Null]
      BY <1>5, <2>3, <3>1
    <3>4. StatusTable[NameOf[c]] # Null
      BY <1>4, <3>1
    <3>. QED
      BY <2>1, <3>2, <3>3, <3>4 DEF Table!Withdraw
  <2>4. ASSUME NEW c \in Creates, NEW s \in Statuses, row[c] # Null,
               row' = [row EXCEPT ![c] = s]
        PROVE  Table!SetStatus(NameOf[c], s)
    <3>1. StatusTable' = [StatusTable EXCEPT ![NameOf[c]] = s]
      BY <1>5, <2>4
    <3>2. StatusTable[NameOf[c]] # Null
      BY <1>4, <2>4
    <3>. QED
      BY <2>1, <3>1, <3>2 DEF Table!SetStatus
  <2>5. \/ \E n \in Names : Table!Register(n) \/ Table!Withdraw(n)
        \/ \E n \in Names, s \in Statuses : Table!SetStatus(n, s)
    BY <1>3, <1>7, <2>2, <2>3, <2>4, RowStep
  <2>. QED
    BY <2>5 DEF Table!TableNext, Table!Statuses, Statuses
<1>. QED
  BY <1>6, <1>7

LEMMA TableInitially == Init => Table!TableInit
<1> SUFFICES ASSUME Init PROVE Table!TableInit
  OBVIOUS
<1>1. \A c \in Creates : row[c] = Null /\ pc[c] = "idle"
  BY DEF Init, Requests
<1>2. \A n \in Names : StatusOf(n) = Null
  BY <1>1 DEF StatusOf, Taken
<1>3. Confirmed = {}
  BY <1>1 DEF Confirmed
<1>. QED
  BY <1>2, <1>3 DEF StatusTable, Table!TableInit

\* Whatever requests race and fail, a reader of the table sees names that are
\* registered once, statuses that are set one at a time, and confirmed sources
\* that stay: the handlers implement SourceTable (sources.py:114-202).
THEOREM TableImplemented == Spec => ImplementsTable
<1>1. IInv /\ RowInv /\ [Next]_vars => RowInv' /\ [Table!TableNext]_tableVarsMapped
  BY RowInvStep, TableStep
<1>. QED
  BY <1>1, RowInvInit, TableInitially, Invariance, PTL
     DEF Spec, ImplementsTable, Table!TableSpec, Table!tableVars, tableVarsMapped
=============================================================================
