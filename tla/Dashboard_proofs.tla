-------------------------- MODULE Dashboard_proofs --------------------------
(***************************************************************************)
(* The timers and the selector of the dashboard: what they keep to for any *)
(* number of calls under way and whatever order their answers come in.     *)
(***************************************************************************)
EXTENDS Dashboard, TLAPS

-----------------------------------------------------------------------------
(* The bag of calls. *)

\* A fetch adds one copy of the call; an answer takes one away.
LEMMA Added ==
  ASSUME NEW b, IsABag(b), NEW c
  PROVE  LET new == b (+) SetToBag({c}) IN
         /\ IsABag(new)
         /\ DOMAIN new = DOMAIN b \cup {c}
         /\ \A d \in DOMAIN b \ {c} : new[d] = b[d]
         /\ new[c] = IF c \in DOMAIN b THEN b[c] + 1 ELSE 1
<1>. DEFINE new == b (+) SetToBag({c})
<1>1. new = [e \in DOMAIN b \cup {c} |->
               (IF e \in DOMAIN b THEN b[e] ELSE 0) + (IF e \in {c} THEN 1 ELSE 0)]
  BY DEF (+), SetToBag
<1>. HIDE DEF new
<1>2. \A e \in DOMAIN b : b[e] \in Nat /\ b[e] > 0
  BY DEF IsABag
<1>3. /\ DOMAIN new = DOMAIN b \cup {c}
      /\ \A d \in DOMAIN b \ {c} : new[d] = b[d]
      /\ new[c] = IF c \in DOMAIN b THEN b[c] + 1 ELSE 1
  BY <1>1, <1>2
<1>4. IsABag(new)
  <2>1. \A e \in DOMAIN new : new[e] \in {n \in Nat : n > 0}
    BY <1>2, <1>3
  <2>. QED
    BY <1>1, <2>1 DEF IsABag
<1>. QED
  BY <1>3, <1>4 DEF new

LEMMA Removed ==
  ASSUME NEW b, IsABag(b), NEW c \in DOMAIN b
  PROVE  LET new == b (-) SetToBag({c}) IN
         /\ IsABag(new)
         /\ DOMAIN new = IF b[c] = 1 THEN DOMAIN b \ {c} ELSE DOMAIN b
         /\ \A d \in DOMAIN b \ {c} : new[d] = b[d]
         /\ b[c] # 1 => new[c] = b[c] - 1
<1>. DEFINE new == b (-) SetToBag({c})
            rest == [e \in DOMAIN b |-> IF e \in {c} THEN b[e] - 1 ELSE b[e]]
<1>1. new = [e \in {d \in DOMAIN rest : rest[d] > 0} |-> rest[e]]
  BY DEF (-), SetToBag
<1>2. \A e \in DOMAIN b : b[e] \in Nat /\ b[e] > 0
  BY DEF IsABag
<1>3. /\ DOMAIN rest = DOMAIN b
      /\ \A d \in DOMAIN b \ {c} : rest[d] = b[d] /\ rest[d] > 0
      /\ rest[c] = b[c] - 1
  BY <1>2
<1>. HIDE DEF new, rest
<1>4. DOMAIN new = IF b[c] = 1 THEN DOMAIN b \ {c} ELSE DOMAIN b
  BY <1>1, <1>2, <1>3
<1>5. /\ \A d \in DOMAIN b \ {c} : new[d] = b[d]
      /\ b[c] # 1 => new[c] = b[c] - 1
  BY <1>1, <1>2, <1>3
<1>6. IsABag(new)
  <2>1. \A e \in DOMAIN new : new[e] \in {n \in Nat : n > 0}
    BY <1>2, <1>4, <1>5
  <2>. QED
    BY <1>1, <2>1 DEF IsABag
<1>. QED
  BY <1>4, <1>5, <1>6 DEF new

\* How many navigations to v a bag of calls has.
OpensIn(b, v) == IF <<"open", v>> \in DOMAIN b THEN b[<<"open", v>>] ELSE 0

\* A call that is no navigation.
Other(c) == \A v : c # <<"open", v>>

LEMMA OpensType ==
  ASSUME NEW b, IsABag(b), NEW v
  PROVE  /\ OpensIn(b, v) \in Nat
         /\ OpensIn(b, v) # 0 <=> <<"open", v>> \in DOMAIN b
         /\ OpensIn(calls, v) = Opens(v)
<1>1. \A e \in DOMAIN b : b[e] \in Nat /\ b[e] > 0
  BY DEF IsABag
<1>. QED
  BY <1>1 DEF OpensIn, Opens, BagIn, BagToSet

LEMMA OtherCalls ==
  /\ Other(<<"list">>) /\ Other(<<"connect">>) /\ Other(<<"created">>)
  /\ \A s : Other(<<"details", s>>) /\ Other(<<"command", s>>)
  /\ \A v, s : Other(<<"load", v, s>>)
  /\ \A c : c[1] \in {"load", "details", "command", "connect"} => Other(c)
<1>1. \A v : <<"open", v>>[1] = "open"
  OBVIOUS
<1>2. \A c : c[1] # "open" => Other(c)
  BY <1>1 DEF Other
<1>3. /\ <<"list">>[1] = "list" /\ <<"connect">>[1] = "connect"
      /\ <<"created">>[1] = "created"
  OBVIOUS
<1>4. \A s : <<"details", s>>[1] = "details" /\ <<"command", s>>[1] = "command"
  OBVIOUS
<1>5. \A v, s : <<"load", v, s>>[1] = "load"
  OBVIOUS
<1>. QED
  BY <1>2, <1>3, <1>4, <1>5

LEMMA OtherAdded ==
  ASSUME NEW b, IsABag(b), NEW c, Other(c)
  PROVE  /\ IsABag(b (+) SetToBag({c}))
         /\ \A v : OpensIn(b (+) SetToBag({c}), v) = OpensIn(b, v)
<1>. DEFINE new == b (+) SetToBag({c})
<1>1. /\ IsABag(new) /\ DOMAIN new = DOMAIN b \cup {c}
      /\ \A d \in DOMAIN b \ {c} : new[d] = b[d]
  BY Added
<1>. HIDE DEF new
<1>2. \A v : <<"open", v>> # c
  BY DEF Other
<1>3. \A v : OpensIn(new, v) = OpensIn(b, v)
  BY <1>1, <1>2 DEF OpensIn
<1>. QED
  BY <1>1, <1>3 DEF new

LEMMA OtherRemoved ==
  ASSUME NEW b, IsABag(b), NEW c \in DOMAIN b, Other(c)
  PROVE  /\ IsABag(b (-) SetToBag({c}))
         /\ \A v : OpensIn(b (-) SetToBag({c}), v) = OpensIn(b, v)
<1>. DEFINE new == b (-) SetToBag({c})
<1>1. /\ IsABag(new)
      /\ DOMAIN new = IF b[c] = 1 THEN DOMAIN b \ {c} ELSE DOMAIN b
      /\ \A d \in DOMAIN b \ {c} : new[d] = b[d]
  BY Removed
<1>. HIDE DEF new
<1>2. \A v : <<"open", v>> # c
  BY DEF Other
<1>3. \A v : <<"open", v>> \in DOMAIN new <=> <<"open", v>> \in DOMAIN b
  BY <1>1, <1>2
<1>4. \A v : OpensIn(new, v) = OpensIn(b, v)
  BY <1>1, <1>2, <1>3 DEF OpensIn
<1>. QED
  BY <1>1, <1>4 DEF new

\* A handler that loads figures asks for no page.
LEMMA LoadCalls ==
  ASSUME NEW v, NEW source, NEW pending, IsABag(pending), Load(v, source, pending)
  PROVE  IsABag(calls') /\ \A w : OpensIn(calls', w) = OpensIn(pending, w)
<1>1. Other(<<"load", v, source>>)
  BY OtherCalls
<1>2. \/ calls' = pending
      \/ calls' = pending (+) SetToBag({<<"load", v, source>>})
  BY DEF Load
<1>. QED
  BY <1>1, <1>2, OtherAdded

\* The steps in which navigate does not wait.
Quiet == \/ \E v \in Menu \ Panels : Click(v)
         \/ \E s \in Sources \cup {None} : Choose(s) \/ DetailsAnswered(s)
         \/ \E s \in Sources : Manage(s) \/ CommandAnswered(s)
         \/ Command \/ Connect \/ ListAnswered \/ Created \/ Connected
         \/ \E v \in Panels, s \in Sources : Loaded(v, s)
         \/ \E c \in BagToSet(calls) : Fail(c) \/ Misread(c)
         \/ \E v \in Panels : Tick(v)
         \/ UNCHANGED vars

LEMMA StepKinds ==
  ASSUME [Next]_vars
  PROVE  Quiet \/ \E v \in Panels : Click(v) \/ Opened(v)
  BY DEF Next, User, Answer, Quiet

LEMMA QuietCalls ==
  ASSUME IsABag(calls), Quiet
  PROVE  IsABag(calls') /\ \A v : Opens(v)' = Opens(v)
<1>. SUFFICES IsABag(calls') /\ \A v : OpensIn(calls', v) = OpensIn(calls, v)
  BY DEF OpensIn, Opens, BagIn, BagToSet
<1>1. ASSUME NEW c, Other(c), calls' = Fetch(c)
      PROVE  IsABag(calls') /\ \A v : OpensIn(calls', v) = OpensIn(calls, v)
  BY <1>1, OtherAdded DEF Fetch
<1>2. ASSUME NEW c, Other(c), BagIn(c, calls), calls' = Answered(c)
      PROVE  IsABag(calls') /\ \A v : OpensIn(calls', v) = OpensIn(calls, v)
  BY <1>2, OtherRemoved DEF Answered, BagIn, BagToSet
<1>3. ASSUME NEW c, Other(c), BagIn(c, calls), NEW d, Other(d),
             calls' = Answered(c) (+) SetToBag({d})
      PROVE  IsABag(calls') /\ \A v : OpensIn(calls', v) = OpensIn(calls, v)
  <2>1. IsABag(Answered(c)) /\ \A v : OpensIn(Answered(c), v) = OpensIn(calls, v)
    BY <1>3, OtherRemoved DEF Answered, BagIn, BagToSet
  <2>. QED
    BY <1>3, <2>1, OtherAdded
<1>4. CASE calls' = calls
  BY <1>4
<1>5. CASE \E s \in Sources : Manage(s)
  BY <1>1, <1>5, OtherCalls DEF Manage, ViewSourceDetails, Fetch
<1>6. CASE \E s \in Sources : CommandAnswered(s)
  BY <1>3, <1>6, OtherCalls DEF CommandAnswered, ViewSourceDetails
<1>7. CASE Command \/ Connect \/ \E s \in Sources \cup {None} : Choose(s)
  BY <1>1, <1>4, <1>7, OtherCalls DEF Command, Connect, Choose
<1>8. CASE \/ ListAnswered \/ Connected
           \/ \E s \in Sources \cup {None} : DetailsAnswered(s)
           \/ \E v \in Panels, s \in Sources : Loaded(v, s)
  BY <1>2, <1>8, OtherCalls DEF ListAnswered, Connected, DetailsAnswered, Loaded
<1>9. CASE Created
  BY <1>3, <1>9, OtherCalls DEF Created
<1>10. CASE \E c \in BagToSet(calls) : Fail(c) \/ Misread(c)
  BY <1>2, <1>10, OtherCalls DEF Fail, Misread, BagIn
<1>11. CASE \E v \in Panels : Tick(v)
  BY <1>11, LoadCalls DEF Tick
<1>12. CASE (\E v \in Menu \ Panels : Click(v)) \/ UNCHANGED vars
  BY <1>4, <1>12 DEF Click, vars
<1>. QED
  BY <1>5, <1>6, <1>7, <1>8, <1>9, <1>10, <1>11, <1>12 DEF Quiet

LEMMA ClickCalls ==
  ASSUME IsABag(calls), NEW v \in Panels, Click(v)
  PROVE  /\ IsABag(calls') /\ Opens(v)' = Opens(v) + 1
         /\ \A w : w # v => Opens(w)' = Opens(w)
<1>. DEFINE c == <<"open", v>>
<1>1. calls' = calls (+) SetToBag({c})
  BY DEF Click, Fetch
<1>2. /\ IsABag(calls') /\ DOMAIN calls' = DOMAIN calls \cup {c}
      /\ \A d \in DOMAIN calls \ {c} : calls'[d] = calls[d]
      /\ calls'[c] = IF c \in DOMAIN calls THEN calls[c] + 1 ELSE 1
  BY <1>1, Added
<1>3. \A w : w # v => <<"open", w>> # c
  OBVIOUS
<1>. QED
  BY <1>2, <1>3 DEF Opens, BagIn, BagToSet

LEMMA OpenedCalls ==
  ASSUME IsABag(calls), NEW v \in Panels, Opened(v)
  PROVE  /\ IsABag(calls') /\ Opens(v) # 0 /\ Opens(v)' = Opens(v) - 1
         /\ \A w : w # v => Opens(w)' = Opens(w)
<1>. DEFINE c == <<"open", v>>
            rest == calls (-) SetToBag({c})
<1>1. c \in DOMAIN calls
  BY DEF Opened, BagIn, BagToSet
<1>2. /\ IsABag(rest)
      /\ DOMAIN rest = IF calls[c] = 1 THEN DOMAIN calls \ {c} ELSE DOMAIN calls
      /\ \A d \in DOMAIN calls \ {c} : rest[d] = calls[d]
      /\ calls[c] # 1 => rest[c] = calls[c] - 1
  BY <1>1, Removed
<1>3. calls[c] \in Nat /\ calls[c] > 0
  BY <1>1 DEF IsABag
<1>4. Load(v, selected', rest)
  BY DEF Opened, Answered
<1>. HIDE DEF rest
<1>5. IsABag(calls') /\ \A w : OpensIn(calls', w) = OpensIn(rest, w)
  BY <1>2, <1>4, LoadCalls
<1>6. \A w : w # v => <<"open", w>> # c
  OBVIOUS
<1>7. \A w : w # v => OpensIn(rest, w) = OpensIn(calls, w)
  BY <1>2, <1>6 DEF OpensIn
<1>8. OpensIn(rest, v) = OpensIn(calls, v) - 1 /\ OpensIn(calls, v) # 0
  BY <1>1, <1>2, <1>3 DEF OpensIn
<1>9. \A w : Opens(w)' = OpensIn(calls', w) /\ Opens(w) = OpensIn(calls, w)
  BY DEF OpensIn, Opens, BagIn, BagToSet
<1>. QED
  BY <1>5, <1>7, <1>8, <1>9

-----------------------------------------------------------------------------
(* The invariants. *)

\* The timers that run, and the navigations that wait for a list and may each
\* start one: the page that is shown may have one of them, any other has cost
\* an overlap.
Waiting == Opens("analytics") + Opens("quality")
Held == IF poll = None THEN 0 ELSE 1
Shown == \/ view \in Panels /\ Opens(view) # 0
         \/ view \in Timed /\ (poll = view \/ leaked[view] # 0)

Accounted == /\ Lost <= overlaps
             /\ Lost + Waiting + Held <= overlaps + (IF Shown THEN 1 ELSE 0)

TimersType == /\ IsABag(calls) /\ overlaps \in Nat
              /\ leaked \in [Timed -> Nat] /\ poll \in Timed \cup {None}

TimersInv == TimersType /\ Accounted

LEMMA TimersNat ==
  ASSUME TimersType
  PROVE  /\ \A k \in Timed : leaked[k] \in Nat
         /\ Lost \in Nat /\ Waiting \in Nat /\ Held \in {0, 1}
         /\ Opening = {} <=> Waiting = 0
<1>1. \A v : Opens(v) \in Nat
  BY OpensType DEF TimersType
<1>. QED
  BY <1>1 DEF TimersType, Lost, Waiting, Held, Opening, Timed, Panels

\* Going to another page: what opens or runs by then has cost an overlap, so
\* that the page that is shown may have one more.
LEMMA Entered ==
  ASSUME TimersInv, NEW v, Enter(v), leaked' = leaked, IsABag(calls'),
         Waiting' = Waiting + (IF v \in Panels THEN 1 ELSE 0),
         v \in Panels => Opens(v)' # 0
  PROVE  TimersInv'
<1>1. /\ Lost \in Nat /\ Waiting \in Nat /\ Held \in {0, 1} /\ overlaps \in Nat
      /\ Opening = {} <=> Waiting = 0
      /\ Lost <= overlaps /\ Lost + Waiting + Held <= overlaps + 1
  BY TimersNat DEF TimersInv, TimersType, Accounted
<1>2. /\ view' = v /\ poll' = (IF v = "overview" THEN "overview" ELSE None)
      /\ overlaps' = IF Waiting = 0 THEN overlaps ELSE overlaps + 1
  BY <1>1 DEF Enter
<1>3. TimersType'
  BY <1>1, <1>2 DEF TimersInv, TimersType, Timed
<1>4. Lost' = Lost
  BY DEF Lost
<1>5. Held' = IF v = "overview" THEN 1 ELSE 0
  BY <1>2, NoneIsNoView DEF Held, Timed
<1>6. v \in Panels \/ v = "overview" => Shown'
  BY <1>2 DEF Shown, Timed
<1>7. v = "overview" => v \notin Panels
  BY DEF Panels
<1>. HIDE DEF Shown, Held, Lost, Waiting
<1>8. Accounted'
  BY <1>1, <1>2, <1>4, <1>5, <1>6, <1>7 DEF Accounted
<1>. QED
  BY <1>3, <1>8 DEF TimersInv

LEMMA QuietTimers ==
  ASSUME TimersInv, Quiet
  PROVE  TimersInv'
<1>1. IsABag(calls') /\ \A v : Opens(v)' = Opens(v)
  BY QuietCalls DEF TimersInv, TimersType
<1>2. Waiting' = Waiting /\ Waiting \in Nat
  BY <1>1, TimersNat DEF Waiting, TimersInv
<1>3. ASSUME NEW v, v \notin Panels, Enter(v), leaked' = leaked
      PROVE  TimersInv'
  BY <1>1, <1>2, <1>3, Entered
<1>4. ASSUME UNCHANGED <<view, poll, leaked, overlaps>>
      PROVE  TimersInv'
  <2>1. TimersType'
    BY <1>1, <1>4 DEF TimersInv, TimersType
  <2>2. Lost' = Lost /\ Held' = Held /\ Shown' = Shown
    BY <1>1, <1>4 DEF Lost, Held, Shown
  <2>. QED
    BY <1>2, <1>4, <2>1, <2>2 DEF TimersInv, Accounted
<1>5. \/ \E v : v \notin Panels /\ Enter(v) /\ leaked' = leaked
      \/ UNCHANGED <<view, poll, leaked, overlaps>>
  BY DEF Quiet, Click, Choose, DetailsAnswered, Manage, CommandAnswered,
         ViewSourceDetails, Command, Connect, ListAnswered, Created, Connected,
         Loaded, Fail, Misread, Tick, vars, Panels
<1>. QED
  BY <1>3, <1>4, <1>5

LEMMA OpenedTimers ==
  ASSUME TimersInv, NEW v \in Panels, Opened(v)
  PROVE  TimersInv'
<1>1. /\ IsABag(calls') /\ Opens(v) # 0 /\ Opens(v)' = Opens(v) - 1
      /\ \A w : w # v => Opens(w)' = Opens(w)
  BY OpenedCalls DEF TimersInv, TimersType
<1>2. /\ Lost \in Nat /\ Waiting \in Nat /\ Held \in {0, 1} /\ overlaps \in Nat
      /\ \A k \in Timed : leaked[k] \in Nat
      /\ \A w : Opens(w) \in Nat
      /\ TimersType /\ Accounted
  BY TimersNat, OpensType DEF TimersInv, TimersType
<1>3. Waiting' = Waiting - 1 /\ Waiting >= 1
  BY <1>1, <1>2 DEF Waiting, Panels
<1>4. UNCHANGED <<view, overlaps>>
  BY DEF Opened
<1>5. CASE UNCHANGED <<poll, leaked>>
  <2>1. TimersType' /\ Lost' = Lost /\ Held' = Held
    BY <1>1, <1>2, <1>4, <1>5 DEF TimersType, Lost, Held
  <2>. QED
    BY <1>2, <1>3, <1>4, <2>1 DEF Accounted, TimersInv
<1>6. CASE poll' = v /\ poll = None /\ leaked' = leaked
  <2>1. v \in Timed /\ v # None
    BY NoneIsNoView DEF Timed
  <2>2. TimersType' /\ Lost' = Lost /\ Held = 0 /\ Held' = 1
    BY <1>1, <1>2, <1>4, <1>6, <2>1 DEF TimersType, Lost, Held
  <2>3. Shown => Shown'
    BY <1>1, <1>4, <1>6, <2>1, NoneIsNoView DEF Shown
  <2>. QED
    BY <1>2, <1>3, <1>4, <2>2, <2>3 DEF Accounted, TimersInv
<1>7. CASE poll' = v /\ poll # None /\ leaked' = [leaked EXCEPT ![poll] = @ + 1]
  <2>1. v \in Timed /\ v # None /\ poll \in Timed
    BY <1>2, <1>7, NoneIsNoView DEF Timed, TimersType
  <2>2. TimersType' /\ Held = 1 /\ Held' = 1
    BY <1>1, <1>2, <1>4, <1>7, <2>1 DEF TimersType, Held
  <2>3. Lost' = Lost + 1
    BY <1>2, <1>7, <2>1 DEF Lost, TimersType, Timed, Panels
  <2>4. Shown => Shown'
    BY <1>1, <1>2, <1>4, <1>7, <2>1 DEF Shown, TimersType
  <2>. QED
    BY <1>2, <1>3, <1>4, <2>2, <2>3, <2>4 DEF Accounted, TimersInv
<1>. QED
  BY <1>5, <1>6, <1>7 DEF Opened

LEMMA TimersStep == TimersInv /\ [Next]_vars => TimersInv'
<1>. SUFFICES ASSUME TimersInv, [Next]_vars PROVE TimersInv'
  OBVIOUS
<1>1. ASSUME NEW v \in Panels, Click(v)
      PROVE  TimersInv'
  <2>1. /\ IsABag(calls') /\ Opens(v)' = Opens(v) + 1
        /\ \A w : w # v => Opens(w)' = Opens(w)
    BY <1>1, ClickCalls DEF TimersInv, TimersType
  <2>2. \A w : Opens(w) \in Nat
    BY OpensType DEF TimersInv, TimersType
  <2>3. Waiting' = Waiting + 1 /\ Opens(v)' # 0
    BY <2>1, <2>2 DEF Waiting, Panels
  <2>4. Enter(v) /\ leaked' = leaked
    BY <1>1 DEF Click
  <2>. QED
    BY <2>1, <2>3, <2>4, Entered
<1>. QED
  BY <1>1, OpenedTimers, QuietTimers, StepKinds

LEMMA TimersInitially == Init => TimersInv
<1>. SUFFICES ASSUME Init PROVE TimersInv
  OBVIOUS
<1>1. IsABag(calls) /\ DOMAIN calls = {<<"list">>}
  BY DEF Init, IsABag, SetToBag
<1>2. \A v : Opens(v) = 0
  BY <1>1, OtherCalls DEF Other, Opens, BagIn, BagToSet
<1>3. TimersType /\ Lost = 0 /\ Waiting = 0 /\ Held = 1 /\ Shown
  BY <1>1, <1>2, NoneIsNoView
     DEF Init, TimersType, Lost, Waiting, Held, Shown, Timed, Panels
<1>. QED
  BY <1>3 DEF Init, TimersInv, Accounted

\* The timers that are lost or refresh a page that is not shown are no more
\* than the navigations begun while another one waited for its list, whichever
\* handler began them (app.js:71, 95-111, 240).
THEOREM TimersUnderControlHolds == Spec => []TimersUnderControl
<1>1. TimersInv => TimersUnderControl
  <2>. SUFFICES ASSUME TimersInv PROVE TimersUnderControl
    OBVIOUS
  <2>1. /\ TimersType /\ Accounted /\ Waiting \in Nat /\ Lost \in Nat
        /\ overlaps \in Nat
        /\ \A k \in Timed : leaked[k] \in Nat
        /\ \A w : Opens(w) \in Nat
    BY TimersNat, OpensType DEF TimersInv, TimersType
  <2>2. view \in Panels /\ Opens(view) # 0 => Waiting >= 1
    BY <2>1 DEF Waiting, Panels
  <2>3. \/ poll = None /\ Held = 0
        \/ poll \in Timed /\ poll # None /\ Held = 1
    BY <2>1 DEF TimersType, Held
  <2>4. \/ Lost + Held <= overlaps
        \/ view \in Timed /\ (poll = view \/ leaked[view] # 0)
    <3>1. CASE view \in Panels /\ Opens(view) # 0
      BY <2>1, <2>2, <2>3, <3>1 DEF Accounted
    <3>2. CASE ~Shown
      BY <2>1, <2>3, <3>2 DEF Accounted
    <3>. QED
      BY <3>1, <3>2 DEF Shown
  <2>5. /\ "overview" \in Timed /\ "analytics" \in Timed /\ "quality" \in Timed
        /\ \A k \in Timed : k \in {"overview", "analytics", "quality"}
        /\ None \notin Timed
    BY NoneIsNoView DEF Timed, Panels
  <2>6. Unseen("overview") + Unseen("analytics") + Unseen("quality") <= overlaps
    <3>1. CASE Lost + Held <= overlaps
      BY <2>1, <2>3, <2>5, <3>1 DEF Unseen, Lost
    <3>2. CASE view \in Timed /\ poll = view
      BY <2>1, <2>5, <3>2 DEF Accounted, Unseen, Lost
    <3>3. CASE view \in Timed /\ leaked[view] # 0
      <4>1. Lost + Held <= overlaps + 1
        BY <2>1, <2>3 DEF Accounted
      <4>. QED
        BY <2>1, <2>3, <2>5, <3>3, <4>1 DEF Unseen, Lost
    <3>. QED
      BY <2>4, <3>1, <3>2, <3>3
  <2>. QED
    BY <2>1, <2>6 DEF Accounted, TimersUnderControl
<1>. QED
  BY <1>1, TimersInitially, TimersStep, PTL DEF Spec

SelectorInv == IsABag(calls) /\ SelectorHonest

\* A list that arrives clears the selector or leaves it.
LEMMA Relisted ==
  ASSUME Relist, select \in listed \cup {None}
  PROVE  select' \in listed' \cup {None} /\ select' \in {select, None}
  BY DEF Relist

LEMMA SelectorStep == SelectorInv /\ [Next]_vars => SelectorInv'
<1>. SUFFICES ASSUME SelectorInv, [Next]_vars PROVE SelectorInv'
  OBVIOUS
<1>1. IsABag(calls) /\ SelectorHonest
  BY DEF SelectorInv
<1>2. ASSUME NEW v \in Panels, Click(v)
      PROVE  SelectorInv'
  <2>1. IsABag(calls') /\ Opens(v)' = Opens(v) + 1 /\ Opens(v) \in Nat
    BY <1>1, <1>2, ClickCalls, OpensType
  <2>2. v \in Opening'
    BY <2>1 DEF Opening
  <2>3. UNCHANGED <<listed, select>>
    BY <1>2 DEF Click
  <2>. QED
    BY <1>1, <2>1, <2>2, <2>3 DEF SelectorInv, SelectorHonest
<1>3. ASSUME NEW v \in Panels, Opened(v)
      PROVE  SelectorInv'
  <2>1. IsABag(calls')
    BY <1>1, <1>3, OpenedCalls
  <2>2. Relist /\ selected' = select'
    BY <1>3 DEF Opened
  <2>. QED
    BY <1>1, <2>1, <2>2, Relisted DEF SelectorInv, SelectorHonest
<1>4. ASSUME Quiet
      PROVE  SelectorInv'
  <2>1. IsABag(calls') /\ \A v : Opens(v)' = Opens(v)
    BY <1>1, <1>4, QuietCalls
  <2>2. Opening' = Opening
    BY <2>1 DEF Opening
  <2>3. \/ view' \notin Panels /\ (Relist \/ UNCHANGED <<listed, select>>)
        \/ UNCHANGED <<view, selected>> /\ (Relist \/ UNCHANGED <<listed, select>>)
        \/ select' = selected' /\ select' \in listed \cup {None} /\ listed' = listed
    <3>1. \A v : Enter(v) /\ v \notin Panels => view' \notin Panels
      BY DEF Enter
    <3>2. "sources" \notin Panels /\ "source-details" \notin Panels
      BY DEF Panels
    <3>3. CASE \E v \in Menu \ Panels : Click(v)
      BY <3>1, <3>3 DEF Click
    <3>4. CASE \E s \in Sources \cup {None} : Choose(s)
      BY <3>4 DEF Choose
    <3>5. CASE (\E s \in Sources : Manage(s) \/ CommandAnswered(s)) \/ Connected
      BY <3>1, <3>2, <3>5 DEF Manage, CommandAnswered, ViewSourceDetails, Connected
    <3>6. CASE \/ \E s \in Sources \cup {None} : DetailsAnswered(s)
               \/ Command \/ Connect \/ ListAnswered \/ Created
               \/ \E v \in Panels, s \in Sources : Loaded(v, s)
               \/ \E c \in BagToSet(calls) : Fail(c) \/ Misread(c)
               \/ \E v \in Panels : Tick(v)
               \/ UNCHANGED vars
      BY <3>6 DEF DetailsAnswered, Command, Connect, ListAnswered, Created,
                  Loaded, Fail, Misread, Tick, vars
    <3>. QED
      BY <1>4, <3>3, <3>4, <3>5, <3>6 DEF Quiet
  <2>. QED
    BY <1>1, <2>1, <2>2, <2>3, Relisted DEF SelectorInv, SelectorHonest
<1>. QED
  BY <1>2, <1>3, <1>4, StepKinds

\* The selector names a listed source, and on an opened page of figures that
\* source is the one the page loads (app.js:29-64, 89-90, 214-216).
THEOREM SelectorHonestHolds == Spec => []SelectorHonest
<1>1. Init => SelectorInv
  BY TimersInitially DEF Init, SelectorInv, SelectorHonest, TimersInv, TimersType,
                         Panels
<1>2. SelectorInv => SelectorHonest
  BY DEF SelectorInv
<1>. QED
  BY <1>1, <1>2, SelectorStep, PTL DEF Spec
=============================================================================
