------------------------------ MODULE Dashboard ------------------------------
(***************************************************************************)
(* The dashboard (frontend/js/app.js): one thread of event handlers, whose *)
(* fetches are answered later and in any order.  Kept is which source the  *)
(* page has selected, which source's figures and charts its elements hold, *)
(* the timers and the calls that are not answered yet; of an answer only   *)
(* the fields it has charts for are kept, and what the overview, the       *)
(* sources and the details page show is left out.                          *)
(***************************************************************************)
EXTENDS Naturals, FiniteSets, Bags

CONSTANTS Sources,
          None,         \* "", null or cleared
          Metrics,      \* the numeric fields of each source's records
          MaxCalls,     \* bound: calls under way
          MaxOverlaps,  \* bound: see MayAct
          MaxFaults     \* bound: calls that fail

Panels == {"analytics", "quality"}
Menu == {"overview", "sources", "add-source"} \cup Panels
Timed == {"overview"} \cup Panels

ASSUME NoneIsNoView == None \notin Timed

VARIABLES
  view,        \* currentView
  selected,    \* currentSourceId
  listed,      \* the options of the selector
  select,      \* the value of the selector
  poll,        \* what the interval in currentPollInterval loads, if it runs
  leaked,      \* the running intervals that no variable holds
  calls,       \* the bag of fetches under way
  panel,       \* the source whose figures the elements of a view hold
  canvas,      \* the fields with a canvas, and the source drawn on it, if any
  charts,      \* the fields that charts holds a Chart for
  faults,
  overlaps     \* auxiliary: navigations begun while another was opening a page

figures == <<panel, canvas, charts>>
vars == <<view, selected, listed, select, poll, leaked, calls, figures, faults,
          overlaps>>

Fetch(c) == calls (+) SetToBag({c})
Answered(c) == calls (-) SetToBag({c})
Room == BagCardinality(calls) < MaxCalls

\* Bound: after MaxOverlaps overlaps the user waits for calls that navigate.
MayAct == /\ Room
          /\ \/ overlaps < MaxOverlaps
             \/ \A c \in BagToSet(calls) : c[1] \in {"list", "load", "details"}

\* How many navigations to the page v are waiting for an answer.
Opens(v) == IF BagIn(<<"open", v>>, calls) THEN calls[<<"open", v>>] ELSE 0
Opening == {v \in Panels : Opens(v) > 0}

\* The running intervals that no variable holds, and those for the page k while
\* another page is shown.
Lost == leaked["overview"] + leaked["analytics"] + leaked["quality"]
Unseen(k) ==
  IF k = view THEN 0 ELSE leaked[k] + (IF poll = k THEN 1 ELSE 0)

Init == /\ view = "overview" /\ poll = "overview"
        /\ selected = None /\ listed = {} /\ select = None
        /\ leaked = [k \in Timed |-> 0]
        /\ calls = SetToBag({<<"list">>})
        /\ panel = [v \in Panels |-> None]
        /\ canvas = <<>> /\ charts = {}
        /\ faults = 0 /\ overlaps = 0

-----------------------------------------------------------------------------
(* What the handlers do before they wait for an answer. *)

\* Mutation: the timer of the view that is left goes on.
EnterTicking(v) ==
  /\ view' = v
  /\ poll' = IF v = "overview" THEN "overview" ELSE poll
  /\ overlaps' = IF Opening = {} THEN overlaps ELSE overlaps + 1

\* navigate, up to its await.  The overview's timer starts at once.
Enter(v) ==
  /\ view' = v
  /\ poll' = IF v = "overview" THEN "overview" ELSE None
  /\ overlaps' = IF Opening = {} THEN overlaps ELSE overlaps + 1

\* clearAnalyticsData or clearQualityData.
Clear(v) == /\ panel' = [panel EXCEPT ![v] = None]
            /\ IF v = "analytics" THEN canvas' = <<>> /\ charts' = {}
                                  ELSE UNCHANGED <<canvas, charts>>

\* loadAnalytics or loadQuality for the source that is selected.
Load(v, source, pending) ==
  IF source = None
  THEN Clear(v) /\ calls' = pending
  ELSE /\ calls' = pending (+) SetToBag({<<"load", v, source>>})
       /\ UNCHANGED figures

ViewSourceDetails(id, pending) ==
  /\ selected' = id
  /\ Enter("source-details")
  /\ calls' = pending (+) SetToBag({<<"details", id>>})
  /\ UNCHANGED <<listed, select, leaked, figures, faults>>

-----------------------------------------------------------------------------
(* The user. *)

Click(v) ==
  /\ MayAct
  /\ Enter(v)
  /\ calls' = IF v \in Panels THEN Fetch(<<"open", v>>) ELSE calls
  /\ UNCHANGED <<selected, listed, select, leaked, figures, faults>>

\* handleGlobalSourceChange: the selector shows on the pages of figures only.
Choose(source) ==
  /\ MayAct
  /\ view \in Panels
  /\ source \in listed \cup {None} /\ source # select
  /\ select' = source /\ selected' = source
  /\ Clear(view)
  /\ calls' = IF source = None THEN calls ELSE Fetch(<<"load", view, source>>)
  /\ UNCHANGED <<view, listed, poll, leaked, faults, overlaps>>

\* A row of the overview or of the sources page.
Manage(source) == /\ MayAct
                  /\ view \in {"overview", "sources"}
                  /\ ViewSourceDetails(source, calls)

\* startSource, pauseSource and stopSource.
Command == /\ MayAct
           /\ view = "source-details" /\ selected # None
           /\ calls' = Fetch(<<"command", selected>>)
           /\ UNCHANGED <<view, selected, listed, select, poll, leaked,
                          figures, faults, overlaps>>

Connect == /\ MayAct
           /\ view = "add-source"
           /\ calls' = Fetch(<<"connect">>)
           /\ UNCHANGED <<view, selected, listed, select, poll, leaked,
                          figures, faults, overlaps>>

-----------------------------------------------------------------------------
(* The answers. *)

\* loadGlobalSources: the selector keeps its value while it is listed; an
\* error leaves it as it is.
Relist == \/ UNCHANGED <<listed, select>>
          \/ \E list \in SUBSET Sources :
               /\ listed' = list
               /\ select' = IF select \in list THEN select ELSE None

ListAnswered == /\ BagIn(<<"list">>, calls)
                /\ Relist
                /\ calls' = Answered(<<"list">>)
                /\ UNCHANGED <<view, selected, poll, leaked, figures, faults,
                               overlaps>>

\* The rest of navigate, whatever view is shown by now.
Opened(v) ==
  /\ BagIn(<<"open", v>>, calls)
  /\ Relist
  /\ selected' = select'
  /\ Load(v, selected', Answered(<<"open", v>>))
  /\ IF selected' = None THEN UNCHANGED <<poll, leaked>>
     ELSE /\ poll' = v
          /\ leaked' = IF poll = None THEN leaked
                       ELSE [leaked EXCEPT ![poll] = @ + 1]
  /\ UNCHANGED <<view, faults, overlaps>>

\* What an answer with the fields m makes of the charts.  Without a field the
\* canvases go and the Charts stay; a canvas that is added empties the others,
\* whose Charts go on drawing on the canvases they had.
Draw(source, m) ==
  /\ charts' = charts \cup m
  /\ canvas' = IF m = {} THEN <<>> ELSE
       [f \in DOMAIN canvas \cup m |->
          IF f \in m \ charts THEN source
          ELSE IF ~(m \subseteq DOMAIN canvas) \/ canvas[f] = None THEN None
          ELSE IF f \in m THEN source ELSE canvas[f]]

\* No handler asks whether the source is still the one selected.  The figures
\* other than the charts are replaced as a whole.
Loaded(v, source) ==
  /\ BagIn(<<"load", v, source>>, calls)
  /\ panel' = [panel EXCEPT ![v] = source]
  /\ IF v = "analytics" THEN \E m \in {{}, Metrics[source]} : Draw(source, m)
                        ELSE UNCHANGED <<canvas, charts>>
  /\ calls' = Answered(<<"load", v, source>>)
  /\ UNCHANGED <<view, selected, listed, select, poll, leaked, faults,
                 overlaps>>

\* Mutation: the source is selected when its details are there.
DetailsSelect(id) ==
  /\ BagIn(<<"details", id>>, calls)
  /\ selected' = id
  /\ calls' = Answered(<<"details", id>>)
  /\ UNCHANGED <<view, listed, select, poll, leaked, figures, faults,
                 overlaps>>

\* It fills in the details page, which no handler reads.
DetailsAnswered(id) ==
  /\ BagIn(<<"details", id>>, calls)
  /\ calls' = Answered(<<"details", id>>)
  /\ UNCHANGED <<view, selected, listed, select, poll, leaked, figures, faults,
                 overlaps>>

\* The page goes to the details of the source that is selected by now.
CommandAnswered(source) ==
  /\ BagIn(<<"command", source>>, calls)
  /\ ViewSourceDetails(selected, Answered(<<"command", source>>))

\* The source is created, and the selector is brought up to date ...
Created == /\ BagIn(<<"connect">>, calls)
           /\ calls' = Answered(<<"connect">>) (+) SetToBag({<<"created">>})
           /\ UNCHANGED <<view, selected, listed, select, poll, leaked,
                          figures, faults, overlaps>>

\* ... before the page goes to the sources.
Connected == /\ BagIn(<<"created">>, calls)
             /\ Relist
             /\ Enter("sources")
             /\ calls' = Answered(<<"created">>)
             /\ UNCHANGED <<selected, leaked, figures, faults>>

\* An error that comes as JSON is drawn by loadAnalytics: the totals stay, the
\* rest is emptied, the charts like by an answer without a field.
Misread(c) == /\ c[1] = "load" /\ c[2] = "analytics"
              /\ faults < MaxFaults
              /\ faults' = faults + 1
              /\ calls' = Answered(c)
              /\ canvas' = <<>>
              /\ UNCHANGED <<view, selected, listed, select, poll, leaked,
                             panel, charts, overlaps>>

\* Any other call that fails is given up.  (The quality page hides its figures
\* behind an error then, until the next load; a command is taken for done
\* whatever status it is answered with.)
Fail(c) == /\ c[1] \in {"load", "details", "command", "connect"}
           /\ faults < MaxFaults
           /\ faults' = faults + 1
           /\ calls' = Answered(c)
           /\ UNCHANGED <<view, selected, listed, select, poll, leaked,
                          figures, overlaps>>

-----------------------------------------------------------------------------
(* The timers.  What the overview's timer loads is left out. *)

\* Mutation: a timer goes on with the source it was started for.
TickAsBefore(v) ==
  /\ v = poll \/ leaked[v] > 0
  /\ Room
  /\ Load(v, IF panel[v] = None THEN selected ELSE panel[v], calls)
  /\ UNCHANGED <<view, selected, listed, select, poll, leaked, faults,
                 overlaps>>

Tick(v) ==
  /\ v = poll \/ leaked[v] > 0
  /\ Room
  /\ Load(v, selected, calls)
  /\ UNCHANGED <<view, selected, listed, select, poll, leaked, faults,
                 overlaps>>

-----------------------------------------------------------------------------
User == \/ \E v \in Menu : Click(v)
        \/ \E s \in Sources \cup {None} : Choose(s)
        \/ \E s \in Sources : Manage(s)
        \/ Command
        \/ Connect

Answer == \/ ListAnswered \/ Created \/ Connected
          \/ \E v \in Panels : Opened(v)
          \/ \E v \in Panels, s \in Sources : Loaded(v, s)
          \/ \E s \in Sources \cup {None} : DetailsAnswered(s)
          \/ \E s \in Sources : CommandAnswered(s)

Next == \/ User
        \/ Answer
        \/ \E c \in BagToSet(calls) : Fail(c) \/ Misread(c)
        \/ \E v \in Panels : Tick(v)

Spec == Init /\ [][Next]_vars

\* Every call is answered or fails in the end, and an interval goes on firing.
FairSpec ==
  /\ Spec
  /\ WF_vars(ListAnswered) /\ WF_vars(Created) /\ WF_vars(Connected)
  /\ \A v \in Panels : WF_vars(Opened(v)) /\ SF_vars(Tick(v))
  /\ \A v \in Panels, s \in Sources : WF_vars(Loaded(v, s))
  /\ \A s \in Sources \cup {None} : WF_vars(DetailsAnswered(s))
  /\ \A s \in Sources : WF_vars(CommandAnswered(s))

-----------------------------------------------------------------------------
(* Properties. *)

\* A timer that nothing can clear any more, or that refreshes a page that is
\* not shown, costs a navigation that began while an earlier one still waited
\* for its list, one for each: begun by the user, or by an answer that goes to
\* another page.  Lists, figures and failures, in any order and however late,
\* add none (app.js:71, 95-111, 240).
TimersUnderControl ==
  /\ Lost <= overlaps
  /\ Unseen("overview") + Unseen("analytics") + Unseen("quality") <= overlaps

\* The selector names a source that is listed, and on an opened page of figures
\* the source the page loads is the one it names, whatever details, commands
\* or lists are answered late (app.js:29-64, 89-90, 214-216).
SelectorHonest ==
  /\ select \in listed \cup {None}
  /\ view \in Panels /\ Opening = {} /\ select # None => selected = select

\* When the user rests on a page of figures whose timer runs, the page comes
\* to hold the figures of the source that is selected, whatever late answers
\* overwrote before (app.js:93-105, 367-380, 590-602); and what is drawn for a
\* field this source has is its own.  Charts of fields that only another source
\* has may stay, and charts may stay empty (app.js:450-463, 476-479).
Settled ==
  view = poll /\ view \in Panels /\ Opening = {} /\ selected # None
  => /\ panel[view] = selected
     /\ view = "analytics" =>
          \A f \in Metrics[selected] \cap DOMAIN canvas :
            canvas[f] \in {selected, None}

FiguresSettle == []<><<User>>_vars \/ <>[]Settled

\* skill.md:426-434: never may the figures of a source be drawn once another
\* one is selected (app.js:380-387: nothing compares the two).
DrawsTheSelected ==
  [][\A v \in Panels :
       panel'[v] # panel[v] /\ selected' # None
       => panel'[v] \in {None, selected'}]_vars
=============================================================================
