------------------------------ MODULE MCReaders ------------------------------
(***************************************************************************)
(* The parts of the system that read and do not feed one another: a        *)
(* request for the figures of a source, a client that reads page by page,  *)
(* the quality job with the purge, the daily summary, the cutting of a     *)
(* response into records, and the statistics of a metric.  None of them    *)
(* reads what another one writes, so an instance has one of them.          *)
(*                                                                         *)
(* For the jobs, a unit of time is five minutes; a day is shortened to six *)
(* of them and the retention to four.                                      *)
(***************************************************************************)
EXTENDS SourceFigures, ServingPages, QualityGate, DailySummary, Payloads,
        Statistics, TLC

CONSTANTS r1, r2, k1, k2, k3, s1, s2, NULL

VARIABLE reader   \* the part the instance has

TwoRecords == {r1, r2}
TwoTimes == 1 .. 2
ThreeKeys == {k1, k2, k3}
FourTimes == 1 .. 4
TwoSources == {s1, s2}

\* An event from the past of the source, one of now and one whose clock is
\* ahead.
MCSkews == {-5, 0, 6}

Symmetry == Permutations(TwoRecords)

-----------------------------------------------------------------------------
(* Readings: negative and zero ones among them.  Responses: over two fields *)
(* with scalars, lists of them up to two long, and one more level of the    *)
(* same in an object; and requests that fail.                               *)

MCFieldOrder == <<"humidity", "temperature">>
MCIdFields == {"humidity"}
MCValues == {-2, 0, 1, 6}

Number(x) == [kind |-> "number", value |-> x]
Plain == {Number(1), Number(2), [kind |-> "boolean"], [kind |-> "datetime"]}
Numbers == {Number(1), Number(2)}
List(s) == [kind |-> "list", items |-> s]
Object(f) == [kind |-> "object", fields |-> f]

Lists == {List(s) : s \in UNION {[1 .. n -> Numbers] : n \in 0 .. 2}}

\* Every object over some of the fields, with values from V.
Objects(V) == UNION {{Object(f) : f \in [S -> V]} : S \in SUBSET Fields}

Inner == Objects(Lists \cup {Number(1)})

Bodies ==
  {Number(1)} \cup Objects(Plain \cup Lists \cup Inner)
    \cup {List(s) : s \in UNION {[1 .. n -> Objects(Numbers) \cup {Number(1)}] :
                                   n \in 0 .. 2}}

Response(status, json, parses, body) ==
  [status |-> status, json |-> json, parses |-> parses, body |-> body]

\* Any body with success; errors, other successes and claims with plain ones.
MCJson == Bodies \cup Plain \cup Lists \cup Inner \cup Objects(Numbers)

MCResponses ==
  {Response(200, TRUE, TRUE, v) : v \in Bodies}
    \cup {Response(status, json, parses, v) :
            status \in {0, 200, 201, 404, 429, 503}, json, parses \in BOOLEAN,
            v \in Objects(Numbers)}

-----------------------------------------------------------------------------
ReadersInit ==
  /\ reader \in {"figures", "pages", "gate", "summary", "response", "readings"}
  /\ FiguresInit /\ PagesInit /\ GateInit /\ Init /\ PayloadInit /\ ReadingsInit

ReadersNext ==
  /\ UNCHANGED reader
  /\ \/ /\ reader = "figures"
        /\ FiguresNext
        /\ UNCHANGED <<pagesVars, gateVars, vars, payloadVars, values>>
     \/ /\ reader = "pages"
        /\ PagesNext
        /\ UNCHANGED <<figuresVars, gateVars, vars, payloadVars, values>>
     \/ /\ reader = "gate"
        /\ GateNext
        /\ UNCHANGED <<figuresVars, pagesVars, vars, payloadVars, values>>
     \/ /\ reader = "summary"
        /\ Next
        /\ UNCHANGED <<figuresVars, pagesVars, gateVars, payloadVars, values>>
     \/ /\ reader = "response"
        /\ PayloadNext
        /\ UNCHANGED <<figuresVars, pagesVars, gateVars, vars, values>>
     \/ /\ reader = "readings"
        /\ ReadingsNext
        /\ UNCHANGED <<figuresVars, pagesVars, gateVars, vars, payloadVars>>

ReadersSpec ==
  ReadersInit /\ [][ReadersNext]_<<reader, figuresVars, pagesVars, gateVars,
                                  vars, payloadVars, values>>
=============================================================================
