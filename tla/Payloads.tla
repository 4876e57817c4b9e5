------------------------------ MODULE Payloads ------------------------------
(***************************************************************************)
(* What the services make of the JSON a source answers with: the verdict   *)
(* and the kinds shown when the source is validated (services/             *)
(* control_plane/app/api/routes/sources.py:22-112), the records the poller *)
(* cuts it into (services/ingestion/app/poller.py:14-54) and the roles the *)
(* analytics give to its fields (sources.py:295-304).                      *)
(*                                                                         *)
(* A JSON value is a record with its kind; text that looks like a date has *)
(* the kind "datetime".  The fields of an object are a function, FieldOrder *)
(* is the order the object lists them in.                                  *)
(***************************************************************************)
EXTENDS Naturals, Sequences, FiniteSets

CONSTANTS FieldOrder,   \* the field names, in the order of the document
          IdFields,     \* the names that contain "id", in any case
          Json,         \* the JSON values
          Responses     \* what a source may answer

VARIABLES response,  \* what the source answers, once to each of the services
          records,   \* the records published for it
          verdict    \* the answer to the request for a validation

payloadVars == <<response, records, verdict>>

Fields == {FieldOrder[i] : i \in 1 .. Len(FieldOrder)}

\* What is in a value is a value.
WellFormed(values) ==
  \A v \in values :
    /\ v.kind = "list" => v.items \in Seq(values)
    /\ v.kind = "object" => /\ DOMAIN v.fields \subseteq Fields
                           /\ v.fields \in [DOMAIN v.fields -> values]

ASSUME JsonAssumption == Len(FieldOrder) \in Nat /\ WellFormed(Json)

ASSUME ResponsesAssumption ==
  Responses \subseteq [status : Nat, json : BOOLEAN, parses : BOOLEAN, body : Json]

Nested == {"list", "object"}

\* dict.update: the fields of g go over those of f.
Merge(f, g) == [k \in DOMAIN f \cup DOMAIN g |->
                  IF k \in DOMAIN g THEN g[k] ELSE f[k]]

Restricted(f, S) == [k \in S |-> f[k]]

Columns(d) == {k \in DOMAIN d : d[k].kind = "list"}
Scalars(d) == Restricted(d, {k \in DOMAIN d : d[k].kind \notin Nested})
Lengths(d) == {Len(d[k].items) : k \in Columns(d)}

\* Mutation: columns of different lengths are cut to the shortest.
RaggedTabular(d) == Columns(d) # {} /\ 0 \notin Lengths(d)

\* An object whose lists are columns of one table.
Tabular(d) == \E n \in Lengths(d) \ {0} : Lengths(d) = {n}

\* The rows of the table in d, each with the scalars of the root beside it.
Rows(scalars, d) ==
  LET length == CHOOSE n \in Lengths(d) : \A m \in Lengths(d) : n <= m IN
  [i \in 1 .. length |->
     Merge(scalars, [k \in Columns(d) |-> d[k].items[i]])]

TabularFields(d) == {k \in DOMAIN d : d[k].kind = "object" /\ Tabular(d[k].fields)}

\* The first field, in the order of the document, that holds a table.
FirstTable(d) == LET i == CHOOSE i \in 1 .. Len(FieldOrder) :
                            /\ FieldOrder[i] \in TabularFields(d)
                            /\ \A j \in 1 .. i - 1 :
                                 FieldOrder[j] \notin TabularFields(d)
                 IN FieldOrder[i]

IsObject(v) == v.kind = "object"

\* The elements of a list that are objects, in their order.
ObjectsAt(items) == {i \in DOMAIN items : IsObject(items[i])}

\* The n-th of them.
ObjectAt(items, n) ==
  LET at == CHOOSE i \in ObjectsAt(items) :
              Cardinality({j \in ObjectsAt(items) : j <= i}) = n
  IN items[at]

\* normalize_payload.
NormalizeObject(d) ==
  IF Tabular(d) THEN Rows(Scalars(d), d)
  ELSE IF TabularFields(d) # {} THEN Rows(Scalars(d), d[FirstTable(d)].fields)
  ELSE <<d>>

Normalize(v) ==
  CASE v.kind = "list"   -> [n \in 1 .. Cardinality(ObjectsAt(v.items)) |->
                               ObjectAt(v.items, n).fields]
    [] v.kind = "object" -> NormalizeObject(v.fields)
    [] OTHER             -> <<>>

-----------------------------------------------------------------------------
(* Kinds and roles. *)

InferKind(v) == IF v.kind = "number" THEN "numeric"
                ELSE IF v.kind \in {"boolean", "datetime"} THEN v.kind
                ELSE "string"

\* infer_schema: of a list, its first element.
InferSchema(v) ==
  LET sample == IF v.kind = "list" /\ v.items # <<>> THEN v.items[1] ELSE v IN
  IF IsObject(sample)
  THEN [k \in DOMAIN sample.fields |-> InferKind(sample.fields[k])]
  ELSE <<>>

\* The role get_source_analytics gives to a field of the last record.
Role(k, v) == IF k \in IdFields THEN "identifier"
              ELSE IF v.kind = "number" THEN "metric"
              ELSE "dimension"

-----------------------------------------------------------------------------
(* Responses.  The status 0 stands for no answer in time or at all.  parses  *)
(* says whether the body is JSON, json whether its content type claims so.   *)

Rejection == [valid |-> FALSE, fields |-> <<>>]

\* Mutation: an answer that is JSON will do, whatever its status.
ValidateAnyStatus(r) == IF r.json /\ r.parses
                        THEN [valid |-> TRUE, fields |-> InferSchema(r.body)]
                        ELSE Rejection

\* validate_source, without the texts it explains a rejection with.
Validate(r) == IF r.status = 200 /\ r.json /\ r.parses
               THEN [valid |-> TRUE, fields |-> InferSchema(r.body)]
               ELSE Rejection

\* fetch_data, after its retries.
Fetched(r) == r.status \in 200 .. 299 /\ r.parses

NoBody == [kind |-> "none"]
NoResponse == [status |-> 0, json |-> FALSE, parses |-> FALSE, body |-> NoBody]

PayloadInit == response = NoResponse /\ records = <<>> /\ verdict = Rejection

\* A source is validated and polled; a poll that fails publishes nothing.
Receive(r) == /\ response' = r
              /\ records' = IF Fetched(r) THEN Normalize(r.body) ELSE <<>>
              /\ verdict' = Validate(r)

PayloadNext == response = NoResponse /\ \E r \in Responses : Receive(r)

PayloadSpec == PayloadInit /\ [][PayloadNext]_payloadVars

-----------------------------------------------------------------------------
(* Properties. *)

\* The body the poller has got.
doc == IF Fetched(response) THEN response.body ELSE NoBody

Flat(d) == \A k \in DOMAIN d : d[k].kind \notin Nested

\* The tables of a document: itself, and what its fields hold.
TablesOf(d) == {t \in {d} \cup {d[k].fields : k \in TabularFields(d)} : Tabular(t)}

\* The records give a table back: they are as long as each of its columns, and
\* hold them all; beside them, the scalars of the document, unless a column has
\* their name, and nothing else.
GivesBack(t, d) ==
  /\ records # <<>>
  /\ \A i \in 1 .. Len(records) :
       /\ DOMAIN records[i] = Columns(t) \cup DOMAIN Scalars(d)
       /\ \A k \in DOMAIN Scalars(d) \ Columns(t) : records[i][k] = d[k]
  /\ \A k \in Columns(t) :
       [i \in 1 .. Len(records) |-> records[i][k]] = t[k].items

\* A document with tables, at the root or one level down, is cut into records
\* that give one of them back, columns of different lengths never being cut
\* nor filled up; one without a table stays whole.  What stands beside the
\* table is lost: a second table, lists beside an inner one, scalars within
\* it, other objects, and a scalar of the root with the name of a column
\* (poller.py:18-52).
TablesReadBack ==
  IsObject(doc) =>
    LET d == doc.fields IN
    IF TablesOf(d) = {} THEN records = <<d>>
    ELSE \E t \in TablesOf(d) : GivesBack(t, d)

\* A source the validation approved, showing fields of it, does yield records
\* when it is polled, and unless they are cut from a table the first has just
\* the fields that were shown: the control plane and the poller judge a
\* response by code of their own.  And for plain values the analytics keep the
\* promise: a field is a metric just when it was shown as numeric, unless its
\* name says that it identifies something (sources.py:30-44, 53-97, 298-304,
\* poller.py:14-54, api_client.py:34-54).
ApprovedFieldsArrive ==
  verdict.valid /\ verdict.fields # <<>> =>
    /\ records # <<>>
    /\ \/ DOMAIN records[1] = DOMAIN verdict.fields
       \/ IsObject(doc) /\ (Tabular(doc.fields) \/ TabularFields(doc.fields) # {})
    /\ IsObject(doc) /\ Flat(doc.fields) =>
         \A k \in DOMAIN verdict.fields \ IdFields :
           (verdict.fields[k] = "numeric") = (Role(k, records[1][k]) = "metric")
=============================================================================
