----------------------------- MODULE ServingPages -----------------------------
(***************************************************************************)
(* A client reads a table of the serving API page by page                  *)
(* (services/control_plane/app/api/routes/serving.py:47-103): the records  *)
(* of a source by event_timestamp, or its windows by window_start, latest  *)
(* first, with LIMIT and OFFSET.  Each page is a query of its own; batches *)
(* are upserted, and old rows purged, between two of them.                 *)
(***************************************************************************)
EXTENDS SqlLogic, Naturals, FiniteSets

CONSTANTS Keys,         \* event ids, or windows
          PageTimes,    \* event_timestamp, or window_start
          PageSize,     \* rows of a page
          MaxWrites     \* bound: batches that write the table

ASSUME PagesAssumption ==
  /\ IsFiniteSet(Keys)
  /\ PageTimes \subseteq Nat /\ PageSize \in Nat \ {0} /\ MaxWrites \in Nat
  /\ Null \notin Nat /\ Null \notin [time : Nat, batch : Nat]

VARIABLES
  served,    \* the row of each key, with the number of the batch it is from
  writes,    \* batches that wrote it so far
  offset,    \* rows the client has read; Null before it begins
  more,      \* the last page was full
  read,      \* auxiliary: the keys the client got
  owed,      \* auxiliary: rows there when the client began, and not purged since
  tied       \* auxiliary: two rows had the same time

pagesVars == <<served, writes, offset, more, read, owed, tied>>
client == <<offset, more, read>>

Listed == {k \in Keys : served[k] # Null}

PagesInit == /\ served = [k \in Keys |-> Null]
             /\ writes = 0
             /\ offset = Null /\ more = TRUE
             /\ read = {} /\ owed = {} /\ tied = FALSE

-----------------------------------------------------------------------------
(* The writers, outside of the API. *)

\* A batch inserts rows and writes others again; those keep their time.
UpsertServed(keys) ==
  /\ writes < MaxWrites /\ keys # {}
  /\ writes' = writes + 1
  /\ \E time \in [keys -> PageTimes] :
       served' = [k \in Keys |->
         IF k \notin keys THEN served[k]
         ELSE [time |-> IF served[k] = Null THEN time[k] ELSE served[k].time,
               batch |-> writes + 1]]
  /\ tied' = (tied \/ \E j, k \in Keys : /\ j # k
                                         /\ served'[j] # Null /\ served'[k] # Null
                                         /\ served'[j].time = served'[k].time)
  /\ UNCHANGED <<client, owed>>

\* streamo_maintenance deletes the records of readings before a time.
PurgeServed(t) ==
  /\ \E k \in Listed : served[k].time < t
  /\ served' = [k \in Keys |-> IF k \in Listed /\ served[k].time < t
                            THEN Null ELSE served[k]]
  /\ owed' = {k \in owed : served'[k] # Null}
  /\ UNCHANGED <<writes, client, tied>>

-----------------------------------------------------------------------------
(* The client. *)

\* Mutation: the rows written last come first.
RecentFirst(j, k) == served[j].batch > served[k].batch

\* ORDER BY the time DESC.
First(j, k) == served[j].time > served[k].time

\* LIMIT n OFFSET m of the ordered rows: rows of one time come in any order.
Pages(m, n) ==
  {page \in SUBSET Listed :
     \E skipped \in SUBSET (Listed \ page) :
       LET rest == Listed \ (page \cup skipped) IN
       /\ Cardinality(skipped) = m \/ (Cardinality(skipped) < m /\ skipped = Listed)
       /\ Cardinality(page) = n \/ (Cardinality(page) < n /\ rest = {})
       /\ \A j \in skipped, k \in page \cup rest : ~First(k, j)
       /\ \A j \in page, k \in rest : ~First(k, j)}

Begin == /\ offset = Null
         /\ offset' = 0 /\ owed' = Listed
         /\ UNCHANGED <<served, writes, more, read, tied>>

GetPage == /\ offset # Null /\ more
           /\ \E page \in Pages(offset, PageSize) :
                /\ read' = read \cup page
                /\ more' = (Cardinality(page) = PageSize)
           /\ offset' = offset + PageSize
           /\ UNCHANGED <<served, writes, owed, tied>>

-----------------------------------------------------------------------------
PagesNext == \/ \E keys \in SUBSET Keys : UpsertServed(keys)
             \/ \E t \in PageTimes : PurgeServed(t)
             \/ Begin
             \/ GetPage

PagesSpec == PagesInit /\ [][PagesNext]_pagesVars

\* A client that reads to the last page misses no row that was there all the
\* time, though rows come, go and are written again between two pages
\* (serving.py:54-61, 85-91) -- unless two rows have the same time: windows of
\* a source never do, records may.
NothingSkipped == ~more /\ ~tied => owed \subseteq read
=============================================================================
