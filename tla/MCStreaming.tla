----------------------------- MODULE MCStreaming -----------------------------
(***************************************************************************)
(* Small instances of the processing application.  One unit of time is     *)
(* five minutes, so a window is 1 long, the event-time watermark lags by 2 *)
(* and the ingestion watermark by 1.                                       *)
(***************************************************************************)
EXTENDS StreamingProperties

CONSTANTS e1, e2, e3, s1, s2, malformed, NULL

ServingIds == {e1, e2}
LakeIds == {e1, e2, e3}
MCSources == {s1, s2}
ServingTimes == 1 .. 2
LakeTimes == {1, 4}

\* An event the poller sends for a well-formed reading.
Good(id, source, t) ==
  [event_id |-> id, source |-> source, ingested_at |-> "timestamp",
   ingested_ts |-> t, payload |-> "jsonb", temperature |-> "inRange",
   humidity |-> "inRange", time |-> t]

\* The same with a humidity of 150 (scripts/inject_bad.py, RELIABILITY.md:14).
TooHumid == [Good(e2, s2, 2) EXCEPT !.humidity = "outOfRange"]

\* A temperature that is not a number, beside a humidity in range.
VeryHot == [Good(e2, s2, 2) EXCEPT !.temperature = "notNumeric"]

\* A payload that is not JSON, under an id that is not a UUID.
Garbage == [Good(malformed, s2, 2) EXCEPT !.payload = "malformed",
                                          !.temperature = "absent",
                                          !.humidity = "absent",
                                          !.time = NULL]

\* An envelope whose ingested_at to_timestamp cannot parse.
Undated == [Good(e2, s2, 2) EXCEPT !.ingested_at = "unparsable"]

\* A reading beside a string with a NUL character.
Unstorable == [Good(e1, s1, 1) EXCEPT !.payload = "notJsonb"]

\* An envelope without a source.
Anonymous == Good(e2, NULL, 2)

ServingEvents == {Good(e1, s1, 1), Good(e2, s2, 2), TooHumid, VeryHot, Undated,
                  Unstorable}
HealthyEvents == {Good(e1, s1, 1), Good(e2, s2, 2), TooHumid}

\* Two events of one window, and one of another source whose clock is ahead:
\* it moves the watermark that all sources share past the window of the two.
LakeEvents == {Good(e1, s1, 1), Good(e2, s1, 1), Good(e3, s2, 4)}

\* One of the two, the one ahead, and one of the window under a bad id.
WindowEvents == {Good(e1, s1, 1), Good(e3, s2, 4),
                 Good(malformed, s1, 1)}

AnonymousEvents == {Good(e1, s1, 1), Anonymous}
=============================================================================
