--------------------------- MODULE ClickhouseSink ---------------------------
(***************************************************************************)
(* ClickhouseSink::write_batches (sink/clickhouse/mod.rs): one write of a  *)
(* group of events, either as rows of seven fixed columns or as JSON rows  *)
(* built by module JsonRow.  The server is external: an insert it accepts  *)
(* is stored but for the rows it may skip; one that fails may have been    *)
(* stored all the same, because the answer can be what is lost.            *)
(***************************************************************************)
EXTENDS JsonRow, Integers, FiniteSets

CONSTANTS
    Symbols,      \* what payloads and keys are made of: any set
    EventLists,   \* groups of events: payload and key
    ColumnSets    \* metadata_columns: sets of columns to inject

Message == [payload : Seq(Symbols), key : Seq(Symbols)]

ASSUME EventAssumption == EventLists \subseteq Seq(Message)

VARIABLES
    events,            \* the events of the batches, in order
    schema,            \* the sink's schema,
    metadata,          \*   metadata_columns,
    allow_errors,      \*   and whether ClickHouse may skip rows
    pc,                \* "open", "rows", "end" or "returned"
    next,              \* index of the next event
    buffer,            \* the JSON rows so far
    outcome,           \* WriteOutcome
    first_rejection,   \* index of the first event refused
    stored,            \* history: indices of the events in the table
    result             \* what write_batches returned

config == <<events, schema, metadata, allow_errors>>
vars == <<config, pc, next, buffer, outcome, first_rejection, stored, result>>

Init ==
    /\ events \in EventLists
    /\ schema \in {"event", "json"}
    /\ metadata \in (IF schema = "json" THEN ColumnSets ELSE {{}})
    /\ allow_errors \in BOOLEAN
    /\ pc = (IF schema = "event" THEN "open" ELSE "rows")
    /\ next = 1 /\ buffer = <<>> /\ first_rejection = 0
    /\ outcome = [written |-> 0, dropped |-> 0]
    /\ stored = {} /\ result = "none"

Returns(value) == pc' = "returned" /\ result' = value

----------------------------------------------------------------------------
(* write_event_rows *)

\* client.insert asks the server for the table's columns.
OpenInsert ==
    /\ pc = "open"
    /\ \/ pc' = "rows" /\ UNCHANGED result
       \/ Returns("err")
    /\ UNCHANGED <<config, next, buffer, outcome, first_rejection, stored>>

\* insert.write, which may have to flush what it holds.
WriteEventRow ==
    /\ pc = "rows" /\ schema = "event" /\ next <= Len(events)
    /\ \/ /\ outcome' = [outcome EXCEPT !.written = @ + 1]
          /\ next' = next + 1
          /\ UNCHANGED <<pc, stored, result>>
       \/ /\ Returns("err")
          /\ \E S \in SUBSET (1..next) : stored' = stored \union S
          /\ UNCHANGED <<outcome, next>>
    /\ UNCHANGED <<config, buffer, first_rejection>>

----------------------------------------------------------------------------
(* write_json_rows *)

Offered == events[next]

JsonRowWritten ==
    /\ pc = "rows" /\ schema = "json" /\ next <= Len(events)
    /\ Rejection(Offered.payload) = "none"
    /\ buffer' = buffer \o write_row(Offered.payload, metadata)
    /\ outcome' = [outcome EXCEPT !.written = @ + 1]
    /\ next' = next + 1
    /\ UNCHANGED <<config, pc, first_rejection, stored, result>>

CountDropped(o) == [o EXCEPT !.dropped = @ + 1]

JsonRowDropped ==
    /\ pc = "rows" /\ schema = "json" /\ next <= Len(events)
    /\ Rejection(Offered.payload) # "none"
    /\ outcome' = CountDropped(outcome)
    /\ first_rejection' = IF first_rejection = 0 THEN next ELSE first_rejection
    /\ next' = next + 1
    /\ UNCHANGED <<config, pc, buffer, stored, result>>

----------------------------------------------------------------------------
(* The insert *)

NothingToInsert == next > Len(events) /\ outcome.written = 0

\* Every row was refused: no request is made.
ReturnEarly ==
    /\ pc = "rows" /\ schema = "json" /\ NothingToInsert
    /\ Returns("ok")
    /\ UNCHANGED <<config, next, buffer, outcome, first_rejection, stored>>

RowsDone ==
    /\ pc = "rows" /\ next > Len(events)
    /\ schema = "json" => ~NothingToInsert
    /\ pc' = "end"
    /\ UNCHANGED <<config, next, buffer, outcome, first_rejection, stored, result>>

\* The settings apply to text formats, and a binary row is never skipped.
MaySkip == schema = "json" /\ allow_errors

\* The events that were sent ...
Sent == {i \in 1..(next - 1) : schema = "event" \/ Rejection(events[i].payload) = "none"}

\* ... and those that the server can read.  It looks for objects and not for
\* lines: two objects in one payload are two rows to it, and one event here.
Readable(i) == schema = "event" \/ AllObjects(write_row(events[i].payload, metadata))

\* The server takes the insert, except rows it is allowed to skip.
InsertEnds ==
    /\ pc = "end"
    /\ \E skipped \in SUBSET Sent :
         /\ skipped = {} \/ MaySkip
         /\ {i \in Sent : ~Readable(i)} \subseteq skipped
         /\ stored' = stored \union (Sent \ skipped)
    /\ Returns("ok")
    /\ UNCHANGED <<config, next, buffer, outcome, first_rejection>>

EndIgnored == "ok"   \* mutant: the answer to the insert is not looked at
EndError == "err"

\* It does not, or the answer is lost.
InsertFails ==
    /\ pc = "end"
    /\ \E S \in SUBSET Sent : stored' = stored \union S
    /\ Returns(EndError)
    /\ UNCHANGED <<config, next, buffer, outcome, first_rejection>>

Next ==
    \/ OpenInsert
    \/ WriteEventRow
    \/ JsonRowWritten
    \/ JsonRowDropped
    \/ ReturnEarly
    \/ RowsDone
    \/ InsertEnds
    \/ InsertFails

Spec == Init /\ [][Next]_vars

----------------------------------------------------------------------------
(* Properties *)

\* What the server reads in the buffer.
Rows == Pieces(buffer)

\* The n-th event that was sent.
Source(n) == CHOOSE i \in Sent : Cardinality({j \in Sent : j <= i}) = n

\* Splicing keeps rows apart and members whole (write_row): as long as every
\* payload sent is an object, whatever whitespace it holds, a reader finds in the
\* buffer one row for each that was counted as written, and the n-th is an object
\* with the configured columns in front of the n-th payload's own members.
RowsStandAlone ==
    schema = "json" /\ (\A i \in Sent : IsObject(events[i].payload)) =>
      /\ Cardinality(Rows) = outcome.written
      /\ \A row \in Rows :
           /\ IsObject(row[2])
           /\ Members(row[2]) =
                Injected(metadata) \o Members(events[Source(row[1])].payload)

\* A key of any bytes is read back as its text (write_json_string): no quote,
\* backslash or control character ends or breaks the JSON string.
KeysSurvive ==
    \A i \in DOMAIN events :
      LET key == events[i].key IN
      ReadString(write_json_string(key)) = [j \in DOMAIN key |-> Lossy(key[j])]

\* A row is dropped for cause and with a trace (write_json_rows): no payload
\* that is an object is dropped, and every event the write did not send is
\* counted as dropped, the first of them being the one that is reported.
DroppedForCause ==
    LET dropped == (1..(next - 1)) \ Sent IN
    /\ \A i \in 1..(next - 1) : IsObject(events[i].payload) => i \in Sent
    /\ outcome.dropped = Cardinality(dropped)
    /\ first_rejection = IF dropped = {} THEN 0 ELSE Min(dropped)

\* Ok means the table has the rows (write_batches): unless ClickHouse was told
\* it may skip some, every event that was not dropped is stored, and nothing
\* that was dropped is.
OkMeansStored ==
    result = "ok" =>
      /\ next = Len(events) + 1
      /\ ~MaySkip => stored = Sent

\* What the module comment of json.rs says: the router hands over a
\* syntactically valid object for every row.
EveryRowIsAnObject ==
    schema = "json" =>
      \A i \in Sent : IsObject(write_row(events[i].payload, metadata))

=============================================================================
