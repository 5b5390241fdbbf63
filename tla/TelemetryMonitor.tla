-------------------------- MODULE TelemetryMonitor --------------------------
(* The local monitor: the ESP32 writes telemetry lines to its console, a     *)
(* reader thread of the host puts their sections in a TelemetryStore, and    *)
(* the handler threads of the HTTP server answer the long polls of the       *)
(* browser page.  Lines are lost, the port or the whole host process goes    *)
(* away, and time passes in between.                                         *)
(*                                                                           *)
(* One clock stands for the monotonic clocks of the three machines, whose    *)
(* readings are only subtracted.  Of a FPGA status only the time is kept at  *)
(* which the ESP32 received it: it is what tells two of them apart.  Of the  *)
(* other sections (sensor, ml) it matters only that they change the          *)
(* revision; the timeline of transitions is left out.                        *)
EXTENDS Integers

CONSTANTS
    STALE_AFTER,     \* --stale-after-ms, also the max_source_age_ms of the reader
    WAIT,            \* timeout_s of a long poll
    POLL,            \* the page polls again 250 ms after an answer
    DELAY, RESPONSE, \* most a line is under way, an answer takes, when nothing fails
    MAX_REVISION, MAX_TIME, MAX_STARTS  \* bounds of the model

ASSUME TimeAssumption ==
    /\ STALE_AFTER \in Nat \ {0} /\ WAIT \in Nat /\ POLL \in Nat
    /\ DELAY \in Nat /\ RESPONSE \in Nat /\ MAX_TIME \in Nat

VARIABLES
    now,
    wire,                        \* the line under way to the host, if any
    reading, packet, section,    \* the reader thread: alive, its packet, where it is
    starts, up,                  \* times the host process was started; it runs
    revision, status,            \* TelemetryStore
    request, answer,             \* the poll of the page, the snapshot that answers it
    shown                        \* what the page shows, and whether as connected

vars == <<now, wire, reading, packet, section, starts, up, revision, status,
          request, answer, shown>>

\* `observed` is the time the ESP32 received the status of a line, of the store
\* or of the page; a line without a status has observed = -1.
NoLine == [observed |-> -1, age |-> 0, sent |-> -1]
NoStatus == [observed |-> -1, received |-> 0]
NothingShown == [fresh |-> FALSE, observed |-> -1, revision |-> -1, start |-> 0]

-----------------------------------------------------------------------------
(* The ESP32 and its console *)

\* A telemetry record with a status of any age, or without one.  With no reader
\* it is lost, as is one that arrives damaged: the reader skips a line it cannot
\* decode.
EmitLine ==
    /\ up /\ reading /\ wire = NoLine /\ revision < MAX_REVISION
    /\ \E t \in -1 .. now :
          wire' = [observed |-> t, age |-> now - t, sent |-> now]
    /\ UNCHANGED <<now, reading, packet, section, starts, up, revision, status,
                   request, answer, shown>>

-----------------------------------------------------------------------------
(* TelemetryStore *)

\* Condition.notify_all: a waiting handler goes on.
Notify == request' = IF request.at = "waiting"
                     THEN [at |-> "ready", since |-> now] ELSE request

\* The faulty store wakes nobody: the page sees the change when its wait ends.
CommitSilently == revision' = revision + 1 /\ UNCHANGED request

CommitChange == revision' = revision + 1 /\ Notify

\* The monitor's view of a status: stale, or never received, it claims nothing.
Fresh == status # NoStatus /\ now - status.received <= STALE_AFTER

Snapshot ==
    [fresh |-> Fresh, observed |-> status.observed, revision |-> revision, start |-> starts]

-----------------------------------------------------------------------------
(* The reader thread *)

\* decode_device_line
ReadLine ==
    /\ up /\ reading /\ section = "line" /\ wire # NoLine
    /\ wire' = NoLine /\ packet' = wire /\ section' = "other"
    /\ UNCHANGED <<now, reading, starts, up, revision, status,
                   request, answer, shown>>

\* ingest_device_packet takes the lock of the store once for each section.  The
\* ml section of a line and the sensor section of the next are one step here:
\* one of them is there and recent enough, or neither is.
IngestOther ==
    /\ section = "other" /\ section' = "status"
    /\ CommitChange \/ UNCHANGED <<revision, request>>
    /\ UNCHANGED <<now, wire, reading, packet, starts, up, status, answer, shown>>

\* The faulty reader trusts a record because it has just arrived.
AnyAge == packet.observed >= 0

RecentEnough == packet.observed >= 0 /\ packet.age <= STALE_AFTER

IngestStatus ==
    /\ section = "status" /\ section' = "line" /\ packet' = NoLine
    /\ \/ /\ RecentEnough
          /\ status' = [observed |-> packet.observed, received |-> now]
          /\ CommitChange
       \/ ~RecentEnough /\ UNCHANGED <<revision, request, status>>
    /\ UNCHANGED <<now, wire, reading, starts, up, answer, shown>>

\* The port goes away, or the piped input ends: the thread ends, the server
\* goes on.
LoseReader ==
    /\ up /\ reading /\ section = "line"
    /\ reading' = FALSE /\ wire' = NoLine
    /\ UNCHANGED <<now, packet, section, starts, up, revision, status,
                   request, answer, shown>>

-----------------------------------------------------------------------------
(* The HTTP server and the page *)

\* GET /api/v1/stream: wait_for_revision looks at the revision under the lock.
Poll ==
    /\ up /\ request.at = "idle"
    /\ request' = [at |-> IF revision <= shown.revision THEN "waiting" ELSE "ready",
                   since |-> now]
    /\ UNCHANGED <<now, wire, reading, packet, section, starts, up, revision, status,
                   answer, shown>>

WaitEnds ==
    /\ request.at = "waiting" /\ now - request.since >= WAIT
    /\ request' = [at |-> "ready", since |-> now]
    /\ UNCHANGED <<now, wire, reading, packet, section, starts, up, revision, status,
                   answer, shown>>

TakeSnapshot ==
    /\ request.at = "ready" /\ request' = [request EXCEPT !.at = "answered"]
    /\ answer' = Snapshot
    /\ UNCHANGED <<now, wire, reading, packet, section, starts, up, revision, status, shown>>

Render ==
    /\ request.at = "answered" /\ request' = [at |-> "idle", since |-> now]
    /\ shown' = answer /\ answer' = NothingShown
    /\ UNCHANGED <<now, wire, reading, packet, section, starts, up, revision, status>>

\* fetch fails: markDisconnected, and the page polls on with the revision it had.
PollFails ==
    /\ ~up /\ request.at = "idle" /\ now - request.since >= POLL
    /\ request' = [at |-> "idle", since |-> now]
    /\ UNCHANGED <<now, wire, reading, packet, section, starts, up, revision, status,
                   answer, shown>>

StopHost ==
    /\ up /\ up' = FALSE /\ reading' = FALSE
    /\ wire' = NoLine /\ packet' = NoLine /\ section' = "line"
    /\ revision' = 0 /\ status' = NoStatus
    /\ request' = [at |-> "idle", since |-> now] /\ answer' = NothingShown
    /\ shown' = [shown EXCEPT !.fresh = FALSE]
    /\ UNCHANGED <<now, starts>>

StartHost ==
    /\ ~up /\ starts < MAX_STARTS /\ starts' = starts + 1
    /\ up' = TRUE /\ reading' = TRUE
    /\ UNCHANGED <<now, wire, packet, section, revision, status,
                   request, answer, shown>>

-----------------------------------------------------------------------------
(* Time does not pass over what is due: lines are read and answers given     *)
(* within the delays, a wait ends when its timeout does, the page polls.     *)

LineDue ==
    \/ wire # NoLine /\ now - wire.sent >= DELAY
    \/ packet # NoLine /\ now - packet.sent >= DELAY

RequestDue ==
    CASE request.at = "idle" -> now - request.since >= POLL
      [] request.at = "waiting" -> now - request.since >= WAIT
      [] OTHER -> now - request.since >= RESPONSE

Tick ==
    /\ now < MAX_TIME /\ ~LineDue /\ ~RequestDue
    /\ now' = now + 1
    /\ UNCHANGED <<wire, reading, packet, section, starts, up, revision, status,
                   request, answer, shown>>

Init ==
    /\ now = 0
    /\ wire = NoLine /\ reading = FALSE /\ packet = NoLine /\ section = "line"
    /\ starts = 0 /\ up = FALSE /\ revision = 0 /\ status = NoStatus
    /\ request = [at |-> "idle", since |-> 0]
    /\ answer = NothingShown /\ shown = NothingShown

Next ==
    \/ EmitLine \/ ReadLine \/ IngestOther \/ IngestStatus \/ LoseReader
    \/ Poll \/ WaitEnds \/ TakeSnapshot \/ Render \/ PollFails
    \/ StopHost \/ StartHost \/ Tick

Spec == Init /\ [][Next]_vars

-----------------------------------------------------------------------------
(* Properties *)

\* A state the page shows, as connected and fresh, is one the FPGA reported to
\* the ESP32 at most this long ago: the age the reader accepts, the line, the
\* age the store accepts, and what it takes to replace the picture.  The age is
\* taken anew at the host, and a page that waits is not told that what it shows
\* has become stale (device_stream.py, store.py, app.js).
ShownAgeLimit == 2 * STALE_AFTER + DELAY + POLL + WAIT + 2 * RESPONSE

ShownStateIsRecent == shown.fresh => now - shown.observed <= ShownAgeLimit

\* A poll does not sleep over a change: while it waits on the process whose
\* snapshot the page shows, the page shows the last status that process took in.
\* After a restart the revisions start again, and this holds of the new process
\* only once it has answered (wait_for_revision, _commit_change).
WaitsWithNewest ==
    request.at = "waiting" /\ shown.start = starts => shown.observed = status.observed
=============================================================================
