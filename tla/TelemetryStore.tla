---------------------------- MODULE TelemetryStore ----------------------------
(***************************************************************************)
(* The telemetry store (persistence/telemetry_db.py), for one process of   *)
(* one agent: rows of different processes never meet.  Heartbeats push     *)
(* samples into a ring buffer; every minute the flush loop turns them into *)
(* a row of metrics, summarises the older rows by hour into                *)
(* metrics_hourly, and deletes what is past its retention.  Events share   *)
(* the database connection, and so their commit commits whatever the loop  *)
(* has written by then; a crash undoes what no commit has covered.         *)
(*                                                                         *)
(* Time is counted in minutes.  A row of metrics is its minute; of a row   *)
(* of metrics_hourly the model keeps which minutes it summarises.          *)
(***************************************************************************)
EXTENDS Integers, FiniteSets

CONSTANTS
    Hour,        \* minutes in an hour
    Day,         \* minutes after which rows are summarised (86400 s)
    Keep,        \* METRICS_RETENTION_DAYS
    KeepHourly,  \* HOURLY_RETENTION_DAYS
    LastMinute,  \* bound: the minute in which the model's time stops
    MaxFaults    \* bound: crashes, stops and failing statements

Minute == 0..LastMinute

\* (ts / 3600) * 3600
HourOf(m) == (m \div Hour) * Hour

VARIABLES
    now,      \* the minute it is
    ring,     \* the buffer holds samples
    loop,     \* where the flush loop is
    wake,     \* the minute in which its sleep is over
    at,       \* the time it has read
    work,     \* the tables as the connection sees them
    disk,     \* the tables as last committed
    written,  \* the minutes whose row was ever committed
    faults

vars == <<now, ring, loop, wake, at, work, disk, written, faults>>

Tables == [metrics : SUBSET Minute, hourly : [Minute -> SUBSET Minute]]

TypeOK ==
    /\ now \in Minute
    /\ ring \in BOOLEAN
    /\ loop \in {"asleep", "insert", "final", "aggregate", "delete", "off"}
    /\ wake \in Nat
    /\ at \in Minute
    /\ work \in Tables
    /\ disk \in Tables
    /\ written \subseteq Minute
    /\ faults \in 0..MaxFaults

Init ==
    /\ now = 0
    /\ ring = FALSE
    /\ loop = "asleep"
    /\ wake = 1
    /\ at = 0
    /\ work = [metrics |-> {}, hourly |-> [h \in Minute |-> {}]]
    /\ disk = work
    /\ written = {}
    /\ faults = 0

-----------------------------------------------------------------------------

Tick ==
    /\ now < LastMinute
    /\ now' = now + 1
    /\ UNCHANGED <<ring, loop, wake, at, work, disk, written, faults>>

\* ingest_heartbeat, which pushes every process of the heartbeat.
Push ==
    /\ loop # "off"
    /\ ring' = TRUE
    /\ UNCHANGED <<now, loop, wake, at, work, disk, written, faults>>

Committed(tables) ==
    /\ disk' = tables
    /\ written' = written \cup tables.metrics

\* record_event: an insert of its own, and the commit of the connection.
RecordEvent ==
    /\ loop # "off"
    /\ Committed(work)
    /\ UNCHANGED <<now, ring, loop, wake, at, work, faults>>

\* Faulty: a sleep that counts from the start of the round.
SleepsShort ==
    /\ loop' = "asleep"
    /\ wake' = at

\* Never sooner than a minute after the round before: sleep(60) starts anew.
Sleeps ==
    /\ loop' = "asleep"
    /\ wake' = now + 1

\* RingBuffer.flush: the buffer is swapped, its samples become a row of now.
Flush ==
    /\ loop = "asleep" /\ now >= wake
    /\ at' = now
    /\ ring' = FALSE
    /\ loop' = IF ring THEN "insert" ELSE "aggregate"
    /\ UNCHANGED <<now, wake, work, disk, written, faults>>

\* INSERT OR REPLACE and commit, in the loop or for the last time; the cleanup
\* that follows in the loop reads the time again.
Insert ==
    /\ loop \in {"insert", "final"}
    /\ work' = [work EXCEPT !.metrics = @ \cup {at}]
    /\ Committed(work')
    /\ loop' = IF loop = "insert" THEN "aggregate" ELSE "off"
    /\ at' = now
    /\ UNCHANGED <<now, ring, wake, faults>>

\* Faulty: summarises only what this round deletes, and misses its last minute.
SummaryOfDeleted(h) == {m \in work.metrics : HourOf(m) = h /\ m + 1 < at - Keep}

\* The minutes of an hour that are older than a day and still have their row.
Summary(h) == {m \in work.metrics : HourOf(m) = h /\ m < at - Day}

\* INSERT OR REPLACE INTO metrics_hourly ... GROUP BY hour.
Aggregate ==
    /\ loop = "aggregate"
    /\ work' = [work EXCEPT !.hourly =
                   [h \in Minute |-> IF Summary(h) # {} THEN Summary(h) ELSE @[h]]]
    /\ loop' = "delete"
    /\ UNCHANGED <<now, ring, wake, at, disk, written, faults>>

\* Both retentions, and the commit.
Delete ==
    /\ loop = "delete"
    /\ work' = [metrics |-> {m \in work.metrics : m >= at - Keep},
                hourly |-> [h \in Minute |-> IF h < at - KeepHourly THEN {} ELSE work.hourly[h]]]
    /\ Committed(work')
    /\ Sleeps
    /\ UNCHANGED <<now, ring, at, faults>>

Fault ==
    /\ faults < MaxFaults
    /\ faults' = faults + 1

\* A statement of the loop fails: it logs and sleeps.  What it has written stays
\* in the open transaction; the samples it has taken are gone.
Fails ==
    /\ Fault
    /\ loop \in {"insert", "aggregate", "delete"}
    /\ Sleeps
    /\ UNCHANGED <<now, ring, at, work, disk, written>>

\* stop: the loop is cancelled, the buffer is flushed for the last time.
Stop ==
    /\ Fault
    /\ loop \notin {"off", "final"}
    /\ at' = now
    /\ ring' = FALSE
    /\ IF ring THEN loop' = "final" /\ UNCHANGED work ELSE loop' = "off" /\ work' = disk
    /\ UNCHANGED <<now, wake, disk, written>>

Crash ==
    /\ Fault
    /\ loop # "off"
    /\ loop' = "off"
    /\ ring' = FALSE
    /\ work' = disk
    /\ UNCHANGED <<now, wake, at, disk, written>>

Start ==
    /\ loop = "off"
    /\ Sleeps
    /\ UNCHANGED <<now, ring, at, work, disk, written, faults>>

Next ==
    \/ Tick \/ Push \/ RecordEvent \/ Flush \/ Insert \/ Aggregate \/ Delete
    \/ Fails \/ Stop \/ Crash \/ Start

Spec == Init /\ [][Next]_vars

-----------------------------------------------------------------------------
(* Properties *)

\* The flush loop never finds a row of the minute it writes, so INSERT OR
\* REPLACE loses no samples of an earlier flush: not after a slow round, a
\* failed one, or a restart within the minute of the last flush.
LoopReplacesNothing == loop = "insert" => at \notin work.metrics

\* A minute is deleted only when its hour has been summarised: whatever crash,
\* failure or foreign commit falls between summarising and deleting, a minute
\* past its retention is still represented by its hour, as long as hours are
\* kept.
DeletedIsSummarised ==
    \A m \in written \ disk.metrics :
        disk.hourly[HourOf(m)] # {} \/ HourOf(m) < now - KeepHourly
=============================================================================
