--------------------------- MODULE EngineRuntime ---------------------------
(***************************************************************************)
(* The threads of a running engine around its bounded packet queue:        *)
(* LiveSniffer's capture thread, the packet consumer (the main thread, in  *)
(* SnifferService._consume_packets), the command thread and the telemetry  *)
(* thread.  They meet in the queue, in EngineTelemetryCollector and, the   *)
(* consumer and the command thread, in the ActivityTracker.  What ends the *)
(* consumer ends the process.                                              *)
(***************************************************************************)
EXTENDS ActivityTracker

CONSTANTS
    Consumer, Commander,   \* the threads that process packets and commands
    QueueMax,              \* maxsize of packet_queue
    Window,                \* packet_window_seconds
    MaxPackets,            \* bound: packets captured
    MaxTime,               \* bound: ticks of the clock
    MaxRestarts            \* bound: restarts

ASSUME RuntimeAssumption ==
    /\ Threads = {Consumer, Commander} /\ Consumer # Commander
    /\ {QueueMax, Window} \subseteq Nat \ {0}
    /\ {MaxPackets, MaxTime, MaxRestarts} \subseteq Nat

VARIABLES
    now,            \* time.time(), in ticks
    queue,          \* packets in packet_queue
    captured,       \* packets captured so far (bound)
    capture,        \* the capture thread: [pc, at], at being the time it has read
    holding,        \* the consumer has a packet
    totals,         \* the counters of the collector: [received, processed, dropped]
    drop_times,     \* _packet_dropped_times
    telemetry,      \* the telemetry thread: [pc, at]
    ended,          \* an exception has ended the consumer and with it the process
    restarts,       \* restarts so far (bound)
    drops           \* history: the times of all drops recorded in this life

collector_vars == <<totals, drop_times, drops>>
runtime_vars == <<now, queue, captured, capture, holding, collector_vars, telemetry,
                  ended, restarts>>
vars == <<tracker_vars, runtime_vars>>

ProcessInit ==
    /\ queue = 0 /\ holding = FALSE /\ capture = [pc |-> "sniff", at |-> 0]
    /\ totals = [received |-> 0, processed |-> 0, dropped |-> 0]
    /\ drop_times = <<>> /\ drops = {}
    /\ telemetry = [pc |-> "sleep", at |-> 0]
    /\ ended = FALSE

Init == TrackerInit /\ ProcessInit /\ now = 0 /\ captured = 0 /\ restarts = 0

Tick == now < MaxTime /\ now' = now + 1
        /\ UNCHANGED <<tracker_vars, queue, captured, capture, holding, collector_vars,
                       telemetry, ended, restarts>>

-----------------------------------------------------------------------------
(* The collector.                                                          *)

\* Mutant: an entry that is exactly a window old stays.
ExpiredLateMutant(time, at) == time < at - Window
Expired(time, at) == time <= at - Window

\* _trim pops from the left while the head is too old.
Trim(times, at) ==
    LET first == CHOOSE n \in 1..(Len(times) + 1) :
                    /\ \A i \in 1..(n - 1) : Expired(times[i], at)
                    /\ n <= Len(times) => ~Expired(times[n], at)
    IN  SubSeq(times, first, Len(times))

-----------------------------------------------------------------------------
(* _handle_packet: the clock is read before the lock is taken.  (The times *)
(* of the packets received are trimmed in the same way and left out.)       *)

CaptureGoes(pc) == capture' = [pc |-> pc, at |-> IF pc = "dropped" THEN now ELSE 0]
OnlyCapture == UNCHANGED <<tracker_vars, now, holding, telemetry, ended, restarts>>

RecordReceived ==
    /\ ~ended /\ capture.pc = "sniff" /\ captured < MaxPackets
    /\ captured' = captured + 1
    /\ totals' = [totals EXCEPT !.received = @ + 1] /\ CaptureGoes("put")
    /\ UNCHANGED <<queue, drop_times, drops>> /\ OnlyCapture

\* Mutant: a queue without a size.
PutUnboundedMutant ==
    /\ ~ended /\ capture.pc = "put"
    /\ queue' = queue + 1 /\ CaptureGoes("sniff")
    /\ UNCHANGED <<captured, collector_vars>> /\ OnlyCapture
Put ==
    /\ ~ended /\ capture.pc = "put"
    /\ IF queue < QueueMax THEN queue' = queue + 1 /\ CaptureGoes("sniff")
                           ELSE queue' = queue /\ CaptureGoes("dropped")
    /\ UNCHANGED <<captured, collector_vars>> /\ OnlyCapture

RecordDropped ==
    /\ ~ended /\ capture.pc = "dropped"
    /\ totals' = [totals EXCEPT !.dropped = @ + 1]
    /\ drop_times' = Trim(Append(drop_times, capture.at), capture.at)
    /\ drops' = drops \cup {capture.at}
    /\ CaptureGoes("sniff")
    /\ UNCHANGED <<queue, captured>> /\ OnlyCapture

-----------------------------------------------------------------------------
(* The consumer and the command thread.                                    *)

Get ==
    /\ ~ended /\ ~holding /\ queue > 0
    /\ queue' = queue - 1 /\ holding' = TRUE
    /\ UNCHANGED <<tracker_vars, now, captured, capture, collector_vars, telemetry,
                   ended, restarts>>

\* process() records the activity of an address any number of times.
ProcessRecords(ip) == ~ended /\ holding /\ Touch(Consumer, ip) /\ UNCHANGED runtime_vars

ProcessReturns ==
    /\ ~ended /\ holding /\ At(Consumer, "ready")
    /\ holding' = FALSE /\ totals' = [totals EXCEPT !.processed = @ + 1]
    /\ UNCHANGED <<tracker_vars, now, queue, captured, capture, drop_times, drops, telemetry,
                   ended, restarts>>

\* Nothing catches what process() raises: the main thread ends, and the others with it,
\* wherever they are.
ConsumerEnds ==
    /\ ~ended /\ At(Consumer, "raised")
    /\ ended' = TRUE
    /\ UNCHANGED <<tracker_vars, now, queue, captured, capture, holding, collector_vars,
                   telemetry, restarts>>

ApplyRecords(ip) == ~ended /\ Touch(Commander, ip) /\ UNCHANGED runtime_vars

\* After an exception the websocket client reconnects; the poll loop does not come back.
Reconnect ==
    /\ ~ended /\ At(Commander, "raised") /\ Return(Commander)
    /\ UNCHANGED <<tracked, file, since, issued, faults, callers, touched, write_failed,
                   given_up, runtime_vars>>

Recording == ~ended /\ (\E t \in Threads : RecordActivity(t)) /\ UNCHANGED runtime_vars

\* The process is ended, by an exception or otherwise, and started again.
Restart ==
    /\ restarts < MaxRestarts /\ restarts' = restarts + 1
    /\ TrackerEnds
    /\ queue' = 0 /\ holding' = FALSE /\ capture' = [pc |-> "sniff", at |-> 0]
    /\ totals' = [received |-> 0, processed |-> 0, dropped |-> 0]
    /\ drop_times' = <<>> /\ drops' = {}
    /\ telemetry' = [pc |-> "sleep", at |-> 0]
    /\ ended' = FALSE
    /\ UNCHANGED <<now, captured>>

-----------------------------------------------------------------------------
(* _publish_engine_telemetry                                               *)

OnlyTelemetry == UNCHANGED <<tracker_vars, now, queue, captured, capture, holding, totals,
                             drops, ended, restarts>>

SnapshotBegins ==
    /\ ~ended /\ telemetry.pc = "sleep"
    /\ telemetry' = [pc |-> "lock", at |-> now]
    /\ UNCHANGED drop_times /\ OnlyTelemetry

\* Under the lock, with the time read before: the windows are trimmed and the counters copied.
\* The size of the queue and the sessions are read after it, and the snapshot is sent.
Snapshot ==
    /\ ~ended /\ telemetry.pc = "lock"
    /\ drop_times' = Trim(drop_times, telemetry.at)
    /\ telemetry' = [pc |-> "sleep", at |-> 0]
    /\ OnlyTelemetry

Capture == RecordReceived \/ Put \/ RecordDropped
Consume == Get \/ (\E ip \in Ips : ProcessRecords(ip)) \/ ProcessReturns \/ ConsumerEnds
Command == (\E ip \in Ips : ApplyRecords(ip)) \/ Reconnect
Telemetry == SnapshotBegins \/ Snapshot

Next == Tick \/ Capture \/ Consume \/ Command \/ Recording \/ Telemetry \/ Restart

Spec == Init /\ [][Next]_vars

-----------------------------------------------------------------------------
(* Properties                                                              *)

\* The types of the variables; the queue keeps within its size.
TypeOK ==
    /\ tracked \subseteq Ips
    /\ since \in 0..MaxRecords /\ issued \in 0..MaxRecords /\ faults \in 0..MaxFaults
    /\ file \in Seq(1..MaxRecords)
    /\ \A t \in Threads : frame[t].pc \in
            {"ready", "prune", "sort", "pop", "append", "count", "check", "read", "truncate",
             "rewrite", "raised"}
    /\ queue \in 0..QueueMax /\ holding \in BOOLEAN /\ ended \in BOOLEAN
    /\ capture.pc \in {"sniff", "put", "dropped"}
    /\ telemetry.pc \in {"sleep", "lock"}

\* A snapshot adds up although its parts belong to three threads: every packet reported as
\* received is reported as processed or dropped, or stands in the queue or in the hands of
\* the capture thread or the consumer.  Its flag for packet loss is exact, although the times
\* are read before the lock and another thread may have trimmed with a later one.
InHands == (IF holding THEN 1 ELSE 0) + (IF capture.pc = "sniff" THEN 0 ELSE 1)
SnapshotHonest ==
    [][(telemetry.pc = "lock" /\ telemetry'.pc = "sleep" /\ restarts' = restarts) =>
        /\ totals.received = totals.processed + totals.dropped + queue + InHands
        /\ (drop_times' # <<>>) = (\E s \in drops : s > telemetry.at - Window)]_vars

\* The file stays bounded although two threads append and compact it without a lock: it grows
\* by the interval before a compaction is due, by the interval again while one thread stands
\* between resetting the counter and reading the file, and by a record the other has not
\* counted.  A restart delays a compaction by as much once more, a disk error by two intervals.
FileBounded ==
    Len(file) <= MaxFileEntries + (2 * Interval + 1) * (1 + restarts) + 2 * Interval * faults

\* A record that is neither in the file nor in the hands of a thread that rewrites it was
\* among the oldest of a compaction, was appended or put back during the compaction of the
\* other thread, or fell to a rewrite that was cut off.
HistoryKept ==
    1..issued \subseteq
        ToSet(file) \cup given_up
            \cup UNION {ToSet(frame[t].lines) : t \in {t \in Threads : At(t, "rewrite")}}

\* The file of records is bounded and loses nothing but what its size asks for.
TrackerFileSound == FileBounded /\ HistoryKept

\* record_activity raises, and with it the engine ends, only after an error of writing or when
\* both threads use it and there are more addresses than it keeps.
RaisesOnlyContended ==
    (\E t \in Threads : At(t, "raised")) =>
        write_failed \/ (callers = Threads /\ Cardinality(touched) > MaxTracked)
=============================================================================
