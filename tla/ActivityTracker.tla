-------------------------- MODULE ActivityTracker --------------------------
(***************************************************************************)
(* response_engine/ip_activity_tracker.py as the packet consumer and the   *)
(* command thread use it, both without a lock: a dictionary of addresses   *)
(* that is pruned when it grows too large, and a file of records that is   *)
(* rewritten now and then.  What a record says is left out, and so are the *)
(* times the addresses are sorted by: they come from packets and from the  *)
(* clock and may be in any order.                                          *)
(***************************************************************************)
EXTENDS Integers, FiniteSets, SequencesExt

CONSTANTS
    Threads,          \* the threads that call record_activity
    Ips,              \* addresses
    MaxTracked,       \* max_tracked_ips
    MaxFileEntries,   \* max_file_entries
    Interval,         \* file_compaction_interval_records
    MaxRecords,       \* bound: records appended
    MaxFaults         \* bound: disk errors

ASSUME TrackerAssumption ==
    /\ IsFiniteSet(Ips)
    /\ {MaxTracked, MaxFileEntries, Interval} \subseteq Nat \ {0}
    /\ {MaxRecords, MaxFaults} \subseteq Nat

VARIABLES
    tracked,          \* the keys of _state
    file,             \* ip_activity.jsonl: the numbers of its records
    since,            \* _records_since_compaction
    frame,            \* thread -> [pc, keys, victims, lines], its position and locals
    issued,           \* records appended so far
    faults,           \* disk errors so far (bound)
    callers, touched, \* history: the threads and addresses of this life of the process
    write_failed,     \* history: an error of open or write was raised in this life
    given_up          \* history: records a compaction left out as the oldest, that were
                      \* appended or put back during the compaction of the other thread, or
                      \* that a rewrite was to put back when it failed or the process ended

tracker_vars == <<tracked, file, since, frame, issued, faults, callers, touched,
                  write_failed, given_up>>
Ready == [pc |-> "ready", keys |-> {}, victims |-> 0, lines |-> <<>>]

TrackerInit ==
    /\ tracked = {} /\ since = 0 /\ frame = [t \in Threads |-> Ready]
    /\ callers = {} /\ touched = {} /\ write_failed = FALSE
    /\ file = <<>> /\ issued = 0 /\ faults = 0
    /\ given_up = {}

At(t, pc) == frame[t].pc = pc
Go(t, pc) == frame' = [frame EXCEPT ![t].pc = pc]
Return(t) == frame' = [frame EXCEPT ![t] = Ready]
Raise(t) == frame' = [frame EXCEPT ![t] = [Ready EXCEPT !.pc = "raised"]]
OtherCompacts(t) == \E u \in Threads \ {t} : frame[u].pc \in {"truncate", "rewrite"}

\* Records not yet appended by a thread in record_activity.
Coming == {t \in Threads : frame[t].pc \in {"prune", "sort", "pop", "append"}}

\* The entry of the address is looked up or made, and updated.
Touch(t, ip) ==
    /\ At(t, "ready") /\ issued + Cardinality(Coming) < MaxRecords
    /\ tracked' = tracked \cup {ip}
    /\ callers' = callers \cup {t} /\ touched' = touched \cup {ip}
    /\ Go(t, "prune")
    /\ UNCHANGED <<file, since, issued, faults, write_failed, given_up>>

Overflow == Cardinality(tracked) - MaxTracked

\* _prune_state: sorted() first makes a list of the keys...
Prune(t) ==
    /\ At(t, "prune")
    /\ IF Overflow <= 0 THEN Go(t, "append")
       ELSE frame' = [frame EXCEPT ![t] = [Ready EXCEPT !.pc = "sort", !.keys = tracked,
                                                        !.victims = Overflow]]
    /\ UNCHANGED <<tracked, file, since, issued, faults, callers, touched, write_failed,
                   given_up>>

\* ... and then looks each of them up: KeyError if the other thread has removed it.  The
\* addresses with the oldest times are the victims.
SortKeys(t) ==
    /\ At(t, "sort")
    /\ \/ ~(frame[t].keys \subseteq tracked) /\ Raise(t)
       \/ /\ frame[t].keys \subseteq tracked
          /\ \E oldest \in kSubset(frame[t].victims, frame[t].keys) :
                frame' = [frame EXCEPT ![t].pc = "pop", ![t].keys = oldest]
    /\ UNCHANGED <<tracked, file, since, issued, faults, callers, touched, write_failed,
                   given_up>>

Pop(t) ==
    /\ At(t, "pop")
    /\ \E ip \in frame[t].keys :
        /\ tracked' = tracked \ {ip}
        /\ frame' = [frame EXCEPT ![t].keys = @ \ {ip},
                                  ![t].pc = IF frame[t].keys = {ip} THEN "append" ELSE "pop"]
    /\ UNCHANGED <<file, since, issued, faults, callers, touched, write_failed, given_up>>

\* The line goes to the end of the file as it is now, whoever is rewriting it.
AppendRecord(t) ==
    /\ At(t, "append")
    /\ issued' = issued + 1
    /\ file' = Append(file, issued')
    /\ given_up' = IF OtherCompacts(t) THEN given_up \cup {issued'} ELSE given_up
    /\ Go(t, "count")
    /\ UNCHANGED <<tracked, since, faults, callers, touched, write_failed>>

Count(t) ==
    /\ At(t, "count") /\ since' = since + 1 /\ Go(t, "check")
    /\ UNCHANGED <<tracked, file, issued, faults, callers, touched, write_failed,
                   given_up>>

Check(t) ==
    /\ At(t, "check")
    /\ IF since < Interval THEN since' = since /\ Return(t) ELSE since' = 0 /\ Go(t, "read")
    /\ UNCHANGED <<tracked, file, issued, faults, callers, touched, write_failed,
                   given_up>>

\* Mutant: the oldest lines are kept.
RetainedOldestMutant == SubSeq(file, 1, MaxFileEntries)
Retained == SubSeq(file, Len(file) - MaxFileEntries + 1, Len(file))

ReadLines(t) ==
    /\ At(t, "read")
    /\ IF Len(file) <= MaxFileEntries THEN Return(t) /\ given_up' = given_up
       ELSE /\ frame' = [frame EXCEPT ![t].pc = "truncate", ![t].lines = Retained]
            /\ given_up' = given_up \cup ToSet(SubSeq(file, 1, Len(file) - MaxFileEntries))
    /\ UNCHANGED <<tracked, file, since, issued, faults, callers, touched, write_failed>>

\* write_text opens the file with "w", which empties it, ...
Truncate(t) ==
    /\ At(t, "truncate") /\ file' = <<>> /\ Go(t, "rewrite")
    /\ UNCHANGED <<tracked, since, issued, faults, callers, touched, write_failed,
                   given_up>>

\* ... and writes from the beginning of the file, over what was appended meanwhile (lines
\* are taken to be of one length).
Overwritten(lines) == lines \o SubSeq(file, Len(lines) + 1, Len(file))

Rewrite(t) ==
    /\ At(t, "rewrite") /\ file' = Overwritten(frame[t].lines) /\ Return(t)
    /\ given_up' = IF OtherCompacts(t) THEN given_up \cup ToSet(frame[t].lines) ELSE given_up
    /\ UNCHANGED <<tracked, since, issued, faults, callers, touched, write_failed>>

\* Mutant: an error of read_text is raised like the others.
ReadFailsRaisesMutant(t) ==
    /\ At(t, "read") /\ faults < MaxFaults /\ faults' = faults + 1
    /\ Raise(t)
    /\ UNCHANGED <<tracked, file, since, issued, callers, touched, write_failed,
                   given_up>>
\* Only read_text is guarded: the compaction is given up until the next one is due.
ReadFails(t) ==
    /\ At(t, "read") /\ faults < MaxFaults /\ faults' = faults + 1
    /\ Return(t)
    /\ UNCHANGED <<tracked, file, since, issued, callers, touched, write_failed,
                   given_up>>

\* An error of open or of write leaves record_activity; a rewrite may have got part of the way.
WriteFails(t) ==
    /\ frame[t].pc \in {"append", "truncate", "rewrite"}
    /\ faults < MaxFaults /\ faults' = faults + 1
    /\ write_failed' = TRUE
    /\ IF At(t, "rewrite")
       THEN /\ \E n \in 0..(Len(frame[t].lines) - 1) :
                 file' = Overwritten(SubSeq(frame[t].lines, 1, n))
            /\ given_up' = given_up \cup ToSet(frame[t].lines)
       ELSE UNCHANGED <<file, given_up>>
    /\ Raise(t)
    /\ UNCHANGED <<tracked, since, issued, callers, touched>>

\* The memory of the process is gone, a rewrite stays unfinished.
TrackerEnds ==
    /\ tracked' = {} /\ since' = 0 /\ frame' = [t \in Threads |-> Ready]
    /\ callers' = {} /\ touched' = {} /\ write_failed' = FALSE
    /\ given_up' = given_up \cup UNION {ToSet(frame[t].lines) : t \in {t \in Threads : At(t, "rewrite")}}
    /\ UNCHANGED <<file, issued, faults>>

RecordActivity(t) ==
    \/ Prune(t) \/ SortKeys(t) \/ Pop(t) \/ AppendRecord(t) \/ Count(t) \/ Check(t)
    \/ ReadLines(t) \/ Truncate(t) \/ Rewrite(t) \/ ReadFails(t) \/ WriteFails(t)
=============================================================================
