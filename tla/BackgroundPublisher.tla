------------------------ MODULE BackgroundPublisher ------------------------
(***************************************************************************)
(* The store-and-forward path of one forwarder of the engine:              *)
(* BackgroundPublisher (packet_capture/forwarding/background_publisher.py) *)
(* and the DiskSpillStore behind it (forwarding/disk_spill_store.py).      *)
(*                                                                         *)
(* Payloads are numbered in the order of submission.  A line of the spill  *)
(* file is the payload it decodes to, or Corrupt.  The backend is only     *)
(* seen through the result of publish: it may accept a payload and the     *)
(* engine still sees a failure, when the response is lost or late.         *)
(***************************************************************************)
EXTENDS Integers, Sequences, FiniteSets

CONSTANTS Workers,      \* the worker threads of a publisher without a store
          Spilling,     \* the settings of disk_spill_enabled to look at
          QueueMax,     \* max_queue_size
          MaxEntries,   \* max_entries of the spill store
          BatchSize,    \* _SPILL_DRAIN_BATCH_SIZE
          DiskFaults,   \* may a write to the spill file raise OSError?
          ReadFaults,   \* may a read of the spill file raise OSError?
          MaxPayloads,  \* bound: payloads submitted
          MaxFaults     \* bound: crashes and disk faults

ASSUME PublisherAssumption ==
    /\ QueueMax \in Nat \ {0}
    /\ MaxEntries \in Nat \ {0}
    /\ BatchSize \in Nat \ {0}
    /\ MaxPayloads \in Nat
    /\ MaxFaults \in Nat
    /\ Spilling \subseteq BOOLEAN
    /\ Workers # {}
    /\ DiskFaults \in BOOLEAN
    /\ ReadFaults \in BOOLEAN

VARIABLES has_store,        \* is a DiskSpillStore attached?
          next,             \* number of payloads submitted
          queue,            \* _queue
          dropped,          \* _dropped
          pc,               \* where each worker is in _run
          payload,          \* the payload a worker took from the queue
          lines,            \* the lines read by peek_batch
          cursor,           \* the last of these lines that was replayed
          delivered_count,  \* delivered_count of _drain_spill_backlog
          file,             \* the lines of the spill file
          torn,             \* the last line lacks its line break
          count,            \* _count of the store
          faults,           \* number of crashes and disk faults so far
          received,         \* history: payloads the backend accepted
          unconfirmed,      \* history: accepted, but publish reported failure
          duplicates,       \* history: payloads accepted more than once
          lost              \* history: payloads given up, by reason

drainVars == <<lines, cursor, delivered_count>>
diskVars == <<file, torn, count>>
backendVars == <<received, unconfirmed, duplicates>>
vars == <<has_store, next, queue, dropped, pc, payload, lines, cursor, delivered_count,
          file, torn, count, faults, received, unconfirmed, duplicates, lost>>

None == 0
Corrupt == 0
Payload == Nat \ {0}
Reasons == {"full", "undelivered", "trim", "torn", "disk", "crash"}

\* The payloads a sequence of lines decodes to: corrupt lines are skipped.
Entries(ls) == {ls[i] : i \in DOMAIN ls} \ {Corrupt}

\* The positions of the decodable lines among the first n.
ValidUpTo(ls, n) == {i \in 1..n : ls[i] # Corrupt}

\* A publisher with a store has one worker; only the publisher of the secondary
\* models has several, and it has no store.
Started(store) == IF store THEN {CHOOSE w \in Workers : TRUE} ELSE Workers
Start(store) == [w \in Workers |-> IF w \in Started(store) THEN "get" ELSE "off"]

Init ==
    /\ has_store \in Spilling
    /\ next = 0
    /\ queue = <<>>
    /\ dropped = 0
    /\ pc = Start(has_store)
    /\ payload = [w \in Workers |-> None]
    /\ lines = [w \in Workers |-> <<>>]
    /\ cursor = [w \in Workers |-> 0]
    /\ delivered_count = [w \in Workers |-> 0]
    /\ file = <<>>
    /\ torn = FALSE
    /\ count = 0
    /\ faults = 0
    /\ received = {}
    /\ unconfirmed = {}
    /\ duplicates = {}
    /\ lost = [r \in Reasons |-> {}]

GiveUp(reason, ps) == lost' = [lost EXCEPT ![reason] = @ \cup ps]

----------------------------------------------------------------------------
\* submit

\* Mutant: the queue is built without its maxsize.
SubmitUnboundedMutant ==
    /\ queue' = Append(queue, next + 1)
    /\ UNCHANGED <<dropped, lost>>

SubmitQueued ==
    /\ Len(queue) < QueueMax
    /\ queue' = Append(queue, next + 1)
    /\ UNCHANGED <<dropped, lost>>

SubmitFull ==
    /\ Len(queue) >= QueueMax
    /\ dropped' = dropped + 1
    /\ GiveUp("full", {next + 1})
    /\ UNCHANGED queue

Submit ==
    /\ next < MaxPayloads
    /\ next' = next + 1
    /\ SubmitQueued \/ SubmitFull
    /\ UNCHANGED <<has_store, pc, payload, faults, drainVars, diskVars, backendVars>>

----------------------------------------------------------------------------
\* The HTTP request behind _publish: `ok` is its result.

Accept(p) ==
    /\ received' = received \cup {p}
    /\ duplicates' = duplicates \cup ({p} \cap received)

Publish(p, ok) ==
    \/ ok /\ Accept(p) /\ UNCHANGED unconfirmed
    \/ ~ok /\ UNCHANGED backendVars
    \/ ~ok /\ Accept(p) /\ unconfirmed' = unconfirmed \cup {p}

----------------------------------------------------------------------------
\* _run

Get(w) ==
    /\ pc[w] = "get"
    /\ queue # <<>>
    /\ payload' = [payload EXCEPT ![w] = Head(queue)]
    /\ queue' = Tail(queue)
    /\ pc' = [pc EXCEPT ![w] = "publish"]
    /\ UNCHANGED <<has_store, next, dropped, faults, lost, drainVars, diskVars,
                   backendVars>>

PublishLive(w) ==
    /\ pc[w] = "publish"
    /\ Publish(payload[w], TRUE)
    /\ pc' = [pc EXCEPT ![w] = IF has_store /\ count > 0 THEN "drain" ELSE "get"]
    /\ payload' = [payload EXCEPT ![w] = None]
    /\ UNCHANGED <<has_store, next, queue, dropped, faults, lost, drainVars, diskVars>>

PublishFailed(w) ==
    /\ pc[w] = "publish"
    /\ Publish(payload[w], FALSE)
    /\ IF has_store
       THEN /\ pc' = [pc EXCEPT ![w] = "spill"]
            /\ UNCHANGED <<payload, lost>>
       ELSE /\ pc' = [pc EXCEPT ![w] = "get"]
            /\ payload' = [payload EXCEPT ![w] = None]
            /\ GiveUp("undelivered", {payload[w]})
    /\ UNCHANGED <<has_store, next, queue, dropped, faults, drainVars, diskVars>>

----------------------------------------------------------------------------
\* DiskSpillStore.append

\* Mutant: the newest payload is written in front.
WrittenInFrontMutant(p) ==
    IF torn THEN [file EXCEPT ![Len(file)] = Corrupt] ELSE <<p>> \o file

\* The file with p's line written.  On a torn last line the new text joins it,
\* and the joined line no longer decodes.
Written(p) == IF torn THEN [file EXCEPT ![Len(file)] = Corrupt] ELSE Append(file, p)

\* Payloads that stop being on disk when p is written: the joined ones.
Joined(p) == IF torn THEN {p, file[Len(file)]} \ {Corrupt} ELSE {}

MustCompact(n) == 10 * n > 11 * MaxEntries

Newest(ls) == IF Len(ls) > MaxEntries
              THEN SubSeq(ls, Len(ls) - MaxEntries + 1, Len(ls)) ELSE ls

\* _read_lines_locked returns [] when the read raises OSError.
ReadLines(ls) == IF ReadFaults THEN {ls, <<>>} ELSE {ls}

SpillKept(w) ==
    /\ ~MustCompact(count + 1)
    /\ file' = Written(payload[w])
    /\ count' = count + 1
    /\ GiveUp("torn", Joined(payload[w]))

\* _compact_locked: the file is read back and its newest lines replace it.
SpillCompact(w) ==
    /\ MustCompact(count + 1)
    /\ \E read \in ReadLines(Written(payload[w])) :
          /\ file' = Newest(read)
          /\ count' = Len(Newest(read))
          /\ lost' = [lost EXCEPT !["torn"] = @ \cup Joined(payload[w]),
                                  !["trim"] = @ \cup (Entries(read) \ Entries(Newest(read)))]

Spill(w) ==
    /\ pc[w] = "spill"
    /\ SpillKept(w) \/ SpillCompact(w)
    /\ torn' = FALSE
    /\ pc' = [pc EXCEPT ![w] = "get"]
    /\ payload' = [payload EXCEPT ![w] = None]
    /\ UNCHANGED <<has_store, next, queue, dropped, faults, drainVars, backendVars>>

\* What a write of p's line leaves when it stops half way: nothing, a part of
\* the line, the line without its line break, or the whole line.
Interrupted(p) ==
    {<<file, torn>>,
     <<IF torn THEN Written(p) ELSE Append(file, Corrupt), TRUE>>,
     <<Written(p), TRUE>>,
     <<Written(p), FALSE>>}

\* OSError out of append: it is not caught, and the worker thread ends.  When
\* only the compaction fails the line is on disk and counted.
SpillFails(w) ==
    /\ DiskFaults
    /\ faults < MaxFaults
    /\ pc[w] = "spill"
    /\ faults' = faults + 1
    /\ \E i \in Interrupted(payload[w]) :
          /\ file' = i[1]
          /\ torn' = i[2]
          /\ \/ UNCHANGED count
             \/ /\ i = <<Written(payload[w]), FALSE>>
                /\ MustCompact(count + 1)
                /\ count' = count + 1
          /\ GiveUp("disk", (Entries(file) \cup {payload[w]}) \ Entries(file'))
    /\ pc' = [pc EXCEPT ![w] = "dead"]
    /\ payload' = [payload EXCEPT ![w] = None]
    /\ UNCHANGED <<has_store, next, queue, dropped, drainVars, backendVars>>

----------------------------------------------------------------------------
\* _drain_spill_backlog

\* peek_batch reads the file; its lines are decoded as the replay reaches them.
Peek(w) ==
    /\ pc[w] = "drain"
    /\ \E read \in ReadLines(file) : lines' = [lines EXCEPT ![w] = read]
    /\ cursor' = [cursor EXCEPT ![w] = 0]
    /\ delivered_count' = [delivered_count EXCEPT ![w] = 0]
    /\ pc' = [pc EXCEPT ![w] = "replay"]
    /\ UNCHANGED <<has_store, next, queue, dropped, payload, faults, lost, diskVars,
                   backendVars>>

\* i is the line of the next item of the batch.
IsNextItem(w, i) ==
    /\ delivered_count[w] < BatchSize
    /\ i \in DOMAIN lines[w]
    /\ i > cursor[w]
    /\ lines[w][i] # Corrupt
    /\ \A j \in DOMAIN lines[w] : j > cursor[w] /\ j < i => lines[w][j] = Corrupt

\* Mutant: the replay goes on behind an item that failed.
ReplaySkipsMutant(w) ==
    /\ pc[w] = "replay"
    /\ \E i \in DOMAIN lines[w] :
          /\ IsNextItem(w, i)
          /\ cursor' = [cursor EXCEPT ![w] = i]
          /\ \/ /\ Publish(lines[w][i], TRUE)
                /\ delivered_count' = [delivered_count EXCEPT ![w] = @ + 1]
             \/ /\ Publish(lines[w][i], FALSE)
                /\ UNCHANGED delivered_count
          /\ UNCHANGED pc
    /\ UNCHANGED <<has_store, next, queue, dropped, payload, lines, faults, lost, diskVars>>

\* Mutant: the drain starts over when an item failed.
ReplayInsistsMutant(w) ==
    /\ pc[w] = "replay"
    /\ \E i \in DOMAIN lines[w] :
          /\ IsNextItem(w, i)
          /\ \/ /\ Publish(lines[w][i], TRUE)
                /\ cursor' = [cursor EXCEPT ![w] = i]
                /\ delivered_count' = [delivered_count EXCEPT ![w] = @ + 1]
                /\ UNCHANGED pc
             \/ /\ Publish(lines[w][i], FALSE)
                /\ pc' = [pc EXCEPT ![w] = "drain"]
                /\ UNCHANGED <<cursor, delivered_count>>
    /\ UNCHANGED <<has_store, next, queue, dropped, payload, lines, faults, lost, diskVars>>

ReplayItem(w) ==
    /\ pc[w] = "replay"
    /\ \E i \in DOMAIN lines[w] :
          /\ IsNextItem(w, i)
          /\ \/ /\ Publish(lines[w][i], TRUE)
                /\ cursor' = [cursor EXCEPT ![w] = i]
                /\ delivered_count' = [delivered_count EXCEPT ![w] = @ + 1]
                /\ UNCHANGED pc
             \/ /\ Publish(lines[w][i], FALSE)
                /\ pc' = [pc EXCEPT ![w] = "discard"]
                /\ UNCHANGED <<cursor, delivered_count>>
    /\ UNCHANGED <<has_store, next, queue, dropped, payload, lines, faults, lost, diskVars>>

ReplayEnd(w) ==
    /\ pc[w] = "replay"
    /\ ~ \E i \in DOMAIN lines[w] : IsNextItem(w, i)
    /\ pc' = [pc EXCEPT ![w] = "discard"]
    /\ UNCHANGED <<has_store, next, queue, dropped, payload, faults, lost, drainVars,
                   diskVars, backendVars>>

\* Mutant: one line too many is cut.
IsCutLateMutant(ls, n, c) == c = (IF n < Len(ls) THEN n + 1 ELSE Len(ls))

\* Mutant: one line too few is cut.
IsCutEarlyMutant(ls, n, c) == c = n - 1

\* discard_batch re-reads the file and cuts it behind the n-th decodable line;
\* with fewer than n of them nothing is left.
IsCut(ls, n, c) ==
    \/ /\ c \in DOMAIN ls
       /\ ls[c] # Corrupt
       /\ Cardinality(ValidUpTo(ls, c)) = n
    \/ /\ c = Len(ls)
       /\ Cardinality(ValidUpTo(ls, Len(ls))) < n

Discard(w) ==
    /\ pc[w] = "discard"
    /\ IF delivered_count[w] = 0
       THEN UNCHANGED diskVars
       ELSE \E read \in ReadLines(file) : \E c \in 0..Len(read) :
               /\ IsCut(read, delivered_count[w], c)
               /\ file' = SubSeq(read, c + 1, Len(read))
               /\ torn' = FALSE
               /\ count' = Len(read) - c
    /\ pc' = [pc EXCEPT ![w] = "get"]
    /\ UNCHANGED <<has_store, next, queue, dropped, payload, faults, lost, drainVars,
                   backendVars>>

\* OSError while the shortened file is written or put in place.
DiscardFails(w) ==
    /\ DiskFaults
    /\ faults < MaxFaults
    /\ pc[w] = "discard"
    /\ delivered_count[w] > 0
    /\ faults' = faults + 1
    /\ pc' = [pc EXCEPT ![w] = "dead"]
    /\ UNCHANGED <<has_store, next, queue, dropped, payload, lost, drainVars, diskVars,
                   backendVars>>

----------------------------------------------------------------------------
\* The process ends and is started again: the memory is gone, the new store
\* counts the lines it finds.

InFlight == {payload[w] : w \in Workers} \ {None}
Queued == {queue[i] : i \in DOMAIN queue}

CrashDisk ==
    \/ UNCHANGED <<file, torn>>
    \/ \E w \in Workers :
          /\ pc[w] = "spill"
          /\ \E i \in Interrupted(payload[w]) : file' = i[1] /\ torn' = i[2]

Restart ==
    /\ faults < MaxFaults
    /\ faults' = faults + 1
    /\ CrashDisk
    /\ \E read \in ReadLines(file') : count' = Len(read)
    /\ GiveUp("crash", (Queued \cup InFlight \cup Entries(file)) \ Entries(file'))
    /\ queue' = <<>>
    /\ dropped' = 0
    /\ pc' = Start(has_store)
    /\ payload' = [w \in Workers |-> None]
    /\ lines' = [w \in Workers |-> <<>>]
    /\ cursor' = [w \in Workers |-> 0]
    /\ delivered_count' = [w \in Workers |-> 0]
    /\ UNCHANGED <<has_store, next, backendVars>>

----------------------------------------------------------------------------
Worker(w) ==
    \/ Get(w) \/ PublishLive(w) \/ PublishFailed(w)
    \/ Spill(w) \/ SpillFails(w)
    \/ Peek(w) \/ ReplayItem(w) \/ ReplayEnd(w)
    \/ Discard(w) \/ DiscardFails(w)

Next == Submit \/ (\E w \in Workers : Worker(w)) \/ Restart

Spec == Init /\ [][Next]_vars

\* The workers run: urlopen has a timeout, so every publish returns.
FairSpec == Spec /\ \A w \in Workers : WF_vars(Worker(w))
----------------------------------------------------------------------------
\* Properties

Steps == {"off", "get", "publish", "spill", "drain", "replay", "discard", "dead"}

\* The variables have the types the code gives them; the queue never exceeds
\* its maxsize and only a store leaves lines on disk.
TypeOK ==
    /\ has_store \in Spilling
    /\ next \in 0..MaxPayloads
    /\ queue \in Seq(Payload)
    /\ Len(queue) <= QueueMax
    /\ dropped \in Nat
    /\ pc \in [Workers -> Steps]
    /\ payload \in [Workers -> Nat]
    /\ lines \in [Workers -> Seq(Nat)]
    /\ cursor \in [Workers -> Nat]
    /\ delivered_count \in [Workers -> Nat]
    /\ file \in Seq(Nat)
    /\ torn \in BOOLEAN
    /\ count \in Nat
    /\ faults \in 0..MaxFaults
    /\ received \subseteq Payload
    /\ unconfirmed \subseteq Payload
    /\ duplicates \subseteq Payload
    /\ lost \in [Reasons -> SUBSET Payload]
    /\ ~has_store => file = <<>>

GivenUp == UNION {lost[r] : r \in Reasons}

\* Every payload handed to submit is waiting in the queue, in a worker's hands,
\* on disk, or was accepted by the backend; otherwise it was given up for one of
\* the reasons the code knows: the queue was full, there is no store, the store
\* trimmed its oldest lines, a torn line, a disk error or the end of the process.
\* In particular discard_batch never removes a payload that was not delivered.
NoSilentLoss ==
    1..next \subseteq Queued \cup InFlight \cup Entries(file) \cup received \cup GivenUp

\* The payloads on disk are in the order of submission, each at most once, and
\* older than those in a worker's hands and in the queue: "replay them in order".
BacklogInOrder ==
    has_store =>
      /\ \A i, j \in DOMAIN file :
            i < j /\ file[i] # Corrupt /\ file[j] # Corrupt => file[i] < file[j]
      /\ \A p \in Entries(file), q \in InFlight \cup Queued : p < q
      /\ \A p \in InFlight, q \in Queued : p < q
      /\ \A i, j \in DOMAIN queue : i < j => queue[i] < queue[j]

\* The file stays within 110% of max_entries, plus one line for every append
\* that was cut short before it could compact.
BacklogBounded == 10 * Len(file) <= 11 * MaxEntries + 10 * faults

\* While the worker runs, payloads on disk are never hidden from is_empty, so
\* the next live success replays them.
BacklogVisible ==
    (\A w \in Workers : pc[w] # "dead") /\ Entries(file) # {} => count > 0

\* A torn line costs at most two payloads: the one it carries and the one that
\* joins it.
TornLineBounded == Cardinality(lost["torn"]) <= 2 * faults

\* The backlog on disk is ordered, bounded, never hidden and loses little to a torn line,
\* through any sequence of spills, compactions, replays, disk errors and crashes.
BacklogSound == BacklogInOrder /\ BacklogBounded /\ BacklogVisible /\ TornLineBounded

\* Without crashes and disk faults the backend accepts a payload twice only
\* when the engine could not know that it was accepted the first time.
NoDuplicateDelivery == faults = 0 => duplicates \subseteq unconfirmed

\* _drain_spill_backlog: "only the confirmed-delivered prefix is discarded from
\* disk; everything from the first failure onward stays spilled".
DiscardsOnlyDelivered ==
    [][\A w \in Workers : pc[w] = "discard" /\ pc'[w] = "get" =>
          Entries(file) \ Entries(file') \subseteq
             {lines[w][i] : i \in 1..cursor[w]} \cap (received \ {Corrupt})]_vars

\* Compaction gives up the oldest payloads first: what stays on disk is newer
\* than what is trimmed.
TrimsOldestFirst ==
    [][\A p \in lost'["trim"] \ lost["trim"] : \A q \in Entries(file') : p < q]_vars

\* What leaves the disk was delivered, was the oldest beyond the limit, or was torn.
RemovalsSound == DiscardsOnlyDelivered /\ TrimsOldestFirst

\* A live payload is not starved: the queue is emptied again and again, however
\* large the backlog, unless the worker has ended on a disk error.
QueueServed == (queue # <<>>) ~> (queue = <<>> \/ \E w \in Workers : pc[w] = "dead")
============================================================================
