------------------------ MODULE EngineRuntimeProofs ------------------------
(***************************************************************************)
(* What can end the engine through the activity tracker, for every number  *)
(* of addresses, every limit and every bound.                              *)
(***************************************************************************)
EXTENDS EngineRuntime, FiniteSetTheorems, SequenceTheorems, TLAPS

Fields == {"pc", "keys", "victims", "lines"}

\* The frames are records, and the histories cover what the threads do.
FramesOK ==
    /\ DOMAIN frame = Threads
    /\ \A t \in Threads : DOMAIN frame[t] = Fields
    /\ callers \subseteq Threads
    /\ \A t \in Threads : At(t, "ready") \/ t \in callers

TrackedTouched == tracked \subseteq touched /\ touched \subseteq Ips

\* A thread that sorts has found more addresses than are kept, and its keys are still there
\* unless the other thread has called as well.
SortOK ==
    \A t \in Threads : At(t, "sort") =>
        /\ Cardinality(touched) > MaxTracked
        /\ frame[t].keys \subseteq tracked \/ callers = Threads

RaisedOK ==
    \A t \in Threads : At(t, "raised") =>
        write_failed \/ (callers = Threads /\ Cardinality(touched) > MaxTracked)

IInv == FramesOK /\ TrackedTouched /\ SortOK /\ RaisedOK

-----------------------------------------------------------------------------
\* More addresses are no fewer: cardinalities of sets of addresses are ordered by inclusion.
LEMMA CardinalityGrows ==
    ASSUME NEW S, NEW U, S \subseteq U, U \subseteq Ips
    PROVE  /\ Cardinality(S) \in Nat /\ Cardinality(U) \in Nat
           /\ Cardinality(S) <= Cardinality(U)
<1>1. IsFiniteSet(U) BY FS_Subset, TrackerAssumption
<1>2. IsFiniteSet(S) /\ Cardinality(S) <= Cardinality(U) BY <1>1, FS_Subset
<1> QED BY <1>1, <1>2, FS_CardinalityType

\* There are two threads: when both have called, all have.
LEMMA BothCalled ==
    ASSUME callers \subseteq Threads, NEW t \in callers, NEW u \in callers, t # u
    PROVE  callers = Threads
BY RuntimeAssumption

\* A step of one thread that neither begins to sort nor raises, and leaves the dictionary
\* alone, keeps the invariant.
LEMMA QuietStep ==
    ASSUME IInv, NEW t \in callers,
           UNCHANGED <<tracked, touched, callers, write_failed>>,
           DOMAIN frame' = Threads, DOMAIN frame'[t] = Fields,
           \A u \in Threads \ {t} : frame'[u] = frame[u],
           frame'[t].pc \notin {"sort", "raised"}
    PROVE  IInv'
<1>1. FramesOK' /\ TrackedTouched' BY DEF IInv, FramesOK, TrackedTouched, At
<1>2. SortOK' BY DEF IInv, FramesOK, SortOK, At
<1>3. RaisedOK' BY DEF IInv, FramesOK, RaisedOK, At
<1> QED BY <1>1, <1>2, <1>3 DEF IInv

\* Steps that do not concern the tracker.
LEMMA OtherSteps ==
    ASSUME IInv, UNCHANGED <<tracked, touched, callers, write_failed, frame>>
    PROVE  IInv'
BY DEF IInv, FramesOK, TrackedTouched, SortOK, RaisedOK, At

LEMMA InitIInv == Init => IInv
<1> SUFFICES ASSUME Init PROVE IInv OBVIOUS
<1>1. \A t \in Threads : frame[t].pc = "ready" /\ DOMAIN frame[t] = Fields
      BY DEF Init, TrackerInit, Ready, Fields
<1>2. DOMAIN frame = Threads /\ tracked = {} /\ touched = {} /\ callers = {}
      BY DEF Init, TrackerInit
<1> QED BY <1>1, <1>2 DEF IInv, FramesOK, TrackedTouched, SortOK, RaisedOK, At

LEMMA TouchStep ==
    ASSUME IInv, NEW t \in Threads, NEW ip \in Ips, Touch(t, ip) PROVE IInv'
<1>1. /\ tracked' = tracked \cup {ip} /\ touched' = touched \cup {ip}
      /\ callers' = callers \cup {t} /\ write_failed' = write_failed
      /\ frame' = [frame EXCEPT ![t].pc = "prune"]
      BY DEF Touch, Go
<1>2. /\ DOMAIN frame' = Threads /\ \A u \in Threads : DOMAIN frame'[u] = Fields
      /\ frame'[t].pc = "prune" /\ \A u \in Threads \ {t} : frame'[u] = frame[u]
      BY <1>1 DEF IInv, FramesOK, Fields
<1>3. FramesOK' /\ TrackedTouched'
      BY <1>1, <1>2 DEF IInv, FramesOK, TrackedTouched, At
<1>4. Cardinality(touched') \in Nat /\ Cardinality(touched) \in Nat
      /\ Cardinality(touched) <= Cardinality(touched')
      BY <1>1, <1>3, CardinalityGrows DEF TrackedTouched
<1>5. callers = Threads => callers' = Threads BY <1>1
<1>6. MaxTracked \in Nat BY TrackerAssumption
<1>7. SortOK'
      BY <1>1, <1>2, <1>4, <1>5, <1>6 DEF IInv, SortOK, At
<1>8. RaisedOK'
      BY <1>1, <1>2, <1>4, <1>5, <1>6 DEF IInv, RaisedOK, At
<1> QED BY <1>3, <1>7, <1>8 DEF IInv

LEMMA PruneStep ==
    ASSUME IInv, NEW t \in Threads, Prune(t) PROVE IInv'
<1>1. t \in callers BY DEF Prune, IInv, FramesOK, At
<1>2. UNCHANGED <<tracked, touched, callers, write_failed>> BY DEF Prune
<1>3. CASE Overflow <= 0
  <2>1. frame' = [frame EXCEPT ![t].pc = "append"] BY <1>3 DEF Prune, Go
  <2> QED BY <1>1, <1>2, <2>1, QuietStep DEF IInv, FramesOK, Fields
<1>4. CASE ~(Overflow <= 0)
  <2>1. frame' = [frame EXCEPT ![t] = [Ready EXCEPT !.pc = "sort", !.keys = tracked,
                                                    !.victims = Overflow]]
        BY <1>4 DEF Prune
  <2>2. /\ DOMAIN frame' = Threads /\ \A u \in Threads : DOMAIN frame'[u] = Fields
        /\ frame'[t].pc = "sort" /\ frame'[t].keys = tracked
        /\ \A u \in Threads \ {t} : frame'[u] = frame[u]
        BY <2>1 DEF IInv, FramesOK, Fields, Ready
  <2>3. Cardinality(tracked) \in Nat /\ Cardinality(touched) \in Nat
        /\ Cardinality(tracked) <= Cardinality(touched)
        BY CardinalityGrows DEF IInv, TrackedTouched
  <2>4. Cardinality(touched) > MaxTracked
        BY <1>4, <2>3, TrackerAssumption DEF Overflow
  <2>5. FramesOK' /\ TrackedTouched'
        BY <1>1, <1>2, <2>2 DEF IInv, FramesOK, TrackedTouched, At
  <2>6. SortOK' BY <1>2, <2>2, <2>4 DEF IInv, SortOK, At
  <2>7. RaisedOK' BY <1>2, <2>2 DEF IInv, RaisedOK, At
  <2> QED BY <2>5, <2>6, <2>7 DEF IInv
<1> QED BY <1>3, <1>4

\* KeyError: some key is gone, so the other thread has called, and the addresses were too many.
LEMMA SortStep ==
    ASSUME IInv, NEW t \in Threads, SortKeys(t) PROVE IInv'
<1>1. t \in callers /\ At(t, "sort") BY DEF SortKeys, IInv, FramesOK, At
<1>2. UNCHANGED <<tracked, touched, callers, write_failed>> BY DEF SortKeys
<1>3. CASE ~(frame[t].keys \subseteq tracked) /\ Raise(t)
  <2>1. callers = Threads /\ Cardinality(touched) > MaxTracked
        BY <1>1, <1>3 DEF IInv, SortOK
  <2>2. /\ DOMAIN frame' = Threads /\ \A u \in Threads : DOMAIN frame'[u] = Fields
        /\ frame'[t].pc = "raised" /\ \A u \in Threads \ {t} : frame'[u] = frame[u]
        BY <1>3 DEF Raise, IInv, FramesOK, Fields, Ready
  <2>3. FramesOK' /\ TrackedTouched'
        BY <1>1, <1>2, <2>2 DEF IInv, FramesOK, TrackedTouched, At
  <2>4. SortOK' BY <1>2, <2>2 DEF IInv, SortOK, At
  <2>5. RaisedOK' BY <1>2, <2>1 DEF RaisedOK
  <2> QED BY <2>3, <2>4, <2>5 DEF IInv
<1>4. ASSUME NEW oldest, frame' = [frame EXCEPT ![t].pc = "pop", ![t].keys = oldest]
      PROVE  IInv'
  <2>1. /\ DOMAIN frame' = Threads /\ DOMAIN frame'[t] = Fields /\ frame'[t].pc = "pop"
        /\ \A u \in Threads \ {t} : frame'[u] = frame[u]
        BY <1>4 DEF IInv, FramesOK, Fields
  <2> QED BY <1>1, <1>2, <2>1, QuietStep
<1> QED BY <1>3, <1>4 DEF SortKeys

\* An address goes: a thread that sorts is another one, so both have called.
LEMMA PopStep ==
    ASSUME IInv, NEW t \in Threads, Pop(t) PROVE IInv'
<1>1. t \in callers /\ At(t, "pop") BY DEF Pop, IInv, FramesOK, At
<1>2. UNCHANGED <<touched, callers, write_failed>> BY DEF Pop
<1>3. PICK ip \in frame[t].keys :
        /\ tracked' = tracked \ {ip}
        /\ frame' = [frame EXCEPT ![t].keys = @ \ {ip},
                                  ![t].pc = IF frame[t].keys = {ip} THEN "append" ELSE "pop"]
      BY DEF Pop
<1>4. /\ DOMAIN frame' = Threads /\ \A u \in Threads : DOMAIN frame'[u] = Fields
      /\ frame'[t].pc \in {"append", "pop"} /\ \A u \in Threads \ {t} : frame'[u] = frame[u]
      BY <1>3 DEF IInv, FramesOK, Fields
<1>5. FramesOK' /\ TrackedTouched'
      BY <1>1, <1>2, <1>3, <1>4 DEF IInv, FramesOK, TrackedTouched, At
<1>6. SortOK'
  <2> SUFFICES ASSUME NEW u \in Threads, frame'[u].pc = "sort"
               PROVE  Cardinality(touched) > MaxTracked /\ callers = Threads
      BY <1>2 DEF SortOK, At
  <2>1. u # t /\ frame[u].pc = "sort" BY <1>4
  <2>2. u \in callers BY <2>1 DEF IInv, FramesOK, At
  <2>3. callers = Threads BY <1>1, <2>1, <2>2, BothCalled DEF IInv, FramesOK
  <2> QED BY <2>1, <2>3 DEF IInv, SortOK, At
<1>7. RaisedOK' BY <1>2, <1>4 DEF IInv, RaisedOK, At
<1> QED BY <1>5, <1>6, <1>7 DEF IInv

LEMMA WriteFailsStep ==
    ASSUME IInv, NEW t \in Threads, WriteFails(t) PROVE IInv'
<1>1. t \in callers BY DEF WriteFails, IInv, FramesOK, At
<1>2. UNCHANGED <<tracked, touched, callers>> /\ write_failed' = TRUE BY DEF WriteFails
<1>3. /\ DOMAIN frame' = Threads /\ \A u \in Threads : DOMAIN frame'[u] = Fields
      /\ frame'[t].pc = "raised" /\ \A u \in Threads \ {t} : frame'[u] = frame[u]
      BY DEF WriteFails, Raise, IInv, FramesOK, Fields, Ready
<1>4. FramesOK' /\ TrackedTouched'
      BY <1>1, <1>2, <1>3 DEF IInv, FramesOK, TrackedTouched, At
<1>5. SortOK' BY <1>2, <1>3 DEF IInv, SortOK, At
<1>6. RaisedOK' BY <1>2 DEF RaisedOK
<1> QED BY <1>4, <1>5, <1>6 DEF IInv

LEMMA RecordActivityStep ==
    ASSUME IInv, NEW t \in Threads, RecordActivity(t) PROVE IInv'
<1>0. /\ DOMAIN frame = Threads /\ DOMAIN frame[t] = Fields
      BY DEF IInv, FramesOK
<1>1. CASE Prune(t) BY <1>1, PruneStep
<1>2. CASE SortKeys(t) BY <1>2, SortStep
<1>3. CASE Pop(t) BY <1>3, PopStep
<1>4. CASE AppendRecord(t)
  <2>1. t \in callers BY <1>4 DEF AppendRecord, IInv, FramesOK, At
  <2>2. frame' = [frame EXCEPT ![t].pc = "count"] BY <1>4 DEF AppendRecord, Go
  <2> QED BY <1>0, <1>4, <2>1, <2>2, QuietStep DEF AppendRecord, Fields
<1>5. CASE Count(t)
  <2>1. t \in callers BY <1>5 DEF Count, IInv, FramesOK, At
  <2>2. frame' = [frame EXCEPT ![t].pc = "check"] BY <1>5 DEF Count, Go
  <2> QED BY <1>0, <1>5, <2>1, <2>2, QuietStep DEF Count, Fields
<1>6. CASE Check(t)
  <2>1. t \in callers BY <1>6 DEF Check, IInv, FramesOK, At
  <2>2. frame' = [frame EXCEPT ![t] = Ready] \/ frame' = [frame EXCEPT ![t].pc = "read"]
        BY <1>6 DEF Check, Go, Return
  <2> QED BY <1>0, <1>6, <2>1, <2>2, QuietStep DEF Check, Fields, Ready
<1>7. CASE ReadLines(t)
  <2>1. t \in callers BY <1>7 DEF ReadLines, IInv, FramesOK, At
  <2>2. \/ frame' = [frame EXCEPT ![t] = Ready]
        \/ frame' = [frame EXCEPT ![t].pc = "truncate", ![t].lines = Retained]
        BY <1>7 DEF ReadLines, Return
  <2>3. DOMAIN frame' = Threads /\ DOMAIN frame'[t] = Fields
        /\ frame'[t].pc \notin {"sort", "raised"}
        /\ \A u \in Threads \ {t} : frame'[u] = frame[u]
        BY <1>0, <2>2 DEF Fields, Ready
  <2> QED BY <1>7, <2>1, <2>3, QuietStep DEF ReadLines
<1>8. CASE Truncate(t)
  <2>1. t \in callers BY <1>8 DEF Truncate, IInv, FramesOK, At
  <2>2. frame' = [frame EXCEPT ![t].pc = "rewrite"] BY <1>8 DEF Truncate, Go
  <2> QED BY <1>0, <1>8, <2>1, <2>2, QuietStep DEF Truncate, Fields
<1>9. CASE Rewrite(t)
  <2>1. t \in callers BY <1>9 DEF Rewrite, IInv, FramesOK, At
  <2>2. frame' = [frame EXCEPT ![t] = Ready] BY <1>9 DEF Rewrite, Return
  <2> QED BY <1>0, <1>9, <2>1, <2>2, QuietStep DEF Rewrite, Fields, Ready
<1>10. CASE ReadFails(t)
  <2>1. t \in callers BY <1>10 DEF ReadFails, IInv, FramesOK, At
  <2>2. frame' = [frame EXCEPT ![t] = Ready] BY <1>10 DEF ReadFails, Return
  <2> QED BY <1>0, <1>10, <2>1, <2>2, QuietStep DEF ReadFails, Fields, Ready
<1>11. CASE WriteFails(t) BY <1>11, WriteFailsStep
<1> QED BY <1>1, <1>2, <1>3, <1>4, <1>5, <1>6, <1>7, <1>8, <1>9, <1>10, <1>11
        DEF RecordActivity

LEMMA NextIInv == ASSUME IInv, [Next]_vars PROVE IInv'
<1>1. CASE Tick
      BY <1>1, OtherSteps DEF Tick, tracker_vars
<1>2. CASE Capture
      BY <1>2, OtherSteps DEF Capture, RecordReceived, Put, RecordDropped, OnlyCapture, tracker_vars
<1>3. CASE Consume
  <2>1. CASE Get BY <2>1, OtherSteps DEF Get, tracker_vars
  <2>2. ASSUME NEW ip \in Ips, ProcessRecords(ip) PROVE IInv'
        BY <2>2, TouchStep, RuntimeAssumption DEF ProcessRecords
  <2>3. CASE ProcessReturns BY <2>3, OtherSteps DEF ProcessReturns, tracker_vars
  <2>4. CASE ConsumerEnds BY <2>4, OtherSteps DEF ConsumerEnds, tracker_vars
  <2> QED BY <1>3, <2>1, <2>2, <2>3, <2>4 DEF Consume
<1>4. CASE Command
  <2>1. ASSUME NEW ip \in Ips, ApplyRecords(ip) PROVE IInv'
        BY <2>1, TouchStep, RuntimeAssumption DEF ApplyRecords
  <2>2. CASE Reconnect
    <3>1. Commander \in Threads BY RuntimeAssumption
    <3>2. Commander \in callers BY <2>2, <3>1 DEF Reconnect, IInv, FramesOK, At
    <3>3. frame' = [frame EXCEPT ![Commander] = Ready] BY <2>2 DEF Reconnect, Return
    <3>4. DOMAIN frame' = Threads /\ DOMAIN frame'[Commander] = Fields
          /\ frame'[Commander].pc = "ready"
          /\ \A u \in Threads \ {Commander} : frame'[u] = frame[u]
          BY <3>1, <3>3 DEF IInv, FramesOK, Fields, Ready
    <3> QED BY <2>2, <3>2, <3>4, QuietStep DEF Reconnect
  <2> QED BY <1>4, <2>1, <2>2 DEF Command
<1>5. CASE Recording
      BY <1>5, RecordActivityStep DEF Recording
<1>6. CASE Telemetry
      BY <1>6, OtherSteps DEF Telemetry, SnapshotBegins, Snapshot, OnlyTelemetry, tracker_vars
<1>7. CASE Restart
  <2>1. tracked' = {} /\ touched' = {} /\ callers' = {} /\ frame' = [t \in Threads |-> Ready]
        BY <1>7 DEF Restart, TrackerEnds
  <2>2. DOMAIN frame' = Threads
        /\ \A t \in Threads : frame'[t].pc = "ready" /\ DOMAIN frame'[t] = Fields
        BY <2>1 DEF Ready, Fields
  <2> QED BY <2>1, <2>2 DEF IInv, FramesOK, TrackedTouched, SortOK, RaisedOK, At
<1>8. CASE UNCHANGED vars
      BY <1>8, OtherSteps DEF vars, tracker_vars
<1> QED BY <1>1, <1>2, <1>3, <1>4, <1>5, <1>6, <1>7, <1>8 DEF Next

\* record_activity raises, and so ends the packet consumer, only after a failed write or when
\* both threads have called it and more addresses were touched than it keeps.
THEOREM RaisesContended == Spec => []RaisesOnlyContended
<1>1. Init => IInv BY InitIInv
<1>2. IInv /\ [Next]_vars => IInv' BY NextIInv
<1>3. IInv => RaisesOnlyContended BY DEF IInv, RaisedOK, RaisesOnlyContended
<1> QED BY <1>1, <1>2, <1>3, PTL DEF Spec

-----------------------------------------------------------------------------
(* The file of records.  Its invariant counts: what was appended since the  *)
(* counter was reset, and what a thread on its way to a compaction has      *)
(* still to take away.                                                      *)

Steps == {"ready", "prune", "sort", "pop", "append", "count", "check", "read", "truncate",
          "rewrite", "raised"}

\* The steps of a call whose record is still to come.
Reserving == {"prune", "sort", "pop", "append"}

\* The number of threads at one of the steps pcs.
In(t, pcs) == IF frame[t].pc \in pcs THEN 1 ELSE 0
Num(pcs) == In(Consumer, pcs) + In(Commander, pcs)

RecordsTyped ==
    /\ tracked \subseteq Ips
    /\ file \in Seq(1..MaxRecords)
    /\ DOMAIN frame = Threads
    /\ \A t \in Threads : /\ DOMAIN frame[t] = Fields
                          /\ frame[t].pc \in Steps
                          /\ frame[t].lines \in Seq(1..MaxRecords)
                          /\ Len(frame[t].lines) <= MaxFileEntries
    /\ faults \in 0..MaxFaults /\ restarts \in Nat

\* Every thread that has yet to append has a record reserved, and what was counted was appended.
Counted ==
    /\ issued \in Nat /\ since \in Nat
    /\ issued + Num(Reserving) <= MaxRecords
    /\ since + Num({"count"}) <= issued

\* Threads that will take the file back to its size, unless an error stops them.
Compacting == Num({"read", "truncate"})
Debt == IF Compacting = 0 THEN 0 ELSE IF Compacting = 1 THEN Interval + 1 ELSE 2 * Interval + 1
Allowed == MaxFileEntries + (2 * Interval + 1) * restarts + 2 * Interval * faults

Grown ==
    /\ since < Interval + Num({"check"})
    /\ Compacting = 2 => since = 0
    /\ Len(file) <= Allowed + since + Num({"count"}) + Debt

\* HistoryKept, record by record.
Kept ==
    \A r \in 1..issued :
        \/ r \in ToSet(file) \/ r \in given_up
        \/ \E t \in Threads : At(t, "rewrite") /\ r \in ToSet(frame[t].lines)

\* What a thread is about to remove from the file it holds in its lines, or it is given up.
Covered ==
    /\ Kept
    /\ \A t \in Threads : At(t, "truncate") => ToSet(file) \subseteq ToSet(frame[t].lines) \cup given_up
    /\ \A t \in Threads : At(t, "rewrite") => ToSet(file) \subseteq given_up

Records == RecordsTyped /\ Counted /\ Grown /\ Covered

\* What appending does to a sequence and its elements.
LEMMA Appended ==
    ASSUME NEW S, NEW s \in Seq(S), NEW e \in S
    PROVE  /\ Append(s, e) \in Seq(S) /\ Len(Append(s, e)) = Len(s) + 1
           /\ ToSet(Append(s, e)) = ToSet(s) \cup {e}
<1> DEFINE a == Append(s, e)
<1>1. /\ a \in Seq(S) /\ Len(a) = Len(s) + 1
      /\ \A i \in 1..Len(s) : a[i] = s[i]
      /\ a[Len(s) + 1] = e
      BY AppendProperties
<1>2. Len(s) \in Nat /\ DOMAIN s = 1..Len(s) /\ DOMAIN a = 1..(Len(s) + 1)
      BY <1>1, LenProperties
<1> HIDE DEF a
<1>3. \A i \in DOMAIN a : i \in DOMAIN s \/ i = Len(s) + 1 BY <1>2
<1>4. Len(s) + 1 \in DOMAIN a /\ \A i \in DOMAIN s : i \in DOMAIN a BY <1>2
<1>5. ToSet(a) = ToSet(s) \cup {e} BY <1>1, <1>2, <1>3, <1>4 DEF ToSet
<1> QED BY <1>1, <1>5 DEF a

\* A piece of a sequence holds elements of it.
LEMMA Piece ==
    ASSUME NEW S, NEW s \in Seq(S), NEW m \in Nat \ {0}, NEW n \in Nat, n <= Len(s)
    PROVE  /\ SubSeq(s, m, n) \in Seq(S)
           /\ Len(SubSeq(s, m, n)) = IF m <= n THEN n - m + 1 ELSE 0
           /\ ToSet(SubSeq(s, m, n)) = {s[i] : i \in m..n}
<1> DEFINE p == SubSeq(s, m, n)
<1>1. Len(s) \in Nat /\ DOMAIN s = 1..Len(s) /\ \A i \in 1..Len(s) : s[i] \in S
      BY LenProperties
<1>2. \A i \in m..n : i \in 1..Len(s) BY <1>1
<1>3. /\ p \in Seq(S) /\ Len(p) = IF m <= n THEN n - m + 1 ELSE 0
      /\ \A i \in 1..(n - m + 1) : p[i] = s[m + i - 1]
      BY <1>1, <1>2, SubSeqProperties
<1>4. DOMAIN p = 1..Len(p) BY <1>3, LenProperties
<1>5. DOMAIN p = 1..(n - m + 1) BY <1>3, <1>4
<1> HIDE DEF p
<1>6. \A i \in m..n : i - m + 1 \in DOMAIN p /\ m + (i - m + 1) - 1 = i BY <1>5
<1>7. \A i \in m..n : p[i - m + 1] = s[i] BY <1>3, <1>5, <1>6
<1>8. \A i \in DOMAIN p : m + i - 1 \in m..n /\ p[i] = s[m + i - 1]
  <2>1. \A i \in 1..(n - m + 1) : m + i - 1 \in m..n OBVIOUS
  <2>2. \A i \in 1..(n - m + 1) : p[i] = s[m + i - 1] BY <1>3
  <2> QED BY <1>5, <2>1, <2>2, Zenon
<1>9. ToSet(p) = {s[i] : i \in m..n}
  <2>1. ToSet(p) \subseteq {s[i] : i \in m..n} BY <1>8 DEF ToSet
  <2>2. \A i \in m..n : s[i] \in ToSet(p)
    <3> SUFFICES ASSUME NEW i \in m..n PROVE s[i] \in ToSet(p) OBVIOUS
    <3>1. i - m + 1 \in DOMAIN p /\ s[i] = p[i - m + 1] BY <1>6, <1>7
    <3> QED BY <3>1 DEF ToSet
  <2> QED BY <2>1, <2>2
<1> QED BY <1>3, <1>9 DEF p

\* A compaction splits the file into the newest lines, as many as are kept, and the rest.
LEMMA RetainedLines ==
    ASSUME NEW S, file \in Seq(S), Len(file) > MaxFileEntries
    PROVE  /\ Retained \in Seq(S) /\ Len(Retained) <= MaxFileEntries
           /\ ToSet(file) \subseteq ToSet(Retained) \cup ToSet(SubSeq(file, 1, Len(file) - MaxFileEntries))
<1> DEFINE n == Len(file) - MaxFileEntries
<1>1. Len(file) \in Nat /\ DOMAIN file = 1..Len(file) BY LenProperties
<1>2. MaxFileEntries \in Nat BY TrackerAssumption
<1>3. n \in Nat /\ n <= Len(file) /\ n + 1 \in Nat \ {0} BY <1>1, <1>2
<1>4. /\ SubSeq(file, n + 1, Len(file)) \in Seq(S)
      /\ Len(SubSeq(file, n + 1, Len(file))) = IF n + 1 <= Len(file) THEN Len(file) - (n + 1) + 1 ELSE 0
      /\ ToSet(SubSeq(file, n + 1, Len(file))) = {file[i] : i \in (n + 1)..Len(file)}
      BY <1>1, <1>3, Piece
<1>5. ToSet(SubSeq(file, 1, n)) = {file[i] : i \in 1..n}
      BY <1>3, Piece
<1>6. \A i \in DOMAIN file : i \in 1..n \/ i \in (n + 1)..Len(file) BY <1>1, <1>3
<1>7. ToSet(file) \subseteq ToSet(SubSeq(file, n + 1, Len(file))) \cup ToSet(SubSeq(file, 1, n))
      BY <1>4, <1>5, <1>6 DEF ToSet
<1>8. Len(SubSeq(file, n + 1, Len(file))) <= MaxFileEntries BY <1>1, <1>2, <1>4
<1> QED BY <1>4, <1>7, <1>8 DEF Retained

\* Lines written from the beginning of a file are all there, with what they do not reach.
LEMMA OverwrittenLines ==
    ASSUME NEW S, file \in Seq(S), NEW lines \in Seq(S)
    PROVE  /\ Overwritten(lines) \in Seq(S)
           /\ Len(Overwritten(lines)) = IF Len(lines) <= Len(file) THEN Len(file) ELSE Len(lines)
           /\ ToSet(lines) \subseteq ToSet(Overwritten(lines))
           /\ ToSet(Overwritten(lines)) \subseteq ToSet(lines) \cup ToSet(file)
<1> DEFINE rest == SubSeq(file, Len(lines) + 1, Len(file))
           all == lines \o rest
<1>1. /\ Len(file) \in Nat /\ DOMAIN file = 1..Len(file)
      /\ Len(lines) \in Nat /\ DOMAIN lines = 1..Len(lines)
      BY LenProperties
<1>2. Len(lines) + 1 \in Nat \ {0} BY <1>1
<1>3. /\ rest \in Seq(S)
      /\ Len(rest) = IF Len(lines) + 1 <= Len(file) THEN Len(file) - (Len(lines) + 1) + 1 ELSE 0
      /\ ToSet(rest) = {file[i] : i \in (Len(lines) + 1)..Len(file)}
      BY <1>1, <1>2, Piece
<1>4. \A i \in (Len(lines) + 1)..Len(file) : i \in DOMAIN file BY <1>1
<1>5. ToSet(rest) \subseteq ToSet(file) BY <1>3, <1>4 DEF ToSet
<1>6. Len(rest) \in Nat /\ DOMAIN rest = 1..Len(rest) BY <1>3, LenProperties
<1> HIDE DEF rest
<1>7. /\ all \in Seq(S) /\ Len(all) = Len(lines) + Len(rest)
      /\ \A i \in 1..(Len(lines) + Len(rest)) :
            all[i] = IF i <= Len(lines) THEN lines[i] ELSE rest[i - Len(lines)]
      BY <1>3, ConcatProperties
<1>8. DOMAIN all = 1..(Len(lines) + Len(rest)) BY <1>7, LenProperties
<1> HIDE DEF all
<1>9. \A i \in DOMAIN lines : i \in DOMAIN all /\ all[i] = lines[i] BY <1>1, <1>6, <1>7, <1>8
<1>10. \A i \in DOMAIN all : \/ i \in DOMAIN lines /\ all[i] = lines[i]
                             \/ i - Len(lines) \in DOMAIN rest /\ all[i] = rest[i - Len(lines)]
       BY <1>1, <1>6, <1>7, <1>8
<1>11. ToSet(lines) \subseteq ToSet(all) BY <1>9 DEF ToSet
<1>12. ToSet(all) \subseteq ToSet(lines) \cup ToSet(rest) BY <1>10 DEF ToSet
<1>13. Len(all) = IF Len(lines) <= Len(file) THEN Len(file) ELSE Len(lines)
  <2>1. Len(file) \in Int /\ Len(lines) \in Int BY <1>1
  <2>2. Len(rest) = IF Len(lines) <= Len(file) THEN Len(file) - Len(lines) ELSE 0
        BY <1>3, <2>1
  <2> QED BY <1>7, <2>1, <2>2
<1> QED BY <1>5, <1>7, <1>11, <1>12, <1>13 DEF Overwritten, all, rest

\* There are two threads: what is true of Num is true of one thread and the other.
LEMMA TheOther ==
    ASSUME NEW t \in Threads
    PROVE  \E u \in Threads :
             /\ u # t /\ Threads = {t, u}
             /\ \A pcs : Num(pcs) = In(t, pcs) + In(u, pcs)
             /\ \A pcs : Num(pcs)' = In(t, pcs)' + In(u, pcs)'
<1>1. CASE t = Consumer
  <2>1. Threads = {t, Commander} /\ Commander # t BY <1>1, RuntimeAssumption
  <2>2. \A pcs : In(Consumer, pcs) \in Int /\ In(Commander, pcs) \in Int BY DEF In
  <2> QED BY <1>1, <2>1, <2>2 DEF Num, In
<1>2. CASE t # Consumer
  <2>1. t = Commander /\ Threads = {t, Consumer} BY <1>2, RuntimeAssumption
  <2>2. \A pcs : In(Consumer, pcs) + In(t, pcs) = In(t, pcs) + In(Consumer, pcs) BY DEF In
  <2>3. \A pcs : In(Consumer, pcs)' + In(t, pcs)' = In(t, pcs)' + In(Consumer, pcs)' BY DEF In
  <2> QED BY <1>2, <2>1, <2>2, <2>3 DEF Num
<1> QED BY <1>1, <1>2

LEMMA NumRange ==
    ASSUME NEW pcs PROVE Num(pcs) \in 0..2
BY DEF Num, In

\* The set whose size Touch looks at.
LEMMA ComingNumber == Cardinality(Coming) = Num(Reserving)
<1> DEFINE P == Reserving
<1>1. Consumer # Commander /\ Threads = {Consumer, Commander} BY RuntimeAssumption
<1>2. Coming = {t \in {Consumer, Commander} : frame[t].pc \in P} BY <1>1 DEF Coming, Reserving
<1>3. CASE frame[Consumer].pc \in P /\ frame[Commander].pc \in P
  <2>1. Coming = {Consumer, Commander} BY <1>2, <1>3
  <2>2. Cardinality(Coming) = 2
    <3>1. IsFiniteSet({Consumer}) /\ Cardinality({Consumer}) = 1 BY FS_Singleton
    <3>2. Cardinality({Consumer} \cup {Commander}) = Cardinality({Consumer}) + 1
          BY <1>1, <3>1, FS_AddElement
    <3>3. {Consumer} \cup {Commander} = Coming BY <2>1
    <3> QED BY <3>1, <3>2, <3>3
  <2> QED BY <1>3, <2>2 DEF Num, In
<1>4. CASE frame[Consumer].pc \in P /\ frame[Commander].pc \notin P
  <2>1. Coming = {Consumer} BY <1>1, <1>2, <1>4
  <2>2. Cardinality(Coming) = 1 BY <2>1, FS_Singleton
  <2> QED BY <1>4, <2>2 DEF Num, In
<1>5. CASE frame[Consumer].pc \notin P /\ frame[Commander].pc \in P
  <2>1. Coming = {Commander} BY <1>1, <1>2, <1>5
  <2>2. Cardinality(Coming) = 1 BY <2>1, FS_Singleton
  <2> QED BY <1>5, <2>2 DEF Num, In
<1>6. CASE frame[Consumer].pc \notin P /\ frame[Commander].pc \notin P
  <2>1. Coming = {} BY <1>2, <1>6
  <2> QED BY <1>6, <2>1, FS_EmptySet DEF Num, In
<1> QED BY <1>3, <1>4, <1>5, <1>6

Early == Reserving \cup {"ready", "raised"}

\* The steps of a thread that leave the other where it is.
OnlyMoves(t) ==
    /\ DOMAIN frame' = Threads /\ DOMAIN frame'[t] = Fields
    /\ \A u \in Threads \ {t} : frame'[u] = frame[u]

LEMMA OthersNumbers ==
    ASSUME NEW t \in Threads, OnlyMoves(t)
    PROVE  \E u \in Threads \ {t} :
             /\ Threads = {t, u}
             /\ frame'[u] = frame[u]
             /\ \A pcs : Num(pcs) = In(t, pcs) + In(u, pcs)
             /\ \A pcs : Num(pcs)' = In(t, pcs)' + In(u, pcs)
<1>1. PICK u \in Threads : /\ u # t /\ Threads = {t, u}
                           /\ \A pcs : Num(pcs) = In(t, pcs) + In(u, pcs)
                           /\ \A pcs : Num(pcs)' = In(t, pcs)' + In(u, pcs)'
      BY TheOther
<1>2. frame'[u] = frame[u] BY <1>1 DEF OnlyMoves
<1>3. \A pcs : In(u, pcs)' = In(u, pcs) BY <1>2 DEF In
<1> QED BY <1>1, <1>2, <1>3

\* A step before the record is written, or one that ends the call there.
LEMMA EarlyStep ==
    ASSUME Records, NEW t \in Threads, OnlyMoves(t),
           UNCHANGED <<file, since, issued, faults, restarts, given_up>>, tracked' \subseteq Ips,
           frame[t].pc \in Early, frame'[t].pc \in Early,
           frame'[t].lines \in {frame[t].lines, <<>>},
           (issued + Num(Reserving) <= MaxRecords)'
    PROVE  Records'
<1>1. PICK u \in Threads \ {t} :
             /\ Threads = {t, u}
             /\ frame'[u] = frame[u]
             /\ \A pcs : Num(pcs) = In(t, pcs) + In(u, pcs)
             /\ \A pcs : Num(pcs)' = In(t, pcs)' + In(u, pcs)
      BY OthersNumbers
<1>2. /\ In(t, {"count"}) = 0 /\ In(t, {"count"})' = 0
      /\ In(t, {"check"}) = 0 /\ In(t, {"check"})' = 0
      /\ In(t, {"read", "truncate"}) = 0 /\ In(t, {"read", "truncate"})' = 0
      BY DEF In, Early, Reserving
<1>3. /\ Num({"count"})' = Num({"count"}) /\ Num({"check"})' = Num({"check"})
      /\ Num({"read", "truncate"})' = Num({"read", "truncate"})
      BY <1>1, <1>2
<1>4. /\ <<>> \in Seq(1..MaxRecords) /\ Len(<<>>) = 0 /\ MaxFileEntries \in Nat
      BY TrackerAssumption
<1>5. RecordsTyped'
  <2>1. frame'[t].pc \in Steps BY DEF Early, Reserving, Steps
  <2>2. frame'[t].lines \in Seq(1..MaxRecords) /\ Len(frame'[t].lines) <= MaxFileEntries
    <3>1. CASE frame'[t].lines = <<>> BY <1>4, <3>1
    <3>2. CASE frame'[t].lines = frame[t].lines BY <3>2 DEF Records, RecordsTyped
    <3> QED BY <3>1, <3>2
  <2> QED BY <1>1, <2>1, <2>2 DEF Records, RecordsTyped, OnlyMoves
<1>6. Counted' BY <1>3 DEF Records, Counted
<1>7. Grown' BY <1>3 DEF Records, Grown, Debt, Compacting, Allowed
<1>8. Covered'
  <2>1. frame[t].pc \notin {"truncate", "rewrite"} /\ frame'[t].pc \notin {"truncate", "rewrite"}
        BY DEF Early, Reserving
  <2>2. \A v \in Threads : frame'[v] = frame[v] \/ v = t BY DEF OnlyMoves
  <2> QED BY <2>1, <2>2 DEF Records, Covered, Kept, At
<1> QED BY <1>5, <1>6, <1>7, <1>8 DEF Records

\* A call in progress may move on to its append: its record is reserved.
LEMMA Reserved ==
    ASSUME Records, NEW t \in Threads, OnlyMoves(t), issued' = issued,
           frame[t].pc \in Reserving \/ frame'[t].pc \notin Reserving
    PROVE  (issued + Num(Reserving) <= MaxRecords)'
<1>1. PICK u \in Threads \ {t} :
             /\ Num(Reserving) = In(t, Reserving) + In(u, Reserving)
             /\ Num(Reserving)' = In(t, Reserving)' + In(u, Reserving)
      BY OthersNumbers
<1>2. In(t, Reserving)' <= In(t, Reserving) BY DEF In
<1>3. /\ In(t, Reserving) \in 0..1 /\ In(t, Reserving)' \in 0..1 /\ In(u, Reserving) \in 0..1
      BY DEF In
<1>4. Num(Reserving)' <= Num(Reserving) /\ Num(Reserving) \in 0..2 /\ Num(Reserving)' \in 0..2
      BY <1>1, <1>2, <1>3
<1>5. issued \in Nat /\ issued + Num(Reserving) <= MaxRecords /\ MaxRecords \in Nat
      BY TrackerAssumption DEF Records, Counted
<1> QED BY <1>4, <1>5

LEMMA TouchRecords ==
    ASSUME Records, NEW t \in Threads, NEW ip \in Ips, Touch(t, ip), UNCHANGED restarts
    PROVE  Records'
<1>1. /\ frame[t].pc = "ready" /\ frame' = [frame EXCEPT ![t].pc = "prune"]
      /\ UNCHANGED <<file, since, issued, faults, given_up>> /\ tracked' \subseteq Ips
      BY DEF Touch, Go, At, Records, RecordsTyped
<1>2. OnlyMoves(t) /\ frame'[t].pc = "prune" /\ frame'[t].lines = frame[t].lines
      BY <1>1 DEF OnlyMoves, Records, RecordsTyped, Fields
<1>3. issued + Num(Reserving) < MaxRecords BY ComingNumber DEF Touch
<1>4. (issued + Num(Reserving) <= MaxRecords)'
  <2>1. PICK u \in Threads \ {t} :
             /\ Num(Reserving) = In(t, Reserving) + In(u, Reserving)
             /\ Num(Reserving)' = In(t, Reserving)' + In(u, Reserving)
        BY <1>2, OthersNumbers
  <2>2. In(t, Reserving) = 0 /\ In(t, Reserving)' = 1 /\ In(u, Reserving) \in 0..1
        BY <1>1, <1>2 DEF In, Reserving
  <2>3. issued \in Nat /\ MaxRecords \in Nat BY TrackerAssumption DEF Records, Counted
  <2> QED BY <1>1, <1>3, <2>1, <2>2, <2>3
<1>5. frame[t].pc \in Early /\ frame'[t].pc \in Early BY <1>1, <1>2 DEF Early, Reserving
<1> QED BY <1>1, <1>2, <1>4, <1>5, EarlyStep

LEMMA PruneRecords ==
    ASSUME Records, NEW t \in Threads, Prune(t), UNCHANGED restarts PROVE Records'
<1>1. /\ frame[t].pc = "prune" /\ UNCHANGED <<tracked, file, since, issued, faults, given_up>>
      BY DEF Prune, At
<1>2. OnlyMoves(t) /\ frame'[t].pc \in {"append", "sort"} /\ frame'[t].lines \in {frame[t].lines, <<>>}
  <2>1. CASE frame' = [frame EXCEPT ![t].pc = "append"]
        BY <2>1 DEF OnlyMoves, Records, RecordsTyped, Fields
  <2>2. CASE frame' = [frame EXCEPT ![t] = [Ready EXCEPT !.pc = "sort", !.keys = tracked,
                                                         !.victims = Overflow]]
        BY <2>2 DEF OnlyMoves, Records, RecordsTyped, Fields, Ready
  <2> QED BY <2>1, <2>2 DEF Prune, Go
<1>3. /\ frame[t].pc \in Early /\ frame'[t].pc \in Early /\ frame[t].pc \in Reserving
      /\ tracked' \subseteq Ips
      BY <1>1, <1>2 DEF Early, Reserving, Records, RecordsTyped
<1>4. (issued + Num(Reserving) <= MaxRecords)' BY <1>1, <1>2, <1>3, Reserved
<1> QED BY <1>1, <1>2, <1>3, <1>4, EarlyStep

LEMMA SortRecords ==
    ASSUME Records, NEW t \in Threads, SortKeys(t), UNCHANGED restarts PROVE Records'
<1>1. /\ frame[t].pc = "sort" /\ UNCHANGED <<tracked, file, since, issued, faults, given_up>>
      BY DEF SortKeys, At
<1>2. OnlyMoves(t) /\ frame'[t].pc \in {"raised", "pop"} /\ frame'[t].lines \in {frame[t].lines, <<>>}
  <2>1. CASE Raise(t)
        BY <2>1 DEF Raise, OnlyMoves, Records, RecordsTyped, Fields, Ready
  <2>2. ASSUME NEW oldest, frame' = [frame EXCEPT ![t].pc = "pop", ![t].keys = oldest]
        PROVE  OnlyMoves(t) /\ frame'[t].pc = "pop" /\ frame'[t].lines = frame[t].lines
        BY <2>2 DEF OnlyMoves, Records, RecordsTyped, Fields
  <2> QED BY <2>1, <2>2 DEF SortKeys
<1>3. /\ frame[t].pc \in Early /\ frame'[t].pc \in Early /\ frame[t].pc \in Reserving
      /\ tracked' \subseteq Ips
      BY <1>1, <1>2 DEF Early, Reserving, Records, RecordsTyped
<1>4. (issued + Num(Reserving) <= MaxRecords)' BY <1>1, <1>2, <1>3, Reserved
<1> QED BY <1>1, <1>2, <1>3, <1>4, EarlyStep

LEMMA PopRecords ==
    ASSUME Records, NEW t \in Threads, Pop(t), UNCHANGED restarts PROVE Records'
<1>1. /\ frame[t].pc = "pop" /\ UNCHANGED <<file, since, issued, faults, given_up>>
      /\ tracked' \subseteq Ips
      BY DEF Pop, At, Records, RecordsTyped
<1>2. OnlyMoves(t) /\ frame'[t].pc \in {"append", "pop"} /\ frame'[t].lines = frame[t].lines
  <2>1. PICK ip \in frame[t].keys :
          frame' = [frame EXCEPT ![t].keys = @ \ {ip},
                                 ![t].pc = IF frame[t].keys = {ip} THEN "append" ELSE "pop"]
        BY DEF Pop
  <2> QED BY <2>1 DEF OnlyMoves, Records, RecordsTyped, Fields
<1>3. /\ frame[t].pc \in Early /\ frame'[t].pc \in Early /\ frame[t].pc \in Reserving
      BY <1>1, <1>2 DEF Early, Reserving
<1>4. (issued + Num(Reserving) <= MaxRecords)' BY <1>1, <1>2, <1>3, Reserved
<1> QED BY <1>1, <1>2, <1>3, <1>4, EarlyStep

LEMMA ReconnectRecords ==
    ASSUME Records, Reconnect PROVE Records'
<1>0. Commander \in Threads BY RuntimeAssumption
<1>1. /\ frame[Commander].pc = "raised" /\ frame' = [frame EXCEPT ![Commander] = Ready]
      /\ UNCHANGED <<tracked, file, since, issued, faults, given_up, restarts>>
      BY DEF Reconnect, At, Return, runtime_vars
<1>2. OnlyMoves(Commander) /\ frame'[Commander].pc = "ready" /\ frame'[Commander].lines = <<>>
      BY <1>0, <1>1 DEF OnlyMoves, Records, RecordsTyped, Fields, Ready
<1>3. /\ frame[Commander].pc \in Early /\ frame'[Commander].pc \in Early
      /\ frame'[Commander].pc \notin Reserving /\ tracked' \subseteq Ips
      BY <1>1, <1>2 DEF Early, Reserving, Records, RecordsTyped
<1>4. (issued + Num(Reserving) <= MaxRecords)' BY <1>0, <1>1, <1>2, <1>3, Reserved
<1> QED BY <1>0, <1>1, <1>2, <1>3, <1>4, EarlyStep

\* A thread that moves from step a to step b takes its place in the numbers with it.
LEMMA Moved ==
    ASSUME NEW t \in Threads, OnlyMoves(t), NEW a, NEW b, frame[t].pc = a, frame'[t].pc = b
    PROVE  \A pcs : /\ Num(pcs) \in 0..2 /\ Num(pcs)' \in 0..2
                    /\ a \in pcs => Num(pcs) >= 1
                    /\ Num(pcs)' = Num(pcs) - (IF a \in pcs THEN 1 ELSE 0) + (IF b \in pcs THEN 1 ELSE 0)
<1> SUFFICES ASSUME NEW pcs
             PROVE  /\ Num(pcs) \in 0..2 /\ Num(pcs)' \in 0..2
                    /\ a \in pcs => Num(pcs) >= 1
                    /\ Num(pcs)' = Num(pcs) - (IF a \in pcs THEN 1 ELSE 0) + (IF b \in pcs THEN 1 ELSE 0)
    OBVIOUS
<1>1. PICK u \in Threads \ {t} : /\ Num(pcs) = In(t, pcs) + In(u, pcs)
                                 /\ Num(pcs)' = In(t, pcs)' + In(u, pcs)
      BY OthersNumbers
<1>2. /\ In(u, pcs) \in 0..1
      /\ In(t, pcs) = (IF a \in pcs THEN 1 ELSE 0) /\ In(t, pcs)' = (IF b \in pcs THEN 1 ELSE 0)
      BY DEF In
<1> QED BY <1>1, <1>2

\* The threads counting, checking and compacting are at most two.
LEMMA AtMostTwo ==
    /\ Num({"count"}) + Num({"check"}) + Compacting <= 2
    /\ Num({"count"}) \in 0..2 /\ Num({"check"}) \in 0..2 /\ Compacting \in 0..2
<1>1. /\ In(Consumer, {"count"}) + In(Consumer, {"check"}) + In(Consumer, {"read", "truncate"}) <= 1
      /\ In(Commander, {"count"}) + In(Commander, {"check"}) + In(Commander, {"read", "truncate"}) <= 1
      BY DEF In
<1>2. \A t \in Threads : \A pcs : In(t, pcs) \in 0..1 BY DEF In
<1>3. Consumer \in Threads /\ Commander \in Threads BY RuntimeAssumption
<1> HIDE DEF In
<1> QED BY <1>1, <1>2, <1>3 DEF Num, Compacting

\* What a move does to the types, when the file and what the thread holds have theirs.
LEMMA TypedStep ==
    ASSUME Records, NEW t \in Threads, OnlyMoves(t), UNCHANGED <<tracked, restarts>>,
           file' \in Seq(1..MaxRecords), frame'[t].pc \in Steps,
           frame'[t].lines \in Seq(1..MaxRecords), Len(frame'[t].lines) <= MaxFileEntries,
           faults' \in 0..MaxFaults
    PROVE  RecordsTyped'
BY DEF Records, RecordsTyped, OnlyMoves

LEMMA NoLines == <<>> \in Seq(1..MaxRecords) /\ Len(<<>>) = 0 /\ Len(<<>>) <= MaxFileEntries
<1>1. MaxFileEntries \in Nat BY TrackerAssumption
<1> QED BY <1>1

LEMMA AppendRecords ==
    ASSUME Records, NEW t \in Threads, AppendRecord(t), UNCHANGED restarts PROVE Records'
<1> DEFINE r == issued + 1
<1>1. /\ frame[t].pc = "append" /\ issued' = r /\ file' = Append(file, r)
      /\ given_up' = IF OtherCompacts(t) THEN given_up \cup {r} ELSE given_up
      /\ UNCHANGED <<tracked, since, faults, restarts>>
      /\ frame' = [frame EXCEPT ![t].pc = "count"]
      BY DEF AppendRecord, At, Go
<1>2. OnlyMoves(t) /\ frame'[t].pc = "count" /\ frame'[t].lines = frame[t].lines
      BY <1>1 DEF OnlyMoves, Records, RecordsTyped, Fields
<1>3. /\ Num(Reserving) >= 1 /\ Num(Reserving)' = Num(Reserving) - 1 /\ Num(Reserving) \in 0..2
      /\ Num({"count"})' = Num({"count"}) + 1 /\ Num({"count"}) \in 0..2
      /\ Num({"check"})' = Num({"check"}) /\ Num({"read", "truncate"})' = Num({"read", "truncate"})
  <2>1. \A pcs : /\ Num(pcs) \in 0..2
                 /\ "append" \in pcs => Num(pcs) >= 1
                 /\ Num(pcs)' = Num(pcs) - (IF "append" \in pcs THEN 1 ELSE 0)
                                        + (IF "count" \in pcs THEN 1 ELSE 0)
        BY <1>1, <1>2, Moved
  <2>2. "append" \in Reserving /\ "count" \notin Reserving BY DEF Reserving
  <2>3. Num(Reserving) >= 1 /\ Num(Reserving)' = Num(Reserving) - 1 /\ Num(Reserving) \in 0..2
        BY <2>1, <2>2
  <2>4. Num({"count"})' = Num({"count"}) + 1 /\ Num({"count"}) \in 0..2
    <3>1. Num({"count"})' = Num({"count"}) - 0 + 1 /\ Num({"count"}) \in 0..2 BY <2>1
    <3> QED BY <3>1
  <2>5. Num({"check"})' = Num({"check"})
    <3>1. Num({"check"})' = Num({"check"}) - 0 + 0 /\ Num({"check"}) \in 0..2 BY <2>1
    <3> QED BY <3>1
  <2>6. Num({"read", "truncate"})' = Num({"read", "truncate"})
    <3>1. /\ Num({"read", "truncate"})' = Num({"read", "truncate"}) - 0 + 0
          /\ Num({"read", "truncate"}) \in 0..2
          BY <2>1
    <3> QED BY <3>1
  <2> QED BY <2>3, <2>4, <2>5, <2>6
<1>4. /\ issued \in Nat /\ since \in Nat /\ MaxRecords \in Nat
      /\ issued + Num(Reserving) <= MaxRecords /\ since + Num({"count"}) <= issued
      BY TrackerAssumption DEF Records, Counted
<1>5. r \in 1..MaxRecords BY <1>3, <1>4
<1>6. file \in Seq(1..MaxRecords) BY DEF Records, RecordsTyped
<1>7. file' \in Seq(1..MaxRecords) /\ Len(file') = Len(file) + 1 /\ ToSet(file') = ToSet(file) \cup {r}
      BY <1>1, <1>5, <1>6, Appended
<1>8. RecordsTyped'
      BY <1>1, <1>2, <1>7, TypedStep DEF Records, RecordsTyped, Steps
<1>9. Counted' BY <1>1, <1>3, <1>4 DEF Counted
<1>10. Grown'
  <2>1. Len(file) \in Nat BY <1>6, LenProperties
  <2>2. Compacting' = Compacting /\ Debt' = Debt /\ Allowed' = Allowed
        BY <1>1, <1>3 DEF Compacting, Debt, Allowed
  <2>3. Debt \in Nat /\ Allowed \in Int
    <3>1. Interval \in Nat /\ MaxFileEntries \in Nat /\ MaxFaults \in Nat BY TrackerAssumption
    <3>2. restarts \in Nat /\ faults \in Nat BY <3>1 DEF Records, RecordsTyped
    <3> QED BY <3>1, <3>2 DEF Debt, Allowed
  <2> QED BY <1>1, <1>3, <1>4, <1>7, <2>1, <2>2, <2>3 DEF Records, Grown
<1>11. Covered'
  <2>1. \A v \in Threads : At(v, "truncate")' \/ At(v, "rewrite")' => /\ v # t /\ frame'[v] = frame[v]
                                                                  /\ OtherCompacts(t)
        BY <1>2 DEF OnlyMoves, OtherCompacts, At
  <2>2. \A v \in Threads : At(v, "rewrite") => At(v, "rewrite")' /\ frame'[v] = frame[v]
        BY <1>1, <1>2 DEF OnlyMoves, At
  <2>3. given_up \subseteq given_up' /\ (OtherCompacts(t) => r \in given_up') BY <1>1
  <2>4. \A x \in 1..r : x \in 1..issued \/ x = r BY <1>4
  <2>5. Kept'
    <3> SUFFICES ASSUME NEW x \in 1..r
                 PROVE  \/ x \in ToSet(file)' \/ x \in given_up'
                        \/ \E v \in Threads : At(v, "rewrite")' /\ x \in ToSet(frame[v].lines)'
        BY <1>1 DEF Kept
    <3>1. CASE x = r BY <3>1, <1>7
    <3>2. CASE x \in 1..issued
      <4>1. \/ x \in ToSet(file) \/ x \in given_up
            \/ \E v \in Threads : At(v, "rewrite") /\ x \in ToSet(frame[v].lines)
            BY <3>2 DEF Records, Covered, Kept
      <4> QED BY <4>1, <1>7, <2>2, <2>3
    <3> QED BY <3>1, <3>2, <2>4
  <2>6. \A v \in Threads : At(v, "truncate")' => ToSet(file)' \subseteq ToSet(frame[v].lines)' \cup given_up'
        BY <1>7, <2>1, <2>3 DEF Records, Covered, At
  <2>7. \A v \in Threads : At(v, "rewrite")' => ToSet(file)' \subseteq given_up'
        BY <1>7, <2>1, <2>3 DEF Records, Covered, At
  <2> QED BY <2>5, <2>6, <2>7 DEF Covered
<1> QED BY <1>8, <1>9, <1>10, <1>11 DEF Records

\* The numbers the invariant speaks of, after a thread has moved on from step a to step b.
LEMMA Numbers ==
    ASSUME NEW t \in Threads, OnlyMoves(t), NEW a, NEW b, frame[t].pc = a, frame'[t].pc = b,
           b \notin Reserving
    PROVE  /\ Num(Reserving)' <= Num(Reserving)
           /\ Num(Reserving) \in 0..2 /\ Num(Reserving)' \in 0..2
           /\ Num({"count"})' = Num({"count"}) - (IF a = "count" THEN 1 ELSE 0)
                                               + (IF b = "count" THEN 1 ELSE 0)
           /\ Num({"check"})' = Num({"check"}) - (IF a = "check" THEN 1 ELSE 0)
                                               + (IF b = "check" THEN 1 ELSE 0)
           /\ Compacting' = Compacting - (IF a \in {"read", "truncate"} THEN 1 ELSE 0)
                                       + (IF b \in {"read", "truncate"} THEN 1 ELSE 0)
           /\ a = "count" => Num({"count"}) >= 1
           /\ a = "check" => Num({"check"}) >= 1
           /\ a \in {"read", "truncate"} => Compacting >= 1
           /\ Num({"count"})' \in 0..2 /\ Num({"check"})' \in 0..2 /\ Compacting' \in 0..2
<1>1. \A pcs : /\ Num(pcs) \in 0..2 /\ Num(pcs)' \in 0..2
               /\ a \in pcs => Num(pcs) >= 1
               /\ Num(pcs)' = Num(pcs) - (IF a \in pcs THEN 1 ELSE 0) + (IF b \in pcs THEN 1 ELSE 0)
      BY Moved
<1>2. /\ Num(Reserving)' <= Num(Reserving)
      /\ Num(Reserving) \in 0..2 /\ Num(Reserving)' \in 0..2
  <2>1. /\ Num(Reserving) \in 0..2 /\ Num(Reserving)' \in 0..2
        /\ Num(Reserving)' = Num(Reserving) - (IF a \in Reserving THEN 1 ELSE 0) + 0
        BY <1>1
  <2> QED BY <2>1
<1>3. /\ Num({"count"})' = Num({"count"}) - (IF a = "count" THEN 1 ELSE 0)
                                          + (IF b = "count" THEN 1 ELSE 0)
      /\ a = "count" => Num({"count"}) >= 1
      /\ Num({"count"})' \in 0..2
      BY <1>1
<1>4. /\ Num({"check"})' = Num({"check"}) - (IF a = "check" THEN 1 ELSE 0)
                                          + (IF b = "check" THEN 1 ELSE 0)
      /\ a = "check" => Num({"check"}) >= 1
      /\ Num({"check"})' \in 0..2
      BY <1>1
<1>5. /\ Compacting' = Compacting - (IF a \in {"read", "truncate"} THEN 1 ELSE 0)
                                  + (IF b \in {"read", "truncate"} THEN 1 ELSE 0)
      /\ a \in {"read", "truncate"} => Compacting >= 1
      /\ Compacting' \in 0..2
      BY <1>1 DEF Compacting
<1> QED BY <1>2, <1>3, <1>4, <1>5

\* Once its record is written, a thread changes the counts only through the counter.
LEMMA LaterCounted ==
    ASSUME Records, NEW t \in Threads, OnlyMoves(t), issued' = issued,
           frame'[t].pc \notin Reserving, since' \in Nat,
           since' + Num({"count"})' <= since + Num({"count"})
    PROVE  Counted'
<1>1. Num(Reserving)' <= Num(Reserving) /\ Num(Reserving) \in 0..2 /\ Num(Reserving)' \in 0..2
      BY Numbers
<1>2. Num({"count"})' \in 0..2 BY Numbers
<1>3. Num({"count"}) \in 0..2 BY AtMostTwo
<1>4. MaxRecords \in Nat BY TrackerAssumption
<1> HIDE DEF Num
<1> QED BY <1>1, <1>2, <1>3, <1>4 DEF Records, Counted

\* A thread that is not rewriting and will not hold lines covers what it covered.
LEMMA CoveredStep ==
    ASSUME Records, NEW t \in Threads, OnlyMoves(t), UNCHANGED <<file, issued>>,
           given_up \subseteq given_up',
           frame[t].pc # "rewrite", frame'[t].pc \notin {"truncate", "rewrite"}
    PROVE  Covered'
<1>1. \A v \in Threads : At(v, "rewrite") => At(v, "rewrite")' /\ frame'[v] = frame[v]
      BY DEF OnlyMoves, At
<1>2. \A v \in Threads : At(v, "truncate")' \/ At(v, "rewrite")' => frame'[v] = frame[v]
      BY DEF OnlyMoves, At
<1>3. Kept'
  <2> SUFFICES ASSUME NEW x \in 1..issued
               PROVE  \/ x \in ToSet(file) \/ x \in given_up'
                      \/ \E v \in Threads : At(v, "rewrite")' /\ x \in ToSet(frame'[v].lines)
      BY DEF Kept, ToSet
  <2>1. \/ x \in ToSet(file) \/ x \in given_up
        \/ \E v \in Threads : At(v, "rewrite") /\ x \in ToSet(frame[v].lines)
        BY DEF Records, Covered, Kept
  <2> QED BY <2>1, <1>1
<1>4. \A v \in Threads : At(v, "truncate")' => ToSet(file)' \subseteq ToSet(frame[v].lines)' \cup given_up'
  <2> SUFFICES ASSUME NEW v \in Threads, At(v, "truncate")'
               PROVE  ToSet(file) \subseteq ToSet(frame[v].lines) \cup given_up'
      BY <1>2 DEF ToSet
  <2>1. At(v, "truncate") BY <1>2 DEF At
  <2> QED BY <2>1 DEF Records, Covered
<1>5. \A v \in Threads : At(v, "rewrite")' => ToSet(file)' \subseteq given_up'
  <2> SUFFICES ASSUME NEW v \in Threads, At(v, "rewrite")' PROVE ToSet(file) \subseteq given_up'
      BY DEF ToSet
  <2>1. At(v, "rewrite") BY <1>2 DEF At
  <2> QED BY <2>1 DEF Records, Covered
<1> QED BY <1>3, <1>4, <1>5 DEF Covered

\* The numbers Grown adds up.
LEMMA Amounts ==
    ASSUME Records
    PROVE  /\ Interval \in Nat \ {0} /\ MaxFileEntries \in Nat
           /\ Allowed \in Nat /\ Allowed >= MaxFileEntries /\ Debt \in Nat
           /\ since \in Nat /\ Len(file) \in Nat
<1>1. Interval \in Nat \ {0} /\ MaxFileEntries \in Nat /\ MaxFaults \in Nat BY TrackerAssumption
<1>2. restarts \in Nat /\ faults \in Nat /\ since \in Nat
      BY <1>1 DEF Records, RecordsTyped, Counted
<1>3. Len(file) \in Nat BY LenProperties DEF Records, RecordsTyped
<1>4. Debt \in Nat BY <1>1 DEF Debt
<1>5. (2 * Interval + 1) * restarts \in Nat /\ 2 * Interval * faults \in Nat BY <1>1, <1>2
<1> QED BY <1>1, <1>2, <1>3, <1>4, <1>5 DEF Allowed

LEMMA CountRecords ==
    ASSUME Records, NEW t \in Threads, Count(t), UNCHANGED restarts PROVE Records'
<1>1. /\ frame[t].pc = "count" /\ since' = since + 1 /\ frame' = [frame EXCEPT ![t].pc = "check"]
      /\ UNCHANGED <<tracked, file, issued, faults, given_up, restarts>>
      BY DEF Count, At, Go
<1>2. OnlyMoves(t) /\ frame'[t].pc = "check" /\ frame'[t].lines = frame[t].lines
      BY <1>1 DEF OnlyMoves, Records, RecordsTyped, Fields
<1>3. "check" \notin Reserving BY DEF Reserving
<1>4. /\ Num({"count"})' = Num({"count"}) - 1 /\ Num({"count"}) >= 1
      /\ Num({"check"})' = Num({"check"}) + 1 /\ Compacting' = Compacting
  <2>1. Num({"count"}) \in 0..2 /\ Num({"check"}) \in 0..2 /\ Compacting \in 0..2 BY AtMostTwo
  <2> QED BY <1>1, <1>2, <1>3, <2>1, Numbers
<1>5. Num({"count"}) + Num({"check"}) + Compacting <= 2
      /\ Num({"count"}) \in 0..2 /\ Num({"check"}) \in 0..2 /\ Compacting \in 0..2
      BY AtMostTwo
<1>6. RecordsTyped' BY <1>1, <1>2, TypedStep DEF Records, RecordsTyped, Steps
<1>7. Counted'
  <2>1. since' \in Nat /\ since' + Num({"count"})' <= since + Num({"count"})
        BY <1>1, <1>4, <1>5, Amounts
  <2> QED BY <1>1, <1>2, <1>3, <2>1, LaterCounted
<1>8. Grown'
  <2>1. Debt' = Debt /\ Allowed' = Allowed BY <1>1, <1>4 DEF Debt, Allowed
  <2>2. since < Interval + Num({"check"}) /\ Len(file) <= Allowed + since + Num({"count"}) + Debt
        BY DEF Records, Grown
  <2>3. since' < Interval + Num({"check"})' BY <1>1, <1>4, <1>5, <2>2, Amounts
  <2>4. Compacting' # 2 BY <1>4, <1>5
  <2>5. Len(file)' <= Allowed' + since' + Num({"count"})' + Debt'
        BY <1>1, <1>4, <1>5, <2>1, <2>2, Amounts
  <2> QED BY <2>3, <2>4, <2>5 DEF Grown
<1>9. Covered' BY <1>1, <1>2, CoveredStep
<1> QED BY <1>6, <1>7, <1>8, <1>9 DEF Records

LEMMA CheckRecords ==
    ASSUME Records, NEW t \in Threads, Check(t), UNCHANGED restarts PROVE Records'
<1>1. /\ frame[t].pc = "check"
      /\ UNCHANGED <<tracked, file, issued, faults, given_up, restarts>>
      BY DEF Check, At
<1>2. \/ since < Interval /\ since' = since /\ frame' = [frame EXCEPT ![t] = Ready]
      \/ since' = 0 /\ frame' = [frame EXCEPT ![t].pc = "read"]
      BY DEF Check, Go, Return
<1>3. /\ since < Interval + Num({"check"}) /\ Len(file) <= Allowed + since + Num({"count"}) + Debt
      /\ (Compacting = 2 => since = 0)
      BY DEF Records, Grown
<1>4. /\ Num({"count"}) + Num({"check"}) + Compacting <= 2
      /\ Num({"count"}) \in 0..2 /\ Num({"check"}) \in 0..2 /\ Compacting \in 0..2
      BY AtMostTwo
<1>5. Allowed' = Allowed BY <1>1 DEF Allowed
<1>6. ASSUME since < Interval, since' = since, frame' = [frame EXCEPT ![t] = Ready]
      PROVE  Records'
  <2>1. OnlyMoves(t) /\ frame'[t].pc = "ready" /\ frame'[t].lines = <<>>
        BY <1>6 DEF OnlyMoves, Records, RecordsTyped, Fields, Ready
  <2>2. "ready" \notin Reserving BY DEF Reserving
  <2>3. Num({"count"})' = Num({"count"}) /\ Num({"check"})' = Num({"check"}) - 1
        /\ Compacting' = Compacting /\ Num({"check"}) >= 1
        BY <1>1, <1>4, <2>1, <2>2, Numbers
  <2>4. RecordsTyped' BY <1>1, <2>1, NoLines, TypedStep DEF Records, RecordsTyped, Steps
  <2>5. Counted'
    <3>1. since' \in Nat /\ since' + Num({"count"})' <= since + Num({"count"})
          BY <1>6, <1>4, <2>3, Amounts
    <3> QED BY <1>1, <2>1, <2>2, <3>1, LaterCounted
  <2>6. Grown'
    <3>1. Debt' = Debt BY <2>3 DEF Debt
    <3>2. since' < Interval + Num({"check"})' BY <1>6, <1>4, <2>3, Amounts
    <3>3. Compacting' = 2 => since' = 0 BY <1>3, <1>6, <2>3
    <3>4. Len(file)' <= Allowed' + since' + Num({"count"})' + Debt'
          BY <1>1, <1>3, <1>5, <1>6, <2>3, <3>1
    <3> QED BY <3>2, <3>3, <3>4 DEF Grown
  <2>7. Covered' BY <1>1, <2>1, CoveredStep
  <2> QED BY <2>4, <2>5, <2>6, <2>7 DEF Records
<1>7. ASSUME since' = 0, frame' = [frame EXCEPT ![t].pc = "read"]
      PROVE  Records'
  <2>1. OnlyMoves(t) /\ frame'[t].pc = "read" /\ frame'[t].lines = frame[t].lines
        BY <1>7 DEF OnlyMoves, Records, RecordsTyped, Fields
  <2>2. "read" \notin Reserving BY DEF Reserving
  <2>3. Num({"count"})' = Num({"count"}) /\ Num({"check"})' = Num({"check"}) - 1
        /\ Compacting' = Compacting + 1 /\ Num({"check"}) >= 1
        BY <1>1, <1>4, <2>1, <2>2, Numbers
  <2>4. RecordsTyped' BY <1>1, <2>1, TypedStep DEF Records, RecordsTyped, Steps
  <2>5. Counted'
    <3>1. since' \in Nat /\ since' + Num({"count"})' <= since + Num({"count"})
          BY <1>7, <1>4, <2>3, Amounts
    <3> QED BY <1>1, <2>1, <2>2, <3>1, LaterCounted
  <2>6. Grown'
    <3>1. Debt + since <= Debt'
      <4>1. CASE Compacting = 0
        <5>1. Debt = 0 /\ Debt' = Interval + 1 BY <4>1, <2>3 DEF Debt
        <5>2. since <= Interval + 1 BY <1>3, <1>4, Amounts
        <5> QED BY <5>1, <5>2, Amounts
      <4>2. CASE Compacting # 0
        <5>1. Compacting = 1 /\ Num({"check"}) = 1 BY <1>4, <2>3, <4>2
        <5>2. Debt = Interval + 1 /\ Debt' = 2 * Interval + 1 BY <5>1, <2>3 DEF Debt
        <5>3. since <= Interval BY <1>3, <5>1, Amounts
        <5> QED BY <5>2, <5>3, Amounts
      <4> QED BY <4>1, <4>2
    <3>2. Debt' \in Int BY Amounts DEF Debt
    <3>3. since' < Interval + Num({"check"})' BY <1>7, <1>4, <2>3, Amounts
    <3>4. Len(file)' <= Allowed' + since' + Num({"count"})' + Debt'
          BY <1>1, <1>3, <1>4, <1>5, <1>7, <2>3, <3>1, <3>2, Amounts
    <3> QED BY <1>7, <3>3, <3>4 DEF Grown
  <2>7. Covered' BY <1>1, <2>1, CoveredStep
  <2> QED BY <2>4, <2>5, <2>6, <2>7 DEF Records
<1> QED BY <1>2, <1>6, <1>7

\* A compaction that is given up at reading or emptying the file leaves the allowance larger,
\* or has found the file within its size.
LEMMA CompactionLeft ==
    ASSUME Records, NEW t \in Threads, OnlyMoves(t), UNCHANGED <<tracked, file, since, issued, restarts>>,
           given_up' = given_up, frame[t].pc \in {"read", "truncate"},
           frame'[t].pc \in {"ready", "raised"}, frame'[t].lines = <<>>,
           \/ faults' = faults /\ Len(file) <= MaxFileEntries
           \/ faults < MaxFaults /\ faults' = faults + 1
    PROVE  Records'
<1>1. frame'[t].pc \notin Reserving BY DEF Reserving
<1>2. /\ Num({"count"}) + Num({"check"}) + Compacting <= 2
      /\ Num({"count"}) \in 0..2 /\ Num({"check"}) \in 0..2 /\ Compacting \in 0..2
      BY AtMostTwo
<1>3. /\ Num({"count"})' = Num({"count"}) /\ Num({"check"})' = Num({"check"})
      /\ Compacting' = Compacting - 1 /\ Compacting >= 1
      BY <1>1, <1>2, Numbers
<1>4. /\ since < Interval + Num({"check"}) /\ Len(file) <= Allowed + since + Num({"count"}) + Debt
      BY DEF Records, Grown
<1>5. RecordsTyped'
  <2>1. faults' \in 0..MaxFaults BY TrackerAssumption DEF Records, RecordsTyped
  <2>2. frame'[t].pc \in Steps BY DEF Steps
  <2> QED BY <2>1, <2>2, NoLines, TypedStep DEF Records, RecordsTyped
<1>6. Counted'
  <2>1. since' \in Nat /\ since' + Num({"count"})' <= since + Num({"count"})
        BY <1>2, <1>3, Amounts
  <2> QED BY <1>1, <2>1, LaterCounted
<1>7. Grown'
  <2>1. since' < Interval + Num({"check"})' BY <1>3, <1>4
  <2>2. Compacting' # 2 BY <1>2, <1>3
  <2>3. Debt' \in Nat /\ Debt' + (Interval + 1) >= Debt
    <3>1. CASE Compacting = 1
          BY <3>1, <1>3, Amounts DEF Debt
    <3>2. CASE Compacting = 2
          BY <3>2, <1>3, Amounts DEF Debt
    <3> QED BY <3>1, <3>2, <1>2, <1>3
  <2>4. CASE faults' = faults /\ Len(file) <= MaxFileEntries
    <3>1. Allowed' = Allowed BY <2>4 DEF Allowed
    <3>2. Len(file)' <= Allowed' + since' + Num({"count"})' + Debt'
          BY <3>1, <2>3, <2>4, <1>2, <1>3, Amounts
    <3> QED BY <2>1, <2>2, <3>2 DEF Grown
  <2>5. CASE faults' = faults + 1
    <3>1. Allowed' = Allowed + 2 * Interval
      <4>1. faults \in Nat /\ restarts \in Nat BY TrackerAssumption DEF Records, RecordsTyped
      <4>2. 2 * Interval * (faults + 1) = 2 * Interval * faults + 2 * Interval BY <4>1, Amounts
      <4>3. (2 * Interval + 1) * restarts \in Int /\ 2 * Interval * faults \in Int BY <4>1, Amounts
      <4> QED BY <2>5, <4>2, <4>3, Amounts DEF Allowed
    <3>2. Len(file)' = Len(file) /\ since' = since OBVIOUS
    <3>3. Num({"count"})' = Num({"count"}) /\ Num({"count"}) \in Int BY <1>2, <1>3
    <3>4. Len(file) <= Allowed + 2 * Interval + since + Num({"count"}) + Debt'
          BY <1>4, <2>3, <3>3, Amounts
    <3>5. Len(file)' <= Allowed' + since' + Num({"count"})' + Debt' BY <3>1, <3>2, <3>3, <3>4
    <3> QED BY <2>1, <2>2, <3>5 DEF Grown
  <2> QED BY <2>4, <2>5
<1>8. Covered' BY CoveredStep
<1> QED BY <1>5, <1>6, <1>7, <1>8 DEF Records

LEMMA ReadFailsRecords ==
    ASSUME Records, NEW t \in Threads, ReadFails(t), UNCHANGED restarts PROVE Records'
<1>1. /\ frame[t].pc = "read" /\ frame' = [frame EXCEPT ![t] = Ready]
      /\ faults < MaxFaults /\ faults' = faults + 1
      /\ UNCHANGED <<tracked, file, since, issued, given_up, restarts>>
      BY DEF ReadFails, At, Return
<1>2. OnlyMoves(t) /\ frame'[t].pc = "ready" /\ frame'[t].lines = <<>>
      BY <1>1 DEF OnlyMoves, Records, RecordsTyped, Fields, Ready
<1> QED BY <1>1, <1>2, CompactionLeft

LEMMA ReadRecords ==
    ASSUME Records, NEW t \in Threads, ReadLines(t), UNCHANGED restarts PROVE Records'
<1>1. /\ frame[t].pc = "read" /\ UNCHANGED <<tracked, file, since, issued, faults, restarts>>
      BY DEF ReadLines, At
<1>2. CASE Len(file) <= MaxFileEntries
  <2>1. frame' = [frame EXCEPT ![t] = Ready] /\ given_up' = given_up
        BY <1>2 DEF ReadLines, Return
  <2>2. OnlyMoves(t) /\ frame'[t].pc = "ready" /\ frame'[t].lines = <<>>
        BY <2>1 DEF OnlyMoves, Records, RecordsTyped, Fields, Ready
  <2> QED BY <1>1, <1>2, <2>1, <2>2, CompactionLeft
<1>3. CASE ~(Len(file) <= MaxFileEntries)
  <2> DEFINE oldest == ToSet(SubSeq(file, 1, Len(file) - MaxFileEntries))
  <2>1. /\ frame' = [frame EXCEPT ![t].pc = "truncate", ![t].lines = Retained]
        /\ given_up' = given_up \cup oldest
        BY <1>3 DEF ReadLines
  <2>2. OnlyMoves(t) /\ frame'[t].pc = "truncate" /\ frame'[t].lines = Retained
        BY <2>1 DEF OnlyMoves, Records, RecordsTyped, Fields
  <2>3. /\ Retained \in Seq(1..MaxRecords) /\ Len(Retained) <= MaxFileEntries
        /\ ToSet(file) \subseteq ToSet(Retained) \cup oldest
    <3>1. file \in Seq(1..MaxRecords) BY DEF Records, RecordsTyped
    <3>2. Len(file) > MaxFileEntries BY <1>3, Amounts
    <3> QED BY <3>1, <3>2, RetainedLines
  <2>4. "truncate" \notin Reserving BY DEF Reserving
  <2>5. /\ Num({"count"})' = Num({"count"}) /\ Num({"check"})' = Num({"check"})
        /\ Compacting' = Compacting
    <3>1. Num({"count"}) \in 0..2 /\ Num({"check"}) \in 0..2 /\ Compacting \in 0..2 BY AtMostTwo
    <3> QED BY <1>1, <2>2, <2>4, <3>1, Numbers
  <2>6. RecordsTyped' BY <1>1, <2>2, <2>3, TypedStep DEF Records, RecordsTyped, Steps
  <2>7. Counted'
    <3>1. since' + Num({"count"})' <= since + Num({"count"}) BY <1>1, <2>5, AtMostTwo, Amounts
    <3> QED BY <1>1, <2>2, <2>4, <3>1, Amounts, LaterCounted
  <2>8. Grown'
    <3>1. Debt' = Debt /\ Allowed' = Allowed BY <1>1, <2>5 DEF Debt, Allowed
    <3> QED BY <1>1, <2>5, <3>1 DEF Records, Grown
  <2> HIDE DEF oldest
  <2>9. Covered'
    <3>1. \A v \in Threads : At(v, "rewrite") => At(v, "rewrite")' /\ frame'[v] = frame[v]
          BY <1>1, <2>2 DEF OnlyMoves, At
    <3>2. \A v \in Threads : v # t => frame'[v] = frame[v] BY <2>2 DEF OnlyMoves
    <3>3. Kept'
      <4> SUFFICES ASSUME NEW x \in 1..issued
                   PROVE  \/ x \in ToSet(file) \/ x \in given_up'
                          \/ \E v \in Threads : At(v, "rewrite")' /\ x \in ToSet(frame'[v].lines)
          BY <1>1 DEF Kept, ToSet
      <4>1. \/ x \in ToSet(file) \/ x \in given_up
            \/ \E v \in Threads : At(v, "rewrite") /\ x \in ToSet(frame[v].lines)
            BY DEF Records, Covered, Kept
      <4> QED BY <4>1, <2>1, <3>1
    <3>4. ASSUME NEW v \in Threads, At(v, "truncate")'
          PROVE  ToSet(file) \subseteq ToSet(frame'[v].lines) \cup given_up'
      <4>1. CASE v = t BY <4>1, <2>1, <2>2, <2>3
      <4>2. CASE v # t
        <5>1. At(v, "truncate") /\ frame'[v] = frame[v] BY <3>2, <3>4, <4>2 DEF At
        <5> QED BY <5>1, <2>1 DEF Records, Covered
      <4> QED BY <4>1, <4>2
    <3>5. ASSUME NEW v \in Threads, At(v, "rewrite")'
          PROVE  ToSet(file) \subseteq given_up'
      <4>1. v # t BY <2>2, <3>5 DEF At
      <4>2. At(v, "rewrite") BY <4>1, <3>2, <3>5 DEF At
      <4> QED BY <4>2, <2>1 DEF Records, Covered
    <3> QED BY <1>1, <3>3, <3>4, <3>5 DEF Covered, ToSet
  <2> QED BY <2>6, <2>7, <2>8, <2>9 DEF Records
<1> QED BY <1>2, <1>3

LEMMA TruncateRecords ==
    ASSUME Records, NEW t \in Threads, Truncate(t), UNCHANGED restarts PROVE Records'
<1>1. /\ frame[t].pc = "truncate" /\ file' = <<>> /\ frame' = [frame EXCEPT ![t].pc = "rewrite"]
      /\ UNCHANGED <<tracked, since, issued, faults, given_up, restarts>>
      BY DEF Truncate, At, Go
<1>2. OnlyMoves(t) /\ frame'[t].pc = "rewrite" /\ frame'[t].lines = frame[t].lines
      BY <1>1 DEF OnlyMoves, Records, RecordsTyped, Fields
<1>3. "rewrite" \notin Reserving BY DEF Reserving
<1>4. /\ Num({"count"}) \in 0..2 /\ Num({"check"}) \in 0..2 /\ Compacting \in 0..2 BY AtMostTwo
<1>5. /\ Num({"count"})' = Num({"count"}) /\ Num({"check"})' = Num({"check"})
      /\ Compacting' = Compacting - 1
      BY <1>1, <1>2, <1>3, <1>4, Numbers
<1>6. RecordsTyped' BY <1>1, <1>2, NoLines, TypedStep DEF Records, RecordsTyped, Steps
<1>7. Counted'
  <2>1. since' + Num({"count"})' <= since + Num({"count"}) BY <1>1, <1>4, <1>5, Amounts
  <2> QED BY <1>1, <1>2, <1>3, <2>1, Amounts, LaterCounted
<1>8. Grown'
  <2>1. Allowed' = Allowed /\ Debt' \in Nat BY <1>1, Amounts DEF Allowed, Debt
  <2>2. Len(file') = 0 BY <1>1
  <2>3. Len(file)' <= Allowed' + since' + Num({"count"})' + Debt'
        BY <2>1, <2>2, <1>1, <1>4, <1>5, Amounts
  <2>4. Compacting' # 2 BY <1>4, <1>5
  <2>5. since' < Interval + Num({"check"})' BY <1>1, <1>5 DEF Records, Grown
  <2> QED BY <2>3, <2>4, <2>5 DEF Grown
<1>9. Covered'
  <2>1. ToSet(file') = {} BY <1>1 DEF ToSet
  <2>2. \A v \in Threads : At(v, "rewrite") => At(v, "rewrite")' /\ frame'[v].lines = frame[v].lines
        BY <1>1, <1>2 DEF OnlyMoves, At
  <2>3. At(t, "rewrite")' /\ ToSet(file) \subseteq ToSet(frame'[t].lines) \cup given_up
        BY <1>1, <1>2 DEF At, Records, Covered
  <2>4. Kept'
    <3> SUFFICES ASSUME NEW x \in 1..issued
                 PROVE  x \in given_up \/ \E v \in Threads : At(v, "rewrite")' /\ x \in ToSet(frame'[v].lines)
        BY <1>1 DEF Kept, ToSet
    <3>1. \/ x \in ToSet(file) \/ x \in given_up
          \/ \E v \in Threads : At(v, "rewrite") /\ x \in ToSet(frame[v].lines)
          BY DEF Records, Covered, Kept
    <3> QED BY <3>1, <2>2, <2>3
  <2> QED BY <2>1, <2>4 DEF Covered, ToSet
<1> QED BY <1>6, <1>7, <1>8, <1>9 DEF Records

\* The lines, or the first of them, are written back.
LEMMA RewriteEnds ==
    ASSUME Records, NEW t \in Threads, OnlyMoves(t), UNCHANGED <<tracked, since, issued, restarts>>,
           frame[t].pc = "rewrite", frame'[t].pc \in {"ready", "raised"}, frame'[t].lines = <<>>,
           NEW part \in Seq(1..MaxRecords), Len(part) <= MaxFileEntries,
           ToSet(part) \subseteq ToSet(frame[t].lines), file' = Overwritten(part),
           \/ given_up' = given_up /\ part = frame[t].lines /\ ~OtherCompacts(t)
           \/ given_up' = given_up \cup ToSet(frame[t].lines),
           \/ faults' = faults
           \/ faults < MaxFaults /\ faults' = faults + 1
    PROVE  Records'
<1>1. frame'[t].pc \notin Reserving BY DEF Reserving
<1>2. /\ Num({"count"}) \in 0..2 /\ Num({"check"}) \in 0..2 /\ Compacting \in 0..2 BY AtMostTwo
<1>3. /\ Num({"count"})' = Num({"count"}) /\ Num({"check"})' = Num({"check"})
      /\ Compacting' = Compacting
  <2> DEFINE b == frame'[t].pc
  <2>1. b # "count" /\ b # "check" /\ b \notin {"read", "truncate"} OBVIOUS
  <2>2. /\ Num({"count"})' = Num({"count"}) - 0 + (IF b = "count" THEN 1 ELSE 0)
        /\ Num({"check"})' = Num({"check"}) - 0 + (IF b = "check" THEN 1 ELSE 0)
        /\ Compacting' = Compacting - 0 + (IF b \in {"read", "truncate"} THEN 1 ELSE 0)
        BY <1>1, Numbers, SMTT(30)
  <2> QED BY <1>2, <2>1, <2>2
<1>4. /\ file' \in Seq(1..MaxRecords)
      /\ Len(file') = IF Len(part) <= Len(file) THEN Len(file) ELSE Len(part)
      /\ ToSet(part) \subseteq ToSet(file') /\ ToSet(file') \subseteq ToSet(part) \cup ToSet(file)
  <2>1. file \in Seq(1..MaxRecords) BY DEF Records, RecordsTyped
  <2> QED BY <2>1, OverwrittenLines
<1>5. faults \in 0..MaxFaults /\ faults' \in 0..MaxFaults /\ MaxFaults \in Nat
      BY TrackerAssumption DEF Records, RecordsTyped
<1>6. RecordsTyped'
  <2>1. frame'[t].pc \in Steps BY DEF Steps
  <2> QED BY <1>4, <1>5, <2>1, NoLines, TypedStep
<1>7. Counted'
  <2>1. since' + Num({"count"})' <= since + Num({"count"}) BY <1>2, <1>3, Amounts
  <2> QED BY <1>1, <2>1, Amounts, LaterCounted
<1>8. Grown'
  <2>1. Debt' = Debt BY <1>3 DEF Debt
  <2>2. Allowed' \in Nat /\ Allowed' >= Allowed
    <3>1. CASE faults' = faults BY <3>1, Amounts DEF Allowed
    <3>2. CASE faults' = faults + 1
      <4>1. restarts \in Nat /\ faults \in Nat BY <1>5 DEF Records, RecordsTyped
      <4>2. 2 * Interval * (faults + 1) = 2 * Interval * faults + 2 * Interval BY <4>1, Amounts
      <4>3. (2 * Interval + 1) * restarts \in Int /\ 2 * Interval * faults \in Int BY <4>1, Amounts
      <4>4. Allowed' = Allowed + 2 * Interval BY <3>2, <4>2, <4>3, Amounts DEF Allowed
      <4> QED BY <4>4, Amounts
    <3> QED BY <3>1, <3>2
  <2>3. Len(part) \in Nat BY LenProperties
  <2>4. /\ since < Interval + Num({"check"}) /\ Len(file) <= Allowed + since + Num({"count"}) + Debt
        BY DEF Records, Grown
  <2>5. Len(file') <= Allowed' + since + Num({"count"}) + Debt
    <3>1. CASE Len(file') = Len(file) BY <3>1, <2>2, <2>4, <1>2, Amounts
    <3>2. CASE Len(file') = Len(part) BY <3>2, <2>2, <2>3, <1>2, Amounts
    <3> QED BY <3>1, <3>2, <1>4
  <2>6. Compacting' = 2 => since' = 0 BY <1>3 DEF Records, Grown
  <2> QED BY <1>3, <2>1, <2>4, <2>5, <2>6 DEF Grown
<1>9. Covered'
  <2>1. /\ ToSet(file) \subseteq given_up /\ given_up \subseteq given_up'
        /\ ToSet(frame[t].lines) \subseteq ToSet(file') \cup given_up'
        BY <1>4 DEF Records, Covered, At
  <2>2. \A v \in Threads : At(v, "rewrite") => v = t \/ (At(v, "rewrite")' /\ frame'[v] = frame[v])
        BY DEF OnlyMoves, At
  <2>3. ASSUME NEW v \in Threads, At(v, "truncate")' \/ At(v, "rewrite")'
        PROVE  ToSet(file') \subseteq given_up'
    <3>1. OtherCompacts(t) BY <2>3 DEF OtherCompacts, OnlyMoves, At
    <3> QED BY <3>1, <2>1, <1>4
  <2>4. Kept'
    <3> SUFFICES ASSUME NEW x \in 1..issued
                 PROVE  \/ x \in ToSet(file') \/ x \in given_up'
                        \/ \E v \in Threads : At(v, "rewrite")' /\ x \in ToSet(frame'[v].lines)
        BY DEF Kept, ToSet
    <3>1. \/ x \in ToSet(file) \/ x \in given_up
          \/ \E v \in Threads : At(v, "rewrite") /\ x \in ToSet(frame[v].lines)
          BY DEF Records, Covered, Kept
    <3> QED BY <3>1, <2>1, <2>2
  <2> QED BY <2>3, <2>4 DEF Covered, ToSet
<1> QED BY <1>6, <1>7, <1>8, <1>9 DEF Records

LEMMA RewriteRecords ==
    ASSUME Records, NEW t \in Threads, Rewrite(t), UNCHANGED restarts PROVE Records'
<1>1. /\ frame[t].pc = "rewrite" /\ file' = Overwritten(frame[t].lines)
      /\ frame' = [frame EXCEPT ![t] = Ready]
      /\ given_up' = IF OtherCompacts(t) THEN given_up \cup ToSet(frame[t].lines) ELSE given_up
      /\ UNCHANGED <<tracked, since, issued, faults, restarts>>
      BY DEF Rewrite, At, Return
<1>2. OnlyMoves(t) /\ frame'[t].pc = "ready" /\ frame'[t].lines = <<>>
      BY <1>1 DEF OnlyMoves, Records, RecordsTyped, Fields, Ready
<1>3. frame[t].lines \in Seq(1..MaxRecords) /\ Len(frame[t].lines) <= MaxFileEntries
      BY DEF Records, RecordsTyped
<1> QED BY <1>1, <1>2, <1>3, RewriteEnds

LEMMA WriteFailsRecords ==
    ASSUME Records, NEW t \in Threads, WriteFails(t), UNCHANGED restarts PROVE Records'
<1>1. /\ faults < MaxFaults /\ faults' = faults + 1
      /\ frame' = [frame EXCEPT ![t] = [Ready EXCEPT !.pc = "raised"]]
      /\ UNCHANGED <<tracked, since, issued, restarts>>
      BY DEF WriteFails, Raise
<1>2. OnlyMoves(t) /\ frame'[t].pc = "raised" /\ frame'[t].lines = <<>>
      BY <1>1 DEF OnlyMoves, Records, RecordsTyped, Fields, Ready
<1>3. CASE frame[t].pc = "rewrite"
  <2>1. /\ given_up' = given_up \cup ToSet(frame[t].lines)
        /\ \E n \in 0..(Len(frame[t].lines) - 1) : file' = Overwritten(SubSeq(frame[t].lines, 1, n))
        BY <1>3 DEF WriteFails, At
  <2>2. PICK n \in 0..(Len(frame[t].lines) - 1) : file' = Overwritten(SubSeq(frame[t].lines, 1, n))
        BY <2>1
  <2>3. frame[t].lines \in Seq(1..MaxRecords) /\ Len(frame[t].lines) <= MaxFileEntries
        BY DEF Records, RecordsTyped
  <2>4. Len(frame[t].lines) \in Nat /\ DOMAIN frame[t].lines = 1..Len(frame[t].lines)
        BY <2>3, LenProperties
  <2>5. n \in Nat /\ n <= Len(frame[t].lines) BY <2>4
  <2> DEFINE part == SubSeq(frame[t].lines, 1, n)
  <2>6. /\ part \in Seq(1..MaxRecords) /\ Len(part) = IF 1 <= n THEN n - 1 + 1 ELSE 0
        /\ ToSet(part) = {frame[t].lines[i] : i \in 1..n}
    <3> DEFINE s == frame[t].lines
    <3>1. 1 \in Nat \ {0} OBVIOUS
    <3>2. s \in Seq(1..MaxRecords) /\ n \in Nat /\ n <= Len(s) BY <2>3, <2>5
    <3> HIDE DEF s
    <3>3. SubSeq(s, 1, n) \in Seq(1..MaxRecords) BY <3>1, <3>2, Piece
    <3>4. Len(SubSeq(s, 1, n)) = IF 1 <= n THEN n - 1 + 1 ELSE 0 BY <3>1, <3>2, Piece
    <3>5. ToSet(SubSeq(s, 1, n)) = {s[i] : i \in 1..n} BY <3>1, <3>2, Piece
    <3> QED BY <3>3, <3>4, <3>5 DEF s
  <2>7. Len(part) <= MaxFileEntries BY <2>3, <2>4, <2>5, <2>6, Amounts
  <2>8. ToSet(part) \subseteq ToSet(frame[t].lines)
    <3>1. \A i \in 1..n : i \in DOMAIN frame[t].lines BY <2>4, <2>5
    <3> QED BY <2>6, <3>1 DEF ToSet
  <2>9. file' = Overwritten(part) BY <2>2
  <2> HIDE DEF part
  <2> QED BY <1>1, <1>2, <1>3, <2>1, <2>6, <2>7, <2>8, <2>9, RewriteEnds
<1>4. CASE frame[t].pc = "truncate"
  <2>1. UNCHANGED <<file, given_up>> BY <1>4 DEF WriteFails, At
  <2> QED BY <1>1, <1>2, <1>4, <2>1, CompactionLeft
<1>5. CASE frame[t].pc = "append"
  <2>1. UNCHANGED <<file, given_up>> BY <1>5 DEF WriteFails, At
  <2>2. "raised" \notin Reserving BY DEF Reserving
  <2>3. /\ Num({"count"}) \in 0..2 /\ Num({"check"}) \in 0..2 /\ Compacting \in 0..2 BY AtMostTwo
  <2>4. /\ Num({"count"})' = Num({"count"}) /\ Num({"check"})' = Num({"check"})
        /\ Compacting' = Compacting
        BY <1>2, <1>5, <2>2, <2>3, Numbers
  <2>5. RecordsTyped'
    <3>1. faults' \in 0..MaxFaults BY <1>1, TrackerAssumption DEF Records, RecordsTyped
    <3> QED BY <1>1, <1>2, <2>1, <3>1, NoLines, TypedStep DEF Records, RecordsTyped, Steps
  <2>6. Counted'
    <3>1. since' + Num({"count"})' <= since + Num({"count"}) BY <1>1, <2>3, <2>4, Amounts
    <3> QED BY <1>1, <1>2, <2>2, <3>1, Amounts, LaterCounted
  <2>7. Grown'
    <3>1. Debt' = Debt BY <2>4 DEF Debt
    <3>2. Allowed' = Allowed + 2 * Interval
      <4>1. restarts \in Nat /\ faults \in Nat BY TrackerAssumption DEF Records, RecordsTyped
      <4>2. 2 * Interval * (faults + 1) = 2 * Interval * faults + 2 * Interval BY <4>1, Amounts
      <4>3. (2 * Interval + 1) * restarts \in Int /\ 2 * Interval * faults \in Int BY <4>1, Amounts
      <4> QED BY <1>1, <4>2, <4>3, Amounts DEF Allowed
    <3>3. /\ since < Interval + Num({"check"}) /\ Len(file) <= Allowed + since + Num({"count"}) + Debt
          /\ (Compacting = 2 => since = 0)
          BY DEF Records, Grown
    <3>4. Len(file)' <= Allowed' + since' + Num({"count"})' + Debt'
          BY <1>1, <2>1, <2>3, <2>4, <3>1, <3>2, <3>3, Amounts
    <3> QED BY <1>1, <2>4, <3>3, <3>4 DEF Grown
  <2>8. Covered' BY <1>1, <1>2, <1>5, <2>1, CoveredStep
  <2> QED BY <2>5, <2>6, <2>7, <2>8 DEF Records
<1> QED BY <1>3, <1>4, <1>5 DEF WriteFails

\* Whatever its threads owe the file, it is at most one allowance more.
LEMMA WithinAllowance == ASSUME Records PROVE Len(file) <= Allowed + (2 * Interval + 1)
<1>1. /\ since < Interval + Num({"check"}) /\ Len(file) <= Allowed + since + Num({"count"}) + Debt
      /\ (Compacting = 2 => since = 0)
      BY DEF Records, Grown
<1>2. /\ Num({"count"}) + Num({"check"}) + Compacting <= 2
      /\ Num({"count"}) \in 0..2 /\ Num({"check"}) \in 0..2 /\ Compacting \in 0..2
      BY AtMostTwo
<1>3. since + Num({"count"}) + Debt <= 2 * Interval + 1
  <2>1. CASE Compacting = 0 BY <2>1, <1>1, <1>2, Amounts DEF Debt
  <2>2. CASE Compacting = 1 BY <2>2, <1>1, <1>2, Amounts DEF Debt
  <2>3. CASE Compacting = 2 BY <2>3, <1>1, <1>2, Amounts DEF Debt
  <2> QED BY <2>1, <2>2, <2>3, <1>2
<1>4. /\ Num({"count"}) \in Int /\ since \in Int /\ Debt \in Int /\ Allowed \in Int
      /\ Len(file) \in Int /\ 2 * Interval + 1 \in Int
      BY <1>2, Amounts
<1>5. Len(file) <= Allowed + (since + Num({"count"}) + Debt) BY <1>1, <1>4
<1> QED BY <1>3, <1>4, <1>5

LEMMA RestartRecords ==
    ASSUME Records, TrackerEnds, restarts' = restarts + 1 PROVE Records'
<1>1. /\ tracked' = {} /\ since' = 0 /\ frame' = [t \in Threads |-> Ready]
      /\ UNCHANGED <<file, issued, faults>>
      /\ given_up' = given_up \cup UNION {ToSet(frame[t].lines) : t \in {t \in Threads : At(t, "rewrite")}}
      BY DEF TrackerEnds
<1>2. /\ DOMAIN frame' = Threads
      /\ \A t \in Threads : DOMAIN frame'[t] = Fields /\ frame'[t].pc = "ready" /\ frame'[t].lines = <<>>
      BY <1>1 DEF Ready, Fields
<1>3. Consumer \in Threads /\ Commander \in Threads BY RuntimeAssumption
<1>4. /\ Num(Reserving)' = 0 /\ Num({"count"})' = 0 /\ Num({"check"})' = 0 /\ Compacting' = 0
      BY <1>2, <1>3 DEF Num, In, Compacting, Reserving
<1>5. restarts \in Nat /\ faults \in Nat BY TrackerAssumption DEF Records, RecordsTyped
<1>6. RecordsTyped'
  <2>1. \A t \in Threads : /\ frame'[t].pc \in Steps /\ frame'[t].lines \in Seq(1..MaxRecords)
                           /\ Len(frame'[t].lines) <= MaxFileEntries
        BY <1>2, NoLines DEF Steps
  <2>2. file' \in Seq(1..MaxRecords) /\ faults' \in 0..MaxFaults /\ tracked' \subseteq Ips
        BY <1>1 DEF Records, RecordsTyped
  <2>3. restarts' \in Nat BY <1>5
  <2> QED BY <1>2, <2>1, <2>2, <2>3 DEF RecordsTyped
<1>7. Counted'
  <2>1. Num(Reserving) \in 0..2 BY NumRange
  <2>2. issued \in Nat /\ issued + Num(Reserving) <= MaxRecords /\ MaxRecords \in Nat
        BY TrackerAssumption DEF Records, Counted
  <2> QED BY <1>1, <1>4, <2>1, <2>2 DEF Counted
<1>8. Grown'
  <2>4. Allowed' = Allowed + (2 * Interval + 1)
    <3>1. (2 * Interval + 1) * (restarts + 1) = (2 * Interval + 1) * restarts + (2 * Interval + 1)
          BY <1>5, Amounts
    <3>2. (2 * Interval + 1) * restarts \in Int /\ 2 * Interval * faults \in Int BY <1>5, Amounts
    <3> QED BY <1>1, <3>1, <3>2, Amounts DEF Allowed
  <2>5. Debt' = 0 BY <1>4 DEF Debt
  <2>6. Len(file) <= Allowed + (2 * Interval + 1) BY WithinAllowance
  <2>7. Len(file)' = Len(file) BY <1>1
  <2>8. Len(file)' <= Allowed' + since' + Num({"count"})' + Debt'
    <3>1. Allowed' \in Int BY <2>4, Amounts
    <3> QED BY <1>1, <1>4, <2>4, <2>5, <2>6, <2>7, <3>1
  <2>9. since' < Interval + Num({"check"})' BY <1>1, <1>4, Amounts
  <2> QED BY <1>4, <2>8, <2>9 DEF Grown
<1>9. Covered'
  <2>1. \A t \in Threads : ~At(t, "truncate")' /\ ~At(t, "rewrite")' BY <1>2 DEF At
  <2>2. \A v \in Threads : At(v, "rewrite") => ToSet(frame[v].lines) \subseteq given_up' BY <1>1
  <2>3. Kept'
    <3> SUFFICES ASSUME NEW x \in 1..issued PROVE x \in ToSet(file) \/ x \in given_up'
        BY <1>1 DEF Kept, ToSet
    <3>1. \/ x \in ToSet(file) \/ x \in given_up
          \/ \E v \in Threads : At(v, "rewrite") /\ x \in ToSet(frame[v].lines)
          BY DEF Records, Covered, Kept
    <3> QED BY <3>1, <2>2, <1>1
  <2> QED BY <2>1, <2>3 DEF Covered
<1> QED BY <1>6, <1>7, <1>8, <1>9 DEF Records

LEMMA OtherRecords ==
    ASSUME Records, UNCHANGED <<tracker_vars, restarts>> PROVE Records'
<1>1. UNCHANGED <<tracked, file, since, frame, issued, faults, given_up, restarts>> BY DEF tracker_vars
<1>2. \A pcs : Num(pcs)' = Num(pcs) BY <1>1 DEF Num, In
<1>3. RecordsTyped' BY <1>1 DEF Records, RecordsTyped
<1>4. Counted' BY <1>1, <1>2 DEF Records, Counted
<1>5. Compacting' = Compacting BY <1>2 DEF Compacting
<1>6. Grown' BY <1>1, <1>2, <1>5 DEF Records, Grown, Debt, Allowed
<1>7. Covered' BY <1>1 DEF Records, Covered, Kept, At, ToSet
<1> QED BY <1>3, <1>4, <1>6, <1>7 DEF Records

LEMMA InitRecords == Init => Records
<1> SUFFICES ASSUME Init PROVE Records OBVIOUS
<1>1. /\ tracked = {} /\ since = 0 /\ frame = [t \in Threads |-> Ready]
      /\ file = <<>> /\ issued = 0 /\ faults = 0 /\ given_up = {} /\ restarts = 0
      BY DEF Init, TrackerInit
<1>2. /\ DOMAIN frame = Threads
      /\ \A t \in Threads : DOMAIN frame[t] = Fields /\ frame[t].pc = "ready" /\ frame[t].lines = <<>>
      BY <1>1 DEF Ready, Fields
<1>3. Consumer \in Threads /\ Commander \in Threads BY RuntimeAssumption
<1>4. /\ Num(Reserving) = 0 /\ Num({"count"}) = 0 /\ Num({"check"}) = 0 /\ Compacting = 0
      BY <1>2, <1>3 DEF Num, In, Compacting, Reserving
<1>5. MaxRecords \in Nat /\ MaxFaults \in Nat /\ Interval \in Nat \ {0} /\ MaxFileEntries \in Nat
      BY TrackerAssumption
<1>6. RecordsTyped
  <2>1. \A t \in Threads : /\ frame[t].pc \in Steps /\ frame[t].lines \in Seq(1..MaxRecords)
                           /\ Len(frame[t].lines) <= MaxFileEntries
        BY <1>2, NoLines DEF Steps
  <2>2. file \in Seq(1..MaxRecords) BY <1>1
  <2> QED BY <1>1, <1>2, <1>5, <2>1, <2>2 DEF RecordsTyped
<1>7. Counted BY <1>1, <1>4, <1>5 DEF Counted
<1>8. Grown
  <2>1. Debt = 0 BY <1>4 DEF Debt
  <2>2. Allowed = MaxFileEntries BY <1>1, <1>5 DEF Allowed
  <2>3. Len(file) = 0 BY <1>1
  <2> QED BY <1>1, <1>4, <1>5, <2>1, <2>2, <2>3 DEF Grown
<1>9. Covered BY <1>1, <1>2 DEF Covered, Kept, At
<1> QED BY <1>6, <1>7, <1>8, <1>9 DEF Records

LEMMA NextRecords == ASSUME Records, [Next]_vars PROVE Records'
<1>1. CASE Tick
      BY <1>1, OtherRecords DEF Tick
<1>2. CASE Capture
      BY <1>2, OtherRecords DEF Capture, RecordReceived, Put, RecordDropped, OnlyCapture
<1>3. CASE Consume
  <2>1. CASE Get BY <2>1, OtherRecords DEF Get
  <2>2. ASSUME NEW ip \in Ips, ProcessRecords(ip) PROVE Records'
    <3>1. Consumer \in Threads /\ Touch(Consumer, ip) /\ restarts' = restarts
          BY <2>2, RuntimeAssumption DEF ProcessRecords, runtime_vars
    <3> QED BY <3>1, TouchRecords
  <2>3. CASE ProcessReturns BY <2>3, OtherRecords DEF ProcessReturns
  <2>4. CASE ConsumerEnds BY <2>4, OtherRecords DEF ConsumerEnds
  <2> QED BY <1>3, <2>1, <2>2, <2>3, <2>4 DEF Consume
<1>4. CASE Command
  <2>1. ASSUME NEW ip \in Ips, ApplyRecords(ip) PROVE Records'
    <3>1. Commander \in Threads /\ Touch(Commander, ip) /\ restarts' = restarts
          BY <2>1, RuntimeAssumption DEF ApplyRecords, runtime_vars
    <3> QED BY <3>1, TouchRecords
  <2>2. CASE Reconnect BY <2>2, ReconnectRecords
  <2> QED BY <1>4, <2>1, <2>2 DEF Command
<1>5. CASE Recording
  <2>1. PICK t \in Threads : RecordActivity(t) BY <1>5 DEF Recording
  <2>2. restarts' = restarts BY <1>5 DEF Recording, runtime_vars
  <2> QED BY <2>1, <2>2, PruneRecords, SortRecords, PopRecords, AppendRecords, CountRecords,
             CheckRecords, ReadRecords, TruncateRecords, RewriteRecords, ReadFailsRecords,
             WriteFailsRecords
          DEF RecordActivity
<1>6. CASE Telemetry
      BY <1>6, OtherRecords DEF Telemetry, SnapshotBegins, Snapshot, OnlyTelemetry
<1>7. CASE Restart
      BY <1>7, RestartRecords DEF Restart
<1>8. CASE UNCHANGED vars
      BY <1>8, OtherRecords DEF vars, runtime_vars
<1> QED BY <1>1, <1>2, <1>3, <1>4, <1>5, <1>6, <1>7, <1>8 DEF Next

LEMMA RecordsAreSound == Records => TrackerFileSound
<1> SUFFICES ASSUME Records PROVE TrackerFileSound OBVIOUS
<1>1. FileBounded
  <2>4. Len(file) <= Allowed + (2 * Interval + 1) BY WithinAllowance
  <2>5. MaxFileEntries + (2 * Interval + 1) * (1 + restarts) + 2 * Interval * faults
        = Allowed + (2 * Interval + 1)
    <3>1. restarts \in Nat /\ faults \in Nat BY TrackerAssumption DEF Records, RecordsTyped
    <3>2. (2 * Interval + 1) * (1 + restarts) = (2 * Interval + 1) * restarts + (2 * Interval + 1)
          BY <3>1, Amounts
    <3>3. (2 * Interval + 1) * restarts \in Int /\ 2 * Interval * faults \in Int BY <3>1, Amounts
    <3> QED BY <3>2, <3>3, Amounts DEF Allowed
  <2> QED BY <2>4, <2>5 DEF FileBounded
<1>2. HistoryKept
  <2> DEFINE hands == UNION {ToSet(frame[t].lines) : t \in {t \in Threads : At(t, "rewrite")}}
  <2>1. \A v \in Threads : At(v, "rewrite") => ToSet(frame[v].lines) \subseteq hands OBVIOUS
  <2>2. HistoryKept = (1..issued \subseteq ToSet(file) \cup given_up \cup hands)
        BY Zenon DEF HistoryKept
  <2> HIDE DEF hands
  <2>3. ASSUME NEW x \in 1..issued PROVE x \in ToSet(file) \cup given_up \cup hands
    <3>1. \/ x \in ToSet(file) \/ x \in given_up
          \/ \E v \in Threads : At(v, "rewrite") /\ x \in ToSet(frame[v].lines)
          BY DEF Records, Covered, Kept
    <3> QED BY <3>1, <2>1
  <2> QED BY <2>2, <2>3
<1> QED BY <1>1, <1>2 DEF TrackerFileSound

\* For any limits and any number of records, errors and restarts: the file stays within the
\* bound, and a record that is in nobody's hands is in the file or was given up.
THEOREM TrackerFileKept == Spec => []TrackerFileSound
<1>1. Init => Records BY InitRecords
<1>2. Records /\ [Next]_vars => Records' BY NextRecords
<1>3. Records => TrackerFileSound BY RecordsAreSound
<1> QED BY <1>1, <1>2, <1>3, PTL DEF Spec
-----------------------------------------------------------------------------
(* The packets and the windows.                                             *)

\* The time the next snapshot will trim with, if it has been read.
Reading == IF telemetry.pc = "lock" THEN telemetry.at ELSE now

PacketsTyped ==
    /\ queue \in 0..QueueMax /\ holding \in BOOLEAN /\ ended \in BOOLEAN
    /\ capture \in [pc : {"sniff", "put", "dropped"}, at : Nat]
    /\ telemetry \in [pc : {"sleep", "lock"}, at : Nat] /\ telemetry.at <= now
    /\ now \in Nat /\ captured \in Nat
    /\ totals \in [received : Nat, processed : Nat, dropped : Nat]
    /\ drop_times \in Seq(Nat) /\ drops \subseteq Nat

Accounted == totals.received = totals.processed + totals.dropped + queue + InHands

\* The window holds recorded drops, and every drop it does not hold is older than one it
\* does, or too old for any snapshot to come.
Windowed ==
    /\ \A i \in DOMAIN drop_times : drop_times[i] \in drops
    /\ \A s \in drops : (\E i \in DOMAIN drop_times : s <= drop_times[i]) \/ s <= Reading - Window

Packets == PacketsTyped /\ Accounted /\ Windowed

\* A set of numbers has a least one.
LEMMA LeastNumber ==
    ASSUME NEW T, T \subseteq Nat, T # {}
    PROVE  \E m \in T : \A k \in T : m <= k
<1> DEFINE R == OpToRel(<, Nat)
<1>1. IsWellFoundedOn(R, Nat) BY NatLessThanWellFounded
<1>2. \A m, k \in Nat : k < m => <<k, m>> \in R BY DEF OpToRel
<1> HIDE DEF R
<1>3. PICK m \in T : \A k \in T : ~(<<k, m>> \in R) BY <1>1, WFMin
<1>4. \A k \in T : ~(k < m) BY <1>2, <1>3
<1>5. T \subseteq Int OBVIOUS
<1>6. \A k \in T : m <= k BY <1>4, <1>5
<1> QED BY <1>6

\* Trimming removes expired times only, up to the first that is not.
LEMMA Trimmed ==
    ASSUME NEW s \in Seq(Nat), NEW at \in Nat
    PROVE  LET p == Trim(s, at)
           IN  /\ p \in Seq(Nat)
               /\ \A i \in DOMAIN p : \E j \in DOMAIN s : p[i] = s[j]
               /\ \A j \in DOMAIN s : Expired(s[j], at) \/ \E i \in DOMAIN p : p[i] = s[j]
               /\ p # <<>> => 1 \in DOMAIN p /\ ~Expired(p[1], at)
<1> DEFINE p == Trim(s, at)
           First(n) == /\ \A i \in 1..(n - 1) : Expired(s[i], at)
                       /\ n <= Len(s) => ~Expired(s[n], at)
           T == {n \in 1..(Len(s) + 1) : n <= Len(s) => ~Expired(s[n], at)}
<1>1. Len(s) \in Nat /\ DOMAIN s = 1..Len(s) /\ \A i \in 1..Len(s) : s[i] \in Nat
      BY LenProperties
<1>2. PICK m \in T : \A k \in T : m <= k
  <2>1. T \subseteq Nat BY <1>1
  <2>2. Len(s) + 1 \in T BY <1>1
  <2> HIDE DEF T
  <2> QED BY <2>1, <2>2, LeastNumber
<1>3. m \in 1..(Len(s) + 1) /\ First(m)
  <2>1. m \in 1..(Len(s) + 1) /\ (m <= Len(s) => ~Expired(s[m], at)) OBVIOUS
  <2>2. ASSUME NEW i \in 1..(m - 1) PROVE Expired(s[i], at)
    <3>1. i \in 1..(Len(s) + 1) /\ i <= Len(s) /\ ~(m <= i) BY <1>1, <2>1
    <3>2. i \notin T BY <1>2, <3>1
    <3> QED BY <3>1, <3>2
  <2> QED BY <2>1, <2>2
<1> DEFINE n == CHOOSE n \in 1..(Len(s) + 1) : First(n)
<1>4. n \in 1..(Len(s) + 1) /\ First(n) BY <1>3
<1>5. p = SubSeq(s, n, Len(s)) BY DEF Trim
<1> HIDE DEF n, p, T
<1>6. n \in Nat \ {0} BY <1>1, <1>4
<1>7. /\ p \in Seq(Nat)
      /\ Len(p) = IF n <= Len(s) THEN Len(s) - n + 1 ELSE 0
      /\ \A i \in 1..(Len(s) - n + 1) : p[i] = s[n + i - 1]
  <2>1. \A i \in n..Len(s) : s[i] \in Nat BY <1>1, <1>6
  <2> QED BY <1>1, <1>5, <1>6, <2>1, SubSeqProperties
<1>8. DOMAIN p = 1..(Len(s) - n + 1)
  <2>1. DOMAIN p = 1..Len(p) BY <1>7, LenProperties
  <2>2. Len(p) = Len(s) - n + 1 BY <1>1, <1>4, <1>7
  <2> QED BY <2>1, <2>2
<1>9. ASSUME NEW i \in DOMAIN p PROVE \E j \in DOMAIN s : p[i] = s[j]
  <2>1. n + i - 1 \in DOMAIN s BY <1>1, <1>6, <1>8
  <2> QED BY <1>7, <1>8, <2>1
<1>10. ASSUME NEW j \in DOMAIN s PROVE Expired(s[j], at) \/ \E i \in DOMAIN p : p[i] = s[j]
  <2>1. CASE j < n
    <3>1. j \in 1..(n - 1) BY <1>1, <1>6, <2>1
    <3> QED BY <1>4, <3>1
  <2>2. CASE ~(j < n)
    <3>1. j - n + 1 \in DOMAIN p /\ n + (j - n + 1) - 1 = j BY <1>1, <1>6, <1>8, <2>2
    <3>2. p[j - n + 1] = s[j] BY <1>7, <1>8, <3>1
    <3> QED BY <3>1, <3>2
  <2> QED BY <2>1, <2>2
<1>11. ASSUME p # <<>> PROVE 1 \in DOMAIN p /\ ~Expired(p[1], at)
  <2>1. Len(p) # 0 BY <1>7, <1>11, EmptySeq
  <2>2. n <= Len(s) BY <1>7, <2>1
  <2>3. 1 \in 1..(Len(s) - n + 1) /\ n + 1 - 1 = n BY <1>1, <1>6, <2>2
  <2>4. p[1] = s[n] BY <1>7, <2>3
  <2> QED BY <1>4, <1>8, <2>2, <2>3, <2>4
<1> QED BY <1>7, <1>9, <1>10, <1>11 DEF p

LEMMA InitPackets == Init => Packets
<1> SUFFICES ASSUME Init PROVE Packets OBVIOUS
<1>1. QueueMax \in Nat BY RuntimeAssumption
<1>2. drop_times \in Seq(Nat) /\ DOMAIN drop_times = {} BY DEF Init, ProcessInit
<1>3. PacketsTyped
  <2>1. capture \in [pc : {"sniff", "put", "dropped"}, at : Nat] BY DEF Init, ProcessInit
  <2>2. telemetry \in [pc : {"sleep", "lock"}, at : Nat] /\ telemetry.at = 0 BY DEF Init, ProcessInit
  <2>3. totals \in [received : Nat, processed : Nat, dropped : Nat] BY DEF Init, ProcessInit
  <2>4. queue = 0 /\ now = 0 /\ captured = 0 /\ drops = {} BY DEF Init, ProcessInit
  <2>5. holding \in BOOLEAN /\ ended \in BOOLEAN BY Zenon DEF Init, ProcessInit
  <2>6. telemetry.at <= now /\ now \in Nat /\ queue \in 0..QueueMax BY <1>1, <2>2, <2>4
  <2> QED BY <1>2, <2>1, <2>2, <2>3, <2>4, <2>5, <2>6 DEF PacketsTyped
<1>4. Accounted BY DEF Init, ProcessInit, Accounted, InHands
<1>5. Windowed BY <1>2 DEF Init, ProcessInit, Windowed
<1> QED BY <1>3, <1>4, <1>5 DEF Packets

LEMMA SamePackets ==
    ASSUME Packets, UNCHANGED <<now, queue, captured, capture, holding, totals, drop_times, drops,
                                telemetry>>,
           ended' \in BOOLEAN
    PROVE  Packets'
<1>1. Windowed' BY DEF Packets, Windowed, Reading
<1> QED BY <1>1 DEF Packets, PacketsTyped, Accounted, InHands

\* What has expired stays so.
LEMMA StillExpired ==
    ASSUME NEW a \in Int, NEW b \in Int, NEW w \in Int, NEW s \in Int, a <= b, s <= a - w
    PROVE  s <= b - w
OBVIOUS

\* A later reading of the clock leaves no drop behind.
LEMMA LaterWindow ==
    ASSUME Packets, UNCHANGED <<drop_times, drops>>,
           Reading' \in Nat, Reading <= Reading'
    PROVE  Windowed'
<1>1. Reading \in Nat BY DEF Packets, PacketsTyped, Reading
<1>2. Window \in Nat /\ drops \subseteq Int BY RuntimeAssumption DEF Packets, PacketsTyped
<1>3. ASSUME NEW s \in drops
      PROVE  (\E i \in DOMAIN drop_times : s <= drop_times[i]) \/ s <= Reading' - Window
  <2>1. (\E i \in DOMAIN drop_times : s <= drop_times[i]) \/ s <= Reading - Window
        BY DEF Packets, Windowed
  <2>2. s \in Int /\ Window \in Int /\ Reading \in Int /\ Reading' \in Int BY <1>1, <1>2
  <2>3. s <= Reading - Window => s <= Reading' - Window BY <2>2, StillExpired
  <2> QED BY <2>1, <2>3
<1>4. \A i \in DOMAIN drop_times : drop_times[i] \in drops BY DEF Packets, Windowed
<1> QED BY <1>3, <1>4 DEF Windowed

\* The steps of the capture thread before a drop and those of the consumer.
LEMMA TransferPackets ==
    ASSUME Packets, RecordReceived \/ Put \/ Get \/ ProcessReturns
    PROVE  Packets'
<1>1. UNCHANGED <<now, drop_times, drops, telemetry, ended>>
      BY DEF RecordReceived, Put, Get, ProcessReturns, OnlyCapture, collector_vars
<1>2. Reading' = Reading BY <1>1 DEF Reading
<1>3. Windowed' BY <1>1, <1>2 DEF Packets, Windowed
<1>4. QueueMax \in Nat BY RuntimeAssumption
<1>5. /\ totals.received \in Nat /\ totals.processed \in Nat /\ totals.dropped \in Nat
      /\ queue \in Nat /\ now \in Nat
      BY <1>4 DEF Packets, PacketsTyped
<1>6. CASE RecordReceived
  <2>1. /\ captured' = captured + 1 /\ totals' = [totals EXCEPT !.received = @ + 1]
        /\ capture.pc = "sniff" /\ capture' = [pc |-> "put", at |-> 0]
        /\ UNCHANGED <<queue, holding>>
        BY <1>6 DEF RecordReceived, CaptureGoes, OnlyCapture
  <2>2. /\ totals'.received = totals.received + 1 /\ totals'.processed = totals.processed
        /\ totals'.dropped = totals.dropped
        /\ totals' \in [received : Nat, processed : Nat, dropped : Nat]
        BY <2>1, <1>5 DEF Packets, PacketsTyped
  <2>3. PacketsTyped' BY <1>1, <2>1, <2>2 DEF Packets, PacketsTyped
  <2>4. Accounted' BY <1>5, <2>1, <2>2 DEF Packets, Accounted, InHands
  <2> QED BY <1>3, <2>3, <2>4 DEF Packets
<1>7. CASE Put
  <2>1. capture.pc = "put" /\ UNCHANGED <<captured, totals, holding>>
        BY <1>7 DEF Put, OnlyCapture, collector_vars
  <2>2. \/ queue < QueueMax /\ queue' = queue + 1 /\ capture' = [pc |-> "sniff", at |-> 0]
        \/ queue' = queue /\ capture' = [pc |-> "dropped", at |-> now]
        BY <1>7 DEF Put, CaptureGoes
  <2>3. PacketsTyped' BY <1>1, <1>4, <1>5, <2>1, <2>2 DEF Packets, PacketsTyped
  <2>4. Accounted' BY <1>5, <2>1, <2>2 DEF Packets, Accounted, InHands
  <2> QED BY <1>3, <2>3, <2>4 DEF Packets
<1>8. CASE Get
  <2>1. /\ ~holding /\ queue > 0 /\ queue' = queue - 1 /\ holding' = TRUE
        /\ UNCHANGED <<captured, capture, totals>>
        BY <1>8 DEF Get, collector_vars
  <2>2. PacketsTyped' BY <1>1, <1>4, <1>5, <2>1 DEF Packets, PacketsTyped
  <2>3. Accounted' BY <1>5, <2>1 DEF Packets, Accounted, InHands
  <2> QED BY <1>3, <2>2, <2>3 DEF Packets
<1>9. CASE ProcessReturns
  <2>1. /\ holding /\ holding' = FALSE /\ totals' = [totals EXCEPT !.processed = @ + 1]
        /\ UNCHANGED <<captured, capture, queue>>
        BY <1>9 DEF ProcessReturns
  <2>2. /\ totals'.received = totals.received /\ totals'.processed = totals.processed + 1
        /\ totals'.dropped = totals.dropped
        /\ totals' \in [received : Nat, processed : Nat, dropped : Nat]
        BY <2>1, <1>5 DEF Packets, PacketsTyped
  <2>3. PacketsTyped' BY <1>1, <2>1, <2>2 DEF Packets, PacketsTyped
  <2>4. Accounted' BY <1>5, <2>1, <2>2 DEF Packets, Accounted, InHands
  <2> QED BY <1>3, <2>3, <2>4 DEF Packets
<1> QED BY <1>6, <1>7, <1>8, <1>9

\* A drop is appended with the time read before the lock and trims with that time, which may
\* be older than the newest of the window.
LEMMA DropPackets ==
    ASSUME Packets, RecordDropped PROVE Packets'
<1> DEFINE c == capture.at
           a == Append(drop_times, c)
<1>1. /\ capture.pc = "dropped" /\ capture' = [pc |-> "sniff", at |-> 0]
      /\ totals' = [totals EXCEPT !.dropped = @ + 1]
      /\ drop_times' = Trim(a, c) /\ drops' = drops \cup {c}
      /\ UNCHANGED <<now, queue, captured, holding, telemetry, ended>>
      BY DEF RecordDropped, CaptureGoes, OnlyCapture
<1>2. /\ c \in Nat /\ drop_times \in Seq(Nat) /\ drops \subseteq Nat /\ Window \in Nat \ {0}
      BY RuntimeAssumption DEF Packets, PacketsTyped
<1>3. /\ a \in Seq(Nat) /\ Len(a) = Len(drop_times) + 1
      /\ \A i \in 1..Len(drop_times) : a[i] = drop_times[i]
      /\ a[Len(drop_times) + 1] = c
      BY <1>2, AppendProperties
<1>4. /\ Len(drop_times) \in Nat /\ DOMAIN drop_times = 1..Len(drop_times)
      /\ DOMAIN a = 1..(Len(drop_times) + 1)
      BY <1>2, <1>3, LenProperties
<1>5. \A i \in DOMAIN drop_times : i \in DOMAIN a /\ a[i] = drop_times[i] BY <1>3, <1>4
<1>6. Len(drop_times) + 1 \in DOMAIN a BY <1>4
<1>7. \A i \in DOMAIN a : a[i] \in drops \cup {c}
  <2>1. \A i \in DOMAIN a : i \in DOMAIN drop_times \/ i = Len(drop_times) + 1 BY <1>4
  <2> QED BY <1>3, <1>4, <2>1 DEF Packets, Windowed
<1> HIDE DEF a, c
<1> DEFINE p == Trim(a, c)
<1>8. /\ p \in Seq(Nat)
      /\ \A i \in DOMAIN p : \E j \in DOMAIN a : p[i] = a[j]
      /\ \A j \in DOMAIN a : Expired(a[j], c) \/ \E i \in DOMAIN p : p[i] = a[j]
      BY <1>2, <1>3, Trimmed
<1>9. drop_times' = p BY <1>1
<1> HIDE DEF p
<1>10. \E i \in DOMAIN p : p[i] = c
  <2>1. ~Expired(c, c) BY <1>2 DEF Expired
  <2> QED BY <1>3, <1>6, <1>8, <2>1
<1>11. Windowed'
  <2>1. Reading' = Reading BY <1>1 DEF Reading
  <2>2. \A i \in DOMAIN p : p[i] \in drops' BY <1>1, <1>7, <1>8
  <2>3. ASSUME NEW s \in drops'
        PROVE  (\E i \in DOMAIN p : s <= p[i]) \/ s <= Reading - Window
    <3>1. CASE s = c BY <3>1, <1>10, <1>2
    <3>2. CASE s \in drops
      <4>1. (\E i \in DOMAIN drop_times : s <= drop_times[i]) \/ s <= Reading - Window
            BY <3>2 DEF Packets, Windowed
      <4>2. ASSUME NEW i \in DOMAIN drop_times, s <= drop_times[i]
            PROVE  \E k \in DOMAIN p : s <= p[k]
        <5>1. i \in DOMAIN a /\ a[i] = drop_times[i] BY <1>5
        <5>2. CASE \E k \in DOMAIN p : p[k] = a[i] BY <5>1, <5>2, <4>2
        <5>3. CASE Expired(a[i], c)
          <6>1. drop_times[i] \in Nat BY <1>2, <1>4
          <6>2. s \in Nat BY <1>2, <3>2
          <6>3. s <= c BY <5>1, <5>3, <6>1, <6>2, <4>2, <1>2 DEF Expired
          <6> QED BY <6>3, <1>10
        <5> QED BY <5>1, <5>2, <5>3, <1>8
      <4> QED BY <4>1, <4>2
    <3> QED BY <3>1, <3>2, <1>1
  <2> QED BY <1>9, <2>1, <2>2, <2>3 DEF Windowed
<1>12. /\ totals.received \in Nat /\ totals.processed \in Nat /\ totals.dropped \in Nat
       /\ queue \in Nat
       BY RuntimeAssumption DEF Packets, PacketsTyped
<1>13. /\ totals'.received = totals.received /\ totals'.processed = totals.processed
       /\ totals'.dropped = totals.dropped + 1
       /\ totals' \in [received : Nat, processed : Nat, dropped : Nat]
       BY <1>1, <1>12 DEF Packets, PacketsTyped
<1>14. PacketsTyped'
  <2>1. drops' \subseteq Nat BY <1>1, <1>2
  <2> QED BY <1>1, <1>8, <1>9, <1>13, <2>1 DEF Packets, PacketsTyped
<1>15. Accounted' BY <1>1, <1>12, <1>13 DEF Packets, Accounted, InHands
<1> QED BY <1>11, <1>14, <1>15 DEF Packets

\* Under the lock the window is trimmed with the time read before it, and says then whether a
\* drop was recorded since.
LEMMA SnapshotTrims ==
    ASSUME Packets, Snapshot
    PROVE  /\ drop_times' \in Seq(Nat)
           /\ Windowed'
           /\ (drop_times' # <<>>) = (\E s \in drops : s > telemetry.at - Window)
<1> DEFINE at == telemetry.at
           p == Trim(drop_times, at)
<1>1. /\ telemetry.pc = "lock" /\ telemetry' = [pc |-> "sleep", at |-> 0]
      /\ drop_times' = p /\ UNCHANGED <<now, drops>>
      BY DEF Snapshot, OnlyTelemetry
<1>2. /\ at \in Nat /\ now \in Nat /\ at <= now /\ drop_times \in Seq(Nat) /\ drops \subseteq Nat
      /\ Window \in Nat /\ Reading = at /\ Reading' = now
      BY <1>1, RuntimeAssumption DEF Packets, PacketsTyped, Reading
<1>3. /\ p \in Seq(Nat)
      /\ \A i \in DOMAIN p : \E j \in DOMAIN drop_times : p[i] = drop_times[j]
      /\ \A j \in DOMAIN drop_times : Expired(drop_times[j], at) \/ \E i \in DOMAIN p : p[i] = drop_times[j]
      /\ p # <<>> => 1 \in DOMAIN p /\ ~Expired(p[1], at)
      BY <1>2, Trimmed
<1> HIDE DEF at, p
<1>4. \A j \in DOMAIN drop_times : drop_times[j] \in drops /\ drop_times[j] \in Nat
      BY <1>2 DEF Packets, Windowed
<1>5. \A i \in DOMAIN p : p[i] \in drops /\ p[i] \in Nat BY <1>3, <1>4
<1>6. \A s \in drops : (\E i \in DOMAIN drop_times : s <= drop_times[i]) \/ s <= at - Window
      BY <1>2 DEF Packets, Windowed
<1>7. ASSUME NEW s \in drops PROVE (\E i \in DOMAIN p : s <= p[i]) \/ s <= at - Window
  <2>1. s \in Nat BY <1>2
  <2>2. ASSUME NEW i \in DOMAIN drop_times, s <= drop_times[i]
        PROVE  (\E k \in DOMAIN p : s <= p[k]) \/ s <= at - Window
    <3>1. CASE \E k \in DOMAIN p : p[k] = drop_times[i] BY <3>1, <2>2
    <3>2. CASE Expired(drop_times[i], at)
      <4>1. drop_times[i] \in Nat BY <1>4
      <4> QED BY <4>1, <2>1, <2>2, <3>2, <1>2 DEF Expired
    <3> QED BY <3>1, <3>2, <1>3
  <2> QED BY <2>2, <1>6
<1>8. Windowed'
  <2>1. ASSUME NEW s \in drops PROVE (\E i \in DOMAIN p : s <= p[i]) \/ s <= now - Window
    <3>1. s \in Int /\ at \in Int /\ now \in Int /\ Window \in Int BY <1>2
    <3>2. s <= at - Window => s <= now - Window BY <3>1, <1>2
    <3> QED BY <3>2, <1>7
  <2> QED BY <1>1, <1>2, <1>5, <2>1 DEF Windowed
<1>9. (p # <<>>) = (\E s \in drops : s > at - Window)
  <2>1. ASSUME p # <<>> PROVE \E s \in drops : s > at - Window
    <3>1. 1 \in DOMAIN p /\ ~Expired(p[1], at) BY <2>1, <1>3
    <3>2. p[1] \in drops /\ p[1] \in Nat BY <3>1, <1>5
    <3>3. p[1] > at - Window BY <3>1, <3>2, <1>2 DEF Expired
    <3> QED BY <3>2, <3>3
  <2>2. ASSUME NEW s \in drops, s > at - Window PROVE p # <<>>
    <3>1. s \in Int /\ at - Window \in Int BY <1>2
    <3>2. ~(s <= at - Window) BY <3>1, <2>2
    <3>3. \E i \in DOMAIN p : s <= p[i] BY <3>2, <1>7
    <3>4. DOMAIN p # {} BY <3>3
    <3> QED BY <3>4
  <2> QED BY <2>1, <2>2
<1> QED BY <1>1, <1>3, <1>8, <1>9 DEF at

LEMMA NextPackets == ASSUME Packets, [Next]_vars PROVE Packets'
<1>1. CASE Tick
  <2>1. now' = now + 1 /\ UNCHANGED <<queue, captured, capture, holding, totals, drop_times, drops,
                                      telemetry, ended>>
        BY <1>1 DEF Tick, collector_vars
  <2>2. Reading' \in Nat /\ Reading <= Reading' BY <2>1 DEF Packets, PacketsTyped, Reading
  <2>3. Windowed' BY <2>1, <2>2, LaterWindow
  <2>4. PacketsTyped'
    <3>1. telemetry.at \in Nat /\ now \in Nat /\ telemetry.at <= now BY DEF Packets, PacketsTyped
    <3>2. telemetry'.at <= now' /\ now' \in Nat BY <2>1, <3>1
    <3> QED BY <2>1, <3>2 DEF Packets, PacketsTyped
  <2>5. Accounted' BY <2>1 DEF Packets, Accounted, InHands
  <2> QED BY <2>3, <2>4, <2>5 DEF Packets
<1>2. CASE Capture
      BY <1>2, TransferPackets, DropPackets DEF Capture
<1>3. CASE Consume
  <2>1. CASE Get \/ ProcessReturns BY <2>1, TransferPackets
  <2>2. ASSUME NEW ip \in Ips, ProcessRecords(ip) PROVE Packets'
        BY <2>2, SamePackets DEF ProcessRecords, runtime_vars, collector_vars, Packets, PacketsTyped
  <2>3. CASE ConsumerEnds
        BY <2>3, SamePackets DEF ConsumerEnds, collector_vars
  <2> QED BY <1>3, <2>1, <2>2, <2>3 DEF Consume
<1>4. CASE Command
  <2>1. UNCHANGED runtime_vars BY <1>4 DEF Command, ApplyRecords, Reconnect
  <2> QED BY <2>1, SamePackets DEF runtime_vars, collector_vars, Packets, PacketsTyped
<1>5. CASE Recording
  <2>1. UNCHANGED runtime_vars BY <1>5 DEF Recording
  <2> QED BY <2>1, SamePackets DEF runtime_vars, collector_vars, Packets, PacketsTyped
<1>6. CASE SnapshotBegins
  <2>1. /\ telemetry.pc = "sleep" /\ telemetry' = [pc |-> "lock", at |-> now]
        /\ UNCHANGED <<now, queue, captured, capture, holding, totals, drop_times, drops, ended>>
        BY <1>6 DEF SnapshotBegins, OnlyTelemetry
  <2>2. now \in Nat /\ Reading = now /\ Reading' = now
        BY <2>1 DEF Packets, PacketsTyped, Reading
  <2>3. Windowed' BY <2>1, <2>2, LaterWindow
  <2>4. PacketsTyped' BY <2>1, <2>2 DEF Packets, PacketsTyped
  <2>5. Accounted' BY <2>1 DEF Packets, Accounted, InHands
  <2> QED BY <2>3, <2>4, <2>5 DEF Packets
<1>7. CASE Snapshot
  <2>1. /\ telemetry' = [pc |-> "sleep", at |-> 0]
        /\ UNCHANGED <<now, queue, captured, capture, holding, totals, drops, ended>>
        BY <1>7 DEF Snapshot, OnlyTelemetry
  <2>2. drop_times' \in Seq(Nat) /\ Windowed' BY <1>7, SnapshotTrims
  <2>3. PacketsTyped' BY <2>1, <2>2 DEF Packets, PacketsTyped
  <2>4. Accounted' BY <2>1 DEF Packets, Accounted, InHands
  <2> QED BY <2>2, <2>3, <2>4 DEF Packets
<1>8. CASE Restart
  <2>1. /\ queue' = 0 /\ holding' = FALSE /\ capture' = [pc |-> "sniff", at |-> 0]
        /\ totals' = [received |-> 0, processed |-> 0, dropped |-> 0]
        /\ drop_times' = <<>> /\ drops' = {} /\ telemetry' = [pc |-> "sleep", at |-> 0]
        /\ ended' = FALSE /\ UNCHANGED <<now, captured>>
        BY <1>8 DEF Restart
  <2>2. now \in Nat /\ captured \in Nat /\ QueueMax \in Nat
        BY RuntimeAssumption DEF Packets, PacketsTyped
  <2>3. drop_times' \in Seq(Nat) /\ DOMAIN drop_times' = {} BY <2>1
  <2>4. /\ capture' \in [pc : {"sniff", "put", "dropped"}, at : Nat]
        /\ telemetry' \in [pc : {"sleep", "lock"}, at : Nat] /\ telemetry'.at <= now'
        /\ totals' \in [received : Nat, processed : Nat, dropped : Nat]
        BY <2>1, <2>2
  <2>5. PacketsTyped'
    <3>1. holding' \in BOOLEAN /\ ended' \in BOOLEAN BY <2>1, Zenon
    <3>2. queue' \in 0..QueueMax /\ now' \in Nat /\ captured' \in Nat BY <2>1, <2>2
    <3>3. drops' \subseteq Nat BY <2>1
    <3> QED BY <2>3, <2>4, <3>1, <3>2, <3>3 DEF PacketsTyped
  <2>6. Accounted' BY <2>1 DEF Accounted, InHands
  <2>7. Windowed' BY <2>1, <2>3 DEF Windowed
  <2> QED BY <2>5, <2>6, <2>7 DEF Packets
<1>9. CASE UNCHANGED vars
      BY <1>9, SamePackets DEF vars, runtime_vars, collector_vars, Packets, PacketsTyped
<1> QED BY <1>1, <1>2, <1>3, <1>4, <1>5, <1>6, <1>7, <1>8, <1>9 DEF Next, Telemetry

\* For any limits: the variables of the threads keep their types, and the queue its size.
THEOREM RuntimeTypes == Spec => []TypeOK
<1>1. Init => Records /\ Packets BY InitRecords, InitPackets
<1>2. Records /\ Packets /\ [Next]_vars => (Records /\ Packets)' BY NextRecords, NextPackets
<1>3. Records /\ Packets => TypeOK
  <2> SUFFICES ASSUME Records, Packets PROVE TypeOK OBVIOUS
  <2>1. since \in 0..MaxRecords /\ issued \in 0..MaxRecords
    <3>1. Num(Reserving) \in 0..2 /\ Num({"count"}) \in 0..2 BY NumRange
    <3>2. MaxRecords \in Nat BY TrackerAssumption
    <3> QED BY <3>1, <3>2 DEF Records, Counted
  <2>2. /\ tracked \subseteq Ips /\ faults \in 0..MaxFaults /\ file \in Seq(1..MaxRecords)
        /\ \A t \in Threads : frame[t].pc \in Steps
        BY DEF Records, RecordsTyped
  <2>3. /\ queue \in 0..QueueMax /\ holding \in BOOLEAN /\ ended \in BOOLEAN
        /\ capture.pc \in {"sniff", "put", "dropped"} /\ telemetry.pc \in {"sleep", "lock"}
        BY DEF Packets, PacketsTyped
  <2> QED BY <2>1, <2>2, <2>3 DEF TypeOK, Steps
<1> QED BY <1>1, <1>2, <1>3, PTL DEF Spec

\* For any queue, window and number of packets: the counters of a snapshot add up with the
\* queue and the packets in the threads' hands, and it reports packet loss exactly when a drop
\* was recorded within the window before the time it had read.
THEOREM SnapshotsHonest == Spec => SnapshotHonest
<1> DEFINE Taken == telemetry.pc = "lock" /\ telemetry'.pc = "sleep" /\ restarts' = restarts
           Honest == /\ totals.received = totals.processed + totals.dropped + queue + InHands
                     /\ (drop_times' # <<>>) = (\E s \in drops : s > telemetry.at - Window)
<1>1. Init => Records /\ Packets BY InitRecords, InitPackets
<1>2. Records /\ Packets /\ [Next]_vars => (Records /\ Packets)' BY NextRecords, NextPackets
<1>3. Records /\ Packets /\ [Next]_vars => [Taken => Honest]_vars
  <2> SUFFICES ASSUME Records, Packets, Next, Taken PROVE Honest OBVIOUS
  <2>1. Snapshot
    <3>1. ~(telemetry' = telemetry) OBVIOUS
    <3>2. ~SnapshotBegins BY DEF SnapshotBegins
    <3>3. ~Restart
      <4>1. ASSUME Restart PROVE FALSE
        <5>1. restarts \in Nat BY DEF Records, RecordsTyped
        <5> QED BY <4>1, <5>1 DEF Restart
      <4> QED BY <4>1
    <3>4. ~Tick /\ ~Capture /\ ~Consume /\ ~Command /\ ~Recording
          BY <3>1 DEF Tick, Capture, RecordReceived, Put, RecordDropped, OnlyCapture, Consume, Get,
                      ProcessRecords, ProcessReturns, ConsumerEnds, Command, ApplyRecords, Reconnect,
                      Recording, runtime_vars
    <3> QED BY <3>2, <3>3, <3>4 DEF Next, Telemetry
  <2>2. totals.received = totals.processed + totals.dropped + queue + InHands
        BY DEF Packets, Accounted
  <2>3. (drop_times' # <<>>) = (\E s \in drops : s > telemetry.at - Window)
        BY <2>1, SnapshotTrims
  <2> QED BY <2>2, <2>3
<1> QED BY <1>1, <1>2, <1>3, PTL DEF Spec, SnapshotHonest
=============================================================================
