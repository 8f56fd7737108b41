----------------------- MODULE SessionPipelineProofs -----------------------
(***************************************************************************)
(* What a session pipeline guarantees for every set of five-tuples, every  *)
(* number of packets, and all timeouts and prediction intervals.           *)
(***************************************************************************)
EXTENDS SessionPipeline, FiniteSetTheorems, SequenceTheorems, WellFoundedInduction, TLAPS

\* The sessions that wait to be handed over are those the packet in hand expired.
Leaving == {f.key : f \in pending}

\* The packet in hand belongs to an open session; the others have not seen the end of theirs.
InHand ==
    /\ pc # "idle" => key \in Open
    /\ pc # "drain" => pending = {}
    /\ \A k \in Open : sessions[k].finished => pc # "idle" /\ k = key
    /\ \A k \in Open : sessions[k].packets <= processed

\* No open session is idle for too long or too old, at any step.
Timely ==
    \A k \in Open : now - sessions[k].seen < Idle /\ now - sessions[k].start < MaxDuration

\* Only the session of the packet in hand may be due for a prediction.
Current ==
    \A k \in Open :
        Ready(sessions[k]) /\ Due(sessions[k], predictions[k]) => k = key /\ pc \in {"drain", "predict"}

\* What is said of a session that is gone will be put right before the next packet.
Owned ==
    \A k \in Keys :
        /\ published[k] = "active" => k \in Open \cup Leaving
        /\ alerts[k] # NoAlert => k \in Open \cup Leaving \cup silent

IInv == TypeOK /\ InHand /\ Timely /\ Current /\ Owned

-----------------------------------------------------------------------------
LEMMA InitIInv == Init => IInv
<1> SUFFICES ASSUME Init PROVE IInv OBVIOUS
<1>1. \A S : <<>> \in [{} -> S] /\ DOMAIN <<>> = {}
  <2> SUFFICES ASSUME NEW S PROVE <<>> \in [{} -> S] /\ DOMAIN <<>> = {} OBVIOUS
  <2>1. <<>> \in Seq(S) /\ Len(<<>>) = 0 BY EmptySeq
  <2>2. <<>> \in [1..0 -> S] /\ DOMAIN <<>> = 1..0 BY <2>1, LenProperties
  <2>3. 1..0 = {} OBVIOUS
  <2> QED BY <2>2, <2>3
<1>2. Open = {} /\ Leaving = {} BY <1>1 DEF Init, Open, Leaving
<1>3. 0 \in Time /\ 0 \in 0..MaxPackets BY PipelineAssumption DEF Time
<1>4. TypeOK BY <1>1, <1>2, <1>3 DEF Init, TypeOK, Outcomes, Finalized, Reasons
<1>5. InHand /\ Timely /\ Current BY <1>2 DEF Init, InHand, Timely, Current
<1>6. Owned BY <1>2 DEF Init, Owned
<1> QED BY <1>4, <1>5, <1>6 DEF IInv

-----------------------------------------------------------------------------
\* The session of a packet, old or new, counts it and is neither idle nor too long.
LEMMA UpdatedSession ==
    ASSUME IInv, NEW k \in Keys, NEW t \in Time, NEW fin \in BOOLEAN, processed < MaxPackets
    PROVE  LET s == Updated(k, t, fin)
               p == Tracked(k, t, fin)
           IN  /\ s \in Session /\ p \in Prediction
               /\ s.packets <= processed + 1
               /\ t - s.seen < Idle /\ t - s.start < MaxDuration
<1>1. /\ MaxPackets \in Nat /\ MaxTime \in Nat /\ Idle \in Nat \ {0} /\ MaxDuration \in Nat \ {0}
      /\ processed \in Nat /\ t \in Nat
      BY PipelineAssumption DEF IInv, TypeOK, Time
<1> DEFINE s == Updated(k, t, fin)
           p == Tracked(k, t, fin)
<1>2. CASE k \in Open \ Stale(t)
  <2>1. s = [sessions[k] EXCEPT !.seen = t, !.packets = @ + 1, !.finished = @ \/ fin]
        BY <1>2 DEF Updated
  <2>2. p = [predictions[k] EXCEPT !.count = IF s.finished THEN 0 ELSE @] BY <1>2 DEF Tracked
  <2>3. /\ sessions[k] \in Session /\ predictions[k] \in Prediction
        /\ sessions[k].packets <= processed
        BY <1>2 DEF IInv, TypeOK, InHand
  <2>4. ~IdleFor(k, t) /\ ~TooLong(k, t) BY <1>2 DEF Stale
  <2>5. sessions[k].packets + 1 \in 1..MaxPackets BY <1>1, <2>3 DEF Session
  <2>6. sessions[k].start \in Nat /\ t - sessions[k].start < MaxDuration
        BY <1>1, <2>3, <2>4 DEF TooLong, Session, Time
  <2>7. s \in Session /\ s.packets = sessions[k].packets + 1 /\ s.seen = t /\ s.start = sessions[k].start
        BY <2>1, <2>3, <2>5 DEF Session
  <2>8. p \in Prediction BY <1>1, <2>2, <2>3 DEF Prediction
  <2> QED BY <1>1, <2>3, <2>5, <2>6, <2>7, <2>8 DEF Session
<1>3. CASE k \notin Open \ Stale(t)
  <2>1. /\ s = [start |-> t, seen |-> t, packets |-> 1, finished |-> fin]
        /\ p = [count |-> 0, time |-> t]
        BY <1>3 DEF Updated, Tracked
  <2>2. 1 \in 1..MaxPackets BY <1>1
  <2> QED BY <1>1, <2>1, <2>2 DEF Session, Prediction
<1> QED BY <1>2, <1>3

LEMMA ProcessPacketStep ==
    ASSUME IInv, NEW k \in Keys, NEW t \in Time, NEW fin \in BOOLEAN, ProcessPacket(k, t, fin)
    PROVE  IInv'
<1> DEFINE s == Updated(k, t, fin)
           p == Tracked(k, t, fin)
<1>1. /\ pc = "idle" /\ processed < MaxPackets /\ now' = t /\ key' = k
      /\ pending' = pending \cup Expired(t)
      /\ sessions' = Put(Without(sessions, Stale(t)), k, s)
      /\ predictions' = Put(Without(predictions, Stale(t)), k, p)
      /\ processed' = processed + 1 /\ pc' = "drain"
      /\ UNCHANGED <<alerts, reported, published, silent>>
      BY DEF ProcessPacket
<1>2. /\ s \in Session /\ p \in Prediction /\ s.packets <= processed + 1
      /\ t - s.seen < Idle /\ t - s.start < MaxDuration
      BY <1>1, UpdatedSession
<1> HIDE DEF s, p
<1>3. /\ Open' = (Open \ Stale(t)) \cup {k} /\ sessions'[k] = s
      /\ \A j \in Open' \ {k} : j \in Open \ Stale(t) /\ sessions'[j] = sessions[j]
  <2>1. /\ DOMAIN sessions' = (DOMAIN sessions \ Stale(t)) \cup {k} /\ sessions'[k] = s
        /\ \A j \in (DOMAIN sessions \ Stale(t)) \ {k} : sessions'[j] = sessions[j]
        BY <1>1 DEF Put, Without
  <2> QED BY <2>1 DEF Open
<1>4. DOMAIN predictions = Open BY DEF IInv, TypeOK
<1>5. /\ DOMAIN predictions' = Open' /\ predictions'[k] = p
      /\ \A j \in Open' \ {k} : predictions'[j] = predictions[j]
  <2>1. /\ DOMAIN predictions' = (DOMAIN predictions \ Stale(t)) \cup {k} /\ predictions'[k] = p
        /\ \A j \in (DOMAIN predictions \ Stale(t)) \ {k} : predictions'[j] = predictions[j]
        BY <1>1 DEF Put, Without
  <2> QED BY <1>3, <1>4, <2>1
<1>6. sessions' \in [Open' -> Session] /\ predictions' \in [Open' -> Prediction]
  <2>1. sessions' = [j \in Open' |-> sessions'[j]] /\ predictions' = [j \in Open' |-> predictions'[j]]
    <3>1. sessions' = [j \in (DOMAIN sessions \ Stale(t)) \cup {k} |-> IF j = k THEN s ELSE sessions[j]]
          BY <1>1 DEF Put, Without
    <3>2. predictions' =
             [j \in (DOMAIN predictions \ Stale(t)) \cup {k} |-> IF j = k THEN p ELSE predictions[j]]
          BY <1>1 DEF Put, Without
    <3> QED BY <1>3, <1>4, <3>1, <3>2 DEF Open
  <2>2. \A j \in Open' : sessions'[j] \in Session /\ predictions'[j] \in Prediction
        BY <1>2, <1>3, <1>5 DEF IInv, TypeOK
  <2> QED BY <2>1, <2>2
<1>7. Expired(t) \subseteq Finalized /\ {f.key : f \in Expired(t)} = Stale(t)
  <2>1. Stale(t) \subseteq Open /\ Open \subseteq Keys BY DEF Stale, IInv, TypeOK
  <2>2. \A j \in Open : sessions[j].packets \in 1..MaxPackets BY DEF IInv, TypeOK, Session
  <2>3. ASSUME NEW f \in Expired(t) PROVE f \in Finalized /\ f.key \in Stale(t)
    <3>1. PICK j \in Stale(t) :
             f = [key |-> j, reason |-> IF IdleFor(j, t) THEN "idle_timeout" ELSE "max_duration",
                  packets |-> sessions[j].packets]
          BY DEF Expired
    <3>2. \E r \in Reasons : f = [key |-> j, reason |-> r, packets |-> sessions[j].packets]
          BY <3>1 DEF Reasons
    <3>3. j \in Keys /\ sessions[j].packets \in 1..MaxPackets BY <2>1, <2>2
    <3> QED BY <3>2, <3>3 DEF Finalized
  <2>4. ASSUME NEW j \in Stale(t) PROVE \E f \in Expired(t) : f.key = j
    <3> DEFINE f == [key |-> j, reason |-> IF IdleFor(j, t) THEN "idle_timeout" ELSE "max_duration",
                     packets |-> sessions[j].packets]
    <3>1. f \in Expired(t) BY DEF Expired
    <3>2. f.key = j OBVIOUS
    <3> QED BY <3>1, <3>2
  <2> QED BY <2>3, <2>4
<1>8. Leaving' = Leaving \cup Stale(t) BY <1>1, <1>7 DEF Leaving
<1>9. TypeOK'
  <2>1. processed' \in 0..MaxPackets BY <1>1, PipelineAssumption DEF IInv, TypeOK
  <2>2. Open' \subseteq Keys BY <1>3 DEF IInv, TypeOK
  <2>3. pending' \subseteq Finalized BY <1>1, <1>7 DEF IInv, TypeOK
  <2> QED BY <1>1, <1>6, <2>1, <2>2, <2>3 DEF IInv, TypeOK
<1>10. InHand'
  <2>1. \A j \in Open' : sessions'[j].packets <= processed'
    <3>1. \A j \in Open : sessions[j].packets <= processed /\ sessions[j].packets \in Nat
          BY DEF IInv, TypeOK, InHand, Session
    <3>2. processed \in Nat BY DEF IInv, TypeOK
    <3> QED BY <1>1, <1>2, <1>3, <3>1, <3>2
  <2> QED BY <1>1, <1>3, <2>1 DEF IInv, InHand
<1>11. Timely'
  <2>1. \A j \in Open' \ {k} : t - sessions[j].seen < Idle /\ t - sessions[j].start < MaxDuration
    <3>1. \A j \in Open : sessions[j].seen \in Nat /\ sessions[j].start \in Nat
          BY DEF IInv, TypeOK, Session, Time
    <3>2. t \in Nat /\ Idle \in Nat /\ MaxDuration \in Nat BY PipelineAssumption DEF Time
    <3> QED BY <1>3, <3>1, <3>2 DEF Stale, IdleFor, TooLong
  <2> QED BY <1>1, <1>2, <1>3, <2>1 DEF Timely
<1>12. Current'
  <2>1. \A j \in Open' \ {k} : ~(Ready(sessions[j]) /\ Due(sessions[j], predictions[j]))
        BY <1>1, <1>3 DEF IInv, Current
  <2> QED BY <1>1, <1>3, <1>5, <2>1 DEF Current
<1>13. Owned' BY <1>1, <1>3, <1>8 DEF IInv, Owned
<1> QED BY <1>9, <1>10, <1>11, <1>12, <1>13 DEF IInv

-----------------------------------------------------------------------------
\* Steps that leave the sessions and their predictions alone.
LEMMA SessionsStill ==
    ASSUME IInv, UNCHANGED <<now, key, sessions, predictions, processed>>,
           pc' # "idle", pc # "idle", pc' # "drain" => pending' = {},
           pc \in {"drain", "predict"} => pc' \in {"drain", "predict"}
    PROVE  InHand' /\ Timely' /\ Current'
<1>1. Open' = Open BY DEF Open
<1>2. InHand' BY <1>1 DEF IInv, InHand
<1>3. Timely' BY <1>1 DEF IInv, Timely
<1>4. Current' BY <1>1 DEF IInv, Current, Ready, Due, Age
<1> QED BY <1>2, <1>3, <1>4

\* What a completed session changes: its last update, its alert, its silence.
LEMMA Reported ==
    ASSUME IInv, NEW f \in Finalized, NEW sig \in Outcomes, Report(f, sig)
    PROVE  /\ reported' \in Nat
           /\ published' \in [Keys -> Reasons \cup {"none", "active"}]
           /\ alerts' \in [Keys -> Outcomes] /\ silent' \subseteq Keys
           /\ \A k \in Keys \ {f.key} : /\ published'[k] = published[k] /\ alerts'[k] = alerts[k]
                                        /\ k \in silent => k \in silent'
           /\ published'[f.key] # "active"
           /\ alerts'[f.key] # NoAlert => f.key \in silent'
<1>1. f.key \in Keys /\ f.reason \in Reasons /\ f.packets \in Nat BY DEF Finalized
<1>2. /\ reported' = reported + f.packets
      /\ published' = [published EXCEPT ![f.key] = f.reason]
      /\ alerts' = IF sig = NoAlert THEN alerts ELSE [alerts EXCEPT ![f.key] = NoAlert]
      /\ silent' = IF sig = NoAlert THEN silent \cup {f.key} ELSE silent \ {f.key}
      BY DEF Report, AlertsAfter
<1>3. /\ reported \in Nat /\ published \in [Keys -> Reasons \cup {"none", "active"}]
      /\ alerts \in [Keys -> Outcomes] /\ silent \subseteq Keys
      BY DEF IInv, TypeOK
<1>4. reported' \in Nat BY <1>1, <1>2, <1>3
<1>5. published' \in [Keys -> Reasons \cup {"none", "active"}] /\ published'[f.key] = f.reason
      BY <1>1, <1>2, <1>3
<1>6. f.reason # "active" BY <1>1 DEF Reasons
<1>7. CASE sig = NoAlert BY <1>1, <1>2, <1>3, <1>4, <1>5, <1>6, <1>7
<1>8. CASE sig # NoAlert
  <2>1. alerts' \in [Keys -> Outcomes] /\ alerts'[f.key] = NoAlert
        BY <1>1, <1>2, <1>3, <1>8 DEF Outcomes
  <2> QED BY <1>1, <1>2, <1>3, <1>4, <1>5, <1>6, <1>8, <2>1
<1> QED BY <1>7, <1>8

LEMMA DrainStep ==
    ASSUME IInv, NEW f \in pending, NEW sig \in Outcomes, Drain(f, sig)
    PROVE  IInv'
<1>1. /\ pc = "drain" /\ pending' = pending \ {f} /\ Report(f, sig)
      /\ UNCHANGED <<now, key, pc, sessions, predictions, processed>>
      BY DEF Drain
<1>2. f \in Finalized /\ f.key \in Keys BY DEF IInv, TypeOK, Finalized
<1>3. /\ reported' \in Nat /\ published' \in [Keys -> Reasons \cup {"none", "active"}]
      /\ alerts' \in [Keys -> Outcomes] /\ silent' \subseteq Keys
      /\ \A k \in Keys \ {f.key} : /\ published'[k] = published[k] /\ alerts'[k] = alerts[k]
                                   /\ k \in silent => k \in silent'
      /\ published'[f.key] # "active"
      /\ alerts'[f.key] # NoAlert => f.key \in silent'
      BY <1>1, <1>2, Reported
<1>4. Open' = Open /\ Leaving \subseteq Leaving' \cup {f.key} BY <1>1 DEF Open, Leaving
<1>5. TypeOK' BY <1>1, <1>3, <1>4 DEF IInv, TypeOK
<1>6. InHand' /\ Timely' /\ Current' BY <1>1, SessionsStill
<1>7. Owned' BY <1>3, <1>4 DEF IInv, Owned
<1> QED BY <1>5, <1>6, <1>7 DEF IInv

LEMMA DrainedStep == ASSUME IInv, Drained PROVE IInv'
<1>1. /\ pc = "drain" /\ pending = {} /\ pc' = "predict"
      /\ UNCHANGED <<now, key, sessions, predictions, pending, alerts, processed, reported,
                     published, silent>>
      BY DEF Drained
<1>2. Open' = Open /\ Leaving' = Leaving BY <1>1 DEF Open, Leaving
<1>3. TypeOK' BY <1>1, <1>2 DEF IInv, TypeOK
<1>4. InHand' /\ Timely' /\ Current' BY <1>1, SessionsStill
<1>5. Owned' BY <1>1, <1>2 DEF IInv, Owned
<1> QED BY <1>3, <1>4, <1>5 DEF IInv

LEMMA NoPredictionStep == ASSUME IInv, NoPrediction PROVE IInv'
<1>1. /\ pc = "predict" /\ ~ShouldPredict(sessions[key], predictions[key]) /\ pc' = "finalize"
      /\ UNCHANGED <<now, key, sessions, predictions, pending, alerts, processed, reported,
                     published, silent>>
      BY DEF NoPrediction
<1>2. Open' = Open /\ Leaving' = Leaving BY <1>1 DEF Open, Leaving
<1>3. TypeOK' BY <1>1, <1>2 DEF IInv, TypeOK
<1>4. InHand' /\ Timely' BY <1>1, <1>2 DEF IInv, InHand, Timely
<1>5. Current'
  <2>1. ~(Ready(sessions[key]) /\ Due(sessions[key], predictions[key])) BY <1>1 DEF ShouldPredict
  <2>2. \A k \in Open : ~(Ready(sessions[k]) /\ Due(sessions[k], predictions[k]))
        BY <2>1 DEF IInv, Current
  <2> QED BY <1>1, <1>2, <2>2 DEF Current
<1>6. Owned' BY <1>1, <1>2 DEF IInv, Owned
<1> QED BY <1>3, <1>4, <1>5, <1>6 DEF IInv

LEMMA PredictStep == ASSUME IInv, NEW sig \in Outcomes, Predict(sig) PROVE IInv'
<1> DEFINE s == sessions[key]
           p == [count |-> s.packets, time |-> s.seen]
<1>1. /\ pc = "predict" /\ pc' = "finalize"
      /\ predictions' = [predictions EXCEPT ![key] = p]
      /\ published' = [published EXCEPT ![key] = "active"]
      /\ alerts' = IF sig = NoAlert THEN alerts ELSE [alerts EXCEPT ![key] = sig]
      /\ silent' = silent \ {key}
      /\ UNCHANGED <<now, key, sessions, pending, processed, reported>>
      BY DEF Predict, AlertsAfter
<1>2. key \in Open /\ key \in Keys /\ s \in Session /\ pending = {}
      BY <1>1 DEF IInv, TypeOK, InHand
<1> HIDE DEF s
<1>3. Open' = Open /\ Leaving' = Leaving /\ s = sessions[key] BY <1>1 DEF Open, Leaving, s
<1>4. p \in Prediction BY <1>2 DEF Session, Prediction
<1>5. TypeOK' BY <1>1, <1>2, <1>3, <1>4 DEF IInv, TypeOK, Outcomes
<1>6. InHand' /\ Timely' BY <1>1, <1>3 DEF IInv, InHand, Timely
<1>7. Current'
  <2>1. ~Due(s, p)
    <3>1. s.packets \in Nat \ {0} /\ s.seen \in Nat /\ EveryN \in Nat \ {0} /\ EveryM \in Nat \ {0}
          BY <1>2, PipelineAssumption DEF Session, Time
    <3> QED BY <3>1 DEF Due
  <2>2. /\ predictions'[key] = p
        /\ \A k \in Open \ {key} : predictions'[k] = predictions[k]
        BY <1>1, <1>2 DEF IInv, TypeOK
  <2>3. \A k \in Open \ {key} : ~(Ready(sessions[k]) /\ Due(sessions[k], predictions[k]))
        BY DEF IInv, Current
  <2> QED BY <1>1, <1>3, <2>1, <2>2, <2>3 DEF Current
<1>8. Owned'
  <2>1. \A k \in Keys \ {key} : /\ published'[k] = published[k] /\ alerts'[k] = alerts[k]
                                /\ k \in silent => k \in silent'
        BY <1>1, <1>2 DEF IInv, TypeOK
  <2> QED BY <1>2, <1>3, <2>1 DEF IInv, Owned
<1> QED BY <1>5, <1>6, <1>7, <1>8 DEF IInv

LEMMA FinalizeStep == ASSUME IInv, NEW sig \in Outcomes, Finalize(sig) PROVE IInv'
<1> DEFINE f == [key |-> key, reason |-> "flow_end", packets |-> sessions[key].packets]
<1>1. /\ pc = "finalize" /\ pc' = "idle"
      /\ sessions' = Without(sessions, {key}) /\ predictions' = Without(predictions, {key})
      /\ Report(f, sig)
      /\ UNCHANGED <<now, key, pending, processed>>
      BY DEF Finalize
<1>2. key \in Open /\ key \in Keys /\ pending = {} /\ DOMAIN predictions = Open
      BY <1>1 DEF IInv, TypeOK, InHand
<1>3. f \in Finalized /\ f.key = key
  <2>1. sessions[key].packets \in 1..MaxPackets BY <1>2 DEF IInv, TypeOK, Session
  <2> QED BY <1>2, <2>1 DEF Finalized, Reasons
<1> HIDE DEF f
<1>4. /\ reported' \in Nat /\ published' \in [Keys -> Reasons \cup {"none", "active"}]
      /\ alerts' \in [Keys -> Outcomes] /\ silent' \subseteq Keys
      /\ \A k \in Keys \ {key} : /\ published'[k] = published[k] /\ alerts'[k] = alerts[k]
                                 /\ k \in silent => k \in silent'
      /\ published'[key] # "active"
      /\ alerts'[key] # NoAlert => key \in silent'
      BY <1>1, <1>3, Reported
<1>5. /\ sessions' = [k \in Open \ {key} |-> sessions[k]]
      /\ predictions' = [k \in Open \ {key} |-> predictions[k]]
      BY <1>1, <1>2 DEF Without, Open
<1>6. Open' = Open \ {key} /\ Leaving' = Leaving BY <1>1, <1>5 DEF Open, Leaving
<1>7. TypeOK'
  <2>1. sessions' \in [Open' -> Session] /\ predictions' \in [Open' -> Prediction]
        BY <1>5, <1>6 DEF IInv, TypeOK
  <2> QED BY <1>1, <1>4, <1>6, <2>1 DEF IInv, TypeOK
<1>8. InHand' BY <1>1, <1>2, <1>5, <1>6 DEF IInv, InHand
<1>9. Timely' BY <1>1, <1>5, <1>6 DEF IInv, Timely
<1>10. Current'
  <2>1. \A k \in Open \ {key} : ~(Ready(sessions[k]) /\ Due(sessions[k], predictions[k]))
        BY DEF IInv, Current
  <2> QED BY <1>5, <1>6, <2>1 DEF Current
<1>11. Owned' BY <1>4, <1>6 DEF IInv, Owned
<1> QED BY <1>7, <1>8, <1>9, <1>10, <1>11 DEF IInv

LEMMA ContinueStep == ASSUME IInv, Continue PROVE IInv'
<1>1. /\ pc = "finalize" /\ ~sessions[key].finished /\ pc' = "idle"
      /\ UNCHANGED <<now, key, sessions, predictions, pending, alerts, processed, reported,
                     published, silent>>
      BY DEF Continue
<1>2. Open' = Open /\ Leaving' = Leaving BY <1>1 DEF Open, Leaving
<1>3. TypeOK' BY <1>1, <1>2 DEF IInv, TypeOK
<1>4. InHand' BY <1>1, <1>2 DEF IInv, InHand
<1>5. Timely' BY <1>1, <1>2 DEF IInv, Timely
<1>6. Current' BY <1>1, <1>2 DEF IInv, Current, Ready, Due, Age
<1>7. Owned' BY <1>1, <1>2 DEF IInv, Owned
<1> QED BY <1>3, <1>4, <1>5, <1>6, <1>7 DEF IInv

LEMMA NextIInv == IInv /\ [Next]_vars => IInv'
<1> SUFFICES ASSUME IInv, [Next]_vars PROVE IInv' OBVIOUS
<1>1. CASE \E k \in Keys, t \in Time, fin \in BOOLEAN : ProcessPacket(k, t, fin)
      BY <1>1, ProcessPacketStep
<1>2. CASE \E f \in pending, sig \in Outcomes : Drain(f, sig) BY <1>2, DrainStep
<1>3. CASE Drained BY <1>3, DrainedStep
<1>4. CASE \E sig \in Outcomes : Predict(sig) \/ Finalize(sig) BY <1>4, PredictStep, FinalizeStep
<1>5. CASE NoPrediction BY <1>5, NoPredictionStep
<1>6. CASE Continue BY <1>6, ContinueStep
<1>7. CASE UNCHANGED vars
  <2>1. UNCHANGED <<now, key, pc, sessions, predictions, pending, alerts, processed, reported,
                    published, silent>>
        BY <1>7 DEF vars
  <2>2. Open' = Open /\ Leaving' = Leaving BY <2>1 DEF Open, Leaving
  <2>3. TypeOK' BY <2>1, <2>2 DEF IInv, TypeOK
  <2>4. InHand' /\ Timely' /\ Owned' BY <2>1, <2>2 DEF IInv, InHand, Timely, Owned
  <2>5. Current' BY <2>1, <2>2 DEF IInv, Current, Ready, Due, Age
  <2> QED BY <2>3, <2>4, <2>5 DEF IInv
<1> QED BY <1>1, <1>2, <1>3, <1>4, <1>5, <1>6, <1>7 DEF Next

LEMMA Inductive == Spec => []IInv
BY InitIInv, NextIInv, PTL DEF Spec

\* The dictionaries of the builder and of the predictor keep the same keys and their types,
\* so no prediction state outlives its session (SessionBuilder).
THEOREM PipelineTypes == Spec => []TypeOK
<1>1. IInv => TypeOK BY DEF IInv
<1> QED BY <1>1, Inductive, PTL

\* When a packet has been processed, no open session is finished, idle for too long, too old
\* or behind with its predictions, also when timestamps go back (process_packet).
THEOREM NoneOverdue == Spec => []NothingOverdue
<1>1. IInv => NothingOverdue
      BY DEF IInv, InHand, Timely, Current, NothingOverdue, NoStaleSession, PredictionsCurrent
<1> QED BY <1>1, Inductive, PTL

\* A session that is gone is never left as "active" (_process_finalized_session).
THEOREM NoGhosts == Spec => []NoGhostSession
<1>1. IInv => NoGhostSession
  <2>1. pending = {} => Leaving = {} BY DEF Leaving
  <2> QED BY <2>1 DEF IInv, InHand, Owned, NoGhostSession
<1> QED BY <1>1, Inductive, PTL

\* The alert state of a five-tuple outlives its session only after a silent end
\* (_emit_session_alert).
THEOREM AlertStateIsOwned == Spec => []AlertStateOwned
<1>1. IInv => AlertStateOwned
  <2>1. pending = {} => Leaving = {} BY DEF Leaving
  <2> QED BY <2>1 DEF IInv, InHand, Owned, AlertStateOwned
<1> QED BY <1>1, Inductive, PTL

-----------------------------------------------------------------------------
(* Counting packets.  The sum over a set of sessions is the number of their *)
(* packets, each packet of a session being a mark of its own.              *)

\* One mark for every packet of every element.
Marks(w, S) == {m \in S \X (1..MaxPackets) : m[2] <= w[m[1]]}
Count(w, S) == Cardinality(Marks(w, S))

\* The packets of a completed and of an open session.
Carried == [f \in Finalized |-> f.packets]
Sizes(dict) == [k \in DOMAIN dict |-> dict[k].packets]

\* PacketsAccounted, in marks.
Accounted ==
    /\ IsFiniteSet(Open) /\ IsFiniteSet(pending)
    /\ processed = reported + Count(Carried, pending) + Count(Sizes(sessions), Open)

\* Adding up w element by element, as the library's fold does.
Adds(g, w, S) ==
    g = [s \in SUBSET S |->
            IF s = {} THEN 0 ELSE w[CHOOSE x \in s : TRUE] + g[s \ {CHOOSE x \in s : TRUE}]]

LEMMA LeastNumber ==
    ASSUME NEW T, T \subseteq Nat, T # {}
    PROVE  \E m \in T : \A k \in T : m <= k
<1> DEFINE R == OpToRel(<, Nat)
<1>1. IsWellFoundedOn(R, Nat) BY NatLessThanWellFounded
<1>2. \A m, k \in Nat : k < m => <<k, m>> \in R BY DEF OpToRel
<1> HIDE DEF R
<1>3. PICK m \in T : \A k \in T : ~(<<k, m>> \in R) BY <1>1, WFMin
<1>4. \A k \in T : ~(k < m) BY <1>2, <1>3
<1>5. T \subseteq Int OBVIOUS
<1>6. \A k \in T : m <= k BY <1>4, <1>5
<1> QED BY <1>6

LEMMA MarksFinite ==
    ASSUME NEW S, IsFiniteSet(S), NEW w
    PROVE  IsFiniteSet(Marks(w, S)) /\ Count(w, S) \in Nat
<1>1. IsFiniteSet(1..MaxPackets) BY PipelineAssumption, FS_Interval
<1>2. IsFiniteSet(S \X (1..MaxPackets)) BY <1>1, FS_Product
<1>3. Marks(w, S) \subseteq S \X (1..MaxPackets) BY DEF Marks
<1>4. IsFiniteSet(Marks(w, S)) BY <1>2, <1>3, FS_Subset
<1> QED BY <1>4, FS_CardinalityType DEF Count

LEMMA MarksOfOne ==
    ASSUME NEW w, NEW x, w[x] \in 0..MaxPackets
    PROVE  IsFiniteSet(Marks(w, {x})) /\ Count(w, {x}) = w[x]
<1>1. Marks(w, {x}) = {x} \X (1..w[x]) BY PipelineAssumption DEF Marks
<1>2. IsFiniteSet({x}) /\ Cardinality({x}) = 1 BY FS_Singleton
<1>3. w[x] \in Nat /\ IsFiniteSet(1..w[x]) /\ Cardinality(1..w[x]) = w[x]
  <2>1. w[x] \in Int /\ w[x] >= 0 BY PipelineAssumption
  <2>2. /\ IsFiniteSet(1..w[x])
        /\ Cardinality(1..w[x]) = IF 1 > w[x] THEN 0 ELSE w[x] - 1 + 1
        BY <2>1, FS_Interval
  <2> QED BY <2>1, <2>2
<1>4. /\ IsFiniteSet({x} \X (1..w[x]))
      /\ Cardinality({x} \X (1..w[x])) = Cardinality({x}) * Cardinality(1..w[x])
      BY <1>2, <1>3, FS_Product
<1>5. Cardinality({x}) * Cardinality(1..w[x]) = w[x] BY <1>2, <1>3
<1> QED BY <1>1, <1>4, <1>5 DEF Count

LEMMA CountParts ==
    ASSUME NEW S, NEW T, IsFiniteSet(S), IsFiniteSet(T), S \cap T = {}, NEW w
    PROVE  Count(w, S \cup T) = Count(w, S) + Count(w, T)
<1>1. Marks(w, S \cup T) = Marks(w, S) \cup Marks(w, T) BY DEF Marks
<1>2. Marks(w, S) \cap Marks(w, T) = {} BY DEF Marks
<1>3. IsFiniteSet(Marks(w, S)) /\ IsFiniteSet(Marks(w, T)) BY MarksFinite
<1>4. Cardinality(Marks(w, S \cup T)) =
          Cardinality(Marks(w, S)) + Cardinality(Marks(w, T)) - Cardinality(Marks(w, S) \cap Marks(w, T))
      BY <1>1, <1>3, FS_Union
<1>5. Cardinality(Marks(w, S) \cap Marks(w, T)) = 0 BY <1>2, FS_EmptySet
<1>6. Cardinality(Marks(w, S)) \in Nat /\ Cardinality(Marks(w, T)) \in Nat BY <1>3, FS_CardinalityType
<1> QED BY <1>4, <1>5, <1>6 DEF Count

LEMMA SplitOff ==
    ASSUME NEW S, IsFiniteSet(S), NEW x \in S, NEW w, w[x] \in 0..MaxPackets
    PROVE  Count(w, S) = w[x] + Count(w, S \ {x})
<1>1. S = (S \ {x}) \cup {x} /\ (S \ {x}) \cap {x} = {} OBVIOUS
<1>2. IsFiniteSet(S \ {x}) /\ IsFiniteSet({x}) BY FS_RemoveElement, FS_Singleton
<1>3. Count(w, S) = Count(w, S \ {x}) + Count(w, {x}) BY <1>1, <1>2, CountParts
<1>4. Count(w, S \ {x}) \in Nat BY <1>2, MarksFinite
<1>5. Count(w, {x}) = w[x] /\ w[x] \in Nat BY MarksOfOne, PipelineAssumption
<1> QED BY <1>3, <1>4, <1>5

LEMMA EmptyCount == ASSUME NEW w PROVE Count(w, {}) = 0
<1>1. Marks(w, {}) = {} BY DEF Marks
<1> QED BY <1>1, FS_EmptySet DEF Count

LEMMA FoldExists ==
    ASSUME NEW S, IsFiniteSet(S), NEW w, \A x \in S : w[x] \in 0..MaxPackets
    PROVE  \E g : Adds(g, w, S)
<1> DEFINE g == [s \in SUBSET S |-> Count(w, s)]
<1>1. ASSUME NEW s \in SUBSET S, s # {}
      PROVE  Count(w, s) = w[CHOOSE x \in s : TRUE] + g[s \ {CHOOSE x \in s : TRUE}]
  <2>1. PICK x \in s : x = CHOOSE y \in s : TRUE BY <1>1
  <2>2. IsFiniteSet(s) BY FS_Subset
  <2>3. Count(w, s) = w[x] + Count(w, s \ {x}) BY <2>2, SplitOff
  <2>4. s \ {x} \in SUBSET S OBVIOUS
  <2> QED BY <2>1, <2>3, <2>4
<1>2. Count(w, {}) = 0 BY EmptyCount
<1>3. \A s \in SUBSET S : g[s] = IF s = {} THEN 0
                                 ELSE w[CHOOSE x \in s : TRUE] + g[s \ {CHOOSE x \in s : TRUE}]
      BY <1>1, <1>2
<1> HIDE DEF g
<1>4. g = [s \in SUBSET S |-> g[s]] BY DEF g
<1>5. Adds(g, w, S) BY <1>3, <1>4 DEF Adds
<1> QED BY <1>5

LEMMA FoldUnique ==
    ASSUME NEW S, IsFiniteSet(S), NEW w, \A x \in S : w[x] \in 0..MaxPackets, NEW g, Adds(g, w, S)
    PROVE  g[S] = Count(w, S)
<1> DEFINE Wrong == {s \in SUBSET S : g[s] # Count(w, s)}
<1>1. SUFFICES ASSUME S \in Wrong PROVE FALSE OBVIOUS
<1>2. \A s \in SUBSET S : IsFiniteSet(s) /\ Cardinality(s) \in Nat BY FS_Subset, FS_CardinalityType
<1>3. \A s \in SUBSET S : g[s] = IF s = {} THEN 0
                                 ELSE w[CHOOSE x \in s : TRUE] + g[s \ {CHOOSE x \in s : TRUE}]
  <2> DEFINE h == [s \in SUBSET S |->
                   IF s = {} THEN 0
                   ELSE w[CHOOSE x \in s : TRUE] + g[s \ {CHOOSE x \in s : TRUE}]]
  <2>1. \A s \in SUBSET S : h[s] = IF s = {} THEN 0
                                 ELSE w[CHOOSE x \in s : TRUE] + g[s \ {CHOOSE x \in s : TRUE}]
        OBVIOUS
  <2>2. g = h BY DEF Adds
  <2> HIDE DEF h
  <2> QED BY <2>1, <2>2
<1> DEFINE Cards == {Cardinality(s) : s \in Wrong}
<1>4. Cards \subseteq Nat /\ Cards # {}
  <2>1. \A s \in Wrong : s \in SUBSET S OBVIOUS
  <2>2. \E s : s \in Wrong BY <1>1
  <2> HIDE DEF Wrong
  <2> QED BY <1>2, <2>1, <2>2
<1>5. PICK n \in Cards : \A k \in Cards : n <= k
  <2> HIDE DEF Cards
  <2> QED BY <1>4, LeastNumber
<1>6. PICK s \in Wrong : Cardinality(s) = n BY <1>5
<1>7. s # {} BY <1>3, <1>6, EmptyCount
<1>8. PICK x \in s : x = CHOOSE y \in s : TRUE BY <1>7
<1>9. Cardinality(s \ {x}) = n - 1 BY <1>2, <1>6, FS_RemoveElement
<1>10. s \ {x} \in SUBSET S /\ n \in Nat
  <2>1. n \in Nat
    <3> HIDE DEF Cards
    <3> QED BY <1>4, <1>5
  <2> QED BY <1>6, <2>1
<1>11. s \ {x} \notin Wrong
  <2>1. s \ {x} \in Wrong => n - 1 \in Cards BY <1>9
  <2>2. n - 1 \notin Cards
    <3> HIDE DEF Cards
    <3> QED BY <1>5, <1>10
  <2> QED BY <2>1, <2>2
<1>12. g[s \ {x}] = Count(w, s \ {x}) BY <1>10, <1>11
<1>13. g[s] = w[x] + Count(w, s \ {x}) BY <1>3, <1>7, <1>8, <1>12, <1>6
<1>14. Count(w, s) = w[x] + Count(w, s \ {x}) BY <1>2, <1>6, SplitOff
<1> QED BY <1>6, <1>13, <1>14

LEMMA WaitingIsCount ==
    ASSUME NEW S, IsFiniteSet(S), S \subseteq Finalized
    PROVE  Waiting(S) = Count(Carried, S)
<1> DEFINE Body(g) == [s \in SUBSET S |-> IF s = {} THEN 0 ELSE
                        (CHOOSE x \in s : TRUE).packets + g[s \ {CHOOSE x \in s : TRUE}]]
<1>1. \A f \in S : f.packets \in 0..MaxPackets /\ Carried[f] = f.packets
      BY PipelineAssumption DEF Finalized, Carried
<1>2. \A s \in SUBSET S : s # {} => (CHOOSE x \in s : TRUE).packets = Carried[CHOOSE x \in s : TRUE]
      BY <1>1
<1>3. ASSUME NEW g PROVE g = Body(g) <=> Adds(g, Carried, S) BY <1>2 DEF Adds
<1>4. \E g : Adds(g, Carried, S) BY <1>1, FoldExists
<1>5. \A g : Adds(g, Carried, S) => g[S] = Count(Carried, S) BY <1>1, FoldUnique
<1> DEFINE iter == CHOOSE g : g = Body(g)
<1>6. Waiting(S) = iter[S] BY DEF Waiting, MapThenSumSet, MapThenFoldSet
<1> HIDE DEF Body
<1>7. \E g : g = Body(g) BY <1>3, <1>4
<1>8. iter = Body(iter) BY <1>7
<1> QED BY <1>3, <1>5, <1>6, <1>8

LEMMA HeldIsCount ==
    ASSUME NEW dict, IsFiniteSet(DOMAIN dict), \A k \in DOMAIN dict : dict[k].packets \in 0..MaxPackets
    PROVE  Held(dict) = Count(Sizes(dict), DOMAIN dict)
<1> DEFINE S == DOMAIN dict
           Body(g) == [s \in SUBSET S |-> IF s = {} THEN 0 ELSE
                        dict[CHOOSE x \in s : TRUE].packets + g[s \ {CHOOSE x \in s : TRUE}]]
<1>1. \A k \in S : Sizes(dict)[k] \in 0..MaxPackets /\ Sizes(dict)[k] = dict[k].packets BY DEF Sizes
<1>2. \A s \in SUBSET S :
         s # {} => dict[CHOOSE x \in s : TRUE].packets = Sizes(dict)[CHOOSE x \in s : TRUE]
      BY <1>1
<1>3. ASSUME NEW g PROVE g = Body(g) <=> Adds(g, Sizes(dict), S) BY <1>2 DEF Adds
<1>4. \E g : Adds(g, Sizes(dict), S) BY <1>1, FoldExists
<1>5. \A g : Adds(g, Sizes(dict), S) => g[S] = Count(Sizes(dict), S) BY <1>1, FoldUnique
<1> DEFINE iter == CHOOSE g : g = Body(g)
<1>6. Held(dict) = iter[S] BY DEF Held, MapThenSumSet, MapThenFoldSet
<1> HIDE DEF Body
<1>7. \E g : g = Body(g) BY <1>3, <1>4
<1>8. iter = Body(iter) BY <1>7
<1> QED BY <1>3, <1>5, <1>6, <1>8

\* Only the weights of the elements count.
LEMMA SameCount ==
    ASSUME NEW S, NEW w, NEW v, \A x \in S : w[x] = v[x]
    PROVE  Count(w, S) = Count(v, S)
<1>1. Marks(w, S) = Marks(v, S) BY DEF Marks
<1> QED BY <1>1 DEF Count

\* The completed sessions carry the packets of the sessions they were.
LEMMA ExpiredCount ==
    ASSUME IInv, IsFiniteSet(Open), NEW t \in Time
    PROVE  /\ IsFiniteSet(Expired(t)) /\ Expired(t) \subseteq Finalized
           /\ Count(Carried, Expired(t)) = Count(Sizes(sessions), Stale(t))
<1> DEFINE Entry(k) == [key |-> k, reason |-> IF IdleFor(k, t) THEN "idle_timeout" ELSE "max_duration",
                        packets |-> sessions[k].packets]
           w == Sizes(sessions)
           E == [k \in Stale(t) |-> Entry(k)]
           F == [m \in Marks(w, Stale(t)) |-> <<Entry(m[1]), m[2]>>]
<1>1. Stale(t) \subseteq Open /\ Open \subseteq Keys BY DEF Stale, IInv, TypeOK
<1>2. \A k \in Stale(t) : sessions[k].packets \in 1..MaxPackets BY <1>1 DEF IInv, TypeOK, Session
<1>3. \A k \in Stale(t) : Entry(k) \in Finalized /\ Entry(k).key = k /\ Entry(k).packets = sessions[k].packets
  <2> SUFFICES ASSUME NEW k \in Stale(t)
               PROVE  Entry(k) \in Finalized /\ Entry(k).key = k /\ Entry(k).packets = sessions[k].packets
      OBVIOUS
  <2>1. \E r \in Reasons : Entry(k) = [key |-> k, reason |-> r, packets |-> sessions[k].packets]
        BY DEF Reasons
  <2>2. k \in Keys /\ sessions[k].packets \in 1..MaxPackets BY <1>1, <1>2
  <2> QED BY <2>1, <2>2 DEF Finalized
<1>4. Expired(t) = {Entry(k) : k \in Stale(t)} BY DEF Expired
<1> HIDE DEF Entry
<1>5. Expired(t) \subseteq Finalized BY <1>3, <1>4
<1>6. IsFiniteSet(Stale(t)) BY <1>1, FS_Subset
<1>7. IsFiniteSet(Expired(t))
  <2>1. E \in Surjection(Stale(t), Expired(t)) BY <1>4 DEF Surjection
  <2> QED BY <1>6, <2>1, FS_Surjection
<1>8. \A k \in Stale(t) : w[k] = Carried[Entry(k)] BY <1>1, <1>3 DEF Carried, Sizes, Open
<1>9. F \in Bijection(Marks(w, Stale(t)), Marks(Carried, Expired(t)))
  <2>1. ASSUME NEW m \in Marks(w, Stale(t)) PROVE F[m] \in Marks(Carried, Expired(t))
    <3>1. m[1] \in Stale(t) /\ m[2] \in 1..MaxPackets /\ m[2] <= w[m[1]] BY DEF Marks
    <3>2. Entry(m[1]) \in Expired(t) /\ m[2] <= Carried[Entry(m[1])] BY <1>4, <1>8, <3>1
    <3> QED BY <3>1, <3>2 DEF Marks
  <2>2. ASSUME NEW m \in Marks(w, Stale(t)), NEW n \in Marks(w, Stale(t)), F[m] = F[n] PROVE m = n
    <3>1. Entry(m[1]) = Entry(n[1]) /\ m[2] = n[2] BY <2>2
    <3>2. /\ m[1] \in Stale(t) /\ m = <<m[1], m[2]>>
          /\ n[1] \in Stale(t) /\ n = <<n[1], n[2]>>
          BY DEF Marks
    <3>3. m[1] = n[1] BY <1>3, <3>1, <3>2
    <3> QED BY <3>1, <3>2, <3>3
  <2>3. ASSUME NEW n \in Marks(Carried, Expired(t)) PROVE \E m \in Marks(w, Stale(t)) : F[m] = n
    <3>1. /\ n[1] \in Expired(t) /\ n[2] \in 1..MaxPackets /\ n[2] <= Carried[n[1]]
          /\ n = <<n[1], n[2]>>
          BY DEF Marks
    <3>2. PICK k \in Stale(t) : n[1] = Entry(k) BY <1>4, <3>1
    <3> DEFINE m == <<k, n[2]>>
    <3>3. m \in Marks(w, Stale(t)) BY <1>8, <3>1, <3>2 DEF Marks
    <3>4. F[m] = <<Entry(k), n[2]>> BY <3>3
    <3> QED BY <3>1, <3>2, <3>3, <3>4
  <2> HIDE DEF w
  <2>4. DOMAIN F = Marks(w, Stale(t)) /\ F = [m \in Marks(w, Stale(t)) |-> F[m]] OBVIOUS
  <2> HIDE DEF F
  <2>5. F \in [Marks(w, Stale(t)) -> Marks(Carried, Expired(t))] BY <2>1, <2>4
  <2> QED BY <2>2, <2>3, <2>5 DEF Bijection, Injection, Surjection, IsInjective
<1> HIDE DEF w, F
<1>10. IsFiniteSet(Marks(w, Stale(t))) BY <1>6, MarksFinite
<1>11. Cardinality(Marks(Carried, Expired(t))) = Cardinality(Marks(w, Stale(t)))
       BY <1>9, <1>10, FS_Bijection DEF ExistsBijection
<1> QED BY <1>5, <1>7, <1>11 DEF Count, w

\* A packet is one more in its session, and a session that expires keeps its packets.
LEMMA ProcessPacketAccounted ==
    ASSUME IInv, Accounted, NEW k \in Keys, NEW t \in Time, NEW fin \in BOOLEAN, ProcessPacket(k, t, fin)
    PROVE  Accounted'
<1> DEFINE s == Updated(k, t, fin)
           Rest == Open \ Stale(t)
           w == Sizes(sessions)
           v == Sizes(sessions')
<1>1. /\ pending = {} /\ pending' = Expired(t) /\ processed' = processed + 1 /\ reported' = reported
      /\ sessions' = Put(Without(sessions, Stale(t)), k, s)
      BY DEF ProcessPacket, IInv, InHand
<1>2. /\ Open' = Rest \cup {k}
      /\ v[k] = s.packets
      /\ \A j \in Rest \ {k} : v[j] = w[j]
  <2>1. /\ DOMAIN sessions' = (DOMAIN sessions \ Stale(t)) \cup {k} /\ sessions'[k] = s
        /\ \A j \in (DOMAIN sessions \ Stale(t)) \ {k} : sessions'[j] = sessions[j]
        BY <1>1 DEF Put, Without
  <2> QED BY <2>1 DEF Open, Sizes
<1>3. s.packets = IF k \in Rest THEN w[k] + 1 ELSE 1
  <2>1. CASE k \in Rest
    <3>1. s = [sessions[k] EXCEPT !.seen = t, !.packets = @ + 1, !.finished = @ \/ fin] BY <2>1 DEF Updated
    <3>2. sessions[k] \in Session BY <2>1 DEF IInv, TypeOK
    <3>3. s.packets = sessions[k].packets + 1 BY <3>1, <3>2 DEF Session
    <3> QED BY <2>1, <3>3 DEF Sizes, Open
  <2>2. CASE k \notin Rest
    <3>1. s = [start |-> t, seen |-> t, packets |-> 1, finished |-> fin] BY <2>2 DEF Updated
    <3> QED BY <2>2, <3>1
  <2> QED BY <2>1, <2>2
<1>4. s.packets \in 0..MaxPackets
  <2>1. processed < MaxPackets BY DEF ProcessPacket
  <2>2. s \in Session BY <2>1, UpdatedSession
  <2> QED BY <2>2, PipelineAssumption DEF Session
<1>5. \A j \in Open : w[j] \in 0..MaxPackets BY PipelineAssumption DEF IInv, TypeOK, Session, Sizes, Open
<1> HIDE DEF s, w, v
<1>6. IsFiniteSet(Open) /\ IsFiniteSet(Rest) /\ IsFiniteSet(Stale(t)) /\ IsFiniteSet(Open')
  <2>1. IsFiniteSet(Open) BY DEF Accounted
  <2>2. Rest \subseteq Open /\ Stale(t) \subseteq Open BY DEF Stale
  <2>3. IsFiniteSet(Rest) /\ IsFiniteSet(Stale(t)) BY <2>1, <2>2, FS_Subset
  <2> QED BY <1>2, <2>1, <2>3, FS_AddElement
<1>7. Count(w, Open) = Count(w, Rest) + Count(w, Stale(t))
  <2>1. Open = Rest \cup Stale(t) /\ Rest \cap Stale(t) = {} BY DEF Stale
  <2> HIDE DEF Rest
  <2> QED BY <1>6, <2>1, CountParts
<1>8. /\ IsFiniteSet(pending')
      /\ Count(Carried, pending') = Count(w, Stale(t))
      BY <1>1, <1>6, ExpiredCount DEF w
<1>9. Count(v, Open') = Count(w, Rest) + 1
  <2> DEFINE Others == Rest \ {k}
  <2>1. Count(v, Others) = Count(w, Others) BY <1>2, SameCount
  <2>2. Open' \ {k} = Others /\ k \in Open' BY <1>2
  <2>3. Count(v, Open') = s.packets + Count(v, Others) BY <1>2, <1>4, <1>6, <2>2, SplitOff
  <2>4. Count(w, Others) \in Nat
    <3>1. IsFiniteSet(Others) BY <1>6, FS_RemoveElement
    <3> QED BY <3>1, MarksFinite
  <2>5. CASE k \in Rest
    <3>1. w[k] \in 0..MaxPackets BY <1>5, <2>5
    <3>2. Count(w, Rest) = w[k] + Count(w, Others) BY <1>6, <2>5, <3>1, SplitOff
    <3>3. w[k] \in Int BY <3>1
    <3> QED BY <1>3, <2>1, <2>3, <2>4, <2>5, <3>2, <3>3
  <2>6. CASE k \notin Rest
    <3>1. Others = Rest BY <2>6
    <3> QED BY <1>3, <2>1, <2>3, <2>4, <2>6, <3>1
  <2> QED BY <2>5, <2>6
<1>10. /\ Count(w, Rest) \in Nat /\ Count(w, Stale(t)) \in Nat
       /\ processed \in Nat /\ reported \in Nat
       BY <1>6, MarksFinite DEF IInv, TypeOK
<1>11. processed = reported + Count(Carried, {}) + Count(w, Open) BY <1>1 DEF Accounted, w
<1>12. Count(Carried, {}) = 0 BY EmptyCount
<1>13. processed' = reported' + Count(Carried, pending') + Count(v, Open')
       BY <1>1, <1>7, <1>8, <1>9, <1>10, <1>11, <1>12
<1> QED BY <1>6, <1>8, <1>13 DEF Accounted, v

LEMMA DrainAccounted ==
    ASSUME IInv, Accounted, NEW f \in pending, NEW sig \in Outcomes, Drain(f, sig)
    PROVE  Accounted'
<1>1. /\ pending' = pending \ {f} /\ reported' = reported + f.packets
      /\ processed' = processed /\ sessions' = sessions
      BY DEF Drain, Report
<1>2. f \in Finalized /\ f.packets \in 0..MaxPackets /\ Carried[f] = f.packets
      BY PipelineAssumption DEF IInv, TypeOK, Finalized, Carried
<1>3. IsFiniteSet(pending) /\ IsFiniteSet(Open) BY DEF Accounted
<1>4. Count(Carried, pending) = f.packets + Count(Carried, pending') BY <1>1, <1>2, <1>3, SplitOff
<1>5. IsFiniteSet(pending') BY <1>1, <1>3, FS_RemoveElement
<1>6. Open' = Open BY <1>1 DEF Open
<1>7. /\ Count(Carried, pending') \in Nat /\ Count(Sizes(sessions), Open) \in Nat
      /\ reported \in Nat /\ f.packets \in Nat
      BY <1>2, <1>3, <1>5, MarksFinite DEF IInv, TypeOK
<1>8. processed = reported + Count(Carried, pending) + Count(Sizes(sessions), Open) BY DEF Accounted
<1>9. processed' = reported' + Count(Carried, pending') + Count(Sizes(sessions), Open)
      BY <1>1, <1>4, <1>7, <1>8
<1> QED BY <1>1, <1>3, <1>5, <1>6, <1>9 DEF Accounted

LEMMA FinalizeAccounted ==
    ASSUME IInv, Accounted, NEW sig \in Outcomes, Finalize(sig)
    PROVE  Accounted'
<1> DEFINE w == Sizes(sessions)
           v == Sizes(sessions')
<1>1. /\ pending' = pending /\ processed' = processed
      /\ sessions' = Without(sessions, {key})
      /\ reported' = reported + sessions[key].packets
      BY DEF Finalize, Report
<1>2. key \in Open /\ sessions[key].packets \in 0..MaxPackets /\ w[key] = sessions[key].packets
  <2>1. key \in Open BY DEF Finalize, IInv, InHand
  <2> QED BY <2>1, PipelineAssumption DEF IInv, TypeOK, Session, Sizes, Open
<1>3. Open' = Open \ {key} /\ \A k \in Open' : v[k] = w[k] BY <1>1 DEF Open, Without, Sizes
<1> HIDE DEF w, v
<1>4. IsFiniteSet(pending) /\ IsFiniteSet(Open) BY DEF Accounted
<1>5. IsFiniteSet(Open') BY <1>3, <1>4, FS_RemoveElement
<1>6. Count(v, Open') = Count(w, Open') BY <1>3, SameCount
<1>7. Count(w, Open) = sessions[key].packets + Count(w, Open') BY <1>2, <1>3, <1>4, SplitOff
<1>8. /\ Count(Carried, pending) \in Nat /\ Count(w, Open') \in Nat
      /\ reported \in Nat /\ sessions[key].packets \in Nat
      BY <1>2, <1>4, <1>5, MarksFinite DEF IInv, TypeOK
<1>9. processed = reported + Count(Carried, pending) + Count(w, Open) BY DEF Accounted, w
<1>10. processed' = reported' + Count(Carried, pending') + Count(v, Open')
       BY <1>1, <1>6, <1>7, <1>8, <1>9
<1> QED BY <1>1, <1>4, <1>5, <1>10 DEF Accounted, v

LEMMA InitAccounted == Init => Accounted
<1> SUFFICES ASSUME Init PROVE Accounted OBVIOUS
<1>1. Open = {} /\ pending = {} /\ processed = 0 /\ reported = 0
  <2>1. DOMAIN sessions = {} BY EmptySeq, LenProperties DEF Init
  <2> QED BY <2>1 DEF Init, Open
<1>2. Count(Carried, {}) = 0 /\ Count(Sizes(sessions), {}) = 0 BY EmptyCount
<1> QED BY <1>1, <1>2, FS_EmptySet DEF Accounted

LEMMA NextAccounted == IInv /\ Accounted /\ [Next]_vars => Accounted'
<1> SUFFICES ASSUME IInv, Accounted, [Next]_vars PROVE Accounted' OBVIOUS
<1>1. ASSUME UNCHANGED <<processed, reported, pending, sessions>> PROVE Accounted'
  <2>1. Open' = Open BY <1>1 DEF Open
  <2> QED BY <1>1, <2>1 DEF Accounted
<1>2. CASE \E k \in Keys, t \in Time, fin \in BOOLEAN : ProcessPacket(k, t, fin)
      BY <1>2, ProcessPacketAccounted
<1>3. CASE \E f \in pending, sig \in Outcomes : Drain(f, sig) BY <1>3, DrainAccounted
<1>4. CASE \E sig \in Outcomes : Predict(sig) \/ Finalize(sig)
      BY <1>1, <1>4, FinalizeAccounted DEF Predict
<1>5. CASE Drained \/ NoPrediction \/ Continue BY <1>1, <1>5 DEF Drained, NoPrediction, Continue
<1>6. CASE UNCHANGED vars BY <1>1, <1>6 DEF vars
<1> QED BY <1>2, <1>3, <1>4, <1>5, <1>6 DEF Next

\* No packet is lost or counted twice by expiry, by the end of a flow or by a five-tuple that
\* is used again: it is in one open session or was handed over with one (process_packet,
\* finalize_session_if_needed).
THEOREM NoPacketLost == Spec => []PacketsAccounted
<1>1. IInv /\ Accounted => PacketsAccounted
  <2> SUFFICES ASSUME IInv, Accounted PROVE PacketsAccounted OBVIOUS
  <2>1. Waiting(pending) = Count(Carried, pending) BY WaitingIsCount DEF IInv, TypeOK, Accounted
  <2>2. \A k \in Open : sessions[k].packets \in 0..MaxPackets
        BY PipelineAssumption DEF IInv, TypeOK, Session
  <2>3. Held(sessions) = Count(Sizes(sessions), Open) BY <2>2, HeldIsCount DEF Accounted, Open
  <2> QED BY <2>1, <2>3 DEF Accounted, PacketsAccounted
<1> QED BY <1>1, InitAccounted, NextAccounted, Inductive, PTL DEF Spec
=============================================================================
