-------------------------- MODULE SessionPipeline --------------------------
(***************************************************************************)
(* What PacketProcessor.process does with a packet's session: the          *)
(* SessionBuilder (traffic_engine/session_builder), the live and the       *)
(* completed-flow prediction, session updates and session alerts           *)
(* (packet_capture/processor/packet_processor.py).                         *)
(*                                                                         *)
(* One thread processes packets, one after the other.  A session keeps     *)
(* what its life depends on: the time of its first and last packet, its    *)
(* packets and whether a FIN or RST was seen.  A prediction is NoAlert     *)
(* (model not loaded, error, normal or unsure) or the signature of the     *)
(* alert it asks for.  The blocks that go with it are in AutoBlocker.      *)
(***************************************************************************)
EXTENDS Integers, FiniteSets, FiniteSetsExt

CONSTANTS Keys,         \* session keys: the five-tuples
          Signatures,   \* (attack_type, confidence, blocked) of an alert
          NoAlert,      \* not a signature
          Idle,         \* IDLE_TIMEOUT_SECONDS
          MaxDuration,  \* MAX_SESSION_DURATION_SECONDS
          MinAge,       \* MIN_PREDICTION_AGE_SECONDS
          MinPackets,   \* MIN_PREDICTION_PACKET_COUNT
          EveryN,       \* PREDICT_EVERY_N_PACKETS
          EveryM,       \* PREDICT_EVERY_M_SECONDS
          Skew,         \* how far packet timestamps may go back
          MaxPackets,   \* bound: packets processed
          MaxTime       \* bound: timestamps

ASSUME PipelineAssumption ==
    /\ NoAlert \notin Signatures
    /\ Idle \in Nat \ {0} /\ MaxDuration \in Nat \ {0}
    /\ MinAge \in Nat /\ MinPackets \in Nat \ {0}
    /\ EveryN \in Nat \ {0} /\ EveryM \in Nat \ {0}
    /\ Skew \in Nat /\ MaxPackets \in Nat /\ MaxTime \in Nat

VARIABLES now,          \* timestamp of the packet in hand or of the last one
          key,          \* its session key
          pc,           \* where process is
          sessions,     \* sessions: what is known of each open one
          predictions,  \* _prediction_state
          pending,      \* _pending_finalizations
          alerts,       \* _session_alert_state: the signature
          processed,    \* history: number of packets
          reported,     \* history: packets of sessions handed to _process_finalized_session
          published,    \* history: the last session_state published for a key
          silent        \* history: keys whose last session ended without a final alert

vars == <<now, key, pc, sessions, predictions, pending, alerts, processed, reported,
          published, silent>>

Time == 0..MaxTime
Session == [start : Time, seen : Time, packets : 1..MaxPackets, finished : BOOLEAN]
Prediction == [count : 0..MaxPackets, time : Time]
Reasons == {"idle_timeout", "max_duration", "flow_end"}
Finalized == [key : Keys, reason : Reasons, packets : 1..MaxPackets]

Open == DOMAIN sessions

Init ==
    /\ now = 0
    /\ key \in Keys
    /\ pc = "idle"
    /\ sessions = <<>>
    /\ predictions = <<>>
    /\ pending = {}
    /\ alerts = [k \in Keys |-> NoAlert]
    /\ processed = 0
    /\ reported = 0
    /\ published = [k \in Keys |-> "none"]
    /\ silent = {}

\* A dictionary with one more, or without some, of its entries.
Put(d, k, v) == [j \in DOMAIN d \cup {k} |-> IF j = k THEN v ELSE d[j]]
Without(d, ks) == [j \in DOMAIN d \ ks |-> d[j]]

----------------------------------------------------------------------------
\* SessionBuilder.process_packet

IdleFor(k, t) == t - sessions[k].seen >= Idle
TooLong(k, t) == t - sessions[k].start >= MaxDuration

\* Mutant: only idle sessions are stale.
StaleIdleMutant(t) == {k \in Open : IdleFor(k, t)}

Stale(t) == {k \in Open : IdleFor(k, t) \/ TooLong(k, t)}

\* _expire_stale_sessions
Expired(t) == {[key |-> k,
                reason |-> IF IdleFor(k, t) THEN "idle_timeout" ELSE "max_duration",
                packets |-> sessions[k].packets] : k \in Stale(t)}

\* The session the packet belongs to, counting the packet: it may have been
\* expired by this very packet.
Updated(k, t, fin) ==
    IF k \in Open \ Stale(t)
    THEN [sessions[k] EXCEPT !.seen = t, !.packets = @ + 1, !.finished = @ \/ fin]
    ELSE [start |-> t, seen |-> t, packets |-> 1, finished |-> fin]

\* Its prediction state; the end of the flow resets the count.
Tracked(k, t, fin) ==
    IF k \in Open \ Stale(t)
    THEN [predictions[k] EXCEPT !.count = IF Updated(k, t, fin).finished THEN 0 ELSE @]
    ELSE [count |-> 0, time |-> t]

ProcessPacket(k, t, fin) ==
    /\ pc = "idle"
    /\ processed < MaxPackets
    /\ t >= now - Skew
    /\ now' = t
    /\ key' = k
    /\ pending' = pending \cup Expired(t)
    /\ sessions' = Put(Without(sessions, Stale(t)), k, Updated(k, t, fin))
    /\ predictions' = Put(Without(predictions, Stale(t)), k, Tracked(k, t, fin))
    /\ processed' = processed + 1
    /\ pc' = "drain"
    /\ UNCHANGED <<alerts, reported, published, silent>>

----------------------------------------------------------------------------
\* _emit_session_alert: a live alert that says the same again is withheld; the
\* state is dropped with the final alert.

\* Mutant: the state survives the final alert.
AlertsKeptMutant(k, sig, final) ==
    IF sig = NoAlert THEN alerts ELSE [alerts EXCEPT ![k] = sig]

AlertsAfter(k, sig, final) ==
    IF sig = NoAlert THEN alerts ELSE [alerts EXCEPT ![k] = IF final THEN NoAlert ELSE sig]

\* _process_finalized_session; sig is what the completed-flow model asks for.
Report(f, sig) ==
    /\ reported' = reported + f.packets
    /\ published' = [published EXCEPT ![f.key] = f.reason]
    /\ alerts' = AlertsAfter(f.key, sig, TRUE)
    /\ silent' = IF sig = NoAlert THEN silent \cup {f.key} ELSE silent \ {f.key}

\* Mutant: a session that timed out is not reported to the backend.
DrainQuietMutant(f, sig) ==
    /\ pc = "drain"
    /\ f \in pending
    /\ pending' = pending \ {f}
    /\ reported' = reported + f.packets
    /\ UNCHANGED <<now, key, pc, sessions, predictions, processed, published, alerts, silent>>

\* The sessions the packet expired, one after the other.
Drain(f, sig) ==
    /\ pc = "drain"
    /\ f \in pending
    /\ pending' = pending \ {f}
    /\ Report(f, sig)
    /\ UNCHANGED <<now, key, pc, sessions, predictions, processed>>

Drained ==
    /\ pc = "drain"
    /\ pending = {}
    /\ pc' = "predict"
    /\ UNCHANGED <<now, key, sessions, predictions, pending, alerts, processed, reported,
                   published, silent>>

----------------------------------------------------------------------------
\* The live prediction

Age(s) == IF s.seen > s.start THEN s.seen - s.start ELSE 0
Ready(s) == Age(s) >= MinAge /\ s.packets >= MinPackets
Due(s, p) == p.count = 0 \/ s.packets - p.count >= EveryN \/ s.seen - p.time >= EveryM

ShouldPredict(s, p) == s.finished \/ (Ready(s) /\ Due(s, p))

Predict(sig) ==
    /\ pc = "predict"
    /\ ShouldPredict(sessions[key], predictions[key])
    /\ predictions' = [predictions EXCEPT ![key] = [count |-> sessions[key].packets,
                                                    time |-> sessions[key].seen]]
    /\ published' = [published EXCEPT ![key] = "active"]
    /\ alerts' = AlertsAfter(key, sig, FALSE)
    /\ silent' = silent \ {key}
    /\ pc' = "finalize"
    /\ UNCHANGED <<now, key, sessions, pending, processed, reported>>

NoPrediction ==
    /\ pc = "predict"
    /\ ~ShouldPredict(sessions[key], predictions[key])
    /\ pc' = "finalize"
    /\ UNCHANGED <<now, key, sessions, predictions, pending, alerts, processed, reported,
                   published, silent>>

----------------------------------------------------------------------------
\* finalize_session_if_needed, then _process_finalized_session

\* Mutant: the finished session is reported and stays open.
FinalizeKeepsMutant(sig) ==
    /\ pc = "finalize"
    /\ sessions[key].finished
    /\ Report([key |-> key, reason |-> "flow_end", packets |-> sessions[key].packets], sig)
    /\ pc' = "idle"
    /\ UNCHANGED <<now, key, pending, processed, sessions, predictions>>

\* Mutant: the prediction state of a finished session is left behind.
FinalizeLeaksMutant(sig) ==
    /\ pc = "finalize"
    /\ sessions[key].finished
    /\ sessions' = Without(sessions, {key})
    /\ Report([key |-> key, reason |-> "flow_end", packets |-> sessions[key].packets], sig)
    /\ pc' = "idle"
    /\ UNCHANGED <<now, key, pending, processed, predictions>>

Finalize(sig) ==
    /\ pc = "finalize"
    /\ sessions[key].finished
    /\ sessions' = Without(sessions, {key})
    /\ predictions' = Without(predictions, {key})
    /\ Report([key |-> key, reason |-> "flow_end", packets |-> sessions[key].packets], sig)
    /\ pc' = "idle"
    /\ UNCHANGED <<now, key, pending, processed>>

Continue ==
    /\ pc = "finalize"
    /\ ~sessions[key].finished
    /\ pc' = "idle"
    /\ UNCHANGED <<now, key, sessions, predictions, pending, alerts, processed, reported,
                   published, silent>>

----------------------------------------------------------------------------
Outcomes == Signatures \cup {NoAlert}

Next ==
    \/ \E k \in Keys, t \in Time, fin \in BOOLEAN : ProcessPacket(k, t, fin)
    \/ \E f \in pending, sig \in Outcomes : Drain(f, sig)
    \/ Drained
    \/ \E sig \in Outcomes : Predict(sig) \/ Finalize(sig)
    \/ NoPrediction
    \/ Continue

Spec == Init /\ [][Next]_vars

----------------------------------------------------------------------------
\* Properties

\* The variables have the types the code gives them; the two dictionaries have
\* the same keys, so no state is left behind by a session that is gone.
TypeOK ==
    /\ now \in Time
    /\ key \in Keys
    /\ pc \in {"idle", "drain", "predict", "finalize"}
    /\ Open \subseteq Keys
    /\ sessions \in [Open -> Session]
    /\ predictions \in [Open -> Prediction]
    /\ pending \subseteq Finalized
    /\ alerts \in [Keys -> Outcomes]
    /\ processed \in 0..MaxPackets
    /\ reported \in Nat
    /\ published \in [Keys -> Reasons \cup {"none", "active"}]
    /\ silent \subseteq Keys

\* The packets of the sessions that wait to be handed over, and of the open ones.
Waiting(fs) == MapThenSumSet(LAMBDA f : f.packets, fs)
Held(dict) == MapThenSumSet(LAMBDA k : dict[k].packets, DOMAIN dict)

\* Every packet belongs to exactly one session, and every session is handed to
\* the completed-flow model exactly once: the packets of the reported, the
\* expired and the open sessions are the packets processed.
PacketsAccounted == processed = reported + Waiting(pending) + Held(sessions)

\* Between packets no session is open that is finished, idle for too long or too
\* old at the time of the last packet, whichever session that packet belonged to.
NoStaleSession ==
    pc = "idle" => \A k \in Open : /\ ~sessions[k].finished
                                   /\ now - sessions[k].seen < Idle
                                   /\ now - sessions[k].start < MaxDuration

\* Between packets no session is behind with its predictions: one that is old and
\* large enough had one within EveryN packets and EveryM seconds of its last packet.
PredictionsCurrent ==
    pc = "idle" => \A k \in Open : Ready(sessions[k]) => ~Due(sessions[k], predictions[k])

\* Nothing that is due when a packet arrives is still due when its processing ends, also
\* when timestamps go back: neither the end of a session nor a prediction.
NothingOverdue == NoStaleSession /\ PredictionsCurrent

\* No session that is gone is left as "active": its end is handed to the session
\* update publisher after everything else that was said about it, even when the
\* packet that ends it also opens the next session with the same five-tuple.
NoGhostSession ==
    pc = "idle" => \A k \in Keys : published[k] = "active" => k \in Open

\* The alert state of a key outlives its session only when the completed-flow
\* model did not confirm the alert.  Then the next session with the same five-tuple
\* inherits it: its first alert is withheld when it has the same signature, and is
\* "updated", not "new", when it has another.
AlertStateOwned ==
    pc = "idle" => \A k \in Keys : alerts[k] # NoAlert => k \in Open \cup silent
============================================================================
