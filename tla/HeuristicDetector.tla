------------------------- MODULE HeuristicDetector -------------------------
(***************************************************************************)
(* The packet heuristics (threat_detection/heuristic.py), the brute-force  *)
(* counter and the decision to block (response_engine/policy.py), in the   *)
(* order PacketProcessor.process calls them.                               *)
(*                                                                         *)
(* A packet is its source, destination, destination port, size and         *)
(* whether it has SYN without ACK.  Times are seconds.  The three deques   *)
(* per source are one function of the window; all hold <<time, port>>.  A  *)
(* source is a key of the dictionaries exactly when one of its deques is   *)
(* not empty: every packet leaves its own deque non-empty, and the sweep   *)
(* removes a source whose deques it emptied.  What a block does is         *)
(* AutoBlocker's.                                                          *)
(***************************************************************************)
EXTENDS Integers, Sequences, FiniteSets, FiniteSetsExt

CONSTANTS Sources, Hosts,
          Packets,           \* the packets that may arrive
          NoPort,            \* dst_port and src_port are None
          SensitivePorts,    \* sensitive_ports
          ServicePorts,      \* bruteforce_service_ports
          Never,             \* _last_pruned_at is None
          Width,             \* *_window_seconds
          Threshold,         \* *_threshold
          AttemptWindow, AttemptThreshold,
          MaxTracked,        \* max_tracked_ips
          PruneInterval,     \* _prune_interval_seconds
          Steps,             \* by how much the clock may advance between packets
          Lag,               \* how far a timestamp may be behind an earlier one
          MaxPackets         \* bound: packets

Windows == {"burst", "sweep", "syn"}

ASSUME HeuristicAssumption ==
    /\ Width \in [Windows -> Nat \ {0}]
    /\ Threshold \in [Windows -> Nat \ {0}]
    /\ AttemptWindow \in Nat \ {0}
    /\ AttemptThreshold \in Nat \ {0}
    /\ MaxTracked \in Nat \ {0}
    /\ PruneInterval \in Nat \ {0}
    /\ Steps \subseteq Nat
    /\ Lag \in Nat
    /\ MaxPackets \in Nat
    /\ NoPort \notin SensitivePorts \cup ServicePorts
    /\ \A p \in Packets : p.src \in Sources /\ p.dst \in Hosts

VARIABLES recent,       \* _src_packet_times, _src_recent_dst_ports, _src_syn_only_times
          last_seen,    \* _last_seen, 0 for a source without entry
          last_pruned,  \* _last_pruned_at
          attempts,     \* _attempts of the policy
          verdict,      \* why the last packet's source was to be blocked
          log,          \* history: the packets so far and their timestamps
          evicted       \* history: up to where a source's packets were given up by eviction

detectorVars == <<recent, last_seen, last_pruned, attempts, verdict, log, evicted>>

DetectorInit ==
    /\ recent = [w \in Windows |-> [s \in Sources |-> <<>>]]
    /\ last_seen = [s \in Sources |-> 0]
    /\ last_pruned = Never
    /\ attempts = [k \in Sources \X Hosts \X ServicePorts |-> <<>>]
    /\ verdict = {}
    /\ log = <<>>
    /\ evicted = [s \in Sources |-> 0]

----------------------------------------------------------------------------
\* Mutant: the edge of the window is outside.
TrimmedEarlyMutant(q, cutoff) ==
    SubSeq(q, Min({i \in 1..Len(q) : q[i][1] > cutoff} \cup {Len(q) + 1}), Len(q))

\* popleft while the first element is older than the cutoff
Trimmed(q, cutoff) ==
    SubSeq(q, Min({i \in 1..Len(q) : q[i][1] >= cutoff} \cup {Len(q) + 1}), Len(q))

\* The windows a packet enters
Feeds(p) ==
    {"burst"} \cup {w \in {"sweep"} : p.port # NoPort} \cup {w \in {"syn"} : p.syn}

\* Mutant: only the sweep trims.
AppendedUntrimmedMutant(p, at) ==
    [w \in Windows |->
        IF w \in Feeds(p) THEN [recent[w] EXCEPT ![p.src] = Append(@, <<at, p.port>>)]
        ELSE recent[w]]

\* _append_time, _append_dst_port, _append_syn_only
Appended(p, at) ==
    [w \in Windows |->
        IF w \in Feeds(p)
        THEN [recent[w] EXCEPT ![p.src] = Trimmed(Append(@, <<at, p.port>>), at - Width[w])]
        ELSE recent[w]]

TrackedSources(deques) == {s \in Sources : \E w \in Windows : deques[w][s] # <<>>}

\* Mutant: the clock of the sweep is never advanced past its first run.
PruneOnceMutant(at) == last_pruned = Never

PruneDue(at) == last_pruned = Never \/ at - last_pruned >= PruneInterval

\* The first half of _prune_tracked_ips, when it is due
Swept(deques, at) ==
    IF PruneDue(at)
    THEN [w \in Windows |-> [s \in Sources |-> Trimmed(deques[w][s], at - Width[w])]]
    ELSE deques

\* The second half: the sources seen least recently go.  Ties are in the order of a
\* set of strings, that is in any order.
Evictions(deques, seen, at) ==
    LET overflow == Cardinality(TrackedSources(deques)) - MaxTracked
    IN  {gone \in SUBSET TrackedSources(deques) :
            /\ Cardinality(gone) = IF PruneDue(at) /\ overflow > 0 THEN overflow ELSE 0
            /\ \A e \in gone, k \in TrackedSources(deques) \ gone : seen[e] <= seen[k]}

Without(deques, gone) ==
    [w \in Windows |-> [s \in Sources |-> IF s \in gone THEN <<>> ELSE deques[w][s]]]

\* What a window has counted
Level(w, q) ==
    IF w = "sweep" THEN Cardinality({q[i][2] : i \in DOMAIN q}) ELSE Len(q)

OwnScore(p) ==
    (IF p.port = NoPort THEN 2 ELSE 0) + (IF p.size <= 0 THEN 3 ELSE 0)
    + (IF p.size < 40 THEN 1 ELSE 0) + (IF p.port \in SensitivePorts THEN 1 ELSE 0)

Weight == [burst |-> 3, sweep |-> 3, syn |-> 4]

Points(w, level) == IF level[w] >= Threshold[w] THEN Weight[w] ELSE 0

\* The score of a packet, for what each window has counted
Score(p, level) ==
    OwnScore(p) + Points("burst", level) + Points("sweep", level) + Points("syn", level)

Seen(p, at) == [last_seen EXCEPT ![p.src] = at]

\* Mutant: _last_seen keeps the sources that are gone.
KeptMutant(seen, tracked) == seen

Kept(seen, tracked) == [s \in Sources |-> IF s \in tracked THEN seen[s] ELSE 0]

\* evaluate_packet
EvaluatePacket(p, at) ==
    LET swept == Swept(Appended(p, at), at)
    IN  \E gone \in Evictions(swept, Seen(p, at), at) :
          /\ recent' = Without(swept, gone)
          /\ last_seen' = Kept(Seen(p, at), TrackedSources(recent'))
          /\ last_pruned' = IF PruneDue(at) THEN at ELSE last_pruned
          /\ evicted' = [s \in Sources |-> IF s \in gone THEN Len(log) + 1 ELSE evicted[s]]

\* record_bruteforce_attempt
RecordAttempt(p, at) ==
    attempts' = IF p.port \in ServicePorts
                THEN [attempts EXCEPT ![<<p.src, p.dst, p.port>>] =
                        Trimmed(Append(@, <<at, p.port>>), at - AttemptWindow)]
                ELSE attempts

\* classify_heuristic_action, and the answer of record_bruteforce_attempt
Verdict(p) ==
    {v \in {"heuristic"} :
        Score(p, [w \in Windows |-> Level(w, recent'[w][p.src])]) >= 3}
    \cup {v \in {"bruteforce"} :
        p.port \in ServicePorts /\ Len(attempts'[<<p.src, p.dst, p.port>>]) >= AttemptThreshold}

\* The first part of PacketProcessor.process
Process(p, at) ==
    /\ Len(log) < MaxPackets
    /\ EvaluatePacket(p, at)
    /\ RecordAttempt(p, at)
    /\ verdict' = Verdict(p)
    /\ log' = Append(log, [p |-> p, at |-> at])

Newest == Max({log[i].at : i \in DOMAIN log} \cup {1})

DetectorNext ==
    \E p \in Packets, step \in Steps \cup {0 - k : k \in 1..Lag} :
        Newest + step > 0 /\ Process(p, Newest + step)

DetectorSpec == DetectorInit /\ [][DetectorNext]_detectorVars
----------------------------------------------------------------------------
\* Properties

\* The variables have the types the code gives them; _last_seen has no source that the
\* deques do not have.
DetectorTypeOK ==
    /\ \A w \in Windows, s \in Sources :
         /\ Len(recent[w][s]) <= MaxPackets
         /\ \A i \in DOMAIN recent[w][s] : recent[w][s][i][1] \in Nat
    /\ last_seen \in [Sources -> Nat]
    /\ \A s \in Sources : last_seen[s] # 0 <=> s \in TrackedSources(recent)
    /\ last_pruned \in Nat \cup {Never}
    /\ DOMAIN attempts = Sources \X Hosts \X ServicePorts
    /\ verdict \subseteq {"heuristic", "bruteforce"}
    /\ evicted \in [Sources -> 0..MaxPackets]

\* The reference: the packets of a source that belong to a window, by their timestamps
\* alone, and how many (how many ports) they are.
InWindow(w, s, after, cutoff) ==
    {i \in (after + 1)..Len(log) :
        log[i].p.src = s /\ w \in Feeds(log[i].p) /\ log[i].at >= cutoff}

CountOf(w, indices) ==
    IF w = "sweep" THEN Cardinality({log[i].p.port : i \in indices}) ELSE Cardinality(indices)

AttemptsSince(key, cutoff) ==
    {i \in DOMAIN log :
        <<log[i].p.src, log[i].p.dst, log[i].p.port>> = key /\ log[i].at >= cutoff}

\* No burst, sweep, SYN surge or brute force goes unanswered: if the packets within the
\* window before the newest timestamp reach a threshold, the packet that completes them
\* blocks its source.  The sweep over other sources, timestamps that go back and idle
\* periods lose no packet; only eviction does.
NoMissedAttack ==
    log # <<>> =>
        LET p == log[Len(log)].p
            key == <<p.src, p.dst, p.port>>
        IN  /\ (\E w \in Windows :
                   CountOf(w, InWindow(w, p.src, evicted[p.src], Newest - Width[w])) >= Threshold[w])
                => "heuristic" \in verdict
            /\ p.port \in ServicePorts
               /\ Cardinality(AttemptsSince(key, Newest - AttemptWindow)) >= AttemptThreshold
               => "bruteforce" \in verdict

\* Nobody is blocked for old packets: a block has a score of 3 for packets no older than
\* the window, the disorder of the timestamps and, for a window the packet does not enter
\* itself, the interval of the sweep.
NoFalseBlock ==
    log # <<>> =>
        LET p == log[Len(log)].p
            at == log[Len(log)].at
            since == [w \in Windows |->
                        at - Width[w] - Lag - (IF w \in Feeds(p) THEN 0 ELSE PruneInterval - 1)]
        IN  /\ "heuristic" \in verdict =>
                 Score(p, [w \in Windows |->
                             CountOf(w, InWindow(w, p.src, 0, since[w]))]) >= 3
            /\ "bruteforce" \in verdict =>
                 Cardinality(AttemptsSince(<<p.src, p.dst, p.port>>, at - AttemptWindow - Lag))
                     >= AttemptThreshold

\* The number of sources is bounded although the sweep runs only now and then: those
\* beyond max_tracked_ips were all seen since the last sweep.
TrackedBounded ==
    LET since == Newest - Lag - Max({PruneInterval - 1, Lag})
    IN  Cardinality({s \in TrackedSources(recent) : InWindow("burst", s, 0, since) = {}}) <= MaxTracked

\* Eviction takes the sources whose last packet is oldest.
EvictsLeastRecent ==
    LET LastAt(s) == log'[Max({i \in DOMAIN log' : log'[i].p.src = s})].at
    IN  \A e \in {s \in Sources : evicted'[s] # evicted[s]}, k \in TrackedSources(recent)' :
            LastAt(e) <= LastAt(k)

\* Memory is bounded by giving up the sources seen longest ago, and no others.
EvictionSound == [][TrackedBounded' /\ EvictsLeastRecent]_detectorVars
=============================================================================
