-------------------------- MODULE CommandDelivery --------------------------
(***************************************************************************)
(* How the backend's commands reach the engine: the connection loop of     *)
(* EngineWSClient (packet_capture/realtime/engine_ws_client.py) with its   *)
(* catch-up poll, or the poll loop of SnifferService; then                 *)
(* PacketProcessor.apply_backend_command and the ProcessedCommandStore     *)
(* that keeps a command from being applied twice.                          *)
(*                                                                         *)
(* Commands are numbered in the order the backend issued them.  The        *)
(* backend offers a command until it is acknowledged, oldest first, at     *)
(* most PollLimit in one poll, and pushes a new one over an open           *)
(* connection.  What an action does to the firewall is AutoBlocker's       *)
(* matter: here it succeeds, fails or raises.                              *)
(***************************************************************************)
EXTENDS Integers, Sequences, FiniteSets

CONSTANTS Modes,        \* the ways of delivery to look at: "ws", "poll"
          MaxCommands,  \* bound: commands issued
          PollLimit,    \* commands in one answer to a poll
          MaxIds,       \* max_command_ids
          AckQueueMax,  \* size of the acknowledgement queue
          MaxAttempt,   \* first attempt whose backoff does not fit a float
          WsFaults,     \* the faults that may happen with the websocket client
          PollFaults,   \* the faults that may happen with the poll loop
          MaxFaults     \* bound: number of faults

ASSUME DeliveryAssumption ==
    /\ Modes \subseteq {"ws", "poll"}
    /\ MaxCommands \in Nat
    /\ PollLimit \in Nat \ {0}
    /\ MaxIds \in Nat \ {0}
    /\ AckQueueMax \in Nat \ {0}
    /\ MaxAttempt \in Nat
    /\ WsFaults \subseteq {"connect", "drop", "poll", "ack", "raise", "save", "crash"}
    /\ PollFaults \subseteq {"poll", "ack", "raise", "save", "crash"}
    /\ MaxFaults \in Nat

VARIABLES mode,         \* engine_ws_client is there, or only the poll loop
          issued,       \* number of commands issued
          pending,      \* commands the backend still offers
          connected,    \* _ws is an open, authenticated connection
          frames,       \* pushed commands not yet read
          pc,           \* where the client thread is
          attempt,      \* attempt of _connect_loop
          work,         \* commands of the last poll still to do
          cmd,          \* the command in hand
          via,          \* how its acknowledgement goes out
          ok,           \* what it will say
          ids,          \* _command_ids
          disk,         \* the ids in the store's file
          acks,         \* _ack_publisher's queue
          faults,       \* number of faults so far
          applied,      \* history: commands that took effect
          reapplied,    \* history: commands that took effect again
          effect,       \* history: the command that took effect last
          failed,       \* history: commands that failed at least once
          interrupted,  \* history: took effect, but the id was not saved then
          trimmed,      \* history: ids that fell out of the store
          confirmed     \* history: acknowledged as successful

clientVars == <<pc, attempt, work, cmd, via, ok>>
linkVars == <<connected, frames>>
storeVars == <<ids, disk, trimmed>>
historyVars == <<applied, reapplied, effect, failed, interrupted>>
vars == <<mode, issued, pending, connected, frames, pc, attempt, work, cmd, via, ok, ids,
          disk, acks, faults, applied, reapplied, effect, failed, interrupted,
          trimmed, confirmed>>

Command == 1..MaxCommands
NoCommand == 0
Ids(s) == {s[i] : i \in DOMAIN s}
Begin(m) == IF m = "ws" THEN "connect" ELSE "poll"
FaultKinds == IF mode = "ws" THEN WsFaults ELSE PollFaults

Init ==
    /\ mode \in Modes
    /\ issued = 0
    /\ pending = {}
    /\ connected = FALSE
    /\ frames = <<>>
    /\ pc = Begin(mode)
    /\ attempt = 0
    /\ work = <<>>
    /\ cmd = NoCommand
    /\ via = "rest"
    /\ ok = FALSE
    /\ ids = <<>>
    /\ disk = <<>>
    /\ acks = <<>>
    /\ faults = 0
    /\ applied = {}
    /\ reapplied = {}
    /\ effect = NoCommand
    /\ failed = {}
    /\ interrupted = {}
    /\ trimmed = {}
    /\ confirmed = {}

Fault(kind) ==
    /\ kind \in FaultKinds
    /\ faults < MaxFaults
    /\ faults' = faults + 1

----------------------------------------------------------------------------
\* The backend

Issue ==
    /\ issued < MaxCommands
    /\ issued' = issued + 1
    /\ pending' = pending \cup {issued + 1}
    /\ frames' = IF connected THEN Append(frames, issued + 1) ELSE frames
    /\ UNCHANGED <<mode, connected, acks, faults, confirmed, clientVars, storeVars,
                   historyVars>>

\* An acknowledgement may be lost on its way.
Acknowledge(c, success) ==
    \/ /\ Fault("ack")
       /\ UNCHANGED <<pending, confirmed>>
    \/ /\ pending' = pending \ {c}
       /\ UNCHANGED faults
       /\ confirmed' = IF success THEN confirmed \cup {c} ELSE confirmed

\* The connection breaks; of the frames on their way a prefix still arrives.
Drop ==
    /\ connected
    /\ Fault("drop")
    /\ connected' = FALSE
    /\ \E n \in 0..Len(frames) : frames' = SubSeq(frames, 1, n)
    /\ UNCHANGED <<mode, issued, pending, acks, confirmed, clientVars, storeVars,
                   historyVars>>

----------------------------------------------------------------------------
\* _connect_loop and _run_connection

Goto(step) ==
    /\ pc' = step
    /\ UNCHANGED <<attempt, work, cmd, via, ok>>

\* Mutant: no catch-up poll.
ConnectNoCatchupMutant ==
    /\ pc = "connect"
    /\ connected' = TRUE
    /\ frames' = <<>>
    /\ Goto("listen")
    /\ UNCHANGED <<mode, issued, pending, acks, faults, confirmed, storeVars, historyVars>>

Connect ==
    /\ pc = "connect"
    /\ connected' = TRUE
    /\ frames' = <<>>
    /\ Goto("poll")
    /\ UNCHANGED <<mode, issued, pending, acks, faults, confirmed, storeVars, historyVars>>

\* Connecting or authenticating fails.
ConnectFails ==
    /\ pc = "connect"
    /\ Fault("connect")
    /\ Goto("backoff")
    /\ UNCHANGED <<mode, issued, pending, acks, confirmed, linkVars, storeVars,
                   historyVars>>

\* _next_backoff_delay: 2**attempt is multiplied with a float, and too large an
\* attempt raises OverflowError, which nothing catches.  attempt is never reset.
Backoff ==
    /\ pc = "backoff"
    /\ IF attempt < MaxAttempt
       THEN pc' = "connect" /\ attempt' = attempt + 1
       ELSE pc' = "dead" /\ UNCHANGED attempt
    /\ UNCHANGED <<work, cmd, via, ok, mode, issued, pending, acks, faults, confirmed,
                   linkVars, storeVars, historyVars>>

----------------------------------------------------------------------------
\* poll_commands: the catch-up poll, and the poll loop

\* The oldest pending commands, in order.
IsAnswer(answer) ==
    /\ Len(answer) = (IF Cardinality(pending) < PollLimit THEN Cardinality(pending) ELSE PollLimit)
    /\ \A i \in DOMAIN answer :
          /\ answer[i] \in pending
          /\ Cardinality({c \in pending : c <= answer[i]}) = i

Answers == UNION {[1..n -> pending] : n \in 0..Cardinality(pending)}

Poll ==
    /\ pc = "poll"
    /\ \E answer \in Answers : IsAnswer(answer) /\ work' = answer
    /\ pc' = "next"
    /\ UNCHANGED <<attempt, cmd, via, ok, mode, issued, pending, acks, faults, confirmed,
                   linkVars, storeVars, historyVars>>

\* A failed request looks like an empty answer.
PollFails ==
    /\ pc = "poll"
    /\ Fault("poll")
    /\ Goto("next")
    /\ UNCHANGED <<mode, issued, pending, acks, confirmed, linkVars, storeVars,
                   historyVars>>

\* Mutant: the commands of an answer are applied last to first.
TakeLastMutant ==
    /\ pc = "next"
    /\ work # <<>>
    /\ cmd' = work[Len(work)]
    /\ work' = SubSeq(work, 1, Len(work) - 1)
    /\ via' = "rest"
    /\ pc' = "apply"
    /\ UNCHANGED <<attempt, ok, mode, issued, pending, acks, faults, confirmed, linkVars,
                   storeVars, historyVars>>

TakePolled ==
    /\ pc = "next"
    /\ work # <<>>
    /\ cmd' = Head(work)
    /\ work' = Tail(work)
    /\ via' = "rest"
    /\ pc' = "apply"
    /\ UNCHANGED <<attempt, ok, mode, issued, pending, acks, faults, confirmed, linkVars,
                   storeVars, historyVars>>

\* The poll loop sleeps and polls again; the connection has done its one poll.
PollDone ==
    /\ pc = "next"
    /\ work = <<>>
    /\ Goto(IF mode = "ws" THEN "listen" ELSE "poll")
    /\ UNCHANGED <<mode, issued, pending, acks, faults, confirmed, linkVars, storeVars,
                   historyVars>>

----------------------------------------------------------------------------
\* async for raw in ws

Receive ==
    /\ pc = "listen"
    /\ frames # <<>>
    /\ cmd' = Head(frames)
    /\ frames' = Tail(frames)
    /\ via' = "ws"
    /\ pc' = "apply"
    /\ UNCHANGED <<attempt, work, ok, connected, mode, issued, pending, acks, faults,
                   confirmed, storeVars, historyVars>>

Closed ==
    /\ pc = "listen"
    /\ ~connected
    /\ frames = <<>>
    /\ Goto("backoff")
    /\ UNCHANGED <<mode, issued, pending, acks, faults, confirmed, linkVars, storeVars,
                   historyVars>>

----------------------------------------------------------------------------
\* apply_backend_command

\* An exception closes the connection and is followed by a backoff; it ends the
\* thread of the poll loop.
Raise ==
    /\ pc' = IF mode = "ws" THEN "backoff" ELSE "dead"
    /\ connected' = FALSE
    /\ frames' = <<>>
    /\ work' = <<>>
    /\ cmd' = NoCommand
    /\ UNCHANGED <<attempt, via, ok>>

ApplyDuplicate ==
    /\ pc = "apply"
    /\ cmd \in Ids(ids)
    /\ ok' = TRUE
    /\ pc' = "ack"
    /\ UNCHANGED <<attempt, work, cmd, via, mode, issued, pending, acks, faults, confirmed,
                   linkVars, storeVars, historyVars>>

\* Mutant: the processed ids are not consulted.
ApplyUncheckedMutant ==
    /\ pc = "apply"
    /\ applied' = applied \cup {cmd}
    /\ reapplied' = reapplied \cup ({cmd} \cap applied)
    /\ effect' = cmd
    /\ Goto("store")
    /\ UNCHANGED <<mode, issued, pending, acks, faults, confirmed, failed, interrupted,
                   linkVars, storeVars>>

ApplySucceeds ==
    /\ pc = "apply"
    /\ cmd \notin Ids(ids)
    /\ applied' = applied \cup {cmd}
    /\ reapplied' = reapplied \cup ({cmd} \cap applied)
    /\ effect' = cmd
    /\ Goto("store")
    /\ UNCHANGED <<mode, issued, pending, acks, faults, confirmed, failed, interrupted,
                   linkVars, storeVars>>

\* Cooldown, firewall error, unknown action: nothing is stored.
ApplyFails ==
    /\ pc = "apply"
    /\ cmd \notin Ids(ids)
    /\ failed' = failed \cup {cmd}
    /\ ok' = FALSE
    /\ pc' = "ack"
    /\ UNCHANGED <<attempt, work, cmd, via, mode, issued, pending, acks, faults, confirmed,
                   applied, reapplied, effect, interrupted, linkVars, storeVars>>

ApplyRaises ==
    /\ pc = "apply"
    /\ cmd \notin Ids(ids)
    /\ Fault("raise")
    /\ Raise
    /\ UNCHANGED <<mode, issued, pending, acks, confirmed, storeVars, historyVars>>

----------------------------------------------------------------------------
\* ProcessedCommandStore.add

\* Mutant: the ids are never trimmed.
NewestAllMutant(s) == s

Newest(s) == IF Len(s) > MaxIds THEN SubSeq(s, Len(s) - MaxIds + 1, Len(s)) ELSE s

Remember ==
    /\ ids' = Newest(Append(ids, cmd))
    /\ trimmed' = trimmed \cup (Ids(ids) \ Ids(ids'))

Store ==
    /\ pc = "store"
    /\ Remember
    /\ disk' = ids'
    /\ ok' = TRUE
    /\ pc' = "ack"
    /\ UNCHANGED <<attempt, work, cmd, via, mode, issued, pending, acks, faults, confirmed,
                   linkVars, historyVars>>

\* OSError out of _save: the id is in memory only.
StoreFails ==
    /\ pc = "store"
    /\ Fault("save")
    /\ Remember
    /\ interrupted' = interrupted \cup {cmd}
    /\ Raise
    /\ UNCHANGED <<mode, issued, pending, acks, confirmed, disk, applied, reapplied, effect,
                   failed>>

----------------------------------------------------------------------------
\* Acknowledgements

AckRest ==
    /\ pc = "ack"
    /\ via = "rest"
    /\ Acknowledge(cmd, ok)
    /\ pc' = "next"
    /\ cmd' = NoCommand
    /\ UNCHANGED <<attempt, work, via, ok, mode, issued, acks, linkVars, storeVars,
                   historyVars>>

\* submit to the acknowledgement publisher drops when its queue is full.
AckSubmit ==
    /\ pc = "ack"
    /\ via = "ws"
    /\ acks' = IF Len(acks) < AckQueueMax THEN Append(acks, <<cmd, ok>>) ELSE acks
    /\ pc' = "listen"
    /\ cmd' = NoCommand
    /\ UNCHANGED <<attempt, work, via, ok, mode, issued, pending, faults, confirmed,
                   linkVars, storeVars, historyVars>>

\* The publisher's worker: without a connection the acknowledgement is gone.
AckSend ==
    /\ acks # <<>>
    /\ acks' = Tail(acks)
    /\ IF connected THEN Acknowledge(Head(acks)[1], Head(acks)[2])
       ELSE UNCHANGED <<pending, confirmed, faults>>
    /\ UNCHANGED <<mode, issued, clientVars, linkVars, storeVars, historyVars>>

----------------------------------------------------------------------------
\* The engine ends and is started again; _load reads the ids back.
Crash ==
    /\ Fault("crash")
    /\ interrupted' = IF pc = "store" THEN interrupted \cup {cmd} ELSE interrupted
    /\ pc' = Begin(mode)
    /\ attempt' = 0
    /\ work' = <<>>
    /\ cmd' = NoCommand
    /\ via' = "rest"
    /\ ok' = FALSE
    /\ connected' = FALSE
    /\ frames' = <<>>
    /\ acks' = <<>>
    /\ ids' = disk
    /\ UNCHANGED <<mode, issued, pending, confirmed, disk, trimmed, applied, reapplied,
                   effect, failed>>

----------------------------------------------------------------------------
Client ==
    \/ Connect \/ Backoff
    \/ Poll \/ TakePolled \/ PollDone
    \/ Receive \/ Closed
    \/ ApplyDuplicate \/ ApplySucceeds \/ ApplyFails
    \/ Store
    \/ AckRest \/ AckSubmit

Faults == Drop \/ ConnectFails \/ PollFails \/ ApplyRaises \/ StoreFails \/ Crash

Next == Issue \/ Client \/ AckSend \/ Faults

Spec == Init /\ [][Next]_vars

\* The client and the acknowledgement worker run; faults are finitely many, so
\* the backend is reachable in the end.
FairSpec == Spec /\ WF_vars(Client) /\ WF_vars(AckSend)
----------------------------------------------------------------------------
\* Properties

\* The variables have the types the code gives them; the store and the queue of
\* acknowledgements keep within their limits.
TypeOK ==
    /\ mode \in Modes
    /\ issued \in 0..MaxCommands
    /\ pending \subseteq Command
    /\ connected \in BOOLEAN
    /\ frames \in Seq(Command)
    /\ pc \in {"connect", "backoff", "poll", "next", "listen", "apply", "store", "ack", "dead"}
    /\ attempt \in 0..MaxAttempt
    /\ work \in Seq(Command)
    /\ cmd \in Command \cup {NoCommand}
    /\ via \in {"rest", "ws"}
    /\ ok \in BOOLEAN
    /\ ids \in Seq(Command) /\ Len(ids) <= MaxIds
    /\ disk \in Seq(Command) /\ Len(disk) <= MaxIds
    /\ acks \in Seq(Command \X BOOLEAN) /\ Len(acks) <= AckQueueMax
    /\ faults \in 0..MaxFaults
    /\ applied \subseteq Command
    /\ reapplied \subseteq Command
    /\ effect \in Command \cup {NoCommand}
    /\ failed \subseteq Command
    /\ interrupted \subseteq Command
    /\ trimmed \subseteq Command
    /\ confirmed \subseteq Command

\* A command takes effect again only when the engine ended, or the store's file
\* could not be written, between its effect and the saving of its id, or when the
\* id fell out of the bounded store.
ReapplyNeedsLostId == reapplied \subseteq interrupted \cup trimmed

\* What apply_backend_command reported as done will not be done again after a
\* restart: the id is on disk before the backend is told.
ConfirmedIsDurable == confirmed \subseteq Ids(disk) \cup interrupted \cup trimmed

\* Each command takes effect once: the saved ids stand for everything that was done and
\* reported, through redeliveries, lost acknowledgements and restarts.
IdsDurable == ReapplyNeedsLostId /\ ConfirmedIsDurable

\* An older command never undoes a newer one: redelivery keeps the order, unless
\* the older one failed before or its id was lost.
NoStaleCommand ==
    [][effect' # effect =>
          effect' > effect \/ effect' \in failed \cup interrupted \cup trimmed]_vars

\* SnifferService.start: "the durable queue keeps being drained": every command
\* is applied in the end, or its failure is reported.
QueueDrained == \A c \in Command : c <= issued ~> c \in applied \cup failed
============================================================================
