---------------------------- MODULE AutoBlocker ----------------------------
(***************************************************************************)
(* The response engine's AutoBlocker (response_engine/auto_blocker.py) and *)
(* the firewall rules it keeps.  Two kinds of thread call it without a     *)
(* lock: the packet consumer (process: expire_blocks, temp_block) and the  *)
(* command thread (manual_block and manual_unblock).                       *)
(*                                                                         *)
(* Every firewall command is a step of its own (a subprocess), and so is   *)
(* every change of a dictionary.  Times are kept as what is left of them:  *)
(* a tick of the clock lowers every one.  Addresses that                   *)
(* _is_valid_routable_ip rejects, and a platform without a firewall        *)
(* adapter, leave everything unchanged and are left out.                   *)
(***************************************************************************)
EXTENDS Integers, FiniteSets

CONSTANTS Addrs,            \* the routable addresses
          NoAddr,           \* not an address
          Consumers,        \* threads that process packets
          Commanders,       \* threads that apply backend commands
          Cooldown,         \* block_cooldown_seconds
          AutoDurations,    \* durations of automatic blocks
          ManualDurations,  \* durations of manual blocks
          MaxLag,           \* bound: ticks counted during one temp_block
          MaxRules          \* bound: equal DROP rules for an address

ASSUME BlockerAssumption ==
    /\ IsFiniteSet(Addrs)
    /\ NoAddr \notin Addrs
    /\ Consumers \cap Commanders = {}
    /\ Cooldown \in Nat \ {0}
    /\ AutoDurations \subseteq Nat \ {0}
    /\ ManualDurations \subseteq Nat \ {0}
    /\ MaxLag \in Nat
    /\ MaxRules \in Nat \ {0}

Threads == Consumers \cup Commanders
Durations == AutoDurations \cup ManualDurations

\* The call a thread is in: where it is, the arguments of temp_block, the ticks
\* since temp_block read the time, the number of entries when expire_blocks
\* began its scan, the addresses the thread still has to unblock, the one it is
\* unblocking, and where it goes when none is left.
Frame == [pc : {"idle", "scan", "scanning", "expire", "pop_until", "pop_last", "delete",
                "cooldown", "check", "exists", "add", "set_last", "set_until", "dead"},
          addr : Addrs \cup {NoAddr},
          duration : Durations \cup {0},
          age : 0..MaxLag,
          size : Nat,
          expired : SUBSET Addrs,
          cur : Addrs \cup {NoAddr},
          ret : {"idle", "cooldown"}]

Rest == [pc |-> "idle", addr |-> NoAddr, duration |-> 0, age |-> 0, size |-> 0,
         expired |-> {}, cur |-> NoAddr, ret |-> "idle"]

VARIABLES rules,     \* number of DROP rules per address
          until,     \* _blocked_until: ticks left, 0 when expired, or Absent
          last,      \* _last_block_time: ticks left of the cooldown
          frame,     \* the call each thread is in
          orphans,   \* history: rules left behind by a failed unblock or restart
          tainted    \* history: addresses two threads worked on at once, or
                     \* with more than one rule

vars == <<rules, until, last, frame, orphans, tainted>>

Absent == -1
Tracked == {a \in Addrs : until[a] # Absent}
Left(n, t) == IF n > t THEN n - t ELSE 0

Init ==
    /\ rules = [a \in Addrs |-> 0]
    /\ until = [a \in Addrs |-> Absent]
    /\ last = [a \in Addrs |-> 0]
    /\ frame = [t \in Threads |-> Rest]
    /\ orphans = {}
    /\ tainted = {}

At(t, step) == frame[t].pc = step
Become(t, f) == frame' = [frame EXCEPT ![t] = f]
Goto(t, step) == Become(t, [frame[t] EXCEPT !.pc = step])
Return(t) == Become(t, Rest)

----------------------------------------------------------------------------
\* The firewall: what iptables -C, -A and -D report.  Any call may fail, and a
\* failed -C looks like "no such rule".

RuleReported(a, yes) == yes => rules[a] > 0

RuleAdded(a, ok) ==
    IF ok THEN rules[a] < MaxRules /\ rules' = [rules EXCEPT ![a] = @ + 1]
          ELSE UNCHANGED rules

RuleDeleted(a, ok) ==
    IF ok THEN rules[a] > 0 /\ rules' = [rules EXCEPT ![a] = @ - 1]
          ELSE UNCHANGED rules

----------------------------------------------------------------------------
\* Calls

\* PacketProcessor.process begins with expire_blocks.
StartExpire(t) ==
    /\ At(t, "idle")
    /\ t \in Consumers
    /\ Goto(t, "scan")
    /\ UNCHANGED <<rules, until, last, orphans>>

StartTempBlock(t, a, d) ==
    /\ At(t, "idle")
    /\ d \in IF t \in Consumers THEN AutoDurations ELSE ManualDurations
    /\ Become(t, [frame[t] EXCEPT !.pc = "scan", !.addr = a, !.duration = d,
                                  !.ret = "cooldown"])
    /\ UNCHANGED <<rules, until, last, orphans>>

StartUnblock(t, a) ==
    /\ At(t, "idle")
    /\ t \in Commanders
    /\ Become(t, [frame[t] EXCEPT !.pc = "delete", !.cur = a, !.expired = {a}])
    /\ UNCHANGED <<rules, until, last, orphans>>

----------------------------------------------------------------------------
\* expire_blocks

\* The list comprehension iterates over _blocked_until.
ScanBegin(t) ==
    /\ At(t, "scan")
    /\ Become(t, [frame[t] EXCEPT !.pc = "scanning", !.size = Cardinality(Tracked)])
    /\ UNCHANGED <<rules, until, last, orphans>>

\* Back from expire_blocks: to the caller, or on with temp_block.
Resume(t) ==
    Become(t, IF frame[t].ret = "idle" THEN Rest
              ELSE [Rest EXCEPT !.pc = "cooldown", !.addr = frame[t].addr,
                                !.duration = frame[t].duration, !.ret = "cooldown"])

\* Mutant: an entry expires a tick too early.
ScanEarlyMutant(t) ==
    /\ At(t, "scanning")
    /\ Cardinality(Tracked) = frame[t].size
    /\ LET found == {a \in Addrs : until[a] \in {0, 1}}
       IN  IF found = {} THEN Resume(t)
           ELSE Become(t, [frame[t] EXCEPT !.pc = "expire", !.size = 0, !.expired = found])
    /\ UNCHANGED <<rules, until, last, orphans>>

ScanEnd(t) ==
    /\ At(t, "scanning")
    /\ Cardinality(Tracked) = frame[t].size
    /\ LET found == {a \in Addrs : until[a] = 0}
       IN  IF found = {} THEN Resume(t)
           ELSE Become(t, [frame[t] EXCEPT !.pc = "expire", !.size = 0, !.expired = found])
    /\ UNCHANGED <<rules, until, last, orphans>>

\* RuntimeError: dictionary changed size during iteration.  It ends the packet
\* consumer; the command thread drops its connection, or ends when it polls.
ScanRaises(t) ==
    /\ At(t, "scanning")
    /\ Cardinality(Tracked) # frame[t].size
    /\ \/ Become(t, [Rest EXCEPT !.pc = "dead"])
       \/ t \in Commanders /\ Return(t)
    /\ UNCHANGED <<rules, until, last, orphans>>

\* Mutant: an entry is kept when its rule could not be deleted.
ExpireRetriesMutant(t) ==
    /\ At(t, "expire")
    /\ \E a \in frame[t].expired, ok \in BOOLEAN :
          /\ RuleDeleted(a, ok)
          /\ IF ok THEN Become(t, [frame[t] EXCEPT !.pc = "pop_until", !.cur = a])
                   ELSE Resume(t)
          /\ orphans' = orphans \ {a}
    /\ UNCHANGED <<until, last>>

\* The entry is dropped whether or not the rule could be deleted.
ExpireDelete(t) ==
    /\ At(t, "expire")
    /\ \E a \in frame[t].expired, ok \in BOOLEAN :
          /\ RuleDeleted(a, ok)
          /\ Become(t, [frame[t] EXCEPT !.pc = "pop_until", !.cur = a])
          /\ orphans' = IF ~ok /\ rules[a] > 0 THEN orphans \cup {a} ELSE orphans \ {a}
    /\ UNCHANGED <<until, last>>

PopUntil(t) ==
    /\ At(t, "pop_until")
    /\ until' = [until EXCEPT ![frame[t].cur] = Absent]
    /\ Goto(t, "pop_last")
    /\ UNCHANGED <<rules, last, orphans>>

\* Mutant: the cooldown outlives the block.
PopLastForgottenMutant(t) ==
    /\ At(t, "pop_last")
    /\ IF frame[t].expired \subseteq {frame[t].cur}
       THEN Resume(t)
       ELSE Become(t, [frame[t] EXCEPT !.pc = "expire", !.cur = NoAddr,
                                       !.expired = @ \ {frame[t].cur}])
    /\ UNCHANGED <<rules, until, last, orphans>>

PopLast(t) ==
    /\ At(t, "pop_last")
    /\ last' = [last EXCEPT ![frame[t].cur] = 0]
    /\ IF frame[t].expired \subseteq {frame[t].cur}
       THEN Resume(t)
       ELSE Become(t, [frame[t] EXCEPT !.pc = "expire", !.cur = NoAddr,
                                       !.expired = @ \ {frame[t].cur}])
    /\ UNCHANGED <<rules, until, orphans>>

----------------------------------------------------------------------------
\* Mutant: the entries are dropped although the rule is still there.
UnblockRegardlessMutant(t) ==
    /\ At(t, "delete")
    /\ \E ok \in BOOLEAN : RuleDeleted(frame[t].cur, ok)
    /\ Goto(t, "pop_until")
    /\ orphans' = orphans \ {frame[t].cur}
    /\ UNCHANGED <<until, last>>

\* manual_unblock: nothing is dropped when the rule could not be deleted.
UnblockDelete(t) ==
    /\ At(t, "delete")
    /\ \E ok \in BOOLEAN :
          /\ RuleDeleted(frame[t].cur, ok)
          /\ IF ok THEN Goto(t, "pop_until") /\ orphans' = orphans \ {frame[t].cur}
                   ELSE Return(t) /\ UNCHANGED orphans
    /\ UNCHANGED <<until, last>>

----------------------------------------------------------------------------
\* temp_block, behind its expire_blocks

CheckCooldown(t) ==
    /\ At(t, "cooldown")
    /\ IF last[frame[t].addr] > 0 THEN Return(t) ELSE Goto(t, "check")
    /\ UNCHANGED <<rules, until, last, orphans>>

\* firewall.is_blocked, then the same question in firewall.block_ip.
CheckRule(t, step, otherwise) ==
    /\ At(t, step)
    /\ \E yes \in BOOLEAN :
          /\ RuleReported(frame[t].addr, yes)
          /\ Goto(t, IF yes THEN "set_last" ELSE otherwise)
    /\ UNCHANGED <<rules, until, last, orphans>>

AddRule(t) ==
    /\ At(t, "add")
    /\ \E ok \in BOOLEAN :
          /\ RuleAdded(frame[t].addr, ok)
          /\ IF ok THEN Goto(t, "set_last") ELSE Return(t)
    /\ UNCHANGED <<until, last, orphans>>

\* Mutant: the cooldown is counted from the end of the call.
SetLastLateMutant(t) ==
    /\ At(t, "set_last")
    /\ last' = [last EXCEPT ![frame[t].addr] = Cooldown + frame[t].age]
    /\ Goto(t, "set_until")
    /\ UNCHANGED <<rules, until, orphans>>

SetLast(t) ==
    /\ At(t, "set_last")
    /\ last' = [last EXCEPT ![frame[t].addr] = Left(Cooldown, frame[t].age)]
    /\ Goto(t, "set_until")
    /\ UNCHANGED <<rules, until, orphans>>

SetUntil(t) ==
    /\ At(t, "set_until")
    /\ until' = [until EXCEPT ![frame[t].addr] = Left(frame[t].duration, frame[t].age)]
    /\ orphans' = orphans \ {frame[t].addr}
    /\ Return(t)
    /\ UNCHANGED <<rules, last>>

----------------------------------------------------------------------------
\* Environment

Blocking == {"check", "exists", "add", "set_last", "set_until"}

\* A second passes; the age of a temp_block is counted up to MaxLag.
Tick ==
    /\ until' = [a \in Addrs |-> IF until[a] > 0 THEN until[a] - 1 ELSE until[a]]
    /\ last' = [a \in Addrs |-> Left(last[a], 1)]
    /\ frame' = [t \in Threads |->
                   IF frame[t].pc \in Blocking /\ frame[t].age < MaxLag
                   THEN [frame[t] EXCEPT !.age = @ + 1] ELSE frame[t]]
    /\ UNCHANGED <<rules, orphans>>

\* The engine is started again: the rules stay, everything else is new.
Restart ==
    /\ orphans' = {a \in Addrs : rules[a] > 0}
    /\ until' = [a \in Addrs |-> Absent]
    /\ last' = [a \in Addrs |-> 0]
    /\ frame' = [t \in Threads |-> Rest]
    /\ UNCHANGED rules

----------------------------------------------------------------------------
\* The addresses a thread is working on: what it looked up is still in use.
Touching(f) == f.expired \cup IF f.pc \in Blocking THEN {f.addr} ELSE {}

Overlapping == {a \in Addrs : \E t, u \in Threads :
                   t # u /\ a \in Touching(frame[t]) /\ a \in Touching(frame[u])}
Doubled == {a \in Addrs : rules[a] > 1}

Step(t) ==
    \/ ScanBegin(t) \/ ScanEnd(t) \/ ScanRaises(t)
    \/ ExpireDelete(t) \/ PopUntil(t) \/ PopLast(t)
    \/ UnblockDelete(t)
    \/ CheckCooldown(t)
    \/ CheckRule(t, "check", "exists") \/ CheckRule(t, "exists", "add")
    \/ AddRule(t) \/ SetLast(t) \/ SetUntil(t)

Call(t) ==
    \/ StartExpire(t)
    \/ \E a \in Addrs : StartUnblock(t, a) \/ \E d \in Durations : StartTempBlock(t, a, d)

Taints == tainted' = tainted \cup Overlapping' \cup Doubled'

Next ==
    \/ \E t \in Threads : (Call(t) \/ Step(t)) /\ Taints
    \/ Tick /\ Taints
    \/ Restart /\ tainted' = Doubled

Spec == Init /\ [][Next]_vars

\* Threads run, the clock ticks, and packets keep arriving: blocks expire only
\* when a packet is processed.
FairSpec ==
    /\ Spec
    /\ \A t \in Threads : WF_vars(Step(t) /\ Taints)
    /\ \A t \in Consumers : WF_vars(StartExpire(t) /\ Taints)
    /\ WF_vars(Tick /\ Taints)

----------------------------------------------------------------------------
\* Properties

\* The variables have the types the code gives them.
TypeOK ==
    /\ rules \in [Addrs -> 0..MaxRules]
    /\ until \in [Addrs -> Nat \cup {Absent}]
    /\ last \in [Addrs -> 0..Cooldown]
    /\ frame \in [Threads -> Frame]
    /\ orphans \subseteq Addrs
    /\ tainted \subseteq Addrs

AtRest(a) == a \notin tainted /\ \A t \in Threads : a \notin Touching(frame[t])

\* Whatever the threads do to other addresses: an address no two threads worked
\* on at once has a DROP rule exactly when _blocked_until will expire it, or when
\* a failed unblock or a restart left the rule behind.
TrackedIffBlocked ==
    \A a \in Addrs : AtRest(a) => (rules[a] > 0 <=> until[a] # Absent \/ a \in orphans)

\* The cooldown turns away a block only for an address that is blocked already,
\* so "cooldown_active" never leaves an attacker unblocked.
CooldownMeansBlocked ==
    \A a \in Addrs : AtRest(a) /\ last[a] > 0 => rules[a] > 0 /\ until[a] # Absent

\* A block is lifted before its time only by manual_unblock or when two threads
\* worked on the address at once: a stale list of expired addresses never
\* removes the rule of a fresh block.
NoEarlyUnblock ==
    [][\A a \in Addrs : rules'[a] < rules[a] /\ until[a] > 0 =>
          a \in tainted' \/ \E t \in Commanders : At(t, "delete") /\ frame[t].cur = a]_vars

\* An address that temp_block is no longer called for loses its entry for good,
\* unless the consumer has died.
BlocksExpire ==
    \A a \in Addrs :
      <>[](\A t \in Threads : frame[t].addr # a)
         => <>[](until[a] = Absent) \/ <>(\E t \in Consumers : At(t, "dead"))
============================================================================
