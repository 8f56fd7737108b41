----------------------- MODULE CommandDeliveryProofs -----------------------
(***************************************************************************)
(* What the store of processed ids guarantees, for every number of         *)
(* commands and faults, every limit and both ways of delivery.             *)
(***************************************************************************)
EXTENDS CommandDelivery, SequenceTheorems, FiniteSetTheorems, TLAPS

\* From taking a command to acknowledging it, the client has one in hand.
InHand == pc \in {"apply", "store", "ack"} => cmd \in Command

Lost == interrupted \cup trimmed
Known == Ids(ids) \cup Lost
Saved == Ids(disk) \cup Lost

\* Up to the ids that were lost, memory and file hold the same ids: those of all commands that
\* took effect, except one whose id is about to be stored, and of all that were, are being or
\* are waiting to be acknowledged as done.
Durable ==
    /\ Known = Saved
    /\ applied \subseteq Known \cup (IF pc = "store" THEN {cmd} ELSE {})
    /\ reapplied \subseteq Lost
    /\ pc = "ack" /\ ok => cmd \in Saved
    /\ \A i \in DOMAIN acks : acks[i][2] => acks[i][1] \in Saved
    /\ confirmed \subseteq Saved

IInv == TypeOK /\ InHand /\ Durable

-----------------------------------------------------------------------------
\* The parts of a sequence are sequences.
LEMMA HeadTail ==
    ASSUME NEW S, NEW s \in Seq(S), s # <<>>
    PROVE  /\ Head(s) \in S /\ Tail(s) \in Seq(S)
           /\ Len(Tail(s)) = Len(s) - 1
           /\ Head(s) = s[1]
           /\ \A i \in DOMAIN Tail(s) : i + 1 \in DOMAIN s /\ Tail(s)[i] = s[i + 1]
OBVIOUS

LEMMA NoneYet ==
    /\ <<>> \in Seq(Command) /\ <<>> \in Seq(Command \X BOOLEAN)
    /\ Len(<<>>) = 0 /\ DOMAIN <<>> = {} /\ Ids(<<>>) = {}
BY DEF Ids

LEMMA PrefixSeq ==
    ASSUME NEW S, NEW s \in Seq(S), NEW n \in 0..Len(s)
    PROVE  SubSeq(s, 1, n) \in Seq(S)
OBVIOUS

\* ProcessedCommandStore.add keeps the new id and drops old ones only beyond max_command_ids.
LEMMA NewestIds ==
    ASSUME NEW s \in Seq(Command), NEW c \in Command, Len(s) <= MaxIds
    PROVE  LET kept == Newest(Append(s, c))
           IN  /\ kept \in Seq(Command) /\ Len(kept) <= MaxIds
               /\ c \in Ids(kept) /\ Ids(kept) \subseteq Ids(s) \cup {c}
<1> DEFINE all == Append(s, c)
<1>1. MaxIds \in Nat \ {0} BY DeliveryAssumption
<1>2. /\ all \in Seq(Command) /\ Len(all) = Len(s) + 1 /\ all[Len(all)] = c
      /\ \A i \in 1..Len(s) : all[i] = s[i]
      OBVIOUS
<1>3. Len(s) \in Nat OBVIOUS
<1>4. CASE Len(all) > MaxIds
  <2>1. Newest(all) = SubSeq(all, Len(all) - MaxIds + 1, Len(all)) BY <1>4 DEF Newest
  <2>2. /\ Newest(all) \in Seq(Command) /\ Len(Newest(all)) = MaxIds
        /\ \A i \in 1..MaxIds : Newest(all)[i] = all[i + (Len(all) - MaxIds)]
    <3> DEFINE first == Len(all) - MaxIds + 1
    <3> HIDE DEF all
    <3>1. first \in 1..Len(all) /\ Len(all) \in Nat BY <1>1, <1>2, <1>3, <1>4
    <3>2. /\ SubSeq(all, first, Len(all)) \in Seq(Command)
          /\ Len(SubSeq(all, first, Len(all))) = Len(all) - first + 1
          /\ \A i \in 1..(Len(all) - first + 1) :
                SubSeq(all, first, Len(all))[i] = all[first + i - 1]
          BY <1>2, <3>1, SubSeqProperties
    <3>3. Len(all) - first + 1 = MaxIds BY <1>1, <3>1
    <3>4. \A i \in 1..MaxIds : first + i - 1 = i + (Len(all) - MaxIds) BY <1>1, <3>1
    <3> QED BY <2>1, <3>2, <3>3, <3>4
  <2>3. Newest(all)[MaxIds] = c BY <1>1, <1>2, <1>3, <2>2
  <2>4. \A i \in 1..MaxIds : Newest(all)[i] \in Ids(s) \cup {c}
    <3> SUFFICES ASSUME NEW i \in 1..MaxIds PROVE Newest(all)[i] \in Ids(s) \cup {c} OBVIOUS
    <3> DEFINE j == i + (Len(all) - MaxIds)
    <3>1. j \in 1..Len(all) BY <1>1, <1>2, <1>3, <1>4
    <3>2. j \in 1..Len(s) \/ j = Len(all) BY <1>2, <1>3, <3>1
    <3>3. all[j] \in Ids(s) \cup {c} BY <1>2, <3>2 DEF Ids
    <3> QED BY <2>2, <3>3
  <2>5. DOMAIN Newest(all) = 1..MaxIds BY <2>2
  <2> QED BY <1>1, <2>2, <2>3, <2>4, <2>5 DEF Ids
<1>5. CASE ~(Len(all) > MaxIds)
  <2>1. Newest(all) = all BY <1>5 DEF Newest
  <2>2. DOMAIN all = 1..Len(all) BY <1>2
  <2>3. c \in Ids(all) BY <1>2, <1>3, <2>2 DEF Ids
  <2>4. \A i \in DOMAIN all : all[i] \in Ids(s) \cup {c} BY <1>2, <1>3, <2>2 DEF Ids
  <2> QED BY <1>1, <1>2, <1>3, <1>5, <2>1, <2>3, <2>4 DEF Ids
<1> QED BY <1>4, <1>5

-----------------------------------------------------------------------------
LEMMA InitIInv == Init => IInv
<1> SUFFICES ASSUME Init PROVE IInv OBVIOUS
<1>1. pc \in {"connect", "poll"} BY DEF Init, Begin
<1>2. Len(ids) <= MaxIds /\ Len(disk) <= MaxIds /\ Len(acks) <= AckQueueMax
      BY NoneYet, DeliveryAssumption DEF Init
<1>3. faults \in 0..MaxFaults /\ attempt \in 0..MaxAttempt /\ issued \in 0..MaxCommands
      BY DeliveryAssumption DEF Init
<1>4. TypeOK /\ InHand
      BY <1>1, <1>2, <1>3, NoneYet DEF Init, TypeOK, InHand, NoCommand
<1>5. Durable BY <1>1, NoneYet DEF Init, Durable, Known, Saved, Lost
<1> QED BY <1>4, <1>5 DEF IInv

LEMMA FaultCounted == ASSUME TypeOK, NEW k, Fault(k) PROVE faults' \in 0..MaxFaults
BY DeliveryAssumption DEF TypeOK, Fault

\* Steps that leave the store, the histories and the acknowledgements alone.
LEMMA PlainStep ==
    ASSUME IInv, UNCHANGED <<ids, disk, trimmed, interrupted, applied, reapplied, confirmed, acks>>,
           pc # "store", pc' # "store", pc' = "ack" /\ ok' => cmd' \in Saved
    PROVE  Durable'
BY DEF IInv, Durable, Known, Saved, Lost

LEMMA IssueStep == ASSUME IInv, Issue PROVE IInv'
<1>1. issued + 1 \in Command /\ issued' = issued + 1
      BY DeliveryAssumption DEF Issue, IInv, TypeOK, Command
<1>2. frames' \in Seq(Command) BY <1>1 DEF Issue, IInv, TypeOK
<1>3. TypeOK' BY <1>1, <1>2, DeliveryAssumption
      DEF Issue, IInv, TypeOK, clientVars, storeVars, historyVars, Command
<1>4. InHand' BY DEF Issue, IInv, InHand, clientVars
<1>5. Durable' BY DEF Issue, IInv, Durable, Known, Saved, Lost, clientVars, storeVars, historyVars
<1> QED BY <1>3, <1>4, <1>5 DEF IInv

LEMMA LinkSteps ==
    ASSUME IInv, Connect \/ ConnectFails \/ Backoff \/ PollFails \/ PollDone \/ Closed
    PROVE  IInv'
<1> USE DeliveryAssumption
<1>1. CASE Connect
  <2>1. TypeOK' /\ InHand'
        BY <1>1 DEF Connect, Goto, IInv, TypeOK, InHand, storeVars, historyVars
  <2> QED BY <1>1, <2>1, PlainStep DEF Connect, Goto, IInv, storeVars, historyVars
<1>2. CASE ConnectFails
  <2>1. TypeOK' /\ InHand'
        BY <1>2, FaultCounted
        DEF ConnectFails, Goto, IInv, TypeOK, InHand, linkVars, storeVars, historyVars
  <2> QED BY <1>2, <2>1, PlainStep DEF ConnectFails, Goto, IInv, storeVars, historyVars
<1>3. CASE Backoff
  <2>1. TypeOK' /\ InHand'
        BY <1>3 DEF Backoff, IInv, TypeOK, InHand, linkVars, storeVars, historyVars
  <2> QED BY <1>3, <2>1, PlainStep DEF Backoff, IInv, storeVars, historyVars
<1>4. CASE PollFails
  <2>1. TypeOK' /\ InHand'
        BY <1>4, FaultCounted
        DEF PollFails, Goto, IInv, TypeOK, InHand, linkVars, storeVars, historyVars
  <2> QED BY <1>4, <2>1, PlainStep DEF PollFails, Goto, IInv, storeVars, historyVars
<1>5. CASE PollDone
  <2>1. TypeOK' /\ InHand'
        BY <1>5 DEF PollDone, Goto, IInv, TypeOK, InHand, linkVars, storeVars, historyVars
  <2> QED BY <1>5, <2>1, PlainStep DEF PollDone, Goto, IInv, storeVars, historyVars
<1>6. CASE Closed
  <2>1. TypeOK' /\ InHand'
        BY <1>6 DEF Closed, Goto, IInv, TypeOK, InHand, linkVars, storeVars, historyVars
  <2> QED BY <1>6, <2>1, PlainStep DEF Closed, Goto, IInv, storeVars, historyVars
<1> QED BY <1>1, <1>2, <1>3, <1>4, <1>5, <1>6

LEMMA TakeSteps ==
    ASSUME IInv, Poll \/ TakePolled \/ Receive \/ Drop
    PROVE  IInv'
<1>1. CASE Poll
  <2>1. work' \in Seq(Command)
    <3>1. PICK answer \in Answers : work' = answer BY <1>1 DEF Poll
    <3>2. PICK n \in 0..Cardinality(pending) : answer \in [1..n -> pending] BY <3>1 DEF Answers
    <3>3. n \in Nat BY <3>2
    <3>4. pending \subseteq Command BY DEF IInv, TypeOK
    <3> QED BY <3>1, <3>2, <3>3, <3>4
  <2>2. TypeOK' /\ InHand'
        BY <1>1, <2>1 DEF Poll, IInv, TypeOK, InHand, linkVars, storeVars, historyVars
  <2> QED BY <1>1, <2>2, PlainStep DEF Poll, IInv, storeVars, historyVars
<1>2. CASE TakePolled
  <2>1. Head(work) \in Command /\ Tail(work) \in Seq(Command)
        BY <1>2, HeadTail DEF TakePolled, IInv, TypeOK
  <2>2. TypeOK' /\ InHand'
        BY <1>2, <2>1 DEF TakePolled, IInv, TypeOK, InHand, linkVars, storeVars, historyVars
  <2> QED BY <1>2, <2>2, PlainStep DEF TakePolled, IInv, storeVars, historyVars
<1>3. CASE Receive
  <2>1. Head(frames) \in Command /\ Tail(frames) \in Seq(Command)
        BY <1>3, HeadTail DEF Receive, IInv, TypeOK
  <2>2. TypeOK' /\ InHand'
        BY <1>3, <2>1 DEF Receive, IInv, TypeOK, InHand, storeVars, historyVars
  <2> QED BY <1>3, <2>2, PlainStep DEF Receive, IInv, storeVars, historyVars
<1>4. CASE Drop
  <2>1. frames' \in Seq(Command) BY <1>4, PrefixSeq DEF Drop, IInv, TypeOK
  <2>2. TypeOK' /\ InHand'
        BY <1>4, <2>1, FaultCounted
        DEF Drop, IInv, TypeOK, InHand, clientVars, storeVars, historyVars
  <2>3. Durable'
        BY <1>4 DEF Drop, IInv, Durable, Known, Saved, Lost, clientVars, storeVars, historyVars
  <2> QED BY <2>2, <2>3 DEF IInv
<1> QED BY <1>1, <1>2, <1>3, <1>4

\* A command that was known and takes effect again had lost its id.
LEMMA ApplySteps ==
    ASSUME IInv, ApplyDuplicate \/ ApplySucceeds \/ ApplyFails \/ ApplyRaises
    PROVE  IInv'
<1>0. pc = "apply" /\ cmd \in Command
      BY DEF IInv, InHand, ApplyDuplicate, ApplySucceeds, ApplyFails, ApplyRaises
<1>1. CASE ApplyDuplicate
  <2>1. TypeOK' /\ InHand'
        BY <1>1 DEF ApplyDuplicate, IInv, TypeOK, InHand, linkVars, storeVars, historyVars
  <2>2. cmd' = cmd /\ cmd \in Saved
        BY <1>1 DEF ApplyDuplicate, IInv, Durable, Known
  <2> QED BY <1>0, <1>1, <2>1, <2>2, PlainStep DEF ApplyDuplicate, IInv, storeVars, historyVars
<1>2. CASE ApplySucceeds
  <2>1. TypeOK' /\ InHand'
        BY <1>0, <1>2 DEF ApplySucceeds, Goto, IInv, TypeOK, InHand, linkVars, storeVars
  <2>2. {cmd} \cap applied \subseteq Lost
        BY <1>0, <1>2 DEF ApplySucceeds, IInv, Durable, Known
  <2>3. Known' = Known /\ Saved' = Saved /\ Lost' = Lost /\ cmd' = cmd /\ pc' = "store"
        BY <1>2 DEF ApplySucceeds, Goto, Known, Saved, Lost, storeVars
  <2>4. Durable'
        BY <1>0, <1>2, <2>2, <2>3 DEF ApplySucceeds, IInv, Durable
  <2> QED BY <2>1, <2>4 DEF IInv
<1>3. CASE ApplyFails
  <2>1. TypeOK' /\ InHand'
        BY <1>0, <1>3 DEF ApplyFails, IInv, TypeOK, InHand, linkVars, storeVars
  <2> QED BY <1>0, <1>3, <2>1, PlainStep DEF ApplyFails, IInv, storeVars
<1>4. CASE ApplyRaises
  <2>1. TypeOK' /\ InHand'
        BY <1>4, FaultCounted, NoneYet
        DEF ApplyRaises, Raise, IInv, TypeOK, InHand, NoCommand, storeVars, historyVars
  <2> QED BY <1>0, <1>4, <2>1, PlainStep
          DEF ApplyRaises, Raise, IInv, storeVars, historyVars
<1> QED BY <1>1, <1>2, <1>3, <1>4

\* What leaves the store is counted as lost, so nothing that was known is forgotten.
LEMMA RememberKnown ==
    ASSUME IInv, pc = "store", Remember, interrupted \subseteq interrupted'
    PROVE  /\ ids' \in Seq(Command) /\ Len(ids') <= MaxIds /\ trimmed' \subseteq Command
           /\ cmd \in Ids(ids')
           /\ Known \subseteq Known' /\ Known' \subseteq Known \cup {cmd} \cup interrupted'
           /\ Lost \subseteq Lost'
<1>1. cmd \in Command /\ ids \in Seq(Command) /\ Len(ids) <= MaxIds /\ trimmed \subseteq Command
      BY DEF IInv, InHand, TypeOK
<1>2. ids' = Newest(Append(ids, cmd)) /\ trimmed' = trimmed \cup (Ids(ids) \ Ids(ids'))
      BY DEF Remember
<1>3. /\ ids' \in Seq(Command) /\ Len(ids') <= MaxIds
      /\ cmd \in Ids(ids') /\ Ids(ids') \subseteq Ids(ids) \cup {cmd}
      BY <1>1, <1>2, NewestIds
<1>4. Ids(ids) \subseteq Command BY <1>1 DEF Ids
<1> QED BY <1>1, <1>2, <1>3, <1>4 DEF Known, Lost

LEMMA StoreSteps ==
    ASSUME IInv, Store \/ StoreFails
    PROVE  IInv'
<1>0. pc = "store" /\ cmd \in Command BY DEF IInv, InHand, Store, StoreFails
<1>1. CASE Store
  <2>1. /\ ids' \in Seq(Command) /\ Len(ids') <= MaxIds /\ trimmed' \subseteq Command
        /\ cmd \in Ids(ids') /\ Known \subseteq Known' /\ Lost \subseteq Lost'
        BY <1>0, <1>1, RememberKnown DEF Store, historyVars
  <2>2. TypeOK' /\ InHand'
        BY <1>0, <1>1, <2>1 DEF Store, IInv, TypeOK, InHand, linkVars, historyVars
  <2>3. Known' = Saved' BY <1>1 DEF Store, Known, Saved, Lost
  <2>4. Saved \subseteq Saved' /\ cmd \in Saved' /\ cmd \in Known'
        BY <2>1, <2>3 DEF IInv, Durable, Known
  <2>5. applied' = applied /\ reapplied' = reapplied /\ confirmed' = confirmed /\ acks' = acks
        /\ cmd' = cmd /\ pc' = "ack"
        BY <1>1 DEF Store, historyVars
  <2>6. Durable' BY <1>0, <2>1, <2>3, <2>4, <2>5 DEF IInv, Durable
  <2> QED BY <2>2, <2>6 DEF IInv
<1>2. CASE StoreFails
  <2>1. /\ ids' \in Seq(Command) /\ Len(ids') <= MaxIds /\ trimmed' \subseteq Command
        /\ cmd \in Ids(ids') /\ Known \subseteq Known' /\ Lost \subseteq Lost'
        /\ Known' \subseteq Known \cup {cmd} \cup interrupted'
        BY <1>0, <1>2, RememberKnown DEF StoreFails
  <2>2. TypeOK' /\ InHand'
        BY <1>0, <1>2, <2>1, FaultCounted, NoneYet
        DEF StoreFails, Raise, IInv, TypeOK, InHand, NoCommand
  <2>3. cmd \in Lost' /\ disk' = disk BY <1>2 DEF StoreFails, Lost
  <2>4. Saved \subseteq Saved' BY <2>1, <2>3 DEF Saved
  <2>5. Known' \subseteq Saved' BY <2>1, <2>3, <2>4 DEF IInv, Durable, Saved, Lost
  <2>6. Saved' \subseteq Known'
        BY <2>1, <2>3 DEF IInv, Durable, Known, Saved
  <2>7. applied' = applied /\ reapplied' = reapplied /\ confirmed' = confirmed /\ acks' = acks
        /\ pc' \in {"backoff", "dead"}
        BY <1>2 DEF StoreFails, Raise
  <2>8. cmd \in Known' BY <2>3 DEF Known
  <2>9. Durable' BY <1>0, <2>1, <2>4, <2>5, <2>6, <2>7, <2>8 DEF IInv, Durable
  <2> QED BY <2>2, <2>9 DEF IInv
<1> QED BY <1>1, <1>2

\* An acknowledgement says "done" only of what is saved.
LEMMA Acknowledged ==
    ASSUME IInv, NEW c \in Command, NEW success \in BOOLEAN, success => c \in Saved,
           Acknowledge(c, success)
    PROVE  /\ pending' \subseteq Command /\ faults' \in 0..MaxFaults
           /\ confirmed' \subseteq Command /\ confirmed' \subseteq Saved
<1>1. CASE Fault("ack") /\ UNCHANGED <<pending, confirmed>>
      BY <1>1, FaultCounted DEF IInv, TypeOK, Durable
<1>2. CASE pending' = pending \ {c} /\ UNCHANGED faults
           /\ confirmed' = IF success THEN confirmed \cup {c} ELSE confirmed
      BY <1>2 DEF IInv, TypeOK, Durable
<1> QED BY <1>1, <1>2 DEF Acknowledge

LEMMA AckSteps ==
    ASSUME IInv, AckRest \/ AckSubmit \/ AckSend
    PROVE  IInv'
<1>1. CASE AckRest
  <2>1. cmd \in Command /\ ok \in BOOLEAN /\ (ok => cmd \in Saved)
        BY <1>1 DEF AckRest, IInv, InHand, TypeOK, Durable
  <2>2. /\ pending' \subseteq Command /\ faults' \in 0..MaxFaults
        /\ confirmed' \subseteq Command /\ confirmed' \subseteq Saved
        BY <1>1, <2>1, Acknowledged DEF AckRest
  <2>3. TypeOK' /\ InHand'
        BY <1>1, <2>2 DEF AckRest, IInv, TypeOK, InHand, NoCommand, linkVars, storeVars, historyVars
  <2>4. Durable'
        BY <1>1, <2>2
        DEF AckRest, IInv, Durable, Known, Saved, Lost, linkVars, storeVars, historyVars
  <2> QED BY <2>3, <2>4 DEF IInv
<1>2. CASE AckSubmit
  <2>1. cmd \in Command /\ ok \in BOOLEAN /\ (ok => cmd \in Saved) /\ acks \in Seq(Command \X BOOLEAN)
        /\ Len(acks) <= AckQueueMax
        BY <1>2 DEF AckSubmit, IInv, InHand, TypeOK, Durable
  <2>2. <<cmd, ok>> \in Command \X BOOLEAN BY <2>1
  <2>3. /\ acks' \in Seq(Command \X BOOLEAN) /\ Len(acks') <= AckQueueMax
        /\ \A i \in DOMAIN acks' :
              (i \in DOMAIN acks /\ acks'[i] = acks[i]) \/ acks'[i] = <<cmd, ok>>
    <3>1. CASE Len(acks) < AckQueueMax
      <4>1. acks' = Append(acks, <<cmd, ok>>) BY <1>2, <3>1 DEF AckSubmit
      <4>2. AckQueueMax \in Nat BY DeliveryAssumption
      <4> QED BY <2>1, <2>2, <3>1, <4>1, <4>2
    <3>2. CASE ~(Len(acks) < AckQueueMax)
      <4>1. acks' = acks BY <1>2, <3>2 DEF AckSubmit
      <4> QED BY <2>1, <4>1
    <3> QED BY <3>1, <3>2
  <2>4. TypeOK' /\ InHand'
        BY <1>2, <2>3 DEF AckSubmit, IInv, TypeOK, InHand, NoCommand, linkVars, storeVars, historyVars
  <2>5. Saved' = Saved /\ Known' = Known /\ Lost' = Lost
        BY <1>2 DEF AckSubmit, Known, Saved, Lost, storeVars, historyVars
  <2>6. \A i \in DOMAIN acks' : acks'[i][2] => acks'[i][1] \in Saved'
        BY <2>1, <2>3, <2>5 DEF IInv, Durable
  <2>7. applied' = applied /\ reapplied' = reapplied /\ confirmed' = confirmed /\ pc' = "listen"
        /\ pc = "ack"
        BY <1>2 DEF AckSubmit, historyVars
  <2>8. Durable' BY <2>5, <2>6, <2>7 DEF IInv, Durable
  <2> QED BY <2>4, <2>8 DEF IInv
<1>3. CASE AckSend
  <2>1. acks # <<>> /\ acks' = Tail(acks) /\ acks \in Seq(Command \X BOOLEAN)
        /\ Len(acks) <= AckQueueMax
        BY <1>3 DEF AckSend, IInv, TypeOK
  <2>2. /\ Head(acks) \in Command \X BOOLEAN /\ acks' \in Seq(Command \X BOOLEAN)
        /\ Len(acks') <= AckQueueMax /\ Head(acks) = acks[1] /\ 1 \in DOMAIN acks
        /\ \A i \in DOMAIN acks' : i + 1 \in DOMAIN acks /\ acks'[i] = acks[i + 1]
    <3>1. AckQueueMax \in Nat BY DeliveryAssumption
    <3>2. Len(acks) \in Nat \ {0} /\ DOMAIN acks = 1..Len(acks) BY <2>1
    <3> QED BY <2>1, <3>1, <3>2, HeadTail
  <2>3. Head(acks)[1] \in Command /\ Head(acks)[2] \in BOOLEAN
        /\ (Head(acks)[2] => Head(acks)[1] \in Saved)
        BY <2>2 DEF IInv, Durable
  <2>4. /\ pending' \subseteq Command /\ faults' \in 0..MaxFaults
        /\ confirmed' \subseteq Command /\ confirmed' \subseteq Saved
    <3>1. CASE connected
      <4>1. Acknowledge(Head(acks)[1], Head(acks)[2]) BY <1>3, <3>1 DEF AckSend
      <4> QED BY <2>3, <4>1, Acknowledged
    <3>2. CASE ~connected
      BY <1>3, <3>2 DEF AckSend, IInv, TypeOK, Durable
    <3> QED BY <3>1, <3>2
  <2>5. TypeOK' /\ InHand'
        BY <1>3, <2>2, <2>4
        DEF AckSend, IInv, TypeOK, InHand, clientVars, linkVars, storeVars, historyVars
  <2>6. Saved' = Saved /\ Known' = Known /\ Lost' = Lost
        BY <1>3 DEF AckSend, Known, Saved, Lost, storeVars, historyVars
  <2>7. applied' = applied /\ reapplied' = reapplied /\ pc' = pc /\ cmd' = cmd /\ ok' = ok
        BY <1>3 DEF AckSend, clientVars, historyVars
  <2>8. \A i \in DOMAIN acks' : acks'[i][2] => acks'[i][1] \in Saved'
        BY <2>2, <2>6 DEF IInv, Durable
  <2>9. Durable' BY <2>4, <2>6, <2>7, <2>8 DEF IInv, Durable
  <2> QED BY <2>5, <2>9 DEF IInv
<1> QED BY <1>1, <1>2, <1>3

\* The ids are read back; one that was about to be stored is lost.
LEMMA CrashStep == ASSUME IInv, Crash PROVE IInv'
<1>1. /\ ids' = disk /\ disk' = disk /\ trimmed' = trimmed /\ acks' = <<>>
      /\ applied' = applied /\ reapplied' = reapplied /\ confirmed' = confirmed
      /\ pc' = Begin(mode)
      /\ interrupted' = IF pc = "store" THEN interrupted \cup {cmd} ELSE interrupted
      BY DEF Crash
<1>2. pc' \in {"connect", "poll"} BY <1>1 DEF Begin
<1>3. TypeOK' /\ InHand'
  <2>1. Len(acks') <= AckQueueMax /\ attempt' \in 0..MaxAttempt
        BY <1>1, NoneYet, DeliveryAssumption DEF Crash
  <2>2. interrupted' \subseteq Command BY <1>1 DEF IInv, TypeOK, InHand
  <2>3. faults' \in 0..MaxFaults BY FaultCounted DEF Crash, IInv
  <2> QED BY <1>1, <1>2, <2>1, <2>2, <2>3, NoneYet DEF Crash, IInv, TypeOK, InHand, NoCommand
<1>4. Lost \subseteq Lost' /\ Saved \subseteq Saved' /\ Known' = Saved'
      BY <1>1 DEF Lost, Saved, Known
<1>5. pc = "store" => cmd \in Lost' BY <1>1 DEF Lost
<1>6. applied' \subseteq Known' BY <1>1, <1>4, <1>5 DEF IInv, Durable, Known
<1>7. Durable' BY <1>1, <1>2, <1>4, <1>6 DEF IInv, Durable
<1> QED BY <1>3, <1>7 DEF IInv

LEMMA NextIInv == ASSUME IInv, [Next]_vars PROVE IInv'
<1>1. CASE Issue BY <1>1, IssueStep
<1>2. CASE Client BY <1>2, LinkSteps, TakeSteps, ApplySteps, StoreSteps, AckSteps DEF Client
<1>3. CASE AckSend BY <1>3, AckSteps
<1>4. CASE Faults BY <1>4, LinkSteps, TakeSteps, ApplySteps, StoreSteps, CrashStep DEF Faults
<1>5. CASE UNCHANGED vars
  <2>1. TypeOK' /\ InHand' BY <1>5 DEF vars, IInv, TypeOK, InHand
  <2>2. Durable' BY <1>5 DEF vars, IInv, Durable, Known, Saved, Lost
  <2> QED BY <2>1, <2>2 DEF IInv
<1> QED BY <1>1, <1>2, <1>3, <1>4, <1>5 DEF Next

\* The variables of CommandDelivery keep their types and limits: max_command_ids bounds the
\* store, its queue the acknowledgements.
THEOREM DeliveryTypes == Spec => []TypeOK
<1>1. IInv => TypeOK BY DEF IInv
<1> QED BY <1>1, InitIInv, NextIInv, PTL DEF Spec

\* A command takes effect again only after its id was lost, and the backend is told of a success
\* only when the id is durable (apply_backend_command, ProcessedCommandStore).
THEOREM DeliveryDurable == Spec => []IdsDurable
<1>1. IInv => IdsDurable
      BY DEF IInv, Durable, IdsDurable, ReapplyNeedsLostId, ConfirmedIsDurable, Saved, Lost
<1> QED BY <1>1, InitIInv, NextIInv, PTL DEF Spec

-----------------------------------------------------------------------------
(* The order of effects.  A pushed command may overtake one that is still   *)
(* pending unless the catch-up poll after connecting gets through and holds *)
(* the whole backlog; the polling loop needs neither.                       *)

Overtaking == "ws" \in Modes /\ ("poll" \in WsFaults \/ PollLimit < MaxCommands)

\* Commands whose turn has been: their id is known or was lost, or they failed.
Settled == Known \cup failed

Holding == IF pc \in {"apply", "store"} THEN {cmd} ELSE {}
Coming == pending \cup Ids(work) \cup Ids(frames)
Increasing(s) == \A i, j \in DOMAIN s : i < j => s[i] < s[j]

\* What the modes and the steps of the client leave empty.
Shape ==
    /\ pc \notin {"next", "apply", "store", "ack"} => work = <<>>
    /\ pc \in {"apply", "store", "ack"} /\ via = "ws" => work = <<>>
    /\ mode = "poll" =>
          /\ ~connected /\ frames = <<>> /\ via = "rest"
          /\ pc \in {"poll", "next", "apply", "store", "ack", "dead"}

\* Nothing is on its way that was not issued, and only settled commands leave pending.
Offered ==
    /\ Coming \cup Holding \subseteq 1..issued
    /\ effect \in 0..issued
    /\ Ids(frames) \subseteq pending \cup Settled
    /\ pc = "ack" => cmd \in Settled
    /\ \A i \in DOMAIN acks : acks[i][1] \in Settled

\* What is still to come and was issued before the last effect has had its turn.
Passed ==
    \A c \in Coming \cup Holding : c <= effect => c \in Settled \/ (pc = "store" /\ c = cmd)

\* Answers and frames are in order of issue, and before a command come all older ones that
\* have not had their turn.
InOrder ==
    /\ Increasing(work) /\ Increasing(frames)
    /\ \A i \in DOMAIN work : \A c \in pending \cup Ids(frames) :
          c < work[i] => \/ c \in Settled \cup Holding
                         \/ \E j \in DOMAIN work : j < i /\ work[j] = c
    /\ pc = "apply" => \A c \in Coming : c < cmd => c \in Settled

\* Once the catch-up poll is made, whatever is pending is polled, pushed, or newer than what
\* was pushed before the connection broke.
CaughtUp ==
    mode = "ws" /\ pc \in {"next", "apply", "store", "ack", "listen"} =>
        /\ connected => pending \subseteq Settled \cup Holding \cup Ids(work) \cup Ids(frames)
        /\ \A i \in DOMAIN frames : \A c \in pending :
              c < frames[i] => \/ c \in Settled \cup Holding \cup Ids(work)
                               \/ \E j \in DOMAIN frames : j < i /\ frames[j] = c

Order == Shape /\ Offered /\ Passed /\ InOrder /\ CaughtUp

\* The answer to a poll: in order of issue, without gaps, and everything if the limit allows.
LEMMA AnswerInOrder ==
    ASSUME pending \subseteq Command, NEW answer \in Answers, IsAnswer(answer)
    PROVE  /\ Increasing(answer)
           /\ Ids(answer) \subseteq pending
           /\ \A i \in DOMAIN answer : \A c \in pending :
                 c < answer[i] => \E j \in DOMAIN answer : j < i /\ answer[j] = c
           /\ MaxCommands <= PollLimit => pending \subseteq Ids(answer)
<1> DEFINE upto(c) == {d \in pending : d <= c}
<1>1. PICK n \in 0..Cardinality(pending) : answer \in [1..n -> pending] BY DEF Answers
<1>2. /\ IsFiniteSet(Command) /\ Cardinality(Command) = MaxCommands
      BY FS_Interval, DeliveryAssumption DEF Command
<1>3. /\ IsFiniteSet(pending) /\ Cardinality(pending) <= MaxCommands
      /\ Cardinality(pending) \in Nat
      BY <1>2, FS_Subset, FS_CardinalityType
<1>4. n \in Nat /\ DOMAIN answer = 1..n /\ Len(answer) = n /\ answer \in Seq(pending)
      BY <1>1, <1>3
<1>5. \A i \in 1..n : answer[i] \in pending /\ Cardinality(upto(answer[i])) = i
      BY <1>4 DEF IsAnswer
<1>6. \A c \in pending : /\ IsFiniteSet(upto(c)) /\ Cardinality(upto(c)) \in Nat
                         /\ Cardinality(upto(c)) <= Cardinality(pending)
      BY <1>3, FS_Subset, FS_CardinalityType
<1>7. pending \subseteq Int BY DEF Command
<1>8. ASSUME NEW c \in pending, NEW d \in pending, c < d
      PROVE  Cardinality(upto(c)) < Cardinality(upto(d))
  <2>0. c \in Int /\ d \in Int /\ \A e \in pending : e \in Int BY <1>7
  <2>1. upto(c) \subseteq upto(d) /\ d \in upto(d) /\ d \notin upto(c)
    <3>1. \A e \in pending : e <= c => e <= d BY <1>8, <2>0
    <3>2. d <= d /\ ~(d <= c) BY <1>8, <2>0
    <3> QED BY <3>1, <3>2
  <2>2. Cardinality(upto(c)) <= Cardinality(upto(d)) /\ Cardinality(upto(c)) # Cardinality(upto(d))
        BY <1>6, <2>1, FS_Subset
  <2> QED BY <1>6, <2>2
<1>9. \A c \in pending : Cardinality(upto(c)) # 0
  <2>1. \A c \in pending : c \in upto(c) BY <1>7
  <2> QED BY <1>6, <2>1, FS_EmptySet
<1> HIDE DEF upto
<1>10. Increasing(answer)
  <2> SUFFICES ASSUME NEW i \in 1..n, NEW j \in 1..n, i < j PROVE answer[i] < answer[j]
      BY <1>4 DEF Increasing
  <2>1. answer[i] \in pending /\ answer[j] \in pending BY <1>5
  <2>2. answer[i] # answer[j] BY <1>4, <1>5
  <2>3. ~(answer[j] < answer[i])
    <3> SUFFICES ASSUME answer[j] < answer[i] PROVE FALSE OBVIOUS
    <3>1. Cardinality(upto(answer[j])) < Cardinality(upto(answer[i])) BY <1>8, <2>1
    <3> QED BY <1>4, <1>5, <3>1
  <2>4. answer[i] \in Int /\ answer[j] \in Int BY <1>7, <2>1
  <2> QED BY <2>2, <2>3, <2>4
\* The command of a given rank is the one at that place of the answer.
<1>11. ASSUME NEW c \in pending, Cardinality(upto(c)) \in 1..n
       PROVE  answer[Cardinality(upto(c))] = c
  <2> DEFINE k == Cardinality(upto(c))
  <2>1. answer[k] \in pending /\ Cardinality(upto(answer[k])) = k BY <1>5, <1>11
  <2>2. ~(answer[k] < c) /\ ~(c < answer[k])
    <3>1. answer[k] < c => FALSE
      <4> SUFFICES ASSUME answer[k] < c PROVE FALSE OBVIOUS
      <4>1. Cardinality(upto(answer[k])) < Cardinality(upto(c)) BY <1>8, <2>1
      <4> QED BY <1>6, <2>1, <4>1
    <3>2. c < answer[k] => FALSE
      <4> SUFFICES ASSUME c < answer[k] PROVE FALSE OBVIOUS
      <4>1. Cardinality(upto(c)) < Cardinality(upto(answer[k])) BY <1>8, <2>1
      <4> QED BY <1>6, <2>1, <4>1
    <3> QED BY <3>1, <3>2
  <2> HIDE DEF k
  <2>3. answer[k] \in Int /\ c \in Int BY <1>7, <2>1
  <2>4. answer[k] = c BY <2>2, <2>3
  <2> QED BY <2>4 DEF k
<1>12. ASSUME NEW i \in 1..n, NEW c \in pending, c < answer[i]
       PROVE  \E j \in 1..n : j < i /\ answer[j] = c
  <2>1. answer[i] \in pending BY <1>5
  <2>2. Cardinality(upto(c)) < Cardinality(upto(answer[i])) BY <1>8, <1>12, <2>1
  <2>3. Cardinality(upto(c)) \in 1..n /\ Cardinality(upto(c)) < i BY <1>4, <1>5, <1>6, <1>9, <2>2
  <2> QED BY <1>11, <2>3
<1>13. ASSUME MaxCommands <= PollLimit, NEW c \in pending PROVE c \in Ids(answer)
  <2>1. Len(answer) = Cardinality(pending) BY <1>3, <1>13, DeliveryAssumption DEF IsAnswer
  <2>2. Cardinality(upto(c)) \in 1..n BY <1>3, <1>4, <1>6, <1>9, <2>1
  <2> QED BY <1>4, <1>11, <2>2 DEF Ids
<1>14. Ids(answer) \subseteq pending BY <1>4, <1>5 DEF Ids
<1> QED BY <1>4, <1>10, <1>12, <1>13, <1>14

\* Taking the first of a sequence that is in order.
LEMMA TakeFirst ==
    ASSUME NEW s \in Seq(Command), s # <<>>
    PROVE  /\ Ids(s) = {Head(s)} \cup Ids(Tail(s))
           /\ Increasing(s) => Increasing(Tail(s)) /\ \A c \in Ids(Tail(s)) : Head(s) < c
<1>1. /\ Tail(s) \in Seq(Command) /\ Len(Tail(s)) = Len(s) - 1 /\ Head(s) = s[1]
      /\ \A i \in DOMAIN Tail(s) : i + 1 \in DOMAIN s /\ Tail(s)[i] = s[i + 1]
      BY HeadTail
<1>2. /\ DOMAIN s = 1..Len(s) /\ DOMAIN Tail(s) = 1..(Len(s) - 1) /\ Len(s) \in Nat \ {0}
      BY <1>1
<1>3. \A i \in DOMAIN s : i = 1 \/ (i - 1 \in DOMAIN Tail(s) /\ Tail(s)[i - 1] = s[i])
  <2> SUFFICES ASSUME NEW i \in 1..Len(s), i # 1
               PROVE  i - 1 \in DOMAIN Tail(s) /\ Tail(s)[i - 1] = s[i]
      BY <1>2
  <2>1. i - 1 \in DOMAIN Tail(s) BY <1>2
  <2>2. Tail(s)[i - 1] = s[(i - 1) + 1] BY <1>1, <2>1
  <2> QED BY <2>1, <2>2
<1>4. Ids(s) = {Head(s)} \cup Ids(Tail(s))
  <2>1. Ids(s) \subseteq {Head(s)} \cup Ids(Tail(s)) BY <1>1, <1>3 DEF Ids
  <2>2. Head(s) \in Ids(s) BY <1>1, <1>2 DEF Ids
  <2>3. Ids(Tail(s)) \subseteq Ids(s) BY <1>1 DEF Ids
  <2> QED BY <2>1, <2>2, <2>3
<1>5. ASSUME Increasing(s) PROVE Increasing(Tail(s)) /\ \A c \in Ids(Tail(s)) : Head(s) < c
  <2>1. \A i, j \in DOMAIN Tail(s) : i < j => Tail(s)[i] < Tail(s)[j]
        BY <1>1, <1>2, <1>5 DEF Increasing
  <2>2. \A i \in DOMAIN Tail(s) : Head(s) < Tail(s)[i] BY <1>1, <1>2, <1>5 DEF Increasing
  <2> QED BY <2>1, <2>2 DEF Increasing, Ids
<1> QED BY <1>4, <1>5

-----------------------------------------------------------------------------
LEMMA InitOrder == Init => Order
<1> SUFFICES ASSUME Init PROVE Order OBVIOUS
<1>1. pc \in {"connect", "poll"} /\ (mode = "poll" => pc = "poll") BY DEF Init, Begin
<1>2. Ids(work) = {} /\ Ids(frames) = {} /\ DOMAIN work = {} /\ DOMAIN frames = {} /\ DOMAIN acks = {}
      BY NoneYet DEF Init
<1>3. Shape BY <1>1 DEF Init, Shape
<1>4. Offered /\ Passed BY <1>1, <1>2 DEF Init, Offered, Passed, Coming, Holding, NoCommand
<1>5. InOrder /\ CaughtUp BY <1>1, <1>2 DEF Init, InOrder, CaughtUp, Increasing
<1> QED BY <1>3, <1>4, <1>5 DEF Order

\* Nothing is polled or pushed any more: only the backend knows what is still to come.
LEMMA Wiped ==
    ASSUME IInv, Order, work' = <<>>, frames' = <<>>,
           pc' \in {"connect", "backoff", "poll", "dead"},
           mode = "poll" => pc' \in {"poll", "dead"} /\ ~connected' /\ via' = "rest",
           UNCHANGED <<mode, issued, pending, effect>>, acks' \in {acks, <<>>},
           Settled \subseteq Settled', pc = "store" => cmd \in Settled'
    PROVE  Order'
<1>1. /\ Ids(work') = {} /\ Ids(frames') = {} /\ DOMAIN work' = {} /\ DOMAIN frames' = {}
      /\ DOMAIN <<>> = {}
      BY NoneYet
<1>2. Coming' = pending /\ Holding' = {} BY <1>1 DEF Coming, Holding
<1>3. Shape' BY DEF Shape
<1>4. Offered' BY <1>1, <1>2 DEF Order, Offered, Coming
<1>5. Passed' BY <1>2 DEF Order, Passed, Coming
<1>6. InOrder' BY <1>1 DEF InOrder, Increasing
<1>7. CaughtUp' BY DEF CaughtUp
<1> QED BY <1>3, <1>4, <1>5, <1>6, <1>7 DEF Order

\* The client comes to another step with nothing in its hands.
LEMMA Moved ==
    ASSUME IInv, Order,
           UNCHANGED <<mode, issued, pending, connected, frames, work, via, effect, acks, ids, failed,
                       interrupted, trimmed>>,
           work = <<>>, pc \notin {"apply", "store", "ack"},
           pc' \in {"connect", "backoff", "poll", "next", "listen", "dead"},
           mode = "poll" => pc' \in {"poll", "next", "dead"},
           mode = "ws" /\ pc' \in {"next", "listen"} => pc \in {"next", "listen"}
    PROVE  Order'
<1>1. Settled' = Settled /\ Coming' = Coming /\ Holding' = {} /\ Holding = {}
      BY DEF Settled, Known, Lost, Coming, Holding
<1>2. Shape' BY DEF Order, Shape
<1>3. Offered' /\ Passed' BY <1>1 DEF Order, Offered, Passed
<1>4. InOrder' BY <1>1 DEF Order, InOrder
<1>5. CaughtUp' BY <1>1 DEF Order, CaughtUp
<1> QED BY <1>2, <1>3, <1>4, <1>5 DEF Order

\* The command in hand has had its turn.
LEMMA HadTurn ==
    ASSUME IInv, Order,
           UNCHANGED <<mode, issued, pending, connected, frames, work, cmd, via, effect, acks>>,
           pc \in {"apply", "store"}, pc' = "ack", Settled \subseteq Settled', cmd \in Settled'
    PROVE  Order'
<1>1. Coming' = Coming /\ Holding' = {} /\ Holding = {cmd} BY DEF Coming, Holding
<1>2. Shape' BY DEF Order, Shape
<1>3. Offered' BY <1>1 DEF Order, Offered
<1>4. Passed' BY <1>1 DEF Order, Passed
<1>5. InOrder'
  <2>1. \A i \in DOMAIN work : \A c \in pending \cup Ids(frames) :
          c < work[i] => c \in Settled' \/ \E j \in DOMAIN work : j < i /\ work[j] = c
        BY <1>1 DEF Order, InOrder
  <2> QED BY <2>1 DEF Order, InOrder
<1>6. CaughtUp'
  <2>1. Settled \cup Holding \subseteq Settled' BY <1>1
  <2>2. mode = "ws" /\ connected => pending \subseteq Settled' \cup Ids(work) \cup Ids(frames)
        BY <2>1 DEF Order, CaughtUp
  <2>3. mode = "ws" => \A i \in DOMAIN frames : \A c \in pending :
          c < frames[i] => c \in Settled' \cup Ids(work) \/ \E j \in DOMAIN frames : j < i /\ frames[j] = c
        BY <2>1 DEF Order, CaughtUp
  <2> QED BY <2>2, <2>3 DEF CaughtUp
<1> QED BY <1>2, <1>3, <1>4, <1>5, <1>6 DEF Order

\* An acknowledgement is queued or sent, or lost: at most commands that have had their turn
\* are no longer offered.
LEMMA Acked ==
    ASSUME IInv, Order,
           UNCHANGED <<mode, issued, connected, frames, work, via, effect, ids, failed, interrupted, trimmed>>,
           pending' \subseteq pending, pending \subseteq pending' \cup Settled,
           \/ UNCHANGED <<pc, cmd>>
           \/ pc = "ack" /\ pc' = "next"
           \/ pc = "ack" /\ pc' = "listen" /\ via = "ws",
           \A i \in DOMAIN acks' : acks'[i][1] \in Settled
    PROVE  Order'
<1>1. /\ Settled' = Settled /\ Coming' \subseteq Coming /\ Coming \subseteq Coming' \cup Settled
      /\ Holding' = Holding /\ Ids(frames') = Ids(frames) /\ Ids(work') = Ids(work)
      BY DEF Settled, Known, Lost, Coming, Holding
<1>2. Shape' BY DEF Order, Shape
<1>3. Offered' BY <1>1 DEF Order, Offered
<1>4. Passed'
  <2>1. pc = "store" => pc' = "store" /\ cmd' = cmd OBVIOUS
  <2> QED BY <1>1, <2>1 DEF Order, Passed
<1>5. InOrder' BY <1>1 DEF Order, InOrder
<1>6. CaughtUp' BY <1>1 DEF Order, CaughtUp
<1> QED BY <1>2, <1>3, <1>4, <1>5, <1>6 DEF Order

\* A new command is newer than all others, and is pushed when the client is connected.
LEMMA IssueOrder == ASSUME IInv, Order, Issue PROVE Order'
<1> USE DEF clientVars, storeVars, historyVars
<1>1. /\ issued' = issued + 1 /\ pending' = pending \cup {issued + 1}
      /\ frames' = IF connected THEN Append(frames, issued + 1) ELSE frames
      /\ UNCHANGED <<mode, connected, pc, work, cmd, via, effect, acks, ids, failed, interrupted, trimmed>>
      BY DEF Issue
<1>2. issued \in Nat /\ frames \in Seq(Command) /\ issued + 1 \in Command
      BY DeliveryAssumption DEF Issue, IInv, TypeOK, Command
<1>3. /\ Settled' = Settled /\ Holding' = Holding /\ Ids(work') = Ids(work)
      BY <1>1 DEF Settled, Known, Lost, Holding
<1>4. /\ DOMAIN frames \subseteq DOMAIN frames' /\ \A i \in DOMAIN frames : frames'[i] = frames[i]
      /\ \A i \in DOMAIN frames' : i \in DOMAIN frames \/ (frames'[i] = issued + 1 /\ connected)
      /\ \A i \in DOMAIN frames, j \in DOMAIN frames' : j \notin DOMAIN frames => i < j
      /\ connected => issued + 1 \in Ids(frames')
      /\ DOMAIN frames' \subseteq Int
  <2>1. CASE connected
    <3>1. frames' = Append(frames, issued + 1) BY <1>1, <2>1
    <3>2. /\ Len(frames') = Len(frames) + 1 /\ DOMAIN frames' = 1..(Len(frames) + 1)
          /\ frames'[Len(frames) + 1] = issued + 1 /\ DOMAIN frames = 1..Len(frames)
          /\ Len(frames) \in Nat /\ \A i \in 1..Len(frames) : frames'[i] = frames[i]
          BY <1>2, <3>1
    <3>3. issued + 1 \in Ids(frames') BY <3>2 DEF Ids
    <3> QED BY <2>1, <3>2, <3>3
  <2>2. CASE ~connected
    <3>1. frames' = frames BY <1>1, <2>2
    <3> QED BY <1>2, <2>2, <3>1
  <2> QED BY <2>1, <2>2
<1>5. Ids(frames) \subseteq Ids(frames') /\ Ids(frames') \subseteq Ids(frames) \cup {issued + 1}
      BY <1>4 DEF Ids
<1>6. Coming \cup Holding \subseteq 1..issued /\ effect \in 0..issued BY DEF Order, Offered
<1>7. /\ pending \subseteq 1..issued /\ Ids(frames) \subseteq 1..issued /\ Ids(work) \subseteq 1..issued
      /\ Holding \subseteq 1..issued
      /\ Coming' \subseteq Coming \cup {issued + 1}
      BY <1>1, <1>3, <1>5, <1>6 DEF Coming
<1>8. Shape' BY <1>1 DEF Order, Shape
<1>9. Offered'
  <2>1. Coming' \cup Holding' \subseteq 1..(issued + 1) BY <1>2, <1>3, <1>6, <1>7
  <2>2. effect' \in 0..(issued + 1) BY <1>1, <1>2, <1>6
  <2>3. Ids(frames') \subseteq pending' \cup Settled' BY <1>1, <1>3, <1>5 DEF Order, Offered
  <2> QED BY <1>1, <1>3, <2>1, <2>2, <2>3 DEF Order, Offered
<1>10. Passed'
  <2>1. ~(issued + 1 <= effect) BY <1>2, <1>6
  <2> QED BY <1>1, <1>3, <1>7, <2>1 DEF Order, Passed
<1>11. InOrder'
  <2>1. Increasing(frames')
    <3>1. \A i \in DOMAIN frames : frames[i] \in Ids(frames) BY DEF Ids
    <3>2. \A i \in DOMAIN frames : frames[i] < issued + 1 BY <1>2, <1>7, <3>1
    <3>3. \A j \in DOMAIN frames' : j \notin DOMAIN frames => frames'[j] = issued + 1 BY <1>4
    <3>4. \A i, j \in DOMAIN frames' : i \notin DOMAIN frames => ~(i < j)
      <4>1. \A i, j \in DOMAIN frames' : i \notin DOMAIN frames /\ j \in DOMAIN frames => ~(i < j)
            BY <1>4
      <4>2. \A i, j \in DOMAIN frames' : i \notin DOMAIN frames /\ j \notin DOMAIN frames => i = j
            BY <1>1, <1>2, <1>4
      <4> QED BY <1>4, <4>1, <4>2
    <3> QED BY <1>4, <3>2, <3>3, <3>4 DEF Order, InOrder, Increasing
  <2>2. \A i \in DOMAIN work : work[i] \in 1..issued BY <1>7 DEF Ids
  <2>3. \A i \in DOMAIN work : ~(issued + 1 < work[i]) BY <1>2, <2>2
  <2>4. \A i \in DOMAIN work : \A c \in pending' \cup Ids(frames') :
          c < work[i] => c \in Settled \cup Holding \/ \E j \in DOMAIN work : j < i /\ work[j] = c
        BY <1>1, <1>5, <2>3 DEF Order, InOrder
  <2>5. pc = "apply" => \A c \in Coming' : c < cmd => c \in Settled
    <3>1. pc = "apply" => cmd \in 1..issued BY <1>7 DEF Holding
    <3>2. pc = "apply" => ~(issued + 1 < cmd) BY <1>2, <3>1
    <3> QED BY <1>7, <3>2 DEF Order, InOrder
  <2> QED BY <1>1, <1>3, <2>1, <2>4, <2>5 DEF Order, InOrder
<1>12. CaughtUp'
  <2> SUFFICES ASSUME mode = "ws", pc \in {"next", "apply", "store", "ack", "listen"}
               PROVE  CaughtUp'
      BY <1>1 DEF CaughtUp
  <2>1. connected => pending' \subseteq Settled \cup Holding \cup Ids(work) \cup Ids(frames')
        BY <1>1, <1>4, <1>5 DEF Order, CaughtUp
  <2>2. \A i \in DOMAIN frames : frames[i] \in 1..issued BY <1>7 DEF Ids
  <2>3. ASSUME NEW i \in DOMAIN frames', NEW c \in pending', c < frames'[i]
        PROVE  \/ c \in Settled \cup Holding \cup Ids(work)
               \/ \E j \in DOMAIN frames' : j < i /\ frames'[j] = c
    <3>1. CASE i \in DOMAIN frames
      <4>1. frames'[i] = frames[i] /\ frames[i] \in 1..issued BY <1>4, <2>2, <3>1
      <4>2. c \in pending BY <1>1, <1>2, <2>3, <4>1
      <4>3. \/ c \in Settled \cup Holding \cup Ids(work)
            \/ \E j \in DOMAIN frames : j < i /\ frames[j] = c
            BY <2>3, <3>1, <4>1, <4>2 DEF Order, CaughtUp
      <4> QED BY <1>4, <4>3
    <3>2. CASE i \notin DOMAIN frames
      <4>1. frames'[i] = issued + 1 /\ connected BY <1>4, <3>2
      <4>2. c \in pending BY <1>1, <1>2, <2>3, <4>1
      <4>3. c \in Settled \cup Holding \cup Ids(work) \cup Ids(frames)
            BY <4>1, <4>2 DEF Order, CaughtUp
      <4>4. CASE c \in Ids(frames)
        <5>1. PICK j \in DOMAIN frames : frames[j] = c BY <4>4 DEF Ids
        <5>2. j \in DOMAIN frames' /\ j < i /\ frames'[j] = c BY <1>4, <3>2, <5>1
        <5> QED BY <5>2
      <4> QED BY <4>3, <4>4
    <3> QED BY <3>1, <3>2
  <2> QED BY <1>1, <1>3, <2>1, <2>3 DEF CaughtUp
<1> QED BY <1>8, <1>9, <1>10, <1>11, <1>12 DEF Order

\* The frames that still arrive are the older ones.
LEMMA DropOrder == ASSUME IInv, Order, Drop PROVE Order'
<1> USE DEF clientVars, storeVars, historyVars
<1>1. /\ connected /\ ~connected'
      /\ UNCHANGED <<mode, issued, pending, acks, pc, work, cmd, via, effect, ids, failed, interrupted, trimmed>>
      BY DEF Drop
<1>2. PICK n \in 0..Len(frames) : frames' = SubSeq(frames, 1, n) BY DEF Drop
<1>3. /\ DOMAIN frames' = 1..n /\ \A i \in 1..n : i \in DOMAIN frames /\ frames'[i] = frames[i]
      /\ \A i \in 1..n : \A j \in DOMAIN frames : j < i => j \in 1..n
  <2>1. frames \in Seq(Command) BY DEF IInv, TypeOK
  <2>2. DOMAIN frames = 1..Len(frames) /\ Len(frames) \in Nat /\ n \in Nat /\ n <= Len(frames)
        BY <1>2, <2>1
  <2>3. frames' \in Seq(Command) /\ Len(frames') = n /\ \A i \in 1..n : frames'[i] = frames[i]
        BY <1>2, <2>1, <2>2
  <2> QED BY <2>2, <2>3
<1>4. mode = "ws" BY <1>1, DeliveryAssumption DEF IInv, TypeOK, Order, Shape
<1>5. Ids(frames') \subseteq Ids(frames) BY <1>3 DEF Ids
<1>6. /\ Settled' = Settled /\ Holding' = Holding /\ Coming' \subseteq Coming /\ Ids(work') = Ids(work)
      BY <1>1, <1>5 DEF Settled, Known, Lost, Holding, Coming
<1>7. Shape' BY <1>1, <1>4 DEF Order, Shape
<1>8. Offered' BY <1>1, <1>5, <1>6 DEF Order, Offered
<1>9. Passed' BY <1>1, <1>6 DEF Order, Passed
<1>10. InOrder'
  <2>1. Increasing(frames') BY <1>3 DEF Order, InOrder, Increasing
  <2> QED BY <1>1, <1>5, <1>6, <2>1 DEF Order, InOrder
<1>11. CaughtUp'
  <2>1. pc \in {"next", "apply", "store", "ack", "listen"} =>
          \A i \in DOMAIN frames' : \A c \in pending :
              c < frames'[i] => \/ c \in Settled \cup Holding \cup Ids(work)
                                \/ \E j \in DOMAIN frames' : j < i /\ frames'[j] = c
        BY <1>3, <1>4 DEF Order, CaughtUp
  <2> QED BY <1>1, <1>6, <2>1 DEF CaughtUp
<1> QED BY <1>7, <1>8, <1>9, <1>10, <1>11 DEF Order

\* The answer has the oldest pending commands; the catch-up poll has all of them.
LEMMA PollOrder == ASSUME ~Overtaking, IInv, Order, Poll PROVE Order'
<1> USE DEF linkVars, storeVars, historyVars
<1>1. /\ pc = "poll" /\ pc' = "next"
      /\ UNCHANGED <<mode, issued, pending, connected, frames, cmd, via, effect, acks, ids, failed,
                     interrupted, trimmed>>
      BY DEF Poll
<1>2. PICK answer \in Answers : IsAnswer(answer) /\ work' = answer BY DEF Poll
<1>3. /\ Increasing(work')
      /\ Ids(work') \subseteq pending
      /\ \A i \in DOMAIN work' : \A c \in pending :
            c < work'[i] => \E j \in DOMAIN work' : j < i /\ work'[j] = c
      /\ MaxCommands <= PollLimit => pending \subseteq Ids(work')
  <2>1. pending \subseteq Command BY DEF IInv, TypeOK
  <2> QED BY <1>2, <2>1, AnswerInOrder
<1>4. Settled' = Settled /\ Holding' = {} /\ Holding = {} /\ Coming' \subseteq Coming
      BY <1>1, <1>3 DEF Settled, Known, Lost, Holding, Coming
<1>5. Shape' BY <1>1 DEF Order, Shape
<1>6. Offered' BY <1>1, <1>4 DEF Order, Offered
<1>7. Passed' BY <1>1, <1>4 DEF Order, Passed
<1>8. InOrder'
  <2>1. Ids(frames) \subseteq pending \cup Settled BY DEF Order, Offered
  <2>2. \A i \in DOMAIN work' : \A c \in pending \cup Ids(frames) :
          c < work'[i] => c \in Settled \/ \E j \in DOMAIN work' : j < i /\ work'[j] = c
        BY <1>3, <2>1
  <2> QED BY <1>1, <1>3, <1>4, <2>2 DEF Order, InOrder
<1>9. CaughtUp'
  <2>1. mode = "ws" => MaxCommands <= PollLimit
        BY DeliveryAssumption DEF Overtaking, IInv, TypeOK
  <2> QED BY <1>1, <1>3, <2>1 DEF CaughtUp
<1> QED BY <1>5, <1>6, <1>7, <1>8, <1>9 DEF Order

LEMMA TakeOrder == ASSUME IInv, Order, TakePolled PROVE Order'
<1> USE DEF linkVars, storeVars, historyVars
<1>1. /\ pc = "next" /\ pc' = "apply" /\ via' = "rest" /\ work # <<>>
      /\ cmd' = Head(work) /\ work' = Tail(work)
      /\ UNCHANGED <<mode, issued, pending, connected, frames, effect, acks, ids, failed,
                     interrupted, trimmed>>
      BY DEF TakePolled
<1>2. work \in Seq(Command) BY DEF IInv, TypeOK
<1>3. /\ Ids(work) = {cmd'} \cup Ids(work')
      /\ Increasing(work') /\ \A c \in Ids(work') : cmd' < c
      BY <1>1, <1>2, TakeFirst DEF Order, InOrder
<1>4. /\ work[1] = cmd' /\ 1 \in DOMAIN work /\ DOMAIN work \subseteq Nat \ {0}
      /\ \A i \in DOMAIN work' : i + 1 \in DOMAIN work /\ work'[i] = work[i + 1]
      /\ \A j \in DOMAIN work : j = 1 \/ (j - 1 \in DOMAIN work' /\ work'[j - 1] = work[j])
      /\ DOMAIN work' \subseteq Nat
  <2>1. /\ work' \in Seq(Command) /\ Len(work') = Len(work) - 1 /\ work[1] = cmd'
        /\ \A i \in DOMAIN work' : i + 1 \in DOMAIN work /\ work'[i] = work[i + 1]
        BY <1>1, <1>2, HeadTail
  <2>2. DOMAIN work = 1..Len(work) /\ DOMAIN work' = 1..(Len(work) - 1) /\ Len(work) \in Nat \ {0}
        BY <1>1, <1>2, <2>1
  <2>3. ASSUME NEW j \in DOMAIN work, j # 1 PROVE j - 1 \in DOMAIN work' /\ work'[j - 1] = work[j]
    <3>1. j - 1 \in DOMAIN work' BY <2>2, <2>3
    <3>2. work'[j - 1] = work[(j - 1) + 1] BY <2>1, <3>1
    <3> QED BY <2>2, <3>1, <3>2
  <2> QED BY <2>1, <2>2, <2>3
<1>5. /\ Settled' = Settled /\ Holding' = {cmd'} /\ Holding = {} /\ Coming' \subseteq Coming
      /\ cmd' \in Coming
      BY <1>1, <1>3 DEF Settled, Known, Lost, Holding, Coming
<1>6. Shape' BY <1>1 DEF Order, Shape
<1>7. Offered' BY <1>1, <1>5 DEF Order, Offered
<1>8. Passed' BY <1>1, <1>5 DEF Order, Passed
<1>9. InOrder'
  <2>1. ASSUME NEW i \in DOMAIN work', NEW c \in pending \cup Ids(frames), c < work'[i]
        PROVE  c \in Settled \cup {cmd'} \/ \E j \in DOMAIN work' : j < i /\ work'[j] = c
    <3>1. c \in Settled \/ \E j \in DOMAIN work : j < i + 1 /\ work[j] = c
          BY <1>4, <1>5, <2>1 DEF Order, InOrder
    <3>2. ASSUME NEW j \in DOMAIN work, j < i + 1, work[j] = c, j # 1
          PROVE  \E k \in DOMAIN work' : k < i /\ work'[k] = c
      <4>1. j - 1 \in DOMAIN work' /\ j - 1 < i /\ work'[j - 1] = c BY <1>4, <3>2
      <4> QED BY <4>1
    <3> QED BY <1>4, <3>1, <3>2
  <2>2. \A c \in pending \cup Ids(frames) : c < cmd' => c \in Settled
    <3> SUFFICES ASSUME NEW c \in pending \cup Ids(frames), c < cmd' PROVE c \in Settled OBVIOUS
    <3>1. c \in Settled \/ \E j \in DOMAIN work : j < 1 /\ work[j] = c
          BY <1>4, <1>5 DEF Order, InOrder
    <3> QED BY <1>4, <3>1
  <2>3. \A c \in Ids(work') : ~(c < cmd')
    <3>1. Ids(work) \subseteq Command BY <1>2 DEF Ids
    <3>2. Command \subseteq Int BY DEF Command
    <3>3. Ids(work') \subseteq Int /\ cmd' \in Int BY <1>3, <3>1, <3>2
    <3> QED BY <1>3, <3>3
  <2>4. \A c \in Coming' : c < cmd' => c \in Settled BY <1>1, <2>2, <2>3 DEF Coming
  <2> QED BY <1>1, <1>3, <1>5, <2>1, <2>4 DEF Order, InOrder
<1>10. CaughtUp' BY <1>1, <1>3, <1>5 DEF Order, CaughtUp
<1> QED BY <1>6, <1>7, <1>8, <1>9, <1>10 DEF Order

LEMMA ReceiveOrder == ASSUME IInv, Order, Receive PROVE Order'
<1> USE DEF storeVars, historyVars
<1>1. /\ pc = "listen" /\ pc' = "apply" /\ via' = "ws" /\ frames # <<>>
      /\ cmd' = Head(frames) /\ frames' = Tail(frames)
      /\ UNCHANGED <<mode, issued, pending, connected, work, effect, acks, ids, failed,
                     interrupted, trimmed>>
      BY DEF Receive
<1>2. frames \in Seq(Command) BY DEF IInv, TypeOK
<1>3. work = <<>> /\ mode = "ws" /\ Ids(work) = {} /\ DOMAIN work = {}
      BY <1>1, NoneYet, DeliveryAssumption DEF Order, Shape, IInv, TypeOK
<1>4. /\ Ids(frames) = {cmd'} \cup Ids(frames')
      /\ Increasing(frames') /\ \A c \in Ids(frames') : cmd' < c
      BY <1>1, <1>2, TakeFirst DEF Order, InOrder
<1>5. /\ frames[1] = cmd' /\ 1 \in DOMAIN frames /\ DOMAIN frames \subseteq Nat \ {0}
      /\ \A i \in DOMAIN frames' : i + 1 \in DOMAIN frames /\ frames'[i] = frames[i + 1]
      /\ \A j \in DOMAIN frames : j = 1 \/ (j - 1 \in DOMAIN frames' /\ frames'[j - 1] = frames[j])
      /\ DOMAIN frames' \subseteq Nat
  <2>1. /\ frames' \in Seq(Command) /\ Len(frames') = Len(frames) - 1 /\ frames[1] = cmd'
        /\ \A i \in DOMAIN frames' : i + 1 \in DOMAIN frames /\ frames'[i] = frames[i + 1]
        BY <1>1, <1>2, HeadTail
  <2>2. /\ DOMAIN frames = 1..Len(frames) /\ DOMAIN frames' = 1..(Len(frames) - 1)
        /\ Len(frames) \in Nat \ {0}
        BY <1>1, <1>2, <2>1
  <2>3. ASSUME NEW j \in DOMAIN frames, j # 1 PROVE j - 1 \in DOMAIN frames' /\ frames'[j - 1] = frames[j]
    <3>1. j - 1 \in DOMAIN frames' BY <2>2, <2>3
    <3>2. frames'[j - 1] = frames[(j - 1) + 1] BY <2>1, <3>1
    <3> QED BY <2>2, <3>1, <3>2
  <2> QED BY <2>1, <2>2, <2>3
<1>6. /\ Settled' = Settled /\ Holding' = {cmd'} /\ Holding = {} /\ Coming' \subseteq Coming
      /\ cmd' \in Coming
      BY <1>1, <1>4 DEF Settled, Known, Lost, Holding, Coming
<1>7. Shape' BY <1>1, <1>3 DEF Order, Shape
<1>8. Offered' BY <1>1, <1>4, <1>6 DEF Order, Offered
<1>9. Passed' BY <1>1, <1>6 DEF Order, Passed
<1>10. InOrder'
  <2>1. \A c \in pending : c < cmd' => c \in Settled
    <3> SUFFICES ASSUME NEW c \in pending, c < cmd' PROVE c \in Settled OBVIOUS
    <3>1. c \in Settled \/ \E j \in DOMAIN frames : j < 1 /\ frames[j] = c
          BY <1>1, <1>3, <1>5, <1>6 DEF Order, CaughtUp
    <3> QED BY <1>5, <3>1
  <2>2. \A c \in Ids(frames') : ~(c < cmd')
    <3>1. Ids(frames) \subseteq Command BY <1>2 DEF Ids
    <3>2. Command \subseteq Int BY DEF Command
    <3>3. Ids(frames') \subseteq Int /\ cmd' \in Int BY <1>4, <3>1, <3>2
    <3> QED BY <1>4, <3>3
  <2>3. \A c \in Coming' : c < cmd' => c \in Settled BY <1>1, <1>3, <2>1, <2>2 DEF Coming
  <2> QED BY <1>1, <1>3, <1>4, <1>6, <2>3 DEF Order, InOrder
<1>11. CaughtUp'
  <2>1. connected => pending \subseteq Settled \cup {cmd'} \cup Ids(frames')
        BY <1>1, <1>3, <1>4, <1>6 DEF Order, CaughtUp
  <2>2. ASSUME NEW i \in DOMAIN frames', NEW c \in pending, c < frames'[i]
        PROVE  c \in Settled \cup {cmd'} \/ \E j \in DOMAIN frames' : j < i /\ frames'[j] = c
    <3>1. c \in Settled \/ \E j \in DOMAIN frames : j < i + 1 /\ frames[j] = c
          BY <1>1, <1>3, <1>5, <1>6, <2>2 DEF Order, CaughtUp
    <3>2. ASSUME NEW j \in DOMAIN frames, j < i + 1, frames[j] = c, j # 1
          PROVE  \E k \in DOMAIN frames' : k < i /\ frames'[k] = c
      <4>1. j - 1 \in DOMAIN frames' /\ j - 1 < i /\ frames'[j - 1] = c BY <1>5, <3>2
      <4> QED BY <4>1
    <3> QED BY <1>5, <3>1, <3>2
  <2> QED BY <1>1, <1>3, <1>6, <2>1, <2>2 DEF CaughtUp
<1> QED BY <1>7, <1>8, <1>9, <1>10, <1>11 DEF Order

\* When a command takes effect, all older ones have had their turn.
LEMMA EffectOrder == ASSUME IInv, Order, ApplySucceeds PROVE Order'
<1> USE DEF linkVars, storeVars
<1>1. /\ pc = "apply" /\ pc' = "store" /\ effect' = cmd
      /\ UNCHANGED <<mode, issued, pending, connected, frames, work, cmd, via, acks, ids, failed,
                     interrupted, trimmed>>
      BY DEF ApplySucceeds, Goto
<1>2. /\ Settled' = Settled /\ Holding' = {cmd} /\ Holding = {cmd} /\ Coming' = Coming
      BY <1>1 DEF Settled, Known, Lost, Holding, Coming
<1>3. Coming \cup {cmd} \subseteq 1..issued /\ issued \in Nat
      BY <1>2 DEF Order, Offered, IInv, TypeOK
<1>4. Shape' BY <1>1 DEF Order, Shape
<1>5. Offered' BY <1>1, <1>2, <1>3 DEF Order, Offered
<1>6. Passed'
  <2>1. \A c \in Coming : c < cmd => c \in Settled BY <1>1 DEF Order, InOrder
  <2>2. \A c \in Coming \cup {cmd} : c <= cmd => c = cmd \/ (c \in Coming /\ c < cmd) BY <1>3
  <2> QED BY <1>1, <1>2, <2>1, <2>2 DEF Passed
<1>7. InOrder' BY <1>1, <1>2 DEF Order, InOrder
<1>8. CaughtUp' BY <1>1, <1>2 DEF Order, CaughtUp
<1> QED BY <1>4, <1>5, <1>6, <1>7, <1>8 DEF Order

\* The steps in which a command, known to be stored, failed or lost, leaves the hand.
LEMMA TurnSteps ==
    ASSUME IInv, Order, ApplyDuplicate \/ ApplyFails \/ ApplyRaises \/ Store \/ StoreFails
    PROVE  Order'
<1> USE DEF linkVars, storeVars, historyVars
<1>1. CASE ApplyDuplicate
  <2>1. cmd \in Settled /\ Settled' = Settled /\ cmd' = cmd
        BY <1>1 DEF ApplyDuplicate, Settled, Known, Lost
  <2> QED BY <1>1, <2>1, HadTurn DEF ApplyDuplicate
<1>2. CASE ApplyFails
  <2>1. cmd' = cmd /\ Settled \subseteq Settled' /\ cmd \in Settled'
        BY <1>2 DEF ApplyFails, Settled, Known, Lost
  <2> QED BY <1>2, <2>1, HadTurn DEF ApplyFails
<1>3. CASE ApplyRaises
  <2>1. Settled' = Settled BY <1>3 DEF ApplyRaises, Settled, Known, Lost
  <2>2. /\ work' = <<>> /\ frames' = <<>> /\ ~connected' /\ via' = via /\ pc = "apply"
        /\ pc' \in {"backoff", "dead"} /\ (mode = "poll" => pc' = "dead")
        /\ UNCHANGED <<mode, issued, pending, effect, acks>>
        BY <1>3 DEF ApplyRaises, Raise
  <2> QED BY <2>1, <2>2, Wiped DEF Order, Shape
<1>4. CASE Store
  <2>1. /\ pc = "store" /\ pc' = "ack" /\ Remember
        /\ UNCHANGED <<mode, issued, pending, connected, frames, work, cmd, via, effect, acks, failed,
                       interrupted>>
        BY <1>4 DEF Store
  <2>2. Known \subseteq Known' /\ cmd \in Ids(ids') BY <2>1, RememberKnown
  <2>3. Settled \subseteq Settled' /\ cmd \in Settled' BY <2>1, <2>2 DEF Settled, Known
  <2> QED BY <2>1, <2>3, HadTurn
<1>5. CASE StoreFails
  <2>1. /\ pc = "store" /\ Remember /\ interrupted' = interrupted \cup {cmd} /\ failed' = failed
        /\ work' = <<>> /\ frames' = <<>> /\ ~connected' /\ via' = via
        /\ pc' \in {"backoff", "dead"} /\ (mode = "poll" => pc' = "dead")
        /\ UNCHANGED <<mode, issued, pending, effect, acks>>
        BY <1>5 DEF StoreFails, Raise
  <2>2. Known \subseteq Known' BY <2>1, RememberKnown
  <2>3. Settled \subseteq Settled' /\ cmd \in Settled'
        BY <2>1, <2>2 DEF Settled, Known, Lost
  <2> QED BY <2>1, <2>3, Wiped DEF Order, Shape
<1> QED BY <1>1, <1>2, <1>3, <1>4, <1>5

LEMMA AckOrder == ASSUME IInv, Order, AckRest \/ AckSubmit \/ AckSend PROVE Order'
<1> USE DEF clientVars, linkVars, storeVars, historyVars
<1>1. ASSUME NEW c \in Settled, NEW success, Acknowledge(c, success)
      PROVE  pending' \subseteq pending /\ pending \subseteq pending' \cup Settled
      BY <1>1 DEF Acknowledge
<1>2. CASE AckRest
  <2>1. /\ pc = "ack" /\ pc' = "next"
        /\ UNCHANGED <<mode, issued, connected, frames, work, via, effect, acks, ids, failed, interrupted,
                       trimmed>>
        BY <1>2 DEF AckRest
  <2>2. cmd \in Settled BY <2>1 DEF Order, Offered
  <2>3. pending' \subseteq pending /\ pending \subseteq pending' \cup Settled
        BY <1>1, <1>2, <2>2 DEF AckRest
  <2>4. \A i \in DOMAIN acks' : acks'[i][1] \in Settled BY <2>1 DEF Order, Offered
  <2> QED BY <2>1, <2>3, <2>4, Acked
<1>3. CASE AckSubmit
  <2>1. /\ pc = "ack" /\ pc' = "listen" /\ via = "ws"
        /\ acks' = IF Len(acks) < AckQueueMax THEN Append(acks, <<cmd, ok>>) ELSE acks
        /\ UNCHANGED <<mode, issued, pending, connected, frames, work, via, effect, ids, failed,
                       interrupted, trimmed>>
        BY <1>3 DEF AckSubmit
  <2>2. cmd \in Settled /\ \A i \in DOMAIN acks : acks[i][1] \in Settled
        BY <2>1 DEF Order, Offered
  <2>3. acks \in Seq(Command \X BOOLEAN) BY DEF IInv, TypeOK
  <2>4. \A i \in DOMAIN acks' : (i \in DOMAIN acks /\ acks'[i] = acks[i]) \/ acks'[i] = <<cmd, ok>>
    <3>1. \A i \in DOMAIN Append(acks, <<cmd, ok>>) :
            \/ i \in DOMAIN acks /\ Append(acks, <<cmd, ok>>)[i] = acks[i]
            \/ Append(acks, <<cmd, ok>>)[i] = <<cmd, ok>>
          BY <2>3
    <3> QED BY <2>1, <3>1
  <2>5. \A i \in DOMAIN acks' : acks'[i][1] \in Settled BY <2>2, <2>4
  <2> QED BY <2>1, <2>5, Acked
<1>4. CASE AckSend
  <2>1. /\ acks # <<>> /\ acks' = Tail(acks) /\ acks \in Seq(Command \X BOOLEAN)
        /\ UNCHANGED <<mode, issued, connected, frames, pc, work, cmd, via, effect, ids, failed,
                       interrupted, trimmed>>
        BY <1>4 DEF AckSend, IInv, TypeOK
  <2>2. /\ Head(acks) = acks[1] /\ 1 \in DOMAIN acks
        /\ \A i \in DOMAIN acks' : i + 1 \in DOMAIN acks /\ acks'[i] = acks[i + 1]
    <3>1. Len(acks) \in Nat \ {0} /\ DOMAIN acks = 1..Len(acks) BY <2>1
    <3> QED BY <2>1, <3>1, HeadTail
  <2>3. Head(acks)[1] \in Settled /\ \A i \in DOMAIN acks' : acks'[i][1] \in Settled
        BY <2>2 DEF Order, Offered
  <2>4. pending' \subseteq pending /\ pending \subseteq pending' \cup Settled
        BY <1>1, <1>4, <2>3 DEF AckSend
  <2> QED BY <2>1, <2>3, <2>4, Acked
<1> QED BY <1>2, <1>3, <1>4

LEMMA LinkOrder ==
    ASSUME ~Overtaking, IInv, Order,
           Connect \/ ConnectFails \/ Backoff \/ PollFails \/ PollDone \/ Closed
    PROVE  Order'
<1> USE DEF linkVars, storeVars, historyVars
<1>1. mode \in {"ws", "poll"} BY DeliveryAssumption DEF IInv, TypeOK
<1>2. CASE Connect
  <2>1. Settled' = Settled BY <1>2 DEF Connect, Goto, Settled, Known, Lost
  <2>2. work = <<>> /\ mode = "ws" BY <1>1, <1>2 DEF Connect, Order, Shape
  <2> QED BY <1>2, <2>1, <2>2, Wiped DEF Connect, Goto
<1>3. CASE ConnectFails
  <2>1. work = <<>> /\ mode = "ws" BY <1>1, <1>3 DEF ConnectFails, Order, Shape
  <2> QED BY <1>3, <2>1, Moved DEF ConnectFails, Goto
<1>4. CASE Backoff
  <2>1. work = <<>> /\ mode = "ws" BY <1>1, <1>4 DEF Backoff, Order, Shape
  <2> QED BY <1>4, <2>1, Moved DEF Backoff
<1>5. CASE PollFails
  <2>1. work = <<>> BY <1>5 DEF PollFails, Order, Shape
  <2>2. mode = "poll" BY <1>1, <1>5 DEF PollFails, Fault, FaultKinds, Overtaking, IInv, TypeOK
  <2> QED BY <1>5, <2>1, <2>2, Moved DEF PollFails, Goto
<1>6. CASE PollDone
  <2>1. pc' = (IF mode = "ws" THEN "listen" ELSE "poll") BY <1>6 DEF PollDone, Goto
  <2> QED BY <1>6, <2>1, Moved DEF PollDone, Goto
<1>7. CASE Closed
  <2>1. work = <<>> /\ mode = "ws" BY <1>1, <1>7 DEF Closed, Order, Shape
  <2> QED BY <1>7, <2>1, Moved DEF Closed, Goto
<1> QED BY <1>2, <1>3, <1>4, <1>5, <1>6, <1>7

LEMMA CrashOrder == ASSUME IInv, Order, Crash PROVE Order'
<1>1. /\ work' = <<>> /\ frames' = <<>> /\ acks' = <<>> /\ via' = "rest" /\ ~connected'
      /\ pc' = Begin(mode) /\ ids' = disk /\ disk' = disk
      /\ interrupted' = IF pc = "store" THEN interrupted \cup {cmd} ELSE interrupted
      /\ UNCHANGED <<mode, issued, pending, effect, failed, trimmed>>
      BY DEF Crash
<1>2. pc' \in {"connect", "poll"} /\ (mode = "poll" => pc' = "poll") BY <1>1 DEF Begin
<1>3. Saved \subseteq Known' BY <1>1 DEF Saved, Known, Lost
<1>4. Settled \subseteq Settled' BY <1>1, <1>3 DEF IInv, Durable, Settled
<1>5. pc = "store" => cmd \in Settled' BY <1>1 DEF Settled, Known, Lost
<1> QED BY <1>1, <1>2, <1>4, <1>5, Wiped

LEMMA NextOrder == ASSUME ~Overtaking, IInv, Order, [Next]_vars PROVE Order'
<1>1. CASE Issue BY <1>1, IssueOrder
<1>2. CASE Client
      BY <1>2, LinkOrder, PollOrder, TakeOrder, ReceiveOrder, TurnSteps, EffectOrder, AckOrder
      DEF Client
<1>3. CASE AckSend BY <1>3, AckOrder
<1>4. CASE Faults BY <1>4, DropOrder, LinkOrder, TurnSteps, CrashOrder DEF Faults
<1>5. CASE UNCHANGED vars
  <2>1. UNCHANGED <<mode, issued, pending, connected, frames, pc, work, cmd, via, effect, acks, ids,
                    failed, interrupted, trimmed>>
        BY <1>5 DEF vars
  <2>2. Settled' = Settled /\ Holding' = Holding /\ Coming' = Coming
        BY <2>1 DEF Settled, Known, Lost, Holding, Coming
  <2>3. Shape' /\ Offered' /\ Passed' BY <2>1, <2>2 DEF Order, Shape, Offered, Passed
  <2>4. InOrder' /\ CaughtUp' BY <2>1, <2>2 DEF Order, InOrder, CaughtUp
  <2> QED BY <2>3, <2>4 DEF Order
<1> QED BY <1>1, <1>2, <1>3, <1>4, <1>5 DEF Next

\* An older command never undoes a newer one, unless the older one failed before or its id was
\* lost: for the poll loop with any limit, and for the websocket client when its catch-up
\* polls get through and hold the backlog (_run_connection, poll_commands).
THEOREM NoneOvertaken == ASSUME ~Overtaking PROVE Spec => NoStaleCommand
<1>1. ASSUME IInv, Order, [Next]_vars, effect' # effect
      PROVE  effect' > effect \/ effect' \in failed \cup interrupted \cup trimmed
  <2>1. ApplySucceeds
    <3>1. ~Issue /\ ~AckSend /\ ~Drop BY <1>1 DEF Issue, AckSend, Drop, historyVars
    <3>2. ~Connect /\ ~ConnectFails /\ ~Backoff /\ ~PollFails /\ ~PollDone /\ ~Closed
          BY <1>1 DEF Connect, ConnectFails, Backoff, PollFails, PollDone, Closed, historyVars
    <3>3. ~Poll /\ ~TakePolled /\ ~Receive BY <1>1 DEF Poll, TakePolled, Receive, historyVars
    <3>4. ~ApplyDuplicate /\ ~ApplyFails /\ ~ApplyRaises /\ ~Store /\ ~StoreFails
          BY <1>1 DEF ApplyDuplicate, ApplyFails, ApplyRaises, Store, StoreFails, historyVars
    <3>5. ~AckRest /\ ~AckSubmit /\ ~Crash BY <1>1 DEF AckRest, AckSubmit, Crash, historyVars
    <3>6. ~UNCHANGED vars BY <1>1 DEF vars
    <3> QED BY <1>1, <3>1, <3>2, <3>3, <3>4, <3>5, <3>6 DEF Next, Client, Faults
  <2>2. pc = "apply" /\ cmd \notin Ids(ids) /\ effect' = cmd BY <2>1 DEF ApplySucceeds
  <2>3. cmd \in Nat /\ effect \in Nat
    <3>1. cmd \in Command BY <1>1, <2>2 DEF IInv, InHand
    <3>2. effect \in Command \cup {0} BY <1>1 DEF IInv, TypeOK, NoCommand
    <3>3. Command \subseteq Nat BY DEF Command
    <3> QED BY <3>1, <3>2, <3>3
  <2>4. cmd <= effect => cmd \in Settled
        BY <1>1, <2>2 DEF Order, Passed, Holding
  <2> QED BY <2>2, <2>3, <2>4 DEF Settled, Known, Lost
<1>2. IInv /\ Order /\ [Next]_vars =>
        [effect' # effect =>
            effect' > effect \/ effect' \in failed \cup interrupted \cup trimmed]_vars
      BY <1>1
<1>3. IInv /\ Order /\ [Next]_vars => (IInv /\ Order)' BY NextIInv, NextOrder
<1>4. Init => IInv /\ Order BY InitIInv, InitOrder
<1> QED BY <1>2, <1>3, <1>4, PTL DEF Spec, NoStaleCommand
=============================================================================
