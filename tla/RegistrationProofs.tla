------------------------- MODULE RegistrationProofs -------------------------
(***************************************************************************)
(* What a registration guarantees for every number of requests, restarts   *)
(* and errors, whatever the backend issues and whoever posts.              *)
(***************************************************************************)
EXTENDS Registration, TLAPS

Before == {"resolve", "create"}
Waited == {"wait", "save", "cleanup", "unwind", "done", "raised"}

\* Nobody serves a request before the server is created, and a stored body stays.
ServerOK ==
    /\ pc \in Before => ~serving /\ handler = Free /\ result = None
    /\ handler.pc \in {"answer", "finish", "stop"} => result # None

\* What the server holds, and what is about to be saved, was issued for this attempt.
Own ==
    /\ result # None => result[1] = attempt
    /\ pc = "save" => Complete(taken) /\ taken[1] = attempt

\* Once the browser was told, the answer is in the server, then in the main thread's
\* hands, then, if it was complete, in the file.
Told ==
    told # {} =>
        /\ pc \in Waited
        /\ pc = "wait" => result # None
        /\ pc \in {"save", "cleanup", "done"} => taken # None
        /\ pc \in {"cleanup", "done"} /\ Complete(taken) => config = taken

IInv == TypeOK /\ ServerOK /\ Own /\ Told /\ SignerIsSaved

-----------------------------------------------------------------------------
\* A body is not mistaken for no body, and a complete one carries a credential.
LEMMA BodyKinds ==
    /\ \A body \in Bodies : body # None
    /\ \A body \in Bodies \cup {None} : Complete(body) => body \in Nat \X Credentials
    /\ Free \in [pc : {"idle", "read", "answer", "finish", "stop"}, body : Bodies]
BY RegistrationAssumption DEF Bodies, Complete, Free

LEMMA InitIInv == Init => IInv
<1> SUFFICES ASSUME Init PROVE IInv OBVIOUS
<1>1. TypeOK
  <2>1. 0 \in 0..MaxPosts /\ 0 \in 0..MaxFaults BY RegistrationAssumption
  <2>2. handler \in [pc : {"idle", "read", "answer", "finish", "stop"}, body : Bodies]
        BY BodyKinds DEF Init
  <2> QED BY <2>1, <2>2 DEF Init, TypeOK
<1>2. ServerOK /\ Own /\ Told /\ SignerIsSaved
      BY DEF Init, ServerOK, Own, Told, SignerIsSaved, Before, Free
<1> QED BY <1>1, <1>2 DEF IInv

LEMMA FaultType == ASSUME IInv, Fault \/ NoFault PROVE faults' \in 0..MaxFaults
BY RegistrationAssumption DEF IInv, TypeOK, Fault, NoFault

LEMMA ResolveStep == ASSUME IInv, Resolve PROVE IInv'
<1>1. PICK saved \in {config, None} :
         /\ IF saved = config THEN NoFault ELSE Fault
         /\ pc' = IF saved = None /\ setup = "register" THEN "create" ELSE "done"
         /\ signer' = CASE saved # None -> saved
                       [] saved = None /\ setup = "token" -> Token
                       [] OTHER -> None
      BY DEF Resolve
<1>2. /\ pc = "resolve"
      /\ UNCHANGED <<attempt, taken, config, result, done, stopping, serving, timer, handler,
                     setup, opened, posts, told>>
      BY DEF Resolve, serverVars
<1>3. signer' \in {saved, Token, None} /\ (saved # None => signer' = saved) BY <1>1
<1>4. faults' \in 0..MaxFaults BY <1>1, FaultType
<1>5. TypeOK' BY <1>1, <1>2, <1>3, <1>4 DEF IInv, TypeOK
<1>6. ServerOK' BY <1>1, <1>2 DEF IInv, ServerOK, Before
<1>7. Own' BY <1>1, <1>2 DEF IInv, Own
<1>8. Told' BY <1>1, <1>2 DEF IInv, Told, Waited
<1>9. SignerIsSaved' BY <1>1, <1>2, <1>3 DEF IInv, SignerIsSaved
<1> QED BY <1>5, <1>6, <1>7, <1>8, <1>9 DEF IInv

LEMMA CreateStep == ASSUME IInv, Create PROVE IInv'
<1>1. TypeOK'
  <2>1. /\ attempt' = attempt + 1 /\ result' = None /\ done' = FALSE /\ stopping' = FALSE
        /\ serving' = TRUE /\ timer' = "armed" /\ pc' = "init"
        /\ UNCHANGED <<taken, config, signer, handler, setup, opened, posts, faults, told>>
        BY DEF Create, envVars
  <2>2. attempt' \in Nat BY <2>1 DEF IInv, TypeOK
  <2> QED BY <2>1, <2>2 DEF IInv, TypeOK
<1>2. ServerOK' BY DEF IInv, ServerOK, Create, Before, Free
<1>3. Own' BY DEF IInv, Own, Create
<1>4. Told' BY DEF IInv, Told, Create, Waited, envVars
<1>5. SignerIsSaved' BY DEF IInv, SignerIsSaved, Create
<1> QED BY <1>1, <1>2, <1>3, <1>4, <1>5 DEF IInv

\* The main thread's steps that leave the server, the file and its signer alone.
LEMMA PcSteps ==
    ASSUME IInv, CreateFails \/ RegisterInit \/ RegisterInitFails \/ SaveFails
    PROVE  IInv'
<1>1. /\ UNCHANGED <<attempt, taken, config, signer, result, done, stopping, serving, timer,
                     handler, setup, posts, told>>
      /\ opened' \subseteq Nat
      /\ faults' \in 0..MaxFaults
      /\ \/ pc = "create" /\ pc' = "raised"
         \/ pc = "init" /\ pc' \in {"wait", "cleanup", "unwind"}
         \/ pc = "save" /\ pc' = "unwind"
      BY FaultType DEF IInv, TypeOK, CreateFails, RegisterInit, RegisterInitFails, SaveFails, serverVars
<1>2. TypeOK' BY <1>1 DEF IInv, TypeOK
<1>3. ServerOK' BY <1>1 DEF IInv, ServerOK, Before
<1>4. Own' BY <1>1 DEF IInv, Own
<1>5. Told' BY <1>1 DEF IInv, Told, Waited
<1>6. SignerIsSaved' BY <1>1 DEF IInv, SignerIsSaved
<1> QED BY <1>2, <1>3, <1>4, <1>5, <1>6 DEF IInv

LEMMA WakeStep == ASSUME IInv, Wake PROVE IInv'
<1>1. /\ pc = "wait" /\ taken' = result
      /\ pc' = IF Complete(result) THEN "save" ELSE "cleanup"
      /\ UNCHANGED <<attempt, config, signer, result, done, stopping, serving, timer,
                     handler, setup, opened, posts, faults, told>>
      BY DEF Wake, serverVars, envVars
<1>2. TypeOK' BY <1>1 DEF IInv, TypeOK
<1>3. ServerOK' BY <1>1 DEF IInv, ServerOK, Before
<1>4. Own' BY <1>1 DEF IInv, Own, Complete
<1>5. Told'
  <2>1. CASE Complete(result) BY <1>1, <2>1 DEF IInv, Told, Waited
  <2>2. CASE ~Complete(result)
    <3>1. ~Complete(taken)' BY <1>1, <2>2 DEF Complete
    <3> QED BY <1>1, <2>2, <3>1 DEF IInv, Told, Waited
  <2> QED BY <2>1, <2>2
<1>6. SignerIsSaved' BY <1>1 DEF IInv, SignerIsSaved
<1> QED BY <1>2, <1>3, <1>4, <1>5, <1>6 DEF IInv

LEMMA SaveStep == ASSUME IInv, Save PROVE IInv'
<1>1. /\ pc = "save" /\ config' = taken /\ pc' = "cleanup" /\ signer' \in {config', None}
      /\ UNCHANGED <<attempt, taken, result, done, stopping, serving, timer, handler,
                     setup, opened, posts, told>>
      BY DEF Save, serverVars
<1>2. faults' \in 0..MaxFaults BY FaultType DEF Save
<1>3. taken \in Nat \X Credentials BY <1>1, BodyKinds DEF IInv, TypeOK, Own
<1>4. TypeOK' BY <1>1, <1>2, <1>3 DEF IInv, TypeOK
<1>5. ServerOK' BY <1>1 DEF IInv, ServerOK, Before
<1>6. Own' BY <1>1 DEF IInv, Own
<1>7. Told' BY <1>1 DEF IInv, Told, Waited
<1>8. SignerIsSaved' BY <1>1 DEF SignerIsSaved
<1> QED BY <1>4, <1>5, <1>6, <1>7, <1>8 DEF IInv

LEMMA CleanupStep == ASSUME IInv, Cleanup PROVE IInv'
<1>1. /\ pc \in {"cleanup", "unwind"} /\ pc' = IF pc = "cleanup" THEN "done" ELSE "raised"
      /\ stopping' = TRUE /\ timer' \in {timer, "cancelled"}
      /\ UNCHANGED <<attempt, taken, config, signer, result, done, serving, handler,
                     setup, opened, posts, faults, told>>
      BY DEF Cleanup, Shutdown, envVars
<1>2. TypeOK' BY <1>1 DEF IInv, TypeOK
<1>3. ServerOK' BY <1>1 DEF IInv, ServerOK, Before
<1>4. Own' BY <1>1 DEF IInv, Own
<1>5. Told' BY <1>1 DEF IInv, Told, Waited, Complete
<1>6. SignerIsSaved' BY <1>1 DEF IInv, SignerIsSaved
<1> QED BY <1>2, <1>3, <1>4, <1>5, <1>6 DEF IInv

-----------------------------------------------------------------------------
\* Steps of the timer and the server that store and answer nothing.
LEMMA QuietSteps ==
    ASSUME IInv, Deadline \/ OnTimeout \/ Reject \/ AnswerFails \/ Finish \/ Stop \/ ServeEnds
    PROVE  IInv'
<1>1. /\ UNCHANGED <<pc, attempt, taken, config, signer, result, setup, opened, posts, told>>
      /\ \/ handler' \in {handler, Free}
         \/ handler.pc = "finish" /\ handler' = [handler EXCEPT !.pc = "stop"]
      /\ serving' => serving
  <2>1. CASE Deadline \/ OnTimeout BY <2>1 DEF Deadline, OnTimeout, envVars
  <2>2. CASE Reject \/ AnswerFails BY <2>2 DEF Reject, AnswerFails, envVars
  <2>3. CASE Finish BY <2>3 DEF Finish, envVars
  <2>4. CASE Stop BY <2>4 DEF Stop, envVars
  <2>5. CASE ServeEnds BY <2>5 DEF ServeEnds, envVars
  <2> QED BY <2>1, <2>2, <2>3, <2>4, <2>5
<1>2. TypeOK'
  <2>1. faults' \in 0..MaxFaults
        BY FaultType DEF Deadline, OnTimeout, Reject, AnswerFails, Finish, Stop, ServeEnds, envVars, NoFault
  <2>2. /\ done' \in BOOLEAN /\ stopping' \in BOOLEAN /\ serving' \in BOOLEAN
        /\ timer' \in {"off", "armed", "cancelled", "due", "set", "stop", "fired"}
        BY DEF IInv, TypeOK, Deadline, OnTimeout, Reject, AnswerFails, Finish, Stop, ServeEnds, Shutdown
  <2>3. handler' \in [pc : {"idle", "read", "answer", "finish", "stop"}, body : Bodies]
        BY <1>1, BodyKinds DEF IInv, TypeOK
  <2> QED BY <1>1, <2>1, <2>2, <2>3 DEF IInv, TypeOK
<1>3. ServerOK' BY <1>1 DEF IInv, TypeOK, ServerOK, Before, Free
<1>4. Own' BY <1>1 DEF IInv, Own
<1>5. Told' BY <1>1 DEF IInv, Told, Waited
<1>6. SignerIsSaved' BY <1>1 DEF IInv, SignerIsSaved
<1> QED BY <1>2, <1>3, <1>4, <1>5, <1>6 DEF IInv

LEMMA PostStep ==
    ASSUME IInv, NEW body \in (opened \cup {0}) \X (Credentials \cup {Incomplete}), Post(body)
    PROVE  IInv'
<1>1. /\ serving /\ posts < MaxPosts /\ posts' = posts + 1
      /\ handler' = [pc |-> "read", body |-> body]
      /\ UNCHANGED <<pc, attempt, taken, config, signer, result, done, stopping, serving, timer,
                     setup, opened, faults, told>>
      BY DEF Post
<1>2. body \in Bodies
  <2>1. opened \cup {0} \subseteq Nat BY DEF IInv, TypeOK
  <2> QED BY <2>1 DEF Bodies
<1>3. posts' \in 0..MaxPosts BY <1>1, RegistrationAssumption DEF IInv, TypeOK
<1>4. TypeOK' BY <1>1, <1>2, <1>3 DEF IInv, TypeOK
<1>5. ServerOK' BY <1>1 DEF IInv, ServerOK
<1>6. Own' /\ Told' /\ SignerIsSaved' BY <1>1 DEF IInv, Own, Told, SignerIsSaved
<1> QED BY <1>4, <1>5, <1>6 DEF IInv

LEMMA StoreResultStep == ASSUME IInv, StoreResult PROVE IInv'
<1>1. /\ handler.pc = "read" /\ handler.body[1] = attempt /\ result' = handler.body
      /\ handler' = [handler EXCEPT !.pc = "answer"]
      /\ UNCHANGED <<pc, attempt, taken, config, signer, done, stopping, serving, timer,
                     setup, opened, posts, faults, told>>
      BY DEF StoreResult, envVars
<1>2. handler.body \in Bodies /\ result' # None BY <1>1, BodyKinds DEF IInv, TypeOK
<1>3. TypeOK' BY <1>1, <1>2 DEF IInv, TypeOK
<1>4. ServerOK' BY <1>1, <1>2 DEF IInv, ServerOK, Free
<1>5. Own' BY <1>1 DEF IInv, Own
<1>6. Told' BY <1>1, <1>2 DEF IInv, Told
<1>7. SignerIsSaved' BY <1>1 DEF IInv, SignerIsSaved
<1> QED BY <1>3, <1>4, <1>5, <1>6, <1>7 DEF IInv

LEMMA AnswerStep == ASSUME IInv, Answer PROVE IInv'
<1>1. /\ handler.pc = "answer"
      /\ told' = IF pc = "wait" THEN told \cup {handler.body} ELSE told
      /\ handler' = [handler EXCEPT !.pc = "finish"]
      /\ UNCHANGED <<pc, attempt, taken, config, signer, result, done, stopping, serving, timer,
                     setup, opened, posts, faults>>
      BY DEF Answer
<1>2. TypeOK' BY <1>1 DEF IInv, TypeOK
<1>3. ServerOK' BY <1>1 DEF IInv, ServerOK, Free
<1>4. Own' BY <1>1 DEF IInv, Own
<1>5. Told' BY <1>1 DEF IInv, Told, ServerOK, Waited
<1>6. SignerIsSaved' BY <1>1 DEF IInv, SignerIsSaved
<1> QED BY <1>2, <1>3, <1>4, <1>5, <1>6 DEF IInv

LEMMA RestartStep == ASSUME IInv, Restart PROVE IInv'
<1>1. faults' \in 0..MaxFaults BY FaultType DEF Restart
<1>2. TypeOK' BY <1>1, BodyKinds DEF Restart, IInv, TypeOK
<1>3. ServerOK' /\ Own' /\ Told' /\ SignerIsSaved'
      BY DEF Restart, ServerOK, Own, Told, SignerIsSaved, Before, Free
<1> QED BY <1>2, <1>3 DEF IInv

LEMMA NextIInv == IInv /\ [Next]_vars => IInv'
<1> SUFFICES ASSUME IInv, [Next]_vars PROVE IInv' OBVIOUS
<1>1. CASE Main
      BY <1>1, ResolveStep, CreateStep, PcSteps, WakeStep, SaveStep, CleanupStep DEF Main
<1>2. CASE Deadline \/ OnTimeout BY <1>2, QuietSteps
<1>3. CASE \E body \in (opened \cup {0}) \X (Credentials \cup {Incomplete}) : Post(body)
      BY <1>3, PostStep
<1>4. CASE Server BY <1>4, QuietSteps, StoreResultStep, AnswerStep DEF Server
<1>5. CASE Restart BY <1>5, RestartStep
<1>6. CASE UNCHANGED vars
      BY <1>6 DEF vars, IInv, TypeOK, ServerOK, Own, Told, SignerIsSaved, serverVars, envVars
<1> QED BY <1>1, <1>2, <1>3, <1>4, <1>5, <1>6 DEF Next

LEMMA Inductive == Spec => []IInv
BY InitIInv, NextIInv, PTL DEF Spec

\* The threads leave every variable in the type the code gives it.
THEOREM RegistrationTypes == Spec => []TypeOK
<1>1. IInv => TypeOK BY DEF IInv
<1> QED BY <1>1, Inductive, PTL

\* An approval the browser was told of is in the file when run_registration returns, and
\* what the engine signs with is what a restart loads, in any order of the handler, the
\* timer and the main thread (registration_server, run_registration, _persist_result).
THEOREM ApprovalIsKept == Spec => []ApprovalKept
<1>1. IInv => ApprovalKept BY DEF IInv, Told, ApprovalKept, ToldMeansSaved
<1> QED BY <1>1, Inductive, PTL

\* Only _persist_result writes the file.
LEMMA OnlySaveWrites ==
    ASSUME [Next]_vars, config' # config
    PROVE  Save
BY DEF Next, Main, Resolve, Create, CreateFails, RegisterInit, RegisterInitFails, Wake, SaveFails,
       Cleanup, Deadline, OnTimeout, Post, Server, Reject, StoreResult, Answer, AnswerFails, Finish,
       Stop, ServeEnds, Restart, vars

\* The file never receives a credential that was issued for another registration than the
\* one that runs, whatever is posted and however often the engine restarts.
THEOREM OnlyOwnCredentials == Spec => SavesOwnCredential
<1>1. IInv /\ [Next]_vars => [config' # config => config'[1] = attempt]_vars
  <2> SUFFICES ASSUME IInv, [Next]_vars, config' # config PROVE config'[1] = attempt
      OBVIOUS
  <2>1. Save BY OnlySaveWrites
  <2> QED BY <2>1 DEF Save, IInv, Own
<1> QED BY <1>1, Inductive, PTL DEF Spec, SavesOwnCredential
=============================================================================
