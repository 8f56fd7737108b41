---------------------------- MODULE Registration ----------------------------
(***************************************************************************)
(* How an engine gets its credential: the choice of the signer             *)
(* (SnifferService._resolve_internal_request_signer), the browser-based    *)
(* registration (registration_client.run_registration), the temporary      *)
(* callback server (registration_server.py) and the saved credential       *)
(* (local_config.py).                                                      *)
(*                                                                         *)
(* Four threads: the main thread, which waits; the timeout timer; the one  *)
(* thread that serves requests; and the one that stops it.  A registration *)
(* id is the number of the registration.  A request body is that number    *)
(* and either what the backend issued for that registration or Incomplete. *)
(* The dashboard posts for a registration it was shown, this one or an     *)
(* earlier one; 0 is any other id.  Paths other than /complete and OPTIONS *)
(* requests change nothing and are left out.                               *)
(***************************************************************************)
EXTENDS Integers

CONSTANTS Credentials,    \* what an approval may issue
          Incomplete,     \* a body without engine_id or engine_secret
          None,           \* no credential
          Token,          \* SMARTIDS_INTERNAL_SERVICE_TOKEN
          MaxPosts,       \* bound: requests
          MaxFaults       \* bound: disk and socket errors, crashes

ASSUME RegistrationAssumption ==
    /\ Incomplete \notin Credentials
    /\ None \notin Credentials \cup {Incomplete}
    /\ None \notin Nat \X (Credentials \cup {Incomplete})
    /\ Token # None
    /\ MaxPosts \in Nat
    /\ MaxFaults \in Nat

VARIABLES setup,     \* the environment: a service token, registration enabled, or neither
          pc,        \* where the main thread is
          attempt,   \* registration_id
          taken,     \* what wait_for_completion returned
          config,    \* engine_config.json: what it was issued for and the credential, or None
          signer,    \* what the requests of this process are signed with
          result,    \* result of the server
          done,      \* _done
          stopping,  \* _shutdown_started
          serving,   \* serve_forever runs
          timer,     \* _timeout_timer and _on_timeout
          handler,   \* do_POST
          opened,    \* registrations whose approval page was opened
          posts,     \* number of requests so far
          faults,    \* number of faults so far
          told       \* history: bodies this process answered with 200 while it waited

serverVars == <<result, done, stopping, serving, timer, handler>>
envVars == <<setup, opened, posts, faults, told>>
vars == <<setup, pc, attempt, taken, config, signer, result, done, stopping, serving,
          timer, handler, opened, posts, faults, told>>

Bodies == Nat \X (Credentials \cup {Incomplete})

\* Mutant: any body will do.
AnyBodyMutant(body) == body # None

\* engine_id and engine_secret are there.
Complete(body) == body # None /\ body[2] # Incomplete
Free == [pc |-> "idle", body |-> <<0, Incomplete>>]

Init ==
    /\ setup \in {"token", "register", "none"}
    /\ pc = "resolve"
    /\ attempt = 0
    /\ taken = None
    /\ config = None
    /\ signer = None
    /\ result = None
    /\ done = FALSE
    /\ stopping = FALSE
    /\ serving = FALSE
    /\ timer = "off"
    /\ handler = Free
    /\ opened = {}
    /\ posts = 0
    /\ faults = 0
    /\ told = {}

Fault == faults < MaxFaults /\ faults' = faults + 1
NoFault == UNCHANGED faults

----------------------------------------------------------------------------
\* shutdown, called by the main thread, the timer and the request handler.  It
\* hands the stopping of the server to a thread of its own and does not wait.
Shutdown ==
    /\ stopping' = TRUE
    /\ timer' = IF timer = "armed" THEN "cancelled" ELSE timer

----------------------------------------------------------------------------
\* The main thread

\* A saved credential comes first, then the service token.  A file that cannot be
\* read counts as none.
Resolve ==
    /\ pc = "resolve"
    /\ \E saved \in {config, None} :
         /\ IF saved = config THEN NoFault ELSE Fault
         /\ pc' = IF saved = None /\ setup = "register" THEN "create" ELSE "done"
         /\ signer' = CASE saved # None -> saved
                       [] saved = None /\ setup = "token" -> Token
                       [] OTHER -> None
    /\ UNCHANGED <<attempt, taken, config, serverVars, setup, opened, posts, told>>

Create ==
    /\ pc = "create"
    /\ attempt' = attempt + 1
    /\ result' = None
    /\ done' = FALSE
    /\ stopping' = FALSE
    /\ serving' = TRUE
    /\ timer' = "armed"
    /\ pc' = "init"
    /\ UNCHANGED <<taken, config, signer, handler, envVars>>

\* HTTPServer binds its socket outside the try of run_registration.
CreateFails ==
    /\ pc = "create"
    /\ Fault
    /\ pc' = "raised"
    /\ UNCHANGED <<attempt, taken, config, signer, serverVars, setup, opened, posts, told>>

\* register/init, then the browser shows the approval page.
RegisterInit ==
    /\ pc = "init"
    /\ opened' = opened \cup {attempt}
    /\ pc' = "wait"
    /\ UNCHANGED <<attempt, taken, config, signer, serverVars, setup, posts, faults, told>>

\* An answer that is not HTTP is an exception the call does not catch.
RegisterInitFails ==
    /\ pc = "init"
    /\ \/ NoFault /\ pc' = "cleanup"
       \/ Fault /\ pc' = "unwind"
    /\ UNCHANGED <<attempt, taken, config, signer, serverVars, setup, opened, posts, told>>

\* wait_for_completion ends with the event or with its own, later timeout.
Expired == timer \in {"due", "set", "stop", "fired"}

\* Mutant: what the server holds counts only if the event was set.
WakeOnEventMutant ==
    /\ pc = "wait"
    /\ done \/ Expired
    /\ taken' = IF done THEN result ELSE None
    /\ pc' = IF Complete(taken') THEN "save" ELSE "cleanup"
    /\ UNCHANGED <<attempt, config, signer, serverVars, envVars>>

Wake ==
    /\ pc = "wait"
    /\ done \/ Expired
    /\ taken' = result
    /\ pc' = IF Complete(result) THEN "save" ELSE "cleanup"
    /\ UNCHANGED <<attempt, config, signer, serverVars, envVars>>

\* _persist_result: the file is replaced in one step, then read back.
Save ==
    /\ pc = "save"
    /\ config' = taken
    /\ \/ NoFault /\ signer' = config'
       \/ Fault /\ signer' = None
    /\ pc' = "cleanup"
    /\ UNCHANGED <<attempt, taken, serverVars, setup, opened, posts, told>>

\* An OSError of the write is not caught.
SaveFails ==
    /\ pc = "save"
    /\ Fault
    /\ pc' = "unwind"
    /\ UNCHANGED <<attempt, taken, config, signer, serverVars, setup, opened, posts, told>>

\* Mutant: shutdown waits for the server to stop.
CleanupWaitsMutant ==
    /\ pc \in {"cleanup", "unwind"}
    /\ Shutdown
    /\ pc' = IF pc # "cleanup" THEN "raised" ELSE IF serving THEN pc ELSE "done"
    /\ UNCHANGED <<attempt, taken, config, signer, result, done, serving, handler, envVars>>

\* finally: server.shutdown()
Cleanup ==
    /\ pc \in {"cleanup", "unwind"}
    /\ Shutdown
    /\ pc' = IF pc = "cleanup" THEN "done" ELSE "raised"
    /\ UNCHANGED <<attempt, taken, config, signer, result, done, serving, handler, envVars>>

Main ==
    \/ Resolve \/ Create \/ CreateFails
    \/ RegisterInit \/ RegisterInitFails
    \/ Wake \/ Save \/ SaveFails \/ Cleanup

----------------------------------------------------------------------------
\* The timer

Deadline ==
    /\ timer = "armed"
    /\ timer' = "due"
    /\ UNCHANGED <<pc, attempt, taken, config, signer, result, done, stopping, serving,
                   handler, envVars>>

\* _on_timeout: a look at the event, the event, shutdown.
OnTimeout ==
    /\ timer \in {"due", "set", "stop"}
    /\ timer' = CASE timer = "due" -> IF done THEN "fired" ELSE "set"
                  [] timer = "set" -> "stop"
                  [] timer = "stop" -> "fired"
    /\ done' = (done \/ timer = "set")
    /\ stopping' = (stopping \/ timer = "stop")
    /\ UNCHANGED <<pc, attempt, taken, config, signer, result, serving, handler, envVars>>

----------------------------------------------------------------------------
\* The server: one request at a time

Post(body) ==
    /\ serving
    /\ handler = Free
    /\ posts < MaxPosts
    /\ posts' = posts + 1
    /\ handler' = [pc |-> "read", body |-> body]
    /\ UNCHANGED <<pc, attempt, taken, config, signer, result, done, stopping, serving, timer,
                   setup, opened, faults, told>>

\* The id does not match: 403.
Reject ==
    /\ handler.pc = "read"
    /\ handler.body[1] # attempt
    /\ handler' = Free
    /\ UNCHANGED <<pc, attempt, taken, config, signer, result, done, stopping, serving, timer,
                   envVars>>

\* Mutant: the id is not looked at.
StoreAnyMutant ==
    /\ handler.pc = "read"
    /\ result' = handler.body
    /\ handler' = [handler EXCEPT !.pc = "answer"]
    /\ UNCHANGED <<pc, attempt, taken, config, signer, done, stopping, serving, timer, envVars>>

StoreResult ==
    /\ handler.pc = "read"
    /\ handler.body[1] = attempt
    /\ result' = handler.body
    /\ handler' = [handler EXCEPT !.pc = "answer"]
    /\ UNCHANGED <<pc, attempt, taken, config, signer, done, stopping, serving, timer, envVars>>

Answer ==
    /\ handler.pc = "answer"
    /\ told' = IF pc = "wait" THEN told \cup {handler.body} ELSE told
    /\ handler' = [handler EXCEPT !.pc = "finish"]
    /\ UNCHANGED <<pc, attempt, taken, config, signer, result, done, stopping, serving, timer,
                   setup, opened, posts, faults>>

\* The browser is gone: the exception ends the request before _done is set.
AnswerFails ==
    /\ handler.pc = "answer"
    /\ Fault
    /\ handler' = Free
    /\ UNCHANGED <<pc, attempt, taken, config, signer, result, done, stopping, serving, timer,
                   setup, opened, posts, told>>

Finish ==
    /\ handler.pc = "finish"
    /\ done' = TRUE
    /\ handler' = [handler EXCEPT !.pc = "stop"]
    /\ UNCHANGED <<pc, attempt, taken, config, signer, result, stopping, serving, timer, envVars>>

Stop ==
    /\ handler.pc = "stop"
    /\ Shutdown
    /\ handler' = Free
    /\ UNCHANGED <<pc, attempt, taken, config, signer, result, done, serving, envVars>>

\* The server's loop ends between two requests.
ServeEnds ==
    /\ serving
    /\ stopping
    /\ handler = Free
    /\ serving' = FALSE
    /\ UNCHANGED <<pc, attempt, taken, config, signer, result, done, stopping, timer, handler,
                   envVars>>

----------------------------------------------------------------------------
\* The engine ends at any point and is started again.
Restart ==
    /\ Fault
    /\ pc' = "resolve"
    /\ taken' = None
    /\ signer' = None
    /\ result' = None
    /\ done' = FALSE
    /\ stopping' = FALSE
    /\ serving' = FALSE
    /\ timer' = "off"
    /\ handler' = Free
    /\ told' = {}
    /\ UNCHANGED <<attempt, config, setup, opened, posts>>

Server == Reject \/ StoreResult \/ Answer \/ AnswerFails \/ Finish \/ Stop \/ ServeEnds

Next ==
    \/ Main
    \/ Deadline \/ OnTimeout
    \/ \E body \in (opened \cup {0}) \X (Credentials \cup {Incomplete}) : Post(body)
    \/ Server
    \/ Restart

Spec == Init /\ [][Next]_vars

\* The threads run and time passes.  Nothing is assumed of the network: a request
\* whose body never arrives holds the one serving thread for ever.
FairSpec ==
    /\ Spec
    /\ WF_vars(Main)
    /\ WF_vars(Deadline)
    /\ WF_vars(OnTimeout)
    /\ WF_vars(Answer \/ AnswerFails \/ Finish \/ Stop)
    /\ WF_vars(ServeEnds)
----------------------------------------------------------------------------
\* Properties

\* The variables have the types the code gives them.
TypeOK ==
    /\ setup \in {"token", "register", "none"}
    /\ pc \in {"resolve", "create", "init", "wait", "save", "cleanup", "unwind", "done", "raised"}
    /\ attempt \in Nat
    /\ taken \in Bodies \cup {None}
    /\ config \in (Nat \X Credentials) \cup {None}
    /\ signer \in (Nat \X Credentials) \cup {None, Token}
    /\ result \in Bodies \cup {None}
    /\ done \in BOOLEAN
    /\ stopping \in BOOLEAN
    /\ serving \in BOOLEAN
    /\ timer \in {"off", "armed", "cancelled", "due", "set", "stop", "fired"}
    /\ handler \in [pc : {"idle", "read", "answer", "finish", "stop"}, body : Bodies]
    /\ opened \subseteq Nat
    /\ posts \in 0..MaxPosts
    /\ faults \in 0..MaxFaults
    /\ told \subseteq Bodies

\* A credential issued for an earlier registration, or posted without an id of ours,
\* never reaches the file, whatever restarts, unreadable files and late requests there
\* were: what a process saves was issued for the registration it runs.
SavesOwnCredential ==
    [][config' # config => config'[1] = attempt]_vars

\* An approval the browser was told of while the engine waited is not dropped: when
\* run_registration returns, it took a body, and one that was complete is in the file.
\* The timer, the wait's own timeout and a second request may come in between.
ToldMeansSaved ==
    pc = "done" /\ told # {} =>
        /\ taken # None
        /\ Complete(taken) => config = taken

\* A credential the engine signs with is the one a restart will load, even if a second
\* approval arrives while the first is being saved.
SignerIsSaved ==
    signer \notin {None, Token} => signer = config

\* What the browser, the file and the signer hold is one approval, whichever thread came first.
ApprovalKept == ToldMeansSaved /\ SignerIsSaved

\* Startup is never blocked for good: the resolution of the signer ends, even if a
\* request holds the serving thread for ever.
Finishes ==
    <>[](pc \in {"done", "raised"})

\* The callback server closes, unless a request holds its thread: shutdown called from
\* the handler, the timer and the main thread never leaves them waiting on each other.
Closes ==
    <>[](~serving \/ handler.pc = "read")

\* Startup and the callback server both come to an end, under any timing of the handler, the
\* timer and the main thread.
StartupEnds == Finishes /\ Closes

=============================================================================
