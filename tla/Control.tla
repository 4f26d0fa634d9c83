------------------------------ MODULE Control -------------------------------
(***************************************************************************)
(* The settings row and what follows it: the live MCP listener, which every *)
(* save reconciles with the row, and the auto-backup worker of Workers.     *)
(*                                                                          *)
(* A save resolves the placeholder "<set>", writes the row, reads it back   *)
(* and hands the token to Controller.Reconcile, which holds the controller's*)
(* mutex while it shuts the old listener down and starts the new one.  An   *)
(* import writes the row and reconciles nothing.                            *)
(***************************************************************************)
EXTENDS Workers

CONSTANTS
    Requests,   \* goroutines that serve HTTP requests
    Tokens,     \* MCP tokens
    EnvTokens,  \* what SHELLYADMIN_MCP_TOKEN may hold
    Off         \* no token, no listener; nobody

ASSUME ControlAssumption == Off \notin Requests \cup Tokens

VARIABLES
    row,        \* MCPEnabled and MCPToken of the settings row
    req,        \* the saves in flight
    running,    \* the process is up
    envToken,   \* SHELLYADMIN_MCP_TOKEN
    mu,         \* holder of Controller.mu
    current,    \* Controller.currentToken
    listening,  \* the tokens of the listeners that accept connections
    bindFailed, \* auxiliary: ListenAndServe of the current listener gave up
    synced      \* auxiliary: the last reconcile used the row as it is now

controlVars == <<row, req, running, envToken, mu, current, listening, bindFailed, synced>>
vars == <<controlVars, workerVars>>

Row == [enabled : 0 .. 1, token : Tokens \cup {Off}]

\* fresh: nobody has written the row since this request read it.
ReqState == [pc : {"idle", "write", "reread", "reconcile", "build"},
             row : Row, fresh : 0 .. 1]
IdleReq == [pc |-> "idle", row |-> [enabled |-> 0, token |-> Off], fresh |-> 0]

Init ==
    /\ WorkersInit
    /\ row = [enabled |-> 0, token |-> Off]
    /\ req = [r \in Requests |-> IdleReq]
    /\ running = FALSE /\ envToken \in EnvTokens
    /\ mu = Off /\ current = Off /\ listening = {}
    /\ bindFailed = FALSE /\ synced = FALSE

\* The listener a row asks for.
Wanted(r) == IF r.enabled = 1 THEN r.token ELSE Off

\* validation.Settings: MCP is enabled only with a token.
Valid(r) == r.enabled = 1 => r.token # Off

\* A write of the row outdates what the others have read.
Outdated(r) == [o \in Requests |-> IF o = r THEN req[o] ELSE [req[o] EXCEPT !.fresh = 0]]

-----------------------------------------------------------------------------
(* settings.Save.                                                          *)

\* "<set>" stands for the stored token.
Resolved == row.token

\* A save that keeps the token reads the row first.
BeginKeep(r) ==
    /\ running /\ req[r].pc = "idle"
    /\ \E e \in 0 .. 1 :
         LET new == [enabled |-> e, token |-> Resolved] IN
         /\ Valid(new)
         /\ req' = [req EXCEPT ![r] = [pc |-> "write", row |-> new, fresh |-> 1]]
    /\ UNCHANGED <<row, running, envToken, mu, current, listening, bindFailed, synced, workerVars>>

\* SaveSettings of the store; the row holds the backup settings too.
WriteRow(r) ==
    /\ \/ /\ running /\ req[r].pc = "idle"
          /\ \E new \in Row : Valid(new) /\ row' = new
       \/ req[r].pc = "write" /\ row' = req[r].row
    /\ req' = [Outdated(r) EXCEPT ![r] = [IdleReq EXCEPT !.pc = "reread"]]
    /\ SettingsSaved
    /\ synced' = FALSE
    /\ UNCHANGED <<running, envToken, mu, current, listening, bindFailed>>

\* Faulty variant: the settings drive the listener whatever the environment says.
EnvLockedNever == FALSE

EnvLocked == envToken # Off

\* ReconcileMCPFromSettings reads the row back; an error is only logged, and the
\* listener stays as it is.
Reread(r) ==
    /\ req[r].pc = "reread"
    /\ \/ req' = [req EXCEPT ![r] = IdleReq]
       \/ /\ ~EnvLocked
          /\ req' = [req EXCEPT ![r] = [pc |-> "reconcile", row |-> [enabled |-> row.enabled, token |-> Wanted(row)],
                                       fresh |-> 1]]
    /\ UNCHANGED <<row, running, envToken, mu, current, listening, bindFailed, synced, workerVars>>

\* Faulty variant: the new listener is started beside the old one.
ShutDownNothing == listening

\* server.Shutdown: the socket is closed at once.
ShutDown == listening \ {current}

\* Faulty variant: disabled settings are not acted on.
AsDesiredOrOff(token) == token \in {current, Off}

\* The listener has the token already, or there is none and none is wanted.
AsDesired(token) == token = current

\* Reconcile: nothing to do, or the old listener goes.
Reconcile(r) ==
    LET token == Wanted(req[r].row) IN
    /\ req[r].pc = "reconcile" /\ mu = Off
    /\ \/ /\ AsDesired(token)
          /\ mu' = Off
          /\ req' = [req EXCEPT ![r] = IdleReq]
          /\ synced' = (req[r].fresh = 1)
          /\ UNCHANGED <<current, listening, bindFailed>>
       \/ /\ ~AsDesired(token)
          /\ listening' = ShutDown /\ current' = Off /\ bindFailed' = FALSE
          /\ mu' = IF token = Off THEN Off ELSE r
          /\ req' = [req EXCEPT ![r] = IF token = Off THEN IdleReq ELSE [req[r] EXCEPT !.pc = "build"]]
          /\ synced' = (token = Off /\ req[r].fresh = 1)
    /\ UNCHANGED <<row, running, envToken, workerVars>>

\* Build and ListenAndServe in its goroutine, which may find the port taken;
\* currentToken is set all the same.
Build(r) ==
    /\ req[r].pc = "build"
    /\ current' = Wanted(req[r].row)
    /\ \/ listening' = listening \cup {current'} /\ bindFailed' = FALSE
       \/ listening' = listening /\ bindFailed' = TRUE
    /\ mu' = Off
    /\ req' = [req EXCEPT ![r] = IdleReq]
    /\ synced' = (req[r].fresh = 1)
    /\ UNCHANGED <<row, running, envToken, workerVars>>

\* backup.Import writes the row; onSaved is not called.
ImportRow(r) ==
    /\ running /\ req[r].pc = "idle"
    /\ \E new \in Row : Valid(new) /\ row' = new
    /\ req' = Outdated(r)
    /\ SettingsSaved
    /\ synced' = FALSE
    /\ UNCHANGED <<running, envToken, mu, current, listening, bindFailed>>

-----------------------------------------------------------------------------
(* The process.                                                            *)

\* StartMCPFromConfig: the environment first, the settings second.  Settings that
\* cannot be read leave MCP off.
Boot ==
    /\ ~running
    /\ running' = TRUE
    /\ \E read \in BOOLEAN :
         LET token == IF envToken # Off THEN envToken ELSE IF read THEN Wanted(row) ELSE Off IN
         /\ current' = token
         /\ \/ listening' = {token} \ {Off} /\ bindFailed' = FALSE
            \/ token # Off /\ listening' = {} /\ bindFailed' = TRUE
         /\ synced' = read
    /\ WorkersRestart
    /\ UNCHANGED <<row, req, envToken, mu>>

\* A graceful stop, once the API server has drained its requests, or a crash.
Down(drained) ==
    /\ running
    /\ drained => \A r \in Requests : req[r].pc = "idle"
    /\ running' = FALSE
    /\ req' = [r \in Requests |-> IdleReq]
    /\ mu' = Off /\ current' = Off /\ listening' = {} /\ bindFailed' = FALSE /\ synced' = FALSE
    /\ UNCHANGED <<row, envToken, workerVars>>

Stop == Down(TRUE)
Crash == Down(FALSE)

\* The worker runs in the process, time passes by itself.
Worker ==
    /\ (running /\ (AutoBackup \/ AutoBackupFails)) \/ Sleep \/ ClockSetBack
    /\ UNCHANGED controlVars

RequestStep(r) == BeginKeep(r) \/ WriteRow(r) \/ Reread(r) \/ Reconcile(r) \/ Build(r) \/ ImportRow(r)

Next ==
    \/ \E r \in Requests : RequestStep(r)
    \/ Boot \/ Stop \/ Crash \/ Worker

Spec == Init /\ [][Next]_vars

-----------------------------------------------------------------------------
(* Properties.                                                             *)

\* The row, the requests, the controller and the worker have their types.
TypeOK ==
    /\ row \in Row /\ req \in [Requests -> ReqState]
    /\ running \in BOOLEAN /\ envToken \in EnvTokens
    /\ mu \in Requests \cup {Off} /\ current \in Tokens \cup EnvTokens \cup {Off}
    /\ listening \subseteq Tokens \cup EnvTokens
    /\ bindFailed \in BOOLEAN /\ synced \in BOOLEAN
    /\ WorkersTypeOK

\* After a save whose row nobody else wrote before it reconciled, the listener is
\* the one the row asks for, whatever other saves, imports and restarts came
\* before, unless the port was taken or the row could not be read back.
ListenerFollowsRow ==
    running /\ synced /\ ~EnvLocked /\ ~bindFailed => listening = {Wanted(row)} \ {Off}

\* There is never a second listener, so that at most one token opens the door,
\* and with SHELLYADMIN_MCP_TOKEN set no token of the settings ever does:
\* Reconcile shuts the old listener down under the mutex before it builds.
\* All is well typed.
OneListener ==
    /\ TypeOK
    /\ Cardinality(listening) <= 1
    /\ envToken # Off => listening \subseteq {envToken}
=============================================================================
