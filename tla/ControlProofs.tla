---------------------------- MODULE ControlProofs ----------------------------
(***************************************************************************)
(* Proofs about Control and Workers, for every number of concurrent saves,  *)
(* every set of tokens and every interval: there is one MCP listener, it is *)
(* the one the settings row asks for, and the snapshots that the backup     *)
(* worker keeps lie apart.                                                  *)
(***************************************************************************)
EXTENDS Control, FiniteSetTheorems, TLAPS

\* What listens is the listener of currentToken, and it does unless its port was
\* taken.
Listening ==
    /\ listening \subseteq {current} \ {Off}
    /\ ~bindFailed => listening = {current} \ {Off}

\* Between the old listener and the new one Reconcile holds the mutex, and
\* there is none.
Building ==
    \A r \in Requests :
        req[r].pc = "build" => mu = r /\ current = Off /\ Wanted(req[r].row) # Off

\* Requests live in the process, and so do the controller and its listener.
Process ==
    ~running => /\ \A r \in Requests : req[r].pc = "idle"
                /\ mu = Off /\ current = Off

\* With a token in the environment no save reaches the controller.
Locked ==
    EnvLocked => /\ \A r \in Requests : req[r].pc \notin {"reconcile", "build"}
                 /\ current \in {envToken, Off}

\* What a save has read back is the row, unless somebody has written since.
Fresh ==
    \A r \in Requests :
        req[r].pc \in {"reconcile", "build"} /\ req[r].fresh = 1 => Wanted(req[r].row) = Wanted(row)

\* The controller has followed the row.
Synced == running /\ synced /\ ~EnvLocked => current = Wanted(row)

\* No snapshot is later than the last run, and none was taken too early.
Spaced ==
    /\ "clock" \notin disturbed => \A s \in snaps : s <= clock
    /\ disturbed = {} => \A s \in snaps : since # Never /\ s + since <= clock

\* The inductive invariant.
Inv ==
    /\ TypeOK
    /\ Listening /\ Building /\ Process /\ Locked /\ Fresh /\ Synced
    /\ Spaced /\ SnapshotsSpread

-----------------------------------------------------------------------------
(* The requests.                                                           *)

\* The listener a row asks for, and the row that a save reads back.
LEMMA WantedToken ==
    ASSUME NEW r \in Row
    PROVE  /\ Wanted(r) \in Tokens \cup {Off}
           /\ [enabled |-> r.enabled, token |-> Wanted(r)] \in Row
           /\ Wanted([enabled |-> r.enabled, token |-> Wanted(r)]) = Wanted(r)
    BY DEF Wanted, Row

\* A request that has ended.
LEMMA IdleReqType ==
    IdleReq \in ReqState /\ IdleReq.pc = "idle" /\ IdleReq.row \in Row
    BY DEF IdleReq, ReqState, Row

\* A write of the row outdates the other requests and changes nothing else of them.
LEMMA OutdatedReqs ==
    ASSUME TypeOK, NEW r \in Requests
    PROVE  /\ Outdated(r) \in [Requests -> ReqState]
           /\ Outdated(r)[r] = req[r]
           /\ \A o \in Requests \ {r} : /\ Outdated(r)[o].pc = req[o].pc
                                       /\ Outdated(r)[o].row = req[o].row
                                       /\ Outdated(r)[o].fresh = 0
<1>1. \A o \in Requests : req[o] \in ReqState
    BY DEF TypeOK
<1>2. ASSUME NEW o \in Requests \ {r}
      PROVE  /\ [req[o] EXCEPT !.fresh = 0] \in ReqState
             /\ [req[o] EXCEPT !.fresh = 0].pc = req[o].pc
             /\ [req[o] EXCEPT !.fresh = 0].row = req[o].row
             /\ [req[o] EXCEPT !.fresh = 0].fresh = 0
    BY <1>1 DEF ReqState
<1>. QED  BY <1>1, <1>2 DEF Outdated

\* The controller and what surrounds it, without the worker.
ControlInv ==
    /\ row \in Row /\ req \in [Requests -> ReqState]
    /\ running \in BOOLEAN /\ envToken \in EnvTokens
    /\ mu \in Requests \cup {Off} /\ current \in Tokens \cup EnvTokens \cup {Off}
    /\ listening \subseteq Tokens \cup EnvTokens
    /\ bindFailed \in BOOLEAN /\ synced \in BOOLEAN
    /\ Listening /\ Building /\ Process /\ Locked /\ Fresh /\ Synced

\* Only the request r moves.
OnlyReq(r) ==
    /\ req' \in [Requests -> ReqState]
    /\ \A o \in Requests \ {r} : req'[o] = req[o]

\* A save that keeps the token has read the row.
LEMMA BeginKeepKeeps ==
    ASSUME Inv, NEW r \in Requests, BeginKeep(r)
    PROVE  ControlInv'
<1>1. row \in Row /\ req \in [Requests -> ReqState]
    BY DEF Inv, TypeOK
<1>2. OnlyReq(r) /\ req'[r].pc = "write"
    <2>1. PICK e \in 0 .. 1 :
             req' = [req EXCEPT ![r] = [pc |-> "write", row |-> [enabled |-> e, token |-> row.token], fresh |-> 1]]
        BY DEF BeginKeep, Resolved
    <2>2. [pc |-> "write", row |-> [enabled |-> e, token |-> row.token], fresh |-> 1] \in ReqState
        BY <1>1 DEF Row, ReqState
    <2>. QED  BY <1>1, <2>1, <2>2 DEF OnlyReq
<1>3. UNCHANGED <<row, running, envToken, mu, current, listening, bindFailed, synced>> /\ running
    BY DEF BeginKeep
<1>. QED
    BY <1>2, <1>3 DEF Inv, TypeOK, ControlInv, OnlyReq, Listening, Building, Process, Locked, Fresh, Synced, EnvLocked

\* SaveSettings, by a save or by an import.
LEMMA WriteKeeps ==
    ASSUME Inv, NEW r \in Requests, WriteRow(r) \/ ImportRow(r)
    PROVE  ControlInv'
<1>0. TypeOK /\ row \in Row /\ req \in [Requests -> ReqState] /\ req[r] \in ReqState
    BY DEF Inv, TypeOK
<1>1. row' \in Row /\ running /\ synced' = FALSE
    BY <1>0 DEF WriteRow, ImportRow, ReqState, Inv, Process
<1>2. UNCHANGED <<running, envToken, mu, current, listening, bindFailed>>
    BY DEF WriteRow, ImportRow
<1>3. /\ req' \in [Requests -> ReqState] /\ req'[r].pc \in {"idle", "reread"}
      /\ \A o \in Requests \ {r} : req'[o].pc = req[o].pc /\ req'[o].row = req[o].row /\ req'[o].fresh = 0
    <2>1. [IdleReq EXCEPT !.pc = "reread"] \in ReqState /\ [IdleReq EXCEPT !.pc = "reread"].pc = "reread"
        BY DEF IdleReq, ReqState, Row
    <2> DEFINE reqs == Outdated(r)
    <2>2. /\ reqs \in [Requests -> ReqState] /\ reqs[r] = req[r]
          /\ \A o \in Requests \ {r} : reqs[o].pc = req[o].pc /\ reqs[o].row = req[o].row /\ reqs[o].fresh = 0
        BY <1>0, OutdatedReqs
    <2>3. CASE WriteRow(r)
        <3>1. req' = [reqs EXCEPT ![r] = [IdleReq EXCEPT !.pc = "reread"]]
            BY <2>3 DEF WriteRow
        <3> HIDE DEF reqs
        <3>. QED  BY <2>1, <2>2, <3>1
    <2>4. CASE ImportRow(r)
        <3>1. req' = reqs /\ req[r].pc = "idle"
            BY <2>4 DEF ImportRow
        <3> HIDE DEF reqs
        <3>. QED  BY <2>2, <3>1
    <2>. QED  BY <2>3, <2>4
<1>4. Building' /\ Process' /\ Locked'
    BY <1>1, <1>2, <1>3 DEF Inv, Building, Process, Locked, EnvLocked
<1>5. Fresh' /\ Synced'
    BY <1>1, <1>3 DEF Fresh, Synced
<1>. QED
    BY <1>1, <1>2, <1>3, <1>4, <1>5 DEF Inv, TypeOK, ControlInv, Listening

\* ReconcileMCPFromSettings reads the row back, unless the environment rules.
LEMMA RereadKeeps ==
    ASSUME Inv, NEW r \in Requests, Reread(r)
    PROVE  ControlInv'
<1>0. row \in Row /\ req \in [Requests -> ReqState]
    BY DEF Inv, TypeOK
<1>1. UNCHANGED <<row, running, envToken, mu, current, listening, bindFailed, synced>> /\ running
    BY DEF Reread, Inv, Process
<1>2. CASE req' = [req EXCEPT ![r] = IdleReq]
    <2>1. OnlyReq(r) /\ req'[r].pc = "idle"
        BY <1>0, <1>2, IdleReqType DEF OnlyReq
    <2>. QED
        BY <1>1, <2>1 DEF Inv, TypeOK, ControlInv, OnlyReq, Listening, Building, Process, Locked, Fresh, Synced, EnvLocked
<1> DEFINE back == [enabled |-> row.enabled, token |-> Wanted(row)]
<1>3. CASE ~EnvLocked /\ req' = [req EXCEPT ![r] = [pc |-> "reconcile", row |-> back, fresh |-> 1]]
    <2>1. back \in Row /\ Wanted(back) = Wanted(row)
        BY <1>0, WantedToken
    <2> HIDE DEF back
    <2>2. [pc |-> "reconcile", row |-> back, fresh |-> 1] \in ReqState
        BY <2>1 DEF ReqState
    <2>3. OnlyReq(r) /\ req'[r].pc = "reconcile" /\ req'[r].row = back
        BY <1>0, <1>3, <2>2 DEF OnlyReq
    <2>. QED
        BY <1>1, <1>3, <2>1, <2>3
           DEF Inv, TypeOK, ControlInv, OnlyReq, Listening, Building, Process, Locked, Fresh, Synced, EnvLocked
<1>. QED  BY <1>2, <1>3 DEF Reread

\* Reconcile, up to the point where the old listener is gone.
LEMMA ReconcileKeeps ==
    ASSUME Inv, NEW r \in Requests, Reconcile(r)
    PROVE  ControlInv'
<1> DEFINE token == Wanted(req[r].row)
<1>0. /\ row \in Row /\ req \in [Requests -> ReqState] /\ req[r] \in ReqState
      /\ req[r].row \in Row /\ token \in Tokens \cup {Off}
    BY WantedToken DEF Inv, TypeOK, ReqState
<1>1. UNCHANGED <<row, running, envToken>> /\ req[r].pc = "reconcile" /\ mu = Off
    BY DEF Reconcile
<1>2. running /\ ~EnvLocked /\ \A o \in Requests : req[o].pc # "build"
    BY <1>1, ControlAssumption DEF Inv, Process, Locked, Building
<1>3. req[r].fresh = 1 => token = Wanted(row)
    BY <1>1 DEF Inv, Fresh
<1>4. CASE AsDesired(token)
    <2>1. /\ token = current /\ mu' = Off /\ req' = [req EXCEPT ![r] = IdleReq]
          /\ synced' = (req[r].fresh = 1)
          /\ UNCHANGED <<current, listening, bindFailed>>
        BY <1>4 DEF Reconcile, AsDesired
    <2>2. OnlyReq(r) /\ req'[r].pc = "idle"
        BY <1>0, <2>1, IdleReqType DEF OnlyReq
    <2>3. Synced'
        BY <1>1, <1>3, <2>1 DEF Synced
    <2>. QED
        BY <1>1, <1>2, <2>1, <2>2, <2>3
           DEF Inv, TypeOK, ControlInv, OnlyReq, Listening, Building, Process, Locked, Fresh, EnvLocked
<1>5. CASE ~AsDesired(token)
    <2>1. /\ listening' = listening \ {current} /\ current' = Off /\ bindFailed' = FALSE
          /\ mu' = IF token = Off THEN Off ELSE r
          /\ req' = [req EXCEPT ![r] = IF token = Off THEN IdleReq ELSE [req[r] EXCEPT !.pc = "build"]]
          /\ synced' = (token = Off /\ req[r].fresh = 1)
        BY <1>5 DEF Reconcile, ShutDown
    <2>2. listening' = {}
        BY <2>1 DEF Inv, Listening
    <2>3. Synced'
        BY <1>1, <1>3, <2>1 DEF Synced
    <2>4. CASE token = Off
        <3>1. OnlyReq(r) /\ req'[r].pc = "idle" /\ mu' = Off
            BY <1>0, <2>1, <2>4, IdleReqType DEF OnlyReq
        <3>. QED
            BY <1>1, <1>2, <2>1, <2>2, <2>3, <3>1
               DEF Inv, TypeOK, ControlInv, OnlyReq, Listening, Building, Process, Locked, Fresh, EnvLocked
    <2>5. CASE token # Off
        <3>1. /\ [req[r] EXCEPT !.pc = "build"] \in ReqState
              /\ [req[r] EXCEPT !.pc = "build"].pc = "build"
              /\ [req[r] EXCEPT !.pc = "build"].row = req[r].row
              /\ [req[r] EXCEPT !.pc = "build"].fresh = req[r].fresh
            BY <1>0 DEF ReqState
        <3>2. req' = [req EXCEPT ![r] = [req[r] EXCEPT !.pc = "build"]] /\ mu' = r
            BY <2>1, <2>5
        <3>3. OnlyReq(r) /\ req'[r].pc = "build" /\ req'[r].row = req[r].row /\ req'[r].fresh = req[r].fresh
            BY <1>0, <3>1, <3>2 DEF OnlyReq
        <3>4. Building' /\ Fresh'
            BY <1>1, <1>2, <1>3, <2>1, <2>5, <3>2, <3>3 DEF Inv, Building, Fresh, OnlyReq
        <3>. QED
            BY <1>1, <1>2, <2>1, <2>2, <2>3, <3>2, <3>3, <3>4
               DEF Inv, TypeOK, ControlInv, OnlyReq, Listening, Process, Locked, EnvLocked
    <2>. QED  BY <2>4, <2>5
<1>. QED  BY <1>4, <1>5

\* The new listener, or none where the port is taken.
LEMMA BuildKeeps ==
    ASSUME Inv, NEW r \in Requests, Build(r)
    PROVE  ControlInv'
<1> DEFINE token == Wanted(req[r].row)
<1>0. /\ row \in Row /\ req \in [Requests -> ReqState] /\ req[r] \in ReqState
      /\ req[r].row \in Row /\ token \in Tokens \cup {Off}
    BY WantedToken DEF Inv, TypeOK, ReqState
<1>1. /\ UNCHANGED <<row, running, envToken>> /\ req[r].pc = "build"
      /\ current' = token /\ mu' = Off /\ req' = [req EXCEPT ![r] = IdleReq]
      /\ synced' = (req[r].fresh = 1)
      /\ \/ listening' = listening \cup {token} /\ bindFailed' = FALSE
         \/ listening' = listening /\ bindFailed' = TRUE
    BY DEF Build
<1>2. /\ running /\ ~EnvLocked /\ mu = r /\ current = Off /\ token # Off /\ listening = {}
      /\ req[r].fresh = 1 => token = Wanted(row)
    BY <1>1 DEF Inv, Process, Locked, Building, Listening, Fresh
<1>3. OnlyReq(r) /\ req'[r].pc = "idle"
    BY <1>0, <1>1, IdleReqType DEF OnlyReq
<1>4. \A o \in Requests : req'[o].pc # "build"
    BY <1>2, <1>3 DEF Inv, Building, OnlyReq
<1>5. Listening' /\ Synced'
    BY <1>1, <1>2 DEF Listening, Synced
<1> HIDE DEF token
<1>. QED
    BY <1>0, <1>1, <1>2, <1>3, <1>4, <1>5
       DEF Inv, TypeOK, ControlInv, OnlyReq, Building, Process, Locked, Fresh, EnvLocked

\* StartMCPFromConfig, and the end of the process.
LEMMA ProcessKeeps ==
    ASSUME Inv, Boot \/ Stop \/ Crash
    PROVE  ControlInv'
<1>0. row \in Row /\ req \in [Requests -> ReqState] /\ Wanted(row) \in Tokens \cup {Off}
    BY WantedToken DEF Inv, TypeOK
<1>1. CASE Boot
    <2>0. PICK read \in BOOLEAN :
            LET token == IF envToken # Off THEN envToken ELSE IF read THEN Wanted(row) ELSE Off IN
            /\ current' = token
            /\ \/ listening' = {token} \ {Off} /\ bindFailed' = FALSE
               \/ token # Off /\ listening' = {} /\ bindFailed' = TRUE
            /\ synced' = read
        BY <1>1 DEF Boot
    <2> DEFINE token == IF envToken # Off THEN envToken ELSE IF read THEN Wanted(row) ELSE Off
    <2>1. /\ ~running /\ running' = TRUE /\ current' = token /\ synced' = read
          /\ UNCHANGED <<row, req, envToken, mu>>
          /\ \/ listening' = {token} \ {Off} /\ bindFailed' = FALSE
             \/ listening' = {} /\ bindFailed' = TRUE
        BY <1>1, <2>0 DEF Boot
    <2>2. \A r \in Requests : req[r].pc = "idle"
        BY <2>1 DEF Inv, Process
    <2>3. token \in Tokens \cup EnvTokens \cup {Off}
        BY <1>0 DEF Inv, TypeOK
    <2>4. Synced' /\ Locked'
        BY <2>1, <2>2 DEF Synced, Locked, EnvLocked
    <2> HIDE DEF token
    <2>. QED
        BY <2>1, <2>2, <2>3, <2>4 DEF Inv, TypeOK, ControlInv, Listening, Building, Process, Fresh
<1>2. CASE Stop \/ Crash
    <2>1. /\ running' = FALSE /\ req' = [r \in Requests |-> IdleReq]
          /\ mu' = Off /\ current' = Off /\ listening' = {} /\ bindFailed' = FALSE /\ synced' = FALSE
          /\ UNCHANGED <<row, envToken>>
        BY <1>2 DEF Stop, Crash, Down
    <2>2. req' \in [Requests -> ReqState] /\ \A r \in Requests : req'[r].pc = "idle"
        BY <2>1, IdleReqType
    <2>. QED
        BY <2>1, <2>2 DEF Inv, TypeOK, ControlInv, Listening, Building, Process, Locked, Fresh, Synced, EnvLocked
<1>. QED  BY <1>1, <1>2

-----------------------------------------------------------------------------
(* The worker.                                                             *)

\* The worker's part of the invariant.
WorkersInv == WorkersTypeOK /\ Spaced /\ SnapshotsSpread

\* What a run leaves alone, and the pace it notes for its file.
LEMMA WritesSnapshotEffect ==
    ASSUME WorkersInv, WritesSnapshot
    PROVE  /\ snaps \subseteq 0 .. MaxStamp /\ clock \in 0 .. MaxStamp /\ clock \notin snaps
           /\ keep \in 1 .. MaxKeep /\ interval \in 1 .. MaxInterval /\ since \in (0 .. MaxInterval) \cup {Never}
           /\ since # Never => since >= interval
           /\ pace' \in [0 .. MaxStamp -> 0 .. MaxInterval] /\ pace'[clock] = interval
           /\ \A t \in snaps : pace'[t] = pace[t]
           /\ UNCHANGED <<clock, keep, interval>>
<1>1. WorkersTypeOK
    BY DEF WorkersInv
<1>. QED  BY <1>1, WorkersAssumption DEF WorkersTypeOK, WritesSnapshot, Due, Intervals

\* runAutoBackupOnce: the file it has just written is no surplus as long as no
\* name is later than the clock.
LEMMA AutoBackupKeeps ==
    ASSUME WorkersInv, AutoBackup
    PROVE  WorkersInv'
<1>a. WritesSnapshot
    BY DEF AutoBackup
<1>0. /\ snaps \subseteq 0 .. MaxStamp /\ clock \in 0 .. MaxStamp /\ clock \notin snaps
      /\ keep \in 1 .. MaxKeep /\ interval \in 1 .. MaxInterval /\ since \in (0 .. MaxInterval) \cup {Never}
      /\ since # Never => since >= interval
      /\ pace' \in [0 .. MaxStamp -> 0 .. MaxInterval] /\ pace'[clock] = interval
      /\ \A t \in snaps : pace'[t] = pace[t]
      /\ UNCHANGED <<clock, keep, interval>>
    BY <1>a, WritesSnapshotEffect
<1>1. snaps' \subseteq snaps \cup {clock} /\ since' = 0 /\ UNCHANGED disturbed
    BY DEF AutoBackup
<1>2. WorkersTypeOK'
    BY <1>0, <1>1, WorkersAssumption DEF WorkersInv, WorkersTypeOK, Intervals
<1>3. ASSUME "clock" \notin disturbed PROVE clock \in snaps'
    <2>1. {t \in snaps \cup {clock} : t > clock} = {}
        <3>1. \A t \in snaps : t <= clock
            BY <1>3 DEF WorkersInv, Spaced
        <3>2. \A t \in snaps \cup {clock} : ~(t > clock)
            BY <1>0, <3>1
        <3>. QED  BY <3>2
    <2>2. Cardinality({t \in snaps \cup {clock} : t > clock}) = 0
        BY <2>1, FS_EmptySet
    <2>3. clock \notin Surplus(snaps \cup {clock})
        BY <1>0, <2>2 DEF Surplus
    <2>. QED  BY <2>3 DEF AutoBackup
<1>4. Spaced'
    BY <1>0, <1>1, WorkersAssumption DEF WorkersInv, Spaced
<1>5. ASSUME disturbed = {}, NEW s \in snaps', NEW t \in snaps', s < t PROVE t - s >= pace'[t]
    <2>1. CASE s \in snaps /\ t \in snaps
        BY <1>0, <1>5, <2>1 DEF WorkersInv, SnapshotsSpread
    <2>2. CASE s \in snaps /\ t = clock
        <3>1. since # Never /\ s + since <= clock /\ since >= interval
            BY <1>0, <1>5, <2>2 DEF WorkersInv, Spaced
        <3>. QED  BY <1>0, <2>2, <3>1, WorkersAssumption
    <2>3. CASE s = clock
        BY <1>0, <1>1, <1>5, <2>3 DEF WorkersInv, Spaced
    <2>. QED  BY <1>1, <2>1, <2>2, <2>3
<1>6. SnapshotsSpread'
    BY <1>0, <1>1, <1>3, <1>5, WorkersAssumption DEF SnapshotsSpread
<1>. QED  BY <1>2, <1>4, <1>6 DEF WorkersInv

\* A run that fails with its file on disk.
LEMMA AutoBackupFailsKeeps ==
    ASSUME WorkersInv, AutoBackupFails
    PROVE  WorkersInv'
<1>a. WritesSnapshot
    BY DEF AutoBackupFails
<1>0. /\ snaps \subseteq 0 .. MaxStamp /\ clock \in 0 .. MaxStamp
      /\ pace' \in [0 .. MaxStamp -> 0 .. MaxInterval] /\ UNCHANGED <<clock, keep, interval>>
    BY <1>a, WritesSnapshotEffect
<1>1. snaps' = snaps \cup {clock} /\ disturbed' = disturbed \cup {"error"} /\ UNCHANGED since
    BY DEF AutoBackupFails
<1>2. WorkersTypeOK'
    BY <1>0, <1>1 DEF WorkersInv, WorkersTypeOK, Intervals
<1>3. Spaced'
    BY <1>0, <1>1 DEF WorkersInv, Spaced
<1>4. SnapshotsSpread'
    BY <1>0, <1>1 DEF WorkersInv, SnapshotsSpread
<1>. QED  BY <1>2, <1>3, <1>4 DEF WorkersInv

\* Time passes, the clock is set back, the process restarts, settings are saved.
LEMMA TimeKeeps ==
    ASSUME WorkersInv, Sleep \/ ClockSetBack \/ WorkersRestart \/ SettingsSaved \/ UNCHANGED workerVars
    PROVE  WorkersInv'
<1>0. /\ snaps \subseteq 0 .. MaxStamp /\ clock \in 0 .. MaxStamp /\ keep \in 0 .. MaxKeep
      /\ since \in (0 .. MaxInterval) \cup {Never} /\ disturbed \subseteq {"clock", "restart", "error"}
      /\ interval \in Intervals /\ pace \in [0 .. MaxStamp -> 0 .. MaxInterval]
    BY DEF WorkersInv, WorkersTypeOK
<1>1. CASE Sleep
    <2>1. WorkersTypeOK'
        BY <1>0, <1>1, WorkersAssumption DEF Sleep, WorkersTypeOK
    <2>2. Spaced'
        BY <1>0, <1>1, WorkersAssumption DEF Sleep, WorkersInv, Spaced
    <2>3. SnapshotsSpread'
        BY <1>0, <1>1, WorkersAssumption DEF Sleep, WorkersInv, SnapshotsSpread
    <2>. QED  BY <2>1, <2>2, <2>3 DEF WorkersInv
<1>2. CASE ClockSetBack
    BY <1>0, <1>2 DEF ClockSetBack, WorkersInv, WorkersTypeOK, Spaced, SnapshotsSpread
<1>3. CASE WorkersRestart
    <2>1. /\ since' = Never /\ UNCHANGED <<snaps, clock, keep, interval, pace>>
          /\ disturbed' = {} => disturbed = {} /\ snaps = {}
          /\ disturbed' \in {disturbed, disturbed \cup {"restart"}}
        BY <1>3 DEF WorkersRestart
    <2>2. WorkersTypeOK'
        BY <1>0, <2>1 DEF WorkersTypeOK
    <2>3. Spaced'
        BY <1>0, <2>1 DEF WorkersInv, Spaced
    <2>4. SnapshotsSpread'
        BY <1>0, <2>1, WorkersAssumption DEF WorkersInv, SnapshotsSpread
    <2>. QED  BY <2>2, <2>3, <2>4 DEF WorkersInv
<1>4. CASE SettingsSaved
    BY <1>4 DEF SettingsSaved, WorkersInv, WorkersTypeOK, Spaced, SnapshotsSpread
<1>5. CASE UNCHANGED workerVars
    BY <1>5 DEF workerVars, WorkersInv, WorkersTypeOK, Spaced, SnapshotsSpread
<1>. QED  BY <1>1, <1>2, <1>3, <1>4, <1>5

-----------------------------------------------------------------------------
(* The theorems.                                                           *)

\* The inductive invariant holds in every reachable state.
THEOREM InvariantHolds == Spec => []Inv
<1>1. Init => Inv
    <2> SUFFICES ASSUME Init PROVE Inv
        OBVIOUS
    <2>1. row \in Row /\ req \in [Requests -> ReqState] /\ \A r \in Requests : req[r].pc = "idle"
        BY IdleReqType DEF Init, Row
    <2>2. WorkersTypeOK /\ Spaced /\ SnapshotsSpread
        BY WorkersAssumption DEF Init, WorkersInit, WorkersTypeOK, Intervals, Spaced, SnapshotsSpread
    <2>3. TypeOK
        BY <2>1, <2>2 DEF Init, TypeOK
    <2>. QED
        BY <2>1, <2>2, <2>3 DEF Init, Inv, Listening, Building, Process, Locked, Fresh, Synced
<1>2. Inv /\ [Next]_vars => Inv'
    <2> SUFFICES ASSUME Inv, [Next]_vars PROVE Inv'
        OBVIOUS
    <2>0. ControlInv /\ WorkersInv
        BY DEF Inv, TypeOK, ControlInv, WorkersInv
    <2>1. ControlInv' /\ WorkersInv' => Inv'
        BY DEF Inv, TypeOK, ControlInv, WorkersInv
    <2>2. ASSUME NEW r \in Requests, RequestStep(r) PROVE Inv'
        <3>1. ControlInv'
            BY <2>2, BeginKeepKeeps, WriteKeeps, RereadKeeps, ReconcileKeeps, BuildKeeps DEF RequestStep
        <3>2. SettingsSaved \/ UNCHANGED workerVars
            BY <2>2 DEF RequestStep, BeginKeep, WriteRow, Reread, Reconcile, Build, ImportRow
        <3>. QED  BY <2>0, <2>1, <3>1, <3>2, TimeKeeps
    <2>3. CASE Boot \/ Stop \/ Crash
        <3>1. ControlInv'
            BY <2>3, ProcessKeeps
        <3>2. WorkersRestart \/ UNCHANGED workerVars
            BY <2>3 DEF Boot, Stop, Crash, Down
        <3>. QED  BY <2>0, <2>1, <3>1, <3>2, TimeKeeps
    <2>4. CASE Worker \/ UNCHANGED vars
        <3>1. UNCHANGED controlVars
            BY <2>4 DEF Worker, vars
        <3>2. ControlInv'
            BY <2>0, <3>1 DEF controlVars, ControlInv, Listening, Building, Process, Locked, Fresh, Synced, EnvLocked
        <3>3. AutoBackup \/ AutoBackupFails \/ Sleep \/ ClockSetBack \/ UNCHANGED workerVars
            BY <2>4 DEF Worker, vars
        <3>. QED  BY <2>0, <2>1, <3>2, <3>3, AutoBackupKeeps, AutoBackupFailsKeeps, TimeKeeps
    <2>. QED  BY <2>2, <2>3, <2>4 DEF Next
<1>. QED  BY <1>1, <1>2, PTL DEF Spec

\* At most one listener accepts connections, and with SHELLYADMIN_MCP_TOKEN set
\* only the one of that token, however saves, imports and restarts interleave.
THEOREM ListenerIsAlone == Spec => []OneListener
<1>1. Inv => OneListener
    <2> SUFFICES ASSUME Inv PROVE OneListener
        OBVIOUS
    <2>1. listening \subseteq {current}
        BY DEF Inv, Listening
    <2>2. Cardinality(listening) <= 1
        <3>1. IsFiniteSet({current}) /\ Cardinality({current}) = 1
            BY FS_Singleton
        <3>2. Cardinality(listening) <= Cardinality({current})
            BY <2>1, <3>1, FS_Subset
        <3>. QED  BY <3>1, <3>2
    <2>3. envToken # Off => listening \subseteq {envToken}
        BY DEF Inv, Listening, Locked, EnvLocked
    <2>. QED  BY <2>2, <2>3 DEF Inv, OneListener
<1>. QED  BY <1>1, InvariantHolds, PTL

\* After a save that nobody interfered with the listener is the row's.
THEOREM ListenerIsTheRows == Spec => []ListenerFollowsRow
<1>1. Inv => ListenerFollowsRow
    BY DEF Inv, Listening, Synced, ListenerFollowsRow
<1>. QED  BY <1>1, InvariantHolds, PTL

\* The snapshots lie the interval apart that was asked for when each was taken,
\* and the last one is kept, however the settings change in between: unless the
\* clock was set back, a restart forgot the last run or a run failed half way.
THEOREM SnapshotsLieApart == Spec => []SnapshotsSpread
<1>1. Inv => SnapshotsSpread
    BY DEF Inv
<1>. QED  BY <1>1, InvariantHolds, PTL
=============================================================================
