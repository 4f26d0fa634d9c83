-------------------------------- MODULE Jobs --------------------------------
(***************************************************************************)
(* The background jobs of the service: the jobs table, the triggers that   *)
(* check it before they spawn, the job goroutines, the staleness rule, the *)
(* graceful shutdown, crashes, and the recovery at the next boot.          *)
(*                                                                         *)
(* A job has a row in SQLite (internal/db/jobs.go) and, while the process  *)
(* that created it is alive, a goroutine (internal/services/jobs).  Every  *)
(* SQL statement is one atomic step; anything else may interleave between  *)
(* two statements.  What a job does to the devices is left to other        *)
(* modules: here it makes progress, and then it ends.                      *)
(*                                                                         *)
(* The process has two AppServices over the one database: main() makes one *)
(* for the HTTP server and the scheduler, mcp.Build makes another for its  *)
(* listener.  Each has its own spawn mutex, its own context and its own    *)
(* count of goroutines; AppService.Stop is only called on the first.       *)
(***************************************************************************)
EXTENDS Naturals, FiniteSets

CONSTANTS
    Http,       \* request goroutines of the HTTP server
    Mcp,        \* request goroutines of the MCP listener
    Sched,      \* the firmware-check scheduler goroutine: {} or a singleton
    NoOne,      \* nobody holds the spawn mutex
    Triggers,   \* the job types that get triggered
    MaxJobs,    \* bound: rows of the jobs table
    MaxBoots,   \* bound: process starts
    MaxFaults   \* bound: SQL statements that fail (busy, disk full)

ASSUME JobsAssumption ==
    /\ MaxJobs \in Nat /\ MaxBoots \in Nat /\ MaxFaults \in Nat
    /\ NoOne \notin Http \cup Mcp \cup Sched
    /\ Http \cap Mcp = {} /\ Sched \cap (Http \cup Mcp) = {}
    /\ Triggers \subseteq {"scan", "refresh", "firmware_check", "firmware_install"}

\* The service the HTTP server uses, and the one mcp.Build makes.
Services == {"main", "mcp"}

Callers == Http \cup Mcp \cup Sched
JobIds == 1 .. MaxJobs
Types == {"scan", "refresh", "firmware_check", "firmware_install"}
Statuses == {"absent", "running", "completed", "failed", "interrupted"}

VARIABLES
    jobs,      \* the jobs table; "absent" stands for an id not yet inserted
    nextId,    \* AUTOINCREMENT
    worker,    \* the goroutine of each job in this process
    caller,    \* the goroutines that trigger jobs
    owner,     \* the AppService of each job's goroutine; "main" when it has none
    spawnMu,   \* AppService.jobSpawnMu, of each service
    proc,      \* phase of the process, as main() goes through it
    backlog,   \* interrupted jobs RecoverInterruptedJobs has still to visit
    late,      \* some wait of the shutdown ran into the 10 s deadline
    boots,     \* process starts so far
    faults     \* failed SQL statements so far

vars == <<jobs, nextId, worker, owner, caller, spawnMu, proc, backlog, late, boots, faults>>

\* updated_at is kept as what the gates ask of it: is it older than the grace
\* window of the job's type.  The progress counters and results are left out.
Rows == [type : Types, status : Statuses, stale : 0 .. 1]

NoRow == [type |-> "scan", status |-> "absent", stale |-> 0]

\* pc of a triggering goroutine: between two of its SQL statements, or waiting
\* for the refresh it has spawned; "exited" is the scheduler after its loop.
CallerStates == [pc : {"idle", "locking", "interrupt", "create", "waiting",
                       "confirm", "exited"},
                 type : Types, id : 0 .. MaxJobs, spawns : 0 .. 1]

IdleCaller == [pc |-> "idle", type |-> "scan", id |-> 0, spawns |-> 0]

\* restart_policy, as the CreateJob calls set it.
RestartPolicy(type) == IF type = "firmware_install" THEN "manual" ELSE "auto"

\* Only these gates look at the age of a running row.
HasStaleRule(type) == type \in {"scan", "refresh"}

Service(c) == IF c \in Mcp THEN "mcp" ELSE "main"

\* AppService.ctx of the main service is cancelled by Stop; nothing cancels
\* that of the MCP service.
ShuttingDown(s) == s = "main" /\ proc \in {"draining", "exiting"}

Live(id) == worker[id] # "none"

IdsOf(type) == {id \in JobIds : jobs[id].status # "absent" /\ jobs[id].type = type}

\* GetLatestJob: the row of the highest id of that type, 0 when there is none.
LatestJob(type) ==
    IF IdsOf(type) = {} THEN 0
    ELSE CHOOSE id \in IdsOf(type) : \A other \in IdsOf(type) : other <= id

Fault == /\ faults < MaxFaults
         /\ faults' = faults + 1

-----------------------------------------------------------------------------
(* The statements of internal/db/jobs.go, as functions of the table.       *)

\* SET status = ..., updated_at = now.
Stamped(row, status) == [type |-> row.type, status |-> status, stale |-> 0]

\* Faulty variant: the status guard of the UPDATE is missing.
InterruptedUnguarded(table, ids) ==
    [id \in JobIds |-> IF id \in ids /\ table[id].status # "absent"
                       THEN Stamped(table[id], "interrupted")
                       ELSE table[id]]

\* InterruptJob (one id) and MarkRunningJobsInterrupted (all of them).
Interrupted(table, ids) ==
    [id \in JobIds |-> IF id \in ids /\ table[id].status = "running"
                       THEN Stamped(table[id], "interrupted")
                       ELSE table[id]]

\* CompleteJob: no condition on the current status.
Completed(table, id, status) ==
    [table EXCEPT ![id] = Stamped(table[id], status)]

\* UpdateJobProgress, and IncrementJobDone on a running row: updated_at is now.
Touched(id) == [jobs EXCEPT ![id] = Stamped(jobs[id], jobs[id].status)]

\* CreateJob and the spawn of the goroutine.
Insert(type, service) ==
    /\ nextId <= MaxJobs
    /\ jobs' = [jobs EXCEPT ![nextId] = [type |-> type, status |-> "running",
                                         stale |-> 0]]
    /\ worker' = [worker EXCEPT ![nextId] = "run"]
    /\ owner' = [owner EXCEPT ![nextId] = service]
    /\ nextId' = nextId + 1

-----------------------------------------------------------------------------
Init ==
    /\ jobs = [id \in JobIds |-> NoRow]
    /\ nextId = 1
    /\ worker = [id \in JobIds |-> "none"]
    /\ owner = [id \in JobIds |-> "main"]
    /\ caller = [c \in Callers |-> IdleCaller]
    /\ spawnMu = [s \in Services |-> NoOne]
    /\ proc = "down"
    /\ backlog = {}
    /\ late = FALSE
    /\ boots = 0
    /\ faults = 0

-----------------------------------------------------------------------------
(* Triggers: RefreshDevices, StartScan, StartFirmwareCheck,                *)
(* StartFirmwareInstall, and the status read that expires a stale scan.    *)

\* Which goroutine can enter which trigger, and while which listener is up.
\* The scheduler's select may still pick its timer after the shutdown began.
MayTrigger(c, type) ==
    \/ c \in Http /\ proc = "up"
    \/ c \in Mcp /\ proc \in {"up", "closing"}
    \/ c \in Sched /\ type = "firmware_check" /\ proc \in {"up", "closing", "draining"}

\* Bound: a trigger is only let in while the table has room for its row.
RoomForOneMore ==
    LET coming == {c \in Callers : \/ caller[c].pc \in {"locking", "create"}
                                   \/ caller[c].pc = "interrupt" /\ caller[c].spawns = 1}
    IN  nextId + Cardinality(coming) <= MaxJobs

\* RefreshDevices is called and waits for the spawn mutex.
RefreshArrives(c) ==
    /\ "refresh" \in Triggers
    /\ caller[c].pc = "idle"
    /\ MayTrigger(c, "refresh")
    /\ RoomForOneMore
    /\ caller' = [caller EXCEPT ![c] = [pc |-> "locking", type |-> "refresh", id |-> 0, spawns |-> 0]]
    /\ UNCHANGED <<jobs, nextId, worker, owner, spawnMu, proc, backlog, late, boots, faults>>

\* Faulty variant: RefreshDevices releases the mutex right after its check.
HolderAfterGateUnlocked(c, type) == spawnMu

\* RefreshDevices keeps the mutex until it returns; no other trigger locks.
HolderAfterGate(c, type) ==
    IF type = "refresh" THEN [spawnMu EXCEPT ![Service(c)] = c] ELSE spawnMu

\* The check of the latest row.  A running row that is not stale refuses the
\* trigger; a failed read lets it through.
Gate(c, type) ==
    /\ IF type = "refresh"
       THEN caller[c].pc = "locking" /\ spawnMu[Service(c)] = NoOne
       ELSE caller[c].pc = "idle" /\ MayTrigger(c, type) /\ RoomForOneMore
    /\ LET latest == LatestJob(type)
           running == latest # 0 /\ jobs[latest].status = "running"
           expired == running /\ HasStaleRule(type) /\ jobs[latest].stale = 1
           pass(pc, id) ==
              /\ caller' = [caller EXCEPT ![c] =
                              [pc |-> pc, type |-> type, id |-> id, spawns |-> 1]]
              /\ spawnMu' = HolderAfterGate(c, type)
       IN  \/ ~running /\ pass("create", 0) /\ UNCHANGED faults
           \/ expired /\ pass("interrupt", latest) /\ UNCHANGED faults
           \/ running /\ pass("create", 0) /\ Fault
           \/ /\ running /\ ~expired
              /\ caller' = [caller EXCEPT ![c] = IdleCaller]
              /\ UNCHANGED <<spawnMu, faults>>
    /\ UNCHANGED <<jobs, nextId, worker, owner, proc, backlog, late, boots>>

\* Faulty variant: the status read reports a stale scan and leaves it.
ScanStatusReadOnly(c) == FALSE

\* ScanStatus has read a stale running scan and is about to interrupt it.
ScanStatus(c) ==
    /\ c \in Http \cup Mcp
    /\ caller[c].pc = "idle"
    /\ MayTrigger(c, "scan")
    /\ LET latest == LatestJob("scan")
       IN  /\ latest # 0 /\ jobs[latest].status = "running" /\ jobs[latest].stale = 1
           /\ caller' = [caller EXCEPT ![c] = [pc |-> "interrupt", type |-> "scan",
                                               id |-> latest, spawns |-> 0]]
    /\ UNCHANGED <<jobs, nextId, worker, owner, spawnMu, proc, backlog, late, boots, faults>>

\* ConfirmScan has read the latest scan, running or not...
ConfirmScan(c) ==
    /\ c \in Http \cup Mcp
    /\ caller[c].pc = "idle"
    /\ MayTrigger(c, "scan")
    /\ LatestJob("scan") # 0
    /\ caller' = [caller EXCEPT ![c] = [pc |-> "confirm", type |-> "scan",
                                        id |-> LatestJob("scan"), spawns |-> 0]]
    /\ UNCHANGED <<jobs, nextId, worker, owner, spawnMu, proc, backlog, late, boots, faults>>

\* ... and writes what remains to be confirmed into it, after UpsertDevices
\* (module Inventory); it returns or goes on if one of the two fails.
ConfirmWritten(c) ==
    /\ caller[c].pc = "confirm"
    /\ \/ jobs' = Touched(caller[c].id) /\ UNCHANGED faults
       \/ UNCHANGED jobs /\ Fault
    /\ caller' = [caller EXCEPT ![c] = IdleCaller]
    /\ UNCHANGED <<nextId, worker, owner, spawnMu, proc, backlog, late, boots>>

\* InterruptJob on the id read before; a failure is logged and ignored.
InterruptStale(c) ==
    /\ caller[c].pc = "interrupt"
    /\ \/ jobs' = Interrupted(jobs, {caller[c].id}) /\ UNCHANGED faults
       \/ UNCHANGED jobs /\ Fault
    /\ caller' = [caller EXCEPT ![c] = IF caller[c].spawns = 1
                                       THEN [caller[c] EXCEPT !.pc = "create", !.id = 0]
                                       ELSE IdleCaller]
    /\ UNCHANGED <<nextId, worker, owner, spawnMu, proc, backlog, late, boots>>

\* CreateJob and go run...Job(); RefreshDevices then waits on done.
Create(c) ==
    /\ caller[c].pc = "create"
    /\ Insert(caller[c].type, Service(c))
    /\ caller' = [caller EXCEPT ![c] = IF caller[c].type = "refresh"
                                       THEN [caller[c] EXCEPT !.pc = "waiting", !.id = nextId]
                                       ELSE IdleCaller]
    /\ UNCHANGED <<spawnMu, proc, backlog, late, boots, faults>>

\* ListDevices or CreateJob failed: the trigger returns the error.
CreateFails(c) ==
    /\ caller[c].pc = "create"
    /\ Fault
    /\ caller' = [caller EXCEPT ![c] = IdleCaller]
    /\ spawnMu' = IF caller[c].type = "refresh" THEN [spawnMu EXCEPT ![Service(c)] = NoOne]
                                               ELSE spawnMu
    /\ UNCHANGED <<jobs, nextId, worker, owner, proc, backlog, late, boots>>

\* The refresh goroutine has sent on done: RefreshDevices returns.
RefreshReturns(c) ==
    /\ caller[c].pc = "waiting"
    /\ ~Live(caller[c].id)
    /\ caller' = [caller EXCEPT ![c] = IdleCaller]
    /\ spawnMu' = [spawnMu EXCEPT ![Service(c)] = NoOne]
    /\ UNCHANGED <<jobs, nextId, worker, owner, proc, backlog, late, boots, faults>>

SchedulerExits(c) ==
    /\ c \in Sched
    /\ ShuttingDown("main")
    /\ caller[c].pc = "idle"
    /\ caller' = [caller EXCEPT ![c].pc = "exited"]
    /\ UNCHANGED <<jobs, nextId, worker, owner, spawnMu, proc, backlog, late, boots, faults>>

-----------------------------------------------------------------------------
(* Job goroutines.                                                         *)

\* IncrementJobDone, or UpdateJobProgress, after a unit of work.
Progress(id) ==
    /\ worker[id] = "run"
    /\ jobs' = IF jobs[id].type \in {"scan", "refresh"} /\ jobs[id].status # "running"
               THEN jobs ELSE Touched(id)
    /\ UNCHANGED <<nextId, worker, owner, caller, spawnMu, proc, backlog, late, boots, faults>>

\* The goroutine is through with its work and knows how it will end.  A scan
\* looks at the shutdown last; a refresh is cancelled by the client too, and
\* sees the shutdown with a delay; a check looks at it before each device,
\* not after the last; an install never does.
Outcomes(id) ==
    CASE jobs[id].type = "scan" -> IF ShuttingDown(owner[id]) THEN {"interrupt"} ELSE {"complete"}
      [] jobs[id].type = "refresh" -> {"interrupt", "complete"}
      [] jobs[id].type = "firmware_check" ->
            IF ShuttingDown(owner[id]) THEN {"interrupt", "complete"} ELSE {"complete"}
      [] jobs[id].type = "firmware_install" -> {"complete"}

Decide(id) ==
    /\ worker[id] = "run"
    /\ \/ \E out \in Outcomes(id) : worker' = [worker EXCEPT ![id] = out] /\ UNCHANGED faults
       \/ \* ListDevices, GetSettings or UpsertDevices failed
          jobs[id].type = "refresh" /\ worker' = [worker EXCEPT ![id] = "fail"] /\ Fault
       \/ \* GetJob failed: the scan returns and its row stays "running"
          /\ jobs[id].type = "scan" /\ ~ShuttingDown(owner[id])
          /\ worker' = [worker EXCEPT ![id] = "none"] /\ Fault
    /\ UNCHANGED <<jobs, nextId, owner, caller, spawnMu, proc, backlog, late, boots>>

\* Faulty variant: the goroutine of an aborted job just returns.
WrittenOnlyIfComplete(id) ==
    CASE worker[id] = "complete" -> Completed(jobs, id, "completed")
      [] worker[id] = "fail" -> Completed(jobs, id, "failed")
      [] worker[id] = "interrupt" -> jobs

\* The terminal write: CompleteJob, or InterruptJob.
Written(id) ==
    CASE worker[id] = "complete" -> Completed(jobs, id, "completed")
      [] worker[id] = "fail" -> Completed(jobs, id, "failed")
      [] worker[id] = "interrupt" -> Interrupted(jobs, {id})

\* The goroutine writes and exits; a failed write is logged and ignored.
Finish(id) ==
    /\ worker[id] \in {"complete", "fail", "interrupt"}
    /\ \/ jobs' = Written(id) /\ UNCHANGED faults
       \/ UNCHANGED jobs /\ Fault
    /\ worker' = [worker EXCEPT ![id] = "none"]
    /\ owner' = [owner EXCEPT ![id] = "main"]
    /\ UNCHANGED <<nextId, caller, spawnMu, proc, backlog, late, boots>>

\* Time passes without a write to a running row.
Age(id) ==
    /\ jobs[id].status = "running"
    /\ jobs[id].stale = 0
    /\ jobs' = [jobs EXCEPT ![id].stale = 1]
    /\ UNCHANGED <<nextId, worker, owner, caller, spawnMu, proc, backlog, late, boots, faults>>

-----------------------------------------------------------------------------
(* The life of the process: main() and AppService.Stop.                    *)

\* main() up to ListInterruptedRestartableJobs; errors of both are ignored.
Boot ==
    /\ proc = "down"
    /\ boots < MaxBoots
    /\ boots' = boots + 1
    /\ \/ jobs' = Interrupted(jobs, JobIds) /\ UNCHANGED faults
       \/ UNCHANGED jobs /\ Fault
    /\ \/ backlog' = {id \in JobIds : /\ jobs'[id].status = "interrupted"
                                      /\ RestartPolicy(jobs'[id].type) = "auto"}
       \/ backlog' = {} /\ faults' # faults
    /\ proc' = "recovering"
    /\ late' = FALSE
    /\ UNCHANGED <<nextId, worker, owner, caller, spawnMu>>

\* One round of the loop of RecoverInterruptedJobs, in id order: a scan or a
\* firmware check gets a new row and a goroutine, unless a statement fails; a
\* refresh is skipped.  The old row stays "interrupted".
RecoverOne(id) ==
    /\ proc = "recovering"
    /\ id \in backlog
    /\ \A other \in backlog : id <= other
    /\ \/ /\ jobs[id].type \in {"scan", "firmware_check"}
          /\ \/ Insert(jobs[id].type, "main") /\ UNCHANGED faults
             \/ UNCHANGED <<jobs, nextId, worker, owner>> /\ Fault
       \/ /\ jobs[id].type = "refresh"
          /\ UNCHANGED <<jobs, nextId, worker, owner, faults>>
    /\ backlog' = backlog \ {id}
    /\ UNCHANGED <<caller, spawnMu, proc, late, boots>>

\* The workers, the MCP listener and the HTTP server are started.
Serve ==
    /\ proc = "recovering"
    /\ backlog = {}
    /\ proc' = "up"
    /\ UNCHANGED <<jobs, nextId, worker, owner, caller, spawnMu, backlog, late, boots, faults>>

\* SIGTERM: server.Shutdown stops accepting and waits for the requests.
Signal ==
    /\ proc = "up"
    /\ proc' = "closing"
    /\ UNCHANGED <<jobs, nextId, worker, owner, caller, spawnMu, backlog, late, boots, faults>>

\* All HTTP requests are done.  Stop closes the MCP listener, bounded by the
\* same deadline, and cancels the context of the service.
BeginStop ==
    /\ proc = "closing"
    /\ \A c \in Http : caller[c].pc = "idle"
    /\ late' = \E c \in Mcp : caller[c].pc # "idle"
    /\ proc' = "draining"
    /\ UNCHANGED <<jobs, nextId, worker, owner, caller, spawnMu, backlog, boots, faults>>

\* Faulty variant: the scheduler goroutine is not counted in bgJobs.
DrainedJobsOnly == \A id \in JobIds : Live(id) => owner[id] # "main"

\* bgJobs.Wait of the main service: its job goroutines and the scheduler.
Drained == /\ \A id \in JobIds : Live(id) => owner[id] # "main"
           /\ \A c \in Sched : caller[c].pc = "exited"

\* Stop has drained, or given up waiting; it marks what is left.
FinishStop ==
    /\ proc = "draining"
    /\ late' = (late \/ ~Drained)
    /\ \/ jobs' = Interrupted(jobs, JobIds) /\ UNCHANGED faults
       \/ UNCHANGED jobs /\ Fault
    /\ proc' = "exiting"
    /\ UNCHANGED <<nextId, worker, owner, caller, spawnMu, backlog, boots>>

\* The end of the process, at any moment: main() returns, the panic after
\* server.Shutdown missed its deadline, or a crash.  Only the table survives.
Die ==
    /\ proc # "down"
    /\ proc' = "down"
    /\ worker' = [id \in JobIds |-> "none"]
    /\ caller' = [c \in Callers |-> IdleCaller]
    /\ spawnMu' = [s \in Services |-> NoOne]
    /\ owner' = [id \in JobIds |-> "main"]
    /\ backlog' = {}
    /\ late' = FALSE
    /\ UNCHANGED <<jobs, nextId, boots, faults>>

-----------------------------------------------------------------------------
CallerStep(c) ==
    \/ Gate(c, "refresh")
    \/ InterruptStale(c)
    \/ ConfirmWritten(c)
    \/ Create(c)
    \/ CreateFails(c)
    \/ RefreshReturns(c)
    \/ SchedulerExits(c)

WorkerStep(id) == Decide(id) \/ Finish(id)

ProcessStep == Boot \/ Serve \/ Signal \/ BeginStop \/ FinishStop \/ Die

Next ==
    \/ \E c \in Callers : \/ \E type \in Triggers : Gate(c, type)
                          \/ RefreshArrives(c)
                          \/ ScanStatus(c)
                          \/ ConfirmScan(c)
                          \/ CallerStep(c)
    \/ \E id \in JobIds : Progress(id) \/ WorkerStep(id) \/ Age(id) \/ RecoverOne(id)
    \/ ProcessStep

Spec == Init /\ [][Next]_vars

\* Goroutines that are runnable run, time passes, and the browser polls the
\* status of a running scan.  Nothing bounds the time a job takes: its
\* goroutine may hang.  Nothing forces a trigger, a signal, a crash or a
\* restart.
PollSpec ==
    /\ Spec
    /\ \A c \in Callers : WF_vars(CallerStep(c))
    /\ \A id \in JobIds : WF_vars(Age(id)) /\ WF_vars(RecoverOne(id))
    /\ WF_vars(\E c \in Http : ScanStatus(c))

-----------------------------------------------------------------------------
TypeOK ==
    /\ jobs \in [JobIds -> Rows]
    /\ nextId \in 1 .. MaxJobs + 1
    /\ worker \in [JobIds -> {"none", "run", "complete", "fail", "interrupt"}]
    /\ caller \in [Callers -> CallerStates]
    /\ owner \in [JobIds -> Services]
    /\ spawnMu \in [Services -> Callers \cup {NoOne}]
    /\ proc \in {"down", "recovering", "up", "closing", "draining", "exiting"}
    /\ backlog \subseteq JobIds
    /\ late \in BOOLEAN
    /\ boots \in 0 .. MaxBoots
    /\ faults \in 0 .. MaxFaults

\* RefreshDevices holds the spawn mutex across its whole job, so at any time
\* at most one refresh goroutine of each service is alive, whatever statements
\* fail and whatever rows earlier processes left behind; and all is well typed.
OneLiveRefresh ==
    /\ TypeOK
    /\ \A i, j \in JobIds :
        /\ Live(i) /\ jobs[i].type = "refresh"
        /\ Live(j) /\ jobs[j].type = "refresh"
        /\ owner[i] = owner[j]
        => i = j

\* Unless an SQL statement has failed, a "running" row belongs to a live
\* goroutine of this process: nobody waits for a job that is gone.
RunningRowHasWorker ==
    proc # "down" /\ faults = 0 =>
        \A id \in JobIds : jobs[id].status = "running" => Live(id)

\* When every wait of the shutdown was in time and no statement failed, the
\* process leaves no "running" row behind, and no goroutine of the service that
\* was stopped.
CleanStop ==
    proc = "exiting" /\ ~late /\ faults = 0 =>
        \A id \in JobIds : /\ jobs[id].status # "running"
                           /\ Live(id) => owner[id] # "main"

\* A completed or failed row keeps its status for ever: no stale gate, no
\* zombie goroutine, no shutdown and no restart rewrites it.
TerminalIsFinal ==
    [][\A id \in JobIds :
          jobs[id].status \in {"completed", "failed"} => jobs'[id].status = jobs[id].status]_vars

\* A hung scan does not hold the scan gate for ever: once no progress is made
\* and no scan confirmed (which makes even a running row look alive), and while
\* the service is up and its status polled, the latest scan row stops being
\* "running".
ScanGateReopens ==
    <>[][~ \/ \E id \in JobIds : Progress(id)
           \/ \E c \in Callers : ConfirmWritten(c)]_vars
    => \A id \in JobIds :
          (LatestJob("scan") = id /\ jobs[id].status = "running")
              ~> (LatestJob("scan") # id \/ jobs[id].status # "running" \/ proc # "up")
=============================================================================
