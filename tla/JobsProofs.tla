----------------------------- MODULE JobsProofs ------------------------------
(***************************************************************************)
(* Proofs about Jobs, for every number of callers, rows, boots and failed  *)
(* statements: one refresh of a service at a time, no "running" row        *)
(* without a goroutine, a clean stop, and terminal rows that stay.  The    *)
(* last section is about the pool inside a refresh job, RefreshPool, for   *)
(* every fleet and every concurrency setting.                              *)
(***************************************************************************)
EXTENDS Jobs, RefreshPool, WellFoundedInduction, FiniteSetTheorems, TLAPS

\* Ids that AUTOINCREMENT has not given out have no row and no goroutine.
FreshIds == \A id \in JobIds : id >= nextId => jobs[id].status = "absent" /\ worker[id] = "none"

\* Nobody but its own goroutine completes a row.
LiveRows == \A id \in JobIds : Live(id) => jobs[id].status \in {"running", "interrupted"}

\* A refresh trigger past its gate holds the spawn mutex of its service.
Holders ==
    \A c \in Callers :
        caller[c].type = "refresh" /\ caller[c].pc \in {"interrupt", "create", "waiting"}
            => spawnMu[Service(c)] = c

\* Only RefreshDevices waits for its job.
Waiters == \A c \in Callers : caller[c].pc = "waiting" => caller[c].type = "refresh"

\* RefreshDevices waits for the refresh it has spawned.
Waited ==
    \A id \in JobIds :
        Live(id) /\ jobs[id].type = "refresh" =>
            \E c \in Callers : /\ caller[c].pc = "waiting" /\ caller[c].type = "refresh"
                               /\ caller[c].id = id /\ Service(c) = owner[id]

\* Once the service is being stopped no request is left that could spawn, as
\* far as the waits of the shutdown were in time.
Stopping ==
    /\ proc \in {"draining", "exiting"} =>
         /\ \A c \in Http : caller[c].pc = "idle"
         /\ ~late => \A c \in Mcp : caller[c].pc = "idle"
    /\ proc = "exiting" /\ ~late => \A c \in Sched : caller[c].pc = "exited"

\* The inductive invariant.
Inv ==
    /\ TypeOK /\ FreshIds /\ LiveRows
    /\ Holders /\ Waiters /\ Waited
    /\ RunningRowHasWorker /\ Stopping /\ CleanStop

-----------------------------------------------------------------------------
(* The latest row.                                                         *)

\* A set of numbers that is not empty has a least element.
LEMMA LeastExists ==
    ASSUME NEW S \in SUBSET Nat, S # {}
    PROVE  \E m \in S : \A k \in S : m <= k
<1>1. PICK m \in S : \A k \in S : <<k, m>> \notin OpToRel(<, Nat)
    BY NatLessThanWellFounded, WFMin
<1>2. \A k \in S : ~(k < m)
    BY <1>1 DEF OpToRel
<1>. QED  BY <1>2

\* GetLatestJob finds a row of the type, and none with a higher id, or 0.
LEMMA LatestIsLast ==
    ASSUME NEW type
    PROVE  /\ LatestJob(type) \in 0 .. MaxJobs
           /\ LatestJob(type) # 0 => LatestJob(type) \in IdsOf(type)
<1>1. CASE IdsOf(type) = {}
    BY <1>1, JobsAssumption DEF LatestJob
<1>2. CASE IdsOf(type) # {}
    <2> DEFINE Gaps == {MaxJobs - id : id \in IdsOf(type)}
    <2>1. IdsOf(type) \subseteq 1 .. MaxJobs
        BY DEF IdsOf, JobIds
    <2>2. Gaps \in SUBSET Nat /\ Gaps # {}
        <3>1. \A id \in IdsOf(type) : MaxJobs - id \in Nat
            BY <2>1, JobsAssumption
        <3>. QED  BY <3>1, <1>2
    <2>3. PICK gap \in Gaps : \A other \in Gaps : gap <= other
        BY <2>2, LeastExists
    <2>4. PICK last \in IdsOf(type) : gap = MaxJobs - last
        OBVIOUS
    <2>5. \A id \in IdsOf(type) : gap <= MaxJobs - id
        BY <2>3
    <2>6. \A id \in IdsOf(type) : id <= last
        BY <2>1, <2>4, <2>5, JobsAssumption
    <2>7. LatestJob(type) = CHOOSE id \in IdsOf(type) : \A other \in IdsOf(type) : other <= id
        BY <1>2 DEF LatestJob
    <2>8. LatestJob(type) \in IdsOf(type)
        BY <2>6, <2>7
    <2>. QED  BY <2>1, <2>8, JobsAssumption
<1>. QED  BY <1>1, <1>2

-----------------------------------------------------------------------------
(* The statements on the table.                                            *)

\* The UPDATE of one row.
LEMMA StampedRow ==
    ASSUME NEW row \in Rows, NEW status \in Statuses
    PROVE  /\ Stamped(row, status) \in Rows
           /\ Stamped(row, status).type = row.type
           /\ Stamped(row, status).status = status
    BY DEF Rows, Stamped

\* InterruptJob and MarkRunningJobsInterrupted change running rows only.
LEMMA InterruptedRows ==
    ASSUME TypeOK, NEW ids
    PROVE  /\ Interrupted(jobs, ids) \in [JobIds -> Rows]
           /\ \A id \in JobIds :
                /\ Interrupted(jobs, ids)[id].type = jobs[id].type
                /\ Interrupted(jobs, ids)[id].status =
                      IF id \in ids /\ jobs[id].status = "running" THEN "interrupted" ELSE jobs[id].status
<1>1. \A id \in JobIds : jobs[id] \in Rows
    BY DEF TypeOK
<1>2. ASSUME NEW id \in JobIds
      PROVE  /\ Interrupted(jobs, ids)[id] \in Rows
             /\ Interrupted(jobs, ids)[id].type = jobs[id].type
             /\ Interrupted(jobs, ids)[id].status =
                   IF id \in ids /\ jobs[id].status = "running" THEN "interrupted" ELSE jobs[id].status
    <2>1. CASE id \in ids /\ jobs[id].status = "running"
        <3>1. Interrupted(jobs, ids)[id] = Stamped(jobs[id], "interrupted")
            BY <2>1 DEF Interrupted
        <3>. QED  BY <2>1, <3>1, <1>1, StampedRow DEF Statuses
    <2>2. CASE ~(id \in ids /\ jobs[id].status = "running")
        <3>1. Interrupted(jobs, ids)[id] = jobs[id]
            BY <2>2 DEF Interrupted
        <3>. QED  BY <2>2, <3>1, <1>1
    <2>. QED  BY <2>1, <2>2
<1>. QED  BY <1>2 DEF Interrupted

\* CompleteJob gives its row the status, whatever it was.
LEMMA CompletedRows ==
    ASSUME TypeOK, NEW id \in JobIds, NEW status \in {"completed", "failed"}
    PROVE  /\ Completed(jobs, id, status) \in [JobIds -> Rows]
           /\ Completed(jobs, id, status)[id].type = jobs[id].type
           /\ Completed(jobs, id, status)[id].status = status
           /\ \A other \in JobIds \ {id} : Completed(jobs, id, status)[other] = jobs[other]
<1>1. jobs \in [JobIds -> Rows] /\ jobs[id] \in Rows
    BY DEF TypeOK
<1>. QED  BY <1>1, StampedRow DEF Completed, Statuses

\* A write of progress changes no status.
LEMMA TouchedRows ==
    ASSUME TypeOK, NEW id
    PROVE  /\ Touched(id) \in [JobIds -> Rows]
           /\ \A other \in JobIds : /\ Touched(id)[other].type = jobs[other].type
                                    /\ Touched(id)[other].status = jobs[other].status
<1>1. jobs \in [JobIds -> Rows]
    BY DEF TypeOK
<1>2. \A other \in JobIds : jobs[other].status \in Statuses
    BY <1>1 DEF Rows
<1>3. CASE id \in JobIds
    <2>1. jobs[id] \in Rows /\ jobs[id].status \in Statuses
        BY <1>1, <1>2, <1>3
    <2>. QED  BY <1>1, <1>3, <2>1, StampedRow DEF Touched
<1>4. CASE id \notin JobIds
    BY <1>1, <1>4 DEF Touched
<1>. QED  BY <1>3, <1>4

\* CreateJob writes the row of the next id, and its goroutine starts.
LEMMA InsertedRow ==
    ASSUME TypeOK, NEW type \in Types, NEW service \in Services, Insert(type, service)
    PROVE  /\ nextId \in JobIds /\ nextId' = nextId + 1 /\ nextId' \in 1 .. MaxJobs + 1
           /\ jobs' \in [JobIds -> Rows]
           /\ jobs'[nextId].type = type /\ jobs'[nextId].status = "running"
           /\ worker' = [worker EXCEPT ![nextId] = "run"]
           /\ owner' = [owner EXCEPT ![nextId] = service]
           /\ \A other \in JobIds \ {nextId} : jobs'[other] = jobs[other]
    BY JobsAssumption DEF TypeOK, Insert, JobIds, Rows, Statuses

-----------------------------------------------------------------------------
(* The callers.                                                            *)

\* Only the goroutine c moves.
OnlyCaller(c) ==
    /\ caller' \in [Callers -> CallerStates]
    /\ \A d \in Callers \ {c} : caller'[d] = caller[d]

\* A failed statement is counted.
LEMMA FaultCounts ==
    ASSUME TypeOK, Fault \/ UNCHANGED faults
    PROVE  faults' \in 0 .. MaxFaults /\ (faults' = 0 => faults = 0) /\ (Fault => faults' # 0)
    BY JobsAssumption DEF TypeOK, Fault

\* A goroutine that is back from its request.
LEMMA IdleCallerType ==
    IdleCaller \in CallerStates /\ IdleCaller.pc = "idle" /\ IdleCaller.type = "scan"
    BY JobsAssumption DEF IdleCaller, CallerStates, Types

\* The mutex of the caller's own service is taken or given back.
LEMMA MutexType ==
    ASSUME TypeOK, NEW c \in Callers, NEW holder \in Callers \cup {NoOne}
    PROVE  /\ Service(c) \in Services
           /\ [spawnMu EXCEPT ![Service(c)] = holder] \in [Services -> Callers \cup {NoOne}]
    BY DEF TypeOK, Service, Services

\* The gate of a trigger: it refuses, or the caller goes on to interrupt the
\* stale row or to create one, with the mutex if it is a refresh.
LEMMA GateMoves ==
    ASSUME TypeOK, NEW c \in Callers, NEW type \in Types, Gate(c, type)
    PROVE  /\ UNCHANGED <<jobs, nextId, worker, owner, proc, backlog, late, boots>>
           /\ faults' \in 0 .. MaxFaults /\ (faults' = 0 => faults = 0)
           /\ OnlyCaller(c)
           /\ caller[c].pc \in {"idle", "locking"}
           /\ caller[c].pc = "idle" => MayTrigger(c, type)
           /\ type = "refresh" => spawnMu[Service(c)] = NoOne
           /\ \/ caller'[c] = IdleCaller /\ spawnMu' = spawnMu
              \/ /\ caller'[c].pc \in {"interrupt", "create"} /\ caller'[c].type = type
                 /\ spawnMu' = HolderAfterGate(c, type)
<1> DEFINE latest == LatestJob(type)
           passed(at, id) == [pc |-> at, type |-> type, id |-> id, spawns |-> 1]
<1>1. latest \in 0 .. MaxJobs
    BY LatestIsLast
<1>2. /\ UNCHANGED <<jobs, nextId, worker, owner, proc, backlog, late, boots>>
      /\ caller[c].pc \in {"idle", "locking"}
      /\ caller[c].pc = "idle" => MayTrigger(c, type)
      /\ type = "refresh" => spawnMu[Service(c)] = NoOne
    BY DEF Gate
<1>3. Fault \/ UNCHANGED faults
    BY DEF Gate
<1>4. \/ caller' = [caller EXCEPT ![c] = IdleCaller] /\ spawnMu' = spawnMu
      \/ /\ \E at \in {"interrupt", "create"}, id \in {0, latest} : caller' = [caller EXCEPT ![c] = passed(at, id)]
         /\ spawnMu' = HolderAfterGate(c, type)
    BY DEF Gate
<1>5. \A at \in {"interrupt", "create"}, id \in {0, latest} : passed(at, id) \in CallerStates
    BY <1>1, JobsAssumption DEF CallerStates
<1>6. caller \in [Callers -> CallerStates]
    BY DEF TypeOK
<1>7. OnlyCaller(c) /\ (\/ caller'[c] = IdleCaller /\ spawnMu' = spawnMu
                        \/ /\ caller'[c].pc \in {"interrupt", "create"} /\ caller'[c].type = type
                           /\ spawnMu' = HolderAfterGate(c, type))
    <2>1. CASE caller' = [caller EXCEPT ![c] = IdleCaller] /\ spawnMu' = spawnMu
        BY <2>1, <1>6, IdleCallerType DEF OnlyCaller
    <2>2. ASSUME NEW at \in {"interrupt", "create"}, NEW id \in {0, latest},
                 caller' = [caller EXCEPT ![c] = passed(at, id)], spawnMu' = HolderAfterGate(c, type)
          PROVE  OnlyCaller(c) /\ caller'[c].pc \in {"interrupt", "create"} /\ caller'[c].type = type
        BY <2>2, <1>5, <1>6 DEF OnlyCaller
    <2>. QED  BY <1>4, <2>1, <2>2
<1>. QED  BY <1>2, <1>3, <1>7, FaultCounts

\* A step leaves the goroutines alone, inserts no row, and at most interrupts
\* running ones.
Spawnless ==
    /\ UNCHANGED <<nextId, worker, owner, proc, backlog, late, boots>>
    /\ faults' \in 0 .. MaxFaults /\ (faults' = 0 => faults = 0)
    /\ jobs' \in [JobIds -> Rows]
    /\ \A id \in JobIds :
         /\ jobs'[id].type = jobs[id].type
         /\ jobs'[id].status = jobs[id].status \/ (jobs[id].status = "running" /\ jobs'[id].status = "interrupted")

\* The statements a refresh executes with the mutex held.
Critical == {"interrupt", "create", "waiting"}

\* A caller is inside a refresh only if it was before.
StaysCritical(c) ==
    caller'[c].type = "refresh" /\ caller'[c].pc \in Critical =>
        caller[c].type = "refresh" /\ caller[c].pc \in Critical

\* The statements of a trigger other than its gate and its insert.
OtherCallerStep(c) ==
    \/ RefreshArrives(c) \/ ScanStatus(c) \/ ConfirmScan(c) \/ ConfirmWritten(c)
    \/ InterruptStale(c) \/ SchedulerExits(c)

\* They spawn nothing, never enter a refresh, do not touch the mutex, and no
\* caller leaves the idle state but by a trigger that may be entered.
LEMMA OtherCallerMoves ==
    ASSUME TypeOK, NEW c \in Callers, OtherCallerStep(c)
    PROVE  /\ Spawnless /\ OnlyCaller(c) /\ StaysCritical(c) /\ spawnMu' = spawnMu
           /\ caller[c].pc # "waiting" /\ caller'[c].pc # "waiting"
           /\ caller[c].pc = "idle" => (\E type \in Types \ {"firmware_check"} : MayTrigger(c, type))
                                         \/ (c \in Sched /\ caller'[c].pc = "exited")
           /\ caller[c].pc # "exited"
<1>0. /\ caller \in [Callers -> CallerStates] /\ jobs \in [JobIds -> Rows]
      /\ faults \in 0 .. MaxFaults /\ caller[c] \in CallerStates
    BY DEF TypeOK
<1>1. CASE RefreshArrives(c)
    <2>1. [pc |-> "locking", type |-> "refresh", id |-> 0, spawns |-> 0] \in CallerStates
        BY JobsAssumption DEF CallerStates, Types
    <2>. QED
        BY <1>0, <1>1, <2>1
           DEF RefreshArrives, Spawnless, OnlyCaller, StaysCritical, Critical, Types
<1>2. CASE ScanStatus(c)
    <2>1. [pc |-> "interrupt", type |-> "scan", id |-> LatestJob("scan"), spawns |-> 0] \in CallerStates
        BY LatestIsLast DEF CallerStates, Types
    <2>. QED
        BY <1>0, <1>2, <2>1 DEF ScanStatus, Spawnless, OnlyCaller, StaysCritical, Critical, Types
<1>3. CASE ConfirmScan(c)
    <2>1. [pc |-> "confirm", type |-> "scan", id |-> LatestJob("scan"), spawns |-> 0] \in CallerStates
        BY LatestIsLast DEF CallerStates, Types
    <2>. QED
        BY <1>0, <1>3, <2>1 DEF ConfirmScan, Spawnless, OnlyCaller, StaysCritical, Critical, Types
<1>4. CASE ConfirmWritten(c)
    <2>1. Fault \/ UNCHANGED faults
        BY <1>4 DEF ConfirmWritten
    <2>2. jobs' \in {jobs, Touched(caller[c].id)}
        BY <1>4 DEF ConfirmWritten
    <2>3. Spawnless
        BY <1>0, <1>4, <2>1, <2>2, TouchedRows, FaultCounts DEF ConfirmWritten, Spawnless
    <2>. QED
        BY <1>0, <1>4, <2>3, IdleCallerType DEF ConfirmWritten, OnlyCaller, StaysCritical, Critical
<1>5. CASE InterruptStale(c)
    <2>1. Fault \/ UNCHANGED faults
        BY <1>5 DEF InterruptStale
    <2>2. jobs' \in {jobs, Interrupted(jobs, {caller[c].id})}
        BY <1>5 DEF InterruptStale
    <2>3. Spawnless
        BY <1>0, <1>5, <2>1, <2>2, InterruptedRows, FaultCounts DEF InterruptStale, Spawnless
    <2>4. PICK new : /\ caller' = [caller EXCEPT ![c] = new]
                     /\ new = IdleCaller \/ new = [caller[c] EXCEPT !.pc = "create", !.id = 0]
        BY <1>5 DEF InterruptStale
    <2>5. new \in CallerStates /\ new.pc \in {"idle", "create"} /\ new.type \in {"scan", caller[c].type}
        <3>1. CASE new = IdleCaller
            BY <3>1, IdleCallerType
        <3>2. CASE new = [caller[c] EXCEPT !.pc = "create", !.id = 0]
            <4>0. 0 \in 0 .. MaxJobs
                BY JobsAssumption
            <4>1. [caller[c] EXCEPT !.pc = "create", !.id = 0] \in CallerStates
                BY <1>0, <4>0 DEF CallerStates
            <4>2. /\ [caller[c] EXCEPT !.pc = "create", !.id = 0].pc = "create"
                  /\ [caller[c] EXCEPT !.pc = "create", !.id = 0].type = caller[c].type
                BY <1>0 DEF CallerStates
            <4>. QED  BY <3>2, <4>1, <4>2
        <3>. QED  BY <2>4, <3>1, <3>2
    <2>. QED
        BY <1>0, <1>5, <2>3, <2>4, <2>5 DEF InterruptStale, OnlyCaller, StaysCritical, Critical
<1>6. CASE SchedulerExits(c)
    <2>1. [caller[c] EXCEPT !.pc = "exited"] \in CallerStates
        BY <1>0 DEF CallerStates
    <2>. QED
        BY <1>0, <1>6, <2>1 DEF SchedulerExits, Spawnless, OnlyCaller, StaysCritical, Critical, CallerStates
<1>. QED
    BY <1>1, <1>2, <1>3, <1>4, <1>5, <1>6 DEF OtherCallerStep

\* The insert: a refresh trigger goes on to wait for the goroutine it starts.
LEMMA CreateMoves ==
    ASSUME TypeOK, NEW c \in Callers, Create(c)
    PROVE  /\ Insert(caller[c].type, Service(c)) /\ caller[c].type \in Types /\ Service(c) \in Services
           /\ OnlyCaller(c) /\ caller[c].pc = "create"
           /\ UNCHANGED <<spawnMu, proc, backlog, late, boots, faults>>
           /\ caller[c].type # "refresh" => caller'[c] = IdleCaller
           /\ caller[c].type = "refresh" =>
                 caller'[c].pc = "waiting" /\ caller'[c].type = "refresh" /\ caller'[c].id = nextId
<1>0. caller \in [Callers -> CallerStates] /\ caller[c] \in CallerStates /\ caller[c].type \in Types
    BY DEF TypeOK, CallerStates
<1>1. Service(c) \in Services
    BY DEF Service, Services
<1>2. nextId \in 0 .. MaxJobs
    BY JobsAssumption DEF Create, Insert, TypeOK
<1>3. [caller[c] EXCEPT !.pc = "waiting", !.id = nextId] \in CallerStates
    BY <1>0, <1>2 DEF CallerStates
<1>4. /\ [caller[c] EXCEPT !.pc = "waiting", !.id = nextId].pc = "waiting"
      /\ [caller[c] EXCEPT !.pc = "waiting", !.id = nextId].type = caller[c].type
      /\ [caller[c] EXCEPT !.pc = "waiting", !.id = nextId].id = nextId
    BY <1>0 DEF CallerStates
<1>5. CASE caller[c].type = "refresh"
    BY <1>0, <1>1, <1>3, <1>4, <1>5 DEF Create, OnlyCaller
<1>6. CASE caller[c].type # "refresh"
    BY <1>0, <1>1, <1>6, IdleCallerType DEF Create, OnlyCaller
<1>. QED  BY <1>5, <1>6

\* A refresh that fails to start, or is over, gives the mutex back.
LEMMA ReturnMoves ==
    ASSUME TypeOK, NEW c \in Callers, CreateFails(c) \/ RefreshReturns(c)
    PROVE  /\ UNCHANGED <<jobs, nextId, worker, owner, proc, backlog, late, boots>>
           /\ faults' \in 0 .. MaxFaults /\ (faults' = 0 => faults = 0)
           /\ OnlyCaller(c) /\ caller'[c] = IdleCaller
           /\ spawnMu' \in [Services -> Callers \cup {NoOne}]
           /\ spawnMu' = spawnMu \/ spawnMu' = [spawnMu EXCEPT ![Service(c)] = NoOne]
           /\ \/ caller[c].pc = "create" /\ (caller[c].type # "refresh" => spawnMu' = spawnMu)
              \/ caller[c].pc = "waiting" /\ ~Live(caller[c].id)
<1>0. caller \in [Callers -> CallerStates] /\ spawnMu \in [Services -> Callers \cup {NoOne}]
    BY DEF TypeOK
<1>1. CASE CreateFails(c)
    BY <1>0, <1>1, IdleCallerType, MutexType, FaultCounts DEF CreateFails, OnlyCaller
<1>2. CASE RefreshReturns(c)
    BY <1>0, <1>2, IdleCallerType, MutexType, FaultCounts DEF RefreshReturns, OnlyCaller
<1>. QED  BY <1>1, <1>2

-----------------------------------------------------------------------------
(* The job goroutines.                                                     *)

\* The states of a job goroutine.
WorkerPcs == {"none", "run", "complete", "fail", "interrupt"}

\* What a goroutine does: no row but its own is written, and that one is
\* completed or failed only as its last act.
LEMMA WorkerMoves ==
    ASSUME TypeOK, NEW id \in JobIds, Progress(id) \/ WorkerStep(id) \/ Age(id)
    PROVE  /\ UNCHANGED <<nextId, caller, spawnMu, proc, backlog, late, boots>>
           /\ faults' \in 0 .. MaxFaults /\ (faults' = 0 => faults = 0)
           /\ jobs' \in [JobIds -> Rows]
           /\ \A other \in JobIds : jobs'[other].type = jobs[other].type
           /\ \A other \in JobIds \ {id} : jobs'[other].status = jobs[other].status
           /\ worker' \in [JobIds -> WorkerPcs] /\ owner' \in [JobIds -> Services]
           /\ \A other \in JobIds \ {id} : worker'[other] = worker[other] /\ owner'[other] = owner[other]
           /\ worker'[id] # "none" => worker[id] # "none" /\ owner'[id] = owner[id]
           /\ \/ jobs'[id].status = jobs[id].status
              \/ jobs[id].status = "running" /\ jobs'[id].status = "interrupted"
              \/ worker[id] # "none" /\ worker'[id] = "none" /\ jobs'[id].status \in {"completed", "failed"}
           /\ faults' = 0 /\ worker[id] # "none" /\ worker'[id] = "none" => jobs'[id].status # "running"
<1>0. /\ jobs \in [JobIds -> Rows] /\ faults \in 0 .. MaxFaults
      /\ worker \in [JobIds -> WorkerPcs] /\ owner \in [JobIds -> Services]
    BY DEF TypeOK, WorkerPcs
<1>1. CASE Progress(id)
    <2>1. jobs' \in {jobs, Touched(id)} /\ UNCHANGED <<worker, owner, faults>>
        BY <1>1 DEF Progress
    <2>. QED  BY <1>0, <1>1, <2>1, TouchedRows DEF Progress
<1>2. CASE Age(id)
    <2>1. [jobs[id] EXCEPT !.stale = 1] \in Rows
        BY <1>0 DEF Rows
    <2>2. /\ [jobs[id] EXCEPT !.stale = 1].type = jobs[id].type
          /\ [jobs[id] EXCEPT !.stale = 1].status = jobs[id].status
        BY <1>0 DEF Rows
    <2>3. jobs' = [jobs EXCEPT ![id] = [jobs[id] EXCEPT !.stale = 1]]
        BY <1>0, <1>2 DEF Age
    <2>4. jobs'[id] = [jobs[id] EXCEPT !.stale = 1] /\ \A other \in JobIds \ {id} : jobs'[other] = jobs[other]
        BY <1>0, <2>3
    <2>5. jobs' \in [JobIds -> Rows]
        BY <1>0, <2>1, <2>3
    <2>. QED  BY <1>0, <1>2, <2>2, <2>4, <2>5 DEF Age
<1>3. CASE Decide(id)
    <2>1. Fault \/ UNCHANGED faults
        BY <1>3 DEF Decide
    <2>2. \E at \in WorkerPcs : worker' = [worker EXCEPT ![id] = at] /\ (at = "none" => Fault)
        <3>1. jobs[id].type \in Types
            BY <1>0 DEF Rows
        <3>2. Outcomes(id) \subseteq {"interrupt", "complete"}
            BY <3>1 DEF Outcomes, Types
        <3>. QED  BY <1>3, <3>2 DEF Decide, WorkerPcs
    <2>3. UNCHANGED <<jobs, nextId, owner, caller, spawnMu, proc, backlog, late, boots>> /\ worker[id] = "run"
        BY <1>3 DEF Decide
    <2>. QED  BY <1>0, <2>1, <2>2, <2>3, FaultCounts
<1>4. CASE Finish(id)
    <2>1. Fault \/ UNCHANGED faults
        BY <1>4 DEF Finish
    <2>2. /\ worker' = [worker EXCEPT ![id] = "none"] /\ owner' = [owner EXCEPT ![id] = "main"]
          /\ worker[id] # "none"
          /\ UNCHANGED <<nextId, caller, spawnMu, proc, backlog, late, boots>>
        BY <1>4 DEF Finish
    <2>3. \/ jobs' = jobs /\ Fault
          \/ jobs' = Completed(jobs, id, "completed")
          \/ jobs' = Completed(jobs, id, "failed")
          \/ jobs' = Interrupted(jobs, {id})
        BY <1>4 DEF Finish, Written
    <2>4. worker' \in [JobIds -> WorkerPcs] /\ owner' \in [JobIds -> Services] /\ worker'[id] = "none"
        BY <1>0, <2>2 DEF WorkerPcs, Services
    <2>5. CASE jobs' = jobs /\ Fault
        BY <1>0, <2>2, <2>4, <2>5, FaultCounts
    <2>6. CASE jobs' = Completed(jobs, id, "completed") \/ jobs' = Completed(jobs, id, "failed")
        BY <1>0, <2>1, <2>2, <2>4, <2>6, CompletedRows, FaultCounts
    <2>7. CASE jobs' = Interrupted(jobs, {id})
        BY <1>0, <2>1, <2>2, <2>4, <2>7, InterruptedRows, FaultCounts
    <2>. QED  BY <2>3, <2>5, <2>6, <2>7
<1>. QED  BY <1>1, <1>2, <1>3, <1>4 DEF WorkerStep

-----------------------------------------------------------------------------
(* Every step keeps the invariant.                                         *)

\* The gate: a refresh finds the mutex free, so no other trigger of its service is
\* past its own gate.
LEMMA GateKeeps ==
    ASSUME Inv, NEW c \in Callers, NEW type \in Types, Gate(c, type)
    PROVE  Inv'
<1>0. TypeOK /\ c # NoOne
    BY JobsAssumption DEF Inv, Callers
<1>1. /\ UNCHANGED <<jobs, nextId, worker, owner, proc, backlog, late, boots>>
      /\ faults' \in 0 .. MaxFaults /\ (faults' = 0 => faults = 0)
      /\ OnlyCaller(c)
      /\ caller[c].pc \in {"idle", "locking"}
      /\ caller[c].pc = "idle" => MayTrigger(c, type)
      /\ type = "refresh" => spawnMu[Service(c)] = NoOne
      /\ \/ caller'[c] = IdleCaller /\ spawnMu' = spawnMu
         \/ /\ caller'[c].pc \in {"interrupt", "create"} /\ caller'[c].type = type
            /\ spawnMu' = HolderAfterGate(c, type)
    BY <1>0, GateMoves
<1>2. TypeOK'
    BY <1>0, <1>1, MutexType DEF TypeOK, HolderAfterGate, OnlyCaller
<1>3. FreshIds' /\ LiveRows' /\ RunningRowHasWorker' /\ CleanStop'
    BY <1>1 DEF Inv, FreshIds, LiveRows, RunningRowHasWorker, CleanStop, Live
<1>4. Holders'
    <2>1. ASSUME NEW d \in Callers, caller'[d].type = "refresh", caller'[d].pc \in Critical
          PROVE  spawnMu'[Service(d)] = d
        <3>1. CASE d = c
            BY <3>1, <2>1, <1>0, <1>1, IdleCallerType, MutexType DEF HolderAfterGate, Critical, TypeOK
        <3>2. CASE d # c
            <4>1. caller'[d] = caller[d]
                BY <3>2, <1>1 DEF OnlyCaller
            <4>2. spawnMu[Service(d)] = d /\ d # NoOne
                BY <2>1, <4>1, JobsAssumption DEF Inv, Holders, Critical, Callers
            <4>3. spawnMu' = spawnMu \/ Service(d) # Service(c)
                BY <1>1, <4>2 DEF HolderAfterGate
            <4>. QED  BY <1>0, <1>1, <4>2, <4>3, MutexType DEF HolderAfterGate, TypeOK
        <3>. QED  BY <3>1, <3>2
    <2>. QED  BY <2>1 DEF Holders, Critical
<1>5. Waited' /\ Waiters'
    BY <1>1, IdleCallerType DEF Inv, Waited, Waiters, Live, OnlyCaller
<1>6. Stopping'
    BY <1>1, JobsAssumption DEF Inv, Stopping, OnlyCaller, MayTrigger, Callers
<1>. QED  BY <1>2, <1>3, <1>4, <1>5, <1>6 DEF Inv

\* The statements that neither spawn nor touch the mutex.
LEMMA OtherCallerKeeps ==
    ASSUME Inv, NEW c \in Callers, OtherCallerStep(c)
    PROVE  Inv'
<1>0. TypeOK
    BY DEF Inv
<1>1. /\ Spawnless /\ OnlyCaller(c) /\ StaysCritical(c) /\ spawnMu' = spawnMu
      /\ caller[c].pc # "waiting" /\ caller'[c].pc # "waiting"
      /\ caller[c].pc = "idle" => (\E type \in Types \ {"firmware_check"} : MayTrigger(c, type))
                                    \/ (c \in Sched /\ caller'[c].pc = "exited")
      /\ caller[c].pc # "exited"
    BY <1>0, OtherCallerMoves
<1>2. TypeOK'
    BY <1>0, <1>1 DEF TypeOK, Spawnless, OnlyCaller
<1>3. FreshIds' /\ LiveRows'
    BY <1>1 DEF Inv, FreshIds, LiveRows, Live, Spawnless
<1>4. RunningRowHasWorker' /\ CleanStop'
    BY <1>1 DEF Inv, RunningRowHasWorker, CleanStop, Live, Spawnless
<1>5. Holders' /\ Waiters'
    BY <1>1 DEF Inv, Holders, Waiters, OnlyCaller, StaysCritical, Critical
<1>6. Waited'
    BY <1>1 DEF Inv, Waited, Live, OnlyCaller, Spawnless
<1>7. Stopping'
    BY <1>1, JobsAssumption DEF Inv, Stopping, OnlyCaller, MayTrigger, Callers, Spawnless
<1>. QED  BY <1>2, <1>3, <1>4, <1>5, <1>6, <1>7 DEF Inv

\* The insert: its caller holds the mutex and was not waiting, so no refresh of the
\* service is alive; and none happens after a clean stop.
LEMMA CreateKeeps ==
    ASSUME Inv, NEW c \in Callers, Create(c)
    PROVE  Inv'
<1>0. TypeOK
    BY DEF Inv
<1>1. /\ Insert(caller[c].type, Service(c)) /\ caller[c].type \in Types /\ Service(c) \in Services
      /\ OnlyCaller(c) /\ caller[c].pc = "create"
      /\ UNCHANGED <<spawnMu, proc, backlog, late, boots, faults>>
      /\ caller[c].type # "refresh" => caller'[c] = IdleCaller
      /\ caller[c].type = "refresh" =>
            caller'[c].pc = "waiting" /\ caller'[c].type = "refresh" /\ caller'[c].id = nextId
    BY <1>0, CreateMoves
<1>2. /\ nextId \in JobIds /\ nextId' = nextId + 1 /\ nextId' \in 1 .. MaxJobs + 1
      /\ jobs' \in [JobIds -> Rows]
      /\ jobs'[nextId].type = caller[c].type /\ jobs'[nextId].status = "running"
      /\ worker' = [worker EXCEPT ![nextId] = "run"]
      /\ owner' = [owner EXCEPT ![nextId] = Service(c)]
      /\ \A other \in JobIds \ {nextId} : jobs'[other] = jobs[other]
    BY <1>0, <1>1, InsertedRow
<1>3. /\ worker'[nextId] = "run" /\ owner'[nextId] = Service(c)
      /\ \A other \in JobIds \ {nextId} : worker'[other] = worker[other] /\ owner'[other] = owner[other]
    BY <1>0, <1>2 DEF TypeOK
<1>4. TypeOK'
    BY <1>0, <1>1, <1>2 DEF TypeOK, OnlyCaller
<1>5. FreshIds' /\ LiveRows'
    BY <1>2, <1>3, JobsAssumption DEF Inv, TypeOK, FreshIds, LiveRows, Live, JobIds
<1>6. RunningRowHasWorker'
    BY <1>1, <1>2, <1>3 DEF Inv, RunningRowHasWorker, Live
<1>7. Holders' /\ Waiters'
    BY <1>1, IdleCallerType DEF Inv, Holders, Waiters, OnlyCaller
<1>8. Waited'
    <2>1. ASSUME NEW id \in JobIds, Live(id)', jobs'[id].type = "refresh"
          PROVE  \E d \in Callers : /\ caller'[d].pc = "waiting" /\ caller'[d].type = "refresh"
                                     /\ caller'[d].id = id /\ Service(d) = owner'[id]
        <3>1. CASE id = nextId
            BY <3>1, <2>1, <1>1, <1>2, <1>3
        <3>2. CASE id # nextId
            <4>1. Live(id) /\ jobs[id].type = "refresh" /\ owner'[id] = owner[id]
                BY <3>2, <2>1, <1>2, <1>3 DEF Live
            <4>2. PICK d \in Callers : /\ caller[d].pc = "waiting" /\ caller[d].type = "refresh"
                                       /\ caller[d].id = id /\ Service(d) = owner[id]
                BY <4>1 DEF Inv, Waited
            <4>3. caller'[d] = caller[d]
                BY <4>2, <1>1 DEF OnlyCaller
            <4>. QED  BY <4>1, <4>2, <4>3
        <3>. QED  BY <3>1, <3>2
    <2>. QED  BY <2>1 DEF Waited, Live
<1>9. Stopping' /\ CleanStop'
    <2>1. Stopping'
        BY <1>1, JobsAssumption DEF Inv, Stopping, OnlyCaller, Callers
    <2>2. ~(proc = "exiting" /\ ~late)
        BY <1>1, JobsAssumption DEF Inv, Stopping, Callers
    <2>. QED  BY <1>1, <2>1, <2>2 DEF CleanStop
<1>. QED  BY <1>4, <1>5, <1>6, <1>7, <1>8, <1>9 DEF Inv

\* The return: the refresh the caller waited for is over, and there is no other.
LEMMA ReturnKeeps ==
    ASSUME Inv, NEW c \in Callers, CreateFails(c) \/ RefreshReturns(c)
    PROVE  Inv'
<1>0. TypeOK
    BY DEF Inv
<1>1. /\ UNCHANGED <<jobs, nextId, worker, owner, proc, backlog, late, boots>>
      /\ faults' \in 0 .. MaxFaults /\ (faults' = 0 => faults = 0)
      /\ OnlyCaller(c) /\ caller'[c] = IdleCaller
      /\ spawnMu' \in [Services -> Callers \cup {NoOne}]
      /\ spawnMu' = spawnMu \/ spawnMu' = [spawnMu EXCEPT ![Service(c)] = NoOne]
      /\ \/ caller[c].pc = "create" /\ (caller[c].type # "refresh" => spawnMu' = spawnMu)
         \/ caller[c].pc = "waiting" /\ ~Live(caller[c].id)
    BY <1>0, ReturnMoves
<1>2. TypeOK'
    BY <1>0, <1>1 DEF TypeOK, OnlyCaller
<1>3. FreshIds' /\ LiveRows' /\ RunningRowHasWorker' /\ CleanStop'
    BY <1>1 DEF Inv, FreshIds, LiveRows, RunningRowHasWorker, CleanStop, Live
<1>4. caller[c].pc = "waiting" => caller[c].type = "refresh"
    BY DEF Inv, Waiters
<1>5. Holders'
    <2>1. ASSUME NEW d \in Callers, caller'[d].type = "refresh", caller'[d].pc \in Critical
          PROVE  spawnMu'[Service(d)] = d
        <3>1. d # c /\ caller'[d] = caller[d]
            BY <2>1, <1>1, IdleCallerType DEF OnlyCaller
        <3>2. spawnMu[Service(d)] = d
            BY <2>1, <3>1 DEF Inv, Holders, Critical
        <3>3. spawnMu' = spawnMu \/ spawnMu[Service(c)] = c
            BY <1>1, <1>4 DEF Inv, Holders
        <3>. QED  BY <1>0, <1>1, <3>1, <3>2, <3>3, MutexType DEF TypeOK
    <2>. QED  BY <2>1 DEF Holders, Critical
<1>6. Waited'
    <2>1. ASSUME NEW id \in JobIds, Live(id)', jobs'[id].type = "refresh"
          PROVE  \E d \in Callers : /\ caller'[d].pc = "waiting" /\ caller'[d].type = "refresh"
                                     /\ caller'[d].id = id /\ Service(d) = owner'[id]
        <3>1. PICK d \in Callers : /\ caller[d].pc = "waiting" /\ caller[d].type = "refresh"
                                   /\ caller[d].id = id /\ Service(d) = owner[id]
            BY <2>1, <1>1 DEF Inv, Waited, Live
        <3>2. d # c
            BY <2>1, <3>1, <1>1 DEF Live
        <3>. QED  BY <1>1, <3>1, <3>2 DEF OnlyCaller
    <2>. QED  BY <2>1 DEF Waited, Live
<1>7. Stopping' /\ Waiters'
    BY <1>1, IdleCallerType DEF Inv, Stopping, Waiters, OnlyCaller, Callers
<1>. QED  BY <1>2, <1>3, <1>5, <1>6, <1>7 DEF Inv

\* A goroutine: it works on its own row, and leaves it in a terminal state.
LEMMA WorkerKeeps ==
    ASSUME Inv, NEW id \in JobIds, Progress(id) \/ WorkerStep(id) \/ Age(id)
    PROVE  Inv'
<1>0. TypeOK
    BY DEF Inv
<1>1. /\ UNCHANGED <<nextId, caller, spawnMu, proc, backlog, late, boots>>
      /\ faults' \in 0 .. MaxFaults /\ (faults' = 0 => faults = 0)
      /\ jobs' \in [JobIds -> Rows]
      /\ \A other \in JobIds : jobs'[other].type = jobs[other].type
      /\ \A other \in JobIds \ {id} : jobs'[other].status = jobs[other].status
      /\ worker' \in [JobIds -> WorkerPcs] /\ owner' \in [JobIds -> Services]
      /\ \A other \in JobIds \ {id} : worker'[other] = worker[other] /\ owner'[other] = owner[other]
      /\ worker'[id] # "none" => worker[id] # "none" /\ owner'[id] = owner[id]
      /\ \/ jobs'[id].status = jobs[id].status
         \/ jobs[id].status = "running" /\ jobs'[id].status = "interrupted"
         \/ worker[id] # "none" /\ worker'[id] = "none" /\ jobs'[id].status \in {"completed", "failed"}
      /\ faults' = 0 /\ worker[id] # "none" /\ worker'[id] = "none" => jobs'[id].status # "running"
    BY <1>0, WorkerMoves
<1>2. TypeOK'
    BY <1>0, <1>1 DEF TypeOK, WorkerPcs
<1>3. FreshIds' /\ LiveRows'
    BY <1>1 DEF Inv, FreshIds, LiveRows, Live
<1>4. RunningRowHasWorker' /\ CleanStop'
    BY <1>1 DEF Inv, RunningRowHasWorker, CleanStop, Live
<1>5. Holders' /\ Stopping' /\ Waiters'
    BY <1>1 DEF Inv, Holders, Stopping, Waiters
<1>6. Waited'
    BY <1>1 DEF Inv, Waited, Live
<1>. QED  BY <1>2, <1>3, <1>4, <1>5, <1>6 DEF Inv

\* RecoverInterruptedJobs: it restarts scans and checks, never a refresh.
LEMMA RecoverKeeps ==
    ASSUME Inv, NEW id \in JobIds, RecoverOne(id)
    PROVE  Inv'
<1>0. TypeOK
    BY DEF Inv
<1>1. UNCHANGED <<caller, spawnMu, proc, late, boots>> /\ proc = "recovering" /\ backlog' \subseteq JobIds
    BY <1>0 DEF RecoverOne, TypeOK
<1>2. Holders' /\ Waiters' /\ Stopping' /\ CleanStop'
    BY <1>1 DEF Inv, Holders, Waiters, Stopping, CleanStop
<1>3. CASE UNCHANGED <<jobs, nextId, worker, owner>>
    <2>1. faults' \in 0 .. MaxFaults /\ (faults' = 0 => faults = 0)
        <3>1. Fault \/ UNCHANGED faults
            BY DEF RecoverOne
        <3>. QED  BY <1>0, <3>1, FaultCounts
    <2>2. TypeOK'
        BY <1>0, <1>1, <1>3, <2>1 DEF TypeOK
    <2>. QED
        BY <1>1, <1>2, <1>3, <2>1, <2>2 DEF Inv, FreshIds, LiveRows, RunningRowHasWorker, Waited, Live
<1>4. CASE Insert(jobs[id].type, "main") /\ jobs[id].type \in {"scan", "firmware_check"} /\ UNCHANGED faults
    <2> DEFINE type == jobs[id].type
    <2>1. type \in Types /\ "main" \in Services
        BY <1>4 DEF Types, Services
    <2>2. /\ nextId \in JobIds /\ nextId' = nextId + 1 /\ nextId' \in 1 .. MaxJobs + 1
          /\ jobs' \in [JobIds -> Rows]
          /\ jobs'[nextId].type = type /\ jobs'[nextId].status = "running"
          /\ worker' = [worker EXCEPT ![nextId] = "run"]
          /\ owner' = [owner EXCEPT ![nextId] = "main"]
          /\ \A other \in JobIds \ {nextId} : jobs'[other] = jobs[other]
        BY <1>0, <1>4, <2>1, InsertedRow
    <2>3. /\ worker'[nextId] = "run"
          /\ \A other \in JobIds \ {nextId} : worker'[other] = worker[other] /\ owner'[other] = owner[other]
        BY <1>0, <2>2 DEF TypeOK
    <2>4. TypeOK'
        BY <1>0, <1>1, <1>4, <2>1, <2>2 DEF TypeOK
    <2>5. FreshIds' /\ LiveRows'
        BY <2>2, <2>3, JobsAssumption DEF Inv, TypeOK, FreshIds, LiveRows, Live, JobIds
    <2>6. RunningRowHasWorker'
        BY <1>1, <1>4, <2>2, <2>3 DEF Inv, RunningRowHasWorker, Live
    <2>7. Waited'
        BY <1>1, <1>4, <2>2, <2>3 DEF Inv, Waited, Live
    <2>. QED  BY <1>2, <2>4, <2>5, <2>6, <2>7 DEF Inv
<1>. QED  BY <1>3, <1>4 DEF RecoverOne

\* Boot, serve, shutdown and the end of the process.
LEMMA ProcessKeeps ==
    ASSUME Inv, ProcessStep
    PROVE  Inv'
<1>0. TypeOK
    BY DEF Inv
<1>1. CASE Boot
    <2>1. /\ UNCHANGED <<nextId, worker, owner, caller, spawnMu>>
          /\ proc' = "recovering" /\ late' = FALSE /\ backlog' \subseteq JobIds
          /\ boots' \in 0 .. MaxBoots
        BY <1>0, <1>1, JobsAssumption DEF Boot, TypeOK
    <2>2. Fault \/ UNCHANGED faults
        BY <1>1 DEF Boot
    <2>3. (jobs' = jobs /\ Fault) \/ jobs' = Interrupted(jobs, JobIds)
        BY <1>1 DEF Boot
    <2>4. jobs' \in [JobIds -> Rows] /\ faults' \in 0 .. MaxFaults
        BY <1>0, <2>2, <2>3, InterruptedRows, FaultCounts DEF TypeOK
    <2>5. TypeOK'
        BY <1>0, <2>1, <2>4 DEF TypeOK
    <2>6. \A id \in JobIds : /\ jobs'[id].type = jobs[id].type
                             /\ \/ jobs'[id].status = jobs[id].status
                                \/ jobs[id].status = "running" /\ jobs'[id].status = "interrupted"
        BY <1>0, <2>3, InterruptedRows
    <2>7. faults' = 0 => \A id \in JobIds : jobs'[id].status # "running"
        BY <1>0, <2>2, <2>3, InterruptedRows, FaultCounts
    <2>8. FreshIds' /\ LiveRows' /\ RunningRowHasWorker'
        BY <2>1, <2>6, <2>7 DEF Inv, FreshIds, LiveRows, RunningRowHasWorker, Live
    <2>9. Holders' /\ Waiters' /\ Waited' /\ Stopping' /\ CleanStop'
        BY <2>1, <2>6 DEF Inv, Holders, Waiters, Waited, Stopping, CleanStop, Live
    <2>. QED  BY <2>5, <2>8, <2>9 DEF Inv
<1>2. CASE Serve \/ Signal
    <2>1. UNCHANGED <<jobs, nextId, worker, owner, caller, spawnMu, backlog, late, boots, faults>>
          /\ proc # "down" /\ proc' \in {"up", "closing"}
        BY <1>2 DEF Serve, Signal
    <2>. QED
        BY <2>1 DEF Inv, TypeOK, FreshIds, LiveRows, RunningRowHasWorker, Holders, Waiters, Waited, Stopping,
                    CleanStop, Live
<1>3. CASE BeginStop
    <2>1. TypeOK'
        BY <1>0, <1>3 DEF BeginStop, TypeOK
    <2>2. FreshIds' /\ LiveRows' /\ RunningRowHasWorker'
        BY <1>3 DEF BeginStop, Inv, FreshIds, LiveRows, RunningRowHasWorker, Live
    <2>3. Holders' /\ Waiters' /\ Waited'
        BY <1>3 DEF BeginStop, Inv, Holders, Waiters, Waited, Live
    <2>4. Stopping' /\ CleanStop'
        BY <1>3 DEF BeginStop, Stopping, CleanStop
    <2>. QED  BY <2>1, <2>2, <2>3, <2>4 DEF Inv
<1>4. CASE FinishStop
    <2>1. /\ UNCHANGED <<nextId, worker, owner, caller, spawnMu, backlog, boots>>
          /\ proc = "draining" /\ proc' = "exiting" /\ late' \in BOOLEAN
          /\ ~late' => ~late /\ Drained
        BY <1>4 DEF FinishStop
    <2>2. Fault \/ UNCHANGED faults
        BY <1>4 DEF FinishStop
    <2>3. (jobs' = jobs /\ Fault) \/ jobs' = Interrupted(jobs, JobIds)
        BY <1>4 DEF FinishStop
    <2>4. jobs' \in [JobIds -> Rows] /\ faults' \in 0 .. MaxFaults
        BY <1>0, <2>2, <2>3, InterruptedRows, FaultCounts DEF TypeOK
    <2>5. TypeOK'
        BY <1>0, <2>1, <2>4 DEF TypeOK
    <2>6. \A id \in JobIds : /\ jobs'[id].type = jobs[id].type
                             /\ \/ jobs'[id].status = jobs[id].status
                                \/ jobs[id].status = "running" /\ jobs'[id].status = "interrupted"
        BY <1>0, <2>3, InterruptedRows
    <2>7. faults' = 0 => \A id \in JobIds : jobs'[id].status # "running"
        BY <1>0, <2>2, <2>3, InterruptedRows, FaultCounts
    <2>8. FreshIds' /\ LiveRows' /\ RunningRowHasWorker'
        BY <2>1, <2>6, <2>7 DEF Inv, FreshIds, LiveRows, RunningRowHasWorker, Live
    <2>9. Holders' /\ Waiters' /\ Waited'
        BY <2>1, <2>6 DEF Inv, Holders, Waiters, Waited, Live
    <2>10. Stopping' /\ CleanStop'
        BY <2>1, <2>7 DEF Inv, Stopping, CleanStop, Drained, Live
    <2>. QED  BY <2>5, <2>8, <2>9, <2>10 DEF Inv
<1>5. CASE Die
    <2>1. TypeOK'
        BY <1>0, <1>5, IdleCallerType DEF Die, TypeOK, Services
    <2>2. \A c \in Callers : caller'[c].pc = "idle"
        BY <1>5, IdleCallerType DEF Die
    <2>3. \A id \in JobIds : ~Live(id)'
        BY <1>5 DEF Die, Live
    <2>4. FreshIds' /\ LiveRows' /\ Waited' /\ RunningRowHasWorker' /\ CleanStop' /\ Stopping'
        BY <1>5, <2>3 DEF Die, Inv, FreshIds, LiveRows, Waited, RunningRowHasWorker, CleanStop, Stopping, Live
    <2>5. Holders' /\ Waiters'
        BY <2>2 DEF Holders, Waiters
    <2>. QED  BY <2>1, <2>4, <2>5 DEF Inv
<1>. QED  BY <1>1, <1>2, <1>3, <1>4, <1>5 DEF ProcessStep

-----------------------------------------------------------------------------
(* The theorems.                                                           *)

\* The inductive invariant holds in every reachable state.
THEOREM InvariantHolds == Spec => []Inv
<1>1. Init => Inv
    <2> SUFFICES ASSUME Init PROVE Inv
        OBVIOUS
    <2>1. NoRow \in Rows /\ NoRow.status = "absent"
        BY DEF NoRow, Rows, Types, Statuses
    <2>2. TypeOK
        <3>1. nextId \in 1 .. MaxJobs + 1 /\ boots \in 0 .. MaxBoots /\ faults \in 0 .. MaxFaults
            BY JobsAssumption DEF Init
        <3>2. jobs \in [JobIds -> Rows] /\ caller \in [Callers -> CallerStates]
            BY <2>1, IdleCallerType DEF Init
        <3>3. /\ worker \in [JobIds -> WorkerPcs] /\ owner \in [JobIds -> Services]
              /\ spawnMu \in [Services -> Callers \cup {NoOne}]
            BY DEF Init, WorkerPcs, Services
        <3>. QED  BY <3>1, <3>2, <3>3 DEF Init, TypeOK, WorkerPcs
    <2>3. \A id \in JobIds : jobs[id].status = "absent" /\ worker[id] = "none"
        BY <2>1 DEF Init
    <2>4. \A c \in Callers : caller[c].pc = "idle"
        BY IdleCallerType DEF Init
    <2>. QED
        BY <2>2, <2>3, <2>4 DEF Init, Inv, FreshIds, LiveRows, Holders, Waiters, Waited, RunningRowHasWorker,
                                Stopping, CleanStop, Live
<1>2. Inv /\ [Next]_vars => Inv'
    <2> SUFFICES ASSUME Inv, [Next]_vars PROVE Inv'
        OBVIOUS
    <2>1. CASE UNCHANGED vars
        BY <2>1 DEF vars, Inv, TypeOK, FreshIds, LiveRows, Holders, Waiters, Waited, RunningRowHasWorker, Stopping,
                    CleanStop, Live
    <2>2. ASSUME NEW c \in Callers,
                 \/ \E type \in Triggers : Gate(c, type)
                 \/ RefreshArrives(c) \/ ScanStatus(c) \/ ConfirmScan(c) \/ CallerStep(c)
          PROVE  Inv'
        <3>1. Triggers \subseteq Types /\ "refresh" \in Types
            BY JobsAssumption DEF Types
        <3>. QED
            BY <2>2, <3>1, GateKeeps, OtherCallerKeeps, CreateKeeps, ReturnKeeps
               DEF CallerStep, OtherCallerStep
    <2>. QED
        BY <2>1, <2>2, WorkerKeeps, RecoverKeeps, ProcessKeeps DEF Next
<1>. QED  BY <1>1, <1>2, PTL DEF Spec

\* Of each service at most one refresh is alive: two would have the one holder
\* of the spawn mutex waiting for both.  And all is well typed.
THEOREM RefreshIsAlone == Spec => []OneLiveRefresh
<1>1. Inv => OneLiveRefresh
    <2> SUFFICES ASSUME Inv, NEW i \in JobIds, NEW j \in JobIds,
                        Live(i), jobs[i].type = "refresh", Live(j), jobs[j].type = "refresh",
                        owner[i] = owner[j]
                 PROVE  i = j
        BY DEF Inv, OneLiveRefresh
    <2>1. PICK c \in Callers : /\ caller[c].pc = "waiting" /\ caller[c].type = "refresh"
                               /\ caller[c].id = i /\ Service(c) = owner[i]
        BY DEF Inv, Waited
    <2>2. PICK d \in Callers : /\ caller[d].pc = "waiting" /\ caller[d].type = "refresh"
                               /\ caller[d].id = j /\ Service(d) = owner[j]
        BY DEF Inv, Waited
    <2>3. c = spawnMu[owner[i]] /\ d = spawnMu[owner[i]]
        BY <2>1, <2>2 DEF Inv, Holders
    <2>. QED  BY <2>1, <2>2, <2>3
<1>. QED  BY <1>1, InvariantHolds, PTL

\* While no statement has failed, a "running" row has a goroutine.
THEOREM NoAbandonedRow == Spec => []RunningRowHasWorker
<1>1. Inv => RunningRowHasWorker
    BY DEF Inv
<1>. QED  BY <1>1, InvariantHolds, PTL

\* AppService.Stop leaves no "running" row and no goroutine of its service.
THEOREM StopIsClean == Spec => []CleanStop
<1>1. Inv => CleanStop
    BY DEF Inv
<1>. QED  BY <1>1, InvariantHolds, PTL

\* A completed or failed row is never written again: InterruptJob has a status
\* guard, CompleteJob has none but is only called by the goroutine of the row,
\* once, and ids are not used twice.
THEOREM TerminalRowsStay == Spec => TerminalIsFinal
<1>1. Inv /\ [Next]_vars =>
        [\A id \in JobIds :
            jobs[id].status \in {"completed", "failed"} => jobs'[id].status = jobs[id].status]_vars
    <2> SUFFICES ASSUME Inv, Next, NEW id \in JobIds, jobs[id].status \in {"completed", "failed"}
                 PROVE  jobs'[id].status = jobs[id].status
        OBVIOUS
    <2>0. TypeOK /\ ~Live(id) /\ id # nextId
        BY DEF Inv, LiveRows, FreshIds, TypeOK, JobIds
    <2>1. ASSUME NEW c \in Callers,
                 \/ \E type \in Triggers : Gate(c, type)
                 \/ RefreshArrives(c) \/ ScanStatus(c) \/ ConfirmScan(c) \/ CallerStep(c)
          PROVE  jobs'[id].status = jobs[id].status
        <3>1. CASE Create(c)
            BY <2>0, <3>1, CreateMoves, InsertedRow
        <3>2. CASE OtherCallerStep(c)
            BY <2>0, <3>2, OtherCallerMoves DEF Spawnless
        <3>3. ASSUME NEW type, Gate(c, type) PROVE jobs' = jobs
            BY <3>3 DEF Gate
        <3>4. CASE CreateFails(c) \/ RefreshReturns(c)
            BY <3>4 DEF CreateFails, RefreshReturns
        <3>. QED  BY <2>1, <3>1, <3>2, <3>3, <3>4 DEF CallerStep, OtherCallerStep
    <2>2. ASSUME NEW i \in JobIds, Progress(i) \/ WorkerStep(i) \/ Age(i)
          PROVE  jobs'[id].status = jobs[id].status
        BY <2>0, <2>2, WorkerMoves DEF Live
    <2>3. ASSUME NEW i \in JobIds, RecoverOne(i)
          PROVE  jobs'[id].status = jobs[id].status
        <3>1. jobs' = jobs \/ (jobs[i].type \in Types /\ Insert(jobs[i].type, "main"))
            BY <2>3 DEF RecoverOne, Types
        <3>. QED  BY <2>0, <3>1, InsertedRow DEF Services
    <2>4. CASE ProcessStep
        <3>1. jobs' = jobs \/ jobs' = Interrupted(jobs, JobIds)
            BY <2>4 DEF ProcessStep, Boot, Serve, Signal, BeginStop, FinishStop, Die
        <3>. QED  BY <2>0, <3>1, InterruptedRows
    <2>. QED  BY <2>1, <2>2, <2>3, <2>4 DEF Next
<1>. QED  BY <1>1, InvariantHolds, PTL DEF Spec, TerminalIsFinal

-----------------------------------------------------------------------------
(* The worker pool of runRefreshJob.                                       *)

USE FleetAssumption

\* The pool has at least one worker, whatever the setting (limit < 1 is 1).
LEMMA LimitIsPositive == Limit \in Nat \ {0}
BY DEF Limit, BoundedConcurrency

\* The set-up of runRefreshJob satisfies the inductive invariant.
LEMMA InitIndInv == PoolInit => IndInv
<1> SUFFICES ASSUME PoolInit PROVE IndInv
  OBVIOUS
<1> USE DEF PoolInit
<1>1. PoolTypeOK
  <2>1. 0 \in 0 .. Fleet
    OBVIOUS
  <2> QED BY <2>1 DEF PoolTypeOK
<1>2. HoldsWhileBusy /\ NoneLost
  BY DEF HoldsWhileBusy, NoneLost
<1>3. TakenWereSent
  BY DEF TakenWereSent
<1>4. NoDeviceTwice /\ OnlyWholeFleetIsUpserted
  BY DEF NoDeviceTwice, OnlyWholeFleetIsUpserted
<1> QED BY <1>1, <1>2, <1>3, <1>4 DEF IndInv

\* Every step of a worker keeps it: the hand-over of a device, the look at
\* the context, the end of a probe and the end of the loop.
LEMMA WorkerStepIndInv ==
    ASSUME IndInv, NEW w \in Workers, PoolWorkerStep(w)
    PROVE  IndInv'
<1> USE DEF IndInv, PoolTypeOK, HoldsWhileBusy, TakenWereSent, NoneLost,
            NoDeviceTwice, AllLeft, OnlyWholeFleetIsUpserted, Items
<1>1. CASE Send(w)
  <2> USE <1>1 DEF Send
  <2>1. PoolTypeOK'
    OBVIOUS
  <2>2. item[w] = 0
    OBVIOUS
  <2>3. /\ HoldsWhileBusy' /\ TakenWereSent'
    BY <2>2
  <2>4. NoneLost'
    <3> SUFFICES ASSUME ~cancelled, NEW i \in 1 .. sent + 1
                 PROVE  i \in refreshed \/ \E v \in Workers : item'[v] = i
      OBVIOUS
    <3>1. CASE i = sent + 1
      BY <3>1
    <3>2. CASE i # sent + 1
      <4>1. i \in 1 .. sent
        BY <3>2
      <4>2. CASE i \in refreshed
        BY <4>2
      <4>3. CASE \E v \in Workers : item[v] = i
        <5>1. PICK v \in Workers : item[v] = i
          BY <4>3
        <5>2. v # w
          BY <5>1, <4>1, <2>2
        <5> QED BY <5>1, <5>2
      <4> QED BY <4>1, <4>2, <4>3
    <3> QED BY <3>1, <3>2
  <2>5. NoDeviceTwice'
    BY <2>2
  <2>6. outcome = "running"
    OBVIOUS
  <2> QED BY <2>1, <2>3, <2>4, <2>5, <2>6
<1>2. CASE CheckContext(w)
  <2> USE <1>2 DEF CheckContext, IncrementJobDone
  <2>1. CASE cancelled
    BY <2>1
  <2>2. CASE ~cancelled
    BY <2>2
  <2> QED BY <2>1, <2>2
<1>3. CASE Probed(w)
  <2> USE <1>3 DEF Probed
  <2>1. item[w] \in 1 .. sent /\ sent \in Nat
    OBVIOUS
  <2>2. refreshed' \subseteq 1 .. sent /\ refreshed' \subseteq Items
    <3>1. refreshed' = refreshed \cup {item[w]}
      OBVIOUS
    <3>2. refreshed \subseteq 1 .. sent /\ 1 .. sent \subseteq Items
      OBVIOUS
    <3> QED BY <2>1, <3>1, <3>2 DEF Items
  <2>3. item' \in [Workers -> 0 .. Fleet] /\ pc' \in [Workers -> {"receive", "check", "probe", "left"}]
    OBVIOUS
  <2>7. PoolTypeOK'
    BY <2>2, <2>3 DEF IncrementJobDone
  <2>8. HoldsWhileBusy' /\ TakenWereSent'
    BY <2>1, <2>2, <2>3
  <2>4. NoneLost'
    OBVIOUS
  <2>5. NoDeviceTwice'
    BY <2>1
  <2>6. outcome = "running"
    OBVIOUS
  <2> QED BY <2>4, <2>5, <2>6, <2>7, <2>8
<1>4. CASE LeaveLoop(w)
  BY <1>4 DEF LeaveLoop
<1> QED BY <1>1, <1>2, <1>3, <1>4 DEF PoolWorkerStep

\* So does every step of the job itself.  The one that persists needs the
\* whole argument: all workers have left, so nothing is held; the channel was
\* closed, so everything was sent; nothing was cancelled, so nothing is lost.
LEMMA JobStepIndInv ==
    ASSUME IndInv, JobStep
    PROVE  IndInv'
<1> USE DEF IndInv, PoolTypeOK, HoldsWhileBusy, TakenWereSent, NoneLost,
            NoDeviceTwice, AllLeft, OnlyWholeFleetIsUpserted, Items
<1>1. CASE CloseWork
  BY <1>1 DEF CloseWork
<1>2. CASE EndCancelled
  BY <1>2 DEF EndCancelled
<1>3. CASE EndUncancelled
  <2> USE <1>3 DEF EndUncancelled
  <2>1. \A w \in Workers : item[w] = 0
    OBVIOUS
  <2>2. sent = Fleet
    OBVIOUS
  <2>3. \A i \in Items : i \in refreshed
    <3> SUFFICES ASSUME NEW i \in Items PROVE i \in refreshed
      OBVIOUS
    <3>1. i \in 1 .. sent /\ i # 0
      BY <2>2
    <3> QED BY <2>1, <3>1
  <2>4. refreshed = Items
    BY <2>3
  <2> QED BY <2>4
<1> QED BY <1>1, <1>2, <1>3 DEF JobStep

\* No step of the pool, and no cancellation, breaks the invariant.
LEMMA NextIndInv == IndInv /\ [PoolNext]_poolVars => IndInv'
<1> SUFFICES ASSUME IndInv, [PoolNext]_poolVars PROVE IndInv'
  OBVIOUS
<1>1. ASSUME NEW w \in Workers, PoolWorkerStep(w) PROVE IndInv'
  BY <1>1, WorkerStepIndInv
<1>2. CASE JobStep
  BY <1>2, JobStepIndInv
<1>3. CASE Cancel
  BY <1>3 DEF Cancel, IndInv, PoolTypeOK, HoldsWhileBusy, TakenWereSent, NoneLost,
              NoDeviceTwice, AllLeft, OnlyWholeFleetIsUpserted
<1>4. CASE UNCHANGED poolVars
  BY <1>4 DEF poolVars, IndInv, PoolTypeOK, HoldsWhileBusy, TakenWereSent, NoneLost,
              NoDeviceTwice, AllLeft, OnlyWholeFleetIsUpserted
<1> QED BY <1>1, <1>2, <1>3, <1>4 DEF PoolNext

\* The inductive invariant holds throughout every refresh job.
THEOREM IndInvHolds == PoolSpec => []IndInv
BY InitIndInv, NextIndInv, PTL DEF PoolSpec

\* UpsertDevices is only ever given the whole fleet (runRefreshJob), whatever
\* the size of the fleet, the pool and the moment of a cancellation.
THEOREM WholeFleet == PoolSpec => []OnlyWholeFleetIsUpserted
BY IndInvHolds, PTL DEF IndInv

\* No device is probed twice in one job.
THEOREM ExactlyOnce == PoolSpec => []NoDeviceTwice
BY IndInvHolds, PTL DEF IndInv

-----------------------------------------------------------------------------
(* The progress counter.  It counts cardinalities, so it has a proof of its *)
(* own on top of the inductive invariant.                                   *)

\* The workers that hold a device are finitely many.
LEMMA HoldingFinite == IsFiniteSet(Holding)
<1>1. IsFiniteSet(Workers)
  BY LimitIsPositive, FS_Interval DEF Workers
<1> QED BY <1>1, FS_Subset DEF Holding

\* A worker that takes a device joins them, one that is through with it leaves.
LEMMA HoldingGrows ==
    ASSUME NEW w \in Workers, w \notin Holding, Holding' = Holding \cup {w}
    PROVE  Cardinality(Holding)' = Cardinality(Holding) + 1
BY HoldingFinite, FS_AddElement

\* The other direction.
LEMMA HoldingShrinks ==
    ASSUME NEW w \in Workers, w \in Holding, Holding' = Holding \ {w}
    PROVE  Cardinality(Holding)' = Cardinality(Holding) - 1
BY HoldingFinite, FS_RemoveElement

\* The invariant of IncrementJobDone: a step counts a device only when a
\* worker is through with it.
LEMMA NextDoneIsHonest == IndInv /\ DoneIsHonest /\ [PoolNext]_poolVars => DoneIsHonest'
<1> SUFFICES ASSUME IndInv, DoneIsHonest, [PoolNext]_poolVars, outcome' = "running"
             PROVE  done' + Cardinality(Holding)' <= sent'
  BY DEF DoneIsHonest
<1> USE DEF IndInv, PoolTypeOK, HoldsWhileBusy, AllLeft
<1>1. Cardinality(Holding) \in Nat
  BY HoldingFinite, FS_CardinalityType
<1>2. ASSUME NEW w \in Workers, Send(w)
      PROVE  done' + Cardinality(Holding)' <= sent'
  <2> USE <1>2 DEF Send
  <2>1. w \notin Holding /\ Holding' = Holding \cup {w}
    BY DEF Holding
  <2>2. Cardinality(Holding)' = Cardinality(Holding) + 1
    BY <2>1, HoldingGrows
  <2> QED BY <1>1, <2>2 DEF DoneIsHonest
<1>3. ASSUME NEW w \in Workers, CheckContext(w) \/ Probed(w), item' = [item EXCEPT ![w] = 0]
      PROVE  done' + Cardinality(Holding)' <= sent'
  <2> USE <1>3 DEF CheckContext, Probed
  <2>1. w \in Holding /\ Holding' = Holding \ {w}
    BY DEF Holding
  <2>2. Cardinality(Holding)' = Cardinality(Holding) - 1
    BY <2>1, HoldingShrinks
  <2>3. done' \in {done, done + 1} /\ sent' = sent /\ outcome' = outcome
    BY DEF IncrementJobDone
  <2> QED BY <1>1, <2>2, <2>3 DEF DoneIsHonest
<1>4. ASSUME UNCHANGED <<item, done, sent, outcome>>
      PROVE  done' + Cardinality(Holding)' <= sent'
  BY <1>4 DEF Holding, DoneIsHonest
<1>5. CASE \E w \in Workers : PoolWorkerStep(w)
  <2>1. PICK w \in Workers : PoolWorkerStep(w)
    BY <1>5
  <2>2. CASE Send(w)
    BY <2>2, <1>2
  <2>3. CASE CheckContext(w)
    BY <2>3, <1>3, <1>4 DEF CheckContext
  <2>4. CASE Probed(w)
    BY <2>4, <1>3 DEF Probed
  <2>5. CASE LeaveLoop(w)
    BY <2>5, <1>4 DEF LeaveLoop
  <2> QED BY <2>1, <2>2, <2>3, <2>4, <2>5 DEF PoolWorkerStep
<1>6. CASE JobStep \/ Cancel \/ UNCHANGED poolVars
  <2>1. UNCHANGED <<item, done, sent, outcome>>
    BY <1>6 DEF JobStep, CloseWork, EndCancelled, EndUncancelled, Cancel, poolVars
  <2> QED BY <2>1, <1>4
<1> QED BY <1>5, <1>6 DEF PoolNext

\* The job starts with nothing sent, held or counted.
LEMMA InitDoneIsHonest == PoolInit => DoneIsHonest
<1> SUFFICES ASSUME PoolInit PROVE done + Cardinality(Holding) <= sent
  BY DEF DoneIsHonest
<1>1. Holding = {}
  BY DEF PoolInit, Holding
<1>2. Cardinality(Holding) = 0
  BY <1>1, FS_EmptySet
<1> QED BY <1>2 DEF PoolInit

\* The progress the UI polls (jobs.done) never exceeds the devices handed out
\* and no longer in a worker's hands, whichever IncrementJobDone calls fail.
THEOREM HonestProgress == PoolSpec => []DoneIsHonest
BY IndInvHolds, InitDoneIsHonest, NextDoneIsHonest, PTL DEF PoolSpec
=============================================================================
