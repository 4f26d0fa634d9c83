----------------------------- MODULE RefreshPool -----------------------------
(***************************************************************************)
(* The worker pool inside one refresh job (runRefreshJob).  The producer   *)
(* offers every device on an unbuffered channel; each worker takes one,    *)
(* looks at the context, probes the device and takes the next.  The        *)
(* context is cancelled when the client of POST /api/refresh goes away or  *)
(* the service stops.  A worker that takes a device after that drops it    *)
(* and leaves, while the producer's send does not look at the context.     *)
(***************************************************************************)
EXTENDS Integers, FiniteSets

CONSTANTS
    Fleet,            \* number of devices in the inventory
    ScanConcurrency   \* AppSettings.ScanConcurrency

ASSUME FleetAssumption == Fleet \in Nat /\ ScanConcurrency \in Int

\* boundedConcurrency of jobs/service.go.
BoundedConcurrency(value) ==
    IF value <= 0 THEN 32 ELSE IF value > 128 THEN 128 ELSE value

\* The number of workers: never more than devices, never none.
Limit ==
    LET bounded == BoundedConcurrency(ScanConcurrency)
        capped == IF bounded > Fleet THEN Fleet ELSE bounded
    IN  IF capped < 1 THEN 1 ELSE capped

Items == 1 .. Fleet
Workers == 1 .. Limit

VARIABLES
    sent,       \* devices handed to a worker so far
    closed,     \* close(work)
    pc,         \* where each worker is
    item,       \* the device each worker has taken, 0 for none
    refreshed,  \* the devices whose updated row is in the result
    done,       \* jobs.done, through IncrementJobDone
    cancelled,  \* ctx.Err() != nil
    outcome,    \* how the job has ended
    upserted    \* the devices UpsertDevices was called with

poolVars == <<sent, closed, pc, item, refreshed, done, cancelled, outcome, upserted>>

PoolInit ==
    /\ sent = 0
    /\ closed = FALSE
    /\ pc = [w \in Workers |-> "receive"]
    /\ item = [w \in Workers |-> 0]
    /\ refreshed = {}
    /\ done = 0
    /\ cancelled = FALSE
    /\ outcome = "running"
    /\ upserted = {}

-----------------------------------------------------------------------------
\* work <- device meets a worker that is ready to receive.
Send(w) ==
    /\ sent < Fleet
    /\ pc[w] = "receive"
    /\ sent' = sent + 1
    /\ item' = [item EXCEPT ![w] = sent + 1]
    /\ pc' = [pc EXCEPT ![w] = "check"]
    /\ UNCHANGED <<closed, refreshed, done, cancelled, outcome, upserted>>

\* IncrementJobDone.  A failing statement is only logged, and a row that a
\* stale gate has closed meanwhile is not touched: the device may go uncounted.
IncrementJobDone == done' \in {done, done + 1}

\* Faulty variant: the device is counted when it is taken, not when the worker
\* is through with it.
CheckContextCountsEarly(w) ==
    /\ pc[w] = "check"
    /\ pc' = [pc EXCEPT ![w] = IF cancelled THEN "left" ELSE "probe"]
    /\ item' = [item EXCEPT ![w] = IF cancelled THEN 0 ELSE @]
    /\ IncrementJobDone
    /\ UNCHANGED <<sent, closed, refreshed, cancelled, outcome, upserted>>

\* The worker looks at ctx.Done(): it leaves with the device counted as done
\* but not refreshed, or goes on to probe it.
CheckContext(w) ==
    /\ pc[w] = "check"
    /\ IF cancelled
       THEN /\ pc' = [pc EXCEPT ![w] = "left"]
            /\ item' = [item EXCEPT ![w] = 0]
            /\ IncrementJobDone
       ELSE /\ pc' = [pc EXCEPT ![w] = "probe"]
            /\ UNCHANGED <<item, done>>
    /\ UNCHANGED <<sent, closed, refreshed, cancelled, outcome, upserted>>

\* The probe returns, with whatever result, and the row joins the list.
Probed(w) ==
    /\ pc[w] = "probe"
    /\ refreshed' = refreshed \cup {item[w]}
    /\ IncrementJobDone
    /\ item' = [item EXCEPT ![w] = 0]
    /\ pc' = [pc EXCEPT ![w] = "receive"]
    /\ UNCHANGED <<sent, closed, cancelled, outcome, upserted>>

\* Faulty variant: close(work) is missing, so the workers wait for more.
CloseWorkMissing == FALSE

\* close(work), after the last send; idle workers fall out of their loop.
CloseWork ==
    /\ ~closed
    /\ sent = Fleet
    /\ closed' = TRUE
    /\ UNCHANGED <<sent, pc, item, refreshed, done, cancelled, outcome, upserted>>

\* Faulty variant: a worker leaves at the close only if it was not cancelled.
LeaveLoopUncancelled(w) ==
    /\ closed
    /\ ~cancelled
    /\ pc[w] = "receive"
    /\ pc' = [pc EXCEPT ![w] = "left"]
    /\ UNCHANGED <<sent, closed, item, refreshed, done, cancelled, outcome, upserted>>

\* range work ends at the close.
LeaveLoop(w) ==
    /\ closed
    /\ pc[w] = "receive"
    /\ pc' = [pc EXCEPT ![w] = "left"]
    /\ UNCHANGED <<sent, closed, item, refreshed, done, cancelled, outcome, upserted>>

\* wg.Wait has returned.
AllLeft == closed /\ \A w \in Workers : pc[w] = "left"

\* A cancelled job persists nothing and is marked interrupted.
EndCancelled ==
    /\ AllLeft
    /\ outcome = "running"
    /\ cancelled
    /\ outcome' = "interrupted"
    /\ UNCHANGED <<sent, closed, pc, item, refreshed, done, cancelled, upserted>>

\* Faulty variant: the context is not looked at after wg.Wait.
EndUncancelledUnchecked ==
    /\ AllLeft
    /\ outcome = "running"
    /\ \E ok \in BOOLEAN : /\ outcome' = IF ok THEN "completed" ELSE "failed"
                           /\ upserted' = IF ok THEN refreshed ELSE {}
    /\ done' \in {done, Fleet}
    /\ UNCHANGED <<sent, closed, pc, item, refreshed, cancelled>>

\* UpsertDevices(refreshed) commits or fails, then CompleteJob sets done; a
\* CompleteJob that fails is only logged.
EndUncancelled ==
    /\ AllLeft
    /\ outcome = "running"
    /\ ~cancelled
    /\ \E ok \in BOOLEAN : /\ outcome' = IF ok THEN "completed" ELSE "failed"
                           /\ upserted' = IF ok THEN refreshed ELSE {}
    /\ done' \in {done, Fleet}
    /\ UNCHANGED <<sent, closed, pc, item, refreshed, cancelled>>

\* The client disconnects, or Stop cancels the service context.
Cancel ==
    /\ ~cancelled
    /\ cancelled' = TRUE
    /\ UNCHANGED <<sent, closed, pc, item, refreshed, done, outcome, upserted>>

-----------------------------------------------------------------------------
PoolWorkerStep(w) == Send(w) \/ CheckContext(w) \/ Probed(w) \/ LeaveLoop(w)

JobStep == CloseWork \/ EndCancelled \/ EndUncancelled

PoolNext == (\E w \in Workers : PoolWorkerStep(w)) \/ JobStep \/ Cancel

PoolSpec == PoolInit /\ [][PoolNext]_poolVars

\* Runnable goroutines run, and a probe has a timeout.  Nothing forces a
\* cancellation.
FairSpec == /\ PoolSpec
            /\ \A w \in Workers : WF_poolVars(PoolWorkerStep(w))
            /\ WF_poolVars(JobStep)

-----------------------------------------------------------------------------
PoolTypeOK ==
    /\ sent \in 0 .. Fleet
    /\ closed \in BOOLEAN
    /\ pc \in [Workers -> {"receive", "check", "probe", "left"}]
    /\ item \in [Workers -> 0 .. Fleet]
    /\ refreshed \subseteq Items
    /\ done \in Nat
    /\ cancelled \in BOOLEAN
    /\ outcome \in {"running", "interrupted", "completed", "failed"}
    /\ upserted \subseteq Items

\* UpsertDevices counts a miss for every device that is not in its argument,
\* so it must never see a partial fleet: a job that completes has refreshed
\* every device, and one that was cancelled has written none.
OnlyWholeFleetIsUpserted ==
    /\ outcome = "completed" => upserted = Items
    /\ outcome # "completed" => upserted = {}

\* No device is probed by two workers, and none is probed again.
NoDeviceTwice ==
    /\ \A v, w \in Workers : v # w /\ item[v] # 0 => item[v] # item[w]
    /\ \A w \in Workers : item[w] \notin refreshed

\* The workers that hold a device.
Holding == {w \in Workers : item[w] # 0}

\* The progress the UI polls never runs ahead of the work: no device counts as
\* done before a worker has refreshed or dropped it, and none counts twice.
\* (It may fall behind, since a failed IncrementJobDone is only logged.)
DoneIsHonest == outcome = "running" => done + Cardinality(Holding) <= sent

\* The inductive invariant.  A worker holds a device exactly while it deals
\* with it...
HoldsWhileBusy == \A w \in Workers : item[w] # 0 <=> pc[w] \in {"check", "probe"}

\* ... every device taken has been sent...
TakenWereSent ==
    /\ \A w \in Workers : item[w] <= sent
    /\ refreshed \subseteq 1 .. sent
    /\ closed => sent = Fleet

\* ... and until the cancellation none of those sent is lost.
NoneLost ==
    ~cancelled => \A i \in 1 .. sent : i \in refreshed \/ \E w \in Workers : item[w] = i

\* Everything the pool maintains about the devices, in one inductive formula:
\* it is what the exactly-once and the whole-fleet property rest on.
IndInv ==
    /\ PoolTypeOK
    /\ HoldsWhileBusy
    /\ TakenWereSent
    /\ NoneLost
    /\ NoDeviceTwice
    /\ outcome # "running" => AllLeft
    /\ OnlyWholeFleetIsUpserted

\* A refresh that nobody cancels ends.
UncancelledEnds == <>(outcome # "running" \/ cancelled)

\* Once the last device has been handed out the job ends, even if it is
\* cancelled at that point.
EndsOnceAllSent == (sent = Fleet) ~> (outcome # "running")
=============================================================================
