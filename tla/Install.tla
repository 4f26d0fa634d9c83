------------------------------ MODULE Install -------------------------------
(***************************************************************************)
(* The firmware install job: one goroutine per target that triggers the     *)
(* update, leaves the device alone, then polls its version until it moves   *)
(* or the time is up.  Every change of a target's status is followed by a   *)
(* write of all statuses to the jobs row; the snapshot is taken under the   *)
(* job's mutex and written after it, so writes may overtake one another.    *)
(*                                                                          *)
(* Dev is the target that Device models; the others answer at will.         *)
(***************************************************************************)
EXTENDS Provision

CONSTANTS
    Targets,     \* devices of the job
    Dev,         \* the one that is dev
    QuietPeriod, \* firmware_install_quiet_period of the settings, in ticks
    Timeout,     \* firmware_install_timeout as saved
    Margin       \* polling window that Normalize keeps above the quiet period

ASSUME InstallAssumption ==
    /\ Dev \in Targets
    /\ QuietPeriod \in Nat /\ Timeout \in Nat /\ Margin \in Nat \ {0}

VARIABLES
    job,         \* "none", "running", "completed": status of the jobs row
    inst,        \* the goroutines
    results,     \* results, guarded by resMu
    jobRow,      \* the statuses in the jobs row
    stopping,    \* the shutdown context is cancelled
    moved        \* auxiliary: how the version of Dev can be another than the job's:
                 \* "outdated", the inventory row the job read had the wrong one;
                 \* "landed", "reverted", it went up, or down, while the job ran

installVars == <<job, inst, results, jobRow, stopping, moved>>

Terminal == {"current", "error", "unknown", "skipped"}
Statuses == Terminal \cup {"none", "pending", "updating"}

\* AppSettings.Normalize and the accessors of types.go.  Faulty variant: the
\* timeout is taken as saved.
DeadlineAsSaved == Timeout

Deadline == IF Timeout < QuietPeriod + Margin THEN QuietPeriod + Margin ELSE Timeout

\* then: where the goroutine goes once its snapshot is written.  polls: 1 once it
\* has asked for the version.
NoInst == [pc |-> "none", then |-> "none", elapsed |-> 0, from |-> 0, polls |-> 0,
           snap |-> [t \in Targets |-> "none"]]

InstState ==
    [pc : {"none", "trigger", "persist", "quiet", "check", "poll", "ended"},
     then : {"none", "quiet", "ended"}, elapsed : 0 .. Deadline + 1, from : 0 .. 2, polls : 0 .. 1,
     snap : [Targets -> Statuses]]

InstallInit ==
    /\ job = "none" /\ stopping = FALSE /\ moved = {}
    /\ inst = [t \in Targets |-> NoInst]
    /\ results = [t \in Targets |-> "none"] /\ jobRow = results

\* The job holds Dev in activeFirmware.
Held == job = "running" /\ inst[Dev].pc # "none" /\ results[Dev] # "skipped"

\* StartFirmwareInstall and the head of runFirmwareInstallJob: targets that a
\* provision holds are skipped and have no goroutine; the first progress is written
\* before any goroutine starts.
StartInstall ==
    LET busy == IF Provisioning = {} THEN {} ELSE {Dev}
        first == [t \in Targets |-> IF t \in busy THEN "skipped" ELSE "pending"]
    IN  /\ job # "running" /\ ~stopping
        /\ starts < MaxStarts /\ starts' = starts + 1
        /\ job' = "running"
        /\ results' = first
        /\ \/ jobRow' = first /\ UNCHANGED faults
           \/ Fault /\ jobRow' = [t \in Targets |-> "none"]
        /\ inst' = [t \in Targets |-> [NoInst EXCEPT !.pc = IF t \in busy THEN "ended" ELSE "trigger",
                                                    !.from = rowVer]]
        /\ moved' = IF dev.ver = rowVer THEN {} ELSE {"outdated"}
        /\ UNCHANGED <<stopping, authRow, rowVer, dev, work, reboots>>

\* setResult and the snapshot of persistProgress.
Report(t, status, then) ==
    /\ results' = [results EXCEPT ![t] = status]
    /\ inst' = [inst EXCEPT ![t].pc = "persist", ![t].then = then, ![t].snap = results']

\* UpdateJobProgress; an error is logged.
Persist(t) ==
    /\ inst[t].pc = "persist"
    /\ \/ jobRow' = inst[t].snap /\ UNCHANGED faults
       \/ Fault /\ UNCHANGED jobRow
    /\ inst' = [inst EXCEPT ![t].pc = inst[t].then, ![t].then = "none", ![t].snap = NoInst.snap]
    /\ UNCHANGED <<job, results, stopping, moved, dev, work, reboots, provisionVars>>

\* Shelly.Update and GetDeviceInfo on a client of their own: the challenge and
\* its answer are one step.
Admits == dev.password \in {Assigned, NoAuth}

\* TriggerUpdate, with a result or with an error; a lost answer is the error of an
\* update that runs.
Accepts(t) ==
    /\ t = Dev => Admits
    /\ dev' = IF t = Dev THEN Applied(dev, Op("Shelly.Update", 0)) ELSE dev
    /\ UNCHANGED faults

Errs(t) ==
    \/ (t = Dev => ~Admits) /\ UNCHANGED <<dev, faults>>
    \/ t = Dev /\ Fault /\ dev' \in {dev, Applied(dev, Op("Shelly.Update", 0))}

Trigger(t) ==
    /\ inst[t].pc = "trigger"
    /\ \/ stopping /\ Report(t, "unknown", "ended") /\ UNCHANGED <<dev, faults>>
       \/ ~stopping /\ Errs(t) /\ Report(t, "error", "ended")
       \/ ~stopping /\ Accepts(t) /\ Report(t, "updating", "quiet")
    /\ UNCHANGED <<job, jobRow, stopping, moved, work, reboots, provisionVars>>

\* The quiet period.
Quiet(t) ==
    /\ inst[t].pc = "quiet"
    /\ \/ stopping /\ Report(t, "unknown", "ended")
       \/ inst' = [inst EXCEPT ![t].pc = "check", ![t].elapsed = QuietPeriod] /\ UNCHANGED results
    /\ UNCHANGED <<job, jobRow, stopping, moved, deviceVars, provisionVars>>

\* Head of the loop, and the wait for the next poll.
Check(t) ==
    /\ inst[t].pc = "check"
    /\ \/ (stopping \/ inst[t].elapsed > Deadline) /\ Report(t, "unknown", "ended")
       \/ /\ ~stopping /\ inst[t].elapsed <= Deadline
          /\ inst' = [inst EXCEPT ![t].pc = "poll", ![t].elapsed = @ + 1]
          /\ UNCHANGED results
    /\ UNCHANGED <<job, jobRow, stopping, moved, deviceVars, provisionVars>>

\* Faulty variant: any version is taken for the new one.
MovedAlways(t, ver) == TRUE

Moved(t, ver) == ver # inst[t].from

\* No answer, no version, or the one it had.
PollAgain(t) ==
    /\ inst[t].pc = "poll"
    /\ inst' = [inst EXCEPT ![t].pc = "check", ![t].polls = 1]
    /\ UNCHANGED <<job, results, jobRow, stopping, moved, deviceVars, provisionVars>>

\* A version that is not the old one: the inventory row is read and written
\* again, and whether or not that fails the target is "current".
PollMoved(t) ==
    /\ inst[t].pc = "poll"
    /\ t = Dev => Admits /\ Moved(t, dev.ver)
    /\ \/ rowVer' = (IF t = Dev THEN dev.ver ELSE rowVer) /\ UNCHANGED faults
       \/ t = Dev /\ Fault /\ UNCHANGED rowVer
    /\ Report(t, "current", "ended")
    /\ UNCHANGED <<job, jobRow, stopping, moved, dev, work, reboots, authRow, starts>>

\* Faulty variant: the job is completed as soon as one target is through.
AllEndedSome == \E t \in Targets : inst[t].pc = "ended"

\* wg.Wait.
AllEnded == \A t \in Targets : inst[t].pc \in {"none", "ended"}

\* CompleteJob with the final results, whose error is logged, and the release of
\* the reservation.
Complete ==
    /\ job = "running" /\ AllEnded /\ \E t \in Targets : inst[t].pc = "ended"
    /\ \/ job' = "completed" /\ jobRow' = results /\ UNCHANGED faults
       \/ Fault /\ UNCHANGED <<job, jobRow>>
    /\ inst' = [t \in Targets |-> NoInst]
    /\ UNCHANGED <<results, stopping, moved, dev, work, reboots, provisionVars>>

\* Stop cancels the shutdown context, which only the job looks at.
Stop ==
    /\ job = "running" /\ ~stopping /\ stopping' = TRUE
    /\ UNCHANGED <<job, inst, results, jobRow, moved, deviceVars, provisionVars>>

TargetStep(t) ==
    Persist(t) \/ Trigger(t) \/ Quiet(t) \/ Check(t) \/ PollAgain(t) \/ PollMoved(t)
=============================================================================
