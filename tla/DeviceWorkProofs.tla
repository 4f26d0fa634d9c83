-------------------------- MODULE DeviceWorkProofs --------------------------
(***************************************************************************)
(* Proofs about DeviceWork, for every number of sessions, targets and       *)
(* mishaps, and for all templates, actions, passwords and settings.         *)
(*                                                                          *)
(* A session is described by SessionOK, which says of its record and of the *)
(* device how far the section it works on has come: what is still to be     *)
(* called, and what the calls made so far have put in force.  The job is    *)
(* described by JobHolds.  The two meet only in the device's version.       *)
(***************************************************************************)
EXTENDS DeviceWork, FiniteSetTheorems, TLAPS

-----------------------------------------------------------------------------
(* The job.                                                                *)

\* Goroutines run while the job does, and one that has ended, or never started,
\* has left a final status.
JobHolds ==
    /\ job # "running" => \A t \in Targets : inst[t].pc = "none"
    /\ job = "running" =>
         \A t \in Targets :
            inst[t].pc \in {"none", "ended"} \/ inst[t].then = "ended" => results[t] \in Terminal
    /\ \A t \in Targets : inst[t].pc = "persist" <=> inst[t].then # "none"
    /\ job = "completed" => \A t \in Targets : jobRow[t] \in Terminal

\* A goroutine that has not polled is at the end of the quiet period, which is
\* before the deadline.
PollsHold ==
    /\ PolledBeforeGivingUp
    /\ \A t \in Targets : inst[t].pc = "check" /\ inst[t].polls = 0 => inst[t].elapsed = QuietPeriod

\* The version the job compares with is the device's, unless it has moved.
VersionHolds ==
    /\ CurrentMeansUpdated
    /\ inst[Dev].pc # "none" /\ moved = {} => dev.ver = inst[Dev].from

-----------------------------------------------------------------------------
(* A session.                                                              *)

\* Calls.
Ops ==
    [method : Single, arg : SUBSET Seq(Names)]
    \cup [method : {"Set"}, arg : Names]
    \cup [method : {"Shelly.SetAuth"}, arg : [pass : Passwords, realm : 0 .. 1]]
    \cup [method : {"Webhook.Delete", "Webhook.Update", "Webhook.Create"}, arg : Hooks]
    \cup [method : {"Schedule.Delete"}, arg : ScheduleIds]
    \cup [method : {"Schedule.Create"}, arg : {"stable", "beta"}]
    \cup [method : {"Shelly.PutUserCA"}, arg : [data : Seq(Sessions \X {1, 2}), append : BOOLEAN]]
    \cup [method : {"invalid", "Webhook.DeleteAll", "Schedule.List"} \cup SetterMethods, arg : {0}]

\* The lists of a webhook section may hold elements of the wrong type.
HookPayload ==
    LET List == Seq(Hooks \cup {Misfit})
    IN  [delete_all : BOOLEAN, delete : List, update : List, create : List]

\* What Read leaves of a payload, whatever was in the template.
WellFormed(section, p) ==
    CASE section = "sys" -> p \subseteq Names
      [] section = "ws" -> p \in [server : Names, tls : Names, ca : Names]
      [] section \in {"ble", "mqtt"} -> p \subseteq Seq(Names)
      [] section \in {"kvs", "script", "gen2_rpc"} -> p \subseteq Names /\ IsFiniteSet(p)
      [] section = "auth" -> p \in Passwords
      [] section = "webhooks" -> p \in HookPayload
      [] section = "action" -> IsSetter(p)
      [] OTHER -> TRUE

\* The payload of the section that a session works on, as the code reads it.
Got(w) == Read(w.section, w.payload)

\* The configuration that a section of one SetConfig sends.
Wanted(section, p) ==
    CASE section = "sys" -> NormalizeSys(p)
      [] section = "ws" -> NormalizeWS(p)
      [] section = "ble" -> NormalizeBLE(p)
      [] OTHER -> p

SinglePlan(section, p, ops) ==
    \/ ops = <<Invalid>>
    \/ ops = <<Op(section, Wanted(section, p))>> /\ ~(section = "ws" /\ WSInvalid(p))

\* The call for an entry of a map.
EntryOp(section, e) == IF section # "kvs" /\ e = "odd" THEN Invalid ELSE Op("Set", e)

\* An entry is set, or its call is still to come.
EntriesPlan(d, section, p, ops) ==
    /\ \A i \in 1 .. Len(ops) : ops[i] = Invalid \/ ops[i].method = "Set"
    /\ \A e \in p : e \in d.items \/ \E i \in 1 .. Len(ops) : ops[i] = EntryOp(section, e)

\* Calls of a webhook section before the deletions, one by one.
Wipes(p) == IF p.delete_all THEN 1 ELSE 0

\* Calls of a webhook section before the creations.
Before(p) == Wipes(p) + Len(p.delete) + Len(p.update)

\* Creations of hook h among the first k calls.
Created(p, k, h) == {i \in DOMAIN p.create : i + Before(p) <= k /\ p.create[i] = h}

\* After the first k calls, a hook that was to go is there as often as it has been
\* created again.
HooksAfter(d, p, k) ==
    \A h \in Hooks :
       /\ d.hooks[h] >= Cardinality(Created(p, k, h))
       /\ \/ p.delete_all /\ k >= 1
          \/ \E i \in 1 .. Len(p.delete) : p.delete[i] = h /\ i + Wipes(p) <= k
          => d.hooks[h] = Cardinality(Created(p, k, h))

\* The calls still to come are the section's, but for the first k.
WebhooksPlan(d, p, ops) ==
    \E k \in 0 .. Len(WebhookOps(p)) :
       /\ Len(ops) = Len(WebhookOps(p)) - k
       /\ \A i \in 1 .. Len(ops) : ops[i] = WebhookOps(p)[k + i]
       /\ HooksAfter(d, p, k)

\* The last call creates the new entry, if there is to be one.
Creations(p) == IF p = "off" THEN 0 ELSE 1

\* The list is still to come, or a deletion is for every auto-update entry.
AutoUpdatePlan(d, p, ops) ==
    \/ ops = <<Invalid>>
    \/ /\ p \in {"off", "stable", "beta"}
       /\ Len(ops) >= Creations(p)
       /\ p # "off" => ops[Len(ops)] = Op("Schedule.Create", p)
       /\ \/ ops[1] = Op("Schedule.List", 0) /\ Len(ops) = 1 + Creations(p)
          \/ /\ \A i \in 1 .. Len(ops) - Creations(p) : ops[i].method = "Schedule.Delete"
             /\ \A id \in AutoJobs(d) :
                  \E i \in 1 .. Len(ops) - Creations(p) : ops[i] = Op("Schedule.Delete", id)

\* The chunks sent so far are in the buffer.
UploadPlan(d, ops) ==
    \E s \in Sessions :
       \/ ops = UploadOps(s)
       \/ ops = Tail(UploadOps(s)) /\ d.buffer = <<Chunks(s)[1]>>
       \/ ops = Tail(Tail(UploadOps(s))) /\ d.buffer = Chunks(s)

Plan(d, section, p, ops) ==
    CASE section \in Single -> SinglePlan(section, p, ops)
      [] section \in {"kvs", "script", "gen2_rpc"} -> EntriesPlan(d, section, p, ops)
      [] section = "auth" -> Len(ops) = 1 /\ ops[1].method = "Shelly.SetAuth" /\ ops[1].arg.pass = p
      [] section = "webhooks" -> WebhooksPlan(d, p, ops)
      [] section = "auto_update" -> AutoUpdatePlan(d, p, ops)
      [] section = "upload" -> UploadPlan(d, ops)
      [] section = "action" -> ops = <<p>>
      [] OTHER -> TRUE

WorkFields ==
    {"kind", "pc", "todo", "section", "payload", "ops", "status", "unauthorized", "failed", "creds",
     "nonce", "serial", "seen", "alone", "kept", "calm"}

WorkTyped(w) ==
    /\ DOMAIN w = WorkFields
    /\ w.kind \in {"none", "provision", "upload", "action"}
    /\ w.pc \in {"idle", "identify", "pick", "send", "retry"}
    /\ w.status \in {"none", "ok", "skipped", "failed"}
    /\ w.creds \in Credentials
    /\ w.nonce \in {"none", "fresh", "stale"}
    /\ w.serial \in 0 .. 1
    /\ w.pc = "idle" <=> w.kind = "none"
    /\ w.pc = "identify" => w.status = "none"
    /\ w.seen \in 1 .. 2
    /\ w.ops \in Seq(Ops)
    /\ w.pc \in {"send", "retry"} <=> w.ops # <<>>
    /\ \A entry \in w.todo : entry[1] \in Sections /\ RawPayload(entry[1], entry[2])

\* The credential, and the nonce of the challenge it answers, while they are right.
CredentialHolds(w, d) ==
    w.pc # "idle" =>
       /\ w.kept = 1 => d.password \in {w.creds, NoAuth}
       /\ w.pc = "retry" /\ w.calm = 1 => w.nonce = "fresh"

\* The section that is being applied, and the one that has been.
SectionHolds(w, d) ==
    w.alone = 1 =>
       /\ w.pc \in {"send", "retry"} => WellFormed(w.section, Got(w)) /\ Plan(d, w.section, Got(w), w.ops)
       /\ w.pc = "pick" /\ w.status = "ok" => InForce(d, w.section, Got(w))

SessionOK(w, d) == WorkTyped(w) /\ CredentialHolds(w, d) /\ SectionHolds(w, d)

SessionsOK == DOMAIN work = Sessions /\ \A s \in Sessions : SessionOK(work[s], dev)

-----------------------------------------------------------------------------
(* The inductive invariant.                                                *)

CountersTyped ==
    /\ faults \in 0 .. MaxFaults /\ reboots \in 0 .. MaxReboots /\ starts \in 0 .. MaxStarts
    /\ authRow \in BOOLEAN /\ rowVer \in 1 .. 2

JobTyped ==
    /\ stopping \in BOOLEAN /\ moved \subseteq {"outdated", "landed", "reverted"}
    /\ job \in {"none", "running", "completed"}
    /\ results \in [Targets -> Statuses] /\ jobRow \in [Targets -> Statuses]
    /\ inst \in [Targets -> InstState]

JobInv == JobTyped /\ JobHolds /\ PollsHold /\ VersionHolds

Inv == dev \in DeviceState /\ CountersTyped /\ SessionsOK /\ JobInv

-----------------------------------------------------------------------------
(* The job's steps.                                                        *)

LEMMA DeadlineIsLater == Deadline \in Nat /\ QuietPeriod \in Nat /\ QuietPeriod <= Deadline
    BY InstallAssumption DEF Deadline

LEMMA NoInstTyped ==
    NoInst \in InstState /\ NoInst.pc = "none" /\ NoInst.then = "none" /\ NoInst.from = 0 /\ NoInst.polls = 0
<1>1. NoInst.snap \in [Targets -> Statuses]
    BY DEF NoInst, Statuses
<1>. QED  BY <1>1, DeadlineIsLater DEF NoInst, InstState

\* What Report leaves of a goroutine.
LEMMA ReportDoes ==
    ASSUME JobTyped, NEW t \in Targets, NEW status \in Statuses, NEW then \in {"quiet", "ended"},
           Report(t, status, then)
    PROVE  /\ inst' \in [Targets -> InstState] /\ results' \in [Targets -> Statuses]
           /\ results'[t] = status /\ inst'[t].pc = "persist" /\ inst'[t].then = then
           /\ inst'[t].polls = inst[t].polls /\ inst'[t].from = inst[t].from
           /\ \A u \in Targets : u # t => inst'[u] = inst[u] /\ results'[u] = results[u]
<1>1. results' \in [Targets -> Statuses] /\ results'[t] = status
      /\ \A u \in Targets : u # t => results'[u] = results[u]
    BY DEF Report, JobTyped
<1> DEFINE i == [inst[t] EXCEPT !.pc = "persist", !.then = then, !.snap = results']
<1>2. inst' = [inst EXCEPT ![t] = i] /\ inst \in [Targets -> InstState] /\ inst[t] \in InstState
    BY DEF Report, JobTyped
<1>3. i \in InstState /\ i.pc = "persist" /\ i.then = then /\ i.polls = inst[t].polls /\ i.from = inst[t].from
    BY <1>1, <1>2 DEF InstState
<1> HIDE DEF i
<1>. QED  BY <1>1, <1>2, <1>3

\* A goroutine moves on without a report.
LEMMA MoveDoes ==
    ASSUME JobTyped, NEW t \in Targets, NEW i \in InstState, inst' = [inst EXCEPT ![t] = i]
    PROVE  inst' \in [Targets -> InstState] /\ inst'[t] = i /\ \A u \in Targets : u # t => inst'[u] = inst[u]
    BY DEF JobTyped

\* TriggerUpdate changes nothing of the device that a session or the job reads.
LEMMA UpdateDoes ==
    ASSUME NEW d \in DeviceState, NEW e, e = Applied(d, Op("Shelly.Update", 0))
    PROVE  e \in DeviceState /\ e.ver = d.ver /\ Config(e) = Config(d)
<1>1. e = [d EXCEPT !.ota = BoolToInt(d.ver = 1)]
    BY DEF Applied, Op, Single
<1>2. BoolToInt(d.ver = 1) \in 0 .. 1
    BY DEF BoolToInt
<1>. QED  BY <1>1, <1>2 DEF DeviceState, Config

\* A goroutine that reports leaves the job as it should be.
LEMMA ReportKeeps ==
    ASSUME JobInv, NEW t \in Targets, NEW status \in Statuses, NEW then \in {"quiet", "ended"},
           inst[t].pc \notin {"none", "ended", "persist"}, Report(t, status, then),
           UNCHANGED <<job, jobRow, stopping, moved>>, dev'.ver = dev.ver,
           then = "ended" => status \in Terminal,
           status = "unknown" /\ ~stopping => inst[t].polls = 1,
           t = Dev /\ status = "current" => moved # {}
    PROVE  JobInv'
<1>1. /\ inst' \in [Targets -> InstState] /\ results' \in [Targets -> Statuses]
      /\ results'[t] = status /\ inst'[t].pc = "persist" /\ inst'[t].then = then
      /\ inst'[t].polls = inst[t].polls /\ inst'[t].from = inst[t].from
      /\ \A u \in Targets : u # t => inst'[u] = inst[u] /\ results'[u] = results[u]
    BY ReportDoes DEF JobInv
<1>2. job = "running"
    BY DEF JobInv, JobHolds
<1>3. JobTyped'
    BY <1>1 DEF JobInv, JobTyped
<1>4. JobHolds'
    BY <1>1, <1>2 DEF JobInv, JobHolds
<1>5. PollsHold'
    BY <1>1 DEF JobInv, PollsHold, PolledBeforeGivingUp
<1>6. VersionHolds'
    BY <1>1, InstallAssumption DEF JobInv, JobTyped, VersionHolds, CurrentMeansUpdated
<1>. QED  BY <1>3, <1>4, <1>5, <1>6 DEF JobInv

\* So does one that waits or polls without a result.
LEMMA MoveKeeps ==
    ASSUME JobInv, NEW t \in Targets, NEW i \in InstState, inst' = [inst EXCEPT ![t] = i],
           inst[t].pc \notin {"none", "ended", "persist"}, i.pc \notin {"none", "ended", "persist"},
           i.then = inst[t].then, i.from = inst[t].from,
           i.pc = "check" /\ i.polls = 0 => i.elapsed = QuietPeriod,
           inst[t].polls = 1 => i.polls = 1,
           UNCHANGED <<job, jobRow, stopping, moved, results>>, dev'.ver = dev.ver
    PROVE  JobInv'
<1>1. inst' \in [Targets -> InstState] /\ inst'[t] = i /\ \A u \in Targets : u # t => inst'[u] = inst[u]
    BY MoveDoes DEF JobInv
<1>2. JobTyped'
    BY <1>1 DEF JobInv, JobTyped
<1>3. JobHolds'
    BY <1>1 DEF JobInv, JobHolds
<1>4. PollsHold'
    BY <1>1 DEF JobInv, PollsHold, PolledBeforeGivingUp
<1>5. VersionHolds'
    BY <1>1, InstallAssumption DEF JobInv, JobTyped, VersionHolds, CurrentMeansUpdated
<1>. QED  BY <1>2, <1>3, <1>4, <1>5 DEF JobInv

LEMMA PersistKeeps ==
    ASSUME JobInv, NEW t \in Targets, Persist(t)
    PROVE  JobInv'
<1> DEFINE i == [inst[t] EXCEPT !.pc = inst[t].then, !.then = "none", !.snap = NoInst.snap]
<1>1. inst[t] \in InstState /\ inst[t].pc = "persist" /\ inst[t].then \in {"quiet", "ended"}
    BY DEF Persist, JobInv, JobTyped, JobHolds, InstState
<1>2. /\ i \in InstState /\ i.pc = inst[t].then /\ i.then = "none"
      /\ i.from = inst[t].from /\ i.polls = inst[t].polls
    BY <1>1, NoInstTyped DEF InstState
<1>3. inst' = [inst EXCEPT ![t] = i] /\ UNCHANGED <<job, results, stopping, moved, dev>>
    BY DEF Persist
<1>4. jobRow' = jobRow \/ jobRow' = inst[t].snap
    BY DEF Persist
<1> HIDE DEF i
<1>5. inst' \in [Targets -> InstState] /\ inst'[t] = i /\ \A u \in Targets : u # t => inst'[u] = inst[u]
    BY <1>2, <1>3, MoveDoes DEF JobInv
<1>6. JobTyped'
    BY <1>1, <1>3, <1>4, <1>5 DEF JobInv, JobTyped, InstState
<1>7. job = "running"
    BY <1>1 DEF JobInv, JobHolds
<1>8. JobHolds'
    BY <1>1, <1>2, <1>3, <1>5, <1>7 DEF JobInv, JobHolds
<1>9. PollsHold'
    BY <1>1, <1>2, <1>3, <1>5 DEF JobInv, PollsHold, PolledBeforeGivingUp
<1>10. VersionHolds'
    BY <1>1, <1>2, <1>3, <1>5, InstallAssumption DEF JobInv, VersionHolds, CurrentMeansUpdated
<1>. QED  BY <1>6, <1>8, <1>9, <1>10 DEF JobInv

LEMMA TriggerKeeps ==
    ASSUME JobInv, dev \in DeviceState, NEW t \in Targets, Trigger(t)
    PROVE  JobInv' /\ dev' \in DeviceState /\ Config(dev') = Config(dev)
<1>1. inst[t].pc = "trigger" /\ UNCHANGED <<job, jobRow, stopping, moved>>
    BY DEF Trigger
<1>2. dev' = dev \/ dev' = Applied(dev, Op("Shelly.Update", 0))
    BY DEF Trigger, Errs, Accepts
<1>3. dev' \in DeviceState /\ dev'.ver = dev.ver /\ Config(dev') = Config(dev)
    BY <1>2, UpdateDoes
<1>4. CASE stopping /\ Report(t, "unknown", "ended")
    BY <1>1, <1>3, <1>4, ReportKeeps DEF Statuses, Terminal
<1>5. CASE Report(t, "error", "ended")
    BY <1>1, <1>3, <1>5, ReportKeeps DEF Statuses, Terminal
<1>6. CASE Report(t, "updating", "quiet")
    BY <1>1, <1>3, <1>6, ReportKeeps DEF Statuses, Terminal
<1>. QED  BY <1>3, <1>4, <1>5, <1>6 DEF Trigger

LEMMA QuietKeeps ==
    ASSUME JobInv, NEW t \in Targets, Quiet(t)
    PROVE  JobInv'
<1>1. inst[t].pc = "quiet" /\ UNCHANGED <<job, jobRow, stopping, moved, dev>>
    BY DEF Quiet, deviceVars
<1>2. CASE stopping /\ Report(t, "unknown", "ended")
    BY <1>1, <1>2, ReportKeeps DEF Statuses, Terminal
<1>3. CASE inst' = [inst EXCEPT ![t].pc = "check", ![t].elapsed = QuietPeriod] /\ UNCHANGED results
    <2> DEFINE i == [inst[t] EXCEPT !.pc = "check", !.elapsed = QuietPeriod, !.polls = inst[t].polls]
    <2>0. i = [inst[t] EXCEPT !.pc = "check", !.elapsed = QuietPeriod, !.polls = inst[t].polls]
        OBVIOUS
    <2> HIDE DEF i
    <2>1. inst[t] \in InstState /\ inst[t].polls \in 0 .. 1
        BY DEF JobInv, JobTyped, InstState
    <2>2. QuietPeriod \in 0 .. Deadline + 1
        BY DeadlineIsLater
    <2>3. /\ i \in InstState /\ i.pc = "check" /\ i.elapsed = QuietPeriod /\ i.then = inst[t].then
          /\ i.from = inst[t].from /\ i.polls = inst[t].polls
        BY <2>0, <2>1, <2>2 DEF InstState
    <2>4. i = [inst[t] EXCEPT !.pc = "check", !.elapsed = QuietPeriod]
        BY <2>0, <2>1 DEF InstState
    <2>5. inst' = [inst EXCEPT ![t] = i]
        BY <1>3, <2>4
    <2>6. UNCHANGED <<job, jobRow, stopping, moved, results>> /\ dev'.ver = dev.ver
        BY <1>1, <1>3
    <2>7. inst[t].pc \notin {"none", "ended", "persist"} /\ i.pc \notin {"none", "ended", "persist"}
        BY <1>1, <2>3
    <2>. QED  BY <2>3, <2>5, <2>6, <2>7, MoveKeeps
<1>. QED  BY <1>2, <1>3 DEF Quiet

LEMMA CheckKeeps ==
    ASSUME JobInv, NEW t \in Targets, Check(t)
    PROVE  JobInv'
<1>1. inst[t].pc = "check" /\ UNCHANGED <<job, jobRow, stopping, moved, dev>>
    BY DEF Check, deviceVars
<1>2. inst[t] \in InstState
    BY DEF JobInv, JobTyped
<1>3. CASE (stopping \/ inst[t].elapsed > Deadline) /\ Report(t, "unknown", "ended")
    <2>1. stopping \/ inst[t].polls = 1
        BY <1>1, <1>2, <1>3, DeadlineIsLater DEF JobInv, PollsHold, InstState
    <2>. QED  BY <1>1, <1>3, <2>1, ReportKeeps DEF Statuses, Terminal
<1>4. CASE /\ inst[t].elapsed <= Deadline
           /\ inst' = [inst EXCEPT ![t].pc = "poll", ![t].elapsed = @ + 1] /\ UNCHANGED results
    <2> DEFINE i == [inst[t] EXCEPT !.pc = "poll", !.elapsed = inst[t].elapsed + 1, !.polls = inst[t].polls]
    <2>0. i = [inst[t] EXCEPT !.pc = "poll", !.elapsed = inst[t].elapsed + 1, !.polls = inst[t].polls]
        OBVIOUS
    <2> HIDE DEF i
    <2>1. inst[t].elapsed + 1 \in 0 .. Deadline + 1 /\ inst[t].polls \in 0 .. 1
        BY <1>2, <1>4, DeadlineIsLater DEF InstState
    <2>2. /\ i \in InstState /\ i.pc = "poll" /\ i.then = inst[t].then
          /\ i.from = inst[t].from /\ i.polls = inst[t].polls
        BY <2>0, <1>2, <2>1 DEF InstState
    <2>3. i = [inst[t] EXCEPT !.pc = "poll", !.elapsed = @ + 1]
        BY <2>0, <1>2 DEF InstState
    <2>4. inst' = [inst EXCEPT ![t] = i]
        BY <1>4, <2>3
    <2>5. UNCHANGED <<job, jobRow, stopping, moved, results>> /\ dev'.ver = dev.ver
        BY <1>1, <1>4
    <2>6. inst[t].pc \notin {"none", "ended", "persist"} /\ i.pc \notin {"none", "ended", "persist"}
        BY <1>1, <2>2
    <2>. QED  BY <2>2, <2>4, <2>5, <2>6, MoveKeeps
<1>. QED  BY <1>3, <1>4 DEF Check

LEMMA PollKeeps ==
    ASSUME JobInv, NEW t \in Targets, PollAgain(t) \/ PollMoved(t)
    PROVE  JobInv'
<1>1. inst[t].pc = "poll" /\ UNCHANGED <<job, jobRow, stopping, moved, dev>>
    BY DEF PollAgain, PollMoved, deviceVars
<1>2. CASE PollAgain(t)
    <2> DEFINE i == [inst[t] EXCEPT !.pc = "check", !.elapsed = inst[t].elapsed, !.polls = 1]
    <2>0. i = [inst[t] EXCEPT !.pc = "check", !.elapsed = inst[t].elapsed, !.polls = 1]
        OBVIOUS
    <2> HIDE DEF i
    <2>1. inst[t] \in InstState /\ inst[t].elapsed \in 0 .. Deadline + 1 /\ 1 \in 0 .. 1
        BY DEF JobInv, JobTyped, InstState
    <2>2. i \in InstState /\ i.pc = "check" /\ i.then = inst[t].then /\ i.from = inst[t].from /\ i.polls = 1
        BY <2>0, <2>1 DEF InstState
    <2>3. i = [inst[t] EXCEPT !.pc = "check", !.polls = 1]
        BY <2>0, <2>1 DEF InstState
    <2>4. inst' = [inst EXCEPT ![t] = i] /\ UNCHANGED results
        BY <1>2, <2>3 DEF PollAgain
    <2>5. i.polls # 0
        BY <2>2
    <2>6. UNCHANGED <<job, jobRow, stopping, moved, results>> /\ dev'.ver = dev.ver
        BY <1>1, <2>4
    <2>7. inst[t].pc \notin {"none", "ended", "persist"} /\ i.pc \notin {"none", "ended", "persist"}
        BY <1>1, <2>2
    <2>. QED  BY <2>2, <2>4, <2>5, <2>6, <2>7, MoveKeeps
<1>3. CASE PollMoved(t)
    <2>1. t = Dev => moved # {}
        BY <1>1, <1>3 DEF PollMoved, Moved, JobInv, VersionHolds, JobTyped
    <2>. QED  BY <1>1, <1>3, <2>1, ReportKeeps DEF PollMoved, Statuses, Terminal
<1>. QED  BY <1>2, <1>3

\* Start, end and cancellation of the job.
LEMMA JobKeeps ==
    ASSUME JobInv, dev \in DeviceState, rowVer \in 1 .. 2, StartInstall \/ Complete \/ Stop
    PROVE  JobInv'
<1>1. CASE StartInstall
    <2> DEFINE busy == IF Provisioning = {} THEN {} ELSE {Dev}
               first == [t \in Targets |-> IF t \in busy THEN "skipped" ELSE "pending"]
               i(t) == [NoInst EXCEPT !.pc = IF t \in busy THEN "ended" ELSE "trigger", !.from = rowVer]
    <2>1. /\ job' = "running" /\ results' = first /\ jobRow' \in [Targets -> Statuses]
          /\ inst' = [t \in Targets |-> i(t)]
          /\ moved' = (IF dev.ver = rowVer THEN {} ELSE {"outdated"}) /\ UNCHANGED <<stopping, dev>>
        BY <1>1 DEF StartInstall, Statuses, Terminal
    <2> HIDE DEF busy
    <2>2. ASSUME NEW t \in Targets
          PROVE  /\ i(t) \in InstState /\ i(t).then = "none" /\ i(t).from = rowVer
                 /\ i(t).pc = IF t \in busy THEN "ended" ELSE "trigger"
        <3>1. rowVer \in 0 .. 2 /\ NoInst \in InstState /\ NoInst.then = "none"
            BY NoInstTyped
        <3>2. CASE t \in busy
            BY <3>1, <3>2 DEF InstState
        <3>3. CASE t \notin busy
            BY <3>1, <3>3 DEF InstState
        <3>. QED  BY <3>2, <3>3
    <2> HIDE DEF i
    <2>3. JobTyped'
        BY <2>1, <2>2 DEF JobInv, JobTyped, Statuses, Terminal
    <2>4. JobHolds'
        BY <2>1, <2>2 DEF JobHolds, Terminal
    <2>5. PollsHold'
        BY <2>1, <2>2 DEF PollsHold, PolledBeforeGivingUp
    <2>6. VersionHolds'
        BY <2>1, <2>2, InstallAssumption DEF VersionHolds, CurrentMeansUpdated
    <2>. QED  BY <2>3, <2>4, <2>5, <2>6 DEF JobInv
<1>2. CASE Complete
    <2>1. /\ job = "running" /\ \A t \in Targets : inst[t].pc \in {"none", "ended"}
          /\ inst' = [t \in Targets |-> NoInst] /\ UNCHANGED <<results, stopping, moved, dev>>
          /\ (job' = "completed" /\ jobRow' = results) \/ UNCHANGED <<job, jobRow>>
        BY <1>2 DEF Complete, AllEnded
    <2>2. \A t \in Targets : results[t] \in Terminal
        BY <2>1 DEF JobInv, JobHolds
    <2>3. JobTyped'
        BY <2>1, NoInstTyped DEF JobInv, JobTyped
    <2>4. JobHolds'
        BY <2>1, <2>2, NoInstTyped DEF JobHolds
    <2>5. PollsHold'
        BY <2>1, NoInstTyped DEF PollsHold, PolledBeforeGivingUp
    <2>6. VersionHolds'
        BY <2>1, NoInstTyped, InstallAssumption DEF JobInv, VersionHolds, CurrentMeansUpdated
    <2>. QED  BY <2>3, <2>4, <2>5, <2>6 DEF JobInv
<1>3. CASE Stop
    BY <1>3 DEF Stop, deviceVars, JobInv, JobTyped, JobHolds, PollsHold, PolledBeforeGivingUp,
                VersionHolds, CurrentMeansUpdated
<1>. QED  BY <1>1, <1>2, <1>3

\* A step beside the job: the version of the device may move.
LEMMA BesideKeeps ==
    ASSUME JobInv, UNCHANGED <<job, inst, results, jobRow, stopping>>,
           dev.ver \in 1 .. 2, dev'.ver \in 1 .. 2,
           moved' = moved \cup {how \in {"landed", "reverted"} :
                                  /\ job = "running"
                                  /\ IF how = "landed" THEN dev'.ver > dev.ver ELSE dev'.ver < dev.ver}
    PROVE  JobInv'
<1>0. /\ moved \subseteq moved' /\ moved' \subseteq moved \cup {"landed", "reverted"}
      /\ moved' = {} => moved = {} /\ (job = "running" => dev'.ver = dev.ver)
    OBVIOUS
<1>1. JobTyped' /\ JobHolds' /\ PollsHold'
    BY <1>0 DEF JobInv, JobTyped, JobHolds, PollsHold, PolledBeforeGivingUp
<1>2. VersionHolds'
    BY <1>0, InstallAssumption DEF JobInv, JobTyped, JobHolds, VersionHolds, CurrentMeansUpdated
<1>. QED  BY <1>1, <1>2 DEF JobInv

-----------------------------------------------------------------------------
(* The calls of a section.                                                 *)

\* The values of a function on a finite set.
LEMMA FiniteImage ==
    ASSUME NEW S, IsFiniteSet(S), NEW f, DOMAIN f = S
    PROVE  IsFiniteSet({f[x] : x \in S})
<1> DEFINE T == {f[x] : x \in S}
           g == [x \in S |-> f[x]]
<1>1. g \in Surjection(S, T)
    BY DEF Surjection
<1> HIDE DEF g, T
<1>2. IsFiniteSet(T)
    BY <1>1, FS_Surjection
<1>. QED  BY <1>2 DEF T

\* SetToSeqs: a sequence of the elements of S that leaves none out.
LEMMA AllInOrder ==
    ASSUME NEW S, IsFiniteSet(S), NEW f \in SetToSeqs(S)
    PROVE  f \in Seq(S) /\ Len(f) = Cardinality(S) /\ \A x \in S : \E i \in 1 .. Len(f) : f[i] = x
<1> DEFINE n == Cardinality(S)
<1>1. n \in Nat
    BY FS_CardinalityType
<1>2. f \in [1 .. n -> S] /\ \A i, j \in 1 .. n : i # j => f[i] # f[j]
    BY DEF SetToSeqs
<1>3. f \in Seq(S) /\ Len(f) = n
    BY <1>1, <1>2
<1> DEFINE D == 1 .. n
<1>4. IsFiniteSet(D) /\ Cardinality(D) = Cardinality(S)
    BY <1>1, FS_Interval
<1>5. f \in Injection(D, S)
    BY <1>2 DEF Injection, IsInjective
<1> HIDE DEF D
<1>6. f \in Surjection(D, S)
    BY <1>4, <1>5, FS_Injection
<1>. QED  BY <1>3, <1>6 DEF Surjection, D

\* A few different strings.
Short(q) ==
    /\ Len(q) \in 1 .. 3 /\ DOMAIN q = 1 .. Len(q)
    /\ \A i, j \in 1 .. Len(q) : i # j => q[i] # q[j]

LEMMA ShortOnes ==
    /\ \A a : Short(<<a>>)
    /\ \A a, b : a # b => Short(<<a, b>>)
    /\ \A a, b, c : a # b /\ a # c /\ b # c => Short(<<a, b, c>>)
<1>1. ASSUME NEW a, NEW b, NEW c, a # b, a # c, b # c
      PROVE  Short(<<a, b, c>>)
    <2> DEFINE q == <<a, b, c>>
    <2>1. Len(q) = 3 /\ DOMAIN q = 1 .. 3 /\ q[1] = a /\ q[2] = b /\ q[3] = c
        OBVIOUS
    <2> HIDE DEF q
    <2>2. Short(q)
        BY <1>1, <2>1 DEF Short
    <2>. QED  BY <2>2 DEF q
<1>2. ASSUME NEW a, NEW b, a # b
      PROVE  Short(<<a, b>>)
    <2> DEFINE q == <<a, b>>
    <2>1. Len(q) = 2 /\ DOMAIN q = 1 .. 2 /\ q[1] = a /\ q[2] = b
        OBVIOUS
    <2> HIDE DEF q
    <2>2. Short(q)
        BY <1>2, <2>1 DEF Short
    <2>. QED  BY <2>2 DEF q
<1>3. ASSUME NEW a
      PROVE  Short(<<a>>)
    <2> DEFINE q == <<a>>
    <2>1. Len(q) = 1 /\ DOMAIN q = 1 .. 1
        OBVIOUS
    <2> HIDE DEF q
    <2>2. Short(q)
        BY <2>1 DEF Short
    <2>. QED  BY <2>2 DEF q
<1>. QED  BY <1>1, <1>2, <1>3

\* The names of a field of the sys section are a few different strings.
LEMMA SourcesTyped ==
    ASSUME NEW f \in DOMAIN SysSources
    PROVE  Short(SysSources[f])
<1>1. f \in {"name", "lat", "lon", "rpc_udp", "profile"}
    BY DEF SysSources
<1>2. Short(SysSources["name"])
    BY ShortOnes DEF SysSources
<1>3. Short(SysSources["lat"])
    BY ShortOnes DEF SysSources
<1>4. Short(SysSources["lon"])
    BY ShortOnes DEF SysSources
<1>5. Short(SysSources["rpc_udp"])
    BY ShortOnes DEF SysSources
<1>6. Short(SysSources["profile"])
    BY ShortOnes DEF SysSources
<1>. QED  BY <1>1, <1>2, <1>3, <1>4, <1>5, <1>6

\* SysChosen is the first name that the payload has.
LEMMA ChosenIsFirst ==
    ASSUME NEW p, NEW f \in DOMAIN SysSources
    PROVE  \/ /\ SysChosen(p, f) = 0
              /\ \A i \in 1 .. Len(SysSources[f]) : SysSources[f][i] \notin p
           \/ /\ SysChosen(p, f) \in 1 .. Len(SysSources[f])
              /\ SysSources[f][SysChosen(p, f)] \in p
              /\ \A i \in 1 .. Len(SysSources[f]) : SysSources[f][i] \in p => SysChosen(p, f) <= i
<1> DEFINE q == SysSources[f]
           I == {i \in 1 .. Len(q) : q[i] \in p}
<1>1. SysChosen(p, f) = IF I # {} THEN Min(I) ELSE 0
    BY DEF SysChosen, SelectInSeq
<1>2. Len(q) \in 1 .. 3
    BY SourcesTyped DEF Short
<1> HIDE DEF q
<1>3. ASSUME I # {} PROVE \E x \in I : \A y \in I : x =< y
    <2>1. CASE 1 \in I
        BY <1>2, <2>1
    <2>2. CASE 1 \notin I /\ 2 \in I
        BY <1>2, <2>2
    <2>3. CASE 1 \notin I /\ 2 \notin I
        BY <1>2, <1>3, <2>3
    <2>. QED  BY <2>1, <2>2, <2>3
<1>4. I # {} => Min(I) \in I /\ \A y \in I : Min(I) =< y
    BY <1>3 DEF Min
<1>5. I = {} => \A i \in 1 .. Len(q) : q[i] \notin p
    OBVIOUS
<1>6. I # {} => /\ Min(I) \in 1 .. Len(q) /\ q[Min(I)] \in p
                /\ \A i \in 1 .. Len(q) : q[i] \in p => Min(I) <= i
    BY <1>4
<1> HIDE DEF I
<1>. QED  BY <1>1, <1>5, <1>6 DEF q

LEMMA NormalizeSysTyped ==
    ASSUME NEW p \in SUBSET Names
    PROVE  NormalizeSys(p) \in SUBSET Seq(Names)
<1> SUFFICES ASSUME NEW f \in DOMAIN SysSources, SysChosen(p, f) # 0
             PROVE  <<f, SysSources[f][SysChosen(p, f)]>> \in Seq(Names)
    BY DEF NormalizeSys
<1>1. f \in Names /\ SysSources[f][SysChosen(p, f)] \in Names
    BY ChosenIsFirst, ProvisionAssumption
<1>. QED  BY <1>1

\* What normalizeSysPayload makes of a payload is what the payload asked for.
LEMMA SysInForce ==
    ASSUME NEW d, NEW p, d.conf["sys"] = NormalizeSys(p)
    PROVE  InForce(d, "sys", p)
<1> SUFFICES ASSUME NEW f \in DOMAIN SysSources, NEW i \in DOMAIN SysSources[f], SysSources[f][i] \in p
             PROVE  /\ \E j \in 1 .. i : SysSources[f][j] \in p /\ <<f, SysSources[f][j]>> \in d.conf.sys
                    /\ \A j \in i + 1 .. Len(SysSources[f]) : <<f, SysSources[f][j]>> \notin d.conf.sys
    BY DEF InForce
<1> DEFINE q == SysSources[f]
           c == SysChosen(p, f)
<1>1. /\ i \in 1 .. Len(q) /\ Len(q) \in 1 .. 3
      /\ \A k, j \in 1 .. Len(q) : k # j => q[k] # q[j]
    BY SourcesTyped DEF Short
<1>2. c \in 1 .. Len(q) /\ q[c] \in p /\ c <= i
    BY <1>1, ChosenIsFirst
<1>3. <<f, q[c]>> \in NormalizeSys(p)
    BY <1>1, <1>2 DEF NormalizeSys
<1>4. ASSUME NEW j \in i + 1 .. Len(q), <<f, q[j]>> \in NormalizeSys(p) PROVE FALSE
    <2>1. PICK g \in DOMAIN SysSources : <<f, q[j]>> = <<g, SysSources[g][SysChosen(p, g)]>>
        BY <1>4 DEF NormalizeSys
    <2>2. q[j] = q[c]
        BY <2>1
    <2>. QED  BY <1>1, <1>2, <2>2
<1> HIDE DEF q, c
<1>5. d.conf.sys = NormalizeSys(p)
    OBVIOUS
<1>6. \E j \in 1 .. i : q[j] \in p /\ <<f, q[j]>> \in d.conf.sys
    BY <1>1, <1>2, <1>3, <1>5
<1>. QED  BY <1>4, <1>5, <1>6 DEF q

\* A call, and a sequence of one call.
LEMMA OneCall ==
    ASSUME NEW op \in Ops
    PROVE  <<op>> \in Seq(Ops) /\ Len(<<op>>) = 1 /\ <<op>>[1] = op /\ <<op>> # <<>>
    OBVIOUS

LEMMA InvalidTyped == Invalid \in Ops /\ Invalid.method = "invalid"
    BY DEF Invalid, Op, Ops

LEMMA NormalizeWSTyped ==
    ASSUME NEW p \in [server : Names, tls : Names, ca : Names]
    PROVE  NormalizeWS(p) \in SUBSET Seq(Names)
<1>1. "server" \in Names /\ "ssl_ca" \in Names /\ "*" \in Names
    BY ProvisionAssumption
<1>2. p.server \in Names /\ p.ca \in Names
    OBVIOUS
<1>3. <<"server", p.server>> \in Seq(Names) /\ <<"ssl_ca", "*">> \in Seq(Names) /\ <<"ssl_ca", p.ca>> \in Seq(Names)
    BY <1>1, <1>2
<1>. QED  BY <1>3 DEF NormalizeWS

\* A section of one SetConfig.
LEMMA SingleStarts ==
    ASSUME NEW section \in Single, NEW p, WellFormed(section, p), NEW serial,
           NEW ops \in SectionOps(section, p, serial)
    PROVE  ops \in Seq(Ops) /\ (ops # <<>> => SinglePlan(section, p, ops))
<1>1. Wanted(section, p) \in SUBSET Seq(Names)
    <2>1. CASE section = "sys"
        BY <2>1, NormalizeSysTyped DEF Wanted, WellFormed
    <2>2. CASE section = "ws"
        BY <2>2, NormalizeWSTyped DEF Wanted, WellFormed
    <2>3. CASE section \in {"ble", "mqtt"}
        BY <2>3 DEF Wanted, WellFormed, NormalizeBLE
    <2>. QED  BY <2>1, <2>2, <2>3 DEF Single
<1>2. Op(section, Wanted(section, p)) \in Ops
    BY <1>1 DEF Op, Ops
<1>3. \/ ops = <<>>
      \/ ops = <<Invalid>>
      \/ ops = <<Op(section, Wanted(section, p))>> /\ ~(section = "ws" /\ WSInvalid(p))
    BY DEF SectionOps, Single, ConfigOps, Wanted
<1>4. <<>> \in Seq(Ops) /\ <<Invalid>> \in Seq(Ops) /\ <<Op(section, Wanted(section, p))>> \in Seq(Ops)
    BY <1>2, OneCall, InvalidTyped
<1>5. ops \in Seq(Ops)
    BY <1>3, <1>4
<1>6. ops # <<>> => SinglePlan(section, p, ops)
    BY <1>3 DEF SinglePlan
<1>. QED  BY <1>5, <1>6

\* A section of one call for each entry.
LEMMA EntriesStart ==
    ASSUME NEW d, NEW section \in {"kvs", "script", "gen2_rpc"}, NEW p, WellFormed(section, p), NEW serial,
           NEW ops \in SectionOps(section, p, serial)
    PROVE  ops \in Seq(Ops) /\ EntriesPlan(d, section, p, ops)
<1> DEFINE S == {EntryOp(section, e) : e \in p}
           g == [e \in p |-> EntryOp(section, e)]
<1>1. p \in SUBSET Names /\ IsFiniteSet(p)
    BY DEF WellFormed
<1>2. ops \in SetToSeqs(S)
    BY DEF SectionOps, Entries, EntryOp
<1>3. S = {g[e] : e \in p} /\ DOMAIN g = p
    OBVIOUS
<1>4. IsFiniteSet(S)
    <2> HIDE DEF g, S
    <2>. QED  BY <1>1, <1>3, FiniteImage
<1>5. \A op \in S : op \in Ops /\ (op = Invalid \/ op.method = "Set")
    <2> SUFFICES ASSUME NEW e \in p
                 PROVE  /\ EntryOp(section, e) \in Ops
                        /\ EntryOp(section, e) = Invalid \/ EntryOp(section, e).method = "Set"
        OBVIOUS
    <2>. QED  BY <1>1, InvalidTyped DEF EntryOp, Op, Ops
<1>6. \A e \in p : EntryOp(section, e) \in S
    OBVIOUS
<1> HIDE DEF S
<1>7. ops \in Seq(S) /\ \A x \in S : \E i \in 1 .. Len(ops) : ops[i] = x
    BY <1>2, <1>4, AllInOrder
<1>8. ops \in Seq(Ops) /\ \A i \in 1 .. Len(ops) : ops[i] \in S
    BY <1>5, <1>7
<1>. QED  BY <1>5, <1>6, <1>7, <1>8 DEF EntriesPlan

\* A call for each hook of a list.
LEMMA HookCalls ==
    ASSUME NEW q \in Seq(Hooks \cup {Misfit}),
           NEW method \in {"Webhook.Delete", "Webhook.Update", "Webhook.Create"},
           NEW r, r = [i \in DOMAIN q |-> HookOp(method, q[i])]
    PROVE  r \in Seq(Ops) /\ Len(r) = Len(q) /\ \A i \in 1 .. Len(q) : r[i] = HookOp(method, q[i])
<1>1. DOMAIN q = 1 .. Len(q) /\ Len(q) \in Nat /\ \A i \in 1 .. Len(q) : q[i] \in Hooks \cup {Misfit}
    OBVIOUS
<1>0. \A h \in Hooks \cup {Misfit} : HookOp(method, h) \in Ops
    <2>1. \A h \in Hooks : Op(method, h) \in Ops
        BY DEF Op, Ops
    <2>. QED  BY <2>1, InvalidTyped DEF HookOp
<1>2. \A i \in 1 .. Len(q) : r[i] = HookOp(method, q[i]) /\ r[i] \in Ops
    BY <1>0, <1>1
<1>3. r \in [1 .. Len(q) -> Ops]
    BY <1>1, <1>2
<1>. QED  BY <1>1, <1>2, <1>3

\* One sequence of calls after another.
LEMMA Concat ==
    ASSUME NEW s \in Seq(Ops), NEW t \in Seq(Ops), NEW r, r = s \o t
    PROVE  /\ r \in Seq(Ops) /\ Len(s) \in Nat /\ Len(t) \in Nat /\ Len(r) = Len(s) + Len(t)
           /\ \A i \in 1 .. Len(s) : r[i] = s[i]
           /\ \A i \in 1 .. Len(t) : r[Len(s) + i] = t[i]
<1>1. r \in Seq(Ops) /\ Len(s) \in Nat /\ Len(t) \in Nat /\ Len(r) = Len(s) + Len(t)
    OBVIOUS
<1>2. \A i \in 1 .. Len(s) : r[i] = s[i]
    BY <1>1
<1>3. ASSUME NEW i \in 1 .. Len(t) PROVE r[Len(s) + i] = t[i]
    <2>1. Len(s) + i \in 1 .. Len(s) + Len(t) /\ Len(s) + i > Len(s) /\ (Len(s) + i) - Len(s) = i
        BY <1>1
    <2>. QED  BY <1>1, <2>1
<1>. QED  BY <1>1, <1>2, <1>3

\* The calls of a webhook section, one by one.
LEMMA WebhookCalls ==
    ASSUME NEW p \in HookPayload
    PROVE  /\ WebhookOps(p) \in Seq(Ops)
           /\ Wipes(p) \in 0 .. 1 /\ Before(p) \in Nat /\ Before(p) = Wipes(p) + Len(p.delete) + Len(p.update)
           /\ Len(WebhookOps(p)) = Before(p) + Len(p.create)
           /\ p.delete_all => WebhookOps(p)[1] = Op("Webhook.DeleteAll", 0)
           /\ \A i \in 1 .. Len(p.delete) : WebhookOps(p)[Wipes(p) + i] = HookOp("Webhook.Delete", p.delete[i])
           /\ \A i \in 1 .. Len(p.update) :
                WebhookOps(p)[Wipes(p) + Len(p.delete) + i] = HookOp("Webhook.Update", p.update[i])
           /\ \A i \in 1 .. Len(p.create) : WebhookOps(p)[Before(p) + i] = HookOp("Webhook.Create", p.create[i])
<1> DEFINE w == IF p.delete_all THEN <<Op("Webhook.DeleteAll", 0)>> ELSE <<>>
           d == [i \in DOMAIN p.delete |-> HookOp("Webhook.Delete", p.delete[i])]
           u == [i \in DOMAIN p.update |-> HookOp("Webhook.Update", p.update[i])]
           c == [i \in DOMAIN p.create |-> HookOp("Webhook.Create", p.create[i])]
           wd == w \o d
           wdu == wd \o u
           all == wdu \o c
           W == Wipes(p)
           D == Len(p.delete)
           U == Len(p.update)
           C == Len(p.create)
<1>1. /\ p.delete \in Seq(Hooks \cup {Misfit}) /\ p.update \in Seq(Hooks \cup {Misfit})
      /\ p.create \in Seq(Hooks \cup {Misfit}) /\ p.delete_all \in BOOLEAN
    BY DEF HookPayload
<1>2. w \in Seq(Ops) /\ Len(w) = W /\ W \in 0 .. 1 /\ (p.delete_all => W = 1 /\ w[1] = Op("Webhook.DeleteAll", 0))
    <2>1. Op("Webhook.DeleteAll", 0) \in Ops
        BY DEF Op, Ops
    <2>2. CASE p.delete_all
        BY <2>1, <2>2, OneCall DEF Wipes
    <2>3. CASE ~p.delete_all
        BY <2>3 DEF Wipes
    <2>. QED  BY <1>1, <2>2, <2>3
<1>3. d \in Seq(Ops) /\ Len(d) = D /\ \A i \in 1 .. D : d[i] = HookOp("Webhook.Delete", p.delete[i])
    BY <1>1, HookCalls
<1>4. u \in Seq(Ops) /\ Len(u) = U /\ \A i \in 1 .. U : u[i] = HookOp("Webhook.Update", p.update[i])
    BY <1>1, HookCalls
<1>5. c \in Seq(Ops) /\ Len(c) = C /\ \A i \in 1 .. C : c[i] = HookOp("Webhook.Create", p.create[i])
    BY <1>1, HookCalls
<1>6. WebhookOps(p) = all
    BY DEF WebhookOps
<1>7. D \in Nat /\ U \in Nat /\ C \in Nat
    BY <1>1
<1>8. Before(p) = W + D + U
    BY DEF Before
<1> HIDE DEF w, d, u, c
<1>9. /\ wd \in Seq(Ops) /\ Len(wd) = Len(w) + Len(d)
      /\ \A i \in 1 .. Len(w) : wd[i] = w[i]
      /\ \A i \in 1 .. Len(d) : wd[Len(w) + i] = d[i]
    <2>1. w \in Seq(Ops) /\ d \in Seq(Ops) /\ wd = w \o d
        BY <1>2, <1>3
    <2>. QED  BY <2>1, Concat
<1> HIDE DEF wd
<1>10. /\ wdu \in Seq(Ops) /\ Len(wdu) = Len(wd) + Len(u)
       /\ \A i \in 1 .. Len(wd) : wdu[i] = wd[i]
       /\ \A i \in 1 .. Len(u) : wdu[Len(wd) + i] = u[i]
    <2>1. wd \in Seq(Ops) /\ u \in Seq(Ops) /\ wdu = wd \o u
        BY <1>4, <1>9
    <2>. QED  BY <2>1, Concat
<1> HIDE DEF wdu
<1>11. /\ all \in Seq(Ops) /\ Len(all) = Len(wdu) + Len(c)
       /\ \A i \in 1 .. Len(wdu) : all[i] = wdu[i]
       /\ \A i \in 1 .. Len(c) : all[Len(wdu) + i] = c[i]
    <2>1. wdu \in Seq(Ops) /\ c \in Seq(Ops) /\ all = wdu \o c
        BY <1>5, <1>10
    <2>. QED  BY <2>1, Concat
<1> HIDE DEF all, W, D, U, C
<1>12. Len(wd) = W + D /\ Len(wdu) = W + D + U /\ Len(all) = W + D + U + C
    BY <1>2, <1>3, <1>4, <1>5, <1>7, <1>9, <1>10, <1>11
<1>13. p.delete_all => all[1] = Op("Webhook.DeleteAll", 0)
    <2> SUFFICES ASSUME p.delete_all PROVE all[1] = Op("Webhook.DeleteAll", 0)
        OBVIOUS
    <2>1. 1 \in 1 .. Len(w) /\ 1 \in 1 .. Len(wd) /\ 1 \in 1 .. Len(wdu)
        BY <1>2, <1>7, <1>12
    <2>. QED  BY <1>2, <1>9, <1>10, <1>11, <2>1
<1>14. ASSUME NEW i \in 1 .. D PROVE all[W + i] = HookOp("Webhook.Delete", p.delete[i])
    <2>1. W + i \in 1 .. Len(wd) /\ W + i \in 1 .. Len(wdu)
        BY <1>2, <1>7, <1>12
    <2>. QED  BY <1>2, <1>3, <1>9, <1>10, <1>11, <2>1
<1>15. ASSUME NEW i \in 1 .. U PROVE all[W + D + i] = HookOp("Webhook.Update", p.update[i])
    <2>1. W + D + i \in 1 .. Len(wdu)
        BY <1>2, <1>7, <1>12
    <2>. QED  BY <1>4, <1>10, <1>11, <1>12, <2>1
<1>16. ASSUME NEW i \in 1 .. C PROVE all[Before(p) + i] = HookOp("Webhook.Create", p.create[i])
    BY <1>5, <1>8, <1>11, <1>12
<1>17. Before(p) \in Nat /\ Len(all) = Before(p) + C
    BY <1>2, <1>7, <1>8, <1>12
<1>. QED  BY <1>2, <1>6, <1>8, <1>11, <1>13, <1>14, <1>15, <1>16, <1>17 DEF W, D, U, C

LEMMA EmptyCalls ==
    ASSUME NEW q \in Seq(Ops)
    PROVE  q = <<>> <=> Len(q) = 0
    OBVIOUS

\* The rest of a sequence of calls.
LEMMA Rest ==
    ASSUME NEW ops \in Seq(Ops), ops # <<>>
    PROVE  /\ Len(ops) \in Nat \ {0} /\ Head(ops) = ops[1] /\ Head(ops) \in Ops
           /\ Tail(ops) \in Seq(Ops) /\ Len(Tail(ops)) = Len(ops) - 1
           /\ \A i \in 1 .. Len(ops) - 1 : Tail(ops)[i] = ops[i + 1]
           /\ Tail(ops) = <<>> <=> Len(ops) = 1
<1>1. Len(ops) \in Nat \ {0} /\ Head(ops) = ops[1] /\ Head(ops) \in Ops
    OBVIOUS
<1>2. Tail(ops) \in Seq(Ops) /\ Len(Tail(ops)) = Len(ops) - 1
    OBVIOUS
<1>3. \A i \in 1 .. Len(ops) - 1 : Tail(ops)[i] = ops[i + 1]
    OBVIOUS
<1>4. \A q \in Seq(Ops) : q = <<>> <=> Len(q) = 0
    OBVIOUS
<1>5. Tail(ops) = <<>> <=> Len(ops) = 1
    <2> DEFINE q == Tail(ops)
    <2>1. q \in Seq(Ops) /\ Len(q) = Len(ops) - 1
        BY <1>2
    <2> HIDE DEF q
    <2>2. q = <<>> <=> Len(ops) = 1
        BY <1>1, <1>4, <2>1
    <2>. QED  BY <2>2 DEF q
<1>. QED  BY <1>1, <1>2, <1>3, <1>5

-----------------------------------------------------------------------------
(* What the calls do to the device.                                        *)

\* The argument of a call.
LEMMA OpTyped ==
    ASSUME NEW op \in Ops
    PROVE  /\ op.method \in Single => op.arg \in SUBSET Seq(Names)
           /\ op.method = "Set" => op.arg \in Names
           /\ op.method = "Shelly.SetAuth" => op.arg \in [pass : Passwords, realm : 0 .. 1]
           /\ op.method \in {"Webhook.Delete", "Webhook.Update", "Webhook.Create"} => op.arg \in Hooks
           /\ op.method = "Schedule.Delete" => op.arg \in ScheduleIds
           /\ op.method = "Schedule.Create" => op.arg \in {"stable", "beta"}
           /\ op.method = "Shelly.PutUserCA" => op.arg \in [data : Seq(Sessions \X {1, 2}), append : BOOLEAN]
           /\ op = Op(op.method, op.arg)
<1>1. op.method \in Single => op.arg \in SUBSET Seq(Names)
    BY DEF Ops, SetterMethods, Single
<1>2. op.method = "Set" => op.arg \in Names
    BY DEF Ops, SetterMethods, Single
<1>3. op.method = "Shelly.SetAuth" => op.arg \in [pass : Passwords, realm : 0 .. 1]
    BY DEF Ops, SetterMethods, Single
<1>4. op.method \in {"Webhook.Delete", "Webhook.Update", "Webhook.Create"} => op.arg \in Hooks
    BY DEF Ops, SetterMethods, Single
<1>5. op.method = "Schedule.Delete" => op.arg \in ScheduleIds
    BY DEF Ops, SetterMethods, Single
<1>6. op.method = "Schedule.Create" => op.arg \in {"stable", "beta"}
    BY DEF Ops, SetterMethods, Single
<1>7. op.method = "Shelly.PutUserCA" => op.arg \in [data : Seq(Sessions \X {1, 2}), append : BOOLEAN]
    BY DEF Ops, SetterMethods, Single
<1>8. op = Op(op.method, op.arg)
    BY DEF Ops, Op
<1>. QED  BY <1>1, <1>2, <1>3, <1>4, <1>5, <1>6, <1>7, <1>8

\* A SetConfig.
LEMMA ConfigApplied ==
    ASSUME NEW d \in DeviceState, NEW op \in Ops, op.method \in Single, NEW e, e = Applied(d, op)
    PROVE  e \in DeviceState /\ e.password = d.password /\ e.conf[op.method] = op.arg
<1> DEFINE q == [d.conf EXCEPT ![op.method] = op.arg]
<1>1. d.conf \in [Single -> SUBSET Seq(Names)] /\ op.arg \in SUBSET Seq(Names)
    BY OpTyped DEF DeviceState
<1>2. q \in [Single -> SUBSET Seq(Names)] /\ q[op.method] = op.arg
    BY <1>1
<1>3. e = [d EXCEPT !.conf = q]
    BY DEF Applied, DeviceState, Single
<1> HIDE DEF q
<1>. QED  BY <1>2, <1>3 DEF DeviceState

\* An entry of kvs, script or gen2_rpc.
LEMMA SetApplied ==
    ASSUME NEW d \in DeviceState, NEW op \in Ops, op.method = "Set", NEW e, e = Applied(d, op)
    PROVE  e \in DeviceState /\ e.password = d.password /\ e.items = d.items \cup {op.arg}
<1> DEFINE q == d.items \cup {op.arg}
<1>1. e = [d EXCEPT !.items = q]
    BY DEF Applied, DeviceState, Single
<1>2. q \in SUBSET Names
    BY OpTyped DEF DeviceState
<1> HIDE DEF q
<1>3. e \in DeviceState /\ e.password = d.password /\ e.items = q
    BY <1>1, <1>2 DEF DeviceState
<1>. QED  BY <1>3 DEF q

\* A new password.
LEMMA AuthApplied ==
    ASSUME NEW d \in DeviceState, NEW op \in Ops, op.method = "Shelly.SetAuth", NEW e, e = Applied(d, op)
    PROVE  e \in DeviceState /\ e.password = op.arg.pass
<1>1. e = [d EXCEPT !.password = op.arg.pass]
    BY DEF Applied, Single
<1>2. op.arg.pass \in Credentials
    BY OpTyped DEF Credentials
<1>. QED  BY <1>1, <1>2 DEF DeviceState

\* The webhook methods.
HookMethods == {"Webhook.DeleteAll", "Webhook.Delete", "Webhook.Update", "Webhook.Create"}

HookEffect(d, op, e) ==
    /\ op.method = "Webhook.DeleteAll" => \A h \in Hooks : e.hooks[h] = 0
    /\ op.method = "Webhook.Delete" => op.arg \in Hooks /\ e.hooks = [d.hooks EXCEPT ![op.arg] = 0]
    /\ op.method = "Webhook.Update" => e = d
    /\ op.method = "Webhook.Create" =>
          op.arg \in Hooks /\ e.hooks = [d.hooks EXCEPT ![op.arg] = d.hooks[op.arg] + 1]

LEMMA HookApplied ==
    ASSUME NEW d \in DeviceState, NEW op \in Ops, op.method \in HookMethods,
           ~Refuses(d, op), NEW e, e = Applied(d, op)
    PROVE  e \in DeviceState /\ e.password = d.password /\ HookEffect(d, op, e)
<1> USE DEF HookEffect
<1>1. d.hooks \in [Hooks -> 0 .. 2]
    BY DEF DeviceState
<1>2. CASE op.method = "Webhook.DeleteAll"
    <2>1. e = [d EXCEPT !.hooks = [h \in Hooks |-> 0]]
        BY <1>2 DEF Applied, Single
    <2> DEFINE q == [h \in Hooks |-> 0]
    <2>2. q \in [Hooks -> 0 .. 2] /\ \A h \in Hooks : q[h] = 0
        OBVIOUS
    <2>3. e = [d EXCEPT !.hooks = q]
        BY <2>1
    <2> HIDE DEF q
    <2>. QED  BY <1>2, <2>2, <2>3 DEF DeviceState
<1>3. CASE op.method = "Webhook.Delete"
    <2> DEFINE q == [d.hooks EXCEPT ![op.arg] = 0]
    <2>1. op.arg \in Hooks
        BY <1>3, OpTyped
    <2>2. q \in [Hooks -> 0 .. 2]
        BY <1>1, <2>1
    <2>3. e = [d EXCEPT !.hooks = q]
        BY <1>3 DEF Applied, Single, DeviceState
    <2> HIDE DEF q
    <2>4. e \in DeviceState /\ e.password = d.password /\ e.hooks = q
        BY <2>2, <2>3 DEF DeviceState
    <2>. QED  BY <1>3, <2>1, <2>4 DEF q
<1>4. CASE op.method = "Webhook.Update"
    BY <1>4 DEF Applied, Single
<1>5. CASE op.method = "Webhook.Create"
    <2> DEFINE q == [d.hooks EXCEPT ![op.arg] = d.hooks[op.arg] + 1]
    <2>1. op.arg \in Hooks
        BY <1>5, OpTyped
    <2>2. d.hooks[op.arg] \in 0 .. 2 /\ d.hooks[op.arg] # 2
        BY <1>1, <1>5, <2>1 DEF Refuses
    <2>3. q \in [Hooks -> 0 .. 2]
        BY <1>1, <2>1, <2>2
    <2>4. e = [d EXCEPT !.hooks = q]
        BY <1>5 DEF Applied, Single, DeviceState
    <2> HIDE DEF q
    <2>5. e \in DeviceState /\ e.password = d.password /\ e.hooks = q
        BY <2>3, <2>4 DEF DeviceState
    <2>. QED  BY <1>5, <2>1, <2>5 DEF q
<1>. QED  BY <1>2, <1>3, <1>4, <1>5 DEF HookMethods

\* The schedule methods.
ScheduleMethods == {"Schedule.List", "Schedule.Delete", "Schedule.Create"}

ScheduleEffect(d, op, e) ==
    /\ op.method = "Schedule.List" => e = d
    /\ op.method = "Schedule.Delete" =>
          op.arg \in ScheduleIds /\ e.schedule = [d.schedule EXCEPT ![op.arg] = "free"]
    /\ op.method = "Schedule.Create" =>
          \E id \in ScheduleIds : e.schedule = [d.schedule EXCEPT ![id] = op.arg]

LEMMA ScheduleApplied ==
    ASSUME NEW d \in DeviceState, NEW op \in Ops, op.method \in ScheduleMethods,
           ~Refuses(d, op), NEW e, e = Applied(d, op)
    PROVE  e \in DeviceState /\ e.password = d.password /\ ScheduleEffect(d, op, e)
<1> USE DEF ScheduleEffect
<1> DEFINE M == {"free", "owner", "stable", "beta"}
<1>1. d.schedule \in [ScheduleIds -> M]
    BY DEF DeviceState
<1>2. CASE op.method = "Schedule.List"
    BY <1>2 DEF Applied, Single
<1>3. CASE op.method = "Schedule.Delete"
    <2> DEFINE q == [d.schedule EXCEPT ![op.arg] = "free"]
    <2>1. op.arg \in ScheduleIds
        BY <1>3, OpTyped
    <2>2. q \in [ScheduleIds -> M]
        BY <1>1, <2>1
    <2>3. e = [d EXCEPT !.schedule = q]
        BY <1>3 DEF Applied, Single, DeviceState
    <2> HIDE DEF q
    <2>4. e \in DeviceState /\ e.password = d.password /\ e.schedule = q
        BY <2>2, <2>3 DEF DeviceState
    <2>. QED  BY <1>3, <2>1, <2>4 DEF q
<1>4. CASE op.method = "Schedule.Create"
    <2>1. PICK id \in ScheduleIds : id = FreeId(d)
        BY <1>4 DEF Refuses, FreeId
    <2> DEFINE q == [d.schedule EXCEPT ![id] = op.arg]
    <2>2. op.arg \in {"stable", "beta"}
        BY <1>4, OpTyped
    <2>3. q \in [ScheduleIds -> M]
        BY <1>1, <2>2
    <2>4. e = [d EXCEPT !.schedule = q]
        BY <1>4, <2>1 DEF Applied, Single, DeviceState
    <2> HIDE DEF q
    <2>5. e \in DeviceState /\ e.password = d.password /\ e.schedule = q
        BY <2>3, <2>4 DEF DeviceState
    <2>. QED  BY <1>4, <2>5 DEF q
<1>. QED  BY <1>2, <1>3, <1>4 DEF ScheduleMethods

\* A chunk, or the end, of a certificate.
LEMMA PutApplied ==
    ASSUME NEW d \in DeviceState, NEW op \in Ops, op.method = "Shelly.PutUserCA", NEW e, e = Applied(d, op)
    PROVE  /\ e \in DeviceState /\ e.password = d.password
           /\ op.arg.data = <<>> => e.file = d.buffer
           /\ op.arg.data # <<>> => e.buffer = (IF op.arg.append THEN d.buffer ELSE <<>>) \o op.arg.data
<1> DEFINE q == (IF op.arg.append THEN d.buffer ELSE <<>>) \o op.arg.data
           B == Seq(Sessions \X {1, 2})
<1>1. op.arg.data \in B /\ d.buffer \in B /\ <<>> \in B
    BY OpTyped DEF DeviceState
<1>2. q \in B
    <2> HIDE DEF B
    <2>1. CASE op.arg.append
        BY <1>1, <2>1 DEF B
    <2>2. CASE ~op.arg.append
        BY <1>1, <2>2 DEF B
    <2>. QED  BY <2>1, <2>2
<1>3. op.arg.data = <<>> => e = [d EXCEPT !.file = d.buffer, !.buffer = <<>>]
    BY DEF Applied, Single, PutCertificate
<1>4. op.arg.data # <<>> => e = [d EXCEPT !.buffer = q]
    BY DEF Applied, Single, PutCertificate, DeviceState
<1> HIDE DEF q, B
<1>5. CASE op.arg.data = <<>>
    BY <1>1, <1>3, <1>5 DEF DeviceState, B
<1>6. CASE op.arg.data # <<>>
    <2>1. e \in DeviceState /\ e.password = d.password /\ e.buffer = q
        BY <1>2, <1>4, <1>6 DEF DeviceState, B
    <2>. QED  BY <1>6, <2>1 DEF q
<1>. QED  BY <1>5, <1>6

LEMMA RestartedTyped ==
    ASSUME NEW d \in DeviceState, NEW e, e = Restarted(d)
    PROVE  e \in DeviceState /\ e.password = d.password /\ e.ver = d.ver
<1> DEFINE B == Seq(Sessions \X {1, 2})
<1>1. <<>> \in B /\ 0 \in 0 .. 1
    OBVIOUS
<1>2. e = [d EXCEPT !.buffer = <<>>, !.ota = 0]
    BY DEF Restarted
<1> HIDE DEF B
<1>. QED  BY <1>1, <1>2 DEF DeviceState, B

LEMMA FreshTyped ==
    ASSUME NEW password \in Credentials, NEW lacks \in Lacks, NEW e, e = Fresh(password, lacks)
    PROVE  e \in DeviceState /\ e.password = password /\ e.ver = 1
<1> DEFINE c == [x \in Single |-> {}]
           h == [x \in Hooks |-> IF x = "old" THEN 1 ELSE 0]
           z == [id \in ScheduleIds |-> IF id = 1 THEN "owner" ELSE IF id = 2 THEN "stable" ELSE "free"]
<1>1. c \in [Single -> SUBSET Seq(Names)] /\ h \in [Hooks -> 0 .. 2]
      /\ z \in [ScheduleIds -> {"free", "owner", "stable", "beta"}] /\ <<>> \in Seq(Sessions \X {1, 2})
    OBVIOUS
<1>2. e = [password |-> password, lacks |-> lacks, conf |-> c, items |-> {}, hooks |-> h, schedule |-> z,
           buffer |-> <<>>, file |-> <<>>, ver |-> 1, ota |-> 0]
    BY DEF Fresh
<1> HIDE DEF c, h, z
<1>. QED  BY <1>1, <1>2 DEF DeviceState

\* The setters.
LEMMA SetterApplied ==
    ASSUME NEW d \in DeviceState, NEW op \in Ops, op.method \in SetterMethods \cup {"invalid"},
           NEW e, e = Applied(d, op)
    PROVE  e \in DeviceState
<1>1. CASE op.method = "Shelly.Update"
    <2>1. e = [d EXCEPT !.ota = BoolToInt(d.ver = 1)]
        BY <1>1 DEF Applied, Single
    <2>2. BoolToInt(d.ver = 1) \in 0 .. 1
        BY DEF BoolToInt
    <2>. QED  BY <2>1, <2>2 DEF DeviceState
<1>2. CASE op.method = "Shelly.Reboot"
    <2>1. e = Restarted(d)
        BY <1>2 DEF Applied, Single
    <2>. QED  BY <2>1, RestartedTyped
<1>3. CASE op.method = "OTA.Revert"
    <2> DEFINE q == Restarted(d)
    <2>1. e = [q EXCEPT !.ver = 1]
        BY <1>3 DEF Applied, Single
    <2>2. q \in DeviceState
        BY RestartedTyped
    <2>3. 1 \in 1 .. 2
        OBVIOUS
    <2> HIDE DEF q
    <2>. QED  BY <2>1, <2>2, <2>3 DEF DeviceState
<1>4. CASE op.method = "Shelly.FactoryReset"
    <2> DEFINE f == Fresh(NoAuth, d.lacks)
               q == Restarted(f)
               h == [x \in Hooks |-> 0]
               z == [id \in ScheduleIds |-> "free"]
    <2>1. e = [q EXCEPT !.ver = d.ver, !.hooks = h, !.schedule = z]
        BY <1>4 DEF Applied, Single
    <2>2. NoAuth \in Credentials /\ d.lacks \in Lacks /\ d.ver \in 1 .. 2
        BY DEF Credentials, DeviceState
    <2>3. f \in DeviceState
        BY <2>2, FreshTyped
    <2> HIDE DEF f
    <2>4. q \in DeviceState
        BY <2>3, RestartedTyped
    <2>5. h \in [Hooks -> 0 .. 2] /\ z \in [ScheduleIds -> {"free", "owner", "stable", "beta"}]
        OBVIOUS
    <2> HIDE DEF q, h, z
    <2>. QED  BY <2>1, <2>2, <2>4, <2>5 DEF DeviceState
<1>5. CASE op.method \notin {"Shelly.Update", "Shelly.Reboot", "OTA.Revert", "Shelly.FactoryReset"}
    <2>1. e = d
        BY <1>5 DEF Applied, Single, SetterMethods
    <2>. QED  BY <2>1
<1>. QED  BY <1>1, <1>2, <1>3, <1>4, <1>5

\* Whatever the device is asked to do, it remains one.
LEMMA AppliedTyped ==
    ASSUME NEW d \in DeviceState, NEW op \in Ops, ~Refuses(d, op), NEW e, e = Applied(d, op)
    PROVE  e \in DeviceState
<1>1. \/ op.method \in Single \cup {"Set", "Shelly.SetAuth", "Shelly.PutUserCA"}
      \/ op.method \in HookMethods
      \/ op.method \in ScheduleMethods
      \/ op.method \in SetterMethods \cup {"invalid"}
    BY DEF Ops, HookMethods, ScheduleMethods
<1>. QED  BY <1>1, ConfigApplied, SetApplied, AuthApplied, PutApplied, HookApplied, ScheduleApplied, SetterApplied

-----------------------------------------------------------------------------
(* Webhooks.                                                               *)

LEMMA CreatedTyped ==
    ASSUME NEW p \in HookPayload, NEW k \in Nat, NEW h
    PROVE  IsFiniteSet(Created(p, k, h)) /\ Cardinality(Created(p, k, h)) \in Nat
<1>1. DOMAIN p.create = 1 .. Len(p.create) /\ Len(p.create) \in Nat
    BY DEF HookPayload
<1>2. IsFiniteSet(1 .. Len(p.create))
    BY <1>1, FS_Interval
<1>3. Created(p, k, h) \subseteq 1 .. Len(p.create)
    BY <1>1 DEF Created
<1>. QED  BY <1>2, <1>3, FS_Subset, FS_CardinalityType

\* Nothing is created by the calls before the creations.
LEMMA NoneCreated ==
    ASSUME NEW p \in HookPayload, NEW k \in Nat, k <= Before(p), NEW h
    PROVE  Cardinality(Created(p, k, h)) = 0
<1>1. DOMAIN p.create = 1 .. Len(p.create) /\ Len(p.create) \in Nat
    BY DEF HookPayload
<1>2. Before(p) \in Nat
    BY WebhookCalls
<1>3. Created(p, k, h) = {}
    BY <1>1, <1>2 DEF Created
<1>. QED  BY <1>3, FS_EmptySet

LEMMA WebhooksStart ==
    ASSUME NEW d \in DeviceState, NEW p \in HookPayload
    PROVE  WebhooksPlan(d, p, WebhookOps(p))
<1>1. Before(p) \in Nat /\ Wipes(p) \in 0 .. 1 /\ WebhookOps(p) \in Seq(Ops)
    BY WebhookCalls
<1>2. \A h \in Hooks : d.hooks[h] \in 0 .. 2 /\ Cardinality(Created(p, 0, h)) = 0
    BY <1>1, NoneCreated DEF DeviceState
<1>3. Len(p.delete) \in Nat
    BY DEF HookPayload
<1>4. HooksAfter(d, p, 0)
    BY <1>1, <1>2, <1>3 DEF HooksAfter
<1>5. 0 \in 0 .. Len(WebhookOps(p)) /\ Len(WebhookOps(p)) = Len(WebhookOps(p)) - 0
      /\ \A i \in 1 .. Len(WebhookOps(p)) : WebhookOps(p)[i] = WebhookOps(p)[0 + i]
    BY <1>1
<1>. QED  BY <1>4, <1>5 DEF WebhooksPlan

\* Which call the n-th is.
LEMMA WebhookPlaces ==
    ASSUME NEW p \in HookPayload, NEW n \in 1 .. Len(WebhookOps(p))
    PROVE  \/ p.delete_all /\ n = 1
           \/ \E i \in 1 .. Len(p.delete) : n = Wipes(p) + i
           \/ \E i \in 1 .. Len(p.update) : n = Wipes(p) + Len(p.delete) + i
           \/ \E i \in 1 .. Len(p.create) : n = Before(p) + i
<1> DEFINE W == Wipes(p)
           D == Len(p.delete)
           U == Len(p.update)
           C == Len(p.create)
<1>1. W \in 0 .. 1 /\ Before(p) \in Nat /\ Before(p) = W + D + U /\ Len(WebhookOps(p)) = Before(p) + C
    BY WebhookCalls
<1>2. D \in Nat /\ U \in Nat /\ C \in Nat /\ p.delete_all \in BOOLEAN
    BY DEF HookPayload
<1>3. p.delete_all <=> W = 1
    BY <1>2 DEF Wipes
<1>4. n \in 1 .. Before(p) + C
    BY <1>1
<1> HIDE DEF W, D, U, C
<1>5. \/ p.delete_all /\ n = 1
      \/ \E i \in 1 .. D : n = W + i
      \/ \E i \in 1 .. U : n = W + D + i
      \/ \E i \in 1 .. C : n = Before(p) + i
    <2>1. CASE n <= W
        BY <1>1, <1>3, <1>4, <2>1
    <2>2. CASE n > W /\ n <= W + D
        <3>1. n - W \in 1 .. D /\ n = W + (n - W)
            BY <1>1, <1>2, <1>4, <2>2
        <3>. QED  BY <3>1
    <2>3. CASE n > W + D /\ n <= Before(p)
        <3>1. n - (W + D) \in 1 .. U /\ n = W + D + (n - (W + D))
            BY <1>1, <1>2, <1>4, <2>3
        <3>. QED  BY <3>1
    <2>4. CASE n > Before(p)
        <3>1. n - Before(p) \in 1 .. C /\ n = Before(p) + (n - Before(p))
            BY <1>1, <1>2, <1>4, <2>4
        <3>. QED  BY <3>1
    <2>. QED  BY <1>1, <1>2, <1>4, <2>1, <2>2, <2>3, <2>4
<1>. QED  BY <1>5 DEF W, D, U, C

LEMMA WebhookMethods ==
    ASSUME NEW p \in HookPayload, NEW n \in 1 .. Len(WebhookOps(p))
    PROVE  WebhookOps(p)[n] = Invalid \/ WebhookOps(p)[n].method \in HookMethods
<1>1. \/ WebhookOps(p)[n] = Op("Webhook.DeleteAll", 0)
      \/ \E h : WebhookOps(p)[n] = HookOp("Webhook.Delete", h)
      \/ \E h : WebhookOps(p)[n] = HookOp("Webhook.Update", h)
      \/ \E h : WebhookOps(p)[n] = HookOp("Webhook.Create", h)
    BY WebhookPlaces, WebhookCalls
<1> DEFINE op == WebhookOps(p)[n]
<1>2. op = Invalid \/ op = Op("Webhook.DeleteAll", 0) \/ (\E h : op = Op("Webhook.Delete", h))
      \/ (\E h : op = Op("Webhook.Update", h)) \/ (\E h : op = Op("Webhook.Create", h))
    BY <1>1 DEF HookOp
<1> HIDE DEF op
<1>3. op = Invalid \/ op.method \in HookMethods
    BY <1>2 DEF Op, HookMethods
<1>. QED  BY <1>3 DEF op

\* One more call of a webhook section.
LEMMA HooksStep ==
    ASSUME NEW d \in DeviceState, NEW p \in HookPayload, NEW k \in Nat, k < Len(WebhookOps(p)),
           HooksAfter(d, p, k), NEW op \in Ops, op = WebhookOps(p)[k + 1],
           op # Invalid, ~Refuses(d, op),
           NEW e, e = Applied(d, op)
    PROVE  HooksAfter(e, p, k + 1)
<1> DEFINE W == Wipes(p)
           D == Len(p.delete)
           U == Len(p.update)
           C == Len(p.create)
<1>1. /\ W \in 0 .. 1 /\ Before(p) \in Nat /\ Before(p) = W + D + U
      /\ Len(WebhookOps(p)) = Before(p) + C
      /\ p.delete_all => WebhookOps(p)[1] = Op("Webhook.DeleteAll", 0)
      /\ \A i \in 1 .. D : WebhookOps(p)[W + i] = HookOp("Webhook.Delete", p.delete[i])
      /\ \A i \in 1 .. U : WebhookOps(p)[W + D + i] = HookOp("Webhook.Update", p.update[i])
      /\ \A i \in 1 .. C : WebhookOps(p)[Before(p) + i] = HookOp("Webhook.Create", p.create[i])
    BY WebhookCalls
<1>2. D \in Nat /\ U \in Nat /\ C \in Nat /\ p.delete_all \in BOOLEAN /\ DOMAIN p.create = 1 .. C
    BY DEF HookPayload
<1>3. p.delete_all <=> W = 1
    BY <1>2 DEF Wipes
<1>4. \A h \in Hooks : d.hooks[h] \in 0 .. 2
    BY DEF DeviceState
<1>5. /\ k + 1 \in Nat
      /\ k + 1 <= Before(p) => \A h \in Hooks : Cardinality(Created(p, k, h)) = 0
      /\ k + 1 <= Before(p) => \A h \in Hooks : Cardinality(Created(p, k + 1, h)) = 0
    <2>1. k + 1 \in Nat /\ (k + 1 <= Before(p) => k <= Before(p))
        BY <1>1
    <2>2. k + 1 <= Before(p) => \A h \in Hooks : Cardinality(Created(p, k, h)) = 0
        BY <2>1, NoneCreated
    <2>3. ASSUME NEW n \in Nat, n <= Before(p) PROVE \A h \in Hooks : Cardinality(Created(p, n, h)) = 0
        BY <2>3, NoneCreated
    <2>. QED  BY <2>1, <2>2, <2>3
<1> HIDE DEF W, D, U, C
<1>0. /\ op.method = "Webhook.DeleteAll" => \A h \in Hooks : e.hooks[h] = 0
      /\ op.method = "Webhook.Delete" => op.arg \in Hooks /\ e.hooks = [d.hooks EXCEPT ![op.arg] = 0]
      /\ op.method = "Webhook.Update" => e = d
      /\ op.method = "Webhook.Create" =>
            op.arg \in Hooks /\ e.hooks = [d.hooks EXCEPT ![op.arg] = d.hooks[op.arg] + 1]
    <2>1. op.method \in HookMethods => HookEffect(d, op, e)
        BY HookApplied
    <2>. QED  BY <2>1 DEF HookMethods, HookEffect
<1>6. CASE p.delete_all /\ k = 0
    <2>1. op.method = "Webhook.DeleteAll"
        BY <1>1, <1>6 DEF Op
    <2>2. \A h \in Hooks : e.hooks[h] = 0
        BY <1>0, <2>1
    <2>3. k + 1 <= Before(p)
        BY <1>1, <1>2, <1>3, <1>6
    <2>. QED  BY <1>5, <2>2, <2>3 DEF HooksAfter
<1>7. CASE \E i \in 1 .. D : k + 1 = W + i
    <2>1. PICK i \in 1 .. D : k + 1 = W + i
        BY <1>7
    <2>2. op.method = "Webhook.Delete" /\ op.arg = p.delete[i]
        <3>1. op = HookOp("Webhook.Delete", p.delete[i])
            BY <1>1, <2>1
        <3>2. op = Op("Webhook.Delete", p.delete[i])
            BY <3>1 DEF HookOp
        <3>. QED  BY <3>2 DEF Op
    <2>3. op.arg \in Hooks /\ e.hooks = [d.hooks EXCEPT ![op.arg] = 0]
        BY <1>0, <2>2
    <2>4. DOMAIN d.hooks = Hooks
        BY DEF DeviceState
    <2>5. k + 1 <= Before(p)
        BY <1>1, <1>2, <2>1
    <2>6. p.delete_all => k >= 1
        BY <1>1, <1>2, <1>3, <2>1
    <2> SUFFICES ASSUME NEW h \in Hooks
                 PROVE  /\ e.hooks[h] >= 0
                        /\ \/ p.delete_all /\ k + 1 >= 1
                           \/ \E j \in 1 .. D : p.delete[j] = h /\ j + W <= k + 1
                           => e.hooks[h] = 0
        BY <1>5, <2>5 DEF HooksAfter, D, W
    <2>7. CASE h = op.arg
        BY <2>3, <2>4, <2>7
    <2>8. CASE h # op.arg
        <3>1. e.hooks[h] = d.hooks[h]
            BY <2>3, <2>4, <2>8
        <3>2. \A j \in 1 .. D : p.delete[j] = h /\ j + W <= k + 1 => j + W <= k
            BY <1>1, <2>1, <2>2, <2>8
        <3>3. \/ p.delete_all /\ k >= 1
              \/ \E j \in 1 .. D : p.delete[j] = h /\ j + W <= k
              => d.hooks[h] = 0
            BY <1>5, <2>5 DEF HooksAfter, D, W
        <3>. QED  BY <1>4, <2>6, <3>1, <3>2, <3>3
    <2>. QED  BY <2>7, <2>8
<1>8. CASE \E i \in 1 .. U : k + 1 = W + D + i
    <2>1. PICK i \in 1 .. U : k + 1 = W + D + i
        BY <1>8
    <2>2. op.method = "Webhook.Update"
        <3>1. op = HookOp("Webhook.Update", p.update[i])
            BY <1>1, <2>1
        <3>2. op = Op("Webhook.Update", p.update[i])
            BY <3>1 DEF HookOp
        <3>. QED  BY <3>2 DEF Op
    <2>3. e = d
        BY <1>0, <2>2
    <2>4. k + 1 <= Before(p) /\ (p.delete_all => k >= 1) /\ W + D <= k
        BY <1>1, <1>2, <1>3, <2>1
    <2>5. \A j \in 1 .. D : j + W <= k
        BY <1>1, <1>2, <2>4
    <2>. QED  BY <1>5, <2>3, <2>4, <2>5 DEF HooksAfter, D, W
<1>9. CASE \E i \in 1 .. C : k + 1 = Before(p) + i
    <2>1. PICK i \in 1 .. C : k + 1 = Before(p) + i
        BY <1>9
    <2>2. op.method = "Webhook.Create" /\ op.arg = p.create[i]
        <3>1. op = HookOp("Webhook.Create", p.create[i])
            BY <1>1, <2>1
        <3>2. op = Op("Webhook.Create", p.create[i])
            BY <3>1 DEF HookOp
        <3>. QED  BY <3>2 DEF Op
    <2>3. op.arg \in Hooks /\ e.hooks = [d.hooks EXCEPT ![op.arg] = d.hooks[op.arg] + 1]
        BY <1>0, <2>2
    <2>4. DOMAIN d.hooks = Hooks
        BY DEF DeviceState
    <2>5. (p.delete_all => k >= 1) /\ W + D <= k
        BY <1>1, <1>2, <1>3, <2>1
    <2>6. \A j \in 1 .. D : j + W <= k
        BY <1>1, <1>2, <2>5
    <2> SUFFICES ASSUME NEW h \in Hooks
                 PROVE  /\ e.hooks[h] >= Cardinality(Created(p, k + 1, h))
                        /\ \/ p.delete_all /\ k + 1 >= 1
                           \/ \E j \in 1 .. D : p.delete[j] = h /\ j + W <= k + 1
                           => e.hooks[h] = Cardinality(Created(p, k + 1, h))
        BY DEF HooksAfter, D, W
    <2>7. /\ d.hooks[h] >= Cardinality(Created(p, k, h))
          /\ \/ p.delete_all
             \/ \E j \in 1 .. D : p.delete[j] = h
             => d.hooks[h] = Cardinality(Created(p, k, h))
        BY <2>5, <2>6 DEF HooksAfter, D, W
    <2>8. IsFiniteSet(Created(p, k, h)) /\ Cardinality(Created(p, k, h)) \in Nat
        BY CreatedTyped
    <2>9. CASE h = op.arg
        <3>1. Created(p, k + 1, h) = Created(p, k, h) \cup {i} /\ i \notin Created(p, k, h)
            BY <1>1, <1>2, <2>1, <2>2, <2>9 DEF Created
        <3>2. Cardinality(Created(p, k + 1, h)) = Cardinality(Created(p, k, h)) + 1
            BY <2>8, <3>1, FS_AddElement
        <3>3. e.hooks[h] = d.hooks[h] + 1
            BY <2>3, <2>4, <2>9
        <3>. QED  BY <1>4, <2>7, <2>8, <3>2, <3>3
    <2>10. CASE h # op.arg
        <3>1. Created(p, k + 1, h) = Created(p, k, h)
            BY <1>1, <1>2, <2>1, <2>2, <2>10 DEF Created
        <3>2. e.hooks[h] = d.hooks[h]
            BY <2>3, <2>4, <2>10
        <3>. QED  BY <2>7, <3>1, <3>2
    <2>. QED  BY <2>9, <2>10
<1>10. \/ p.delete_all /\ k = 0
       \/ \E i \in 1 .. D : k + 1 = W + i
       \/ \E i \in 1 .. U : k + 1 = W + D + i
       \/ \E i \in 1 .. C : k + 1 = Before(p) + i
    <2> DEFINE n == k + 1
    <2>1. n \in 1 .. Len(WebhookOps(p))
        BY <1>1, <1>2
    <2> HIDE DEF n
    <2>2. \/ p.delete_all /\ n = 1
          \/ \E i \in 1 .. D : n = W + i
          \/ \E i \in 1 .. U : n = W + D + i
          \/ \E i \in 1 .. C : n = Before(p) + i
        BY <2>1, WebhookPlaces DEF W, D, U, C
    <2>. QED  BY <2>2 DEF n
<1>. QED  BY <1>6, <1>7, <1>8, <1>9, <1>10

\* Where a section stands when rest is still to be called.
Onward(e, section, p, rest) ==
    IF rest = <<>> THEN InForce(e, section, p) ELSE Plan(e, section, p, rest)

LEMMA WebhooksInForce ==
    ASSUME NEW e \in DeviceState, NEW p \in HookPayload, HooksAfter(e, p, Len(WebhookOps(p)))
    PROVE  InForce(e, "webhooks", p)
<1> DEFINE n == Len(WebhookOps(p))
<1>1. /\ Wipes(p) \in 0 .. 1 /\ Before(p) \in Nat /\ Before(p) = Wipes(p) + Len(p.delete) + Len(p.update)
      /\ n = Before(p) + Len(p.create)
    BY WebhookCalls
<1>2. /\ Len(p.delete) \in Nat /\ Len(p.update) \in Nat /\ Len(p.create) \in Nat /\ p.delete_all \in BOOLEAN
      /\ DOMAIN p.create = 1 .. Len(p.create) /\ DOMAIN p.delete = 1 .. Len(p.delete)
    BY DEF HookPayload
<1>3. (p.delete_all => n >= 1) /\ Wipes(p) + Len(p.delete) <= n
    <2> DEFINE W == Wipes(p)
               D == Len(p.delete)
               U == Len(p.update)
               C == Len(p.create)
    <2>1. p.delete_all => W = 1
        BY DEF Wipes
    <2>2. W \in 0 .. 1 /\ D \in Nat /\ U \in Nat /\ C \in Nat /\ n = W + D + U + C
        BY <1>1, <1>2
    <2> HIDE DEF W, D, U, C, n
    <2>3. (p.delete_all => n >= 1) /\ W + D <= n
        BY <2>1, <2>2
    <2>. QED  BY <2>3 DEF W, D
<1>0. n \in Nat
    BY <1>1, <1>2
<1> HIDE DEF n
<1>4. HooksAfter(e, p, n)
    BY DEF n
<1>5. ASSUME NEW h \in Hooks
      PROVE  LET made == Cardinality({i \in DOMAIN p.create : p.create[i] = h}) IN
               /\ p.delete_all => e.hooks[h] = made
               /\ made > 0 => e.hooks[h] >= made
               /\ h \in Range(p.delete) /\ made = 0 => e.hooks[h] = 0
    <2> DEFINE made == Cardinality({i \in DOMAIN p.create : p.create[i] = h})
    <2>1. Created(p, n, h) = {i \in DOMAIN p.create : p.create[i] = h}
        BY <1>1, <1>2 DEF Created
    <2>2. made = Cardinality(Created(p, n, h))
        BY <2>1
    <2> HIDE DEF made
    <2>3. /\ e.hooks[h] >= made
          /\ \/ p.delete_all /\ n >= 1
             \/ \E i \in 1 .. Len(p.delete) : p.delete[i] = h /\ i + Wipes(p) <= n
             => e.hooks[h] = made
        BY <1>4, <2>2 DEF HooksAfter
    <2>4. h \in Range(p.delete) => \E i \in 1 .. Len(p.delete) : p.delete[i] = h /\ i + Wipes(p) <= n
        <3> SUFFICES ASSUME h \in Range(p.delete)
                     PROVE  \E i \in 1 .. Len(p.delete) : p.delete[i] = h /\ i + Wipes(p) <= n
            OBVIOUS
        <3>1. PICK i \in 1 .. Len(p.delete) : p.delete[i] = h
            BY <1>2 DEF Range
        <3>2. i + Wipes(p) <= n
            BY <1>0, <1>1, <1>2, <1>3
        <3>. QED  BY <3>1, <3>2
    <2>5. (p.delete_all => e.hooks[h] = made) /\ (made > 0 => e.hooks[h] >= made)
          /\ (h \in Range(p.delete) /\ made = 0 => e.hooks[h] = 0)
        BY <1>3, <2>3, <2>4
    <2>. QED  BY <2>5 DEF made
<1>. QED  BY <1>5 DEF InForce

LEMMA WebhooksAdvance ==
    ASSUME NEW d \in DeviceState, NEW p \in HookPayload, NEW ops \in Seq(Ops), ops # <<>>,
           WebhooksPlan(d, p, ops), Head(ops) # Invalid, ~Refuses(d, Head(ops)), NEW e, e = Applied(d, Head(ops))
    PROVE  Head(ops).method # "Schedule.List" /\ Onward(e, "webhooks", p, Tail(ops))
<1> DEFINE all == WebhookOps(p)
           op == Head(ops)
           rest == Tail(ops)
<1>1. PICK k \in 0 .. Len(all) :
         /\ Len(ops) = Len(all) - k
         /\ \A i \in 1 .. Len(ops) : ops[i] = all[k + i]
         /\ HooksAfter(d, p, k)
    BY DEF WebhooksPlan
<1>2. /\ Len(ops) \in Nat \ {0} /\ op = ops[1] /\ op \in Ops
      /\ rest \in Seq(Ops) /\ Len(rest) = Len(ops) - 1
      /\ \A i \in 1 .. Len(ops) - 1 : rest[i] = ops[i + 1]
      /\ rest = <<>> <=> Len(ops) = 1
    BY Rest
<1>3. Len(all) \in Nat
    BY WebhookCalls
<1>4. op # Invalid /\ ~Refuses(d, op) /\ e = Applied(d, op)
    OBVIOUS
<1> HIDE DEF all, op, rest
<1>5. k \in Nat /\ k < Len(all) /\ op = all[k + 1] /\ k + 1 \in 0 .. Len(all)
    BY <1>1, <1>2, <1>3
<1>6. HooksAfter(e, p, k + 1)
    BY <1>1, <1>2, <1>4, <1>5, HooksStep DEF all
<1>7. e \in DeviceState
    BY <1>2, <1>4, AppliedTyped
<1>8. op.method # "Schedule.List"
    <2> DEFINE n == k + 1
    <2>1. n \in 1 .. Len(all) /\ op = all[n]
        BY <1>3, <1>5
    <2> HIDE DEF n
    <2>2. all[n].method # "Schedule.List"
        BY <1>4, <2>1, WebhookMethods DEF all, HookMethods
    <2>. QED  BY <2>1, <2>2
<1>9. CASE rest = <<>>
    <2>1. k + 1 = Len(all)
        BY <1>1, <1>2, <1>3, <1>9
    <2>2. InForce(e, "webhooks", p)
        BY <1>6, <1>7, <2>1, WebhooksInForce DEF all
    <2>. QED  BY <1>8, <1>9, <2>2 DEF Onward, op, rest
<1>10. CASE rest # <<>>
    <2>1. Len(rest) = Len(all) - (k + 1)
        BY <1>1, <1>2, <1>3
    <2>2. ASSUME NEW i \in 1 .. Len(rest) PROVE rest[i] = all[(k + 1) + i]
        <3>1. i \in 1 .. Len(ops) - 1 /\ i + 1 \in 1 .. Len(ops) /\ k + (i + 1) = (k + 1) + i
            BY <1>2
        <3>2. rest[i] = all[k + (i + 1)]
            BY <1>1, <1>2, <3>1
        <3>. QED  BY <3>1, <3>2
    <2>3. WebhooksPlan(e, p, rest)
        BY <1>5, <1>6, <2>1, <2>2 DEF WebhooksPlan, all
    <2>4. Plan(e, "webhooks", p, rest)
        BY <2>3 DEF Plan, Single
    <2>. QED  BY <1>8, <1>10, <2>4 DEF Onward, op, rest
<1>. QED  BY <1>9, <1>10

-----------------------------------------------------------------------------
(* The other sections.                                                     *)

LEMMA SingleAdvance ==
    ASSUME NEW d \in DeviceState, NEW section \in Single, NEW p, NEW ops \in Seq(Ops), ops # <<>>,
           SinglePlan(section, p, ops), Head(ops) # Invalid, NEW e, e = Applied(d, Head(ops))
    PROVE  Head(ops).method # "Schedule.List" /\ Onward(e, section, p, Tail(ops))
<1> DEFINE op == Head(ops)
<1>1. ops = <<Op(section, Wanted(section, p))>> /\ ~(section = "ws" /\ WSInvalid(p))
    <2>1. ops # <<Invalid>>
        OBVIOUS
    <2>. QED  BY <2>1 DEF SinglePlan
<1>2. op = Op(section, Wanted(section, p)) /\ op \in Ops /\ Tail(ops) = <<>>
    BY <1>1, Rest
<1>3. op.method = section /\ op.arg = Wanted(section, p) /\ op.method # "Schedule.List" /\ e = Applied(d, op)
    BY <1>2 DEF Op, Single
<1> HIDE DEF op
<1>4. e.conf[section] = Wanted(section, p)
    BY <1>2, <1>3, ConfigApplied
<1>5. InForce(e, section, p)
    <2>1. CASE section = "sys"
        <3>1. e.conf["sys"] = NormalizeSys(p)
            BY <1>4, <2>1 DEF Wanted
        <3>. QED  BY <2>1, <3>1, SysInForce
    <2>2. CASE section = "ws"
        <3>1. e.conf["ws"] = NormalizeWS(p)
            BY <1>4, <2>2 DEF Wanted
        <3>2. /\ p.server # "none" => <<"server", p.server>> \in NormalizeWS(p)
              /\ p.server = "wss" /\ p.tls = "user" => <<"ssl_ca", p.ca>> \in NormalizeWS(p)
              /\ p.server = "wss" /\ p.tls = "no_validation" => <<"ssl_ca", "*">> \in NormalizeWS(p)
            BY DEF NormalizeWS
        <3>. QED  BY <2>2, <3>1, <3>2 DEF InForce
    <2>3. CASE section = "ble"
        BY <1>4, <2>3 DEF Wanted, InForce, NormalizeBLE
    <2>4. CASE section = "mqtt"
        BY <1>4, <2>4 DEF Wanted, InForce
    <2>. QED  BY <2>1, <2>2, <2>3, <2>4 DEF Single
<1>. QED  BY <1>2, <1>3, <1>5 DEF Onward, op

LEMMA EntriesAdvance ==
    ASSUME NEW d \in DeviceState, NEW section \in {"kvs", "script", "gen2_rpc"}, NEW p,
           NEW ops \in Seq(Ops), ops # <<>>,
           EntriesPlan(d, section, p, ops), Head(ops) # Invalid, NEW e, e = Applied(d, Head(ops))
    PROVE  Head(ops).method # "Schedule.List" /\ Onward(e, section, p, Tail(ops))
<1> DEFINE op == Head(ops)
           rest == Tail(ops)
<1>1. /\ Len(ops) \in Nat \ {0} /\ op = ops[1] /\ op \in Ops
      /\ rest \in Seq(Ops) /\ Len(rest) = Len(ops) - 1
      /\ \A i \in 1 .. Len(ops) - 1 : rest[i] = ops[i + 1]
      /\ rest = <<>> <=> Len(ops) = 1
    BY Rest
<1>2. op # Invalid /\ e = Applied(d, op)
    OBVIOUS
<1> HIDE DEF op, rest
<1>3. op.method = "Set"
    BY <1>1, <1>2 DEF EntriesPlan
<1>4. e.items = d.items \cup {op.arg}
    BY <1>1, <1>2, <1>3, SetApplied
<1>5. ASSUME NEW x \in p PROVE x \in e.items \/ \E i \in 1 .. Len(rest) : rest[i] = EntryOp(section, x)
    <2>1. CASE x \in d.items
        BY <1>4, <2>1
    <2>2. CASE x \notin d.items
        <3>1. PICK i \in 1 .. Len(ops) : ops[i] = EntryOp(section, x)
            BY <2>2 DEF EntriesPlan
        <3>2. CASE i = 1
            <4>1. op = Op("Set", x)
                BY <1>1, <1>2, <3>1, <3>2 DEF EntryOp
            <4>. QED  BY <1>4, <4>1 DEF Op
        <3>3. CASE i # 1
            <4>1. i - 1 \in 1 .. Len(ops) - 1 /\ (i - 1) + 1 = i
                BY <1>1, <3>3
            <4>2. rest[i - 1] = EntryOp(section, x) /\ i - 1 \in 1 .. Len(rest)
                BY <1>1, <3>1, <4>1
            <4>. QED  BY <4>2
        <3>. QED  BY <3>2, <3>3
    <2>. QED  BY <2>1, <2>2
<1>6. CASE rest = <<>>
    <2>0. ~\E i \in 1 .. Len(rest) : TRUE
        <3>1. Len(rest) = 0
            BY <1>1, <1>6
        <3>. QED  BY <3>1
    <2>1. p \subseteq e.items
        BY <1>5, <2>0
    <2>2. InForce(e, section, p)
        BY <2>1 DEF InForce
    <2>. QED  BY <1>3, <1>6, <2>2 DEF Onward, op, rest
<1>7. CASE rest # <<>>
    <2>1. ASSUME NEW i \in 1 .. Len(rest) PROVE rest[i] = Invalid \/ rest[i].method = "Set"
        <3>1. rest[i] = ops[i + 1] /\ i + 1 \in 1 .. Len(ops)
            BY <1>1
        <3>. QED  BY <3>1 DEF EntriesPlan
    <2>2. EntriesPlan(e, section, p, rest)
        BY <1>5, <2>1 DEF EntriesPlan
    <2>3. Plan(e, section, p, rest)
        BY <2>2 DEF Plan, Single
    <2>. QED  BY <1>3, <1>7, <2>3 DEF Onward, op, rest
<1>. QED  BY <1>6, <1>7

LEMMA AuthAdvance ==
    ASSUME NEW d \in DeviceState, NEW p, NEW ops \in Seq(Ops), ops # <<>>,
           Plan(d, "auth", p, ops), NEW e, e = Applied(d, Head(ops))
    PROVE  Head(ops).method # "Schedule.List" /\ Onward(e, "auth", p, Tail(ops))
<1> DEFINE op == Head(ops)
<1>1. Len(ops) = 1 /\ ops[1].method = "Shelly.SetAuth" /\ ops[1].arg.pass = p
    BY DEF Plan, Single
<1>2. op = ops[1] /\ op \in Ops /\ Tail(ops) = <<>> /\ e = Applied(d, op)
    BY <1>1, Rest
<1> HIDE DEF op
<1>3. e.password = p
    BY <1>1, <1>2, AuthApplied
<1>4. InForce(e, "auth", p)
    BY <1>3 DEF InForce
<1>. QED  BY <1>1, <1>2, <1>4 DEF Onward, op

\* The three calls of an upload.
LEMMA UploadCalls ==
    ASSUME NEW s \in Sessions
    PROVE  /\ UploadOps(s) \in Seq(Ops) /\ Len(UploadOps(s)) = 3 /\ UploadOps(s) # <<>>
           /\ UploadOps(s)[1] = Op("Shelly.PutUserCA", [data |-> <<Chunks(s)[1]>>, append |-> FALSE])
           /\ UploadOps(s)[2] = Op("Shelly.PutUserCA", [data |-> <<Chunks(s)[2]>>, append |-> TRUE])
           /\ UploadOps(s)[3] = Commit
<1> DEFINE f == [i \in DOMAIN Chunks(s) |-> Op("Shelly.PutUserCA", [data |-> <<Chunks(s)[i]>>, append |-> AppendFlag(i)])]
           c == Chunks(s)
           B == Seq(Sessions \X {1, 2})
           a == Op("Shelly.PutUserCA", [data |-> <<c[1]>>, append |-> FALSE])
           b == Op("Shelly.PutUserCA", [data |-> <<c[2]>>, append |-> TRUE])
<1>1. DOMAIN c = 1 .. 2 /\ c[1] \in Sessions \X {1, 2} /\ c[2] \in Sessions \X {1, 2}
    BY DEF Chunks
<1> HIDE DEF c
<1>2. <<c[1]>> \in B /\ <<c[2]>> \in B /\ <<>> \in B
    BY <1>1
<1>3. AppendFlag(1) = FALSE /\ AppendFlag(2) = TRUE
    BY DEF AppendFlag
<1>4. f = [i \in 1 .. 2 |-> Op("Shelly.PutUserCA", [data |-> <<c[i]>>, append |-> AppendFlag(i)])]
    BY <1>1 DEF c
<1>5. f[1] = a /\ f[2] = b /\ DOMAIN f = 1 .. 2
    <2> HIDE DEF f
    <2>1. 1 \in 1 .. 2 /\ 2 \in 1 .. 2
        OBVIOUS
    <2>2. /\ f[1] = Op("Shelly.PutUserCA", [data |-> <<c[1]>>, append |-> AppendFlag(1)])
          /\ f[2] = Op("Shelly.PutUserCA", [data |-> <<c[2]>>, append |-> AppendFlag(2)])
          /\ DOMAIN f = 1 .. 2
        BY <1>4, <2>1, Zenon
    <2>. QED  BY <1>3, <2>2, Zenon
<1>6. a \in Ops /\ b \in Ops /\ Commit \in Ops
    <2> HIDE DEF B
    <2>. QED  BY <1>2 DEF Op, Ops, Commit, B
<1>7. UploadOps(s) = f \o <<Commit>>
    BY DEF UploadOps
<1> HIDE DEF f, a, b
<1>8. f \in Seq(Ops) /\ Len(f) = 2
    <2>1. f \in [1 .. 2 -> Ops]
        <3>1. f = [i \in 1 .. 2 |-> f[i]] /\ \A i \in 1 .. 2 : f[i] \in Ops
            BY <1>4, <1>5, <1>6 DEF f
        <3>. QED  BY <3>1
    <2> DEFINE n == 2
    <2>2. f \in [1 .. n -> Ops] /\ n \in Nat
        BY <2>1
    <2> HIDE DEF n
    <2>3. f \in Seq(Ops) /\ Len(f) = n
        BY <2>2
    <2>. QED  BY <2>3 DEF n
<1> DEFINE u == UploadOps(s)
           z == <<Commit>>
<1>9. z \in Seq(Ops) /\ Len(z) = 1 /\ z[1] = Commit /\ u = f \o z
    BY <1>6, <1>7, OneCall
<1> HIDE DEF u, z
<1>10. u \in Seq(Ops) /\ Len(u) = Len(f) + Len(z)
       /\ (\A i \in 1 .. Len(f) : u[i] = f[i]) /\ (\A i \in 1 .. Len(z) : u[Len(f) + i] = z[i])
    <2>1. f \in Seq(Ops) /\ z \in Seq(Ops) /\ u = f \o z
        BY <1>8, <1>9
    <2>. QED  BY <2>1, Concat
<1>11. Len(u) = 3 /\ u[1] = a /\ u[2] = b /\ u[3] = Commit
    <2>1. 1 \in 1 .. Len(f) /\ 2 \in 1 .. Len(f) /\ 1 \in 1 .. Len(z) /\ Len(f) + 1 = 3
        BY <1>8, <1>9
    <2>. QED  BY <1>5, <1>8, <1>9, <1>10, <2>1
<1>12. u # <<>>
    BY <1>10, <1>11, EmptyCalls
<1>. QED  BY <1>10, <1>11, <1>12 DEF u, a, b, c

LEMMA UploadAdvance ==
    ASSUME NEW d \in DeviceState, NEW p, NEW ops \in Seq(Ops), ops # <<>>,
           UploadPlan(d, ops), NEW e, e = Applied(d, Head(ops))
    PROVE  Head(ops).method # "Schedule.List" /\ Onward(e, "upload", p, Tail(ops))
<1>1. PICK s \in Sessions :
         \/ ops = UploadOps(s)
         \/ ops = Tail(UploadOps(s)) /\ d.buffer = <<Chunks(s)[1]>>
         \/ ops = Tail(Tail(UploadOps(s))) /\ d.buffer = Chunks(s)
    BY DEF UploadPlan
<1> DEFINE u == UploadOps(s)
           u2 == Tail(u)
           u3 == Tail(u2)
           c == Chunks(s)
           a == [data |-> <<c[1]>>, append |-> FALSE]
           b == [data |-> <<c[2]>>, append |-> TRUE]
<1>2. /\ u \in Seq(Ops) /\ Len(u) = 3 /\ u # <<>> /\ u[1] = Op("Shelly.PutUserCA", a)
      /\ u[2] = Op("Shelly.PutUserCA", b) /\ u[3] = Commit
    BY UploadCalls
<1>3. c = <<c[1], c[2]>>
    BY DEF Chunks
<1> HIDE DEF u
<1>4. /\ u2 \in Seq(Ops) /\ Len(u2) = 2 /\ u2[1] = Op("Shelly.PutUserCA", b) /\ u2[2] = Commit
      /\ Head(u) = u[1] /\ u[1] \in Ops /\ u2 # <<>>
    <2>1. u # <<>> /\ 1 \in 1 .. Len(u) - 1 /\ 2 \in 1 .. Len(u) - 1
        <3> DEFINE n == Len(u)
        <3>1. n = 3 /\ u # <<>>
            BY <1>2
        <3> HIDE DEF n
        <3>2. 1 \in 1 .. n - 1 /\ 2 \in 1 .. n - 1
            BY <3>1
        <3>. QED  BY <3>1, <3>2 DEF n
    <2>2. /\ u2 \in Seq(Ops) /\ Len(u2) = Len(u) - 1 /\ Head(u) = u[1] /\ Head(u) \in Ops
          /\ \A i \in 1 .. Len(u) - 1 : u2[i] = u[i + 1]
          /\ u2 = <<>> <=> Len(u) = 1
        BY <1>2, <2>1, Rest
    <2> HIDE DEF u2
    <2>. QED  BY <1>2, <2>1, <2>2
<1> HIDE DEF u2
<1>5. u3 \in Seq(Ops) /\ Len(u3) = 1 /\ u3[1] = Commit /\ Head(u2) = u2[1] /\ u2[1] \in Ops /\ u3 # <<>>
    <2>1. 1 \in 1 .. Len(u2) - 1
        BY <1>4
    <2>2. /\ u3 \in Seq(Ops) /\ Len(u3) = Len(u2) - 1 /\ Head(u2) = u2[1] /\ Head(u2) \in Ops
          /\ \A i \in 1 .. Len(u2) - 1 : u3[i] = u2[i + 1]
          /\ u3 = <<>> <=> Len(u2) = 1
        BY <1>4, Rest
    <2> HIDE DEF u3
    <2>. QED  BY <1>4, <2>1, <2>2
<1> HIDE DEF u3
<1>6. Tail(u3) = <<>> /\ Head(u3) = u3[1] /\ u3[1] \in Ops
    BY <1>5, Rest
<1> HIDE DEF c
<1>7. CASE ops = u
    <2>1. Head(ops) = Op("Shelly.PutUserCA", a) /\ Head(ops) \in Ops
        BY <1>2, <1>4, <1>7
    <2>2. Head(ops).method = "Shelly.PutUserCA" /\ Head(ops).arg = a
        BY <2>1 DEF Op
    <2>3. a.data = <<c[1]>> /\ a.append = FALSE /\ a.data # <<>>
        OBVIOUS
    <2>4. e.buffer = <<>> \o <<c[1]>>
        <3> DEFINE op == Head(ops)
        <3> HIDE DEF a, op
        <3>1. e.buffer = (IF op.arg.append THEN d.buffer ELSE <<>>) \o op.arg.data
            BY <2>1, <2>2, <2>3, PutApplied DEF op
        <3>2. op.arg = a
            BY <2>2 DEF op
        <3>. QED  BY <2>3, <3>1, <3>2
    <2>5. e.buffer = <<c[1]>>
        BY <2>4
    <2>6. Tail(ops) = u2 /\ u2 # <<>>
        <3>1. Tail(ops) = u2
            BY <1>7 DEF u2
        <3>. QED  BY <1>4, <3>1
    <2>7. Plan(e, "upload", p, u2)
        BY <2>5 DEF Plan, Single, UploadPlan, u2, u, c
    <2>. QED  BY <2>2, <2>6, <2>7 DEF Onward
<1>8. CASE ops = u2 /\ d.buffer = <<c[1]>>
    <2>1. Head(ops) = Op("Shelly.PutUserCA", b) /\ Head(ops) \in Ops
        BY <1>4, <1>5, <1>8
    <2>2. Head(ops).method = "Shelly.PutUserCA" /\ Head(ops).arg = b
        BY <2>1 DEF Op
    <2>3. b.data = <<c[2]>> /\ b.append = TRUE /\ b.data # <<>>
        OBVIOUS
    <2>4. e.buffer = <<c[1]>> \o <<c[2]>>
        <3> DEFINE op == Head(ops)
        <3> HIDE DEF b, op
        <3>1. e.buffer = (IF op.arg.append THEN d.buffer ELSE <<>>) \o op.arg.data
            BY <2>1, <2>2, <2>3, PutApplied DEF op
        <3>2. op.arg = b
            BY <2>2 DEF op
        <3>. QED  BY <1>8, <2>3, <3>1, <3>2
    <2>5. e.buffer = c
        BY <1>3, <2>4
    <2>6. Tail(ops) = u3 /\ u3 # <<>>
        <3>1. Tail(ops) = u3
            BY <1>8 DEF u3
        <3>. QED  BY <1>5, <3>1
    <2>7. Plan(e, "upload", p, u3)
        BY <2>5 DEF Plan, Single, UploadPlan, u3, u2, u, c
    <2>. QED  BY <2>2, <2>6, <2>7 DEF Onward
<1>9. CASE ops = u3 /\ d.buffer = c
    <2>1. Head(ops) = Commit /\ Head(ops) \in Ops
        BY <1>5, <1>6, <1>9
    <2>2. Head(ops).method = "Shelly.PutUserCA" /\ Head(ops).arg.data = <<>>
        BY <2>1 DEF Op, Commit
    <2>3. e.file = c
        BY <1>9, <2>1, <2>2, PutApplied
    <2>4. InForce(e, "upload", p)
        BY <2>3 DEF InForce, c
    <2>. QED  BY <1>6, <1>9, <2>2, <2>4 DEF Onward
<1>. QED  BY <1>1, <1>7, <1>8, <1>9 DEF u, u2, u3, c

\* The deletions that a list asks for.
LEMMA DeletionsTyped ==
    ASSUME NEW d \in DeviceState, NEW listed \in Deletions(d.schedule)
    PROVE  /\ listed \in Seq(Ops)
           /\ \A i \in 1 .. Len(listed) : listed[i].method = "Schedule.Delete"
           /\ \A id \in AutoJobs(d) : \E i \in 1 .. Len(listed) : listed[i] = Op("Schedule.Delete", id)
<1> DEFINE J == AutoJobs(d)
           g == [id \in J |-> Op("Schedule.Delete", id)]
           S == {Op("Schedule.Delete", id) : id \in J}
<1>1. J \subseteq ScheduleIds
    BY DEF AutoJobs
<1>2. IsFiniteSet(J)
    <2>1. IsFiniteSet(ScheduleIds)
        <3> DEFINE n == 4
        <3>1. n \in Nat /\ ScheduleIds = 1 .. n
            BY DEF ScheduleIds
        <3> HIDE DEF n
        <3>. QED  BY <3>1, FS_Interval
    <2>. QED  BY <1>1, <2>1, FS_Subset
<1>3. listed \in SetToSeqs(S)
    BY DEF Deletions, AutoJobs
<1> HIDE DEF J
<1>4. S = {g[id] : id \in J} /\ DOMAIN g = J
    OBVIOUS
<1>5. IsFiniteSet(S)
    <2> HIDE DEF g, S
    <2>. QED  BY <1>2, <1>4, FiniteImage
<1>6. \A op \in S : op \in Ops /\ op.method = "Schedule.Delete"
    <2> SUFFICES ASSUME NEW id \in J
                 PROVE  Op("Schedule.Delete", id) \in Ops /\ Op("Schedule.Delete", id).method = "Schedule.Delete"
        OBVIOUS
    <2>. QED  BY <1>1 DEF Op, Ops
<1>7. \A id \in J : Op("Schedule.Delete", id) \in S
    OBVIOUS
<1> HIDE DEF S
<1>8. listed \in Seq(S) /\ \A x \in S : \E i \in 1 .. Len(listed) : listed[i] = x
    BY <1>3, <1>5, AllInOrder
<1>9. listed \in Seq(Ops) /\ \A i \in 1 .. Len(listed) : listed[i] \in S
    BY <1>6, <1>8
<1>. QED  BY <1>6, <1>7, <1>8, <1>9 DEF J

LEMMA AutoUpdateStarts ==
    ASSUME NEW d, NEW p, NEW ops, ops = AutoUpdateOps(p)
    PROVE  ops \in Seq(Ops) /\ ops # <<>> /\ AutoUpdatePlan(d, p, ops)
<1> DEFINE list == Op("Schedule.List", 0)
           new == Op("Schedule.Create", p)
<1>1. list \in Ops
    BY DEF Op, Ops
<1>2. CASE p \notin {"off", "stable", "beta"}
    <2>1. ops = <<Invalid>>
        BY <1>2 DEF AutoUpdateOps
    <2>. QED  BY <2>1, OneCall, InvalidTyped DEF AutoUpdatePlan
<1>3. CASE p = "off"
    <2>1. ops = <<list>> \o <<>>
        BY <1>3 DEF AutoUpdateOps
    <2>2. ops = <<list>>
        BY <2>1
    <2> HIDE DEF list
    <2>3. ops \in Seq(Ops) /\ Len(ops) = 1 /\ ops[1] = list /\ ops # <<>>
        BY <1>1, <2>2, OneCall
    <2>. QED  BY <1>3, <2>3 DEF AutoUpdatePlan, Creations, list
<1>4. CASE p \in {"stable", "beta"}
    <2>1. ops = <<list>> \o <<new>>
        BY <1>4 DEF AutoUpdateOps
    <2>2. new \in Ops
        BY <1>4 DEF Op, Ops
    <2> HIDE DEF list, new
    <2> DEFINE l == <<list>>
               m == <<new>>
    <2>3. l \in Seq(Ops) /\ m \in Seq(Ops) /\ Len(l) = 1 /\ Len(m) = 1 /\ l[1] = list /\ m[1] = new
        BY <1>1, <2>2, OneCall
    <2> HIDE DEF l, m
    <2>4. ops \in Seq(Ops) /\ Len(ops) = 2 /\ ops[1] = list /\ ops[2] = new /\ ops # <<>>
        <3>1. l \in Seq(Ops) /\ m \in Seq(Ops) /\ ops = l \o m
            BY <2>1, <2>3 DEF l, m
        <3>2. /\ ops \in Seq(Ops) /\ Len(ops) = Len(l) + Len(m)
              /\ \A i \in 1 .. Len(l) : ops[i] = l[i]
              /\ \A i \in 1 .. Len(m) : ops[Len(l) + i] = m[i]
            BY <3>1, Concat
        <3>3. 1 \in 1 .. Len(l) /\ 1 \in 1 .. Len(m) /\ Len(l) + 1 = 2 /\ Len(l) + Len(m) = 2
            BY <2>3
        <3>4. ops \in Seq(Ops) /\ Len(ops) = 2 /\ ops[1] = list /\ ops[2] = new
            BY <2>3, <3>2, <3>3
        <3>. QED  BY <3>4, EmptyCalls
    <2>5. Creations(p) = 1 /\ p # "off" /\ p \in {"off", "stable", "beta"}
        BY <1>4 DEF Creations
    <2>6. Len(ops) >= Creations(p) /\ ops[Len(ops)] = new /\ Len(ops) = 1 + Creations(p)
        BY <2>4, <2>5
    <2>. QED  BY <2>4, <2>5, <2>6 DEF AutoUpdatePlan, list, new
<1>. QED  BY <1>2, <1>3, <1>4

\* A device without an auto-update entry.
LEMMA NoAutoUpdate ==
    ASSUME NEW e, AutoJobs(e) = {}
    PROVE  InForce(e, "auto_update", "off")
<1>1. Cardinality(AutoJobs(e)) = 0
    BY FS_EmptySet
<1>. QED  BY <1>1 DEF InForce, ReadAutoUpdate

LEMMA AutoUpdateAdvance ==
    ASSUME NEW d \in DeviceState, NEW p, NEW ops \in Seq(Ops), ops # <<>>,
           AutoUpdatePlan(d, p, ops), Head(ops) # Invalid, ~Refuses(d, Head(ops)),
           NEW e, e = Applied(d, Head(ops)), NEW listed,
           listed \in (IF Head(ops).method = "Schedule.List" THEN Deletions(d.schedule) ELSE {<<>>})
    PROVE  Onward(e, "auto_update", p, listed \o Tail(ops))
<1> DEFINE op == Head(ops)
           tail == Tail(ops)
           rest == listed \o tail
           c == Creations(p)
           n == Len(ops)
<1>1. /\ n \in Nat \ {0} /\ op = ops[1] /\ op \in Ops
      /\ tail \in Seq(Ops) /\ Len(tail) = n - 1
      /\ \A i \in 1 .. n - 1 : tail[i] = ops[i + 1]
      /\ tail = <<>> <=> n = 1
    BY Rest
<1>2. ops # <<Invalid>>
    BY OneCall, InvalidTyped
<1>3. op # Invalid /\ ~Refuses(d, op) /\ e = Applied(d, op)
      /\ listed \in (IF op.method = "Schedule.List" THEN Deletions(d.schedule) ELSE {<<>>})
    OBVIOUS
<1> HIDE DEF op, tail
<1>4. /\ p \in {"off", "stable", "beta"}
      /\ n >= c
      /\ p # "off" => ops[n] = Op("Schedule.Create", p)
      /\ \/ ops[1] = Op("Schedule.List", 0) /\ n = 1 + c
         \/ /\ \A i \in 1 .. n - c : ops[i].method = "Schedule.Delete"
            /\ \A id \in AutoJobs(d) :
                 \E i \in 1 .. n - c : ops[i] = Op("Schedule.Delete", id)
    BY <1>2 DEF AutoUpdatePlan
<1>5. c = (IF p = "off" THEN 0 ELSE 1) /\ c \in 0 .. 1
    BY DEF Creations
<1>6. /\ d.schedule \in [ScheduleIds -> {"free", "owner", "stable", "beta"}] /\ e \in DeviceState
      /\ e.schedule \in [ScheduleIds -> {"free", "owner", "stable", "beta"}]
    <2>1. e \in DeviceState
        BY <1>1, <1>3, AppliedTyped
    <2>. QED  BY <2>1 DEF DeviceState
<1>0. op.method \in ScheduleMethods => ScheduleEffect(d, op, e)
    BY <1>1, <1>3, ScheduleApplied
<1> HIDE DEF c, n
<1>7. CASE ops[1] = Op("Schedule.List", 0) /\ n = 1 + c
    <2>1. op.method = "Schedule.List"
        BY <1>1, <1>7 DEF Op
    <2>2. e = d
        BY <1>0, <2>1 DEF ScheduleMethods, ScheduleEffect
    <2>3. listed \in Deletions(d.schedule)
        BY <1>3, <2>1
    <2>4. /\ listed \in Seq(Ops)
          /\ \A i \in 1 .. Len(listed) : listed[i].method = "Schedule.Delete"
          /\ \A id \in AutoJobs(d) : \E i \in 1 .. Len(listed) : listed[i] = Op("Schedule.Delete", id)
        BY <2>3, DeletionsTyped
    <2>5. /\ rest \in Seq(Ops) /\ Len(listed) \in Nat /\ Len(tail) \in Nat /\ Len(rest) = Len(listed) + Len(tail)
          /\ \A i \in 1 .. Len(listed) : rest[i] = listed[i]
          /\ \A i \in 1 .. Len(tail) : rest[Len(listed) + i] = tail[i]
        <3>1. listed \in Seq(Ops) /\ tail \in Seq(Ops) /\ rest = listed \o tail
            BY <1>1, <2>4
        <3>. QED  BY <3>1, Concat
    <2>6. Len(tail) = c
        BY <1>1, <1>5, <1>7
    <2> HIDE DEF rest
    <2>7. CASE rest = <<>>
        <3>1. Len(listed) = 0 /\ c = 0
            <4>1. Len(rest) = 0
                BY <2>5, <2>7, EmptyCalls
            <4>. QED  BY <2>5, <2>6, <4>1
        <3>2. AutoJobs(e) = {}
            BY <2>2, <2>4, <3>1
        <3>3. p = "off"
            BY <1>5, <3>1
        <3>. QED  BY <2>7, <3>2, <3>3, NoAutoUpdate DEF Onward, rest, tail
    <2>8. CASE rest # <<>>
        <3>1. Len(rest) >= c /\ Len(rest) - c = Len(listed)
            BY <1>5, <2>5, <2>6
        <3>2. p # "off" => rest[Len(rest)] = Op("Schedule.Create", p)
            <4> SUFFICES ASSUME p # "off" PROVE rest[Len(rest)] = Op("Schedule.Create", p)
                OBVIOUS
            <4>1. c = 1 /\ n = 2
                BY <1>5, <1>7
            <4>2. tail[1] = ops[2] /\ rest[Len(listed) + 1] = tail[1] /\ Len(rest) = Len(listed) + 1
                BY <1>1, <2>5, <2>6, <4>1
            <4>. QED  BY <1>4, <4>1, <4>2
        <3>3. \A i \in 1 .. Len(listed) : rest[i].method = "Schedule.Delete"
            BY <2>4, <2>5
        <3>4. \A id \in AutoJobs(e) : \E i \in 1 .. Len(listed) : rest[i] = Op("Schedule.Delete", id)
            BY <2>2, <2>4, <2>5
        <3>5. AutoUpdatePlan(e, p, rest)
            BY <1>4, <3>1, <3>2, <3>3, <3>4 DEF AutoUpdatePlan, c
        <3>6. Plan(e, "auto_update", p, rest)
            BY <3>5 DEF Plan, Single
        <3>. QED  BY <2>8, <3>6 DEF Onward, rest, tail
    <2>. QED  BY <2>7, <2>8
<1>8. ASSUME op.method # "Schedule.List" PROVE rest = tail
    <2>1. listed = <<>>
        BY <1>3, <1>8
    <2>. QED  BY <1>1, <2>1
<1>9. CASE /\ \A i \in 1 .. n - c : ops[i].method = "Schedule.Delete"
           /\ \A id \in AutoJobs(d) : \E i \in 1 .. n - c : ops[i] = Op("Schedule.Delete", id)
           /\ n > c
    <2>1. 1 \in 1 .. n - c /\ op.method = "Schedule.Delete"
        BY <1>1, <1>5, <1>9
    <2>2. op.arg \in ScheduleIds /\ e.schedule = [d.schedule EXCEPT ![op.arg] = "free"]
        BY <1>0, <2>1 DEF ScheduleMethods, ScheduleEffect
    <2>3. \A id \in AutoJobs(e) : id \in AutoJobs(d) /\ id # op.arg
        BY <1>6, <2>2 DEF AutoJobs, IsAutoUpdate
    <2>4. rest = tail
        BY <1>8, <2>1
    <2>5. ASSUME NEW id \in AutoJobs(e) PROVE \E i \in 1 .. (n - 1) - c : tail[i] = Op("Schedule.Delete", id)
        <3>1. PICK i \in 1 .. n - c : ops[i] = Op("Schedule.Delete", id)
            BY <1>9, <2>3
        <3>2. i # 1
            BY <1>1, <2>3, <3>1 DEF Op
        <3>3. i - 1 \in 1 .. (n - 1) - c /\ i - 1 \in 1 .. n - 1 /\ (i - 1) + 1 = i
            BY <1>1, <1>5, <3>2
        <3>4. tail[i - 1] = Op("Schedule.Delete", id)
            BY <1>1, <3>1, <3>3
        <3>. QED  BY <3>3, <3>4
    <2>6. CASE tail = <<>>
        <3>1. n = 1 /\ c = 0 /\ p = "off"
            BY <1>1, <1>5, <1>9, <2>6
        <3>2. (n - 1) - c = 0
            BY <3>1
        <3>3. AutoJobs(e) = {}
            BY <2>5, <3>2
        <3>4. InForce(e, "auto_update", p)
            BY <3>1, <3>3, NoAutoUpdate
        <3>. QED  BY <2>4, <2>6, <3>4 DEF Onward, rest, tail
    <2>7. CASE tail # <<>>
        <3>1. n > 1 /\ n - 1 >= c
            BY <1>1, <1>5, <1>9, <2>7
        <3>2. p # "off" => tail[n - 1] = Op("Schedule.Create", p)
            <4>1. n - 1 \in 1 .. n - 1 /\ (n - 1) + 1 = n
                BY <1>1, <3>1
            <4>2. tail[n - 1] = ops[n]
                BY <1>1, <4>1
            <4>. QED  BY <1>4, <4>2
        <3>3. ASSUME NEW i \in 1 .. (n - 1) - c PROVE tail[i].method = "Schedule.Delete"
            <4>1. i \in 1 .. n - 1 /\ i + 1 \in 1 .. n - c
                BY <1>1, <1>5
            <4>. QED  BY <1>1, <1>9, <4>1
        <3>4. AutoUpdatePlan(e, p, tail)
            BY <1>1, <1>4, <2>5, <3>1, <3>2, <3>3 DEF AutoUpdatePlan, c
        <3>5. Plan(e, "auto_update", p, tail)
            BY <3>4 DEF Plan, Single
        <3>. QED  BY <2>4, <2>7, <3>5 DEF Onward, rest, tail
    <2>. QED  BY <2>6, <2>7
<1>10. CASE (\A id \in AutoJobs(d) : \E i \in 1 .. n - c : ops[i] = Op("Schedule.Delete", id)) /\ n = c
    <2>1. n = 1 /\ c = 1 /\ p \in {"stable", "beta"} /\ op = Op("Schedule.Create", p)
        BY <1>1, <1>4, <1>5, <1>10
    <2>2. op.method = "Schedule.Create" /\ op.arg = p
        BY <2>1 DEF Op
    <2>3. AutoJobs(d) = {}
        <3>1. n - c = 0
            BY <2>1
        <3>. QED  BY <1>10, <3>1
    <2>4. PICK id \in ScheduleIds : e.schedule = [d.schedule EXCEPT ![id] = p]
        BY <1>0, <2>2 DEF ScheduleMethods, ScheduleEffect
    <2>5. AutoJobs(e) = {id}
        BY <1>6, <2>1, <2>3, <2>4 DEF AutoJobs, IsAutoUpdate
    <2>6. Cardinality(AutoJobs(e)) = 1
        BY <2>5, FS_Singleton
    <2>7. ReadAutoUpdate(e) = p
        <3>1. id <= id
            BY DEF ScheduleIds
        <3>2. (CHOOSE j \in AutoJobs(e) : \A k \in AutoJobs(e) : j <= k) = id
            BY <2>5, <3>1
        <3>3. e.schedule[id] = p /\ AutoJobs(e) # {}
            BY <1>6, <2>4, <2>5
        <3>. QED  BY <3>2, <3>3 DEF ReadAutoUpdate
    <2>8. rest = <<>>
        BY <1>1, <1>8, <2>1, <2>2
    <2>9. InForce(e, "auto_update", p)
        BY <2>6, <2>7 DEF InForce
    <2>. QED  BY <2>8, <2>9 DEF Onward, rest, tail
<1>. QED  BY <1>1, <1>4, <1>5, <1>7, <1>9, <1>10 DEF rest, tail

-----------------------------------------------------------------------------
(* Any section.                                                            *)

LEMMA UploadStarts ==
    ASSUME NEW s \in Sessions, NEW d, NEW p
    PROVE  UploadOps(s) \in Seq(Ops) /\ UploadOps(s) # <<>> /\ Plan(d, "upload", p, UploadOps(s))
<1>1. UploadPlan(d, UploadOps(s))
    BY DEF UploadPlan
<1>. QED  BY <1>1, UploadCalls DEF Plan, Single

\* Whatever a template holds, what the code reads of it has the type it asks for.
LEMMA ReadTyped ==
    ASSUME NEW section \in Sections, NEW raw, RawPayload(section, raw)
    PROVE  WellFormed(section, Read(section, raw))
<1>1. CASE section = "sys"
    BY <1>1 DEF RawPayload, Read, WellFormed
<1>2. CASE section = "ws"
    <2>1. [server |-> "none", tls |-> "none", ca |-> "none"] \in [server : Names, tls : Names, ca : Names]
        BY ProvisionAssumption
    <2>. QED  BY <1>2, <2>1 DEF RawPayload, Read, WellFormed
<1>3. CASE section \in {"ble", "mqtt"}
    BY <1>3 DEF RawPayload, Read, WellFormed
<1>4. CASE section \in {"kvs", "script", "gen2_rpc"}
    BY <1>4, FS_EmptySet DEF RawPayload, Read, WellFormed
<1>5. CASE section = "auth"
    BY <1>5, ProvisionAssumption DEF RawPayload, Read, WellFormed
<1>6. CASE section = "webhooks"
    <2> DEFINE List(f) == IF raw = Misfit THEN <<>> ELSE IF raw[f] = Misfit THEN <<>> ELSE raw[f]
               all == IF raw = Misfit THEN FALSE ELSE raw.delete_all = TRUE
    <2>1. \A f \in {"delete", "update", "create"} : List(f) \in Seq(Hooks \cup {Misfit})
        BY <1>6 DEF RawPayload
    <2>2. all \in BOOLEAN
        OBVIOUS
    <2>3. Read(section, raw) = [delete_all |-> all, delete |-> List("delete"), update |-> List("update"),
                                create |-> List("create")]
        BY <1>6 DEF Read
    <2> HIDE DEF List, all
    <2>4. Read(section, raw) \in HookPayload
        BY <2>1, <2>2, <2>3 DEF HookPayload
    <2>. QED  BY <1>6, <2>4 DEF WellFormed
<1>7. CASE section \in {"gen1_http", "auto_update"}
    BY <1>7 DEF WellFormed
<1>. QED  BY <1>1, <1>2, <1>3, <1>4, <1>5, <1>6, <1>7 DEF Sections

\* applySection: what a section begins with.
LEMMA SectionStarts ==
    ASSUME NEW d \in DeviceState, NEW section \in Sections, NEW p, WellFormed(section, p),
           NEW serial \in 0 .. 1, NEW ops \in SectionOps(section, p, serial)
    PROVE  /\ ops \in Seq(Ops)
           /\ ops # <<>> => Plan(d, section, p, ops)
           /\ ops = <<>> /\ EmptyStatus(section) = "ok" => InForce(d, section, p)
<1>1. CASE section \in Single
    <2>1. ops \in Seq(Ops) /\ (ops # <<>> => SinglePlan(section, p, ops))
        BY <1>1, SingleStarts
    <2>2. EmptyStatus(section) # "ok"
        BY <1>1 DEF EmptyStatus, Single
    <2>3. SinglePlan(section, p, ops) => Plan(d, section, p, ops)
        BY <1>1 DEF Plan, Single
    <2>. QED  BY <2>1, <2>2, <2>3
<1>2. CASE section \in {"kvs", "script", "gen2_rpc"}
    <2>1. ops \in Seq(Ops) /\ EntriesPlan(d, section, p, ops)
        BY <1>2, EntriesStart
    <2>2. Plan(d, section, p, ops)
        BY <1>2, <2>1 DEF Plan, Single
    <2>3. ASSUME ops = <<>> PROVE InForce(d, section, p)
        <3>1. Len(ops) = 0
            BY <2>3
        <3>2. ~\E i \in 1 .. Len(ops) : TRUE
            BY <3>1
        <3>3. p \subseteq d.items
            BY <2>1, <3>2 DEF EntriesPlan
        <3>. QED  BY <1>2, <3>3 DEF InForce
    <2>. QED  BY <2>1, <2>2, <2>3
<1>3. CASE section = "auth"
    <2> DEFINE op == Op("Shelly.SetAuth", [pass |-> p, realm |-> serial])
    <2>1. op \in Ops /\ op.method = "Shelly.SetAuth" /\ op.arg.pass = p
        BY <1>3 DEF Op, Ops, WellFormed
    <2>2. ops = <<op>>
        BY <1>3 DEF SectionOps
    <2> HIDE DEF op
    <2>3. ops \in Seq(Ops) /\ Len(ops) = 1 /\ ops[1] = op /\ ops # <<>>
        BY <2>1, <2>2, OneCall
    <2>4. Plan(d, section, p, ops)
        BY <1>3, <2>1, <2>3 DEF Plan, Single
    <2>. QED  BY <2>3, <2>4
<1>4. CASE section = "webhooks"
    <2>1. p \in HookPayload /\ ops = WebhookOps(p)
        BY <1>4 DEF WellFormed, SectionOps
    <2>2. ops \in Seq(Ops) /\ WebhooksPlan(d, p, ops)
        BY <2>1, WebhookCalls, WebhooksStart
    <2>3. Plan(d, section, p, ops)
        BY <1>4, <2>2 DEF Plan, Single
    <2>4. EmptyStatus(section) # "ok"
        BY <1>4 DEF EmptyStatus
    <2>. QED  BY <2>2, <2>3, <2>4
<1>5. CASE section = "auto_update"
    <2>1. ops = AutoUpdateOps(p)
        BY <1>5 DEF SectionOps
    <2>2. ops \in Seq(Ops) /\ ops # <<>> /\ AutoUpdatePlan(d, p, ops)
        BY <2>1, AutoUpdateStarts
    <2>3. Plan(d, section, p, ops)
        BY <1>5, <2>2 DEF Plan, Single
    <2>. QED  BY <2>2, <2>3
<1>6. CASE section = "gen1_http"
    <2>1. ops = <<>>
        BY <1>6 DEF SectionOps
    <2>2. EmptyStatus(section) # "ok"
        BY <1>6 DEF EmptyStatus
    <2>3. <<>> \in Seq(Ops)
        OBVIOUS
    <2>. QED  BY <2>1, <2>2, <2>3
<1>. QED  BY <1>1, <1>2, <1>3, <1>4, <1>5, <1>6 DEF Sections, Single

\* applyBulkAction and the action catalog.
LEMMA ActionStarts ==
    ASSUME NEW d, NEW entry \in Actions, NEW section, NEW p, section = entry[1], p = entry[2],
           NEW ops, ops = ActionOps(section, p)
    PROVE  /\ ops \in Seq(Ops) /\ ops # <<>> /\ Read(section, p) = p
           /\ WellFormed(section, p) /\ Plan(d, section, p, ops)
<1>1. (section = "action" /\ IsSetter(p)) \/ (section = "auto_update" /\ p \in {"off", "stable", "beta"})
    BY ProvisionAssumption
<1>2. CASE section = "action" /\ IsSetter(p)
    <2>1. p \in Ops
        <3>1. CASE p.method \in {"sys", "mqtt", "ble"}
            BY <1>2, <3>1 DEF IsSetter, Ops, Single
        <3>2. CASE p.method \notin {"sys", "mqtt", "ble"}
            BY <1>2, <3>2 DEF IsSetter, Ops
        <3>. QED  BY <3>1, <3>2
    <2>2. ops = <<p>>
        BY <1>2 DEF ActionOps
    <2>3. ops \in Seq(Ops) /\ ops # <<>>
        BY <2>1, <2>2, OneCall
    <2>. QED  BY <1>2, <2>2, <2>3 DEF WellFormed, Plan, Single, Read
<1>3. CASE section = "auto_update" /\ p \in {"off", "stable", "beta"}
    <2>1. ops = AutoUpdateOps(p)
        BY <1>3 DEF ActionOps
    <2>2. ops \in Seq(Ops) /\ ops # <<>> /\ AutoUpdatePlan(d, p, ops)
        BY <2>1, AutoUpdateStarts
    <2>. QED  BY <1>3, <2>2 DEF WellFormed, Plan, Single, Read
<1>. QED  BY <1>1, <1>2, <1>3

LEMMA ActionAdvance ==
    ASSUME NEW d \in DeviceState, NEW p, IsSetter(p), NEW ops \in Seq(Ops), ops = <<p>>,
           NEW e, e = Applied(d, Head(ops))
    PROVE  Head(ops).method # "Schedule.List" /\ Onward(e, "action", p, Tail(ops))
<1>1. Head(ops) = p /\ p \in Ops /\ Tail(ops) = <<>> /\ e = Applied(d, p)
    BY Rest
<1>2. p.method # "Schedule.List"
    BY DEF IsSetter, SetterMethods
<1>3. p.method \in Single => e.conf[p.method] = p.arg
    BY <1>1, ConfigApplied
<1>4. InForce(e, "action", p)
    BY <1>3 DEF InForce
<1>. QED  BY <1>1, <1>2, <1>4 DEF Onward

\* What is still to be called after an answer.
LEMMA RestTyped ==
    ASSUME NEW d \in DeviceState, NEW ops \in Seq(Ops), ops # <<>>, NEW listed,
           listed \in (IF Head(ops).method = "Schedule.List" THEN Deletions(d.schedule) ELSE {<<>>})
    PROVE  /\ listed \o Tail(ops) \in Seq(Ops)
           /\ Head(ops).method # "Schedule.List" => listed \o Tail(ops) = Tail(ops)
<1> DEFINE t == Tail(ops)
<1>1. t \in Seq(Ops)
    BY Rest
<1> HIDE DEF t
<1>2. CASE Head(ops).method = "Schedule.List"
    <2>1. listed \in Deletions(d.schedule)
        BY <1>2
    <2>2. listed \in Seq(Ops)
        BY <2>1, DeletionsTyped
    <2>3. listed \o t \in Seq(Ops)
        BY <1>1, <2>2
    <2>. QED  BY <1>2, <2>3 DEF t
<1>3. CASE Head(ops).method # "Schedule.List"
    <2>1. listed = <<>>
        BY <1>3
    <2>2. listed \o t = t
        BY <1>1, <2>1
    <2>. QED  BY <1>1, <1>3, <2>2 DEF t
<1>. QED  BY <1>2, <1>3

\* The device does the next call of a section: the rest is the section's plan, or
\* the section is in force.
LEMMA Advance ==
    ASSUME NEW d \in DeviceState, NEW section, NEW p, WellFormed(section, p),
           NEW ops \in Seq(Ops), ops # <<>>, Plan(d, section, p, ops),
           Head(ops) # Invalid, ~Refuses(d, Head(ops)), NEW e, e = Applied(d, Head(ops)), NEW listed,
           listed \in (IF Head(ops).method = "Schedule.List" THEN Deletions(d.schedule) ELSE {<<>>})
    PROVE  Onward(e, section, p, listed \o Tail(ops))
<1>1. Head(ops).method # "Schedule.List" => listed \o Tail(ops) = Tail(ops)
    BY RestTyped
<1> SUFFICES \/ Head(ops).method # "Schedule.List" /\ Onward(e, section, p, Tail(ops))
             \/ Onward(e, section, p, listed \o Tail(ops))
    BY <1>1
<1>2. CASE section \in Single
    <2>1. SinglePlan(section, p, ops)
        BY <1>2 DEF Plan, Single
    <2>. QED  BY <1>2, <2>1, SingleAdvance
<1>3. CASE section \in {"kvs", "script", "gen2_rpc"}
    <2>1. EntriesPlan(d, section, p, ops)
        BY <1>3 DEF Plan, Single
    <2>. QED  BY <1>3, <2>1, EntriesAdvance
<1>4. CASE section = "auth"
    <2>1. Plan(d, "auth", p, ops)
        BY <1>4
    <2>2. Head(ops).method # "Schedule.List" /\ Onward(e, "auth", p, Tail(ops))
        BY <2>1, AuthAdvance
    <2>. QED  BY <1>4, <2>2
<1>5. CASE section = "webhooks"
    <2>1. WebhooksPlan(d, p, ops) /\ p \in HookPayload
        BY <1>5 DEF Plan, Single, WellFormed
    <2>2. Head(ops).method # "Schedule.List" /\ Onward(e, "webhooks", p, Tail(ops))
        BY <2>1, WebhooksAdvance
    <2>. QED  BY <1>5, <2>2
<1>6. CASE section = "auto_update"
    <2>1. AutoUpdatePlan(d, p, ops)
        BY <1>6 DEF Plan, Single
    <2>2. Onward(e, "auto_update", p, listed \o Tail(ops))
        BY <2>1, AutoUpdateAdvance
    <2>. QED  BY <1>6, <2>2
<1>7. CASE section = "upload"
    <2>1. UploadPlan(d, ops)
        BY <1>7 DEF Plan, Single
    <2>2. Head(ops).method # "Schedule.List" /\ Onward(e, "upload", p, Tail(ops))
        BY <2>1, UploadAdvance
    <2>. QED  BY <1>7, <2>2
<1>8. CASE section = "action"
    <2>1. ops = <<p>> /\ IsSetter(p)
        BY <1>8 DEF Plan, Single, WellFormed
    <2>2. Head(ops).method # "Schedule.List" /\ Onward(e, "action", p, Tail(ops))
        BY <2>1, ActionAdvance
    <2>. QED  BY <1>8, <2>2
<1>9. CASE section \notin Single \cup {"kvs", "script", "gen2_rpc", "auth", "webhooks", "auto_update", "upload", "action"}
    BY <1>9 DEF Onward, Plan, InForce, Single
<1>. QED  BY <1>2, <1>3, <1>4, <1>5, <1>6, <1>7, <1>8, <1>9

\* A section depends on the configuration of the device only.
LEMMA SameConfig ==
    ASSUME NEW d, NEW e, Config(e) = Config(d), NEW section, NEW p, NEW ops
    PROVE  /\ InForce(d, section, p) => InForce(e, section, p)
           /\ Plan(d, section, p, ops) => Plan(e, section, p, ops)
<1>1. /\ e.password = d.password /\ e.conf = d.conf /\ e.items = d.items /\ e.hooks = d.hooks
      /\ e.schedule = d.schedule /\ e.buffer = d.buffer /\ e.file = d.file
    BY DEF Config
<1>2. AutoJobs(e) = AutoJobs(d)
    BY <1>1 DEF AutoJobs
<1>3. ReadAutoUpdate(e) = ReadAutoUpdate(d)
    <2> DEFINE First(S) == CHOOSE j \in S : \A k \in S : j <= k
    <2>1. /\ ReadAutoUpdate(e) = IF AutoJobs(e) = {} THEN "off" ELSE e.schedule[First(AutoJobs(e))]
          /\ ReadAutoUpdate(d) = IF AutoJobs(d) = {} THEN "off" ELSE d.schedule[First(AutoJobs(d))]
        BY Zenon DEF ReadAutoUpdate
    <2> HIDE DEF First
    <2>. QED  BY <1>1, <1>2, <2>1
<1>4. InForce(e, section, p) = InForce(d, section, p)
    BY <1>1, <1>2, <1>3, Zenon DEF InForce
<1>5. /\ EntriesPlan(e, section, p, ops) = EntriesPlan(d, section, p, ops)
      /\ WebhooksPlan(e, p, ops) = WebhooksPlan(d, p, ops)
      /\ AutoUpdatePlan(e, p, ops) = AutoUpdatePlan(d, p, ops)
      /\ UploadPlan(e, ops) = UploadPlan(d, ops)
    BY <1>1, <1>2, Zenon DEF EntriesPlan, WebhooksPlan, HooksAfter, AutoUpdatePlan, UploadPlan
<1>6. Plan(e, section, p, ops) = Plan(d, section, p, ops)
    BY <1>5, Zenon DEF Plan
<1>. QED  BY <1>4, <1>6

-----------------------------------------------------------------------------
(* The sessions that stand by.                                             *)

\* A session loses what another one may have spoiled.
Loses(w, v, d, e) ==
    \E a, k, c : \E n \in {"none", "fresh", "stale"} :
       /\ a # 1 \/ (a = w.alone /\ Config(e) = Config(d))
       /\ k # 1 \/ (k = w.kept /\ e.password \in {w.creds, NoAuth})
       /\ c # 1 \/ (c = w.calm /\ n = w.nonce)
       /\ v = [w EXCEPT !.alone = a, !.kept = k, !.calm = c, !.nonce = n]

LEMMA Weakened ==
    ASSUME NEW w, NEW d, NEW e, SessionOK(w, d), NEW v, Loses(w, v, d, e)
    PROVE  SessionOK(v, e)
<1>0. PICK a, k, c : \E n \in {"none", "fresh", "stale"} :
         /\ a # 1 \/ (a = w.alone /\ Config(e) = Config(d))
         /\ k # 1 \/ (k = w.kept /\ e.password \in {w.creds, NoAuth})
         /\ c # 1 \/ (c = w.calm /\ n = w.nonce)
         /\ v = [w EXCEPT !.alone = a, !.kept = k, !.calm = c, !.nonce = n]
    BY DEF Loses
<1> PICK n \in {"none", "fresh", "stale"} :
         /\ a # 1 \/ (a = w.alone /\ Config(e) = Config(d))
         /\ k # 1 \/ (k = w.kept /\ e.password \in {w.creds, NoAuth})
         /\ c # 1 \/ (c = w.calm /\ n = w.nonce)
         /\ v = [w EXCEPT !.alone = a, !.kept = k, !.calm = c, !.nonce = n]
    BY <1>0
<1>1. WorkTyped(w) /\ DOMAIN w = WorkFields
    BY DEF SessionOK, WorkTyped
<1>2. /\ DOMAIN v = WorkFields /\ v.kind = w.kind /\ v.pc = w.pc /\ v.todo = w.todo /\ v.section = w.section
      /\ v.payload = w.payload /\ v.ops = w.ops /\ v.status = w.status /\ v.creds = w.creds
      /\ v.serial = w.serial /\ v.seen = w.seen
      /\ v.alone = a /\ v.kept = k /\ v.calm = c /\ v.nonce = n
    BY <1>1 DEF WorkFields
<1>3. WorkTyped(v)
    BY <1>1, <1>2 DEF WorkTyped
<1>4. CredentialHolds(v, e)
    BY <1>2 DEF SessionOK, CredentialHolds
<1>5. SectionHolds(v, e)
    BY <1>2, SameConfig DEF SessionOK, SectionHolds, Got
<1>. QED  BY <1>3, <1>4, <1>5 DEF SessionOK

LEMMA BystanderKeeps ==
    ASSUME NEW s, NEW t \in Sessions, s # t, NEW e, NEW restart \in BOOLEAN, SessionOK(work[t], dev)
    PROVE  SessionOK(Others(s, e, restart)[t], e)
<1> DEFINE w == work[t]
           v == Others(s, e, restart)[t]
           a == IF Config(e) = Config(dev) THEN w.alone ELSE 0
           k == IF e.password \in {w.creds, NoAuth} THEN w.kept ELSE 0
           c == IF restart THEN 0 ELSE w.calm
           n == IF restart /\ w.nonce = "fresh" THEN "stale" ELSE w.nonce
<1>1. CASE w.pc = "idle"
    <2>1. v = w
        BY <1>1 DEF Others
    <2>2. SessionOK(w, e)
        BY <1>1 DEF SessionOK, WorkTyped, CredentialHolds, SectionHolds
    <2>. QED  BY <2>1, <2>2
<1>2. CASE w.pc # "idle"
    <2>1. v = [w EXCEPT !.alone = a, !.kept = k, !.calm = c, !.nonce = n]
        BY <1>2 DEF Others
    <2>2. n \in {"none", "fresh", "stale"}
        BY DEF SessionOK, WorkTyped
    <2>3. /\ a # 1 \/ (a = w.alone /\ Config(e) = Config(dev))
          /\ k # 1 \/ (k = w.kept /\ e.password \in {w.creds, NoAuth})
          /\ c # 1 \/ (c = w.calm /\ n = w.nonce)
        OBVIOUS
    <2>4. SessionOK(w, dev)
        OBVIOUS
    <2> HIDE DEF w, v, a, k, c, n
    <2>5. Loses(w, v, dev, e)
        BY <2>1, <2>2, <2>3 DEF Loses
    <2>6. SessionOK(v, e)
        BY <2>4, <2>5, Weakened
    <2>. QED  BY <2>6 DEF v
<1>. QED  BY <1>1, <1>2

\* A step that leaves the configuration alone.
LEMMA SameKeeps ==
    ASSUME NEW w, NEW d, NEW e, SessionOK(w, d), Config(e) = Config(d)
    PROVE  SessionOK(w, e)
<1>1. e.password = d.password
    BY DEF Config
<1>2. CredentialHolds(w, e)
    BY <1>1 DEF SessionOK, CredentialHolds
<1>3. SectionHolds(w, e)
    BY SameConfig DEF SessionOK, SectionHolds
<1>. QED  BY <1>2, <1>3 DEF SessionOK

\* A step of one session that leaves the device alone.
LEMMA OneSession ==
    ASSUME SessionsOK, NEW s \in Sessions, NEW v, SessionOK(v, dev), work' = [work EXCEPT ![s] = v], dev' = dev
    PROVE  SessionsOK'
    BY DEF SessionsOK

\* A call that the device does.
LEMMA CallDone ==
    ASSUME SessionsOK, NEW s \in Sessions, NEW v, NEW restart \in BOOLEAN, SessionOK(v, dev'),
           work' = [Others(s, dev', restart) EXCEPT ![s] = v]
    PROVE  SessionsOK'
<1> DEFINE o == Others(s, dev', restart)
<1>1. DOMAIN o = Sessions
    BY DEF Others
<1>2. \A t \in Sessions : t # s => SessionOK(o[t], dev')
    BY BystanderKeeps DEF SessionsOK
<1> HIDE DEF o
<1>3. work' = [o EXCEPT ![s] = v]
    BY DEF o
<1>4. DOMAIN work' = Sessions /\ work'[s] = v /\ \A t \in Sessions : t # s => work'[t] = o[t]
    BY <1>1, <1>3
<1>. QED  BY <1>2, <1>4 DEF SessionsOK

-----------------------------------------------------------------------------
(* The steps of a session.                                                 *)

LEMMA IdleOK ==
    ASSUME NEW d
    PROVE  SessionOK(IdleWork, d)
<1>1. <<>> \in Seq(Ops)
    OBVIOUS
<1>2. WorkTyped(IdleWork)
    BY <1>1 DEF IdleWork, WorkTyped, WorkFields, Credentials
<1>. QED  BY <1>2 DEF SessionOK, CredentialHolds, SectionHolds, IdleWork

\* The head of a request.
LEMMA BegunDoes ==
    ASSUME NEW kind, NEW pc, NEW creds, rowVer \in 1 .. 2, NEW b, b = Begun(kind, pc, creds)
    PROVE  /\ DOMAIN b = WorkFields /\ b.kind = kind /\ b.pc = pc /\ b.creds = creds /\ b.seen = rowVer
           /\ b.todo = {} /\ b.ops = <<>> /\ b.status = "none" /\ b.nonce = "none" /\ b.serial = 0
           /\ b.payload = {}
           /\ b.kept = 1 => dev.password \in {creds, NoAuth}
<1>1. BoolToInt(dev.password \in {creds, NoAuth}) = 1 => dev.password \in {creds, NoAuth}
    BY DEF BoolToInt
<1>2. b = [IdleWork EXCEPT !.kind = kind, !.pc = pc, !.creds = creds, !.seen = rowVer,
                           !.kept = BoolToInt(dev.password \in {creds, NoAuth})]
    BY DEF Begun
<1>. QED  BY <1>1, <1>2 DEF IdleWork, WorkFields

LEMMA BeginProvisionKeeps ==
    ASSUME SessionsOK, rowVer \in 1 .. 2, NEW s \in Sessions, NEW template \in Templates,
           NEW ref \in Passwords \cup {NoAuth}, NEW held, BeginProvision(s, template, ref, held)
    PROVE  SessionsOK'
<1> DEFINE creds == IF ref = NoAuth THEN Assigned ELSE ref
           b == Begun("provision", "identify", creds)
           v == [b EXCEPT !.todo = template]
<1>1. /\ DOMAIN b = WorkFields /\ b.kind = "provision" /\ b.pc = "identify" /\ b.creds = creds /\ b.seen = rowVer
      /\ b.todo = {} /\ b.ops = <<>> /\ b.status = "none" /\ b.nonce = "none" /\ b.serial = 0
      /\ b.kept = 1 => dev.password \in {creds, NoAuth}
    BY BegunDoes
<1>2. creds \in Credentials
    BY DeviceAssumption DEF Credentials
<1>3. \A entry \in template : entry[1] \in Sections /\ RawPayload(entry[1], entry[2])
    BY ProvisionAssumption
<1>4. work' = [work EXCEPT ![s] = v] /\ dev' = dev
    BY DEF BeginProvision
<1> HIDE DEF b, creds
<1>5. /\ DOMAIN v = WorkFields /\ v.kind = "provision" /\ v.pc = "identify" /\ v.creds = creds /\ v.seen = rowVer
      /\ v.todo = template /\ v.ops = <<>> /\ v.status = "none" /\ v.nonce = "none" /\ v.serial = 0
      /\ v.kept = 1 => dev.password \in {creds, NoAuth}
    BY <1>1 DEF WorkFields
<1> HIDE DEF v
<1>6. v.ops \in Seq(Ops)
    BY <1>5
<1>7. WorkTyped(v)
    BY <1>2, <1>3, <1>5, <1>6 DEF WorkTyped
<1>8. SessionOK(v, dev)
    BY <1>5, <1>7 DEF SessionOK, CredentialHolds, SectionHolds
<1>. QED  BY <1>4, <1>8, OneSession

\* A request that goes straight to its calls.
LEMMA BeginCalls ==
    ASSUME NEW kind \in {"upload", "action"}, NEW creds \in Credentials, rowVer \in 1 .. 2,
           NEW section, NEW p, NEW ops \in Seq(Ops), ops # <<>>, Read(section, p) = p,
           WellFormed(section, p), Plan(dev, section, p, ops),
           NEW v, v = [Begun(kind, "send", creds) EXCEPT !.section = section, !.payload = p, !.ops = ops]
    PROVE  SessionOK(v, dev)
<1> DEFINE b == Begun(kind, "send", creds)
<1>1. /\ DOMAIN b = WorkFields /\ b.kind = kind /\ b.pc = "send" /\ b.creds = creds /\ b.seen = rowVer
      /\ b.todo = {} /\ b.ops = <<>> /\ b.status = "none" /\ b.nonce = "none" /\ b.serial = 0
      /\ b.kept = 1 => dev.password \in {creds, NoAuth}
    BY BegunDoes
<1> HIDE DEF b
<1>2. v = [b EXCEPT !.section = section, !.payload = p, !.ops = ops]
    BY DEF b
<1>3. /\ DOMAIN v = WorkFields /\ v.kind = kind /\ v.pc = "send" /\ v.creds = creds /\ v.seen = rowVer
      /\ v.todo = {} /\ v.ops = ops /\ v.status = "none" /\ v.nonce = "none" /\ v.serial = 0
      /\ v.section = section /\ v.payload = p
      /\ v.kept = 1 => dev.password \in {creds, NoAuth}
    BY <1>1, <1>2 DEF WorkFields
<1>4. WorkTyped(v)
    BY <1>3 DEF WorkTyped
<1>5. CredentialHolds(v, dev)
    BY <1>3 DEF CredentialHolds
<1>6. SectionHolds(v, dev)
    BY <1>3 DEF SectionHolds, Got
<1>. QED  BY <1>4, <1>5, <1>6 DEF SessionOK

LEMMA BeginUploadKeeps ==
    ASSUME SessionsOK, rowVer \in 1 .. 2, NEW s \in Sessions, NEW held, BeginUpload(s, held)
    PROVE  SessionsOK'
<1> DEFINE b == Begun("upload", "send", NoAuth)
           ops == UploadOps(s)
           v == [b EXCEPT !.section = "upload", !.payload = {}, !.ops = ops]
<1>1. ops \in Seq(Ops) /\ ops # <<>> /\ Plan(dev, "upload", {}, ops)
    BY UploadStarts
<1>2. WellFormed("upload", {}) /\ Read("upload", {}) = {} /\ NoAuth \in Credentials
    BY DEF WellFormed, Read, Credentials
<1> HIDE DEF ops
<1>3. SessionOK(v, dev)
    BY <1>1, <1>2, BeginCalls
<1>4. DOMAIN b = WorkFields /\ b.payload = {}
    BY BegunDoes
<1>5. work' = [work EXCEPT ![s] = [b EXCEPT !.section = "upload", !.ops = ops]] /\ dev' = dev
    BY DEF BeginUpload, ops
<1> HIDE DEF b
<1>6. v = [b EXCEPT !.section = "upload", !.ops = ops]
    BY <1>4 DEF WorkFields
<1> HIDE DEF v
<1>. QED  BY <1>3, <1>5, <1>6, OneSession

LEMMA BeginActionKeeps ==
    ASSUME SessionsOK, rowVer \in 1 .. 2, NEW s \in Sessions, NEW entry \in Actions, BeginAction(s, entry)
    PROVE  SessionsOK'
<1> DEFINE ops == ActionOps(entry[1], entry[2])
           v == [Begun("action", "send", Assigned) EXCEPT !.section = entry[1], !.payload = entry[2], !.ops = ops]
<1>1. /\ ops \in Seq(Ops) /\ ops # <<>> /\ Read(entry[1], entry[2]) = entry[2]
      /\ WellFormed(entry[1], entry[2]) /\ Plan(dev, entry[1], entry[2], ops)
    BY ActionStarts
<1>2. Assigned \in Credentials
    BY DeviceAssumption DEF Credentials
<1>3. work' = [work EXCEPT ![s] = v] /\ dev' = dev
    BY DEF BeginAction
<1> HIDE DEF ops
<1>4. SessionOK(v, dev)
    BY <1>1, <1>2, BeginCalls
<1> HIDE DEF v
<1>. QED  BY <1>3, <1>4, OneSession

LEMMA IdentifyKeeps ==
    ASSUME SessionsOK, NEW s \in Sessions, Identify(s)
    PROVE  SessionsOK'
<1> DEFINE w == work[s]
<1>1. SessionOK(w, dev) /\ DOMAIN w = WorkFields /\ w.pc = "identify" /\ dev' = dev
    BY DEF SessionsOK, SessionOK, WorkTyped, Identify
<1>2. PICK serial \in 0 .. 1, nonce \in {"none", "fresh", "stale"} :
         work' = [work EXCEPT ![s] = [w EXCEPT !.pc = "pick", !.serial = serial, !.nonce = nonce]]
    <2> DEFINE n == IF dev.password # NoAuth /\ w.creds # NoAuth THEN "fresh" ELSE w.nonce
    <2>1. w.nonce \in {"none", "fresh", "stale"} /\ w.serial \in 0 .. 1 /\ n \in {"none", "fresh", "stale"}
        BY <1>1 DEF SessionOK, WorkTyped
    <2>2. CASE work' = [work EXCEPT ![s].pc = "pick", ![s].serial = 1, ![s].nonce = n]
        <3>1. work' = [work EXCEPT ![s] = [w EXCEPT !.pc = "pick", !.serial = 1, !.nonce = n]]
            BY <2>2
        <3> HIDE DEF n
        <3>2. 1 \in 0 .. 1
            OBVIOUS
        <3>. QED  BY <2>1, <3>1, <3>2
    <2>3. CASE work' = [work EXCEPT ![s].pc = "pick"]
        <3>1. work' = [work EXCEPT ![s] = [w EXCEPT !.pc = "pick"]]
            BY <2>3
        <3>2. [w EXCEPT !.pc = "pick"] = [w EXCEPT !.pc = "pick", !.serial = w.serial, !.nonce = w.nonce]
            BY <1>1 DEF WorkFields
        <3>. QED  BY <2>1, <3>1, <3>2
    <2>. QED  BY <2>2, <2>3 DEF Identify
<1> DEFINE v == [w EXCEPT !.pc = "pick", !.serial = serial, !.nonce = nonce]
<1>3. work' = [work EXCEPT ![s] = v]
    BY <1>2
<1> HIDE DEF w
<1>4. /\ DOMAIN v = WorkFields /\ v.kind = w.kind /\ v.pc = "pick" /\ v.todo = w.todo /\ v.ops = w.ops
      /\ v.status = w.status /\ v.creds = w.creds /\ v.serial = serial /\ v.seen = w.seen
      /\ v.kept = w.kept /\ v.nonce = nonce
    BY <1>1 DEF WorkFields
<1> HIDE DEF v
<1>5. WorkTyped(v) /\ v.status = "none"
    BY <1>1, <1>4 DEF SessionOK, WorkTyped
<1>6. CredentialHolds(v, dev)
    BY <1>1, <1>4 DEF SessionOK, CredentialHolds
<1>7. SessionOK(v, dev)
    BY <1>4, <1>5, <1>6 DEF SessionOK, SectionHolds
<1>. QED  BY <1>1, <1>3, <1>7, OneSession

LEMMA PickSectionKeeps ==
    ASSUME SessionsOK, dev \in DeviceState, NEW s \in Sessions, PickSection(s)
    PROVE  SessionsOK'
<1> DEFINE w == work[s]
<1>1. SessionOK(w, dev) /\ DOMAIN w = WorkFields /\ w.pc = "pick" /\ dev' = dev
    BY DEF SessionsOK, SessionOK, WorkTyped, PickSection
<1>2. PICK entry \in w.todo : \E ops \in SectionOps(entry[1], Read(entry[1], entry[2]), w.serial) :
         work' = [work EXCEPT ![s] =
                    [work[s] EXCEPT
                       !.todo = work[s].todo \ {entry}, !.section = entry[1], !.payload = entry[2],
                       !.ops = ops, !.alone = 1, !.calm = 1,
                       !.pc = IF ops = <<>> THEN "pick" ELSE "send",
                       !.status = IF ops = <<>> THEN EmptyStatus(entry[1]) ELSE "none"]]
    BY DEF PickSection
<1>3. PICK ops \in SectionOps(entry[1], Read(entry[1], entry[2]), w.serial) :
         work' = [work EXCEPT ![s] =
                    [work[s] EXCEPT
                       !.todo = work[s].todo \ {entry}, !.section = entry[1], !.payload = entry[2],
                       !.ops = ops, !.alone = 1, !.calm = 1,
                       !.pc = IF ops = <<>> THEN "pick" ELSE "send",
                       !.status = IF ops = <<>> THEN EmptyStatus(entry[1]) ELSE "none"]]
    BY <1>2
<1> DEFINE section == entry[1]
           p == entry[2]
           got == Read(section, p)
           pc == IF ops = <<>> THEN "pick" ELSE "send"
           status == IF ops = <<>> THEN EmptyStatus(section) ELSE "none"
           todo == w.todo \ {entry}
           v == [w EXCEPT !.todo = todo, !.section = section, !.payload = p, !.ops = ops, !.alone = 1, !.calm = 1,
                          !.pc = pc, !.status = status]
<1>4. work' = [work EXCEPT ![s] = v]
    BY <1>3
<1>5. section \in Sections /\ WellFormed(section, got) /\ w.serial \in 0 .. 1
    BY <1>1, ReadTyped DEF SessionOK, WorkTyped
<1>6. /\ ops \in Seq(Ops)
      /\ ops # <<>> => Plan(dev, section, got, ops)
      /\ ops = <<>> /\ EmptyStatus(section) = "ok" => InForce(dev, section, got)
    BY <1>3, <1>5, SectionStarts
<1>7. pc \in {"pick", "send"} /\ (pc = "send" <=> ops # <<>>)
      /\ status \in {"none", "ok", "skipped", "failed"} /\ (pc = "pick" /\ status = "ok" => ops = <<>> /\ EmptyStatus(section) = "ok")
      /\ \A x \in todo : x \in w.todo
    BY DEF EmptyStatus
<1> HIDE DEF w, section, p, pc, status, todo
<1>8. /\ DOMAIN v = WorkFields /\ v.kind = w.kind /\ v.pc = pc /\ v.todo = todo /\ v.ops = ops
      /\ v.status = status /\ v.creds = w.creds /\ v.serial = w.serial /\ v.seen = w.seen
      /\ v.kept = w.kept /\ v.nonce = w.nonce /\ v.section = section /\ v.payload = p
    BY <1>1 DEF WorkFields
<1> HIDE DEF v
<1>9. WorkTyped(v)
    <2>1. WorkTyped(w)
        BY <1>1 DEF SessionOK
    <2>. QED  BY <1>1, <1>6, <1>7, <1>8, <2>1 DEF WorkTyped
<1>10. CredentialHolds(v, dev)
    BY <1>1, <1>7, <1>8 DEF SessionOK, CredentialHolds
<1>11. SectionHolds(v, dev)
    BY <1>5, <1>6, <1>7, <1>8 DEF SectionHolds, Got
<1>12. SessionOK(v, dev)
    BY <1>9, <1>10, <1>11 DEF SessionOK
<1>. QED  BY <1>1, <1>4, <1>12, OneSession

\* The end of a section that failed.
LEMMA ErrorDoes ==
    ASSUME NEW s \in Sessions, WorkTyped(work[s]), work[s].pc # "idle", NEW why, NEW v, v = AfterError(s, why)
    PROVE  /\ WorkTyped(v) /\ v.pc = "pick" /\ v.status # "ok"
           /\ v.creds = work[s].creds /\ v.kept = work[s].kept
           /\ why # "unauthorized" => v.unauthorized = work[s].unauthorized
<1> DEFINE w == work[s]
           skips == why = "notfound" /\ w.section \in Sections \ {"auto_update"}
           status == IF skips THEN "skipped" ELSE "failed"
           f == IF skips THEN w.failed ELSE 1
           u == IF why = "unauthorized" /\ w.section \in Sections \ {"webhooks", "auto_update"}
                THEN 1 ELSE w.unauthorized
<1>1. v = [w EXCEPT !.ops = <<>>, !.pc = "pick", !.status = status, !.failed = f, !.unauthorized = u]
    BY DEF AfterError
<1>2. status \in {"skipped", "failed"} /\ <<>> \in Seq(Ops) /\ (why # "unauthorized" => u = w.unauthorized)
    OBVIOUS
<1>3. WorkTyped(w) /\ w.pc # "idle"
    OBVIOUS
<1> HIDE DEF w, skips, status, f, u
<1>4. /\ DOMAIN v = WorkFields /\ v.kind = w.kind /\ v.pc = "pick" /\ v.todo = w.todo /\ v.ops = <<>>
      /\ v.status = status /\ v.creds = w.creds /\ v.serial = w.serial /\ v.seen = w.seen
      /\ v.kept = w.kept /\ v.nonce = w.nonce /\ v.unauthorized = u
    BY <1>1, <1>3 DEF WorkTyped, WorkFields
<1>5. WorkTyped(v)
    BY <1>2, <1>3, <1>4 DEF WorkTyped
<1>. QED  BY <1>2, <1>4, <1>5 DEF w

LEMMA ErrorOK ==
    ASSUME NEW s \in Sessions, SessionOK(work[s], dev), work[s].pc # "idle", NEW why
    PROVE  SessionOK(AfterError(s, why), dev)
<1> DEFINE v == AfterError(s, why)
<1>1. /\ WorkTyped(v) /\ v.pc = "pick" /\ v.status # "ok"
      /\ v.creds = work[s].creds /\ v.kept = work[s].kept
    BY ErrorDoes DEF SessionOK
<1> HIDE DEF v
<1>2. CredentialHolds(v, dev)
    BY <1>1 DEF SessionOK, CredentialHolds
<1>3. SectionHolds(v, dev)
    BY <1>1 DEF SectionHolds
<1>4. SessionOK(v, dev)
    BY <1>1, <1>2, <1>3 DEF SessionOK
<1>. QED  BY <1>4 DEF v

\* What a call leaves of the session's credential.
Settled(on, e, restart) ==
    [on EXCEPT !.kept = IF e.password \in {on.creds, NoAuth} THEN on.kept ELSE 0,
               !.nonce = IF restart /\ on.nonce = "fresh" THEN "stale" ELSE on.nonce]

LEMMA SettledDoes ==
    ASSUME NEW on, WorkTyped(on), NEW e, NEW restart, NEW v, v = Settled(on, e, restart)
    PROVE  /\ WorkTyped(v) /\ v.pc = on.pc /\ v.status = on.status /\ v.section = on.section
           /\ v.payload = on.payload /\ v.ops = on.ops /\ v.alone = on.alone /\ v.creds = on.creds
           /\ v.kept = 1 => e.password \in {v.creds, NoAuth}
           /\ v.unauthorized = on.unauthorized
<1> DEFINE k == IF e.password \in {on.creds, NoAuth} THEN on.kept ELSE 0
           n == IF restart /\ on.nonce = "fresh" THEN "stale" ELSE on.nonce
<1>1. v = [on EXCEPT !.kept = k, !.nonce = n]
    BY DEF Settled
<1>2. n \in {"none", "fresh", "stale"} /\ (k = 1 => e.password \in {on.creds, NoAuth})
    BY DEF WorkTyped
<1> HIDE DEF k, n
<1>3. /\ DOMAIN v = WorkFields /\ v.kind = on.kind /\ v.pc = on.pc /\ v.todo = on.todo /\ v.ops = on.ops
      /\ v.status = on.status /\ v.creds = on.creds /\ v.serial = on.serial /\ v.seen = on.seen
      /\ v.kept = k /\ v.nonce = n /\ v.section = on.section /\ v.payload = on.payload /\ v.alone = on.alone
      /\ v.unauthorized = on.unauthorized
    BY <1>1 DEF WorkTyped, WorkFields
<1>4. WorkTyped(v)
    BY <1>2, <1>3 DEF WorkTyped
<1>. QED  BY <1>2, <1>3, <1>4

\* The next call, or the end of a section that succeeded.
Follows(on, w, rest) ==
    /\ on.ops = rest /\ on.section = w.section /\ on.payload = w.payload
    /\ on.alone = w.alone /\ on.creds = w.creds /\ on.kept = w.kept /\ on.unauthorized = w.unauthorized
    /\ on.pc = (IF rest = <<>> THEN "pick" ELSE "send")

LEMMA SuccessDoes ==
    ASSUME NEW s \in Sessions, WorkTyped(work[s]), work[s].pc \in {"send", "retry"}, NEW listed,
           NEW rest, rest = listed \o Tail(work[s].ops), rest \in Seq(Ops), NEW on, on = AfterSuccess(s, listed)
    PROVE  WorkTyped(on) /\ Follows(on, work[s], rest)
<1> DEFINE w == work[s]
           pc == IF rest = <<>> THEN "pick" ELSE "send"
           status == IF rest = <<>> THEN "ok" ELSE w.status
<1>1. on = [w EXCEPT !.ops = rest, !.pc = pc, !.calm = 1, !.status = status]
    BY DEF AfterSuccess
<1>2. WorkTyped(w) /\ w.pc \in {"send", "retry"}
    OBVIOUS
<1>3. status \in {"none", "ok", "skipped", "failed"} /\ pc \in {"pick", "send"} /\ (pc = "send" <=> rest # <<>>)
    BY <1>2 DEF WorkTyped
<1> HIDE DEF w, pc, status
<1>4. /\ DOMAIN on = WorkFields /\ on.kind = w.kind /\ on.pc = pc /\ on.todo = w.todo /\ on.ops = rest
      /\ on.status = status /\ on.creds = w.creds /\ on.serial = w.serial /\ on.seen = w.seen
      /\ on.kept = w.kept /\ on.nonce = w.nonce /\ on.section = w.section /\ on.payload = w.payload
      /\ on.alone = w.alone /\ on.unauthorized = w.unauthorized
    BY <1>1, <1>2 DEF WorkTyped, WorkFields
<1>5. WorkTyped(on)
    BY <1>2, <1>3, <1>4 DEF WorkTyped
<1>. QED  BY <1>4, <1>5 DEF w, pc, Follows

\* The call is done and answered.
LEMMA SuccessOK ==
    ASSUME NEW s \in Sessions, dev \in DeviceState, SessionOK(work[s], dev), work[s].pc \in {"send", "retry"},
           Head(work[s].ops) # Invalid, ~Refuses(dev, Head(work[s].ops)),
           NEW e, e = Applied(dev, Head(work[s].ops)), NEW listed \in Listed(s), NEW restart
    PROVE  SessionOK(Settled(AfterSuccess(s, listed), e, restart), e)
<1> DEFINE w == work[s]
           ops == w.ops
           rest == listed \o Tail(ops)
           on == AfterSuccess(s, listed)
           v == Settled(on, e, restart)
<1>1. WorkTyped(w) /\ ops \in Seq(Ops) /\ ops # <<>>
    BY DEF SessionOK, WorkTyped
<1>2. listed \in (IF Head(ops).method = "Schedule.List" THEN Deletions(dev.schedule) ELSE {<<>>})
    BY DEF Listed
<1>3. rest \in Seq(Ops)
    BY <1>1, <1>2, RestTyped
<1>4. w.alone = 1 => Onward(e, w.section, Got(w), rest)
    <2> SUFFICES ASSUME w.alone = 1 PROVE Onward(e, w.section, Got(w), rest)
        OBVIOUS
    <2> DEFINE section == w.section
               p == Got(w)
    <2>1. WellFormed(section, p) /\ Plan(dev, section, p, ops)
        BY DEF SessionOK, SectionHolds
    <2>2. Head(ops) # Invalid /\ ~Refuses(dev, Head(ops)) /\ e = Applied(dev, Head(ops))
        OBVIOUS
    <2> HIDE DEF ops, section, p
    <2>3. Onward(e, section, p, rest)
        BY <1>1, <1>2, <2>1, <2>2, Advance
    <2>. QED  BY <2>3 DEF section, p, ops
<1> HIDE DEF rest
<1>5. /\ WorkTyped(on) /\ on.ops = rest /\ on.section = w.section /\ on.payload = w.payload
      /\ on.alone = w.alone /\ on.pc = (IF rest = <<>> THEN "pick" ELSE "send")
    <2>1. rest = listed \o Tail(work[s].ops)
        BY DEF rest
    <2>2. on = AfterSuccess(s, listed) /\ WorkTyped(work[s])
        BY <1>1
    <2> HIDE DEF on
    <2>3. WorkTyped(on) /\ Follows(on, work[s], rest)
        BY <1>3, <2>1, <2>2, SuccessDoes
    <2>. QED  BY <2>3 DEF Follows
<1> HIDE DEF w, ops, on
<1>6. /\ WorkTyped(v) /\ v.pc = on.pc /\ v.status = on.status /\ v.section = on.section
      /\ v.payload = on.payload /\ v.ops = on.ops /\ v.alone = on.alone
      /\ v.kept = 1 => e.password \in {v.creds, NoAuth}
    BY <1>5, SettledDoes
<1> HIDE DEF v
<1>7. CredentialHolds(v, e)
    BY <1>5, <1>6 DEF CredentialHolds
<1>8. SectionHolds(v, e)
    <2> SUFFICES ASSUME v.alone = 1
                 PROVE  /\ v.pc \in {"send", "retry"} =>
                             WellFormed(v.section, Got(v)) /\ Plan(e, v.section, Got(v), v.ops)
                        /\ v.pc = "pick" /\ v.status = "ok" => InForce(e, v.section, Got(v))
        BY DEF SectionHolds
    <2>1. Onward(e, v.section, Got(v), rest) /\ v.ops = rest
        BY <1>4, <1>5, <1>6 DEF Got
    <2>2. WellFormed(v.section, Got(v))
        BY <1>5, <1>6 DEF w, SessionOK, SectionHolds, Got
    <2>. QED  BY <1>5, <1>6, <2>1, <2>2 DEF Onward
<1>9. SessionOK(v, e)
    BY <1>6, <1>7, <1>8 DEF SessionOK
<1>. QED  BY <1>9 DEF v, on

\* The call is done and the answer lost.
LEMMA LostOK ==
    ASSUME NEW s \in Sessions, SessionOK(work[s], dev), work[s].pc \in {"send", "retry"}, NEW e, NEW restart
    PROVE  SessionOK(Settled(AfterError(s, "silent"), e, restart), e)
<1> DEFINE on == AfterError(s, "silent")
           v == Settled(on, e, restart)
<1>1. WorkTyped(on) /\ on.pc = "pick" /\ on.status # "ok"
    BY ErrorDoes DEF SessionOK
<1> HIDE DEF on
<1>2. /\ WorkTyped(v) /\ v.pc = on.pc /\ v.status = on.status
      /\ v.kept = 1 => e.password \in {v.creds, NoAuth}
    BY <1>1, SettledDoes
<1> HIDE DEF v
<1>3. SessionOK(v, e)
    BY <1>1, <1>2 DEF SessionOK, CredentialHolds, SectionHolds
<1>. QED  BY <1>3 DEF v, on

LEMMA ChallengedKeeps ==
    ASSUME SessionsOK, NEW s \in Sessions, Challenged(s)
    PROVE  SessionsOK'
<1> DEFINE w == work[s]
           v == [w EXCEPT !.pc = "retry", !.nonce = "fresh"]
<1>1. SessionOK(w, dev) /\ DOMAIN w = WorkFields /\ w.pc = "send"
    BY DEF SessionsOK, SessionOK, WorkTyped, Challenged
<1>2. work' = [work EXCEPT ![s] = v] /\ dev' = dev
    BY DEF Challenged
<1> HIDE DEF w
<1>3. /\ DOMAIN v = WorkFields /\ v.kind = w.kind /\ v.pc = "retry" /\ v.todo = w.todo /\ v.ops = w.ops
      /\ v.status = w.status /\ v.creds = w.creds /\ v.serial = w.serial /\ v.seen = w.seen
      /\ v.kept = w.kept /\ v.nonce = "fresh" /\ v.section = w.section /\ v.payload = w.payload /\ v.alone = w.alone
    BY <1>1 DEF WorkFields
<1> HIDE DEF v
<1>4. WorkTyped(v)
    BY <1>1, <1>3 DEF SessionOK, WorkTyped
<1>5. CredentialHolds(v, dev) /\ SectionHolds(v, dev)
    BY <1>1, <1>3 DEF SessionOK, CredentialHolds, SectionHolds, Got
<1>6. SessionOK(v, dev)
    BY <1>4, <1>5 DEF SessionOK
<1>. QED  BY <1>2, <1>6, OneSession

\* A call and whatever comes of it.
LEMMA CallKeeps ==
    ASSUME SessionsOK, dev \in DeviceState, NEW s \in Sessions, Call(s)
    PROVE  SessionsOK' /\ dev' \in DeviceState
<1>1. SessionOK(work[s], dev) /\ work[s].pc \in {"send", "retry"} /\ work[s].pc # "idle"
      /\ work[s].ops \in Seq(Ops) /\ work[s].ops # <<>>
    BY DEF SessionsOK, Call, SessionOK, WorkTyped
<1>2. CASE RefuseLocally(s)
    <2>1. work' = [work EXCEPT ![s] = AfterError(s, "invalid")] /\ dev' = dev
        BY <1>2 DEF RefuseLocally
    <2>. QED  BY <1>1, <2>1, ErrorOK, OneSession
<1>3. CASE Challenged(s)
    BY <1>3, ChallengedKeeps DEF Challenged
<1>4. ASSUME NEW why, Fails(s, why, AfterError(s, why))
      PROVE  SessionsOK' /\ dev' \in DeviceState
    <2>1. work' = [work EXCEPT ![s] = AfterError(s, why)] /\ dev' = dev
        BY <1>4 DEF Fails
    <2>. QED  BY <1>1, <2>1, ErrorOK, OneSession
<1>5. ASSUME NEW on, Succeeds(s, on), Head(work[s].ops) # Invalid,
             \A restart \in BOOLEAN : SessionOK(Settled(on, dev', restart), dev')
      PROVE  SessionsOK' /\ dev' \in DeviceState
    <2> DEFINE restart == Head(work[s].ops).method \in Restarts
               v == Settled(on, dev', restart)
    <2>1. ~Refuses(dev, Head(work[s].ops)) /\ dev' = Applied(dev, Head(work[s].ops))
        BY <1>5 DEF Succeeds
    <2>2. work' = [Others(s, dev', restart) EXCEPT ![s] = v]
        BY <1>5 DEF Succeeds, Settled
    <2>3. restart \in BOOLEAN /\ SessionOK(v, dev')
        <3>1. restart \in BOOLEAN
            OBVIOUS
        <3> HIDE DEF restart
        <3>. QED  BY <1>5, <3>1
    <2>4. Head(work[s].ops) \in Ops
        BY <1>1, Rest
    <2>5. dev' \in DeviceState
        BY <2>1, <2>4, AppliedTyped
    <2> HIDE DEF restart, v
    <2>6. SessionsOK'
        BY <2>2, <2>3, CallDone
    <2>. QED  BY <2>5, <2>6
<1>6. ASSUME NEW listed \in Listed(s), Succeeds(s, AfterSuccess(s, listed)), Head(work[s].ops) # Invalid
      PROVE  SessionsOK' /\ dev' \in DeviceState
    <2>1. ~Refuses(dev, Head(work[s].ops)) /\ dev' = Applied(dev, Head(work[s].ops))
        BY <1>6 DEF Succeeds
    <2>2. \A restart \in BOOLEAN : SessionOK(Settled(AfterSuccess(s, listed), dev', restart), dev')
        BY <1>1, <1>6, <2>1, SuccessOK
    <2>. QED  BY <1>5, <1>6, <2>2
<1>7. ASSUME Succeeds(s, AfterError(s, "silent")), Head(work[s].ops) # Invalid
      PROVE  SessionsOK' /\ dev' \in DeviceState
    <2>1. \A restart \in BOOLEAN : SessionOK(Settled(AfterError(s, "silent"), dev', restart), dev')
        BY <1>1, LostOK
    <2>. QED  BY <1>5, <1>7, <2>1
<1>. QED  BY <1>2, <1>3, <1>4, <1>6, <1>7 DEF Call

LEMMA FinishKeeps ==
    ASSUME SessionsOK, NEW s \in Sessions, Finish(s)
    PROVE  SessionsOK'
<1>1. work' = [work EXCEPT ![s] = IdleWork] /\ dev' = dev
    BY DEF Finish
<1>. QED  BY <1>1, IdleOK, OneSession

\* What a request changes besides its session.
LEMMA RequestCounts ==
    ASSUME CountersTyped, dev \in DeviceState, SessionsOK, NEW held, ProvisionStep(held)
    PROVE  CountersTyped'
<1>0. MaxStarts \in Nat /\ MaxFaults \in Nat
    BY ProvisionAssumption, DeviceAssumption
<1>1. PICK s \in Sessions :
         \/ \E template \in Templates, ref \in Passwords \cup {NoAuth} :
              BeginProvision(s, template, ref, held)
         \/ BeginUpload(s, held)
         \/ \E entry \in Actions : BeginAction(s, entry)
         \/ Identify(s) \/ PickSection(s) \/ Call(s) \/ Finish(s)
    BY DEF ProvisionStep
<1>2. ASSUME Begin(s), UNCHANGED <<faults, reboots, authRow, rowVer>> PROVE CountersTyped'
    BY <1>0, <1>2 DEF Begin, CountersTyped
<1>3. CASE \E template \in Templates, ref \in Passwords \cup {NoAuth} : BeginProvision(s, template, ref, held)
    BY <1>2, <1>3 DEF BeginProvision
<1>4. CASE BeginUpload(s, held)
    BY <1>2, <1>4 DEF BeginUpload
<1>5. CASE \E entry \in Actions : BeginAction(s, entry)
    BY <1>2, <1>5 DEF BeginAction
<1>6. ASSUME faults' = faults \/ Fault, UNCHANGED <<reboots, provisionVars>> PROVE CountersTyped'
    BY <1>0, <1>6 DEF Fault, provisionVars, CountersTyped
<1>7. CASE Identify(s)
    BY <1>6, <1>7 DEF Identify
<1>8. CASE PickSection(s)
    BY <1>6, <1>8 DEF PickSection
<1>9. CASE Call(s)
    <2>1. UNCHANGED provisionVars
        BY <1>9 DEF Call
    <2>2. (faults' = faults \/ Fault) /\ UNCHANGED reboots
        BY <1>9 DEF Call, RefuseLocally, Challenged, Fails, Succeeds
    <2>. QED  BY <1>6, <2>1, <2>2
<1>10. CASE Finish(s)
    <2>1. work[s].seen \in 1 .. 2
        BY DEF SessionsOK, SessionOK, WorkTyped
    <2>2. UNCHANGED <<reboots, starts>> /\ authRow' \in BOOLEAN /\ rowVer' \in 1 .. 2
        BY <1>10, <2>1 DEF Finish, CountersTyped
    <2>3. faults' = faults \/ Fault
        BY <1>10 DEF Finish
    <2>. QED  BY <1>0, <2>2, <2>3 DEF Fault, CountersTyped
<1>. QED  BY <1>1, <1>3, <1>4, <1>5, <1>7, <1>8, <1>9, <1>10

LEMMA RequestKeeps ==
    ASSUME CountersTyped, dev \in DeviceState, SessionsOK, NEW held, ProvisionStep(held)
    PROVE  CountersTyped' /\ dev' \in DeviceState /\ SessionsOK'
<1>0. CountersTyped' /\ rowVer \in 1 .. 2
    BY RequestCounts DEF CountersTyped
<1>1. PICK s \in Sessions :
         \/ \E template \in Templates, ref \in Passwords \cup {NoAuth} :
              BeginProvision(s, template, ref, held)
         \/ BeginUpload(s, held)
         \/ \E entry \in Actions : BeginAction(s, entry)
         \/ Identify(s) \/ PickSection(s) \/ Call(s) \/ Finish(s)
    BY DEF ProvisionStep
<1>2. CASE \E template \in Templates, ref \in Passwords \cup {NoAuth} : BeginProvision(s, template, ref, held)
    BY <1>0, <1>2, BeginProvisionKeeps DEF BeginProvision
<1>3. CASE BeginUpload(s, held)
    BY <1>0, <1>3, BeginUploadKeeps DEF BeginUpload
<1>4. CASE \E entry \in Actions : BeginAction(s, entry)
    BY <1>0, <1>4, BeginActionKeeps DEF BeginAction
<1>5. CASE Identify(s)
    BY <1>0, <1>5, IdentifyKeeps DEF Identify
<1>6. CASE PickSection(s)
    BY <1>0, <1>6, PickSectionKeeps DEF PickSection
<1>7. CASE Call(s)
    BY <1>0, <1>7, CallKeeps
<1>8. CASE Finish(s)
    BY <1>0, <1>8, FinishKeeps DEF Finish
<1>. QED  BY <1>1, <1>2, <1>3, <1>4, <1>5, <1>6, <1>7, <1>8

LEMMA RefreshKeeps ==
    ASSUME CountersTyped, dev \in DeviceState, SessionsOK, RefreshRow
    PROVE  CountersTyped' /\ dev' \in DeviceState /\ SessionsOK'
<1>1. UNCHANGED <<dev, work, faults, reboots, starts>> /\ authRow' \in BOOLEAN
    BY DEF RefreshRow
<1>2. rowVer' \in 1 .. 2
    BY DEF RefreshRow, CountersTyped, DeviceState
<1>3. CountersTyped'
    BY <1>1, <1>2 DEF CountersTyped
<1>4. SessionsOK'
    BY <1>1 DEF SessionsOK
<1>. QED  BY <1>1, <1>3, <1>4

\* The device restarts or updates itself.
LEMMA DeviceKeeps ==
    ASSUME CountersTyped, dev \in DeviceState, SessionsOK, DeviceStep, UNCHANGED provisionVars
    PROVE  CountersTyped' /\ dev' \in DeviceState /\ SessionsOK'
<1>1. CountersTyped'
    <2>1. MaxReboots \in Nat
        BY DeviceAssumption
    <2>2. reboots' \in 0 .. MaxReboots
        <3>1. reboots' = reboots \/ (reboots < MaxReboots /\ reboots' = reboots + 1)
            BY DEF DeviceStep, Restart, Flash, SelfUpdate
        <3>2. reboots \in 0 .. MaxReboots
            BY DEF CountersTyped
        <3>. QED  BY <2>1, <3>1, <3>2
    <2>3. faults' = faults
        BY DEF DeviceStep, Restart, Flash, SelfUpdate
    <2>. QED  BY <2>2, <2>3 DEF CountersTyped, provisionVars
<1>2. ASSUME NEW restart \in BOOLEAN, work' = Others(NoAuth, dev', restart) PROVE SessionsOK'
    <2>1. DOMAIN work' = Sessions
        BY <1>2 DEF Others
    <2>2. \A t \in Sessions : NoAuth # t /\ SessionOK(work[t], dev)
        BY DeviceAssumption DEF SessionsOK
    <2>3. \A t \in Sessions : SessionOK(Others(NoAuth, dev', restart)[t], dev')
        BY <2>2, BystanderKeeps
    <2>. QED  BY <1>2, <2>1, <2>3 DEF SessionsOK
<1>3. CASE Restart
    <2>1. dev' = Restarted(dev) /\ work' = Others(NoAuth, dev', TRUE)
        BY <1>3 DEF Restart
    <2>. QED  BY <1>1, <1>2, <2>1, RestartedTyped
<1>4. CASE Flash
    <2> DEFINE q == Restarted(dev)
               b == dev'.ver # dev.ver
    <2>1. dev' = [q EXCEPT !.ver = 2] \/ dev' = [dev EXCEPT !.ota = 0]
        BY <1>4 DEF Flash
    <2>2. work' = Others(NoAuth, dev', b)
        BY <1>4 DEF Flash
    <2>3. q \in DeviceState /\ 2 \in 1 .. 2 /\ 0 \in 0 .. 1
        BY RestartedTyped
    <2>4. b \in BOOLEAN
        OBVIOUS
    <2> HIDE DEF q, b
    <2>5. dev' \in DeviceState
        <3>1. CASE dev' = [q EXCEPT !.ver = 2]
            BY <2>3, <3>1 DEF DeviceState
        <3>2. CASE dev' = [dev EXCEPT !.ota = 0]
            BY <2>3, <3>2 DEF DeviceState
        <3>. QED  BY <2>1, <3>1, <3>2
    <2>6. SessionsOK'
        BY <1>2, <2>2, <2>4
    <2>. QED  BY <1>1, <2>5, <2>6
<1>5. CASE SelfUpdate
    <2>1. dev' = [dev EXCEPT !.ota = 1] /\ work' = work /\ 1 \in 0 .. 1
        BY <1>5 DEF SelfUpdate
    <2>2. dev' \in DeviceState /\ Config(dev') = Config(dev)
        BY <2>1 DEF DeviceState, Config
    <2>3. SessionsOK'
        BY <2>1, <2>2, SameKeeps DEF SessionsOK
    <2>. QED  BY <1>1, <2>2, <2>3
<1>. QED  BY <1>3, <1>4, <1>5 DEF DeviceStep

\* The job, as far as the sessions see it.
LEMMA TargetCounts ==
    ASSUME CountersTyped, dev \in DeviceState, NEW t \in Targets, TargetStep(t)
    PROVE  CountersTyped' /\ work' = work /\ (dev' = dev \/ Trigger(t))
<1>0. MaxFaults \in Nat
    BY DeviceAssumption
<1>1. dev.ver \in 1 .. 2
    BY DEF DeviceState
<1>2. CASE Persist(t)
    BY <1>0, <1>2 DEF Persist, Fault, CountersTyped, provisionVars
<1>3. CASE Trigger(t)
    BY <1>0, <1>3 DEF Trigger, Errs, Accepts, Fault, CountersTyped, provisionVars
<1>4. CASE Quiet(t)
    BY <1>4 DEF Quiet, CountersTyped, provisionVars, deviceVars
<1>5. CASE Check(t)
    BY <1>5 DEF Check, CountersTyped, provisionVars, deviceVars
<1>6. CASE PollAgain(t)
    BY <1>6 DEF PollAgain, CountersTyped, provisionVars, deviceVars
<1>7. CASE PollMoved(t)
    BY <1>0, <1>1, <1>7 DEF PollMoved, Fault, CountersTyped
<1>. QED  BY <1>2, <1>3, <1>4, <1>5, <1>6, <1>7 DEF TargetStep

LEMMA JobCounts ==
    ASSUME CountersTyped, StartInstall \/ Complete \/ Stop
    PROVE  CountersTyped' /\ work' = work /\ dev' = dev
<1>0. MaxFaults \in Nat /\ MaxStarts \in Nat
    BY DeviceAssumption, ProvisionAssumption
<1>1. CASE StartInstall
    <2>1. /\ faults' = faults \/ Fault
          /\ starts < MaxStarts /\ starts' = starts + 1 /\ UNCHANGED <<authRow, rowVer, dev, work, reboots>>
        BY <1>1, Zenon DEF StartInstall
    <2>. QED  BY <1>0, <2>1 DEF Fault, CountersTyped
<1>2. CASE Complete
    BY <1>0, <1>2 DEF Complete, Fault, CountersTyped, provisionVars
<1>3. CASE Stop
    BY <1>3 DEF Stop, CountersTyped, provisionVars, deviceVars
<1>. QED  BY <1>1, <1>2, <1>3

-----------------------------------------------------------------------------
(* The theorems.                                                           *)

LEMMA InitHolds == Init => Inv
<1> SUFFICES ASSUME Init PROVE Inv
    OBVIOUS
<1>1. dev \in DeviceState /\ dev.ver = 1
    <2>1. PICK password \in {Assigned, NoAuth}, l \in Lacks : dev = Fresh(password, l)
        BY DEF Init, DeviceInit
    <2>2. password \in Credentials
        BY DeviceAssumption DEF Credentials
    <2>. QED  BY <2>1, <2>2, FreshTyped
<1>2. CountersTyped
    <2>1. MaxFaults \in Nat /\ MaxReboots \in Nat /\ MaxStarts \in Nat
        BY DeviceAssumption, ProvisionAssumption
    <2>2. faults = 0 /\ reboots = 0 /\ starts = 0 /\ rowVer = 1 /\ authRow = FALSE
        BY DEF Init, DeviceInit
    <2>3. faults \in 0 .. MaxFaults /\ reboots \in 0 .. MaxReboots /\ starts \in 0 .. MaxStarts /\ rowVer \in 1 .. 2
        BY <2>1, <2>2
    <2>4. authRow \in BOOLEAN
        BY <2>2, Zenon
    <2>. QED  BY <2>3, <2>4 DEF CountersTyped
<1>3. SessionsOK
    BY IdleOK DEF Init, DeviceInit, SessionsOK
<1>4. JobTyped
    <2>1. inst = [t \in Targets |-> NoInst] /\ inst \in [Targets -> InstState]
        BY NoInstTyped DEF Init, InstallInit
    <2>2. results \in [Targets -> Statuses] /\ jobRow \in [Targets -> Statuses]
        BY DEF Init, InstallInit, Statuses
    <2>. QED  BY <2>1, <2>2 DEF Init, InstallInit, JobTyped
<1>5. \A t \in Targets : inst[t].pc = "none" /\ inst[t].then = "none" /\ results[t] = "none"
    BY NoInstTyped DEF Init, InstallInit
<1>6. JobHolds
    BY <1>5 DEF Init, InstallInit, JobHolds
<1>7. PollsHold
    BY <1>5 DEF PollsHold, PolledBeforeGivingUp
<1>8. VersionHolds
    BY <1>5, InstallAssumption DEF VersionHolds, CurrentMeansUpdated
<1>. QED  BY <1>1, <1>2, <1>3, <1>4, <1>6, <1>7, <1>8 DEF Inv, JobInv

\* One step per disjunct of Next.
LEMMA StepHolds == Inv /\ [Next]_vars => Inv'
<1> SUFFICES ASSUME Inv, [Next]_vars PROVE Inv'
    OBVIOUS
<1>0. dev \in DeviceState /\ CountersTyped /\ SessionsOK /\ JobInv /\ rowVer \in 1 .. 2
    BY DEF Inv, CountersTyped
<1>1. CASE BesideJob(ProvisionStep(Held) \/ RefreshRow)
    <2>1. CountersTyped' /\ dev' \in DeviceState /\ SessionsOK'
        BY <1>0, <1>1, RequestKeeps, RefreshKeeps DEF BesideJob
    <2>2. JobInv'
        BY <1>0, <1>1, <2>1, BesideKeeps DEF BesideJob, DeviceState
    <2>. QED  BY <2>1, <2>2 DEF Inv
<1>2. CASE BesideJob(DeviceStep /\ UNCHANGED provisionVars)
    <2>1. CountersTyped' /\ dev' \in DeviceState /\ SessionsOK'
        BY <1>0, <1>2, DeviceKeeps DEF BesideJob
    <2>2. JobInv'
        BY <1>0, <1>2, <2>1, BesideKeeps DEF BesideJob, DeviceState
    <2>. QED  BY <2>1, <2>2 DEF Inv
<1>3. CASE StartInstall \/ Complete \/ Stop
    <2>1. JobInv'
        BY <1>0, <1>3, JobKeeps
    <2>2. CountersTyped' /\ work' = work /\ dev' = dev
        BY <1>0, <1>3, JobCounts
    <2>3. SessionsOK'
        BY <1>0, <2>2 DEF SessionsOK
    <2>. QED  BY <1>0, <2>1, <2>2, <2>3 DEF Inv
<1>4. ASSUME NEW t \in Targets, TargetStep(t) PROVE Inv'
    <2>1. CountersTyped' /\ work' = work /\ (dev' = dev \/ Trigger(t))
        BY <1>0, <1>4, TargetCounts
    <2>2. JobInv'
        BY <1>0, <1>4, PersistKeeps, TriggerKeeps, QuietKeeps, CheckKeeps, PollKeeps DEF TargetStep
    <2>3. dev' \in DeviceState /\ Config(dev') = Config(dev)
        BY <1>0, <2>1, TriggerKeeps
    <2>4. SessionsOK'
        BY <1>0, <2>1, <2>3, SameKeeps DEF SessionsOK
    <2>. QED  BY <2>1, <2>2, <2>3, <2>4 DEF Inv
<1>5. CASE UNCHANGED vars
    <2>1. /\ UNCHANGED <<dev, work, faults, reboots, authRow, rowVer, starts>>
          /\ UNCHANGED <<job, inst, results, jobRow, stopping, moved>>
        BY <1>5 DEF vars, deviceVars, provisionVars, installVars
    <2>2. CountersTyped' /\ SessionsOK'
        BY <1>0, <2>1 DEF CountersTyped, SessionsOK
    <2>3. JobTyped' /\ JobHolds' /\ PollsHold' /\ VersionHolds'
        BY <1>0, <2>1 DEF JobInv, JobTyped, JobHolds, PollsHold, PolledBeforeGivingUp, VersionHolds,
                          CurrentMeansUpdated
    <2>. QED  BY <1>0, <2>1, <2>2, <2>3 DEF Inv, JobInv
<1>. QED  BY <1>1, <1>2, <1>3, <1>4, <1>5 DEF Next

\* The inductive invariant holds throughout: what every request, install goroutine
\* and device step of DeviceWork keeps true.
THEOREM InvariantHolds == Spec => []Inv
<1>. QED  BY InitHolds, StepHolds, PTL DEF Spec

\* Whatever a template holds: what applySection reads of a section that it, or
\* SetAutoUpdate, UploadCertificate or an action, reports "ok" is in force on the
\* device, unless another request wrote to the device meanwhile or it restarted in the
\* middle of an upload.
THEOREM OkSectionsAreInForce == Spec => []OkMeansInForce
<1>1. Inv => OkMeansInForce
    BY DEF Inv, SessionsOK, SessionOK, SectionHolds, Got, OkMeansInForce
<1>. QED  BY <1>1, InvariantHolds, PTL

\* A completed install job has a final status for every target in its row, whatever
\* order the progress writes of persistProgress took effect in; and all is well typed.
THEOREM CompletedJobsAreFinal == Spec => []CompletedRowIsFinal
<1>1. Inv => TypeOK
    <2>1. Inv => \A s \in Sessions : WorkTyped(work[s])
        BY DEF Inv, SessionsOK, SessionOK
    <2>. QED  BY <2>1 DEF Inv, TypeOK, CountersTyped, SessionsOK, JobInv, JobTyped, WorkTyped
<1>2. Inv => CompletedRowIsFinal
    BY <1>1 DEF Inv, JobInv, JobHolds, CompletedRowIsFinal
<1>. QED  BY <1>2, InvariantHolds, PTL

\* runFirmwareInstallJob asks a device for its version before it gives up on it,
\* whatever quiet period and timeout are saved.
THEOREM GivesUpAfterPolling == Spec => []PolledBeforeGivingUp
<1>1. Inv => PolledBeforeGivingUp
    BY DEF Inv, JobInv, PollsHold
<1>. QED  BY <1>1, InvariantHolds, PTL

\* A target is "current" only if an update landed while the job ran, unless the
\* inventory row was out of date when installOne read it or an OTA.Revert came between.
THEOREM CurrentIsUpdated == Spec => []CurrentMeansUpdated
<1>1. Inv => CurrentMeansUpdated
    BY DEF Inv, JobInv, VersionHolds
<1>. QED  BY <1>1, InvariantHolds, PTL

-----------------------------------------------------------------------------
(* The credential.                                                         *)

\* The steps of others do not mark a session.
LEMMA OthersKeepMark ==
    ASSUME NEW s, NEW t \in Sessions, NEW e, NEW restart, DOMAIN work[t] = WorkFields
    PROVE  Others(s, e, restart)[t].unauthorized = work[t].unauthorized
<1> DEFINE w == work[t]
           a == IF t = s \/ Config(e) = Config(dev) THEN w.alone ELSE 0
           k == IF e.password \in {w.creds, NoAuth} THEN w.kept ELSE 0
           c == IF restart THEN 0 ELSE w.calm
           n == IF restart /\ w.nonce = "fresh" THEN "stale" ELSE w.nonce
           v == Others(s, e, restart)[t]
<1>1. v = w \/ v = [w EXCEPT !.alone = a, !.kept = k, !.calm = c, !.nonce = n]
    BY DEF Others
<1>2. DOMAIN w = WorkFields
    OBVIOUS
<1> HIDE DEF w, a, k, c, n, v
<1>3. v.unauthorized = w.unauthorized
    BY <1>1, <1>2 DEF WorkFields
<1>. QED  BY <1>3 DEF v, w

\* The retry of shellyclient.do answers a fresh challenge, and a first request that
\* is not accepted is challenged: a right credential is not refused.
LEMMA RightIsAuthorized ==
    ASSUME NEW s, CredentialHolds(work[s], dev), work[s].pc \in {"send", "retry"},
           work[s].kept = 1, work[s].calm = 1, work[s].creds # NoAuth, Decisive(s)
    PROVE  Authorized(s)
<1>1. dev.password \in {work[s].creds, NoAuth} /\ (work[s].pc = "retry" => work[s].nonce = "fresh")
    BY DEF CredentialHolds
<1>2. CASE work[s].pc = "retry"
    BY <1>1, <1>2 DEF Authorized
<1>3. CASE work[s].pc = "send"
    BY <1>3 DEF Decisive, MayRetry
<1>. QED  BY <1>2, <1>3

LEMMA CallKeepsMark ==
    ASSUME SessionsOK, dev \in DeviceState, NEW s \in Sessions, Call(s), NEW t \in Sessions,
           t = s => /\ work[s].pc \in {"send", "retry"} /\ work[s].kept = 1 /\ work[s].calm = 1
                    /\ work[s].creds # NoAuth
    PROVE  work'[t].unauthorized = work[t].unauthorized
<1>1. \A x \in Sessions : SessionOK(work[x], dev) /\ WorkTyped(work[x]) /\ DOMAIN work[x] = WorkFields
    BY DEF SessionsOK, SessionOK, WorkTyped
<1>2. DOMAIN work = Sessions /\ work[s].pc \in {"send", "retry"} /\ work[s].pc # "idle"
      /\ work[s].ops \in Seq(Ops) /\ work[s].ops # <<>>
    BY <1>1 DEF SessionsOK, Call, WorkTyped
<1>3. ASSUME NEW v, work' = [work EXCEPT ![s] = v], t = s => v.unauthorized = work[s].unauthorized
      PROVE  work'[t].unauthorized = work[t].unauthorized
    BY <1>2, <1>3
<1>4. ASSUME NEW why, why # "unauthorized"
      PROVE  AfterError(s, why).unauthorized = work[s].unauthorized /\ WorkTyped(AfterError(s, why))
    BY <1>1, <1>2, <1>4, ErrorDoes
<1>5. CASE RefuseLocally(s)
    BY <1>3, <1>4, <1>5 DEF RefuseLocally
<1>6. CASE Challenged(s)
    <2> DEFINE v == [work[s] EXCEPT !.pc = "retry", !.nonce = "fresh"]
    <2>1. work' = [work EXCEPT ![s] = v]
        BY <1>6 DEF Challenged
    <2>2. v.unauthorized = work[s].unauthorized
        BY <1>1 DEF WorkFields
    <2> HIDE DEF v
    <2>. QED  BY <1>3, <2>1, <2>2
<1>7. ASSUME NEW why, Fails(s, why, AfterError(s, why))
      PROVE  work'[t].unauthorized = work[t].unauthorized
    <2>1. work' = [work EXCEPT ![s] = AfterError(s, why)]
        BY <1>7 DEF Fails
    <2>2. why = "unauthorized" => t # s
        <3> SUFFICES ASSUME why = "unauthorized", t = s PROVE FALSE
            OBVIOUS
        <3>1. Decisive(s) /\ ~Authorized(s)
            BY <1>7 DEF Fails
        <3>2. CredentialHolds(work[s], dev)
            BY <1>1 DEF SessionOK
        <3>. QED  BY <3>1, <3>2, RightIsAuthorized
    <2>3. t = s => AfterError(s, why).unauthorized = work[s].unauthorized
        BY <1>4, <2>2
    <2>. QED  BY <1>3, <2>1, <2>3
<1>8. ASSUME NEW on, WorkTyped(on), on.unauthorized = work[s].unauthorized, Succeeds(s, on)
      PROVE  work'[t].unauthorized = work[t].unauthorized
    <2> DEFINE restart == Head(work[s].ops).method \in Restarts
               v == Settled(on, dev', restart)
               o == Others(s, dev', restart)
    <2>1. work' = [o EXCEPT ![s] = v]
        BY <1>8 DEF Succeeds, Settled
    <2>2. v.unauthorized = work[s].unauthorized
        BY <1>8, SettledDoes
    <2>3. DOMAIN o = Sessions
        BY DEF Others
    <2>4. o[t].unauthorized = work[t].unauthorized
        BY <1>1, OthersKeepMark
    <2> HIDE DEF o, v
    <2>. QED  BY <2>1, <2>2, <2>3, <2>4
<1>9. ASSUME NEW listed \in Listed(s), Succeeds(s, AfterSuccess(s, listed))
      PROVE  work'[t].unauthorized = work[t].unauthorized
    <2> DEFINE rest == listed \o Tail(work[s].ops)
               on == AfterSuccess(s, listed)
    <2>1. rest \in Seq(Ops)
        <3>1. listed \in (IF Head(work[s].ops).method = "Schedule.List" THEN Deletions(dev.schedule) ELSE {<<>>})
            BY <1>9 DEF Listed
        <3>. QED  BY <1>2, <3>1, RestTyped
    <2>2. rest = listed \o Tail(work[s].ops) /\ on = AfterSuccess(s, listed) /\ WorkTyped(work[s])
        BY <1>1
    <2> HIDE DEF rest, on
    <2>3. WorkTyped(on) /\ Follows(on, work[s], rest)
        BY <1>2, <2>1, <2>2, SuccessDoes
    <2>4. WorkTyped(on) /\ on.unauthorized = work[s].unauthorized /\ Succeeds(s, on)
        BY <1>9, <2>2, <2>3 DEF Follows
    <2>. QED  BY <1>8, <2>4
<1>10. ASSUME Succeeds(s, AfterError(s, "silent"))
       PROVE  work'[t].unauthorized = work[t].unauthorized
    BY <1>4, <1>8, <1>10
<1>. QED  BY <1>5, <1>6, <1>7, <1>9, <1>10 DEF Call

Marked(t) ==
    work[t].pc \in {"send", "retry"} /\ work[t].kept = 1 /\ work[t].calm = 1 /\ work[t].creds # NoAuth
    => work'[t].unauthorized = work[t].unauthorized

LEMMA StepKeepsMark == Inv /\ Next => \A t \in Sessions : Marked(t)
<1> SUFFICES ASSUME Inv, Next, NEW t \in Sessions,
                    work[t].pc \in {"send", "retry"}, work[t].kept = 1, work[t].calm = 1, work[t].creds # NoAuth
             PROVE  work'[t].unauthorized = work[t].unauthorized
    BY DEF Marked
<1>0. dev \in DeviceState /\ CountersTyped /\ SessionsOK /\ DOMAIN work = Sessions /\ DOMAIN work[t] = WorkFields
    BY DEF Inv, SessionsOK, SessionOK, WorkTyped
<1>1. ASSUME NEW s \in Sessions, NEW v, work' = [work EXCEPT ![s] = v], work[s].pc \notin {"send", "retry"}
      PROVE  work'[t] = work[t]
    BY <1>0, <1>1
<1>2. CASE ProvisionStep(Held)
    <2>1. PICK s \in Sessions :
             \/ \E template \in Templates, ref \in Passwords \cup {NoAuth} :
                  BeginProvision(s, template, ref, Held)
             \/ BeginUpload(s, Held)
             \/ \E entry \in Actions : BeginAction(s, entry)
             \/ Identify(s) \/ PickSection(s) \/ Call(s) \/ Finish(s)
        BY <1>2 DEF ProvisionStep
    <2>2. CASE Call(s)
        BY <1>0, <2>2, CallKeepsMark
    <2>3. CASE \E template \in Templates, ref \in Passwords \cup {NoAuth} : BeginProvision(s, template, ref, Held)
        BY <1>1, <2>3 DEF BeginProvision, Begin
    <2>4. CASE BeginUpload(s, Held)
        BY <1>1, <2>4 DEF BeginUpload, Begin
    <2>5. CASE \E entry \in Actions : BeginAction(s, entry)
        BY <1>1, <2>5 DEF BeginAction, Begin
    <2>6. CASE Identify(s)
        <3>1. work[s].pc = "identify" /\ s # t
            BY <2>6 DEF Identify
        <3>2. work'[t] = work[t]
            BY <1>0, <2>6, <3>1 DEF Identify
        <3>. QED  BY <3>2
    <2>7. CASE PickSection(s)
        <3>1. work[s].pc = "pick" /\ \E v : work' = [work EXCEPT ![s] = v]
            BY <2>7 DEF PickSection
        <3>. QED  BY <1>1, <3>1
    <2>8. CASE Finish(s)
        BY <1>1, <2>8 DEF Finish
    <2>. QED  BY <2>1, <2>2, <2>3, <2>4, <2>5, <2>6, <2>7, <2>8
<1>3. CASE DeviceStep
    <2>1. work' = work \/ \E restart : work' = Others(NoAuth, dev', restart)
        BY <1>3 DEF DeviceStep, Restart, Flash, SelfUpdate
    <2>. QED  BY <1>0, <2>1, OthersKeepMark
<1>4. CASE RefreshRow \/ StartInstall \/ Complete \/ Stop
    BY <1>4 DEF RefreshRow, StartInstall, Complete, Stop, deviceVars
<1>5. ASSUME NEW u \in Targets, TargetStep(u) PROVE work'[t].unauthorized = work[t].unauthorized
    BY <1>0, <1>5, TargetCounts
<1>. QED  BY <1>2, <1>3, <1>4, <1>5 DEF Next, BesideJob

\* A credential that was right since the request began is refused only when a restart
\* of the device outdates the nonce within one call of shellyclient.do.
THEOREM RightCredentialIsNotRefused == Spec => RightCredentialIsAccepted
<1>1. Inv /\ [Next]_vars => [\A t \in Sessions : Marked(t)]_vars
    BY StepKeepsMark
<1>2. [\A t \in Sessions : Marked(t)]_vars =>
      [\A s \in Sessions :
          /\ work[s].pc \in {"send", "retry"} /\ work[s].kept = 1 /\ work[s].calm = 1
          /\ work[s].creds # NoAuth
          => work'[s].unauthorized = work[s].unauthorized]_vars
    BY DEF Marked
<1>. QED  BY <1>1, <1>2, InvariantHolds, PTL DEF Spec, RightCredentialIsAccepted
=============================================================================
