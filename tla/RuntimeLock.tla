----------------------------- MODULE RuntimeLock -----------------------------
(***************************************************************************)
(* The single-instance lock of ADR-0015: one row of runtime_locks, claimed *)
(* at boot, refreshed by a heartbeat, deleted at shutdown, taken over when *)
(* it is stale (internal/services/runtimelock).                            *)
(*                                                                         *)
(* Time is relative: the row has an age, and every instance a timer.  One  *)
(* unit is a second, the resolution of acquired_at.  Claiming is a read    *)
(* and then a write, with no transaction around the two.                   *)
(***************************************************************************)
EXTENDS Naturals

CONSTANTS
    Instances,          \* containers that share the database
    HostOf,             \* the hostname of each
    NoOwner,            \* there is no row
    HeartbeatInterval,
    StaleAfter,
    Jitter              \* bound: how late a statement runs after its time

ASSUME LockAssumption ==
    /\ HeartbeatInterval \in Nat \ {0} /\ StaleAfter \in Nat /\ Jitter \in Nat
    /\ NoOwner \notin Instances

VARIABLES
    row,      \* runtime_locks WHERE key = 'primary': owner and age
    inst,     \* state of each instance
    excused,  \* auxiliary: the lock was got round in one of the known ways
    silent    \* auxiliary: a boot met a live owner that had long written nothing

lockVars == <<row, inst, excused, silent>>

\* Beyond StaleAfter the age makes no difference.
RowStates == [owner : Instances \cup {NoOwner}, age : 0 .. StaleAfter]
NoRow == [owner |-> NoOwner, age |-> 0]

\* timer: since the read while "claiming", since the last tick of the
\* heartbeat's ticker while "up".  quiet: auxiliary, the time for which an
\* instance that is up has written nothing; beyond StaleAfter it makes no
\* difference.  current: auxiliary, nobody has written the row since it was read.
InstStates == [pc : {"down", "claiming", "up"}, timer : Nat, quiet : 0 .. StaleAfter,
               current : BOOLEAN]

Down == [pc |-> "down", timer |-> 0, quiet |-> 0, current |-> FALSE]

Up == {i \in Instances : inst[i].pc = "up"}

LockInit ==
    /\ row = NoRow
    /\ inst = [i \in Instances |-> Down]
    /\ excused = FALSE
    /\ silent = FALSE

\* A write to the row makes every earlier read of it out of date.
Outdate(states) == [i \in Instances |-> [states[i] EXCEPT !.current = FALSE]]

-----------------------------------------------------------------------------
\* Faulty variants: the age is not looked at; any row keeps the others out.
TakeableAlways(i) == TRUE
TakeableNever(i) == row.owner = NoOwner

\* Acquire's decision: no row, a row of the same host, or a stale row.
Takeable(i) ==
    \/ row.owner = NoOwner
    \/ row.owner \in Instances /\ HostOf[row.owner] = HostOf[i]
    \/ row.age >= StaleAfter

\* The row's owner is up on another host and has written nothing for the
\* threshold, less the delay of a statement.
OwnerIsSilent(i) ==
    \E k \in Up : /\ row.owner = k
                 /\ HostOf[k] # HostOf[i]
                 /\ inst[k].quiet + Jitter >= StaleAfter

\* Acquire, first statement; otherwise the boot is refused and nothing changes.
ReadLock(i) ==
    /\ inst[i].pc = "down"
    /\ Takeable(i)
    /\ inst' = [inst EXCEPT ![i] = [pc |-> "claiming", timer |-> 0, quiet |-> 0,
                                    current |-> TRUE]]
    /\ silent' = (silent \/ OwnerIsSilent(i))
    /\ UNCHANGED <<row, excused>>

\* Acquire, second statement, with the time taken before the read; then
\* StartHeartbeat.  The known ways round: the row has changed since the read,
\* or its owner is alive on the same host.
Claim(i) ==
    /\ inst[i].pc = "claiming"
    /\ row' = [owner |-> i, age |-> IF inst[i].timer < StaleAfter THEN inst[i].timer
                                                                  ELSE StaleAfter]
    /\ inst' = [Outdate(inst) EXCEPT ![i] = [pc |-> "up", timer |-> 0, quiet |-> 0,
                                             current |-> FALSE]]
    /\ excused' = \/ excused
                  \/ ~inst[i].current
                  \/ row.owner \in Up /\ HostOf[row.owner] = HostOf[i]
    /\ UNCHANGED silent

\* A tick of the heartbeat: the row is written over, whoever owns it.
Heartbeat(i) ==
    /\ inst[i].pc = "up"
    /\ inst[i].timer >= HeartbeatInterval
    /\ row' = [owner |-> i, age |-> 0]
    /\ inst' = [Outdate(inst) EXCEPT ![i] = [pc |-> "up", quiet |-> 0, current |-> FALSE,
                                             timer |-> inst[i].timer - HeartbeatInterval]]
    /\ UNCHANGED <<excused, silent>>

\* The statement fails, which is logged; any number may fail in a row.
HeartbeatFails(i) ==
    /\ inst[i].pc = "up"
    /\ inst[i].timer >= HeartbeatInterval
    /\ inst' = [inst EXCEPT ![i].timer = @ - HeartbeatInterval]
    /\ UNCHANGED <<row, excused, silent>>

\* Release stops the heartbeat and deletes the row, whoever owns it.  The wait
\* for the heartbeat is bounded: one that is stuck may write after the delete.
ReleaseLock(i) ==
    /\ inst[i].pc = "up"
    /\ row' \in {NoRow, [owner |-> i, age |-> 0]}
    /\ inst' = [Outdate(inst) EXCEPT ![i] = Down]
    /\ UNCHANGED <<excused, silent>>

\* The process is gone without a Release, or the delete failed.
Crash(i) ==
    /\ inst[i].pc # "down"
    /\ inst' = [inst EXCEPT ![i] = Down]
    /\ UNCHANGED <<row, excused, silent>>

\* shellyctl unlock --force: a way round while an instance is up.
ForceClear ==
    /\ row' = NoRow
    /\ inst' = Outdate(inst)
    /\ excused' = (excused \/ Up # {})
    /\ UNCHANGED silent

\* The quiet time a second later.
Quieter(i) == IF inst[i].pc = "up" /\ inst[i].quiet < StaleAfter THEN inst[i].quiet + 1
                                                                ELSE inst[i].quiet

\* A second passes.  A claim is no more than Jitter behind its read and a
\* heartbeat no more than Jitter behind its tick.
Tick ==
    /\ \A i \in Instances : /\ inst[i].pc = "claiming" => inst[i].timer < Jitter
                            /\ inst[i].pc = "up" => inst[i].timer < HeartbeatInterval + Jitter
    /\ row' = IF row.owner # NoOwner /\ row.age < StaleAfter
              THEN [row EXCEPT !.age = @ + 1] ELSE row
    /\ inst' = [i \in Instances |-> IF inst[i].pc = "down" THEN inst[i]
                                    ELSE [inst[i] EXCEPT !.timer = @ + 1,
                                                         !.quiet = Quieter(i)]]
    /\ UNCHANGED <<excused, silent>>

-----------------------------------------------------------------------------
LockNext ==
    \/ \E i \in Instances : \/ ReadLock(i) \/ Claim(i) \/ Heartbeat(i) \/ HeartbeatFails(i)
                            \/ ReleaseLock(i) \/ Crash(i)
    \/ ForceClear
    \/ Tick

LockSpec == LockInit /\ [][LockNext]_lockVars

\* Time passes, and a container that is down is started again (the restart
\* policy unless-stopped).
FairSpec == LockSpec /\ WF_lockVars(Tick) /\ \A i \in Instances : WF_lockVars(ReadLock(i))

-----------------------------------------------------------------------------
LockTypeOK ==
    /\ row \in RowStates
    /\ inst \in [Instances -> InstStates]
    /\ excused \in BOOLEAN
    /\ silent \in BOOLEAN

\* ADR-0015: two containers on one database are detected at startup.  What of it
\* the lock guarantees, whatever the two intervals and however many heartbeats
\* fail: a second instance comes up only when two boots overlapped, the row was
\* cleared by force, the containers have one hostname, or the live owner had
\* written nothing for StaleAfter (less the delay of a statement) at its boot.
\* With the code's intervals, 60 s and 60 s, an owner none of whose heartbeats
\* fails is that quiet at the end of every interval.
OneUpUnlessSilent == ~excused /\ ~silent => \A i, j \in Up : i = j

\* The inductive invariant.  Timers stay within what Tick allows...
TimersBounded ==
    \A i \in Instances :
        /\ inst[i].pc = "claiming" => inst[i].timer <= Jitter
        /\ inst[i].pc = "up" => inst[i].timer <= HeartbeatInterval + Jitter

\* ... the row of the instance that is up is its own, and as old as its last
\* write, but for the delay of the claim...
RowOfLiveIsFresh ==
    ~excused /\ ~silent => \A i \in Up :
        /\ row.owner = i
        /\ row.age <= inst[i].quiet + Jitter

\* ... and nobody whose read still stands claims it, but from the same host.
ClaimsArePrivate ==
    ~excused /\ ~silent => \A j \in Instances :
        inst[j].pc = "claiming" /\ inst[j].current =>
            \A i \in Up : HostOf[i] = HostOf[j]

\* Everything the lock maintains, in one formula that is inductive for all
\* intervals.
LockIndInv == LockTypeOK /\ TimersBounded /\ RowOfLiveIsFresh /\ ClaimsArePrivate

\* The row of an instance that is gone does not keep the service down: if
\* nobody is up, somebody gets to claim the lock.
DeadLockIsTaken == (Up = {}) ~> (\E i \in Instances : inst[i].pc # "down")
=============================================================================
