------------------------------ MODULE Workers -------------------------------
(***************************************************************************)
(* The auto-backup worker: every minute it reads the settings and, when it  *)
(* is due by the interval they ask for now, writes a snapshot of the        *)
(* database named by the wall clock and removes all but the newest files.   *)
(* When it last ran is known only to the running process.                   *)
(*                                                                          *)
(* One unit of time is the smallest AutoBackupIntervalHours.                *)
(***************************************************************************)
EXTENDS Naturals, FiniteSets

CONSTANTS
    MaxStamp,    \* bound: the wall clock
    MaxKeep,     \* bound: AutoBackupKeep
    MaxInterval, \* bound: AutoBackupIntervalHours
    Never        \* lastRun.IsZero()

ASSUME WorkersAssumption ==
    MaxStamp \in Nat /\ MaxKeep \in Nat \ {0} /\ MaxInterval \in Nat \ {0} /\ Never \notin Nat

VARIABLES
    snaps,      \* the stamps of the files shellyctl.db.snap-*.sqlite
    clock,      \* the wall clock
    since,      \* time.Since(lastRun), which is monotonic, up to MaxInterval
    keep,       \* AutoBackupKeep, or 0 for AutoBackupEnabled = false
    interval,   \* AutoBackupIntervalHours
    pace,       \* auxiliary: the interval in force when the file of a stamp was written
    disturbed   \* auxiliary: the clock was set back, the process restarted, a
                \* snapshot was written without being counted as a run

workerVars == <<snaps, clock, since, keep, interval, pace, disturbed>>

Intervals == 1 .. MaxInterval

WorkersInit ==
    /\ snaps = {} /\ clock = 0
    /\ since = Never
    /\ keep \in 0 .. MaxKeep /\ interval \in Intervals
    /\ pace = [t \in 0 .. MaxStamp |-> 0]
    /\ disturbed = {}

\* The settings row is written: the next tick reads it.
SettingsSaved ==
    /\ keep' \in 0 .. MaxKeep /\ interval' \in Intervals
    /\ UNCHANGED <<snaps, clock, since, pace, disturbed>>

\* Faulty variant: the interval counts from the last tick.
DueAlways == TRUE

Due == since # Never => since >= interval

\* Faulty variant: the files are sorted, and the tail of the list is removed.
SurplusTail(files) == {s \in files : Cardinality({t \in files : t < s}) >= keep}

\* sort.Strings(matches), matches[:len(matches)-AutoBackupKeep]: the stamps
\* sort as their times do.
Surplus(files) == {s \in files : Cardinality({t \in files : t > s}) >= keep}

\* SnapshotTo writes a file under the name of the moment; VACUUM INTO refuses a
\* file that exists, which changes nothing, and the next minute tries again.
WritesSnapshot ==
    /\ keep > 0 /\ Due
    /\ clock \notin snaps
    /\ pace' = [pace EXCEPT ![clock] = interval]
    /\ UNCHANGED <<clock, keep, interval>>

\* runAutoBackupOnce.  A file that cannot be removed stays.
AutoBackup ==
    /\ WritesSnapshot
    /\ \E stuck \in SUBSET Surplus(snaps \cup {clock}) :
         snaps' = (snaps \cup {clock}) \ (Surplus(snaps \cup {clock}) \ stuck)
    /\ since' = 0
    /\ UNCHANGED disturbed

\* It returns an error with the file on disk: VACUUM INTO failed half way, or
\* Glob failed after it.  Nothing is removed and lastRun is not set, so that the
\* next minute writes another one.
AutoBackupFails ==
    /\ WritesSnapshot
    /\ snaps' = snaps \cup {clock}
    /\ disturbed' = disturbed \cup {"error"}
    /\ UNCHANGED since

\* Time passes.
Sleep ==
    /\ clock < MaxStamp
    /\ clock' = clock + 1
    /\ since' = IF since = Never \/ since >= MaxInterval THEN since ELSE since + 1
    /\ UNCHANGED <<snaps, keep, interval, pace, disturbed>>

\* The wall clock is set back, by NTP or by hand.
ClockSetBack ==
    /\ \E t \in 0 .. MaxStamp : t < clock /\ clock' = t
    /\ disturbed' = disturbed \cup {"clock"}
    /\ UNCHANGED <<snaps, since, keep, interval, pace>>

\* A new process does not know when the last one ran.
WorkersRestart ==
    /\ since' = Never
    /\ disturbed' = IF snaps = {} THEN disturbed ELSE disturbed \cup {"restart"}
    /\ UNCHANGED <<snaps, clock, keep, interval, pace>>

WorkersTypeOK ==
    /\ snaps \subseteq 0 .. MaxStamp /\ clock \in 0 .. MaxStamp
    /\ since \in (0 .. MaxInterval) \cup {Never}
    /\ keep \in 0 .. MaxKeep /\ interval \in Intervals
    /\ pace \in [0 .. MaxStamp -> 0 .. MaxInterval]
    /\ disturbed \subseteq {"clock", "restart", "error"}

\* Every snapshot that is kept lies, after all earlier ones, the interval apart
\* that the settings asked for when it was taken, whatever is saved before and
\* after, and the last one taken is among them.  Exceptions: the clock was set
\* back, a restart made the worker forget its last run, or a run ended with an
\* error and its file on disk.  The files are ranked by the wall clock in their
\* names (autoBackupLoop, runAutoBackupOnce).
SnapshotsSpread ==
    /\ disturbed = {} => \A s, t \in snaps : s < t => t - s >= pace[t]
    /\ "clock" \notin disturbed /\ since \in 0 .. MaxInterval - 1 => clock - since \in snaps
=============================================================================
