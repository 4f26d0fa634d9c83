------------------------------- MODULE Audit --------------------------------
(***************************************************************************)
(* The audit log: rows chained by a hash, written from any goroutine in a  *)
(* transaction that reads the last row and inserts the next; the retention *)
(* worker that prunes old rows; and the clearing of the log.               *)
(*                                                                         *)
(* A transaction of SQLite in WAL mode that starts with a SELECT works on  *)
(* the snapshot of that moment.  Its first write fails at once when any    *)
(* other transaction has committed since: the row is lost, as the sinks    *)
(* ignore the error of AddLogWithAttrs.                                    *)
(***************************************************************************)
EXTENDS Naturals

CONSTANTS
    Writers,    \* goroutines that log
    MaxRows,    \* bound: rows ever written
    MaxTime,    \* bound: the clock, in days
    MaxDays     \* bound: AuditRetentionDays

ASSUME AuditAssumption == MaxRows \in Nat /\ MaxTime \in Nat /\ MaxDays \in Nat

VARIABLES
    log,        \* the rows of audit_log
    written,    \* rows ever written
    writer,     \* the transactions of AddLogWithAttrs in flight
    pruner,     \* the retention worker
    days,       \* AuditRetentionDays of the settings
    now,        \* the wall clock
    stepped     \* auxiliary: the clock was set back

auditVars == <<log, written, writer, pruner, days, now, stepped>>

\* A row.  id, which AUTOINCREMENT never gives out twice, stands for its content
\* too, and so for its chainLink; prev is its prev_hash, 0 for the empty one.
Row == [id : 1 .. MaxRows, at : 0 .. MaxTime, prev : 0 .. MaxRows]

WriterState == [pc : {"idle", "read", "stamped"}, anchor : 0 .. MaxRows, at : 0 .. MaxTime,
                stale : 0 .. 1]
IdleWriter == [pc |-> "idle", anchor |-> 0, at |-> 0, stale |-> 0]

PrunerState == [pc : {"idle", "prune"}, cutoff : 0 .. MaxTime]

AuditInit ==
    /\ log = {} /\ written = 0
    /\ writer = [w \in Writers |-> IdleWriter]
    /\ pruner = [pc |-> "idle", cutoff |-> 0]
    /\ days \in 0 .. MaxDays
    /\ now = 0 /\ stepped = FALSE

\* chainLink of the last row: ORDER BY id DESC LIMIT 1.
Anchor(rows) ==
    IF rows = {} THEN 0
    ELSE CHOOSE id \in {row.id : row \in rows} : \A other \in rows : other.id <= id

\* A commit outdates the snapshots of the other transactions.
Outdated(ws) == [w \in Writers |-> IF w \in ws \/ writer[w].pc = "idle" THEN writer[w]
                                   ELSE [writer[w] EXCEPT !.stale = 1]]

-----------------------------------------------------------------------------
(* AddLogWithAttrs.                                                        *)

\* BEGIN and the SELECT of the last row.
ReadLast(w) ==
    /\ writer[w].pc = "idle"
    /\ writer' = [writer EXCEPT ![w] = [pc |-> "read", anchor |-> Anchor(log), at |-> 0, stale |-> 0]]
    /\ UNCHANGED <<log, written, pruner, days, now, stepped>>

\* now(), an argument of the INSERT.
Stamp(w) ==
    /\ writer[w].pc = "read"
    /\ writer' = [writer EXCEPT ![w] = [writer[w] EXCEPT !.pc = "stamped", !.at = now]]
    /\ UNCHANGED <<log, written, pruner, days, now, stepped>>

\* Faulty variant: read and insert are not one transaction.
MayInsertAlways(w) == TRUE

\* The SELECT and the INSERT are one transaction: SQLite lets it write only while the
\* snapshot it read is still the last one.
MayInsert(w) == writer[w].stale = 0

\* INSERT and COMMIT; or SQLITE_BUSY, and the row is lost.
Insert(w) ==
    /\ writer[w].pc = "stamped"
    /\ \/ /\ MayInsert(w)
          /\ written < MaxRows
          /\ log' = log \cup {[id |-> written + 1, at |-> writer[w].at, prev |-> writer[w].anchor]}
          /\ written' = written + 1
          /\ writer' = [Outdated({w}) EXCEPT ![w] = IdleWriter]
       \/ /\ ~MayInsert(w)
          /\ writer' = [writer EXCEPT ![w] = IdleWriter]
          /\ UNCHANGED <<log, written>>
    /\ UNCHANGED <<pruner, days, now, stepped>>

\* Any other commit of the process: a job row, a device, the settings.
OtherCommit ==
    /\ writer' = Outdated({})
    /\ UNCHANGED <<log, written, pruner, days, now, stepped>>

-----------------------------------------------------------------------------
(* Retention and clearing.                                                 *)

\* AuditRetentionDays <= 0 keeps all rows.
KeepsAll == days = 0

\* runAuditRetentionOnce: the settings are read and the cutoff is computed.
RetentionTick ==
    /\ pruner.pc = "idle"
    /\ ~KeepsAll
    /\ days <= now
    /\ pruner' = [pc |-> "prune", cutoff |-> now - days]
    /\ UNCHANGED <<log, written, writer, days, now, stepped>>

\* Faulty variant: the chain is closed over the gap that the prune leaves.
SurvivorsRelinked(cutoff) ==
    LET kept == {row \in log : row.at >= cutoff}
    IN  {[row EXCEPT !.prev = Anchor({other \in kept : other.id < row.id})] : row \in kept}

\* DELETE ... WHERE ts < cutoff.
Survivors(cutoff) == {row \in log : row.at >= cutoff}

\* PruneAuditLogOlderThan: the bypass of the trigger is set, the rows are
\* deleted and the bypass is cleared in one transaction, which writes first and
\* so waits for other writers; or it fails and nothing is changed.
Prune ==
    /\ pruner.pc = "prune"
    /\ \/ log' = Survivors(pruner.cutoff) /\ writer' = Outdated({})
       \/ UNCHANGED <<log, writer>>
    /\ pruner' = [pc |-> "idle", cutoff |-> 0]
    /\ UNCHANGED <<written, days, now, stepped>>

\* ClearLogs, on the Logs page.
ClearLogs ==
    /\ log' = {}
    /\ writer' = Outdated({})
    /\ UNCHANGED <<written, pruner, days, now, stepped>>

\* The operator saves other settings.
SetRetention(d) ==
    /\ days' = d
    /\ writer' = Outdated({})
    /\ UNCHANGED <<log, written, pruner, now, stepped>>

\* Days pass, or the clock is set back.
ClockMoves ==
    /\ \/ now < MaxTime /\ now' = now + 1 /\ UNCHANGED stepped
       \/ now > 0 /\ now' = now - 1 /\ stepped' = TRUE
    /\ UNCHANGED <<log, written, writer, pruner, days>>

AuditNext ==
    \/ \E w \in Writers : ReadLast(w) \/ Stamp(w) \/ Insert(w)
    \/ OtherCommit \/ RetentionTick \/ Prune \/ ClearLogs \/ ClockMoves
    \/ \E d \in 0 .. MaxDays : SetRetention(d)

AuditSpec == AuditInit /\ [][AuditNext]_auditVars

-----------------------------------------------------------------------------
\* VerifyAuditChain stops at a row whose prev_hash is not the link of the row
\* before it.
Mismatches == {row \in log : row.prev # Anchor({other \in log : other.id < row.id})}

AuditTypeOK ==
    /\ log \subseteq Row
    /\ written \in 0 .. MaxRows
    /\ writer \in [Writers -> WriterState]
    /\ pruner \in PrunerState
    /\ days \in 0 .. MaxDays /\ now \in 0 .. MaxTime /\ stepped \in BOOLEAN

\* The rows of audit_log are in the order of their times, whichever goroutines
\* wrote them, as long as the clock is not set back: a prune cuts off a prefix.
TimesInOrder ==
    ~stepped => \A row, later \in log : row.id < later.id => row.at <= later.at

\* Concurrent writers, prunes and clears never break a link in the middle of
\* the chain: VerifyAuditChain finds nothing, or the first row left by a prune.
\* All is well typed.
ChainUnbroken ==
    /\ AuditTypeOK
    /\ ~stepped => \A row \in Mismatches, other \in log : row.id <= other.id

Promise == INSTANCE AppendLog WITH
    Ids <- 1 .. MaxRows,
    kept <- {[id |-> row.id, prev |-> row.prev] : row \in log}

\* The log implements the abstract append-only log, clock set back or not:
\* each row is tied to the one that was last when it was committed.
ImplementsAppendLog == Promise!Spec
=============================================================================
