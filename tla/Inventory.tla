------------------------------ MODULE Inventory ------------------------------
(***************************************************************************)
(* The devices table and everything that writes to it.                     *)
(*                                                                         *)
(* Every writer reads rows with ListDevices, talks to devices for seconds  *)
(* or minutes, and writes whole rows back (internal/db/devices.go): single *)
(* rows with UpsertDevice, or the fleet with UpsertDevices, which reads    *)
(* the table once more before its transaction.  Nothing keeps two writers  *)
(* apart, so a write may rest on rows that have changed or gone since.     *)
(***************************************************************************)
EXTENDS Naturals, FiniteSets

CONSTANTS
    Devices,   \* MAC addresses
    Writers,   \* goroutines that write to the table: requests and jobs
    MaxOps     \* bound: operations begun

ASSUME InventoryAssumption == IsFiniteSet(Devices) /\ MaxOps \in Nat

\* What a contact with a device can bring: the full answer; 401, 403 or 429;
\* a certificate that does not verify; nothing.
Answers == {"ok", "refuses", "badtls", "silent"}

VARIABLES
    table,    \* the devices table
    writer,   \* local state of each writer
    ops,      \* operations begun so far
    raced     \* auxiliary: some write rested on an outdated device number

vars == <<table, writer, ops, raced>>

\* misses stops at 2, the largest value the code tells apart.  rich stands for
\* the fields a full probe brings (name, model, gen), cache for what a completed
\* firmware check has left (fw_available_*).  heard is auxiliary: the
\* answer of the contact on which the status of the row is based.
Rows == [num : Nat, misses : 0 .. 2, online : 0 .. 1, ok : 0 .. 1, auth : 0 .. 1,
         rich : 0 .. 1, cache : 0 .. 1, heard : Answers]

\* Flags are stored as integers.
BoolToInt(v) == IF v THEN 1 ELSE 0

\* device_num starts at 1: number 0 stands for no row.
NoRow == [num |-> 0, misses |-> 0, online |-> 1, ok |-> 1, auth |-> 0,
          rich |-> 1, cache |-> 0, heard |-> "ok"]

Tables == [Devices -> Rows]
Empty == [d \in Devices |-> NoRow]
Listed(t) == {d \in Devices : t[d].num # 0}

SingleKinds == {"refresh", "check", "action", "setauto", "installed", "provision"}

\* snap: the rows read; todo: the devices still to do; scanned: the rows that
\* UpsertDevices is given.
WriterStates == [pc : {"idle", "single", "probing", "upsert", "commit"},
                 kind : SingleKinds \cup {"bulk", "confirm"},
                 snap : Tables, todo : SUBSET Devices, scanned : Tables]

IdleWriter == [pc |-> "idle", kind |-> "refresh", snap |-> Empty, todo |-> {},
               scanned |-> Empty]

\* Each device is enrolled or not; one that is may have had a firmware check.
FirstRow(n, c) == [NoRow EXCEPT !.num = n, !.cache = c]

FirstRows == {NoRow} \cup {FirstRow(n, c) : n \in 1 .. Cardinality(Devices), c \in 0 .. 1}

DistinctNumbers(t) == \A d, e \in Listed(t) : d # e => t[d].num # t[e].num

Init ==
    /\ table \in {t \in [Devices -> FirstRows] : DistinctNumbers(t)}
    /\ writer = [w \in Writers |-> IdleWriter]
    /\ ops = 0
    /\ raced = FALSE

-----------------------------------------------------------------------------
(* What each operation makes of a row, as functions of the row it has read. *)

\* The status columns of a row.
Status(row, misses, online, ok, heard) ==
    [row EXCEPT !.misses = misses, !.online = online, !.ok = ok, !.heard = heard]

\* Faulty variant: any answer counts.
ReachedAnyhow(row, answer) == Status(row, 0, 1, 1, answer)

Reached(row, answer) == Status(row, 0, 1, BoolToInt(answer = "ok"), answer)

\* Faulty variant: offline on the third miss.
MissedTooLate(row) ==
    Status(row, IF row.misses = 0 THEN 1 ELSE 2,
           BoolToInt(row.online = 1 /\ row.misses < 2), 0, "silent")

\* Silence: a miss, and offline from the second one on.
Missed(row) ==
    Status(row, IF row.misses = 0 THEN 1 ELSE 2,
           BoolToInt(row.online = 1 /\ row.misses < 1), 0, "silent")

\* A full probe; refreshDeviceCapabilities may add a firmware check.
Retrieved(row, checked) ==
    [Reached(row, "ok") EXCEPT !.auth = 0, !.rich = 1,
                               !.cache = BoolToInt(row.cache = 1 \/ checked)]

\* RefreshDevice: anything short of a full answer keeps the rich fields.
RefreshedRow(row, answer, checked) ==
    CASE answer = "ok" -> Retrieved(row, checked)
      [] answer = "refuses" -> [Reached(row, answer) EXCEPT !.auth = 1]
      [] answer = "badtls" -> [Reached(row, answer) EXCEPT !.auth = 0]
      [] answer = "silent" -> Missed(row)

\* One worker of a bulk refresh: a partial record that does not ask for
\* authentication is taken for a full one.
BulkRow(row, answer, checked) ==
    CASE answer = "ok" -> Retrieved(row, checked)
      [] answer = "refuses" -> [Reached(row, answer) EXCEPT !.auth = 1]
      [] answer = "badtls" -> [Reached(row, answer) EXCEPT !.ok = 1, !.auth = 0,
                                                           !.rich = 0]
      [] answer = "silent" -> Missed(row)

\* Faulty variant: a failed check is written as if it had succeeded, which is
\* what applyCheckResult was introduced to end.
CheckedRowUnconditional(row, answer) ==
    IF answer = "silent" THEN [Missed(row) EXCEPT !.cache = 0]
    ELSE [Reached(row, answer) EXCEPT !.cache = BoolToInt(answer = "ok")]

\* applyCheckResult of the firmware_check job: a row without gen is "na".
CheckedRow(row, answer) ==
    IF row.rich = 0 THEN row
    ELSE IF answer = "silent" THEN Missed(row)
    ELSE [Reached(row, answer) EXCEPT !.cache = BoolToInt(row.cache = 1 \/ answer = "ok")]

\* The firmware_check action of one device writes its result as it comes, and
\* nothing else.  set_auto_update and a finished install (which takes its own
\* version off the list, no loss of a result) leave these columns as read; a
\* provision that met 401/403 sets auth_required in the row it has read.
SingleRow(kind, row, answer, checked) ==
    CASE kind = "refresh" -> RefreshedRow(row, answer, checked)
      [] kind = "check" -> CheckedRow(row, answer)
      [] kind = "action" -> [row EXCEPT !.cache = BoolToInt(row.rich = 1 /\ answer = "ok")]
      [] kind = "provision" -> [row EXCEPT !.auth = 1]
      [] OTHER -> row

-----------------------------------------------------------------------------
(* Operations on single rows.                                              *)

\* Online-only operations skip a row that is offline or locked.
Eligible(kind, row) ==
    /\ row.num # 0
    /\ kind \in {"action", "setauto"} => row.online = 1 /\ row.auth = 0

\* ListDevices, and the choice of the devices to work on.
BeginSingle(w, kind, targets) ==
    /\ ops < MaxOps
    /\ writer[w].pc = "idle"
    /\ \A d \in targets : Eligible(kind, table[d])
    /\ kind = "check" => targets = Listed(table)
    /\ kind \in {"refresh", "action", "installed"} => Cardinality(targets) = 1
    /\ targets # {}
    /\ writer' = [writer EXCEPT ![w] = [pc |-> "single", kind |-> kind, snap |-> table,
                                        todo |-> targets, scanned |-> Empty]]
    /\ ops' = ops + 1
    /\ UNCHANGED <<table, raced>>

\* The writer after it is through with d.
Onward(w, d) ==
    IF writer[w].todo = {d} THEN IdleWriter ELSE [writer[w] EXCEPT !.todo = @ \ {d}]

\* The contact with d and the UpsertDevice of the row that comes out of it.
WriteSingle(w, d, answer, checked) ==
    /\ writer[w].pc = "single"
    /\ d \in writer[w].todo
    /\ table' = [table EXCEPT ![d] = SingleRow(writer[w].kind, writer[w].snap[d], answer, checked)]
    /\ writer' = [writer EXCEPT ![w] = Onward(w, d)]
    /\ raced' = (raced \/ table[d].num # writer[w].snap[d].num)
    /\ UNCHANGED ops

\* No write: the setter failed, the provision met no 401/403, a check job was
\* shut down, or the statement failed.
SkipSingle(w, d) ==
    /\ writer[w].pc = "single"
    /\ d \in writer[w].todo
    /\ writer' = [writer EXCEPT ![w] = Onward(w, d)]
    /\ UNCHANGED <<table, ops, raced>>

-----------------------------------------------------------------------------
(* Operations on the fleet.                                                *)

\* runRefreshJob reads the fleet...
BeginBulk(w) ==
    /\ ops < MaxOps
    /\ writer[w].pc = "idle"
    /\ writer' = [writer EXCEPT ![w] = [pc |-> "probing", kind |-> "bulk", snap |-> table,
                                        todo |-> {}, scanned |-> Empty]]
    /\ ops' = ops + 1
    /\ UNCHANGED <<table, raced>>

\* ... and has a row for every device (module RefreshPool).
BulkProbed(w, answers, checked) ==
    /\ writer[w].pc = "probing"
    /\ writer' = [writer EXCEPT ![w] =
                    [writer[w] EXCEPT !.pc = "upsert", !.scanned =
                        [d \in Devices |->
                            IF writer[w].snap[d].num = 0 THEN NoRow
                            ELSE BulkRow(writer[w].snap[d], answers[d], checked)]]]
    /\ UNCHANGED <<table, ops, raced>>

\* ConfirmScan hands a part of what the scan has found to UpsertDevices; the
\* others are counted a miss, found or not.  A scanned row has no number yet;
\* 1 marks it as given.
BeginConfirm(w, selected) ==
    /\ ops < MaxOps
    /\ writer[w].pc = "idle"
    /\ writer' = [writer EXCEPT ![w] =
                    [pc |-> "upsert", kind |-> "confirm", snap |-> Empty, todo |-> {},
                     scanned |-> [d \in Devices |->
                                    IF d \in selected THEN [NoRow EXCEPT !.num = 1] ELSE NoRow]]]
    /\ ops' = ops + 1
    /\ UNCHANGED <<table, raced>>

\* UpsertDevices: the read before the transaction.
ReadExisting(w) ==
    /\ writer[w].pc = "upsert"
    /\ writer' = [writer EXCEPT ![w].pc = "commit", ![w].snap = table]
    /\ UNCHANGED <<table, ops, raced>>

\* A row as UpsertDevices writes it: the status of a device that was retrieved.
Stored(row, num, cache) ==
    Status([row EXCEPT !.num = num, !.cache = cache], 0, 1, 1, row.heard)

\* Faulty variant: maxNum is not incremented.
UpsertedRowConstant(old, row, new) ==
    IF old.num # 0 THEN Stored(row, old.num, old.cache) ELSE Stored(row, 1, row.cache)

\* A given row: number and firmware cache of the known device, or the next
\* number.
UpsertedRow(old, row, new) ==
    IF old.num # 0 THEN Stored(row, old.num, old.cache) ELSE Stored(row, new, row.cache)

\* The devices UpsertDevices is given and does not know.
Unknown(w) == Listed(writer[w].scanned) \ Listed(writer[w].snap)

\* The transaction of UpsertDevices, on the rows read before.  Unknown devices
\* are numbered upwards from the highest number, in the order they come in.
Commit(w, top, new) ==
    /\ writer[w].pc = "commit"
    /\ LET existing == writer[w].snap
           scanned == writer[w].scanned
       IN  /\ \A d \in Devices : existing[d].num <= top
           /\ \A d \in Unknown(w) : new[d] > top /\ new[d] <= top + Cardinality(Unknown(w))
           /\ \A d, e \in Unknown(w) : d # e => new[d] # new[e]
           /\ table' = [d \in Devices |->
                          IF d \in Listed(scanned)
                          THEN UpsertedRow(existing[d], scanned[d],
                                           IF d \in Unknown(w) THEN new[d] ELSE 0)
                          ELSE IF d \in Listed(existing) THEN Missed(existing[d])
                          ELSE table[d]]
           /\ raced' = (raced \/ \E d \in Devices : table[d].num # existing[d].num)
    /\ writer' = [writer EXCEPT ![w] = IdleWriter]
    /\ UNCHANGED ops

\* A cancelled refresh, or a transaction that fails and is rolled back.
Abandon(w) ==
    /\ writer[w].pc \in {"probing", "commit"}
    /\ writer' = [writer EXCEPT ![w] = IdleWriter]
    /\ UNCHANGED <<table, ops, raced>>

ForgetDevice(d) ==
    /\ table[d].num # 0
    /\ table' = [table EXCEPT ![d] = NoRow]
    /\ UNCHANGED <<writer, ops, raced>>

-----------------------------------------------------------------------------
\* Bound: no number above that of as many enrolments as there are operations.
Numbers == 0 .. Cardinality(Devices) * (MaxOps + 1)

SingleStep(w) ==
    \/ \E kind \in SingleKinds, targets \in SUBSET Devices : BeginSingle(w, kind, targets)
    \/ \E d \in Devices : \/ \E answer \in Answers, checked \in BOOLEAN :
                                WriteSingle(w, d, answer, checked)
                          \/ SkipSingle(w, d)

FleetStep(w) ==
    \/ BeginBulk(w)
    \/ \E answers \in [Listed(writer[w].snap) -> Answers], checked \in BOOLEAN :
          BulkProbed(w, answers, checked)
    \/ \E selected \in SUBSET Devices : BeginConfirm(w, selected)
    \/ ReadExisting(w)
    \/ \E top \in {writer[w].snap[d].num : d \in Devices} \cup {0}, new \in [Unknown(w) -> Numbers] :
          Commit(w, top, new)
    \/ Abandon(w)

Next ==
    \/ \E w \in Writers : SingleStep(w) \/ FleetStep(w)
    \/ \E d \in Devices : ForgetDevice(d)

Spec == Init /\ [][Next]_vars

-----------------------------------------------------------------------------
TypeOK ==
    /\ table \in Tables
    /\ writer \in [Writers -> WriterStates]
    /\ ops \in 0 .. MaxOps
    /\ raced \in BOOLEAN

\* A device is offline exactly from its second silence on...
Consistent(r) == r.online = 1 <=> r.misses < 2

\* ... in the table and in every row on its way there, however the writers
\* interleave.
OfflineIffTwoMisses ==
    \A d \in Devices :
        /\ Consistent(table[d])
        /\ \A w \in Writers : Consistent(writer[w].snap[d]) /\ Consistent(writer[w].scanned[d])

\* device_num identifies a device in the UI.  UpsertDevices hands out the
\* numbers without a constraint in the schema: two devices share one only
\* after a write that rested on an outdated number (a concurrent confirmation,
\* or a device forgotten and its number used again).
UniqueUnlessRaced == ~raced => DistinctNumbers(table)

\* A device keeps its number for as long as it stays in the table, but for
\* such a write.
NumberKeptUnlessRaced ==
    [][\A d \in Devices :
          table[d].num # 0 /\ table'[d].num # 0 /\ table'[d].num # table[d].num => raced']_vars

\* The rule of applyCheckResult for the whole service: the result of a
\* firmware check is lost only to the check action of one device, which writes
\* a failure too, or to a row read before the check was done.
CacheLostOnlyTo ==
    [][\A d \in Devices :
          /\ table[d].num # 0 /\ table[d].cache = 1
          /\ table'[d].num # 0 /\ table'[d].cache = 0
          => \E w \in Writers : /\ writer'[w] # writer[w]
                                /\ writer[w].kind = "action" \/ writer[w].snap[d].cache = 0]_vars

\* A row says that the last contact succeeded when it did not, only where a bulk
\* refresh has written it, or a writer that read such a row and left its status
\* alone: every other writer records what it heard.
FalseOkOnlyFromBulk ==
    [][\A d \in Listed(table') :
          table'[d] # table[d] /\ table'[d].ok = 1 /\ table'[d].heard # "ok"
          => \E w \in Writers : /\ writer'[w] # writer[w]
                                /\ \/ writer[w].kind = "bulk"
                                   \/ writer[w].snap[d].ok = 1 /\ writer[w].snap[d].heard # "ok"]_vars
=============================================================================
