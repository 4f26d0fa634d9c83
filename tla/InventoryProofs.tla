--------------------------- MODULE InventoryProofs ---------------------------
(***************************************************************************)
(* The status and the numbers of the inventory, for every set of devices   *)
(* and writers.                                                            *)
(***************************************************************************)
EXTENDS Inventory, FiniteSetTheorems, TLAPS

USE InventoryAssumption

\* What an operation may make of a row it has read: a row with the same
\* number, and consistent if the one read was.
KeepsRow(old, new) == /\ new \in Rows
                      /\ new.num = old.num
                      /\ Consistent(old) => Consistent(new)

\* Setting the status columns of a row gives a row...
LEMMA StatusType ==
    ASSUME NEW row \in Rows, NEW m \in 0 .. 2, NEW o \in 0 .. 1, NEW k \in 0 .. 1, NEW h \in Answers
    PROVE  Status(row, m, o, k, h) \in Rows
BY DEF Rows, Status

\* ... with the same number...
LEMMA StatusNum ==
    ASSUME NEW row \in Rows, NEW m, NEW o, NEW k, NEW h
    PROVE  Status(row, m, o, k, h).num = row.num
BY DEF Rows, Status

\* ... which is consistent when the new values are.
LEMMA StatusConsistent ==
    ASSUME NEW row \in Rows, NEW m, NEW o, NEW k, NEW h, o = 1 <=> m < 2
    PROVE  Consistent(Status(row, m, o, k, h))
BY DEF Rows, Status, Consistent

\* A silence: the second miss in a row is the one that clears online.
LEMMA MissedKeeps == ASSUME NEW row \in Rows PROVE KeepsRow(row, Missed(row))
<1> DEFINE m == IF row.misses = 0 THEN 1 ELSE 2
           o == BoolToInt(row.online = 1 /\ row.misses < 1)
<1>1. m \in 0 .. 2 /\ o \in 0 .. 1
  BY DEF BoolToInt
<1>2. Consistent(row) => (o = 1 <=> m < 2)
  BY DEF Consistent, Rows, BoolToInt
<1>3. Missed(row) = Status(row, m, o, 0, "silent")
  BY DEF Missed
<1> HIDE DEF m, o
<1>4. Missed(row) \in Rows
  BY <1>1, <1>3, StatusType DEF Answers
<1>5. Missed(row).num = row.num
  BY <1>3, StatusNum
<1>6. Consistent(row) => Consistent(Missed(row))
  BY <1>2, <1>3, StatusConsistent
<1> QED BY <1>4, <1>5, <1>6 DEF KeepsRow

\* An answer of any sort sets online and clears the misses together.
LEMMA ReachedKeeps ==
    ASSUME NEW row \in Rows, NEW answer \in Answers
    PROVE  KeepsRow(row, Reached(row, answer))
<1> DEFINE k == BoolToInt(answer = "ok")
<1>1. k \in 0 .. 1
  BY DEF BoolToInt
<1>2. Reached(row, answer) = Status(row, 0, 1, k, answer)
  BY DEF Reached
<1> HIDE DEF k
<1>3. Reached(row, answer) \in Rows
  BY <1>1, <1>2, StatusType DEF Answers
<1>4. Reached(row, answer).num = row.num
  BY <1>2, StatusNum
<1>5. Consistent(Reached(row, answer))
  BY <1>2, StatusConsistent
<1> QED BY <1>3, <1>4, <1>5 DEF KeepsRow

\* A row as UpsertDevices writes it has the given number and a consistent status.
LEMMA StoredIs ==
    ASSUME NEW row \in Rows, NEW n \in Nat, NEW c \in 0 .. 1
    PROVE  /\ Stored(row, n, c) \in Rows
           /\ Stored(row, n, c).num = n
           /\ Consistent(Stored(row, n, c))
<1> DEFINE r == [row EXCEPT !.num = n, !.cache = c]
<1>1. r \in Rows /\ r.num = n /\ row.heard \in Answers
  BY DEF Rows
<1>2. Stored(row, n, c) = Status(r, 0, 1, 1, row.heard)
  BY DEF Stored
<1> HIDE DEF r
<1>3. Stored(row, n, c) \in Rows
  BY <1>1, <1>2, StatusType
<1>4. Stored(row, n, c).num = n
  BY <1>1, <1>2, StatusNum
<1>5. Consistent(Stored(row, n, c))
  BY <1>1, <1>2, StatusConsistent
<1> QED BY <1>3, <1>4, <1>5

\* UpsertDevices writes a consistent row, with the number of the known one.
LEMMA UpsertedRowIs ==
    ASSUME NEW old \in Rows, NEW row \in Rows, NEW new \in Nat
    PROVE  /\ UpsertedRow(old, row, new) \in Rows
           /\ UpsertedRow(old, row, new).num = IF old.num # 0 THEN old.num ELSE new
           /\ Consistent(UpsertedRow(old, row, new))
<1>1. old.num \in Nat /\ old.cache \in 0 .. 1 /\ row.cache \in 0 .. 1
  BY DEF Rows
<1> QED BY <1>1, StoredIs DEF UpsertedRow

\* Two changes of a row, one after the other.
LEMMA KeepsTwice == ASSUME NEW a, NEW b, NEW c, KeepsRow(a, b), KeepsRow(b, c)
                    PROVE KeepsRow(a, c)
BY DEF KeepsRow

\* The columns a full probe fills in are not those of number and status...
LEMMA RetrievedFlagsKeep ==
    ASSUME NEW row \in Rows, NEW c \in 0 .. 1
    PROVE  KeepsRow(row, [row EXCEPT !.auth = 0, !.rich = 1, !.cache = c])
<1>1. [row EXCEPT !.auth = 0, !.rich = 1, !.cache = c] \in Rows
  <2>1. \A a, r \in 0 .. 1 : [row EXCEPT !.auth = a, !.rich = r, !.cache = c] \in Rows
    BY DEF Rows
  <2> QED BY <2>1 DEF Rows
<1> QED BY <1>1 DEF KeepsRow, Rows, Consistent

\* ... and neither are those a partial record overwrites.
LEMMA PartialFlagsKeep ==
    ASSUME NEW row \in Rows
    PROVE  KeepsRow(row, [row EXCEPT !.ok = 1, !.auth = 0, !.rich = 0])
<1>1. [row EXCEPT !.ok = 1, !.auth = 0, !.rich = 0] \in Rows
  <2>1. \A k, a, r \in 0 .. 1 : [row EXCEPT !.ok = k, !.auth = a, !.rich = r] \in Rows
    BY DEF Rows
  <2> QED BY <2>1 DEF Rows
<1> QED BY <1>1 DEF KeepsRow, Rows, Consistent

\* The rows that the operations write, one operation at a time: a full probe,
LEMMA RetrievedKeeps ==
    ASSUME NEW row \in Rows, NEW checked \in BOOLEAN
    PROVE  KeepsRow(row, Retrieved(row, checked))
<1> DEFINE c == BoolToInt(row.cache = 1 \/ checked)
           r == Reached(row, "ok")
<1>1. c \in 0 .. 1
  BY DEF BoolToInt
<1>2. KeepsRow(row, r)
  BY ReachedKeeps DEF Answers
<1>3. Retrieved(row, checked) = [r EXCEPT !.auth = 0, !.rich = 1, !.cache = c]
  BY Zenon DEF Retrieved
<1> HIDE DEF c, r
<1>4. r \in Rows
  BY <1>2 DEF KeepsRow
<1>5. KeepsRow(r, Retrieved(row, checked))
  BY <1>1, <1>3, <1>4, RetrievedFlagsKeep DEF Rows
<1> QED BY <1>2, <1>5, KeepsTwice

\* RefreshDevice, by the answer it met,
LEMMA RefreshedRowKeeps ==
    ASSUME NEW row \in Rows, NEW answer \in Answers, NEW checked \in BOOLEAN
    PROVE  KeepsRow(row, RefreshedRow(row, answer, checked))
<1> DEFINE r == Reached(row, answer)
<1>1. KeepsRow(row, r) /\ r \in Rows
  BY ReachedKeeps DEF KeepsRow
<1> HIDE DEF r
<1>2. KeepsRow(r, [r EXCEPT !.auth = 1]) /\ KeepsRow(r, [r EXCEPT !.auth = 0])
  BY <1>1 DEF KeepsRow, Consistent, Rows
<1>3. CASE answer = "ok"
  BY <1>3, RetrievedKeeps DEF RefreshedRow
<1>4. CASE answer = "refuses"
  <2>1. RefreshedRow(row, answer, checked) = [r EXCEPT !.auth = 1]
    BY <1>4 DEF RefreshedRow, r
  <2> QED BY <1>1, <1>2, <2>1, KeepsTwice
<1>5. CASE answer = "badtls"
  <2>1. RefreshedRow(row, answer, checked) = [r EXCEPT !.auth = 0]
    BY <1>5 DEF RefreshedRow, r
  <2> QED BY <1>1, <1>2, <2>1, KeepsTwice
<1>6. CASE answer = "silent"
  BY <1>6, MissedKeeps DEF RefreshedRow
<1> QED BY <1>3, <1>4, <1>5, <1>6 DEF Answers

\* a worker of the bulk refresh,
LEMMA BulkRowKeeps ==
    ASSUME NEW row \in Rows, NEW answer \in Answers, NEW checked \in BOOLEAN
    PROVE  KeepsRow(row, BulkRow(row, answer, checked))
<1> DEFINE r == Reached(row, answer)
<1>1. KeepsRow(row, r) /\ r \in Rows
  BY ReachedKeeps DEF KeepsRow
<1> HIDE DEF r
<1>2. KeepsRow(r, [r EXCEPT !.auth = 1])
  BY <1>1 DEF KeepsRow, Consistent, Rows
<1>3. CASE answer = "ok"
  BY <1>3, RetrievedKeeps DEF BulkRow
<1>4. CASE answer = "refuses"
  <2>1. BulkRow(row, answer, checked) = [r EXCEPT !.auth = 1]
    BY <1>4 DEF BulkRow, r
  <2> QED BY <1>1, <1>2, <2>1, KeepsTwice
<1>5. CASE answer = "badtls"
  <2>1. BulkRow(row, answer, checked) = [r EXCEPT !.ok = 1, !.auth = 0, !.rich = 0]
    BY <1>5 DEF BulkRow, r
  <2>2. KeepsRow(r, BulkRow(row, answer, checked))
    BY <1>1, <2>1, PartialFlagsKeep DEF Rows
  <2> QED BY <1>1, <2>2, KeepsTwice
<1>6. CASE answer = "silent"
  BY <1>6, MissedKeeps DEF BulkRow
<1> QED BY <1>3, <1>4, <1>5, <1>6 DEF Answers

\* the firmware_check job,
LEMMA CheckedRowKeeps ==
    ASSUME NEW row \in Rows, NEW answer \in Answers
    PROVE  KeepsRow(row, CheckedRow(row, answer))
<1> DEFINE r == Reached(row, answer)
           c == BoolToInt(row.cache = 1 \/ answer = "ok")
<1>1. KeepsRow(row, r) /\ r \in Rows
  BY ReachedKeeps DEF KeepsRow
<1>2. c \in 0 .. 1
  BY DEF BoolToInt
<1>3. CASE row.rich = 0
  BY <1>3 DEF CheckedRow, KeepsRow
<1>4. CASE row.rich # 0 /\ answer = "silent"
  BY <1>4, MissedKeeps DEF CheckedRow
<1>5. CASE row.rich # 0 /\ answer # "silent"
  <2>1. CheckedRow(row, answer) = [r EXCEPT !.cache = c]
    BY <1>5, Zenon DEF CheckedRow
  <2> HIDE DEF r, c
  <2>2. KeepsRow(r, [r EXCEPT !.cache = c])
    BY <1>1, <1>2 DEF KeepsRow, Consistent, Rows
  <2> QED BY <1>1, <2>1, <2>2, KeepsTwice
<1> QED BY <1>3, <1>4, <1>5

\* and with them every operation that writes single rows.
LEMMA SingleRowKeeps ==
    ASSUME NEW kind, NEW row \in Rows, NEW answer \in Answers,
           NEW checked \in BOOLEAN
    PROVE  KeepsRow(row, SingleRow(kind, row, answer, checked))
<1>1. CASE kind = "refresh"
  BY <1>1, RefreshedRowKeeps DEF SingleRow
<1>2. CASE kind = "check"
  BY <1>2, CheckedRowKeeps DEF SingleRow
<1>3. CASE kind = "action"
  <2> DEFINE c == BoolToInt(row.rich = 1 /\ answer = "ok")
  <2>1. c \in 0 .. 1
    BY DEF BoolToInt
  <2>2. SingleRow(kind, row, answer, checked) = [row EXCEPT !.cache = c]
    BY <1>3 DEF SingleRow
  <2> HIDE DEF c
  <2> QED BY <2>1, <2>2 DEF KeepsRow, Consistent, Rows
<1>4. CASE kind = "provision"
  <2>1. SingleRow(kind, row, answer, checked) = [row EXCEPT !.auth = 1]
    BY <1>4 DEF SingleRow
  <2> QED BY <2>1 DEF KeepsRow, Consistent, Rows
<1>5. CASE kind \notin {"refresh", "check", "action", "provision"}
  BY <1>5 DEF SingleRow, KeepsRow
<1> QED BY <1>1, <1>2, <1>3, <1>4, <1>5

\* The state of a writer at rest, and of the rows that are not there.
LEMMA IdleIsTyped ==
    /\ NoRow \in Rows /\ Consistent(NoRow)
    /\ Empty \in Tables
    /\ IdleWriter \in WriterStates
BY DEF NoRow, Rows, Consistent, Answers, Empty, Tables, IdleWriter, WriterStates, SingleKinds

-----------------------------------------------------------------------------
\* The invariant that is proved: types, consistent rows, unique numbers.
IInv == TypeOK /\ OfflineIffTwoMisses /\ UniqueUnlessRaced

\* A step that leaves the table alone and gives one writer a new, well-typed
\* state with consistent rows.
LEMMA LocalStep ==
    ASSUME IInv, NEW w \in Writers, NEW state \in WriterStates,
           \A d \in Devices : Consistent(state.snap[d]) /\ Consistent(state.scanned[d]),
           writer' = [writer EXCEPT ![w] = state],
           table' = table, raced' = raced, ops' \in 0 .. MaxOps
    PROVE  IInv'
<1>1. TypeOK'
  BY DEF IInv, TypeOK
<1>2. OfflineIffTwoMisses'
  <2>1. \A v \in Writers : writer'[v] = IF v = w THEN state ELSE writer[v]
    BY DEF IInv, TypeOK
  <2> QED BY <2>1 DEF IInv, OfflineIffTwoMisses
<1>3. UniqueUnlessRaced'
  BY DEF IInv, UniqueUnlessRaced, DistinctNumbers, Listed
<1> QED BY <1>1, <1>2, <1>3 DEF IInv

\* A step that writes the table and sends its writer home.
LEMMA TableStep ==
    ASSUME IInv, NEW w \in Writers, NEW state \in WriterStates,
           \A d \in Devices : Consistent(state.snap[d]) /\ Consistent(state.scanned[d]),
           writer' = [writer EXCEPT ![w] = state],
           table' \in Tables, \A d \in Devices : Consistent(table'[d]),
           raced' \in BOOLEAN, UNCHANGED ops,
           UniqueUnlessRaced'
    PROVE  IInv'
<1>1. TypeOK'
  BY DEF IInv, TypeOK
<1>2. OfflineIffTwoMisses'
  <2>1. \A v \in Writers : writer'[v] = IF v = w THEN state ELSE writer[v]
    BY DEF IInv, TypeOK
  <2> QED BY <2>1 DEF IInv, OfflineIffTwoMisses
<1> QED BY <1>1, <1>2 DEF IInv

\* Onward leaves the rows a writer holds as they are, or drops them.
LEMMA OnwardIs ==
    ASSUME IInv, NEW w \in Writers, NEW d \in Devices
    PROVE  /\ Onward(w, d) \in WriterStates
           /\ \A e \in Devices : /\ Consistent(Onward(w, d).snap[e])
                                 /\ Consistent(Onward(w, d).scanned[e])
<1>1. writer[w] \in WriterStates
  BY DEF IInv, TypeOK
<1>2. CASE writer[w].todo = {d}
  BY <1>2, IdleIsTyped DEF Onward, IdleWriter, Empty
<1>3. CASE writer[w].todo # {d}
  <2>1. Onward(w, d) = [writer[w] EXCEPT !.todo = writer[w].todo \ {d}]
    BY <1>3 DEF Onward
  <2> QED BY <1>1, <2>1 DEF WriterStates, IInv, OfflineIffTwoMisses
<1> QED BY <1>2, <1>3

\* The operations on single rows.
LEMMA SingleStepIInv == ASSUME IInv, NEW w \in Writers, SingleStep(w) PROVE IInv'
<1> USE DEF Tables
<1>1. ASSUME NEW kind \in SingleKinds, NEW targets \in SUBSET Devices,
             BeginSingle(w, kind, targets)
      PROVE  IInv'
  <2> DEFINE state == [pc |-> "single", kind |-> kind, snap |-> table, todo |-> targets,
                       scanned |-> Empty]
  <2>1. state \in WriterStates
    BY IdleIsTyped DEF IInv, TypeOK, WriterStates
  <2>2. \A d \in Devices : Consistent(state.snap[d]) /\ Consistent(state.scanned[d])
    BY IdleIsTyped DEF IInv, OfflineIffTwoMisses, Empty
  <2>3. /\ writer' = [writer EXCEPT ![w] = state]
        /\ table' = table /\ raced' = raced /\ ops' \in 0 .. MaxOps
    BY <1>1 DEF BeginSingle, IInv, TypeOK
  <2> HIDE DEF state
  <2> QED BY <2>1, <2>2, <2>3, LocalStep
<1>2. ASSUME NEW d \in Devices, SkipSingle(w, d) PROVE IInv'
  <2>1. /\ writer' = [writer EXCEPT ![w] = Onward(w, d)]
        /\ table' = table /\ raced' = raced /\ ops' \in 0 .. MaxOps
    BY <1>2 DEF SkipSingle, IInv, TypeOK
  <2> QED BY <2>1, OnwardIs, LocalStep
<1>3. ASSUME NEW d \in Devices, NEW answer \in Answers, NEW checked \in BOOLEAN,
             WriteSingle(w, d, answer, checked)
      PROVE  IInv'
  <2> DEFINE old == writer[w].snap[d]
             new == SingleRow(writer[w].kind, old, answer, checked)
  <2>1. writer[w] \in WriterStates /\ writer[w].pc = "single" /\ old \in Rows
    BY <1>3 DEF WriteSingle, IInv, TypeOK, WriterStates
  <2>2. KeepsRow(old, new)
    BY <2>1, SingleRowKeeps
  <2>3. Consistent(old)
    BY DEF IInv, OfflineIffTwoMisses
  <2> HIDE DEF new
  <2>4. /\ table' = [table EXCEPT ![d] = new]
        /\ writer' = [writer EXCEPT ![w] = Onward(w, d)]
        /\ raced' = (raced \/ table[d].num # old.num) /\ UNCHANGED ops
    BY <1>3 DEF WriteSingle, new
  <2>5. table' \in Tables /\ \A e \in Devices : Consistent(table'[e])
    BY <2>2, <2>3, <2>4 DEF KeepsRow, IInv, TypeOK, OfflineIffTwoMisses
  <2>6. UniqueUnlessRaced'
    <3> SUFFICES ASSUME ~raced'
                 PROVE  \A e, f \in Listed(table') : e # f => table'[e].num # table'[f].num
      BY DEF UniqueUnlessRaced, DistinctNumbers
    <3>1. ~raced /\ \A e \in Devices : table'[e].num = table[e].num
      BY <2>2, <2>4 DEF KeepsRow, IInv, TypeOK
    <3> QED BY <3>1 DEF IInv, UniqueUnlessRaced, DistinctNumbers, Listed
  <2>7. raced' \in BOOLEAN
    BY <2>4 DEF IInv, TypeOK
  <2> QED BY <2>4, <2>5, <2>6, <2>7, OnwardIs, TableStep
<1> QED BY <1>1, <1>2, <1>3 DEF SingleStep

\* What the transaction of UpsertDevices makes of the table: rows with a
\* consistent status, whose numbers are those that were read, new ones for
\* unknown devices, and otherwise unchanged.
LEMMA CommittedRows ==
    ASSUME IInv, NEW w \in Writers, NEW top, NEW new \in [Unknown(w) -> Nat],
           Commit(w, top, new)
    PROVE  /\ table' \in Tables
           /\ \A d \in Devices : Consistent(table'[d])
           /\ \A d \in Devices : table'[d].num =
                  IF writer[w].snap[d].num # 0 THEN writer[w].snap[d].num
                  ELSE IF d \in Unknown(w) THEN new[d] ELSE table[d].num
<1> DEFINE existing == writer[w].snap
           scanned == writer[w].scanned
           num(d) == IF d \in Unknown(w) THEN new[d] ELSE 0
           row(d) == IF d \in Listed(scanned)
                     THEN UpsertedRow(existing[d], scanned[d], num(d))
                     ELSE IF d \in Listed(existing) THEN Missed(existing[d])
                     ELSE table[d]
<1>1. \A d \in Devices : /\ existing[d] \in Rows /\ scanned[d] \in Rows /\ table[d] \in Rows
                         /\ Consistent(existing[d]) /\ Consistent(table[d])
                         /\ num(d) \in Nat
  BY DEF IInv, TypeOK, WriterStates, Tables, OfflineIffTwoMisses
<1>2. \A d \in Devices : d \in Listed(scanned) /\ existing[d].num = 0 <=> d \in Unknown(w)
  BY <1>1 DEF Unknown, Listed
<1>3. \A d \in Devices : d \in Unknown(w) => num(d) = new[d]
  OBVIOUS
<1> HIDE DEF num
<1>4. \A d \in Devices : row(d) \in Rows /\ Consistent(row(d))
  <2> TAKE d \in Devices
  <2>1. CASE d \in Listed(scanned)
    BY <1>1, <2>1, UpsertedRowIs
  <2>2. CASE d \notin Listed(scanned) /\ d \in Listed(existing)
    BY <1>1, <2>2, MissedKeeps DEF KeepsRow
  <2>3. CASE d \notin Listed(scanned) /\ d \notin Listed(existing)
    BY <1>1, <2>3
  <2> QED BY <2>1, <2>2, <2>3
<1>5. \A d \in Devices : row(d).num = IF existing[d].num # 0 THEN existing[d].num
                                       ELSE IF d \in Unknown(w) THEN new[d] ELSE table[d].num
  <2> TAKE d \in Devices
  <2>1. CASE d \in Listed(scanned)
    BY <1>1, <1>2, <1>3, <2>1, UpsertedRowIs
  <2>2. CASE d \notin Listed(scanned) /\ d \in Listed(existing)
    BY <1>1, <2>2, MissedKeeps DEF KeepsRow, Listed
  <2>3. CASE d \notin Listed(scanned) /\ d \notin Listed(existing)
    BY <1>1, <1>2, <2>3 DEF Listed
  <2> QED BY <2>1, <2>2, <2>3
<1>6. table' = [d \in Devices |-> row(d)]
  BY Zenon DEF Commit, num
<1> HIDE DEF row
<1> QED BY <1>4, <1>5, <1>6 DEF Tables

\* The transaction of UpsertDevices: when the numbers it has read are still
\* those of the table, the ones it gives out lie above all of them.
LEMMA CommitIInv ==
    ASSUME IInv, NEW w \in Writers, NEW top \in Nat, NEW new \in [Unknown(w) -> Nat],
           Commit(w, top, new)
    PROVE  IInv'
<1> DEFINE existing == writer[w].snap
<1>1. /\ table' \in Tables
      /\ \A d \in Devices : Consistent(table'[d])
      /\ \A d \in Devices : table'[d].num = IF existing[d].num # 0 THEN existing[d].num
                                             ELSE IF d \in Unknown(w) THEN new[d] ELSE table[d].num
  BY CommittedRows
<1>2. UniqueUnlessRaced'
  <2> SUFFICES ASSUME ~raced', NEW d \in Devices, NEW e \in Devices, d # e,
                      table'[d].num # 0, table'[e].num # 0
               PROVE  table'[d].num # table'[e].num
    BY DEF UniqueUnlessRaced, DistinctNumbers, Listed
  <2>1. ~raced /\ \A f \in Devices : table[f].num = existing[f].num
    BY DEF Commit
  <2>2. \A f \in Devices : table[f].num \in Nat /\ table[f].num <= top
    BY <2>1 DEF Commit, IInv, TypeOK, Tables, Rows
  <2>3. \A f \in Devices : table'[f].num = IF table[f].num # 0 THEN table[f].num
                                           ELSE IF f \in Unknown(w) THEN new[f] ELSE 0
    BY <1>1, <2>1
  <2>4. \A f \in Unknown(w) : new[f] \in Nat /\ new[f] > top
    BY DEF Commit
  <2>5. \A f, g \in Unknown(w) : f # g => new[f] # new[g]
    BY DEF Commit
  <2>6. CASE table[d].num # 0 /\ table[e].num # 0
    BY <2>1, <2>3, <2>6 DEF IInv, UniqueUnlessRaced, DistinctNumbers, Listed
  <2>7. CASE table[d].num # 0 /\ table[e].num = 0
    BY <2>2, <2>3, <2>4, <2>7
  <2>8. CASE table[d].num = 0 /\ table[e].num # 0
    BY <2>2, <2>3, <2>4, <2>8
  <2>9. CASE table[d].num = 0 /\ table[e].num = 0
    BY <2>3, <2>5, <2>9
  <2> QED BY <2>6, <2>7, <2>8, <2>9
<1>3. raced' \in BOOLEAN
  BY DEF Commit
<1>4. writer' = [writer EXCEPT ![w] = IdleWriter] /\ UNCHANGED ops
  BY DEF Commit
<1>5. \A d \in Devices : Consistent(IdleWriter.snap[d]) /\ Consistent(IdleWriter.scanned[d])
  BY IdleIsTyped DEF IdleWriter, Empty
<1> QED BY <1>1, <1>2, <1>3, <1>4, <1>5, IdleIsTyped, TableStep

\* The operations on the fleet.
LEMMA FleetStepIInv == ASSUME IInv, NEW w \in Writers, FleetStep(w) PROVE IInv'
<1>0. /\ table \in Tables /\ writer[w] \in WriterStates /\ ops \in 0 .. MaxOps
      /\ \A d \in Devices : /\ Consistent(table[d]) /\ Consistent(writer[w].snap[d])
                            /\ Consistent(writer[w].scanned[d]) /\ Consistent(Empty[d])
                            /\ writer[w].snap[d] \in Rows
  BY IdleIsTyped DEF IInv, TypeOK, OfflineIffTwoMisses, Empty, WriterStates, Tables
<1>1. CASE BeginBulk(w)
  <2> DEFINE state == [pc |-> "probing", kind |-> "bulk", snap |-> table, todo |-> {},
                       scanned |-> Empty]
  <2>1. state \in WriterStates
    BY <1>0, IdleIsTyped DEF WriterStates
  <2>2. \A d \in Devices : Consistent(state.snap[d]) /\ Consistent(state.scanned[d])
    BY <1>0
  <2>3. /\ writer' = [writer EXCEPT ![w] = state]
        /\ table' = table /\ raced' = raced /\ ops' \in 0 .. MaxOps
    BY <1>0, <1>1 DEF BeginBulk
  <2> HIDE DEF state
  <2> QED BY <2>1, <2>2, <2>3, LocalStep
<1>2. ASSUME NEW answers \in [Listed(writer[w].snap) -> Answers], NEW checked \in BOOLEAN,
             BulkProbed(w, answers, checked)
      PROVE  IInv'
  <2> DEFINE result(d) == IF writer[w].snap[d].num = 0 THEN NoRow
                          ELSE BulkRow(writer[w].snap[d], answers[d], checked)
             results == [d \in Devices |-> result(d)]
             state == [writer[w] EXCEPT !.pc = "upsert", !.scanned = results]
  <2>1. \A d \in Devices : result(d) \in Rows /\ Consistent(result(d))
    <3> TAKE d \in Devices
    <3>1. CASE writer[w].snap[d].num = 0
      BY <3>1, IdleIsTyped
    <3>2. CASE writer[w].snap[d].num # 0
      <4>1. answers[d] \in Answers
        BY <3>2 DEF Listed
      <4>2. KeepsRow(writer[w].snap[d], BulkRow(writer[w].snap[d], answers[d], checked))
        BY <1>0, <4>1, BulkRowKeeps
      <4> QED BY <1>0, <3>2, <4>2 DEF KeepsRow
    <3> QED BY <3>1, <3>2
  <2>2. writer' = [writer EXCEPT ![w] = state]
    BY <1>2, Zenon DEF BulkProbed
  <2>3. table' = table /\ raced' = raced /\ ops' \in 0 .. MaxOps
    BY <1>0, <1>2 DEF BulkProbed
  <2> HIDE DEF result
  <2>4. results \in Tables /\ \A d \in Devices : Consistent(results[d])
    BY <2>1 DEF Tables
  <2> HIDE DEF results
  <2>5. state \in WriterStates /\ state.snap = writer[w].snap /\ state.scanned = results
    BY <1>0, <2>4 DEF WriterStates
  <2> HIDE DEF state
  <2> QED BY <1>0, <2>2, <2>3, <2>4, <2>5, LocalStep
<1>3. ASSUME NEW selected \in SUBSET Devices, BeginConfirm(w, selected) PROVE IInv'
  <2> DEFINE given == [d \in Devices |->
                          IF d \in selected THEN [NoRow EXCEPT !.num = 1] ELSE NoRow]
             state == [pc |-> "upsert", kind |-> "confirm", snap |-> Empty, todo |-> {},
                       scanned |-> given]
  <2>1. [NoRow EXCEPT !.num = 1] \in Rows /\ Consistent([NoRow EXCEPT !.num = 1])
    BY DEF NoRow, Rows, Consistent, Answers
  <2>2. given \in Tables /\ \A d \in Devices : Consistent(given[d])
    BY <2>1, IdleIsTyped, Zenon DEF Tables
  <2>3. /\ writer' = [writer EXCEPT ![w] = state]
        /\ table' = table /\ raced' = raced /\ ops' \in 0 .. MaxOps
    BY <1>0, <1>3 DEF BeginConfirm
  <2> HIDE DEF given
  <2>4. state \in WriterStates
    BY <2>2, IdleIsTyped DEF WriterStates
  <2>5. \A d \in Devices : Consistent(state.snap[d]) /\ Consistent(state.scanned[d])
    BY <1>0, <2>2
  <2> HIDE DEF state
  <2> QED BY <2>3, <2>4, <2>5, LocalStep
<1>4. CASE ReadExisting(w)
  <2> DEFINE state == [writer[w] EXCEPT !.pc = "commit", !.snap = table]
  <2>1. writer' = [writer EXCEPT ![w] = state]
    BY <1>4 DEF ReadExisting, IInv, TypeOK, WriterStates
  <2>2. table' = table /\ raced' = raced /\ ops' \in 0 .. MaxOps
    BY <1>0, <1>4 DEF ReadExisting
  <2>3. state \in WriterStates /\ state.snap = table /\ state.scanned = writer[w].scanned
    BY <1>0 DEF WriterStates
  <2> HIDE DEF state
  <2> QED BY <1>0, <2>1, <2>2, <2>3, LocalStep
<1>5. ASSUME NEW top \in {writer[w].snap[d].num : d \in Devices} \cup {0},
             NEW new \in [Unknown(w) -> Numbers], Commit(w, top, new)
      PROVE  IInv'
  <2>1. Numbers \subseteq Nat
    BY FS_CardinalityType DEF Numbers
  <2>2. top \in Nat
    BY <1>0 DEF Rows
  <2> QED BY <1>5, <2>1, <2>2, CommitIInv
<1>6. CASE Abandon(w)
  <2>1. \A d \in Devices : Consistent(IdleWriter.snap[d]) /\ Consistent(IdleWriter.scanned[d])
    BY <1>0 DEF IdleWriter
  <2>2. /\ writer' = [writer EXCEPT ![w] = IdleWriter]
        /\ table' = table /\ raced' = raced /\ ops' \in 0 .. MaxOps
    BY <1>0, <1>6 DEF Abandon
  <2> QED BY <2>1, <2>2, IdleIsTyped, LocalStep
<1> QED BY <1>1, <1>2, <1>3, <1>4, <1>5, <1>6 DEF FleetStep

-----------------------------------------------------------------------------
\* A forgotten device leaves fewer numbers and no status.
LEMMA ForgetIInv == ASSUME IInv, NEW d \in Devices, ForgetDevice(d) PROVE IInv'
<1>1. /\ table' = [table EXCEPT ![d] = NoRow]
      /\ writer' = writer /\ ops' = ops /\ raced' = raced
  BY DEF ForgetDevice
<1>2. \A e \in Devices : table'[e] = IF e = d THEN NoRow ELSE table[e]
  BY <1>1 DEF IInv, TypeOK, Tables
<1>3. TypeOK'
  BY <1>1, IdleIsTyped DEF IInv, TypeOK, Tables
<1>4. OfflineIffTwoMisses'
  BY <1>1, <1>2, IdleIsTyped DEF IInv, OfflineIffTwoMisses
<1>5. UniqueUnlessRaced'
  <2>1. NoRow.num = 0
    BY DEF NoRow
  <2> QED BY <1>1, <1>2, <2>1 DEF IInv, UniqueUnlessRaced, DistinctNumbers, Listed
<1> QED BY <1>3, <1>4, <1>5 DEF IInv

\* Every step keeps the invariant.
LEMMA NextIInv == IInv /\ [Next]_vars => IInv'
<1> SUFFICES ASSUME IInv, [Next]_vars PROVE IInv'
  OBVIOUS
<1>1. ASSUME NEW w \in Writers, SingleStep(w) \/ FleetStep(w) PROVE IInv'
  BY <1>1, SingleStepIInv, FleetStepIInv
<1>2. ASSUME NEW d \in Devices, ForgetDevice(d) PROVE IInv'
  BY <1>2, ForgetIInv
<1>3. CASE UNCHANGED vars
  BY <1>3 DEF vars, IInv, TypeOK, OfflineIffTwoMisses, UniqueUnlessRaced, DistinctNumbers, Listed
<1> QED BY <1>1, <1>2, <1>3 DEF Next

\* The inventory a process starts from satisfies it.
LEMMA InitIInv == Init => IInv
<1> SUFFICES ASSUME Init PROVE IInv
  OBVIOUS
<1>1. ASSUME NEW n \in Nat, NEW c \in 0 .. 1
      PROVE  FirstRow(n, c) \in Rows /\ Consistent(FirstRow(n, c))
  <2>1. FirstRow(n, c) \in Rows
    BY IdleIsTyped DEF FirstRow, Rows
  <2>2. FirstRow(n, c).misses = 0 /\ FirstRow(n, c).online = 1
    BY DEF FirstRow, NoRow
  <2> QED BY <2>1, <2>2 DEF Consistent
<1>2. table \in [Devices -> FirstRows] /\ DistinctNumbers(table)
  BY DEF Init
<1>3. writer = [v \in Writers |-> IdleWriter] /\ ops = 0 /\ raced \in BOOLEAN
  BY DEF Init
<1>4. table \in Tables /\ \A d \in Devices : Consistent(table[d])
  <2>1. 1 .. Cardinality(Devices) \subseteq Nat
    BY FS_CardinalityType
  <2>2. \A r \in FirstRows :
          r = NoRow \/ \E n \in 1 .. Cardinality(Devices), c \in 0 .. 1 : r = FirstRow(n, c)
    BY DEF FirstRows
  <2>3. \A r \in FirstRows : r \in Rows /\ Consistent(r)
    BY <1>1, <2>1, <2>2, IdleIsTyped
  <2> QED BY <1>2, <2>3 DEF Tables
<1>5. TypeOK
  <2>1. writer \in [Writers -> WriterStates]
    BY <1>3, IdleIsTyped
  <2> QED BY <1>3, <1>4, <2>1 DEF TypeOK
<1>6. OfflineIffTwoMisses
  BY <1>4, IdleIsTyped DEF Init, OfflineIffTwoMisses, IdleWriter, Empty
<1>7. UniqueUnlessRaced
  BY <1>2 DEF UniqueUnlessRaced
<1> QED BY <1>5, <1>6, <1>7 DEF IInv

\* Types, consistent status and unique numbers hold together, throughout.
THEOREM IInvHolds == Spec => []IInv
BY InitIInv, NextIInv, PTL DEF Spec

\* For every set of devices and writers: UpsertDevices never gives two devices
\* one number, unless some write rested on an outdated number.
THEOREM UniqueNumbers == Spec => []UniqueUnlessRaced
<1>1. IInv => UniqueUnlessRaced
  BY DEF IInv
<1> QED BY <1>1, IInvHolds, PTL

\* For every set of devices and writers: online and consecutive_misses agree
\* in the table and in every row on its way there.
THEOREM StatusFollowsMisses == Spec => []OfflineIffTwoMisses
<1>1. IInv => OfflineIffTwoMisses
  BY DEF IInv
<1> QED BY <1>1, IInvHolds, PTL

-----------------------------------------------------------------------------
\* One step: a device that stays in the table keeps its number, or the step
\* wrote over a number that had changed since it was read.
LEMMA StepKeepsNumber ==
    ASSUME IInv, [Next]_vars, NEW d \in Devices,
           table[d].num # 0, table'[d].num # 0, table'[d].num # table[d].num
    PROVE  raced'
<1>1. ASSUME NEW w \in Writers, NEW e \in Devices, NEW answer \in Answers,
             NEW checked \in BOOLEAN, WriteSingle(w, e, answer, checked)
      PROVE  raced'
  <2> DEFINE old == writer[w].snap[e]
             new == SingleRow(writer[w].kind, old, answer, checked)
  <2>1. old \in Rows
    BY DEF IInv, TypeOK, WriterStates, Tables
  <2>2. new.num = old.num
    BY <2>1, SingleRowKeeps DEF KeepsRow
  <2> HIDE DEF new
  <2>3. table' = [table EXCEPT ![e] = new] /\ (table[e].num # old.num => raced')
    BY <1>1 DEF WriteSingle, new
  <2>4. table'[d] = IF d = e THEN new ELSE table[d]
    BY <2>3 DEF IInv, TypeOK, Tables
  <2> QED BY <2>2, <2>3, <2>4
<1>2. ASSUME NEW w \in Writers, NEW top \in Nat, NEW new \in [Unknown(w) -> Nat],
             Commit(w, top, new)
      PROVE  raced'
  <2>1. table'[d].num = IF writer[w].snap[d].num # 0 THEN writer[w].snap[d].num
                        ELSE IF d \in Unknown(w) THEN new[d] ELSE table[d].num
    BY <1>2, CommittedRows
  <2>2. table[d].num # writer[w].snap[d].num => raced'
    BY <1>2 DEF Commit
  <2> QED BY <2>1, <2>2
<1>3. ASSUME NEW w \in Writers, NEW top \in {writer[w].snap[e].num : e \in Devices} \cup {0},
             NEW new \in [Unknown(w) -> Numbers], Commit(w, top, new)
      PROVE  raced'
  <2>1. Numbers \subseteq Nat
    BY FS_CardinalityType DEF Numbers
  <2>2. top \in Nat
    BY DEF IInv, TypeOK, WriterStates, Tables, Rows
  <2> QED BY <1>2, <1>3, <2>1, <2>2
<1>4. ASSUME NEW e \in Devices, ForgetDevice(e) PROVE FALSE
  <2>1. table'[d] = IF d = e THEN NoRow ELSE table[d]
    BY <1>4 DEF ForgetDevice, IInv, TypeOK, Tables
  <2> QED BY <2>1 DEF NoRow
<1>5. CASE table' = table
  BY <1>5
<1> QED BY <1>1, <1>3, <1>4, <1>5
        DEF Next, vars, SingleStep, FleetStep, BeginSingle, SkipSingle, BeginBulk, BulkProbed,
            BeginConfirm, ReadExisting, Abandon

\* For every set of devices and writers: a device keeps its number for as long
\* as it stays in the table, but for a write that rested on an outdated one.
THEOREM NumberKept == Spec => NumberKeptUnlessRaced
<1>1. IInv /\ [Next]_vars =>
        [\A d \in Devices : table[d].num # 0 /\ table'[d].num # 0 /\ table'[d].num # table[d].num
                              => raced']_vars
  BY StepKeepsNumber
<1> QED BY <1>1, IInvHolds, PTL DEF Spec, NumberKeptUnlessRaced

-----------------------------------------------------------------------------
(* What a write may lose and what it may claim.                            *)

\* The result of a firmware check that the row read has is in the row written.
KeepsCheck(old, new) == new.cache = 0 => old.cache = 0

\* A row that claims a success it did not hear was read as such.
Honest(old, new) == new.ok = 1 /\ new.heard # "ok" => old.ok = 1 /\ old.heard # "ok"

\* Setting the status columns of a row leaves the firmware columns alone.
LEMMA StatusColumns ==
    ASSUME NEW row \in Rows, NEW m, NEW o, NEW k, NEW h
    PROVE  /\ Status(row, m, o, k, h).cache = row.cache
           /\ Status(row, m, o, k, h).ok = k
           /\ Status(row, m, o, k, h).heard = h
BY DEF Rows, Status

\* A silence is recorded as one.
LEMMA MissedColumns ==
    ASSUME NEW row \in Rows
    PROVE  Missed(row).cache = row.cache /\ Missed(row).ok = 0
BY StatusColumns DEF Missed

\* An answer is recorded as heard.
LEMMA ReachedColumns ==
    ASSUME NEW row \in Rows, NEW answer \in Answers
    PROVE  /\ Reached(row, answer) \in Rows
           /\ Reached(row, answer).cache = row.cache
           /\ Reached(row, answer).heard = answer
           /\ Reached(row, answer).ok = 1 => answer = "ok"
<1> DEFINE k == BoolToInt(answer = "ok")
<1>1. k = 1 => answer = "ok"
  BY DEF BoolToInt
<1>2. Reached(row, answer) = Status(row, 0, 1, k, answer)
  BY DEF Reached
<1> HIDE DEF k
<1> QED BY <1>1, <1>2, StatusColumns, ReachedKeeps DEF KeepsRow

\* A row as UpsertDevices writes it claims what the row given has heard.
LEMMA StoredColumns ==
    ASSUME NEW row \in Rows, NEW n \in Nat, NEW c \in 0 .. 1
    PROVE  Stored(row, n, c).cache = c /\ Stored(row, n, c).heard = row.heard
<1> DEFINE r == [row EXCEPT !.num = n, !.cache = c]
<1>1. r \in Rows /\ r.cache = c
  BY DEF Rows
<1>2. Stored(row, n, c) = Status(r, 0, 1, 1, row.heard)
  BY DEF Stored
<1> HIDE DEF r
<1> QED BY <1>1, <1>2, StatusColumns

\* RefreshDevice loses no result and claims no success it did not hear,
LEMMA RefreshedRowHonest ==
    ASSUME NEW row \in Rows, NEW answer \in Answers, NEW checked \in BOOLEAN
    PROVE  /\ KeepsCheck(row, RefreshedRow(row, answer, checked))
           /\ Honest(row, RefreshedRow(row, answer, checked))
<1> DEFINE r == Reached(row, answer)
           c == BoolToInt(row.cache = 1 \/ checked)
<1>1. r \in Rows /\ r.cache = row.cache /\ r.heard = answer /\ (r.ok = 1 => answer = "ok")
  BY ReachedColumns
<1>2. c = 0 => row.cache # 1
  BY DEF BoolToInt
<1>3. row.cache \in 0 .. 1
  BY DEF Rows
<1>4. CASE answer = "ok"
  <2>1. RefreshedRow(row, answer, checked) = [r EXCEPT !.auth = 0, !.rich = 1, !.cache = c]
    BY <1>4, Zenon DEF RefreshedRow, Retrieved
  <2> HIDE DEF r, c
  <2>2. /\ RefreshedRow(row, answer, checked).cache = c
        /\ RefreshedRow(row, answer, checked).heard = "ok"
    BY <1>1, <1>4, <2>1 DEF Rows
  <2> QED BY <1>2, <1>3, <2>2 DEF KeepsCheck, Honest
<1>5. CASE answer = "silent"
  BY <1>5, MissedColumns DEF RefreshedRow, KeepsCheck, Honest
<1>6. CASE answer \in {"refuses", "badtls"}
  <2>1. \E a \in 0 .. 1 : RefreshedRow(row, answer, checked) = [r EXCEPT !.auth = a]
    BY <1>6 DEF RefreshedRow
  <2> HIDE DEF r
  <2>2. /\ RefreshedRow(row, answer, checked).cache = row.cache
        /\ RefreshedRow(row, answer, checked).ok = r.ok
    BY <1>1, <2>1 DEF Rows
  <2> QED BY <1>1, <1>6, <2>2 DEF KeepsCheck, Honest
<1> QED BY <1>4, <1>5, <1>6 DEF Answers

\* nor does the firmware_check job,
LEMMA CheckedRowHonest ==
    ASSUME NEW row \in Rows, NEW answer \in Answers
    PROVE  KeepsCheck(row, CheckedRow(row, answer)) /\ Honest(row, CheckedRow(row, answer))
<1> DEFINE r == Reached(row, answer)
           c == BoolToInt(row.cache = 1 \/ answer = "ok")
<1>1. r \in Rows /\ r.cache = row.cache /\ r.heard = answer /\ (r.ok = 1 => answer = "ok")
  BY ReachedColumns
<1>2. c = 0 => row.cache # 1
  BY DEF BoolToInt
<1>3. row.cache \in 0 .. 1
  BY DEF Rows
<1>4. CASE row.rich = 0
  BY <1>4 DEF CheckedRow, KeepsCheck, Honest
<1>5. CASE row.rich # 0 /\ answer = "silent"
  BY <1>5, MissedColumns DEF CheckedRow, KeepsCheck, Honest
<1>6. CASE row.rich # 0 /\ answer # "silent"
  <2>1. CheckedRow(row, answer) = [r EXCEPT !.cache = c]
    BY <1>6, Zenon DEF CheckedRow
  <2> HIDE DEF r, c
  <2>2. /\ CheckedRow(row, answer).cache = c
        /\ CheckedRow(row, answer).ok = r.ok /\ CheckedRow(row, answer).heard = r.heard
    BY <1>1, <2>1 DEF Rows
  <2> QED BY <1>1, <1>2, <1>3, <2>2 DEF KeepsCheck, Honest
<1> QED BY <1>4, <1>5, <1>6

\* nor any other operation on single rows, but for the check action, which
\* writes its failure too.
LEMMA SingleRowHonest ==
    ASSUME NEW kind, NEW row \in Rows, NEW answer \in Answers, NEW checked \in BOOLEAN
    PROVE  /\ kind # "action" => KeepsCheck(row, SingleRow(kind, row, answer, checked))
           /\ Honest(row, SingleRow(kind, row, answer, checked))
<1>1. CASE kind = "refresh"
  BY <1>1, RefreshedRowHonest DEF SingleRow
<1>2. CASE kind = "check"
  BY <1>2, CheckedRowHonest DEF SingleRow
<1>3. CASE kind = "action"
  <2> DEFINE c == BoolToInt(row.rich = 1 /\ answer = "ok")
  <2>1. SingleRow(kind, row, answer, checked) = [row EXCEPT !.cache = c]
    BY <1>3 DEF SingleRow
  <2> HIDE DEF c
  <2>2. /\ SingleRow(kind, row, answer, checked).ok = row.ok
        /\ SingleRow(kind, row, answer, checked).heard = row.heard
    BY <2>1 DEF Rows
  <2> QED BY <1>3, <2>2 DEF Honest
<1>4. CASE kind = "provision"
  <2>1. SingleRow(kind, row, answer, checked) = [row EXCEPT !.auth = 1]
    BY <1>4 DEF SingleRow
  <2>2. /\ SingleRow(kind, row, answer, checked).ok = row.ok
        /\ SingleRow(kind, row, answer, checked).heard = row.heard
        /\ SingleRow(kind, row, answer, checked).cache = row.cache
    BY <2>1 DEF Rows
  <2> QED BY <2>2 DEF KeepsCheck, Honest
<1>5. CASE kind \notin {"refresh", "check", "action", "provision"}
  BY <1>5 DEF SingleRow, KeepsCheck, Honest
<1> QED BY <1>1, <1>2, <1>3, <1>4, <1>5

\* A device that is not in the table has no result of a firmware check.
AbsentRows(t) == \A d \in Devices : t[d].num = 0 => t[d].cache = 0

\* What a writer holds: a single operation works on rows it has read, and what
\* ConfirmScan hands to UpsertDevices has answered in full.
Sound(state) ==
    /\ AbsentRows(state.snap)
    /\ state.pc = "single" => state.todo \subseteq Listed(state.snap)
    /\ state.pc = "probing" => state.kind = "bulk"
    /\ state.pc \in {"upsert", "commit"} /\ state.kind # "bulk" =>
          \A d \in Devices : state.scanned[d].heard = "ok"

\* The second inductive invariant.
WritersSound == AbsentRows(table) /\ \A w \in Writers : Sound(writer[w])

\* A step of one writer.
LEMMA WriterMoves ==
    ASSUME IInv, WritersSound, AbsentRows(table'), NEW w \in Writers, NEW state, Sound(state),
           writer' = [writer EXCEPT ![w] = state]
    PROVE  WritersSound'
<1>1. \A v \in Writers : writer'[v] = IF v = w THEN state ELSE writer[v]
  BY DEF IInv, TypeOK
<1>2. \A v \in Writers : Sound(writer'[v])
  BY <1>1 DEF WritersSound
<1>3. AbsentRows(table)' /\ \A v \in Writers : Sound(writer[v])'
  BY <1>2 DEF AbsentRows, Sound, Listed
<1> QED BY <1>3 DEF WritersSound

\* A writer at rest holds nothing.
LEMMA IdleIsSound ==
    AbsentRows(Empty) /\ Sound(IdleWriter) /\ NoRow.num = 0 /\ NoRow.cache = 0 /\ NoRow.heard = "ok"
BY DEF Empty, NoRow, AbsentRows, IdleWriter, Sound

\* A writer that is through with a device holds what it held, or nothing.
LEMMA OnwardIsSound ==
    ASSUME IInv, WritersSound, NEW w \in Writers, NEW d \in writer[w].todo, writer[w].pc = "single"
    PROVE  Sound(Onward(w, d)) /\ Onward(w, d) # writer[w]
<1>1. writer[w] \in WriterStates /\ Sound(writer[w])
  BY DEF IInv, TypeOK, WritersSound
<1>2. CASE writer[w].todo = {d}
  <2>1. Onward(w, d) = IdleWriter /\ IdleWriter.pc = "idle"
    BY <1>2 DEF Onward, IdleWriter
  <2> QED BY <2>1, IdleIsSound
<1>3. CASE writer[w].todo # {d}
  <2> DEFINE new == [writer[w] EXCEPT !.todo = writer[w].todo \ {d}]
  <2>1. Onward(w, d) = new
    BY <1>1, <1>3 DEF Onward, WriterStates
  <2>2. /\ new.pc = writer[w].pc /\ new.snap = writer[w].snap /\ new.kind = writer[w].kind
        /\ new.todo = writer[w].todo \ {d} /\ new.scanned = writer[w].scanned
    BY <1>1 DEF WriterStates
  <2> HIDE DEF new
  <2> QED BY <1>1, <2>1, <2>2 DEF Sound
<1> QED BY <1>2, <1>3

\* The row that a single operation writes.
LEMMA SingleWrites ==
    ASSUME IInv, WritersSound, NEW w \in Writers, NEW e \in Devices, NEW answer \in Answers,
           NEW checked \in BOOLEAN, WriteSingle(w, e, answer, checked)
    PROVE  /\ \A d \in Devices \ {e} : table'[d] = table[d]
           /\ table'[e].num # 0
           /\ writer[w].kind # "action" => KeepsCheck(writer[w].snap[e], table'[e])
           /\ Honest(writer[w].snap[e], table'[e])
           /\ writer'[w] # writer[w]
<1> DEFINE old == writer[w].snap[e]
           new == SingleRow(writer[w].kind, old, answer, checked)
<1>1. old \in Rows /\ table \in Tables /\ writer \in [Writers -> WriterStates]
  BY DEF IInv, TypeOK, WriterStates, Tables
<1>2. old.num # 0
  BY DEF WriteSingle, WritersSound, Sound, Listed
<1>3. /\ new.num = old.num /\ Honest(old, new)
      /\ writer[w].kind # "action" => KeepsCheck(old, new)
  BY <1>1, SingleRowKeeps, SingleRowHonest DEF KeepsRow
<1> HIDE DEF new
<1>4. table' = [table EXCEPT ![e] = new]
  BY DEF WriteSingle, new
<1>5. table'[e] = new /\ \A d \in Devices \ {e} : table'[d] = table[d]
  BY <1>1, <1>4 DEF Tables
<1>6. writer'[w] = Onward(w, e) /\ Onward(w, e) # writer[w]
  BY <1>1, OnwardIsSound DEF WriteSingle
<1> QED BY <1>2, <1>3, <1>5, <1>6

\* The rows that UpsertDevices writes: what was known of the firmware stays,
\* and a success is claimed of the devices it was given.
LEMMA CommitWrites ==
    ASSUME IInv, WritersSound, NEW w \in Writers, NEW top \in Nat, NEW new \in [Unknown(w) -> Nat],
           Commit(w, top, new), NEW d \in Devices
    PROVE  /\ table'[d].num = 0 => table'[d] = table[d]
           /\ table'[d] # table[d] => KeepsCheck(writer[w].snap[d], table'[d])
           /\ table'[d] # table[d] /\ table'[d].ok = 1 /\ table'[d].heard # "ok" => writer[w].kind = "bulk"
           /\ writer'[w] # writer[w]
<1> DEFINE old == writer[w].snap[d]
           row == writer[w].scanned[d]
           num == IF d \in Unknown(w) THEN new[d] ELSE 0
<1>1. old \in Rows /\ row \in Rows /\ table[d] \in Rows /\ num \in Nat
  BY DEF IInv, TypeOK, WriterStates, Tables
<1>2. table'[d] = IF d \in Listed(writer[w].scanned) THEN UpsertedRow(old, row, num)
                  ELSE IF d \in Listed(writer[w].snap) THEN Missed(old) ELSE table[d]
  BY Zenon DEF Commit
<1>3. Sound(writer[w]) /\ writer[w].pc = "commit" /\ (d \in Unknown(w) => num > 0)
  BY DEF WritersSound, Commit
<1>4. writer'[w] # writer[w]
  BY <1>3 DEF Commit, IInv, TypeOK, IdleWriter
<1>5. old.num = 0 => old.cache = 0
  BY <1>3 DEF Sound, AbsentRows
<1>6. CASE d \in Listed(writer[w].scanned)
  <2>1. table'[d] = UpsertedRow(old, row, num)
    BY <1>2, <1>6
  <2>2. d \in Unknown(w) <=> old.num = 0
    BY <1>6 DEF Unknown, Listed
  <2> HIDE DEF num
  <2>3. table'[d].num # 0
    <3> HIDE DEF old, row
    <3>1. UpsertedRow(old, row, num).num = IF old.num # 0 THEN old.num ELSE num
      BY <1>1, UpsertedRowIs
    <3>2. old.num = 0 => num > 0
      BY <1>3, <2>2
    <3> QED BY <1>1, <2>1, <3>1, <3>2
  <2>4. KeepsCheck(old, table'[d]) /\ table'[d].heard = row.heard
    <3>1. old.num \in Nat /\ old.cache \in 0 .. 1 /\ row.cache \in 0 .. 1
      BY <1>1 DEF Rows
    <3>2. CASE old.num # 0
      BY <1>1, <2>1, <3>1, <3>2, StoredColumns DEF UpsertedRow, KeepsCheck
    <3>3. CASE old.num = 0
      BY <1>1, <1>5, <2>1, <3>1, <3>3, StoredColumns DEF UpsertedRow, KeepsCheck
    <3> QED BY <3>2, <3>3
  <2>5. writer[w].kind # "bulk" => row.heard = "ok"
    BY <1>3 DEF Sound
  <2> QED BY <1>4, <2>3, <2>4, <2>5
<1>7. CASE d \notin Listed(writer[w].scanned) /\ d \in Listed(writer[w].snap)
  <2>1. table'[d] = Missed(old) /\ old.num # 0
    BY <1>2, <1>7 DEF Listed
  <2>2. Missed(old).num = old.num /\ Missed(old).cache = old.cache /\ Missed(old).ok = 0
    BY <1>1, MissedKeeps, MissedColumns DEF KeepsRow
  <2> QED BY <1>4, <2>1, <2>2 DEF KeepsCheck
<1>8. CASE d \notin Listed(writer[w].scanned) /\ d \notin Listed(writer[w].snap)
  BY <1>2, <1>4, <1>8
<1> QED BY <1>6, <1>7, <1>8

\* The steps of the operations on single rows keep the second invariant,
LEMMA SingleIsSound ==
    ASSUME IInv, WritersSound, NEW w \in Writers, SingleStep(w)
    PROVE  WritersSound'
<1>1. ASSUME NEW kind \in SingleKinds, NEW targets \in SUBSET Devices, BeginSingle(w, kind, targets)
      PROVE  WritersSound'
  <2> DEFINE state == [pc |-> "single", kind |-> kind, snap |-> table, todo |-> targets, scanned |-> Empty]
  <2>1. targets \subseteq Listed(table) /\ table' = table
    BY <1>1 DEF BeginSingle, Eligible, Listed
  <2>2. Sound(state)
    BY <2>1 DEF Sound, WritersSound
  <2>3. writer' = [writer EXCEPT ![w] = state]
    BY <1>1 DEF BeginSingle
  <2> HIDE DEF state
  <2> QED BY <2>1, <2>2, <2>3, WriterMoves DEF WritersSound
<1>2. ASSUME NEW d \in Devices, NEW answer \in Answers, NEW checked \in BOOLEAN,
             WriteSingle(w, d, answer, checked)
      PROVE  WritersSound'
  <2>1. AbsentRows(table')
    BY <1>2, SingleWrites DEF WritersSound, AbsentRows
  <2>2. Sound(Onward(w, d)) /\ writer' = [writer EXCEPT ![w] = Onward(w, d)]
    BY <1>2, OnwardIsSound DEF WriteSingle
  <2> QED BY <2>1, <2>2, WriterMoves
<1>3. ASSUME NEW d \in Devices, SkipSingle(w, d) PROVE WritersSound'
  <2>1. Sound(Onward(w, d)) /\ writer' = [writer EXCEPT ![w] = Onward(w, d)] /\ table' = table
    BY <1>3, OnwardIsSound DEF SkipSingle
  <2> QED BY <2>1, WriterMoves DEF WritersSound
<1> QED BY <1>1, <1>2, <1>3 DEF SingleStep

\* a commit of UpsertDevices with numbers of the model as well,
LEMMA CommitNumbers ==
    ASSUME IInv, NEW w \in Writers, NEW top \in {writer[w].snap[d].num : d \in Devices} \cup {0},
           NEW new \in [Unknown(w) -> Numbers]
    PROVE  top \in Nat /\ new \in [Unknown(w) -> Nat]
<1>1. Numbers \subseteq Nat
  BY FS_CardinalityType DEF Numbers
<1>2. top \in Nat
  BY DEF IInv, TypeOK, WriterStates, Tables, Rows
<1> QED BY <1>1, <1>2

\* and the operations on the fleet.
LEMMA FleetIsSound ==
    ASSUME IInv, WritersSound, NEW w \in Writers, FleetStep(w)
    PROVE  WritersSound'
<1>0. writer[w] \in WriterStates /\ Sound(writer[w]) /\ AbsentRows(table)
  BY DEF IInv, TypeOK, WritersSound
<1>1. CASE BeginBulk(w)
  <2> DEFINE state == [pc |-> "probing", kind |-> "bulk", snap |-> table, todo |-> {},
                       scanned |-> Empty]
  <2>1. Sound(state)
    BY <1>0 DEF Sound
  <2>2. writer' = [writer EXCEPT ![w] = state] /\ table' = table
    BY <1>1 DEF BeginBulk
  <2> HIDE DEF state
  <2> QED BY <1>0, <2>1, <2>2, WriterMoves
<1>2. ASSUME NEW answers, NEW checked, BulkProbed(w, answers, checked) PROVE WritersSound'
  <2> DEFINE results == [d \in Devices |->
                            IF writer[w].snap[d].num = 0 THEN NoRow
                            ELSE BulkRow(writer[w].snap[d], answers[d], checked)]
             state == [writer[w] EXCEPT !.pc = "upsert", !.scanned = results]
  <2>1. writer' = [writer EXCEPT ![w] = state] /\ table' = table /\ writer[w].pc = "probing"
    BY <1>2, Zenon DEF BulkProbed
  <2> HIDE DEF results
  <2>2. state.pc = "upsert" /\ state.kind = writer[w].kind /\ state.snap = writer[w].snap
    BY <1>0 DEF WriterStates
  <2> HIDE DEF state
  <2>3. Sound(state)
    BY <1>0, <2>1, <2>2 DEF Sound
  <2> QED BY <1>0, <2>1, <2>3, WriterMoves
<1>3. ASSUME NEW selected, BeginConfirm(w, selected) PROVE WritersSound'
  <2> DEFINE given == [d \in Devices |->
                          IF d \in selected THEN [NoRow EXCEPT !.num = 1] ELSE NoRow]
             state == [pc |-> "upsert", kind |-> "confirm", snap |-> Empty, todo |-> {},
                       scanned |-> given]
  <2>1. \A d \in Devices : given[d].heard = "ok"
    BY DEF NoRow
  <2>2. writer' = [writer EXCEPT ![w] = state] /\ table' = table
    BY <1>3 DEF BeginConfirm
  <2> HIDE DEF given
  <2>3. Sound(state)
    BY <2>1, IdleIsSound DEF Sound
  <2> HIDE DEF state
  <2> QED BY <1>0, <2>2, <2>3, WriterMoves
<1>4. CASE ReadExisting(w)
  <2> DEFINE state == [writer[w] EXCEPT !.pc = "commit", !.snap = table]
  <2>1. writer' = [writer EXCEPT ![w] = state] /\ table' = table /\ writer[w].pc = "upsert"
    BY <1>4 DEF ReadExisting, IInv, TypeOK, WriterStates
  <2>2. /\ state.pc = "commit" /\ state.snap = table /\ state.kind = writer[w].kind
        /\ state.scanned = writer[w].scanned
    BY <1>0 DEF WriterStates
  <2> HIDE DEF state
  <2>3. Sound(state)
    BY <1>0, <2>1, <2>2 DEF Sound
  <2> QED BY <1>0, <2>1, <2>3, WriterMoves
<1>5. ASSUME NEW top \in {writer[w].snap[d].num : d \in Devices} \cup {0},
             NEW new \in [Unknown(w) -> Numbers], Commit(w, top, new)
      PROVE  WritersSound'
  <2>1. \A d \in Devices : table'[d].num = 0 => table'[d] = table[d]
    BY <1>5, CommitNumbers, CommitWrites
  <2>2. AbsentRows(table')
    BY <1>0, <2>1 DEF AbsentRows
  <2> QED BY <1>5, <2>2, IdleIsSound, WriterMoves DEF Commit
<1>6. CASE Abandon(w)
  <2>1. writer' = [writer EXCEPT ![w] = IdleWriter] /\ table' = table
    BY <1>6 DEF Abandon
  <2> QED BY <1>0, <2>1, IdleIsSound, WriterMoves
<1> QED BY <1>1, <1>2, <1>3, <1>4, <1>5, <1>6 DEF FleetStep

\* What the writers hold is sound in every reachable state.
THEOREM WritersAreSound == Spec => []WritersSound
<1>1. Init => WritersSound
  <2> SUFFICES ASSUME Init PROVE WritersSound
    OBVIOUS
  <2>1. \A r \in FirstRows : r.num = 0 => r.cache = 0
    <3>1. ASSUME NEW n \in 1 .. Cardinality(Devices), NEW c \in 0 .. 1 PROVE FirstRow(n, c).num # 0
      <4>1. FirstRow(n, c).num = n
        BY DEF FirstRow, NoRow
      <4> QED BY <4>1
    <3> QED BY <3>1, IdleIsSound DEF FirstRows
  <2>2. AbsentRows(table)
    BY <2>1 DEF Init, AbsentRows
  <2> QED BY <2>2, IdleIsSound DEF Init, WritersSound
<1>2. ASSUME IInv, WritersSound, [Next]_vars PROVE WritersSound'
  <2>1. ASSUME NEW w \in Writers, SingleStep(w) \/ FleetStep(w) PROVE WritersSound'
    BY <1>2, <2>1, SingleIsSound, FleetIsSound
  <2>2. ASSUME NEW d \in Devices, ForgetDevice(d) PROVE WritersSound'
    <3>1. \A e \in Devices : table'[e] = IF e = d THEN NoRow ELSE table[e]
      BY <1>2, <2>2 DEF ForgetDevice, IInv, TypeOK, Tables
    <3>2. AbsentRows(table)'
      BY <1>2, <3>1, IdleIsSound DEF AbsentRows, WritersSound
    <3> QED BY <1>2, <2>2, <3>2 DEF ForgetDevice, WritersSound, Sound, AbsentRows, Listed
  <2>3. CASE UNCHANGED vars
    BY <1>2, <2>3 DEF vars, WritersSound, Sound, AbsentRows, Listed
  <2> QED BY <1>2, <2>1, <2>2, <2>3 DEF Next
<1> QED BY <1>1, <1>2, IInvHolds, PTL DEF Spec

-----------------------------------------------------------------------------
\* One step: a result of a firmware check is lost to the check action, or to a
\* row that was read before.
LEMMA StepKeepsCheck ==
    ASSUME IInv, WritersSound, [Next]_vars, NEW d \in Devices, table[d].num # 0, table[d].cache = 1,
           table'[d].num # 0, table'[d].cache = 0
    PROVE  \E w \in Writers : /\ writer'[w] # writer[w]
                              /\ writer[w].kind = "action" \/ writer[w].snap[d].cache = 0
<1>0. table'[d] # table[d]
  OBVIOUS
<1>1. ASSUME NEW w \in Writers, NEW e \in Devices, NEW answer \in Answers, NEW checked \in BOOLEAN,
             WriteSingle(w, e, answer, checked)
      PROVE  /\ writer'[w] # writer[w]
             /\ writer[w].kind = "action" \/ writer[w].snap[d].cache = 0
  BY <1>0, <1>1, SingleWrites DEF KeepsCheck
<1>2. ASSUME NEW w \in Writers, NEW top \in {writer[w].snap[e].num : e \in Devices} \cup {0},
             NEW new \in [Unknown(w) -> Numbers], Commit(w, top, new)
      PROVE  writer'[w] # writer[w] /\ writer[w].snap[d].cache = 0
  BY <1>0, <1>2, CommitNumbers, CommitWrites DEF KeepsCheck
<1>3. ASSUME NEW e \in Devices, ForgetDevice(e) PROVE FALSE
  <2>1. table'[d] = IF d = e THEN NoRow ELSE table[d]
    BY <1>3 DEF ForgetDevice, IInv, TypeOK, Tables
  <2> QED BY <1>0, <2>1, IdleIsSound
<1>4. table' # table
  BY <1>0
<1> QED BY <1>1, <1>2, <1>3, <1>4
        DEF Next, vars, SingleStep, FleetStep, BeginSingle, SkipSingle, BeginBulk, BulkProbed,
            BeginConfirm, ReadExisting, Abandon

\* For every set of devices and writers: the result of a firmware check is lost
\* only to the firmware_check action of one device, which writes its failure
\* too, or to a row read before the check was done.  Neither a bulk refresh nor
\* a failed check job takes it away.
THEOREM CheckIsKept == Spec => CacheLostOnlyTo
<1>1. IInv /\ WritersSound /\ [Next]_vars =>
        [\A d \in Devices :
            /\ table[d].num # 0 /\ table[d].cache = 1
            /\ table'[d].num # 0 /\ table'[d].cache = 0
            => \E w \in Writers : /\ writer'[w] # writer[w]
                                  /\ writer[w].kind = "action" \/ writer[w].snap[d].cache = 0]_vars
  BY StepKeepsCheck
<1> QED BY <1>1, IInvHolds, WritersAreSound, PTL DEF Spec, CacheLostOnlyTo

\* One step: a success that was not heard is written by a bulk refresh, or was
\* read.
LEMMA StepIsHonest ==
    ASSUME IInv, WritersSound, [Next]_vars, NEW d \in Listed(table'),
           table'[d] # table[d], table'[d].ok = 1, table'[d].heard # "ok"
    PROVE  \E w \in Writers : /\ writer'[w] # writer[w]
                              /\ \/ writer[w].kind = "bulk"
                                 \/ writer[w].snap[d].ok = 1 /\ writer[w].snap[d].heard # "ok"
<1>0. d \in Devices
  BY DEF Listed
<1>1. ASSUME NEW w \in Writers, NEW e \in Devices, NEW answer \in Answers, NEW checked \in BOOLEAN,
             WriteSingle(w, e, answer, checked)
      PROVE  /\ writer'[w] # writer[w]
             /\ writer[w].snap[d].ok = 1 /\ writer[w].snap[d].heard # "ok"
  BY <1>0, <1>1, SingleWrites DEF Honest
<1>2. ASSUME NEW w \in Writers, NEW top \in {writer[w].snap[e].num : e \in Devices} \cup {0},
             NEW new \in [Unknown(w) -> Numbers], Commit(w, top, new)
      PROVE  writer'[w] # writer[w] /\ writer[w].kind = "bulk"
  BY <1>0, <1>2, CommitNumbers, CommitWrites
<1>3. ASSUME NEW e \in Devices, ForgetDevice(e) PROVE FALSE
  <2>1. table'[d] = IF d = e THEN NoRow ELSE table[d]
    BY <1>0, <1>3 DEF ForgetDevice, IInv, TypeOK, Tables
  <2> QED BY <2>1, IdleIsSound
<1>4. table' # table
  OBVIOUS
<1> QED BY <1>1, <1>2, <1>3, <1>4
        DEF Next, vars, SingleStep, FleetStep, BeginSingle, SkipSingle, BeginBulk, BulkProbed,
            BeginConfirm, ReadExisting, Abandon

\* For every set of devices and writers: a row claims a success that was not
\* heard only where a bulk refresh has written it, or a writer that read such a
\* row and left its status alone.
THEOREM FalseOkIsFromBulk == Spec => FalseOkOnlyFromBulk
<1>1. IInv /\ WritersSound /\ [Next]_vars =>
        [\A d \in Listed(table') :
            table'[d] # table[d] /\ table'[d].ok = 1 /\ table'[d].heard # "ok"
            => \E w \in Writers :
                 /\ writer'[w] # writer[w]
                 /\ \/ writer[w].kind = "bulk"
                    \/ writer[w].snap[d].ok = 1 /\ writer[w].snap[d].heard # "ok"]_vars
  BY StepIsHonest
<1> QED BY <1>1, IInvHolds, WritersAreSound, PTL DEF Spec, FalseOkOnlyFromBulk
=============================================================================
