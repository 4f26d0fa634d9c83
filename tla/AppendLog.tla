----------------------------- MODULE AppendLog ------------------------------
(***************************************************************************)
(* What the audit log promises: rows are appended one at a time, each      *)
(* after all the others and tied to the row that was last when it was      *)
(* written; rows may be forgotten, but what is kept is neither altered nor *)
(* reordered, and nothing is slipped in between.                           *)
(***************************************************************************)
EXTENDS Naturals

CONSTANT Ids       \* positions in the log
VARIABLE kept      \* the rows: [id, prev]

\* s is the id of the last row, or the log is empty and s is 0.
IsLast(s, rows) ==
    \/ rows = {} /\ s = 0
    \/ \E row \in rows : row.id = s /\ \A other \in rows : other.id <= s

Init == kept = {}

AppendRow(id) ==
    /\ \A row \in kept : row.id < id
    /\ \E last \in Ids \cup {0} :
         IsLast(last, kept) /\ kept' = kept \cup {[id |-> id, prev |-> last]}

Forget(gone) == kept' = {row \in kept : row.id \notin gone}

Next ==
    \/ \E id \in Ids : AppendRow(id)
    \/ \E gone \in SUBSET Ids : Forget(gone)

Spec == Init /\ [][Next]_kept
=============================================================================
