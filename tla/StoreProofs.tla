---------------------------- MODULE StoreProofs -----------------------------
(***************************************************************************)
(* Proofs about what the database keeps: the sealed values, credentials and *)
(* groups of Vault, and the rows of Audit.                                  *)
(*                                                                          *)
(* Vault, for every number of requests and of keys: the sealed values stay  *)
(* under one key, references and assignments find what they name, and       *)
(* rotate-key copies a whole database.  None of the three invariants is     *)
(* inductive.  Agreement of the keys needs that a rotation beside a server  *)
(* knows of it; completeness of the copy needs to know where the WAL has    *)
(* been folded; the two referential ones need what a request has found out  *)
(* before it writes.                                                        *)
(*                                                                          *)
(* Audit, for any number of writers, rows and days: the rows are in the     *)
(* order of their times, no link breaks in the middle, and the log          *)
(* implements AppendLog.  Order and chain rest on the snapshot of the       *)
(* transaction: a writer that may still insert has read the row that is     *)
(* last now, and its time is not before any row's.                          *)
(***************************************************************************)
EXTENDS Vault, Audit, WellFoundedInduction, TLAPS

-----------------------------------------------------------------------------
(* Vault.                                                                  *)

\* Requests are in flight only while the server is up.
InFlight == \A r \in Requests : req[r].pc # "idle" => Up

\* A rotation that may still write beside a server is marked as such.
RotationIsWatched == Up /\ rotation.pc \in {"checked", "backedUp"} => rotation.live = 1

\* A rotation that has started seals with a key.
RotationHasKeys == rotation.pc # "idle" => rotation.to \in Keys

\* No process has written since the last one that had the database open closed
\* it or was killed.
Quiet == (rotation.pc = "idle" /\ ~Up) \/ (rotation.pc = "checked" /\ rotation.live = 0)
WalIsFolded == Quiet => wal # "dirty"

\* The second conjunct of KeyAgreement.
OneKey == ~mishap => \E key \in Keys : KeysInUse \subseteq {key} /\ (Up => key = server)

\* What a template save and a credential delete have found holds until they write.
RefsHold ==
    "ref" \notin raced =>
        /\ template = "ref" => sealed["credential"] # None
        /\ \A r \in Requests :
             /\ req[r].pc = "saveRef" => sealed["credential"] # None
             /\ req[r].pc \in {"dropCredential", "dropMirror"} => template # "ref"

\* An import that assigns the device brings the group and drops none.
Bundles == \A r \in Requests : req[r].assign = 1 => req[r].group = 1 /\ req[r].drop = 0

\* The request relies on the group being there.
Counting(r) ==
    \/ req[r].pc = "assign"
    \/ req[r].pc \in {"importMirror", "importDrop", "importAssign"} /\ req[r].assign = 1

\* What an assignment and an import have found holds until they write.
GroupsHold ==
    "group" \notin raced =>
        /\ assigned = "set" => sealed["group"] # None
        /\ \A r \in Requests : Counting(r) => sealed["group"] # None

\* The inductive invariant.
Inv ==
    /\ TypeOK /\ InFlight
    /\ RotationIsWatched /\ RotationHasKeys /\ WalIsFolded
    /\ OneKey /\ RefsHold /\ Bundles /\ GroupsHold

-----------------------------------------------------------------------------
\* The next statement of a request: its bundle stays as it is, unless the request
\* ends, and the other requests are not touched.
LEMMA GotoMoves ==
    ASSUME TypeOK, NEW r \in Requests, NEW pc \in Statements, Goto(r, pc)
    PROVE  /\ req' \in [Requests -> ReqState]
           /\ req'[r].pc = pc
           /\ req'[r].assign \in {0, req[r].assign}
           /\ pc # "idle" => /\ req'[r].group = req[r].group
                             /\ req'[r].assign = req[r].assign
                             /\ req'[r].drop = req[r].drop
           /\ pc = "idle" => req'[r] = IdleReq
           /\ \A o \in Requests \ {r} : req'[o] = req[o]
<1>1. IdleReq \in ReqState
    BY DEF IdleReq, ReqState, Statements
<1>2. req \in [Requests -> ReqState] /\ req[r] \in ReqState
    BY DEF TypeOK
<1>3. CASE pc = "idle"
    BY <1>1, <1>2, <1>3 DEF Goto, IdleReq
<1>4. CASE pc # "idle"
    <2>1. req' = [req EXCEPT ![r] = [req[r] EXCEPT !.pc = pc]]
        BY <1>2, <1>4 DEF Goto
    <2>2. req'[r] = [req[r] EXCEPT !.pc = pc] /\ \A o \in Requests \ {r} : req'[o] = req[o]
        BY <2>1, <1>2
    <2>. QED  BY <2>1, <2>2, <1>2, <1>4 DEF ReqState
<1>. QED  BY <1>3, <1>4

\* Every statement, and every step of the server and of rotate-key, keeps the types.
LEMMA TypeStep == TypeOK /\ [Next]_vars => TypeOK'
<1> SUFFICES ASSUME TypeOK, [Next]_vars PROVE TypeOK'
    OBVIOUS
<1> USE DEF TypeOK, Columns, Unsealed, catalog, process, Committed
<1>1. ASSUME NEW r \in Requests, SaveCredential(r) PROVE TypeOK'
    BY <1>1 DEF SaveCredential, Arrives, Up
<1>2. ASSUME NEW r \in Requests, BeginDelete(r) PROVE TypeOK'
    BY <1>2, GotoMoves DEF BeginDelete, Arrives, Up, Statements
<1>3. ASSUME NEW r \in Requests, DropCredential(r) PROVE TypeOK'
    BY <1>3, GotoMoves DEF DropCredential, DeletesCredential, Statements
<1>4. ASSUME NEW r \in Requests, DropGroup(r) PROVE TypeOK'
    BY <1>4, GotoMoves DEF DropGroup, DeletesGroup, AssignmentsWithoutGroup, Statements
<1>5. ASSUME NEW r \in Requests, SaveGroup(r) PROVE TypeOK'
    BY <1>5, GotoMoves DEF SaveGroup, Arrives, Up, Statements
<1>6. ASSUME NEW r \in Requests, SaveMirror(r) PROVE TypeOK'
    BY <1>6, GotoMoves DEF SaveMirror, Statements
<1>7. ASSUME NEW r \in Requests, BeginSaveTemplate(r) PROVE TypeOK'
    BY <1>7, GotoMoves DEF BeginSaveTemplate, Statements
<1>8. ASSUME NEW r \in Requests, SaveTemplateRef(r) PROVE TypeOK'
    BY <1>8, GotoMoves DEF SaveTemplateRef, SavesRef, Statements
<1>9. ASSUME NEW r \in Requests, SaveOrDeleteTemplate(r) PROVE TypeOK'
    BY <1>9 DEF SaveOrDeleteTemplate
<1>10. ASSUME NEW r \in Requests, BeginAssign(r) PROVE TypeOK'
    BY <1>10, GotoMoves DEF BeginAssign, Statements
<1>11. ASSUME NEW r \in Requests, Assign(r) PROVE TypeOK'
    BY <1>11, GotoMoves DEF Assign, Statements
<1>12. ASSUME NEW r \in Requests, Unassign(r) PROVE TypeOK'
    BY <1>12 DEF Unassign
<1>13. ASSUME NEW r \in Requests, SaveSettings(r) PROVE TypeOK'
    BY <1>13 DEF SaveSettings
<1>14. ASSUME NEW r \in Requests, SetTotp(r) PROVE TypeOK'
    BY <1>14 DEF SetTotp
<1>15. ASSUME NEW r \in Requests, BeginImport(r) PROVE TypeOK'
    BY <1>15 DEF BeginImport, ImportableTokens, Statements, ReqState
<1>16. ASSUME NEW r \in Requests, ImportTemplate(r) PROVE TypeOK'
    BY <1>16, GotoMoves DEF ImportTemplate, ImportedTemplate, Statements
<1>17. ASSUME NEW r \in Requests, SkipImportStep(r) PROVE TypeOK'
    BY <1>17, GotoMoves DEF SkipImportStep, Statements
<1>18. ASSUME NEW r \in Requests, ImportAssignments(r) PROVE TypeOK'
    BY <1>18, GotoMoves DEF ImportAssignments, Statements
<1>19. ASSUME NEW r \in Requests, StatementFails(r) PROVE TypeOK'
    BY <1>19, GotoMoves DEF StatementFails, Statements
<1>20. CASE Boot
    BY <1>20 DEF Boot, RotationState
<1>21. CASE Stop
    BY <1>21 DEF Stop, WalAfterStop, IdleReq, Statements, ReqState
<1>22. CASE Crash
    BY <1>22 DEF Crash, Left, IdleReq, Statements, ReqState
<1>23. CASE LockTurnsStale \/ Heartbeat \/ SwitchKey
    BY <1>23 DEF LockTurnsStale, Heartbeat, SwitchKey
<1>24. CASE RotateStarts
    <2>1. rotation' \in RotationState
        BY <1>24 DEF RotateStarts, RotationState
    <2>. QED  BY <1>24, <2>1 DEF RotateStarts
<1>25. CASE RotateBacksUp
    BY <1>25 DEF RotateBacksUp, RotationState
<1>26. CASE RotateCommits
    BY <1>26 DEF RotateCommits, Rotated, RotationState
<1>27. CASE RotateRefused
    BY <1>27 DEF RotateRefused, RotationState
<1>28. CASE RotateEnds
    BY <1>28 DEF RotateEnds, NoRotation, Left, RotationState
<1>29. CASE UNCHANGED vars
    BY <1>29 DEF vars
<1>. QED
    BY <1>1, <1>2, <1>3, <1>4, <1>5, <1>6, <1>7, <1>8, <1>9, <1>10, <1>11, <1>12, <1>13, <1>14, <1>15,
       <1>16, <1>17, <1>18, <1>19, <1>20, <1>21, <1>22, <1>23, <1>24, <1>25, <1>26, <1>27, <1>28, <1>29
       DEF Next, RequestStep

\* What no statement of a request does: write while the server is down, seal with
\* another key than the server's, touch the rotation, or remove a credential or a
\* group except in the DELETE of those tables.
LEMMA RequestFrame ==
    ASSUME TypeOK, InFlight, NEW r \in Requests, RequestStep(r)
    PROVE  /\ Up /\ server' = server /\ rotation' = rotation /\ mishap' = mishap
           /\ \A c \in Columns : sealed'[c] \in {sealed[c], server} \cup Unsealed
           /\ sealed["credential"] # None /\ sealed'["credential"] = None =>
                 req[r].pc \in {"dropCredential", "dropMirror"}
           /\ sealed["group"] # None /\ sealed'["group"] = None => req[r].pc \in {"dropGroup", "importDrop"}
           /\ \A o \in Requests \ {r} : req'[o] = req[o]
           /\ raced \subseteq raced'
<1> USE DEF TypeOK, Columns, Unsealed, catalog, process
<1>0. req[r].pc # "idle" => Up
    BY DEF InFlight
<1>a. Up => server # None
    BY VaultAssumption DEF Up
<1>1. CASE SaveCredential(r)
    BY <1>a, <1>1 DEF SaveCredential, Arrives
<1>2. CASE BeginDelete(r)
    BY <1>2, GotoMoves DEF BeginDelete, Arrives, Statements
<1>3. CASE DropCredential(r)
    BY <1>0, <1>3, GotoMoves DEF DropCredential, DeletesCredential, Statements
<1>4. CASE DropGroup(r)
    BY <1>0, <1>4, GotoMoves DEF DropGroup, DeletesGroup, Statements
<1>5. CASE SaveGroup(r)
    BY <1>a, <1>0, <1>5, GotoMoves DEF SaveGroup, Arrives, Statements
<1>6. CASE SaveMirror(r)
    BY <1>a, <1>0, <1>6, GotoMoves DEF SaveMirror, Statements
<1>7. CASE BeginSaveTemplate(r)
    BY <1>7, GotoMoves DEF BeginSaveTemplate, Arrives, Statements
<1>8. CASE SaveTemplateRef(r)
    BY <1>0, <1>8, GotoMoves DEF SaveTemplateRef, SavesRef, Statements
<1>9. CASE SaveOrDeleteTemplate(r)
    BY <1>9 DEF SaveOrDeleteTemplate, Arrives
<1>10. CASE BeginAssign(r)
    BY <1>10, GotoMoves DEF BeginAssign, Arrives, Statements
<1>11. CASE Assign(r)
    BY <1>0, <1>11, GotoMoves DEF Assign, Statements
<1>12. CASE Unassign(r)
    BY <1>12 DEF Unassign, Arrives
<1>13. CASE SaveSettings(r)
    BY <1>13 DEF SaveSettings, Arrives
<1>14. CASE SetTotp(r)
    BY <1>14 DEF SetTotp, Arrives
<1>15. CASE BeginImport(r)
    BY <1>15 DEF BeginImport, ImportableTokens, Arrives
<1>16. CASE ImportTemplate(r)
    BY <1>0, <1>16, GotoMoves DEF ImportTemplate, Statements
<1>17. CASE SkipImportStep(r)
    BY <1>0, <1>17, GotoMoves DEF SkipImportStep, Statements
<1>18. CASE ImportAssignments(r)
    BY <1>0, <1>18, GotoMoves DEF ImportAssignments, Statements
<1>19. CASE StatementFails(r)
    BY <1>0, <1>19, GotoMoves DEF StatementFails, Statements
<1>. QED
    BY <1>1, <1>2, <1>3, <1>4, <1>5, <1>6, <1>7, <1>8, <1>9, <1>10, <1>11, <1>12, <1>13, <1>14, <1>15,
       <1>16, <1>17, <1>18, <1>19 DEF RequestStep

\* The keys still agree: a request seals with the key of the server, RotateSealedColumns
\* re-seals every blob, and beside a server it leaves its mark.
LEMMA KeyStep ==
    ASSUME Inv, TypeOK', [Next]_vars
    PROVE  OneKey'
<1> USE DEF Inv
<1>1. ASSUME NEW r \in Requests, RequestStep(r) PROVE OneKey'
    <2>1. /\ Up /\ server' = server /\ mishap' = mishap
          /\ \A c \in Columns : sealed'[c] \in {sealed[c], server} \cup Unsealed
        BY <1>1, RequestFrame
    <2>2. ASSUME ~mishap PROVE KeysInUse \subseteq {server} /\ server \in Keys
        BY <2>1, <2>2 DEF OneKey, Up
    <2>3. ASSUME ~mishap PROVE KeysInUse' \subseteq {server'}
        BY <2>1, <2>2, <2>3, VaultAssumption DEF KeysInUse, Unsealed
    <2>. QED  BY <2>1, <2>2, <2>3 DEF OneKey
<1>2. CASE Boot
    BY <1>2 DEF Boot, OneKey, KeysInUse, TypeOK
<1>3. CASE Stop \/ Crash
    <2>1. sealed' = sealed /\ mishap' = mishap /\ ~Up'
        BY <1>3, VaultAssumption DEF Stop, Crash, Up
    <2>. QED  BY <2>1 DEF OneKey, KeysInUse
<1>4. CASE LockTurnsStale \/ Heartbeat \/ SwitchKey \/ RotateStarts \/ RotateBacksUp \/ RotateRefused \/ RotateEnds
    <2>1. UNCHANGED <<sealed, server, mishap>>
        BY <1>4 DEF LockTurnsStale, Heartbeat, SwitchKey, RotateStarts, RotateBacksUp, RotateRefused, RotateEnds,
                    process
    <2>. QED  BY <2>1 DEF OneKey, KeysInUse, Up
<1>5. CASE RotateCommits
    <2>1. ~mishap' => ~Up'
        BY <1>5 DEF RotateCommits, RotationIsWatched, Up, process
    <2>2. rotation.to \in Keys
        BY <1>5 DEF RotateCommits, RotationHasKeys
    <2>. QED
        BY <2>1, <2>2, <1>5 DEF RotateCommits, Rotated, OneKey, KeysInUse
<1>6. CASE UNCHANGED vars
    BY <1>6 DEF vars, OneKey, KeysInUse, Up, process
<1>. QED
    BY <1>1, <1>2, <1>3, <1>4, <1>5, <1>6 DEF Next

\* Requests end with their server, a rotation learns of every server that boots,
\* and the WAL is folded or marked as left when the last process goes.
LEMMA RotationStep ==
    ASSUME Inv, TypeOK', [Next]_vars
    PROVE  InFlight' /\ RotationIsWatched' /\ RotationHasKeys' /\ WalIsFolded'
<1> USE DEF Inv, InFlight, RotationIsWatched, RotationHasKeys, WalIsFolded, Quiet, Up, process
<1>1. ASSUME NEW r \in Requests, RequestStep(r) PROVE InFlight' /\ RotationIsWatched' /\ RotationHasKeys' /\ WalIsFolded'
    BY <1>1, RequestFrame
<1>2. CASE Boot
    BY <1>2 DEF Boot, TypeOK, RotationState
<1>3. CASE Stop
    BY <1>3 DEF Stop, WalAfterStop, IdleReq, TypeOK
<1>4. CASE Crash
    BY <1>4, VaultAssumption DEF Crash, Left, IdleReq, TypeOK
<1>5. CASE LockTurnsStale \/ Heartbeat \/ SwitchKey
    BY <1>5 DEF LockTurnsStale, Heartbeat, SwitchKey
<1>6. CASE RotateStarts
    BY <1>6 DEF RotateStarts, SeesNoServer
<1>7. CASE RotateBacksUp
    BY <1>7 DEF RotateBacksUp, TypeOK, RotationState
<1>8. CASE RotateCommits \/ RotateRefused
    BY <1>8 DEF RotateCommits, RotateRefused, TypeOK, RotationState
<1>9. CASE RotateEnds
    BY <1>9 DEF RotateEnds, NoRotation, Left
<1>10. CASE UNCHANGED vars
    BY <1>10 DEF vars
<1>. QED
    BY <1>1, <1>2, <1>3, <1>4, <1>5, <1>6, <1>7, <1>8, <1>9, <1>10 DEF Next

\* The checks of templates.Save and credentials.Delete outlast what the other
\* requests, imports and the rotation do, or the race is on record.
LEMMA RefStep ==
    ASSUME Inv, TypeOK', [Next]_vars
    PROVE  RefsHold'
<1> USE DEF Inv
<1>1. ASSUME NEW r \in Requests, RequestStep(r) PROVE RefsHold'
    <2> USE DEF TypeOK, RefsHold, catalog
    <2>0. /\ \A o \in Requests \ {r} : req'[o] = req[o]
          /\ raced \subseteq raced'
          /\ sealed["credential"] # None /\ sealed'["credential"] = None =>
                req[r].pc \in {"dropCredential", "dropMirror"}
        BY <1>1, RequestFrame
    <2>1. CASE BeginDelete(r)
        BY <2>0, <2>1, GotoMoves DEF BeginDelete, Referenced, Statements
    <2>2. CASE DropCredential(r)
        BY <2>0, <2>2, GotoMoves DEF DropCredential, DeletesCredential, Others, Statements
    <2>3. CASE BeginSaveTemplate(r)
        BY <2>0, <2>3, GotoMoves DEF BeginSaveTemplate, Statements
    <2>4. CASE SaveTemplateRef(r)
        BY <2>0, <2>4, GotoMoves DEF SaveTemplateRef, SavesRef, Others, Statements
    <2>5. ASSUME /\ req'[r].pc \notin {"saveRef", "dropCredential", "dropMirror"}
                 /\ template' \in {template, "none", "free"}
                 /\ sealed["credential"] # None => sealed'["credential"] # None
          PROVE  RefsHold'
        BY <2>0, <2>5
    <2>6. CASE SaveCredential(r) \/ SaveSettings(r) \/ SetTotp(r) \/ Unassign(r) \/ SaveOrDeleteTemplate(r)
        <3>1. req' = req /\ template' \in {template, "none", "free"} /\ req[r].pc = "idle"
            BY <2>6 DEF SaveCredential, SaveSettings, SetTotp, Unassign, SaveOrDeleteTemplate, Arrives
        <3>. QED  BY <2>0, <2>5, <3>1
    <2>7. CASE DropGroup(r)
        BY <2>0, <2>5, <2>7, GotoMoves DEF DropGroup, Statements
    <2>8. CASE SaveGroup(r)
        BY <2>0, <2>5, <2>8, GotoMoves DEF SaveGroup, Arrives, Statements
    <2>9. CASE SaveMirror(r)
        BY <2>0, <2>5, <2>9, GotoMoves DEF SaveMirror, Statements
    <2>10. CASE BeginAssign(r)
        BY <2>0, <2>5, <2>10, GotoMoves DEF BeginAssign, Arrives, Statements
    <2>11. CASE Assign(r)
        BY <2>0, <2>5, <2>11, GotoMoves DEF Assign, Statements
    <2>12. CASE BeginImport(r)
        BY <2>0, <2>5, <2>12 DEF BeginImport, Arrives
    <2>13. CASE ImportTemplate(r)
        BY <2>0, <2>5, <2>13, GotoMoves DEF ImportTemplate, ImportedTemplate, Statements
    <2>14. CASE SkipImportStep(r)
        BY <2>0, <2>5, <2>14, GotoMoves DEF SkipImportStep, Statements
    <2>15. CASE ImportAssignments(r)
        BY <2>0, <2>5, <2>15, GotoMoves DEF ImportAssignments, Statements
    <2>16. CASE StatementFails(r)
        BY <2>0, <2>5, <2>16, GotoMoves DEF StatementFails, Statements
    <2>. QED
        BY <1>1, <2>1, <2>2, <2>3, <2>4, <2>6, <2>7, <2>8, <2>9, <2>10, <2>11, <2>12, <2>13, <2>14,
           <2>15, <2>16 DEF RequestStep
<1>2. CASE Stop \/ Crash
    BY <1>2 DEF Stop, Crash, catalog, IdleReq, RefsHold
<1>3. CASE RotateCommits
    <2>1. rotation.to \in Keys /\ rotation.to # None
        BY <1>3, VaultAssumption DEF RotateCommits, RotationHasKeys
    <2>2. sealed["credential"] # None => sealed'["credential"] # None
        BY <1>3, <2>1 DEF RotateCommits, Rotated, Columns
    <2>. QED  BY <1>3, <2>2 DEF RotateCommits, catalog, RefsHold
<1>4. CASE \/ Boot \/ LockTurnsStale \/ Heartbeat \/ SwitchKey \/ RotateStarts \/ RotateBacksUp
           \/ RotateRefused \/ RotateEnds \/ UNCHANGED vars
    <2>1. UNCHANGED <<sealed, template, req, raced>>
        BY <1>4 DEF Boot, LockTurnsStale, Heartbeat, SwitchKey, RotateStarts, RotateBacksUp, RotateRefused,
                    RotateEnds, vars, catalog
    <2>. QED  BY <2>1 DEF RefsHold
<1>. QED  BY <1>1, <1>2, <1>3, <1>4 DEF Next

\* The same for SaveGroupAssignments and backup.Import, which rely on the group.
LEMMA GroupStep ==
    ASSUME Inv, TypeOK', [Next]_vars
    PROVE  Bundles' /\ GroupsHold'
<1> USE DEF Inv
<1>1. ASSUME NEW r \in Requests, RequestStep(r) PROVE Bundles' /\ GroupsHold'
    <2> USE DEF TypeOK, Bundles, GroupsHold, Counting, catalog
    <2>0. /\ \A o \in Requests \ {r} : req'[o] = req[o]
          /\ raced \subseteq raced'
          /\ sealed["group"] # None /\ sealed'["group"] = None => req[r].pc \in {"dropGroup", "importDrop"}
          /\ Up
        BY <1>1, RequestFrame
    <2>1. CASE DropGroup(r)
        <3>1. GroupsHold'
            BY <2>0, <2>1, GotoMoves DEF DropGroup, DeletesGroup, AssignmentsWithoutGroup, Statements
        <3>2. Bundles'
            BY <2>0, <2>1, GotoMoves DEF DropGroup, Statements, IdleReq
        <3>. QED  BY <3>1, <3>2
    <2>2. CASE SaveGroup(r)
        <3>1. sealed'["group"] = server /\ server # None
            BY <2>0, <2>2, VaultAssumption DEF SaveGroup, Up, Columns
        <3>2. Bundles'
            BY <2>0, <2>2, GotoMoves DEF SaveGroup, Arrives, Statements
        <3>. QED  BY <3>1, <3>2
    <2>3. CASE SaveMirror(r)
        BY <2>0, <2>3, GotoMoves DEF SaveMirror, Statements, IdleReq
    <2>4. CASE BeginAssign(r)
        BY <2>0, <2>4, GotoMoves DEF BeginAssign, Arrives, Statements
    <2>5. CASE Assign(r)
        BY <2>0, <2>5, GotoMoves DEF Assign, Statements, IdleReq
    <2>6. CASE BeginImport(r)
        BY <2>0, <2>6 DEF BeginImport, Arrives
    <2>7. CASE ImportTemplate(r)
        BY <2>0, <2>7, GotoMoves DEF ImportTemplate, Statements, IdleReq
    <2>8. CASE SkipImportStep(r)
        BY <2>0, <2>8, GotoMoves DEF SkipImportStep, Statements
    <2>9. CASE ImportAssignments(r)
        BY <2>0, <2>9, GotoMoves DEF ImportAssignments, Statements, IdleReq
    <2>10. CASE StatementFails(r)
        BY <2>0, <2>10, GotoMoves DEF StatementFails, Statements, IdleReq
    <2>11. CASE BeginDelete(r)
        BY <2>0, <2>11, GotoMoves DEF BeginDelete, Arrives, Statements
    <2>12. CASE DropCredential(r)
        BY <2>0, <2>12, GotoMoves DEF DropCredential, Statements, IdleReq
    <2>13. CASE BeginSaveTemplate(r)
        BY <2>0, <2>13, GotoMoves DEF BeginSaveTemplate, Arrives, Statements
    <2>14. CASE SaveTemplateRef(r)
        BY <2>0, <2>14, GotoMoves DEF SaveTemplateRef, Statements, IdleReq
    <2>15. CASE SaveCredential(r) \/ SaveSettings(r) \/ SetTotp(r) \/ Unassign(r) \/ SaveOrDeleteTemplate(r)
        <3>1. req' = req /\ assigned' \in {assigned, "none"} /\ req[r].pc = "idle"
            BY <2>15 DEF SaveCredential, SaveSettings, SetTotp, Unassign, SaveOrDeleteTemplate, Arrives
        <3>. QED  BY <2>0, <3>1
    <2>. QED
        BY <1>1, <2>1, <2>2, <2>3, <2>4, <2>5, <2>6, <2>7, <2>8, <2>9, <2>10, <2>11, <2>12, <2>13, <2>14,
           <2>15 DEF RequestStep
<1>2. CASE Stop \/ Crash
    BY <1>2 DEF Stop, Crash, catalog, IdleReq, Bundles, GroupsHold, Counting
<1>3. CASE RotateCommits
    <2>1. rotation.to \in Keys /\ rotation.to # None
        BY <1>3, VaultAssumption DEF RotateCommits, RotationHasKeys
    <2>2. sealed["group"] # None => sealed'["group"] # None
        BY <1>3, <2>1 DEF RotateCommits, Rotated, Columns
    <2>. QED  BY <1>3, <2>2 DEF RotateCommits, catalog, Bundles, GroupsHold, Counting
<1>4. CASE \/ Boot \/ LockTurnsStale \/ Heartbeat \/ SwitchKey \/ RotateStarts \/ RotateBacksUp
           \/ RotateRefused \/ RotateEnds \/ UNCHANGED vars
    <2>1. UNCHANGED <<sealed, assigned, req, raced>>
        BY <1>4 DEF Boot, LockTurnsStale, Heartbeat, SwitchKey, RotateStarts, RotateBacksUp, RotateRefused,
                    RotateEnds, vars, catalog
    <2>. QED  BY <2>1 DEF Bundles, GroupsHold, Counting
<1>. QED  BY <1>1, <1>2, <1>3, <1>4 DEF Next

\* The inductive invariant holds in every reachable state.
THEOREM InvariantHolds == Spec => []Inv
<1>1. Init => Inv
    <2> SUFFICES ASSUME Init PROVE Inv
        OBVIOUS
    <2>1. req \in [Requests -> ReqState] /\ \A r \in Requests : req[r] = IdleReq
        BY DEF Init, IdleReq, ReqState, Statements
    <2>2. rotation \in RotationState /\ rotation.pc = "idle"
        BY DEF Init, NoRotation, RotationState
    <2>3. TypeOK
        BY <2>1, <2>2 DEF Init, TypeOK, Columns, Unsealed
    <2>4. ~Up /\ KeysInUse = {}
        BY VaultAssumption DEF Init, Up, KeysInUse
    <2>5. OneKey
        BY <2>3, <2>4 DEF OneKey, TypeOK
    <2>6. InFlight /\ RotationIsWatched /\ RotationHasKeys /\ WalIsFolded
        BY <2>1, <2>2, <2>4 DEF Init, IdleReq, InFlight, RotationIsWatched, RotationHasKeys, WalIsFolded
    <2>7. RefsHold /\ Bundles /\ GroupsHold
        BY <2>1 DEF Init, IdleReq, RefsHold, Bundles, GroupsHold, Counting
    <2>. QED  BY <2>3, <2>5, <2>6, <2>7 DEF Inv
<1>2. Inv /\ [Next]_vars => Inv'
    BY TypeStep, RotationStep, KeyStep, RefStep, GroupStep DEF Inv
<1>. QED  BY <1>1, <1>2, PTL DEF Spec

\* All sealed values are under one key, the running server's, however requests,
\* restarts and rotations interleave, unless keys were mixed: by a start with
\* another key, or by a rotation that a running server's row did not stop.
THEOREM KeysAgree == Spec => []KeyAgreement
<1>1. Inv => KeyAgreement
    BY DEF Inv, KeyAgreement, OneKey
<1>. QED  BY <1>1, InvariantHolds, PTL

\* A template never refers to a credential that is gone, except by the race of
\* check and write, or a delete that passed over a template it could not read,
\* which the model records.
THEOREM RefsExist == Spec => []NoDanglingRef
<1>1. Inv => NoDanglingRef
    BY DEF Inv, RefsHold, NoDanglingRef
<1>. QED  BY <1>1, InvariantHolds, PTL

\* A device is never assigned to a group that is gone, except by the race of
\* check and write.
THEOREM GroupsExist == Spec => []NoOrphanAssignment
<1>1. Inv => NoOrphanAssignment
    BY DEF Inv, GroupsHold, NoOrphanAssignment
<1>. QED  BY <1>1, InvariantHolds, PTL

\* BackupDatabaseFile copies all committed rows unless frames were left by a killed
\* process or a server runs beside the rotation.
THEOREM CopyIsComplete == Spec => BackupIsComplete
<1>1. Inv /\ [Next]_vars =>
        [rotation.pc = "checked" /\ rotation'.pc = "backedUp" =>
            rotation'.copy = "complete" \/ wal = "left" \/ rotation.live = 1]_vars
    <2> SUFFICES ASSUME Inv, [Next]_vars, rotation.pc = "checked", rotation'.pc = "backedUp",
                        rotation.live # 1
                 PROVE  rotation'.copy = "complete" \/ wal = "left"
        OBVIOUS
    <2>1. RotateBacksUp
        <3>1. ~\E r \in Requests : RequestStep(r)
            BY RequestFrame DEF Inv
        <3>2. rotation' # rotation
            OBVIOUS
        <3>. QED
            BY <3>1, <3>2 DEF Next, vars, Inv, TypeOK, RotationState, NoRotation, Boot, Stop, Crash, LockTurnsStale,
                Heartbeat, SwitchKey, RotateStarts, RotateCommits, RotateRefused, RotateEnds
    <2>2. wal # "dirty"
        BY DEF Inv, WalIsFolded, Quiet, TypeOK, RotationState
    <2>. QED  BY <2>1, <2>2 DEF Inv, TypeOK, RotateBacksUp, RotationState
<1>. QED  BY <1>1, InvariantHolds, PTL DEF Spec, BackupIsComplete

-----------------------------------------------------------------------------
(* Audit.                                                                  *)

\* AUTOINCREMENT: an id is given out once, in order.
IdsInOrder ==
    /\ \A row \in log : row.id <= written
    /\ \A row, other \in log : row.id = other.id => row = other

\* A transaction whose snapshot is current knows the last row.
SnapshotsHold ==
    \A w \in Writers :
        writer[w].pc # "idle" /\ writer[w].stale = 0 => writer[w].anchor = Anchor(log)

\* No row, and no row about to be written, is from the future; and the row that
\* is about to be written is the latest.
StampsHold ==
    ~stepped =>
        /\ \A row \in log : row.at <= now
        /\ \A w \in Writers :
             writer[w].pc = "stamped" =>
                /\ writer[w].at <= now
                /\ writer[w].stale = 0 => \A row \in log : row.at <= writer[w].at

\* The inductive invariant.
AuditInv ==
    /\ IdsInOrder /\ SnapshotsHold /\ StampsHold
    /\ TimesInOrder /\ ChainUnbroken

-----------------------------------------------------------------------------
(* The last row.                                                           *)

\* A set of numbers that is not empty has a least element.
LEMMA LeastExists ==
    ASSUME NEW S \in SUBSET Nat, S # {}
    PROVE  \E m \in S : \A k \in S : m <= k
<1>1. PICK m \in S : \A k \in S : <<k, m>> \notin OpToRel(<, Nat)
    BY NatLessThanWellFounded, WFMin
<1>2. \A k \in S : ~(k < m)
    BY <1>1 DEF OpToRel
<1>. QED  BY <1>2

\* ORDER BY id DESC LIMIT 1 finds the last of some rows.
LEMMA AnchorIsLast ==
    ASSUME NEW rows \in SUBSET Row
    PROVE  /\ rows = {} => Anchor(rows) = 0
           /\ rows # {} => \E row \in rows : row.id = Anchor(rows) /\ \A other \in rows : other.id <= row.id
           /\ Anchor(rows) \in 0 .. MaxRows
<1>1. CASE rows = {}
    BY <1>1, AuditAssumption DEF Anchor
<1>2. CASE rows # {}
    <2> DEFINE ids == {row.id : row \in rows}
               gaps == {MaxRows - id : id \in ids}
    <2>1. \A row \in rows : row.id \in 1 .. MaxRows
        BY DEF Row
    <2>2. ids \subseteq 1 .. MaxRows /\ ids # {}
        BY <1>2, <2>1
    <2>3. gaps \in SUBSET Nat /\ gaps # {}
        <3> HIDE DEF ids
        <3>1. \A id \in ids : MaxRows - id \in Nat
            BY <2>2, AuditAssumption
        <3>. QED  BY <2>2, <3>1
    <2>4. PICK gap \in gaps : \A other \in gaps : gap <= other
        BY <2>3, LeastExists
    <2>5. PICK last \in ids : gap = MaxRows - last
        OBVIOUS
    <2>6. \A id \in ids : gap <= MaxRows - id
        BY <2>4
    <2>7. \A id \in ids : id <= last
        <3> HIDE DEF ids
        <3>. QED  BY <2>2, <2>5, <2>6, AuditAssumption
    <2>8. \A other \in rows : other.id <= last
        BY <2>7
    <2>9. Anchor(rows) = CHOOSE id \in ids : \A other \in rows : other.id <= id
        BY <1>2 DEF Anchor
    <2>10. Anchor(rows) \in ids /\ \A other \in rows : other.id <= Anchor(rows)
        <3> HIDE DEF ids
        <3>. QED  BY <2>8, <2>9
    <2>11. PICK row \in rows : row.id = Anchor(rows)
        BY <2>10
    <2>. QED  BY <1>2, <2>1, <2>10, <2>11, AuditAssumption
<1>. QED  BY <1>1, <1>2

\* There is one last id.
LEMMA LastIsAnchor ==
    ASSUME NEW rows \in SUBSET Row, NEW row \in rows, \A other \in rows : other.id <= row.id
    PROVE  Anchor(rows) = row.id
<1>1. PICK last \in rows : last.id = Anchor(rows) /\ \A other \in rows : other.id <= last.id
    BY AnchorIsLast
<1>2. last.id \in 1 .. MaxRows /\ row.id \in 1 .. MaxRows
    BY DEF Row
<1>. QED  BY <1>1, <1>2, AuditAssumption

-----------------------------------------------------------------------------
(* The steps.                                                              *)

\* The second conjunct of ChainUnbroken.
ChainHolds == ~stepped => \A row \in Mismatches, other \in log : row.id <= other.id

\* A commit outdates the snapshots of the other transactions, nothing else.
LEMMA OutdatedWriters ==
    ASSUME AuditTypeOK, NEW ws
    PROVE  /\ Outdated(ws) \in [Writers -> WriterState]
           /\ \A w \in Writers :
                /\ Outdated(ws)[w].pc = writer[w].pc
                /\ Outdated(ws)[w].anchor = writer[w].anchor
                /\ Outdated(ws)[w].at = writer[w].at
                /\ w \notin ws /\ writer[w].pc # "idle" => Outdated(ws)[w].stale = 1
<1>1. \A w \in Writers : writer[w] \in WriterState
    BY DEF AuditTypeOK
<1>2. ASSUME NEW w \in Writers
      PROVE  /\ [writer[w] EXCEPT !.stale = 1] \in WriterState
             /\ [writer[w] EXCEPT !.stale = 1].pc = writer[w].pc
             /\ [writer[w] EXCEPT !.stale = 1].anchor = writer[w].anchor
             /\ [writer[w] EXCEPT !.stale = 1].at = writer[w].at
             /\ [writer[w] EXCEPT !.stale = 1].stale = 1
    BY <1>1 DEF WriterState
<1>. QED  BY <1>1, <1>2 DEF Outdated

\* A transaction that is over.
LEMMA IdleWriterType == IdleWriter \in WriterState /\ IdleWriter.pc = "idle"
    BY AuditAssumption DEF IdleWriter, WriterState

\* A commit that is not of a writer: all transactions in flight are outdated.
LEMMA OutdatedByAll ==
    ASSUME AuditInv, writer' = Outdated({}), stepped' = stepped, now' = now, log' \subseteq log
    PROVE  writer' \in [Writers -> WriterState] /\ SnapshotsHold' /\ StampsHold'
<1>1. AuditTypeOK
    BY DEF AuditInv, ChainUnbroken
<1>2. /\ writer' \in [Writers -> WriterState]
      /\ \A w \in Writers : /\ writer'[w].pc = writer[w].pc /\ writer'[w].at = writer[w].at
                            /\ writer[w].pc # "idle" => writer'[w].stale = 1
    BY <1>1, OutdatedWriters
<1>. QED  BY <1>2 DEF AuditInv, SnapshotsHold, StampsHold

\* The statements of AddLogWithAttrs before the INSERT.
LEMMA ReadKeeps ==
    ASSUME AuditInv, NEW w \in Writers, ReadLast(w) \/ Stamp(w)
    PROVE  AuditInv'
<1>0. /\ AuditTypeOK /\ log \subseteq Row /\ writer \in [Writers -> WriterState] /\ writer[w] \in WriterState
      /\ now \in 0 .. MaxTime
    BY DEF AuditInv, ChainUnbroken, AuditTypeOK
<1>1. UNCHANGED <<log, written, pruner, days, now, stepped>>
    BY DEF ReadLast, Stamp
<1>2. IdsInOrder' /\ TimesInOrder' /\ ChainHolds'
    BY <1>1 DEF AuditInv, IdsInOrder, TimesInOrder, ChainUnbroken, ChainHolds, Mismatches
<1>3. CASE ReadLast(w)
    <2> DEFINE new == [pc |-> "read", anchor |-> Anchor(log), at |-> 0, stale |-> 0]
    <2>1. new \in WriterState
        BY <1>0, AnchorIsLast, AuditAssumption DEF WriterState
    <2>2. writer' = [writer EXCEPT ![w] = new]
        BY <1>3 DEF ReadLast
    <2>3. /\ writer' \in [Writers -> WriterState] /\ writer'[w] = new
          /\ \A o \in Writers \ {w} : writer'[o] = writer[o]
        BY <1>0, <2>1, <2>2
    <2>4. SnapshotsHold'
        BY <1>1, <2>3 DEF AuditInv, SnapshotsHold
    <2>5. StampsHold'
        BY <1>1, <2>3 DEF AuditInv, StampsHold
    <2>6. AuditTypeOK'
        BY <1>0, <1>1, <2>3 DEF AuditTypeOK
    <2>. QED  BY <1>2, <2>4, <2>5, <2>6 DEF AuditInv, ChainUnbroken, ChainHolds
<1>4. CASE Stamp(w)
    <2> DEFINE new == [writer[w] EXCEPT !.pc = "stamped", !.at = now]
    <2>1. new \in WriterState
        BY <1>0 DEF WriterState
    <2>2. new.pc = "stamped" /\ new.at = now /\ new.anchor = writer[w].anchor /\ new.stale = writer[w].stale
        BY <1>0 DEF WriterState
    <2>3. writer' = [writer EXCEPT ![w] = new] /\ writer[w].pc = "read"
        BY <1>4 DEF Stamp
    <2> HIDE DEF new
    <2>4. /\ writer' \in [Writers -> WriterState] /\ writer'[w] = new
          /\ \A o \in Writers \ {w} : writer'[o] = writer[o]
        BY <1>0, <2>1, <2>3
    <2>5. SnapshotsHold'
        BY <1>1, <2>2, <2>3, <2>4 DEF AuditInv, SnapshotsHold
    <2>6. StampsHold'
        BY <1>0, <1>1, <2>2, <2>4 DEF AuditInv, StampsHold
    <2>7. AuditTypeOK'
        BY <1>0, <1>1, <2>4 DEF AuditTypeOK
    <2>. QED  BY <1>2, <2>5, <2>6, <2>7 DEF AuditInv, ChainUnbroken, ChainHolds
<1>. QED  BY <1>3, <1>4

\* What an INSERT that is not refused adds: a row after all others, as late as
\* any of them, and tied to the last.
LEMMA InsertedRow ==
    ASSUME AuditInv, NEW w \in Writers, writer[w].pc = "stamped", MayInsert(w), written < MaxRows,
           NEW row, row = [id |-> written + 1, at |-> writer[w].at, prev |-> writer[w].anchor]
    PROVE  /\ row \in Row /\ row.id = written + 1 /\ row.at = writer[w].at
           /\ row.prev = Anchor(log)
           /\ \A other \in log : other.id < row.id
           /\ ~stepped => row.at <= now /\ \A other \in log : other.at <= row.at
<1>0. /\ log \subseteq Row /\ writer[w] \in WriterState /\ written \in 0 .. MaxRows
    BY DEF AuditInv, ChainUnbroken, AuditTypeOK
<1>1. row \in Row /\ row.id = written + 1 /\ row.at = writer[w].at /\ row.prev = writer[w].anchor
    BY <1>0, AuditAssumption DEF Row, WriterState
<1>2. writer[w].anchor = Anchor(log)
    BY DEF AuditInv, SnapshotsHold, MayInsert
<1>3. \A other \in log : other.id \in 1 .. MaxRows /\ other.id <= written
    BY <1>0 DEF AuditInv, IdsInOrder, Row
<1>4. \A other \in log : other.id < row.id
    BY <1>0, <1>1, <1>3, AuditAssumption
<1>5. ~stepped => row.at <= now /\ \A other \in log : other.at <= row.at
    BY <1>1 DEF AuditInv, StampsHold, MayInsert
<1>. QED  BY <1>1, <1>2, <1>4, <1>5

\* INSERT and COMMIT, or SQLITE_BUSY.
LEMMA InsertKeeps ==
    ASSUME AuditInv, NEW w \in Writers, Insert(w)
    PROVE  AuditInv'
<1>0. /\ AuditTypeOK /\ log \subseteq Row /\ writer \in [Writers -> WriterState] /\ writer[w] \in WriterState
      /\ written \in 0 .. MaxRows
    BY DEF AuditInv, ChainUnbroken, AuditTypeOK
<1>1. UNCHANGED <<pruner, days, now, stepped>> /\ writer[w].pc = "stamped"
    BY DEF Insert
<1>2. CASE ~MayInsert(w)
    <2>1. writer' = [writer EXCEPT ![w] = IdleWriter] /\ UNCHANGED <<log, written>>
        BY <1>2 DEF Insert
    <2>2. /\ writer' \in [Writers -> WriterState] /\ writer'[w].pc = "idle"
          /\ \A o \in Writers \ {w} : writer'[o] = writer[o]
        BY <1>0, <2>1, IdleWriterType
    <2>3. IdsInOrder' /\ TimesInOrder' /\ ChainHolds'
        BY <1>1, <2>1 DEF AuditInv, IdsInOrder, TimesInOrder, ChainUnbroken, ChainHolds, Mismatches
    <2>4. SnapshotsHold'
        BY <2>1, <2>2 DEF AuditInv, SnapshotsHold
    <2>5. StampsHold'
        BY <1>1, <2>1, <2>2 DEF AuditInv, StampsHold
    <2>6. AuditTypeOK'
        BY <1>0, <1>1, <2>1, <2>2 DEF AuditTypeOK
    <2>. QED  BY <2>3, <2>4, <2>5, <2>6 DEF AuditInv, ChainUnbroken, ChainHolds
<1>3. CASE MayInsert(w)
    <2> DEFINE row == [id |-> written + 1, at |-> writer[w].at, prev |-> writer[w].anchor]
    <2>1. /\ written < MaxRows /\ log' = log \cup {row} /\ written' = written + 1
          /\ writer' = [Outdated({w}) EXCEPT ![w] = IdleWriter]
        BY <1>3 DEF Insert
    <2>2. /\ row \in Row /\ row.id = written + 1 /\ row.at = writer[w].at
          /\ row.prev = Anchor(log)
          /\ \A other \in log : other.id < row.id
          /\ ~stepped => row.at <= now /\ \A other \in log : other.at <= row.at
        BY <1>1, <1>3, <2>1, InsertedRow
    <2> HIDE DEF row
    <2>3. /\ writer' \in [Writers -> WriterState]
          /\ \A o \in Writers :
               \/ writer'[o].pc = "idle"
               \/ writer'[o].pc = writer[o].pc /\ writer'[o].at = writer[o].at /\ writer'[o].stale = 1
        <3> DEFINE ws == Outdated({w})
        <3>1. /\ ws \in [Writers -> WriterState]
              /\ \A o \in Writers \ {w} :
                   \/ ws[o].pc = "idle"
                   \/ ws[o].pc = writer[o].pc /\ ws[o].at = writer[o].at /\ ws[o].stale = 1
            BY <1>0, OutdatedWriters
        <3> HIDE DEF ws
        <3>2. writer' = [ws EXCEPT ![w] = IdleWriter]
            BY <2>1 DEF ws
        <3>. QED  BY <3>1, <3>2, IdleWriterType
    <2>4. \A other \in log : other.id \in 1 .. MaxRows /\ other.id <= written
        BY <1>0 DEF AuditInv, IdsInOrder, Row
    <2>5. IdsInOrder'
        <3>1. \A other \in log' : other.id <= written'
            BY <1>0, <2>1, <2>2, <2>4, AuditAssumption
        <3>2. ASSUME NEW a \in log', NEW b \in log', a.id = b.id PROVE a = b
            <4>1. \A other \in log : other.id # row.id
                BY <1>0, <2>2, <2>4, AuditAssumption
            <4>. QED  BY <2>1, <3>2, <4>1 DEF AuditInv, IdsInOrder
        <3>. QED  BY <3>1, <3>2 DEF IdsInOrder
    <2>6. SnapshotsHold'
        BY <2>3 DEF SnapshotsHold
    <2>7. StampsHold'
        <3> SUFFICES ASSUME ~stepped PROVE StampsHold'
            BY <1>1 DEF StampsHold
        <3>1. \A a \in log' : a.at <= now
            BY <2>1, <2>2 DEF AuditInv, StampsHold
        <3>2. \A o \in Writers : writer'[o].pc = "stamped" => writer'[o].at <= now /\ writer'[o].stale # 0
            BY <2>3 DEF AuditInv, StampsHold
        <3>. QED  BY <1>1, <3>1, <3>2 DEF StampsHold
    <2>8. TimesInOrder'
        <3>1. ASSUME ~stepped, NEW a \in log', NEW b \in log', a.id < b.id PROVE a.at <= b.at
            <4>1. ~(a = row /\ b \in log)
                BY <1>0, <2>2, <2>4, <3>1, AuditAssumption
            <4>2. ~(a = row /\ b = row)
                BY <1>0, <2>2, <3>1, AuditAssumption
            <4>. QED  BY <2>1, <2>2, <3>1, <4>1, <4>2 DEF AuditInv, TimesInOrder
        <3>. QED  BY <1>1, <3>1 DEF TimesInOrder
    <2>9. ChainHolds'
        <3>1. {other \in log' : other.id < row.id} = log
            BY <1>0, <2>1, <2>2, <2>4, AuditAssumption
        <3>2. \A a \in log : {other \in log' : other.id < a.id} = {other \in log : other.id < a.id}
            BY <1>0, <2>1, <2>2, <2>4, AuditAssumption
        <3>3. Mismatches' \subseteq Mismatches
            BY <2>1, <2>2, <3>1, <3>2 DEF Mismatches
        <3>4. ASSUME ~stepped, NEW a \in Mismatches', NEW b \in log' PROVE a.id <= b.id
            <4>1. a \in Mismatches /\ a \in log
                BY <3>3, <3>4 DEF Mismatches
            <4>2. CASE b = row
                BY <1>0, <2>2, <2>4, <4>1, <4>2, AuditAssumption
            <4>3. CASE b \in log
                BY <3>4, <4>1, <4>3 DEF AuditInv, ChainUnbroken
            <4>. QED  BY <2>1, <4>2, <4>3
        <3>. QED  BY <1>1, <3>4 DEF ChainHolds
    <2>10. AuditTypeOK'
        <3>1. written' \in 0 .. MaxRows
            BY <1>0, <2>1, AuditAssumption
        <3>2. log' \subseteq Row
            BY <1>0, <2>1, <2>2
        <3>. QED  BY <1>0, <1>1, <2>3, <3>1, <3>2 DEF AuditTypeOK
    <2>. QED  BY <2>5, <2>6, <2>7, <2>8, <2>9, <2>10 DEF AuditInv, ChainUnbroken, ChainHolds
<1>. QED  BY <1>2, <1>3

\* Rows are pruned or cleared.  If those that stay are all that are late enough,
\* each but the first keeps the row before it: that one is not earlier than any
\* row that went.
LEMMA ForgetKeepsChain ==
    ASSUME AuditInv, NEW cutoff \in 0 .. MaxTime, log' = Survivors(cutoff), stepped' = stepped
    PROVE  ChainHolds'
<1>0. log \subseteq Row /\ \A row \in log : row.id \in 1 .. MaxRows /\ row.at \in 0 .. MaxTime
    BY DEF AuditInv, ChainUnbroken, AuditTypeOK, Row
<1>1. \A row : row \in log' <=> row \in log /\ row.at >= cutoff
    BY DEF Survivors
<1>2. SUFFICES ASSUME ~stepped, NEW row \in log', NEW other \in log', other.id < row.id
               PROVE  row \notin Mismatches'
    <2>1. \A a \in Mismatches' : a \in log'
        BY DEF Mismatches
    <2>. QED  BY <1>0, <1>1, <1>2, <2>1 DEF ChainHolds
<1> DEFINE before == {o \in log : o.id < row.id}
           left == {o \in log' : o.id < row.id}
<1>3. row \notin Mismatches
    BY <1>0, <1>1, <1>2 DEF AuditInv, ChainUnbroken
<1>4. row.prev = Anchor(before)
    BY <1>1, <1>2, <1>3 DEF Mismatches
<1>5. other \in before /\ before \in SUBSET Row
    BY <1>0, <1>1, <1>2
<1>6. PICK last \in before : last.id = Anchor(before) /\ \A o \in before : o.id <= last.id
    BY <1>5, AnchorIsLast
<1>7. last \in left
    <2>1. other.id <= last.id /\ other \in log /\ last \in log /\ last.id < row.id
        BY <1>5, <1>6
    <2>2. CASE other.id = last.id
        BY <1>1, <1>2, <2>1, <2>2 DEF AuditInv, IdsInOrder
    <2>3. CASE other.id < last.id
        <3>1. other.at <= last.at
            BY <1>2, <2>1, <2>3 DEF AuditInv, TimesInOrder
        <3>2. last.at >= cutoff
            BY <1>0, <1>1, <1>2, <2>1, <3>1, AuditAssumption
        <3>. QED  BY <1>1, <2>1, <3>2
    <2>. QED  BY <1>0, <2>1, <2>2, <2>3
<1>8. left \in SUBSET Row /\ \A o \in left : o.id <= last.id
    BY <1>0, <1>1, <1>6
<1>9. Anchor(left) = last.id
    <2> HIDE DEF left
    <2>. QED  BY <1>7, <1>8, LastIsAnchor
<1>. QED  BY <1>4, <1>6, <1>9 DEF Mismatches

\* The other conjuncts hold of any part of the rows.
LEMMA ForgetKeeps ==
    ASSUME AuditInv, log' \subseteq log, writer' = Outdated({}), ChainHolds', pruner' \in PrunerState,
           UNCHANGED <<written, now, stepped>>, days' \in 0 .. MaxDays
    PROVE  AuditInv'
<1>1. IdsInOrder' /\ TimesInOrder'
    BY DEF AuditInv, IdsInOrder, TimesInOrder
<1>2. writer' \in [Writers -> WriterState] /\ SnapshotsHold' /\ StampsHold'
    BY OutdatedByAll
<1>3. AuditTypeOK'
    BY <1>2 DEF AuditInv, ChainUnbroken, AuditTypeOK
<1>. QED  BY <1>1, <1>2, <1>3 DEF AuditInv, ChainUnbroken, ChainHolds

\* A chain whose rows are unchanged.
LEMMA SameChain ==
    ASSUME AuditInv, log' = log, stepped' = stepped \/ stepped'
    PROVE  ChainHolds' /\ TimesInOrder'
    BY DEF AuditInv, ChainUnbroken, ChainHolds, Mismatches, TimesInOrder

\* PruneAuditLogOlderThan, which may fail.
LEMMA PruneKeeps ==
    ASSUME AuditInv, Prune
    PROVE  AuditInv'
<1>0. pruner.cutoff \in 0 .. MaxTime
    BY DEF AuditInv, ChainUnbroken, AuditTypeOK, PrunerState
<1>1. pruner' \in PrunerState
    BY AuditAssumption DEF Prune, PrunerState
<1>2. UNCHANGED <<written, days, now, stepped>> /\ days \in 0 .. MaxDays
    BY DEF Prune, AuditInv, ChainUnbroken, AuditTypeOK
<1>3. CASE log' = Survivors(pruner.cutoff) /\ writer' = Outdated({})
    <2>1. log' \subseteq log
        BY <1>3 DEF Survivors
    <2>2. ChainHolds'
        BY <1>0, <1>2, <1>3, ForgetKeepsChain
    <2>. QED  BY <1>1, <1>2, <1>3, <2>1, <2>2, ForgetKeeps
<1>4. CASE UNCHANGED <<log, writer>>
    <2>1. ChainHolds' /\ TimesInOrder'
        BY <1>2, <1>4, SameChain
    <2>2. IdsInOrder' /\ StampsHold'
        BY <1>2, <1>4 DEF AuditInv, IdsInOrder, StampsHold
    <2>3. SnapshotsHold'
        BY <1>4 DEF AuditInv, SnapshotsHold
    <2>4. AuditTypeOK'
        BY <1>1, <1>2, <1>4 DEF AuditInv, ChainUnbroken, AuditTypeOK
    <2>. QED  BY <2>1, <2>2, <2>3, <2>4 DEF AuditInv, ChainUnbroken, ChainHolds
<1>. QED  BY <1>3, <1>4 DEF Prune

\* ClearLogs, the saving of settings, and any other commit.
LEMMA CommitKeeps ==
    ASSUME AuditInv, \/ ClearLogs \/ OtherCommit
                \/ \E d \in 0 .. MaxDays : SetRetention(d)
    PROVE  AuditInv'
<1>1. /\ writer' = Outdated({}) /\ UNCHANGED <<written, pruner, now, stepped>>
      /\ log' = {} \/ log' = log
    BY DEF ClearLogs, OtherCommit, SetRetention
<1>2. days' \in 0 .. MaxDays /\ pruner' \in PrunerState
    BY <1>1 DEF AuditInv, ChainUnbroken, AuditTypeOK, ClearLogs, OtherCommit, SetRetention
<1>3. ChainHolds'
    <2>1. CASE log' = {}
        BY <2>1 DEF ChainHolds
    <2>2. CASE log' = log
        BY <1>1, <2>2, SameChain
    <2>. QED  BY <1>1, <2>1, <2>2
<1>4. log' \subseteq log
    BY <1>1
<1>. QED  BY <1>1, <1>2, <1>3, <1>4, ForgetKeeps

\* The tick of the retention worker, and the clock.
LEMMA TickKeeps ==
    ASSUME AuditInv, RetentionTick \/ ClockMoves
    PROVE  AuditInv'
<1>0. now \in 0 .. MaxTime /\ days \in 0 .. MaxDays /\ pruner \in PrunerState /\ stepped \in BOOLEAN
    BY DEF AuditInv, ChainUnbroken, AuditTypeOK
<1>1. UNCHANGED <<log, written, writer, days>>
    BY DEF RetentionTick, ClockMoves
<1>2. now' \in 0 .. MaxTime /\ (stepped' \/ (stepped' = stepped /\ now <= now'))
    BY <1>0, AuditAssumption DEF RetentionTick, ClockMoves
<1>3. stepped' \in BOOLEAN
    BY <1>0 DEF RetentionTick, ClockMoves
<1>4. pruner' \in PrunerState
    <2>1. CASE RetentionTick
        <3>1. now - days \in 0 .. MaxTime
            BY <1>0, <2>1, AuditAssumption DEF RetentionTick
        <3>. QED  BY <2>1, <3>1 DEF RetentionTick, PrunerState
    <2>2. CASE ClockMoves
        BY <1>0, <2>2 DEF ClockMoves
    <2>. QED  BY <2>1, <2>2
<1>5. ChainHolds' /\ TimesInOrder'
    BY <1>1, <1>2, SameChain
<1>6. IdsInOrder'
    BY <1>1 DEF AuditInv, IdsInOrder
<1>7. SnapshotsHold'
    BY <1>1 DEF AuditInv, SnapshotsHold
<1>8. StampsHold'
    <2>1. SUFFICES ASSUME ~stepped' PROVE StampsHold'
        BY DEF StampsHold
    <2>2. ~stepped /\ now <= now' /\ now' \in Nat /\ now \in Nat
        BY <1>0, <1>2, <2>1, AuditAssumption
    <2>3. /\ \A row \in log : row.at \in Nat
          /\ \A w \in Writers : writer[w].at \in Nat
        BY AuditAssumption DEF AuditInv, ChainUnbroken, AuditTypeOK, Row, WriterState
    <2>4. \A row \in log : row.at <= now'
        BY <2>2, <2>3 DEF AuditInv, StampsHold
    <2>5. \A w \in Writers : writer[w].pc = "stamped" => writer[w].at <= now'
        BY <2>2, <2>3 DEF AuditInv, StampsHold
    <2>. QED  BY <1>1, <2>2, <2>4, <2>5 DEF AuditInv, StampsHold
<1>9. AuditTypeOK'
    BY <1>1, <1>2, <1>3, <1>4 DEF AuditInv, ChainUnbroken, AuditTypeOK
<1>. QED  BY <1>5, <1>6, <1>7, <1>8, <1>9 DEF AuditInv, ChainUnbroken, ChainHolds

-----------------------------------------------------------------------------
(* The invariant and what follows from it.                                 *)

\* The log is empty when the database is made, and no transaction is open.
LEMMA InitHolds == AuditInit => AuditInv
<1> SUFFICES ASSUME AuditInit PROVE AuditInv
    OBVIOUS
<1>1. \A w \in Writers : writer[w] = IdleWriter
    BY DEF AuditInit
<1>2. AuditTypeOK
    <2>1. writer \in [Writers -> WriterState]
        BY IdleWriterType DEF AuditInit
    <2>2. pruner \in PrunerState
        BY AuditAssumption DEF AuditInit, PrunerState
    <2>3. log \subseteq Row /\ stepped \in BOOLEAN
        BY DEF AuditInit
    <2>4. written \in 0 .. MaxRows /\ days \in 0 .. MaxDays /\ now \in 0 .. MaxTime
        BY AuditAssumption DEF AuditInit
    <2>. QED  BY <2>1, <2>2, <2>3, <2>4 DEF AuditTypeOK
<1>3. SnapshotsHold /\ StampsHold
    BY <1>1, IdleWriterType DEF AuditInit, SnapshotsHold, StampsHold
<1>4. IdsInOrder /\ TimesInOrder
    BY DEF AuditInit, IdsInOrder, TimesInOrder
<1>5. Mismatches = {}
    BY DEF AuditInit, Mismatches
<1>. QED  BY <1>2, <1>3, <1>4, <1>5 DEF AuditInv, ChainUnbroken

\* Every step keeps the inductive invariant.
LEMMA StepKeeps == AuditInv /\ [AuditNext]_auditVars => AuditInv'
<1> SUFFICES ASSUME AuditInv, [AuditNext]_auditVars PROVE AuditInv'
    OBVIOUS
<1>1. CASE \E w \in Writers : ReadLast(w) \/ Stamp(w) \/ Insert(w)
    BY <1>1, ReadKeeps, InsertKeeps
<1>2. CASE RetentionTick \/ ClockMoves
    BY <1>2, TickKeeps
<1>3. CASE Prune
    BY <1>3, PruneKeeps
<1>4. CASE ClearLogs \/ OtherCommit \/ \E d \in 0 .. MaxDays : SetRetention(d)
    BY <1>4, CommitKeeps
<1>5. CASE UNCHANGED auditVars
    <2>1. ChainHolds' /\ TimesInOrder'
        BY <1>5, SameChain DEF auditVars
    <2>2. AuditTypeOK' /\ IdsInOrder' /\ StampsHold'
        BY <1>5 DEF AuditInv, ChainUnbroken, AuditTypeOK, IdsInOrder, StampsHold, auditVars
    <2>3. SnapshotsHold'
        BY <1>5 DEF AuditInv, SnapshotsHold, auditVars
    <2>. QED  BY <2>1, <2>2, <2>3 DEF AuditInv, ChainUnbroken, ChainHolds
<1>. QED  BY <1>1, <1>2, <1>3, <1>4, <1>5 DEF AuditNext

\* The inductive invariant holds in every reachable state: a transaction of
\* AddLogWithAttrs that may still insert knows the last row.
THEOREM AuditInvariantHolds == AuditSpec => []AuditInv
    BY InitHolds, StepKeeps, PTL DEF AuditSpec

\* The rows of audit_log are in the order of their times while the clock is not
\* set back, however many goroutines log, so that PruneAuditLogOlderThan cuts
\* off a prefix.
THEOREM RowsAreInOrder == AuditSpec => []TimesInOrder
<1>1. AuditInv => TimesInOrder
    BY DEF AuditInv
<1>. QED  BY <1>1, AuditInvariantHolds, PTL

\* VerifyAuditChain finds no break in the middle of the log: at most the first
\* row left by a prune names a row that is gone.
THEOREM ChainHasNoBreak == AuditSpec => []ChainUnbroken
<1>1. AuditInv => ChainUnbroken
    BY DEF AuditInv
<1>. QED  BY <1>1, AuditInvariantHolds, PTL

-----------------------------------------------------------------------------
(* The audit log implements AppendLog.                                     *)

\* What AppendLog sees of the rows.
Kept(rows) == {[id |-> row.id, prev |-> row.prev] : row \in rows}

\* A row that is inserted is appended: its id is after all others and it is tied
\* to the row that was last.
LEMMA InsertAppends ==
    ASSUME AuditInv, NEW w \in Writers, Insert(w), log' # log
    PROVE  \E id \in 1 .. MaxRows : Promise!AppendRow(id)
<1>0. log \in SUBSET Row /\ written \in 0 .. MaxRows
    BY DEF AuditInv, ChainUnbroken, AuditTypeOK
<1> DEFINE row == [id |-> written + 1, at |-> writer[w].at, prev |-> writer[w].anchor]
           last == Anchor(log)
<1>1. writer[w].pc = "stamped" /\ MayInsert(w) /\ written < MaxRows /\ log' = log \cup {row}
    BY DEF Insert
<1>2. row.id = written + 1 /\ row.prev = last /\ \A other \in log : other.id < row.id
    BY <1>1, InsertedRow
<1>3. last \in 0 .. MaxRows
    BY <1>0, AnchorIsLast
<1>4. last \in (1 .. MaxRows) \cup {0} /\ written + 1 \in 1 .. MaxRows
    BY <1>0, <1>1, <1>3, AuditAssumption
<1> HIDE DEF row, last
<1>5. Kept(log') = Kept(log) \cup {[id |-> written + 1, prev |-> last]}
    BY <1>1, <1>2 DEF Kept
<1>6. \A seen \in Kept(log) : seen.id < written + 1
    BY <1>2 DEF Kept
<1>7. Promise!IsLast(last, Kept(log))
    <2>1. CASE log = {}
        BY <1>0, <2>1, AnchorIsLast DEF Promise!IsLast, Kept, last
    <2>2. CASE log # {}
        <3>1. PICK final \in log : final.id = last /\ \A other \in log : other.id <= final.id
            BY <1>0, <2>2, AnchorIsLast DEF last
        <3> DEFINE seen == [id |-> final.id, prev |-> final.prev]
        <3>2. seen \in Kept(log) /\ seen.id = last
            BY <3>1 DEF Kept
        <3>3. \A other \in Kept(log) : other.id <= last
            BY <3>1 DEF Kept
        <3>. QED  BY <3>2, <3>3 DEF Promise!IsLast
    <2>. QED  BY <2>1, <2>2
<1>. QED  BY <1>4, <1>5, <1>6, <1>7 DEF Promise!AppendRow, Kept

\* Rows that are deleted are forgotten: ids are unique, so that the deleted ids
\* name the deleted rows.
LEMMA DeleteForgets ==
    ASSUME AuditInv, log' \subseteq log
    PROVE  \E gone \in SUBSET (1 .. MaxRows) : Promise!Forget(gone)
<1> DEFINE gone == {row.id : row \in log \ log'}
<1>1. gone \in SUBSET (1 .. MaxRows)
    BY DEF AuditInv, ChainUnbroken, AuditTypeOK, Row
<1>2. \A row \in log : row \in log' <=> row.id \notin gone
    BY DEF AuditInv, IdsInOrder
<1> HIDE DEF gone
<1>3. Kept(log') = {seen \in Kept(log) : seen.id \notin gone}
    BY <1>2 DEF Kept
<1>. QED  BY <1>1, <1>3 DEF Promise!Forget, Kept

\* Every step of the audit log is a step of AppendLog, or leaves the rows alone.
LEMMA StepImplements ==
    ASSUME AuditInv, [AuditNext]_auditVars
    PROVE  [Promise!Next]_({[id |-> row.id, prev |-> row.prev] : row \in log})
<1>1. CASE log' = log
    BY <1>1
<1>2. CASE log' # log /\ \E w \in Writers : Insert(w)
    BY <1>2, InsertAppends DEF Promise!Next
<1>3. CASE log' \subseteq log
    BY <1>3, DeleteForgets DEF Promise!Next
<1>4. \/ log' = log \/ log' \subseteq log \/ \E w \in Writers : Insert(w)
    BY DEF AuditNext, auditVars, ReadLast, Stamp, OtherCommit, RetentionTick, Prune, Survivors, ClearLogs, ClockMoves,
           SetRetention
<1>. QED  BY <1>1, <1>2, <1>3, <1>4

\* The audit log implements the abstract append-only log, whether the clock is
\* set back or not: a row of AddLogWithAttrs is tied to the row that was last
\* when it was committed, and a prune alters none that it leaves.
THEOREM LogIsAppendOnly == AuditSpec => ImplementsAppendLog
<1>1. AuditInit => Promise!Init
    BY DEF AuditInit, Promise!Init
<1>. QED  BY <1>1, StepImplements, AuditInvariantHolds, PTL DEF AuditSpec, ImplementsAppendLog, Promise!Spec

=============================================================================
