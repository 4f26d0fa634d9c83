------------------------------- MODULE Vault --------------------------------
(***************************************************************************)
(* The sealed columns of the database and the two things that move them:   *)
(* the requests of the running server (credentials, credential groups,     *)
(* templates, assignments, settings, backup import) and the rotate-key     *)
(* command, which re-seals everything in a process of its own.             *)
(*                                                                         *)
(* One name serves as the credential, the group and its mirror in the      *)
(* credentials table; there is one template and one device.  A sealed      *)
(* value is known by the key it is sealed with.  A request runs its        *)
(* statements one by one, so two requests interleave between them, and any *)
(* statement may fail and end its request there.                           *)
(***************************************************************************)
EXTENDS Naturals

CONSTANTS
    Requests,   \* goroutines that serve HTTP requests
    Keys,       \* encryption keys the operator uses
    None        \* an empty column, no row

\* Sealed values carry a prefix that neither an empty column, a plain token nor
\* the placeholder has.
ASSUME VaultAssumption == {None, "plain", "placeholder"} \cap Keys = {}

VARIABLES
    sealed,     \* the sealed columns
    template,   \* the template row and its credential_ref
    assigned,   \* the row of device_credential_groups
    req,        \* the requests in flight
    server,     \* the server process: its key, or None when it is down
    envKey,     \* SHELLYADMIN_ENCRYPTION_KEY
    lock,       \* the runtime lock row
    wal,        \* committed frames that are not in shellyctl.db; "left" by a killed process
    rotation,   \* the rotate-key process, and the copy it made
    raced,      \* auxiliary: checks that another request's statement outdated, or that
                \* passed over a row they could not read
    mishap      \* auxiliary: keys were mixed by the operator or by a live server

catalog == <<template, assigned>>
process == <<server, envKey, lock>>
vars == <<sealed, catalog, req, process, wal, rotation, raced, mishap>>

\* credentials.password_cipher / ha1_cipher, the same of credential_groups,
\* totp_state, and mcp_token inside the settings row.
Columns == {"credential", "group", "totp", "token"}

\* An mcp_token that came from an import is stored as it came: in plain text,
\* or as the placeholder "<set>".
Unsealed == {None, "plain", "placeholder"}

Statements == {"idle", "dropCredential", "dropMirror", "dropGroup", "mirror", "saveRef", "assign",
               "importTemplate", "importGroup", "importMirror", "importDrop", "importAssign"}
ReqState == [pc : Statements, group : 0 .. 1, assign : 0 .. 1, drop : 0 .. 1]
IdleReq == [pc |-> "idle", group |-> 0, assign |-> 0, drop |-> 0]

\* rotate-key; live: it may run beside a server, which booted after the look at
\* the lock row, or whose row was stale or could not be read.
RotationState == [pc : {"idle", "checked", "backedUp", "done", "failed"},
                  from : Keys \cup {None}, to : Keys \cup {None}, live : 0 .. 1,
                  copy : {"none", "complete", "partial"}]
NoRotation == [pc |-> "idle", from |-> None, to |-> None, live |-> 0, copy |-> "none"]

Init ==
    /\ sealed = [c \in Columns |-> None]
    /\ template = "none" /\ assigned = "none"
    /\ req = [r \in Requests |-> IdleReq]
    /\ server = None /\ lock = "none" /\ wal = "clean"
    /\ envKey \in Keys
    /\ rotation = NoRotation
    /\ raced = {} /\ mishap = FALSE

\* The keys the database is sealed with.
KeysInUse == {sealed[c] : c \in Columns} \cap Keys

\* Open and Seal of the server's key: an empty value stays empty.
Opens(column) == sealed[column] \in {None, server}

\* A commit of the server: SQLite appends it to the WAL.  That it folds the WAL
\* into the database file now and then is left out.
Committed == wal' = "dirty"

\* The WAL when the last process with the database open is killed.
Left(frames) == IF frames = "dirty" THEN "left" ELSE frames

Goto(r, pc) == req' = [req EXCEPT ![r] = IF pc = "idle" THEN IdleReq ELSE [@ EXCEPT !.pc = pc]]
Up == server \in Keys
Arrives(r) == Up /\ req[r].pc = "idle"
Others(r, pcs) == \E o \in Requests \ {r} : req[o].pc \in pcs

\* What a statement outdates: a template save that has found the credential, a
\* credential delete that has found no template, an assignment that has found
\* the group, and an import that has checked its assignments against its groups.
DeletesCredential(r) == raced' = IF Others(r, {"saveRef"}) THEN raced \cup {"ref"} ELSE raced
SavesRef(r) == raced' = IF Others(r, {"dropCredential", "dropMirror"}) THEN raced \cup {"ref"} ELSE raced
DeletesGroup(r) ==
    raced' = IF \E o \in Requests \ {r} :
                   \/ req[o].pc = "assign"
                   \/ req[o].pc \in {"importMirror", "importDrop", "importAssign"} /\ req[o].assign = 1
             THEN raced \cup {"group"} ELSE raced

-----------------------------------------------------------------------------
(* Credentials, templates, groups, assignments.                            *)

SaveCredential(r) ==
    /\ Arrives(r)
    /\ sealed' = [sealed EXCEPT !["credential"] = server]
    /\ Committed
    /\ UNCHANGED <<catalog, req, process, rotation, raced, mishap>>

\* Faulty variant: the credential is deleted whatever refers to it.
ReferencedNever == FALSE

\* A template row names the credential.
Referenced == template = "ref"

\* Delete and DeleteGroup: the scan of the templates, which passes over a
\* template that GetTemplate fails to read.
BeginDelete(r) ==
    /\ Arrives(r)
    /\ \/ ~Referenced /\ UNCHANGED raced
       \/ template = "ref" /\ raced' = raced \cup {"ref"}
    /\ \E pc \in {"dropCredential", "dropMirror"} : Goto(r, pc)
    /\ UNCHANGED <<sealed, catalog, process, wal, rotation, mishap>>

\* DELETE FROM credentials.
DropCredential(r) ==
    /\ req[r].pc \in {"dropCredential", "dropMirror"}
    /\ sealed' = [sealed EXCEPT !["credential"] = None]
    /\ Goto(r, IF req[r].pc = "dropMirror" THEN "dropGroup" ELSE "idle")
    /\ DeletesCredential(r) /\ Committed
    /\ UNCHANGED <<catalog, process, rotation, mishap>>

\* Faulty variant: the group goes, the rows that assign it stay.
AssignmentsLeft == assigned

\* DELETE FROM device_credential_groups, in the transaction that drops the group.
AssignmentsWithoutGroup == "none"

\* DeleteCredentialGroup, of DeleteGroup and of an import.
DropGroup(r) ==
    /\ \/ req[r].pc = "dropGroup"
       \/ req[r].pc = "importDrop" /\ req[r].drop = 1
    /\ sealed' = [sealed EXCEPT !["group"] = None]
    /\ assigned' = AssignmentsWithoutGroup
    /\ Goto(r, IF req[r].pc = "dropGroup" THEN "idle" ELSE "importAssign")
    /\ DeletesGroup(r) /\ Committed
    /\ UNCHANGED <<template, process, rotation, mishap>>

\* SaveCredentialGroup, of SaveGroup and of an import.
SaveGroup(r) ==
    /\ \/ Arrives(r) /\ Goto(r, "mirror")
       \/ req[r].pc = "importGroup" /\ req[r].group = 1 /\ Goto(r, "importMirror")
    /\ sealed' = [sealed EXCEPT !["group"] = server]
    /\ Committed
    /\ UNCHANGED <<catalog, process, rotation, raced, mishap>>

\* The mirror of the group in the credentials table.
SaveMirror(r) ==
    /\ req[r].pc \in {"mirror", "importMirror"}
    /\ sealed' = [sealed EXCEPT !["credential"] = server]
    /\ Goto(r, IF req[r].pc = "mirror" THEN "idle" ELSE "importDrop")
    /\ Committed
    /\ UNCHANGED <<catalog, process, rotation, raced, mishap>>

\* templates.Save with a credential_ref: GetCredential finds and opens the row.
BeginSaveTemplate(r) ==
    /\ Arrives(r) /\ sealed["credential"] # None /\ Opens("credential")
    /\ Goto(r, "saveRef")
    /\ UNCHANGED <<sealed, catalog, process, wal, rotation, raced, mishap>>

SaveTemplateRef(r) ==
    /\ req[r].pc = "saveRef"
    /\ template' = "ref"
    /\ Goto(r, "idle") /\ SavesRef(r) /\ Committed
    /\ UNCHANGED <<sealed, assigned, process, rotation, mishap>>

\* templates.Save without a credential_ref, and Delete.
SaveOrDeleteTemplate(r) ==
    /\ Arrives(r)
    /\ template' \in {"none", "free"}
    /\ Committed
    /\ UNCHANGED <<sealed, assigned, req, process, rotation, raced, mishap>>

\* SaveGroupAssignments: the group is looked for among all rows, each opened.
BeginAssign(r) ==
    /\ Arrives(r) /\ sealed["group"] # None /\ Opens("group")
    /\ Goto(r, "assign")
    /\ UNCHANGED <<sealed, catalog, process, wal, rotation, raced, mishap>>

Assign(r) ==
    /\ req[r].pc = "assign"
    /\ assigned' = "set"
    /\ Goto(r, "idle") /\ Committed
    /\ UNCHANGED <<sealed, template, process, rotation, raced, mishap>>

Unassign(r) ==
    /\ Arrives(r)
    /\ assigned' = "none"
    /\ Committed
    /\ UNCHANGED <<sealed, template, req, process, rotation, raced, mishap>>

-----------------------------------------------------------------------------
(* Settings and second factor.                                             *)

\* settings.Save: a new token or the stored one, which "<set>" stands for, opened
\* and sealed again; or none.
SaveSettings(r) ==
    /\ Arrives(r)
    /\ \E token \in {None, server} : sealed' = [sealed EXCEPT !["token"] = token]
    /\ Committed
    /\ UNCHANGED <<catalog, req, process, rotation, raced, mishap>>

\* EnrollTOTP and DisableTOTP.
SetTotp(r) ==
    /\ Arrives(r)
    /\ \E value \in {None, server} : sealed' = [sealed EXCEPT !["totp"] = value]
    /\ Committed
    /\ UNCHANGED <<catalog, req, process, rotation, raced, mishap>>

-----------------------------------------------------------------------------
(* Import of a backup: everything is validated, then applied statement by   *)
(* statement.                                                              *)

\* validation.Settings: a sealed token, as Export writes it, has characters the
\* token pattern refuses; the placeholder passes while MCP is off.
ImportableTokens == {None, "plain", "placeholder"}

\* Validation, and SaveSettings.  The bundle holds the group or not, assigns the
\* device only to a group it holds, and has version 1 or later.
BeginImport(r) ==
    /\ Arrives(r) /\ Opens("group")
    /\ \E token \in ImportableTokens : sealed' = [sealed EXCEPT !["token"] = token]
    /\ \E group, assign \in 0 .. 1 :
         /\ assign = 1 => group = 1
         /\ req' = [req EXCEPT ![r] = [pc |-> "importTemplate", group |-> group, assign |-> assign,
                        drop |-> IF group = 0 /\ sealed["group"] # None THEN 1 ELSE 0]]
    /\ Committed
    /\ UNCHANGED <<catalog, process, rotation, raced, mishap>>

\* Faulty variant: the import keeps the reference the old row had.
ImportedTemplateRef == "ref"

\* SaveTemplate(name, content, "").
ImportedTemplate == "free"

\* The templates of the bundle; a bundle of version 1 ends here.
ImportTemplate(r) ==
    /\ req[r].pc = "importTemplate"
    /\ template' \in {template, ImportedTemplate}
    /\ \E pc \in {"importGroup", "idle"} : Goto(r, pc)
    /\ Committed
    /\ UNCHANGED <<sealed, assigned, process, rotation, raced, mishap>>

\* A loop of the import with nothing to do.
SkipImportStep(r) ==
    /\ \/ req[r].pc = "importGroup" /\ req[r].group = 0 /\ Goto(r, "importDrop")
       \/ req[r].pc = "importDrop" /\ req[r].drop = 0 /\ Goto(r, "importAssign")
    /\ UNCHANGED <<sealed, catalog, process, wal, rotation, raced, mishap>>

\* ReplaceDeviceCredentialGroupAssignments.
ImportAssignments(r) ==
    /\ req[r].pc = "importAssign"
    /\ assigned' = IF req[r].assign = 1 THEN "set" ELSE "none"
    /\ Goto(r, "idle") /\ Committed
    /\ UNCHANGED <<sealed, template, process, rotation, raced, mishap>>

\* A statement fails: the request answers with the error, and what it has
\* written stays.
StatementFails(r) ==
    /\ req[r].pc # "idle"
    /\ Goto(r, "idle")
    /\ UNCHANGED <<sealed, catalog, process, wal, rotation, raced, mishap>>

-----------------------------------------------------------------------------
(* The server process and its lock row.                                    *)

\* loadEncryptionKey, db.Open, lock.Acquire.  Nothing compares the key with the
\* blobs in the database.
Boot ==
    /\ server = None /\ lock # "fresh"
    /\ server' = envKey /\ lock' = "fresh"
    /\ mishap' = (mishap \/ (KeysInUse \ {envKey} # {}))
    /\ rotation' = [rotation EXCEPT !.live = IF rotation.pc = "idle" THEN 0 ELSE 1]
    /\ UNCHANGED <<sealed, catalog, req, envKey, wal, raced>>

\* Faulty variant: the process exits without closing the database.
WalAfterStopLeft == wal

\* database.Close of the last connection folds the WAL into the file; rotate-key
\* holds one of its own.
WalAfterStop == IF rotation.pc = "idle" THEN "clean" ELSE wal

\* SIGTERM: requests are drained or cut off, the lock is released.
Stop ==
    /\ Up
    /\ server' = None /\ lock' = "none" /\ wal' = WalAfterStop
    /\ req' = [r \in Requests |-> IdleReq]
    /\ UNCHANGED <<sealed, catalog, envKey, rotation, raced, mishap>>

\* SIGKILL, power loss: lock row and WAL stay.
Crash ==
    /\ Up
    /\ server' = None
    /\ wal' = IF rotation.pc = "idle" THEN Left(wal) ELSE wal
    /\ req' = [r \in Requests |-> IdleReq]
    /\ UNCHANGED <<sealed, catalog, envKey, lock, rotation, raced, mishap>>

\* The row is as old as StaleAfter: the server is gone, its heartbeats fail, or,
\* since StaleAfter is no longer than HeartbeatInterval, its next one is due.
LockTurnsStale ==
    /\ lock = "fresh"
    /\ lock' = "stale"
    /\ UNCHANGED <<sealed, catalog, req, server, envKey, wal, rotation, raced, mishap>>

Heartbeat ==
    /\ Up /\ lock = "stale"
    /\ lock' = "fresh"
    /\ UNCHANGED <<sealed, catalog, req, server, envKey, wal, rotation, raced, mishap>>

-----------------------------------------------------------------------------
(* rotate-key --force.                                                     *)

\* Faulty variant: the heartbeat is not looked at.
SeesNoServerAlways(unread) == TRUE

\* No row, one that cannot be read or whose time does not parse, or a heartbeat
\* that is no younger than StaleAfter.
SeesNoServer(unread) == unread \/ lock # "fresh"

\* Keys from the environment, db.Open, the look at the lock row.
RotateStarts ==
    /\ rotation.pc = "idle"
    /\ \E key \in Keys \ {envKey}, unread \in BOOLEAN :
         /\ SeesNoServer(unread)
         /\ rotation' = [pc |-> "checked", from |-> envKey, to |-> key,
                         live |-> IF Up /\ (unread \/ lock # "fresh") THEN 1 ELSE 0, copy |-> "none"]
    /\ UNCHANGED <<sealed, catalog, req, process, wal, raced, mishap>>

\* BackupDatabaseFile copies shellyctl.db, not its WAL.
RotateBacksUp ==
    /\ rotation.pc = "checked"
    /\ rotation' = [rotation EXCEPT !.pc = "backedUp",
                                     !.copy = IF wal = "clean" THEN "complete" ELSE "partial"]
    /\ UNCHANGED <<sealed, catalog, req, process, wal, raced, mishap>>

\* Faulty variant: the token inside the settings row is forgotten.
RotatedWithoutToken(key) ==
    [c \in Columns |-> IF sealed[c] \in Keys /\ c # "token" THEN key ELSE sealed[c]]

\* reseal of every blob; what is empty or no blob stays.
Rotated(key) == [c \in Columns |-> IF sealed[c] \in Keys THEN key ELSE sealed[c]]

\* RotateSealedColumns in one transaction: a blob the old key does not open
\* rolls all of it back.
RotateCommits ==
    /\ rotation.pc = "backedUp" /\ KeysInUse \subseteq {rotation.from}
    /\ sealed' = Rotated(rotation.to)
    /\ wal' = "dirty"
    /\ mishap' = (mishap \/ rotation.live = 1)
    /\ rotation' = [rotation EXCEPT !.pc = "done"]
    /\ UNCHANGED <<catalog, req, process, raced>>

RotateRefused ==
    /\ rotation.pc = "backedUp" /\ ~(KeysInUse \subseteq {rotation.from})
    /\ rotation' = [rotation EXCEPT !.pc = "failed"]
    /\ UNCHANGED <<sealed, catalog, req, process, wal, raced, mishap>>

\* The command ends and closes the database, or is killed.
RotateEnds ==
    /\ rotation.pc # "idle"
    /\ rotation' = NoRotation
    /\ \/ wal' = IF Up THEN wal ELSE Left(wal)
       \/ ~Up /\ rotation.pc \in {"done", "failed"} /\ wal' = "clean"
    /\ UNCHANGED <<sealed, catalog, req, process, raced, mishap>>

\* The operator points the variable at the other key.
SwitchKey ==
    /\ ~Up
    /\ envKey' \in Keys \ {envKey}
    /\ UNCHANGED <<sealed, catalog, req, server, lock, wal, rotation, raced, mishap>>

-----------------------------------------------------------------------------
RequestStep(r) ==
    \/ SaveCredential(r) \/ BeginDelete(r) \/ DropCredential(r) \/ DropGroup(r)
    \/ SaveGroup(r) \/ SaveMirror(r)
    \/ BeginSaveTemplate(r) \/ SaveTemplateRef(r) \/ SaveOrDeleteTemplate(r)
    \/ BeginAssign(r) \/ Assign(r) \/ Unassign(r)
    \/ SaveSettings(r) \/ SetTotp(r)
    \/ BeginImport(r) \/ ImportTemplate(r) \/ SkipImportStep(r) \/ ImportAssignments(r)
    \/ StatementFails(r)

Next ==
    \/ \E r \in Requests : RequestStep(r)
    \/ Boot \/ Stop \/ Crash \/ LockTurnsStale \/ Heartbeat
    \/ RotateStarts \/ RotateBacksUp \/ RotateCommits \/ RotateRefused \/ RotateEnds
    \/ SwitchKey

Spec == Init /\ [][Next]_vars

-----------------------------------------------------------------------------
(* Properties.                                                             *)

\* Rows, processes and requests have their types.
TypeOK ==
    /\ sealed \in [Columns -> Keys \cup Unsealed]
    /\ \A c \in Columns \ {"token"} : sealed[c] \in Keys \cup {None}
    /\ template \in {"none", "free", "ref"} /\ assigned \in {"none", "set"}
    /\ req \in [Requests -> ReqState]
    /\ server \in Keys \cup {None} /\ envKey \in Keys
    /\ lock \in {"none", "fresh", "stale"} /\ wal \in {"clean", "dirty", "left"}
    /\ rotation \in RotationState
    /\ raced \subseteq {"ref", "group"} /\ mishap \in BOOLEAN

\* All sealed values are under one key, and a running server can open every one
\* of them: RotateSealedColumns re-seals all or nothing, and its look at the
\* runtime lock keeps it away from a live server.  Exceptions: a server that
\* booted after the look; one whose row could not be read, or whose last
\* heartbeat was as old as StaleAfter at the look (a healthy server's is, just
\* before the next one); and one started with a key the database is not sealed
\* with.  All is well typed.
KeyAgreement ==
    /\ TypeOK
    /\ ~mishap => \E key \in Keys : KeysInUse \subseteq {key} /\ (Up => key = server)

\* A template refers to a credential that exists, unless a save and a delete each
\* ran their check before the other's write, or a delete could not read the
\* template and passed over it: Delete refuses a credential that a template
\* names, templates.Save one that does not exist, and nothing else, import and
\* group deletion included, breaks the link.
NoDanglingRef == "ref" \notin raced => (template = "ref" => sealed["credential"] # None)

\* A device is assigned to a group that exists, whatever statement of whatever
\* request or import fails, unless a group was deleted under a request that had
\* found it.
NoOrphanAssignment == "group" \notin raced => (assigned = "set" => sealed["group"] # None)

\* The copy that rotate-key makes before it writes holds every committed row,
\* unless a killed process left frames in the WAL or a server runs beside it:
\* BackupDatabaseFile copies the database file alone.
BackupIsComplete ==
    [][rotation.pc = "checked" /\ rotation'.pc = "backedUp" =>
         rotation'.copy = "complete" \/ wal = "left" \/ rotation.live = 1]_vars
=============================================================================
