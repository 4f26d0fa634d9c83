---------------------------- MODULE Reservations ----------------------------
(***************************************************************************)
(* Per-device admission control between the operations that write to a     *)
(* device: Provision and UploadUserCA on one side, FirmwareUpdate and the  *)
(* firmware_install job on the other.                                      *)
(*                                                                         *)
(* AppService keeps two in-memory sets of target keys, activeProvision and *)
(* activeFirmware, guarded by one mutex (internal/services/app_jobs.go).   *)
(* An operation resolves its targets against a snapshot of the inventory,  *)
(* reserves the keys the other family does not hold, works through the     *)
(* allowed ones and releases them from a deferred call.  A key is          *)
(* "mac:<mac>" for an enrolled device and "ip:<ip>" for an unknown one.    *)
(*                                                                         *)
(* The sets belong to one AppService.  The MCP listener has an AppService  *)
(* of its own (internal/mcp/server.go) and with it sets of its own: the    *)
(* model is of the operations of one service, and says nothing of two.     *)
(***************************************************************************)
EXTENDS Naturals, FiniteSets

CONSTANTS
    Devices,             \* physical devices; a device has one IP and one MAC
    Ops,                 \* operation slots: concurrent requests and jobs
    InstallConcurrency   \* FirmwareInstallConcurrency of jobs/types.go

ASSUME InstallConcurrencyAssumption == InstallConcurrency \in Nat \ {0}

VARIABLES
    inventory,        \* the devices table: is the device enrolled, is it locked
    scanRunning,      \* the latest scan row is "running"
    activeProvision,  \* AppService.activeProvision
    activeFirmware,   \* AppService.activeFirmware
    op,               \* local state of each operation
    shared            \* auxiliary: <<family, key>> pairs two live operations of
                      \* that family have held at once, until the last is done

vars == <<inventory, scanRunning, activeProvision, activeFirmware, op, shared>>

Keys == {"mac", "ip"} \X Devices
Families == {"provision", "firmware"}
Kinds == {"provision", "upload", "update", "install"}

Family(kind) == IF kind \in {"provision", "upload"} THEN "provision" ELSE "firmware"

\* The set an operation reserves into, and the one it must stay out of.
Active(fam) == IF fam = "provision" THEN activeProvision ELSE activeFirmware
Opposite(fam) == IF fam = "provision" THEN activeFirmware ELSE activeProvision

\* How many devices an operation works on at once: only an install fans out.
Width(kind) == IF kind = "install" THEN InstallConcurrency ELSE 1

Enrolled == {d \in Devices : inventory[d] # "absent"}

\* ipToKey: an enrolled device is reserved by MAC, an unknown one by IP.
KeyOf(d) == IF inventory[d] = "absent" THEN <<"ip", d>> ELSE <<"mac", d>>

Idle == [pc |-> "idle", kind |-> "provision", known |-> {}, want |-> {},
         allowed |-> {}, todo |-> {}, busy |-> {}]

OpStates == [pc : {"idle", "reserving", "working"}, kind : Kinds,
             known : SUBSET Devices, want : SUBSET Keys,
             allowed : SUBSET Keys, todo : SUBSET Keys, busy : SUBSET Keys]

Init ==
    /\ inventory \in [Devices -> {"absent", "open", "auth"}]
    /\ scanRunning = FALSE
    /\ activeProvision = {}
    /\ activeFirmware = {}
    /\ op = [o \in Ops |-> Idle]
    /\ shared = {}

-----------------------------------------------------------------------------
(* Admission: the checks before the reservation, against one ListDevices.  *)

\* The operation has its requested keys and is about to call Reserve*.
Requested(o, kind, known, want) ==
    /\ op[o].pc = "idle"
    /\ op' = [op EXCEPT ![o] = [Idle EXCEPT !.pc = "reserving", !.kind = kind,
                                            !.known = known, !.want = want]]
    /\ UNCHANGED <<inventory, scanRunning, activeProvision, activeFirmware, shared>>

\* Provision: refused while a scan is running; a locked device is skipped
\* when no credential is given.
BeginProvision(o, targets, withCredential) ==
    /\ ~scanRunning
    /\ LET tried == {d \in targets : inventory[d] = "auth" => withCredential}
       IN  Requested(o, "provision", targets \cap Enrolled, {KeyOf(d) : d \in tried})

\* UploadUserCA: the same gate without the credential precheck.
BeginUpload(o, targets) ==
    /\ ~scanRunning
    /\ Requested(o, "upload", {}, {KeyOf(d) : d \in targets})

\* FirmwareUpdate and the firmware_install job: enrolled MACs only; an
\* install with no valid device is an error.
BeginFirmware(o, kind, targets) ==
    /\ kind = "install" => targets \cap Enrolled # {}
    /\ Requested(o, kind, {}, {<<"mac", d>> : d \in targets \cap Enrolled})

-----------------------------------------------------------------------------
(* The reservation itself: one critical section under AppService.mu.       *)

\* Faulty variant: the other family's set is not consulted.
AllowedUnchecked(o) == op[o].want

\* Keys that stay unreserved because the other family holds them are skipped.
Allowed(o) == op[o].want \ Opposite(Family(op[o].kind))

Holders(fam, k) == {o \in Ops : /\ op[o].pc = "working"
                                /\ Family(op[o].kind) = fam
                                /\ k \in op[o].allowed}

Reserve(o) ==
    /\ op[o].pc = "reserving"
    /\ LET fam == Family(op[o].kind)
           allowed == Allowed(o)
       IN  /\ op' = [op EXCEPT ![o] = [@ EXCEPT !.pc = "working", !.want = {},
                                           !.allowed = allowed, !.todo = allowed]]
           /\ activeProvision' = IF fam = "provision" THEN activeProvision \cup allowed
                                                      ELSE activeProvision
           /\ activeFirmware' = IF fam = "firmware" THEN activeFirmware \cup allowed
                                                    ELSE activeFirmware
           /\ shared' = shared \cup
                        {<<fam, k>> : k \in {k \in allowed : Holders(fam, k) # {}}}
    /\ UNCHANGED <<inventory, scanRunning>>

-----------------------------------------------------------------------------
(* The work on the allowed devices and the deferred release.               *)

\* The next allowed device is contacted.
StartDevice(o, k) ==
    /\ op[o].pc = "working"
    /\ k \in op[o].todo
    /\ Cardinality(op[o].busy) < Width(op[o].kind)
    /\ op' = [op EXCEPT ![o].todo = @ \ {k}, ![o].busy = @ \cup {k}]
    /\ UNCHANGED <<inventory, scanRunning, activeProvision, activeFirmware, shared>>

\* The device is done, whatever the outcome.  A provision that met 401/403
\* writes the row it read before the reservation back as locked, and so
\* re-creates it if it has been forgotten meanwhile.
EndDevice(o, k) ==
    /\ op[o].pc = "working"
    /\ k \in op[o].busy
    /\ op' = [op EXCEPT ![o].busy = @ \ {k}]
    /\ \/ inventory' = inventory
       \/ /\ op[o].kind = "provision"
          /\ k[2] \in op[o].known
          /\ inventory' = [inventory EXCEPT ![k[2]] = "auth"]
    /\ UNCHANGED <<scanRunning, activeProvision, activeFirmware, shared>>

\* Faulty variants: the deferred release is missing; it clears the whole set.
DropNone(active, keys) == active
DropAll(active, keys) == IF keys = {} THEN active ELSE {}

\* The delete loop of Release*Targets, under AppService.mu.
DropKeys(active, keys) == active \ keys

\* The deferred Release*Targets(allowed).
Release(o) ==
    /\ op[o].pc = "working"
    /\ op[o].todo = {}
    /\ op[o].busy = {}
    /\ LET fam == Family(op[o].kind)
           keys == op[o].allowed
       IN  /\ activeProvision' = IF fam = "provision" THEN DropKeys(activeProvision, keys)
                                                      ELSE activeProvision
           /\ activeFirmware' = IF fam = "firmware" THEN DropKeys(activeFirmware, keys)
                                                    ELSE activeFirmware
           /\ shared' = shared \ {<<fam, k>> : k \in {k \in keys : Holders(fam, k) = {o}}}
    /\ op' = [op EXCEPT ![o] = Idle]
    /\ UNCHANGED <<inventory, scanRunning>>

-----------------------------------------------------------------------------
(* The rest of the service, as far as these operations see it.             *)

\* ConfirmScan enrols a device; a refresh that gets through clears the lock
\* and one that meets 401/403 sets it.
Enrol(d) ==
    /\ inventory[d] = "absent"
    /\ inventory' = [inventory EXCEPT ![d] = "open"]
    /\ UNCHANGED <<scanRunning, activeProvision, activeFirmware, op, shared>>

RefreshAuth(d) ==
    /\ inventory[d] # "absent"
    /\ inventory' = [inventory EXCEPT ![d] = IF @ = "auth" THEN "open" ELSE "auth"]
    /\ UNCHANGED <<scanRunning, activeProvision, activeFirmware, op, shared>>

ForgetDevice(d) ==
    /\ inventory[d] # "absent"
    /\ inventory' = [inventory EXCEPT ![d] = "absent"]
    /\ UNCHANGED <<scanRunning, activeProvision, activeFirmware, op, shared>>

\* StartScan does not look at the reservations; the scan ends on its own.
ScanStartsOrEnds ==
    /\ scanRunning' = ~scanRunning
    /\ UNCHANGED <<inventory, activeProvision, activeFirmware, op, shared>>

-----------------------------------------------------------------------------
OpStep(o) ==
    \/ Reserve(o)
    \/ \E k \in Keys : StartDevice(o, k) \/ EndDevice(o, k)
    \/ Release(o)

Next ==
    \/ \E o \in Ops, T \in (SUBSET Devices) \ {{}} :
          \/ \E c \in BOOLEAN : BeginProvision(o, T, c)
          \/ BeginUpload(o, T)
          \/ \E kind \in {"update", "install"} : BeginFirmware(o, kind, T)
    \/ \E o \in Ops : OpStep(o)
    \/ \E d \in Devices : Enrol(d) \/ RefreshAuth(d) \/ ForgetDevice(d)
    \/ ScanStartsOrEnds

Spec == Init /\ [][Next]_vars

-----------------------------------------------------------------------------
TypeOK ==
    /\ inventory \in [Devices -> {"absent", "open", "auth"}]
    /\ scanRunning \in BOOLEAN
    /\ activeProvision \subseteq Keys
    /\ activeFirmware \subseteq Keys
    /\ op \in [Ops -> OpStates]
    /\ shared \subseteq Families \X Keys

\* No reservation outlives its operations: a key is in a set only while an
\* operation of that family that was allowed the key is still in flight, so a
\* device is never left "busy" (app_jobs.go: the deferred Release calls).
NoLeakedReservation ==
    \A fam \in Families : \A k \in Active(fam) : Holders(fam, k) # {}

\* What the two sets do give: a provision-family and a firmware-family
\* operation work on the device of one MAC key at the same time only if one of
\* them shares the key with another operation of its own family (the sets keep
\* no count, so the first release drops the key under the second).
ExclusionUnlessShared ==
    \A p \in Ops, f \in Ops, d \in Devices :
        /\ Family(op[p].kind) = "provision"
        /\ Family(op[f].kind) = "firmware"
        /\ <<"mac", d>> \in op[p].busy
        /\ <<"mac", d>> \in op[f].busy
        => \E fam \in Families : <<fam, <<"mac", d>>>> \in shared

\* The inductive invariant behind the two invariants above.

\* The same key is never in both sets.
SetsDisjoint == activeProvision \cap activeFirmware = {}

\* Work stays within the allowed keys, and only a working operation has any.
WorkWithinAllowed ==
    \A o \in Ops : /\ op[o].todo \cup op[o].busy \subseteq op[o].allowed
                   /\ op[o].pc # "working" => op[o].allowed = {}

\* Two live holders of one key in one family are on record...
SharingRecorded ==
    \A fam \in Families, k \in Keys : \A p, q \in Holders(fam, k) :
        p # q => <<fam, k>> \in shared

\* ... and a holder whose key is not on record is still protected.
HoldersProtected ==
    \A fam \in Families, k \in Keys :
        Holders(fam, k) # {} => k \in Active(fam) \/ <<fam, k>> \in shared

\* Everything the reservation sets maintain, in one inductive formula: the
\* sets stay disjoint, leak nothing and protect every unshared holder.
IndInv ==
    /\ TypeOK
    /\ SetsDisjoint
    /\ NoLeakedReservation
    /\ WorkWithinAllowed
    /\ SharingRecorded
    /\ HoldersProtected

\* A device reported "busy with firmware update" or "busy with provisioning"
\* really has an operation of the other family in flight on that key at the
\* moment of the reservation.
SkippedOnlyIfBusy ==
    [][\A o \in Ops :
          op[o].pc = "reserving" /\ op'[o].pc = "working" =>
             \A k \in op[o].want \ op'[o].allowed :
                \E fam \in Families \ {Family(op[o].kind)} : Holders(fam, k) # {}]_vars

\* A working operation loses the protection of a reserved key only through
\* the release of another operation of its own family that was allowed the
\* same key.
ProtectionLostOnlyToOwnFamily ==
    [][\A fam \in Families, k \in Keys, o \in Ops :
          /\ o \in Holders(fam, k) /\ k \in Active(fam)
          /\ o \in Holders(fam, k)' /\ k \notin Active(fam)'
          => \E q \in Ops \ {o} : q \in Holders(fam, k) /\ q \notin Holders(fam, k)']_vars
=============================================================================
