--------------------------- MODULE ExclusionProofs ---------------------------
(***************************************************************************)
(* What keeps work apart.  Reservations: the two families of operations on *)
(* a device, for any set of devices and any number of concurrent           *)
(* operations.  RuntimeLock: the instances on one database, for any number *)
(* of containers and hosts and any timing that satisfies SafeTiming.       *)
(***************************************************************************)
EXTENDS Reservations, RuntimeLock, TLAPS

-----------------------------------------------------------------------------
(* Reservations.                                                           *)


\* The family of an operation is one of the two.
LEMMA FamilyType == \A kind : Family(kind) \in Families
  BY DEF Family, Families

\* The resting state of an operation slot is a well-typed one.
LEMMA IdleType == Idle \in OpStates
  BY DEF Idle, OpStates, Kinds

\* The initial state satisfies the inductive invariant.
LEMMA InitIndInv == Init => IndInv
<1> SUFFICES ASSUME Init PROVE IndInv
  OBVIOUS
<1>1. TypeOK
  BY IdleType DEF Init, TypeOK
<1>2. \A o \in Ops : op[o] = Idle
  BY DEF Init
<1>3. \A fam, k : Holders(fam, k) = {}
  BY <1>2 DEF Holders, Idle
<1>4. \A fam : Active(fam) = {}
  BY DEF Init, Active
<1>5. SetsDisjoint
  BY DEF Init, SetsDisjoint
<1>6. WorkWithinAllowed
  BY <1>2 DEF WorkWithinAllowed, Idle
<1> QED
  BY <1>1, <1>3, <1>4, <1>5, <1>6
     DEF IndInv, NoLeakedReservation, SharingRecorded, HoldersProtected

\* A step that neither reserves nor releases: the holders and the sets stay.
LEMMA QuietStep ==
  ASSUME IndInv, TypeOK', WorkWithinAllowed',
         UNCHANGED <<activeProvision, activeFirmware, shared>>,
         \A fam \in Families, k \in Keys : Holders(fam, k)' = Holders(fam, k)
  PROVE  IndInv'
<1>1. SetsDisjoint'
  BY DEF IndInv, SetsDisjoint
<1>2. \A fam : Active(fam)' = Active(fam)
  BY DEF Active
<1>3. \A fam : Active(fam) \subseteq Keys
  BY DEF IndInv, TypeOK, Active
<1> QED
  BY <1>1, <1>2, <1>3
     DEF IndInv, NoLeakedReservation, SharingRecorded, HoldersProtected

\* An admission check only records the request.
LEMMA RequestedIndInv ==
  ASSUME IndInv, NEW o \in Ops, NEW kind \in Kinds, NEW known \in SUBSET Devices,
         NEW want \in SUBSET Keys, Requested(o, kind, known, want)
  PROVE  IndInv'
<1> DEFINE new == [Idle EXCEPT !.pc = "reserving", !.kind = kind,
                               !.known = known, !.want = want]
<1>1. new \in OpStates
  BY DEF Idle, OpStates
<1>2. op \in [Ops -> OpStates] /\ op' = [op EXCEPT ![o] = new]
  BY DEF IndInv, TypeOK, Requested
<1>3. /\ new.pc = "reserving" /\ new.allowed = {} /\ new.todo = {} /\ new.busy = {}
      /\ op[o].pc = "idle"
  BY DEF Idle, Requested
<1>4. TypeOK'
  BY <1>1, <1>2 DEF IndInv, TypeOK, Requested
<1>5. WorkWithinAllowed'
  BY <1>2, <1>3 DEF IndInv, WorkWithinAllowed
<1>6. \A fam \in Families, k \in Keys : Holders(fam, k)' = Holders(fam, k)
  BY <1>2, <1>3 DEF Holders
<1> QED
  BY <1>4, <1>5, <1>6, QuietStep DEF Requested

\* The reservation: the operation joins the holders of what it was allowed.
LEMMA ReserveIndInv ==
  ASSUME IndInv, NEW o \in Ops, Reserve(o)
  PROVE  IndInv'
<1> DEFINE F == Family(op[o].kind)
           A == Allowed(o)
           new == [op[o] EXCEPT !.pc = "working", !.want = {}, !.allowed = A, !.todo = A]
<1>1. /\ op \in [Ops -> OpStates] /\ op[o] \in OpStates
      /\ op' = [op EXCEPT ![o] = new] /\ op[o].pc = "reserving"
  BY DEF IndInv, TypeOK, Reserve
<1>2. A \subseteq Keys
  BY <1>1 DEF Allowed, OpStates
<1>3. /\ new \in OpStates /\ new.kind = op[o].kind /\ new.pc = "working"
      /\ new.allowed = A /\ new.todo = A /\ new.busy = op[o].busy
  BY <1>1, <1>2 DEF OpStates
<1>4. F \in Families /\ Families = {"provision", "firmware"}
  BY FamilyType DEF Families
<1>5. \A fam, k : Holders(fam, k)' =
                    Holders(fam, k) \cup (IF fam = F /\ k \in A THEN {o} ELSE {})
  BY <1>1, <1>3 DEF Holders
<1>6. \A fam \in Families : Active(fam)' = Active(fam) \cup (IF fam = F THEN A ELSE {})
  BY <1>4 DEF Reserve, Active
<1>7. shared' = shared \cup {<<F, k>> : k \in {k \in A : Holders(F, k) # {}}}
  BY DEF Reserve
<1>8. TypeOK'
  <2>1. /\ activeProvision' \subseteq Keys /\ activeFirmware' \subseteq Keys
        /\ UNCHANGED <<inventory, scanRunning>>
    BY <1>2 DEF IndInv, TypeOK, Reserve
  <2>2. op' \in [Ops -> OpStates]
    BY <1>1, <1>3
  <2>3. shared' \subseteq Families \X Keys
    BY <1>2, <1>4, <1>7 DEF IndInv, TypeOK
  <2> QED
    BY <2>1, <2>2, <2>3 DEF IndInv, TypeOK
<1>9. SetsDisjoint'
  BY DEF IndInv, SetsDisjoint, Reserve, Allowed, Opposite, Family
<1>10. NoLeakedReservation'
  BY <1>5, <1>6 DEF IndInv, NoLeakedReservation
<1>11. WorkWithinAllowed'
  BY <1>1, <1>3 DEF IndInv, WorkWithinAllowed
<1>12. SharingRecorded'
  <2> SUFFICES ASSUME NEW fam \in Families, NEW k \in Keys,
                      NEW p \in Holders(fam, k)', NEW q \in Holders(fam, k)', p # q
               PROVE  <<fam, k>> \in shared'
    BY DEF SharingRecorded
  <2>1. CASE p \in Holders(fam, k) /\ q \in Holders(fam, k)
    BY <2>1, <1>7 DEF IndInv, SharingRecorded
  <2>2. CASE ~(p \in Holders(fam, k) /\ q \in Holders(fam, k))
    <3>1. fam = F /\ k \in A /\ Holders(F, k) # {}
      BY <2>2, <1>5
    <3> QED
      BY <3>1, <1>7
  <2> QED
    BY <2>1, <2>2
<1>13. HoldersProtected'
  BY <1>5, <1>6, <1>7 DEF IndInv, HoldersProtected
<1> QED
  BY <1>8, <1>9, <1>10, <1>11, <1>12, <1>13 DEF IndInv

\* Work on one device moves a key from todo to busy, or out of busy.
LEMMA DeviceIndInv ==
  ASSUME IndInv, NEW o \in Ops, NEW k \in Keys, StartDevice(o, k) \/ EndDevice(o, k)
  PROVE  IndInv'
<1> DEFINE new == op'[o]
<1>1. op \in [Ops -> OpStates] /\ op[o] \in OpStates
  BY DEF IndInv, TypeOK
<1>2. /\ op' = [op EXCEPT ![o] = new] /\ new \in OpStates
      /\ new.pc = op[o].pc /\ new.kind = op[o].kind /\ new.allowed = op[o].allowed
      /\ new.todo \cup new.busy \subseteq op[o].todo \cup op[o].busy
  <2>1. CASE StartDevice(o, k)
    <3>1. op' = [op EXCEPT ![o] = [op[o] EXCEPT !.todo = op[o].todo \ {k},
                                                !.busy = op[o].busy \cup {k}]]
      BY <1>1, <2>1 DEF StartDevice
    <3> DEFINE r == [op[o] EXCEPT !.todo = op[o].todo \ {k}, !.busy = op[o].busy \cup {k}]
    <3>2. r \in OpStates
      BY <1>1 DEF OpStates
    <3>3. /\ r.pc = op[o].pc /\ r.kind = op[o].kind /\ r.allowed = op[o].allowed
          /\ r.todo = op[o].todo \ {k} /\ r.busy = op[o].busy \cup {k}
      BY <1>1 DEF OpStates
    <3>4. k \in op[o].todo /\ new = r
      BY <1>1, <2>1, <3>1 DEF StartDevice
    <3> HIDE DEF r
    <3> QED
      BY <1>1, <3>1, <3>2, <3>3, <3>4
  <2>2. CASE EndDevice(o, k)
    <3>1. op' = [op EXCEPT ![o] = [op[o] EXCEPT !.busy = op[o].busy \ {k}]]
      BY <1>1, <2>2 DEF EndDevice
    <3> QED
      BY <1>1, <2>2, <3>1 DEF OpStates
  <2> QED
    BY <2>1, <2>2
<1>3. UNCHANGED <<scanRunning, activeProvision, activeFirmware, shared>>
  BY DEF StartDevice, EndDevice
<1>4. inventory' \in [Devices -> {"absent", "open", "auth"}]
  BY DEF IndInv, TypeOK, StartDevice, EndDevice
<1> HIDE DEF new
<1>5. TypeOK'
  BY <1>1, <1>2, <1>3, <1>4 DEF IndInv, TypeOK
<1>6. WorkWithinAllowed'
  BY <1>1, <1>2 DEF IndInv, WorkWithinAllowed
<1>7. \A fam \in Families, j \in Keys : Holders(fam, j)' = Holders(fam, j)
  BY <1>1, <1>2 DEF Holders
<1> QED
  BY <1>3, <1>5, <1>6, <1>7, QuietStep

\* The release: the operation leaves the holders, and the keys it held leave
\* its family's set even if another operation still holds them.
LEMMA ReleaseIndInv ==
  ASSUME IndInv, NEW o \in Ops, Release(o)
  PROVE  IndInv'
<1> DEFINE F == Family(op[o].kind)
           A == op[o].allowed
<1>1. /\ op \in [Ops -> OpStates] /\ op' = [op EXCEPT ![o] = Idle]
      /\ op[o].pc = "working"
  BY DEF IndInv, TypeOK, Release
<1>2. F \in Families /\ Families = {"provision", "firmware"}
  BY FamilyType DEF Families
<1>3. \A fam, k : Holders(fam, k)' = Holders(fam, k) \ {o}
  BY <1>1 DEF Holders, Idle
<1>4. \A fam, k : o \in Holders(fam, k) <=> fam = F /\ k \in A
  BY <1>1 DEF Holders
<1>5. \A fam \in Families : Active(fam)' = IF fam = F THEN Active(fam) \ A ELSE Active(fam)
  BY <1>2 DEF Release, Active, DropKeys
<1>6. shared' = shared \ {<<F, k>> : k \in {k \in A : Holders(F, k) = {o}}}
  BY DEF Release
<1>7. TypeOK'
  BY <1>1, <1>6, IdleType DEF IndInv, TypeOK, Release, DropKeys
<1>8. SetsDisjoint'
  BY DEF IndInv, SetsDisjoint, Release, DropKeys
<1>9. NoLeakedReservation'
  <2> SUFFICES ASSUME NEW fam \in Families, NEW k \in Active(fam)'
               PROVE  Holders(fam, k)' # {}
    BY DEF NoLeakedReservation
  <2>1. k \in Active(fam) /\ ~(fam = F /\ k \in A)
    BY <1>5
  <2>2. Holders(fam, k) # {}
    BY <2>1 DEF IndInv, NoLeakedReservation
  <2> QED
    BY <2>1, <2>2, <1>3, <1>4
<1>10. WorkWithinAllowed'
  BY <1>1 DEF IndInv, WorkWithinAllowed, Idle
<1>11. SharingRecorded'
  <2> SUFFICES ASSUME NEW fam \in Families, NEW k \in Keys,
                      NEW p \in Holders(fam, k)', NEW q \in Holders(fam, k)', p # q
               PROVE  <<fam, k>> \in shared'
    BY DEF SharingRecorded
  <2>1. p \in Holders(fam, k) /\ q \in Holders(fam, k) /\ <<fam, k>> \in shared
    BY <1>3 DEF IndInv, SharingRecorded
  <2> QED
    BY <2>1, <1>3, <1>6
<1>12. HoldersProtected'
  <2> SUFFICES ASSUME NEW fam \in Families, NEW k \in Keys, NEW q \in Holders(fam, k)'
               PROVE  k \in Active(fam)' \/ <<fam, k>> \in shared'
    BY DEF HoldersProtected
  <2>1. q \in Holders(fam, k) /\ q # o /\ Holders(fam, k) # {o}
    BY <1>3
  <2>2. <<fam, k>> \in shared => <<fam, k>> \in shared'
    BY <2>1, <1>6
  <2>3. CASE fam = F /\ k \in A
    BY <2>1, <2>2, <2>3, <1>4 DEF IndInv, SharingRecorded
  <2>4. CASE ~(fam = F /\ k \in A)
    BY <2>1, <2>2, <2>4, <1>5 DEF IndInv, HoldersProtected
  <2> QED
    BY <2>3, <2>4
<1> QED
  BY <1>7, <1>8, <1>9, <1>10, <1>11, <1>12 DEF IndInv

\* Every step preserves the inductive invariant.
LEMMA NextIndInv == IndInv /\ [Next]_vars => IndInv'
<1> SUFFICES ASSUME IndInv, [Next]_vars PROVE IndInv'
  OBVIOUS
<1>0. Enrolled \subseteq Devices /\ \A d \in Devices : KeyOf(d) \in Keys /\ <<"mac", d>> \in Keys
  BY DEF Enrolled, KeyOf, Keys
<1>1. ASSUME NEW o \in Ops, NEW T \in SUBSET Devices, NEW c \in BOOLEAN,
             BeginProvision(o, T, c)
      PROVE  IndInv'
  <2> DEFINE want == {KeyOf(d) : d \in {d \in T : inventory[d] = "auth" => c}}
  <2>1. want \in SUBSET Keys /\ T \cap Enrolled \in SUBSET Devices
    BY <1>0
  <2>2. Requested(o, "provision", T \cap Enrolled, want)
    BY <1>1 DEF BeginProvision
  <2> QED
    BY <2>1, <2>2, RequestedIndInv DEF Kinds
<1>2. ASSUME NEW o \in Ops, NEW T \in SUBSET Devices, BeginUpload(o, T)
      PROVE  IndInv'
  <2>1. {KeyOf(d) : d \in T} \in SUBSET Keys
    BY <1>0
  <2> QED
    BY <1>2, <2>1, RequestedIndInv DEF BeginUpload, Kinds
<1>3. ASSUME NEW o \in Ops, NEW T \in SUBSET Devices, NEW kind \in {"update", "install"},
             BeginFirmware(o, kind, T)
      PROVE  IndInv'
  <2>1. {<<"mac", d>> : d \in T \cap Enrolled} \in SUBSET Keys
    BY <1>0
  <2> QED
    BY <1>3, <2>1, RequestedIndInv DEF BeginFirmware, Kinds
<1>4. ASSUME NEW o \in Ops, OpStep(o) PROVE IndInv'
  BY <1>4, ReserveIndInv, DeviceIndInv, ReleaseIndInv DEF OpStep
<1>5. ASSUME NEW d \in Devices, Enrol(d) \/ RefreshAuth(d) \/ ForgetDevice(d)
      PROVE  IndInv'
  <2>1. UNCHANGED <<scanRunning, activeProvision, activeFirmware, op, shared>>
    BY <1>5 DEF Enrol, RefreshAuth, ForgetDevice
  <2>2. inventory' \in [Devices -> {"absent", "open", "auth"}]
    BY <1>5 DEF IndInv, TypeOK, Enrol, RefreshAuth, ForgetDevice
  <2>3. TypeOK' /\ WorkWithinAllowed'
    BY <2>1, <2>2 DEF IndInv, TypeOK, WorkWithinAllowed
  <2>4. \A fam, k : Holders(fam, k)' = Holders(fam, k)
    BY <2>1 DEF Holders
  <2> QED
    BY <2>1, <2>3, <2>4, QuietStep
<1>6. ASSUME ScanStartsOrEnds \/ UNCHANGED vars
      PROVE  IndInv'
  <2>1. UNCHANGED <<inventory, activeProvision, activeFirmware, op, shared>>
    BY <1>6 DEF ScanStartsOrEnds, vars
  <2>2. scanRunning' \in BOOLEAN
    BY <1>6 DEF IndInv, TypeOK, ScanStartsOrEnds, vars
  <2>3. TypeOK' /\ WorkWithinAllowed'
    BY <2>1, <2>2 DEF IndInv, TypeOK, WorkWithinAllowed
  <2>4. \A fam, k : Holders(fam, k)' = Holders(fam, k)
    BY <2>1 DEF Holders
  <2> QED
    BY <2>1, <2>3, <2>4, QuietStep
<1> QED
  BY <1>1, <1>2, <1>3, <1>4, <1>5, <1>6 DEF Next

\* The inductive invariant holds in every reachable state of the admission
\* control, for any number of devices and concurrent operations.
THEOREM IndInvHolds == Spec => []IndInv
  BY InitIndInv, NextIndInv, PTL DEF Spec

\* The variables keep their types (app_jobs.go: two sets of string keys).
THEOREM TypeCorrect == Spec => []TypeOK
<1>1. IndInv => TypeOK
  BY DEF IndInv
<1> QED
  BY <1>1, IndInvHolds, PTL

\* No reserved key outlives the operations that were allowed it: the deferred
\* Release calls leave no device "busy" for ever.
THEOREM NoLeak == Spec => []NoLeakedReservation
<1>1. IndInv => NoLeakedReservation
  BY DEF IndInv
<1> QED
  BY <1>1, IndInvHolds, PTL

\* A provision and a firmware operation meet on an enrolled device only when
\* one of them shared its key with another operation of its own family.
THEOREM Exclusion == Spec => []ExclusionUnlessShared
<1>1. IndInv => ExclusionUnlessShared
  <2> SUFFICES ASSUME IndInv, NEW p \in Ops, NEW f \in Ops, NEW d \in Devices,
                      Family(op[p].kind) = "provision", Family(op[f].kind) = "firmware",
                      <<"mac", d>> \in op[p].busy, <<"mac", d>> \in op[f].busy
               PROVE  \E fam \in Families : <<fam, <<"mac", d>>>> \in shared
    BY DEF ExclusionUnlessShared
  <2> DEFINE k == <<"mac", d>>
  <2>1. k \in Keys
    BY DEF Keys
  <2>2. \A o \in Ops : k \in op[o].busy => o \in Holders(Family(op[o].kind), k)
    BY DEF IndInv, WorkWithinAllowed, Holders
  <2>3. p \in Holders("provision", k) /\ f \in Holders("firmware", k)
    BY <2>2
  <2>4. /\ k \in activeProvision \/ <<"provision", k>> \in shared
        /\ k \in activeFirmware \/ <<"firmware", k>> \in shared
    BY <2>1, <2>3 DEF IndInv, HoldersProtected, Families, Active
  <2> QED
    BY <2>4 DEF IndInv, SetsDisjoint, Families
<1> QED
  BY <1>1, IndInvHolds, PTL

\* A device reported busy has an operation of the other family in flight on
\* the same key when the reservation is made.
THEOREM SkipIsHonest == Spec => SkippedOnlyIfBusy
<1> DEFINE Honest == \A o \in Ops :
              op[o].pc = "reserving" /\ op'[o].pc = "working" =>
                 \A k \in op[o].want \ op'[o].allowed :
                    \E fam \in Families \ {Family(op[o].kind)} : Holders(fam, k) # {}
<1>1. IndInv /\ [Next]_vars => [Honest]_vars
  <2> SUFFICES ASSUME IndInv, Next, NEW o \in Ops,
                      op[o].pc = "reserving", op'[o].pc = "working",
                      NEW k \in op[o].want \ op'[o].allowed
               PROVE  \E fam \in Families \ {Family(op[o].kind)} : Holders(fam, k) # {}
    OBVIOUS
  <2>1. op \in [Ops -> OpStates]
    BY DEF IndInv, TypeOK
  <2>2. Reserve(o)
    <3>1. ASSUME NEW q \in Ops, NEW kind, NEW known, NEW want, Requested(q, kind, known, want)
          PROVE  FALSE
      BY <3>1, <2>1 DEF Requested, Idle
    <3>2. ASSUME NEW q \in Ops, NEW j \in Keys, StartDevice(q, j) \/ EndDevice(q, j)
          PROVE  FALSE
      BY <3>2, <2>1 DEF StartDevice, EndDevice, OpStates
    <3>3. ASSUME NEW q \in Ops, Reserve(q) \/ Release(q), ~Reserve(o)
          PROVE  FALSE
      <4>1. q = o \/ op'[o] = op[o]
        BY <3>3, <2>1 DEF Reserve, Release
      <4>2. CASE q = o
        BY <3>3, <4>2 DEF Release
      <4> QED
        BY <4>1, <4>2
    <3>4. op' # op
      BY <2>1
    <3> QED
      BY <3>1, <3>2, <3>3, <3>4
         DEF Next, OpStep, BeginProvision, BeginUpload, BeginFirmware,
             Enrol, RefreshAuth, ForgetDevice, ScanStartsOrEnds
  <2>3. op'[o].allowed = Allowed(o)
    BY <2>1, <2>2 DEF Reserve, OpStates
  <2>4. k \in Opposite(Family(op[o].kind))
    BY <2>3 DEF Allowed
  <2> QED
    BY <2>4, FamilyType DEF IndInv, NoLeakedReservation, Active, Opposite, Families
<1> QED
  BY <1>1, IndInvHolds, PTL DEF Spec, SkippedOnlyIfBusy

\* A key leaves its set only in the release of an operation of that family that
\* held it.
LEMMA LostByRelease ==
  ASSUME IndInv, [Next]_vars, NEW fam \in Families, NEW k \in Active(fam), k \notin Active(fam)'
  PROVE  \E q \in Ops : q \in Holders(fam, k) /\ q \notin Holders(fam, k)'
<1>1. Families = {"provision", "firmware"}
  BY DEF Families
<1>2. ASSUME NEW q \in Ops, Release(q)
      PROVE  q \in Holders(fam, k) /\ q \notin Holders(fam, k)'
  <2>1. op'[q] = Idle /\ op[q].pc = "working"
    BY <1>2 DEF Release, IndInv, TypeOK
  <2>2. fam = Family(op[q].kind) /\ k \in op[q].allowed
    BY <1>1, <1>2 DEF Release, Active, DropKeys
  <2> QED
    BY <2>1, <2>2 DEF Holders, Idle
<1>3. ASSUME NEW q \in Ops, Reserve(q)
      PROVE  FALSE
  BY <1>1, <1>3 DEF Reserve, Active
<1>4. CASE UNCHANGED <<activeProvision, activeFirmware>>
  BY <1>4 DEF Active
<1> QED
  BY <1>2, <1>3, <1>4
     DEF Next, vars, OpStep, BeginProvision, BeginUpload, BeginFirmware, Requested, StartDevice,
         EndDevice, Enrol, RefreshAuth, ForgetDevice, ScanStartsOrEnds

\* A working operation loses the protection of a key only through the release of
\* another operation of its own family that was allowed the same key: neither
\* the other family nor any other part of the service takes it away.
THEOREM ProtectionIsFamilyAffair == Spec => ProtectionLostOnlyToOwnFamily
<1>1. ASSUME IndInv, [Next]_vars, NEW fam \in Families, NEW k \in Keys, NEW o \in Ops,
             o \in Holders(fam, k), k \in Active(fam), o \in Holders(fam, k)', k \notin Active(fam)'
      PROVE  \E q \in Ops \ {o} : q \in Holders(fam, k) /\ q \notin Holders(fam, k)'
  <2>1. PICK q \in Ops : q \in Holders(fam, k) /\ q \notin Holders(fam, k)'
    BY <1>1, LostByRelease
  <2> QED
    BY <1>1, <2>1
<1>2. IndInv /\ [Next]_vars =>
        [\A fam \in Families, k \in Keys, o \in Ops :
            /\ o \in Holders(fam, k) /\ k \in Active(fam)
            /\ o \in Holders(fam, k)' /\ k \notin Active(fam)'
            => \E q \in Ops \ {o} : q \in Holders(fam, k) /\ q \notin Holders(fam, k)']_vars
  BY <1>1
<1> QED
  BY <1>2, IndInvHolds, PTL DEF Spec, ProtectionLostOnlyToOwnFamily

-----------------------------------------------------------------------------
(* RuntimeLock.                                                            *)

USE LockAssumption

\* Before the first boot there is no row and nobody is up.
LEMMA LockInitIndInv == LockInit => LockIndInv
<1> SUFFICES ASSUME LockInit PROVE LockIndInv
  OBVIOUS
<1>1. NoRow \in RowStates /\ Down \in InstStates
  BY DEF NoRow, RowStates, Down, InstStates
<1>2. \A i \in Instances : inst[i].pc = "down"
  BY DEF LockInit, Down
<1>3. LockTypeOK
  BY <1>1 DEF LockInit, LockTypeOK
<1> QED BY <1>2, <1>3 DEF LockIndInv, TimersBounded, RowOfLiveIsFresh, ClaimsArePrivate, Up

\* The row of a live instance is stale only if the instance has been silent.
LEMMA LiveRowNotStale ==
    ASSUME LockIndInv, ~excused, ~silent, NEW i \in Up, NEW j \in Instances,
           ~OwnerIsSilent(j), HostOf[i] # HostOf[j]
    PROVE  row.owner = i /\ row.age < StaleAfter
<1>1. row.owner = i
  BY DEF LockIndInv, RowOfLiveIsFresh
<1>2. /\ row.age <= inst[i].quiet + Jitter
      /\ inst[i].quiet \in Nat /\ row.age \in Nat
  BY DEF LockIndInv, RowOfLiveIsFresh, Up, LockTypeOK, RowStates, InstStates
<1>4. ~(inst[i].quiet + Jitter >= StaleAfter)
  BY <1>1 DEF OwnerIsSilent
<1>3. row.age < StaleAfter
  BY <1>2, <1>4
<1> QED BY <1>1, <1>3

\* The states an instance is put into.
LEMMA StateTypes ==
    /\ Down \in InstStates /\ Down.pc = "down"
    /\ \A t \in Nat, q \in 0 .. StaleAfter, p \in {"down", "claiming", "up"}, c \in BOOLEAN :
          [pc |-> p, timer |-> t, quiet |-> q, current |-> c] \in InstStates
    /\ 0 \in 0 .. StaleAfter /\ 0 \in Nat
<1>1. 0 \in 0 .. StaleAfter /\ 0 \in Nat
  OBVIOUS
<1> QED BY <1>1 DEF InstStates, Down

\* What Outdate leaves of the instances' states.
LEMMA OutdateKeeps ==
    ASSUME LockTypeOK
    PROVE  /\ Outdate(inst) \in [Instances -> InstStates]
           /\ \A k \in Instances : /\ Outdate(inst)[k].pc = inst[k].pc
                                   /\ Outdate(inst)[k].timer = inst[k].timer
                                   /\ Outdate(inst)[k].quiet = inst[k].quiet
                                   /\ Outdate(inst)[k].current = FALSE
BY DEF LockTypeOK, Outdate, InstStates

\* The read of Acquire: a live owner is passed by only on its own host, or when
\* it has been silent.
LEMMA ReadLockIndInv ==
    ASSUME LockIndInv, NEW j \in Instances, ReadLock(j)
    PROVE  LockIndInv'
<1> USE DEF ReadLock
<1>1. LockTypeOK' /\ TimersBounded'
  <2>1. silent' \in BOOLEAN
    BY DEF LockIndInv, LockTypeOK
  <2> QED BY <2>1 DEF LockIndInv, LockTypeOK, TimersBounded, InstStates
<1>2. Up' = Up
  BY DEF Up, LockIndInv, LockTypeOK, InstStates
<1>3. RowOfLiveIsFresh'
  BY <1>2 DEF LockIndInv, RowOfLiveIsFresh, LockTypeOK, InstStates, Up
<1>4. ClaimsArePrivate'
  <2> SUFFICES ASSUME ~excused, ~silent', NEW k \in Instances, inst'[k].pc = "claiming",
                      inst'[k].current, NEW i \in Up, HostOf[i] # HostOf[k]
               PROVE  FALSE
    BY <1>2 DEF ClaimsArePrivate
  <2>0. ~silent /\ ~OwnerIsSilent(j)
    OBVIOUS
  <2>1. CASE k = j
    <3>1. row.owner = i /\ row.age < StaleAfter
      BY <2>0, <2>1, LiveRowNotStale
    <3>2. ~(row.age >= StaleAfter) /\ row.owner # NoOwner
      BY <3>1 DEF LockIndInv, LockTypeOK, RowStates, Up
    <3> QED BY <2>1, <3>1, <3>2 DEF Takeable
  <2>2. CASE k # j
    BY <2>0, <2>2 DEF LockIndInv, ClaimsArePrivate, LockTypeOK
  <2> QED BY <2>1, <2>2
<1> QED BY <1>1, <1>3, <1>4 DEF LockIndInv

\* The write of Acquire: unless it is excused, nobody else is up.
LEMMA ClaimIndInv ==
    ASSUME LockIndInv, NEW j \in Instances, Claim(j)
    PROVE  LockIndInv'
<1> USE DEF Claim
<1>1. /\ inst' \in [Instances -> InstStates]
      /\ inst'[j].pc = "up" /\ inst'[j].timer = 0 /\ inst'[j].quiet = 0
      /\ \A k \in Instances \ {j} : inst'[k].pc = inst[k].pc /\ inst'[k].timer = inst[k].timer
      /\ \A k \in Instances : inst'[k].current = FALSE
  BY OutdateKeeps, StateTypes DEF LockIndInv
<1>2. row' \in RowStates /\ row'.owner = j /\ row'.age <= inst[j].timer
  BY DEF LockIndInv, LockTypeOK, RowStates, InstStates
<1>3. LockTypeOK' /\ TimersBounded'
  BY <1>1, <1>2 DEF LockIndInv, LockTypeOK, TimersBounded
<1>4. ClaimsArePrivate'
  BY <1>1 DEF ClaimsArePrivate
<1>5. RowOfLiveIsFresh'
  <2> SUFFICES ASSUME ~excused', ~silent, NEW i \in Up'
               PROVE  row'.owner = i /\ row'.age <= inst'[i].quiet + Jitter
    BY DEF RowOfLiveIsFresh
  <2>1. ~excused /\ inst[j].current
    OBVIOUS
  <2>2. Up = {}
    <3> SUFFICES ASSUME NEW k \in Up PROVE FALSE
      OBVIOUS
    <3>1. row.owner = k
      BY <2>1 DEF LockIndInv, RowOfLiveIsFresh
    <3>2. HostOf[k] = HostOf[j]
      BY <2>1 DEF LockIndInv, ClaimsArePrivate
    <3> QED BY <3>1, <3>2
  <2>3. i = j
    BY <1>1, <2>2 DEF Up
  <2>4. inst[j].timer <= Jitter /\ inst[j].timer \in Nat /\ row'.age \in Nat
    BY <1>2 DEF LockIndInv, TimersBounded, LockTypeOK, InstStates, RowStates
  <2> QED BY <1>1, <1>2, <2>3, <2>4
<1> QED BY <1>3, <1>4, <1>5 DEF LockIndInv

\* A heartbeat that succeeds renews the row; one that fails
\* leaves it as it is.
LEMMA HeartbeatIndInv ==
    ASSUME LockIndInv, NEW j \in Instances, Heartbeat(j) \/ HeartbeatFails(j)
    PROVE  LockIndInv'
<1>1. CASE Heartbeat(j)
  <2> USE <1>1 DEF Heartbeat
  <2>1. inst[j].timer - HeartbeatInterval \in Nat
    BY DEF LockIndInv, LockTypeOK, InstStates
  <2>2. /\ inst' \in [Instances -> InstStates]
        /\ inst'[j].pc = "up" /\ inst'[j].timer = inst[j].timer - HeartbeatInterval
        /\ inst'[j].quiet = 0
        /\ \A k \in Instances \ {j} : inst'[k].pc = inst[k].pc /\ inst'[k].timer = inst[k].timer
        /\ \A k \in Instances : inst'[k].current = FALSE
    BY <2>1, OutdateKeeps, StateTypes DEF LockIndInv
  <2>3. row' \in RowStates
    BY DEF RowStates
  <2>4. LockTypeOK' /\ TimersBounded'
    BY <2>2, <2>3 DEF LockIndInv, LockTypeOK, TimersBounded, InstStates
  <2>5. ClaimsArePrivate'
    BY <2>2 DEF ClaimsArePrivate
  <2>6. RowOfLiveIsFresh'
    <3> SUFFICES ASSUME ~excused, ~silent, NEW i \in Up'
                 PROVE  i = j
      BY <2>1, <2>2 DEF RowOfLiveIsFresh
    <3>1. i \in Up /\ j \in Up
      BY <2>2 DEF Up
    <3> QED BY <3>1 DEF LockIndInv, RowOfLiveIsFresh
  <2> QED BY <2>4, <2>5, <2>6 DEF LockIndInv
<1>2. CASE HeartbeatFails(j)
  <2> USE <1>2 DEF HeartbeatFails
  <2>1. inst[j].timer - HeartbeatInterval \in Nat
    BY DEF LockIndInv, LockTypeOK, InstStates
  <2>2. /\ inst' \in [Instances -> InstStates]
        /\ inst'[j].pc = "up" /\ inst'[j].timer = inst[j].timer - HeartbeatInterval
        /\ inst'[j].quiet = inst[j].quiet /\ inst'[j].current = inst[j].current
        /\ \A k \in Instances \ {j} : inst'[k] = inst[k]
    BY <2>1 DEF LockIndInv, LockTypeOK, InstStates
  <2>3. Up' = Up
    BY <2>2 DEF Up
  <2>4. LockTypeOK' /\ TimersBounded'
    BY <2>2 DEF LockIndInv, LockTypeOK, TimersBounded, InstStates
  <2>5. ClaimsArePrivate'
    BY <2>2, <2>3 DEF LockIndInv, ClaimsArePrivate
  <2>6. RowOfLiveIsFresh'
    BY <2>2, <2>3 DEF LockIndInv, RowOfLiveIsFresh, Up
  <2> QED BY <2>4, <2>5, <2>6 DEF LockIndInv
<1> QED BY <1>1, <1>2

\* The ends of an instance, and the operator's unlock.
LEMMA EndIndInv ==
    ASSUME LockIndInv, (\E j \in Instances : ReleaseLock(j) \/ Crash(j)) \/ ForceClear
    PROVE  LockIndInv'
<1>1. ASSUME NEW j \in Instances, ReleaseLock(j) PROVE LockIndInv'
  <2> USE <1>1 DEF ReleaseLock
  <2>1. /\ inst' \in [Instances -> InstStates] /\ inst'[j].pc = "down"
        /\ \A k \in Instances \ {j} : inst'[k].pc = inst[k].pc /\ inst'[k].timer = inst[k].timer
        /\ \A k \in Instances : inst'[k].current = FALSE
    <3>1. LockTypeOK /\ Down.current = FALSE
      BY DEF LockIndInv, Down
    <3> QED BY <3>1, OutdateKeeps, StateTypes DEF LockTypeOK
  <2>2. row' \in RowStates
    BY DEF RowStates, NoRow
  <2>3. LockTypeOK' /\ TimersBounded' /\ ClaimsArePrivate'
    BY <2>1, <2>2 DEF LockIndInv, LockTypeOK, TimersBounded, ClaimsArePrivate
  <2>4. ~excused /\ ~silent => Up' = {}
    <3> SUFFICES ASSUME ~excused, ~silent, NEW i \in Up' PROVE FALSE
      OBVIOUS
    <3>1. i \in Up /\ j \in Up /\ i # j
      BY <2>1 DEF Up
    <3> QED BY <3>1 DEF LockIndInv, RowOfLiveIsFresh
  <2>5. RowOfLiveIsFresh'
    BY <2>4 DEF RowOfLiveIsFresh
  <2> QED BY <2>3, <2>5 DEF LockIndInv
<1>2. ASSUME NEW j \in Instances, Crash(j) PROVE LockIndInv'
  <2> USE <1>2 DEF Crash
  <2>1. /\ inst' \in [Instances -> InstStates] /\ inst'[j].pc = "down"
        /\ \A k \in Instances \ {j} : inst'[k] = inst[k]
    BY DEF LockIndInv, LockTypeOK, InstStates, Down
  <2>2. Up' = Up \ {j}
    BY <2>1 DEF Up
  <2> QED BY <2>1, <2>2 DEF LockIndInv, LockTypeOK, TimersBounded, ClaimsArePrivate, RowOfLiveIsFresh, Up
<1>3. CASE ForceClear
  <2> USE <1>3 DEF ForceClear
  <2>1. /\ inst' \in [Instances -> InstStates]
        /\ \A k \in Instances : /\ inst'[k].pc = inst[k].pc
                                /\ inst'[k].timer = inst[k].timer
                                /\ inst'[k].current = FALSE
    BY OutdateKeeps DEF LockIndInv
  <2>2. row' \in RowStates
    BY DEF RowStates, NoRow
  <2>3. LockTypeOK' /\ TimersBounded' /\ ClaimsArePrivate'
    BY <2>1, <2>2 DEF LockIndInv, LockTypeOK, TimersBounded, ClaimsArePrivate
  <2>4. ~excused' => Up' = {}
    BY <2>1 DEF Up
  <2>5. RowOfLiveIsFresh'
    BY <2>4 DEF RowOfLiveIsFresh
  <2> QED BY <2>3, <2>5 DEF LockIndInv
<1> QED BY <1>1, <1>2, <1>3

\* A second passes: the row and its owner's timer grow older together.
LEMMA TickIndInv ==
    ASSUME LockIndInv, Tick
    PROVE  LockIndInv'
<1>t. /\ \A i \in Instances : inst'[i] = IF inst[i].pc = "down" THEN inst[i]
                                       ELSE [inst[i] EXCEPT !.timer = @ + 1, !.quiet = Quieter(i)]
      /\ DOMAIN inst' = Instances /\ inst' = [i \in Instances |-> inst'[i]]
  BY DEF Tick
<1>u. UNCHANGED <<excused, silent>>
  BY DEF Tick
<1>0. ASSUME NEW k \in Instances
      PROVE  /\ inst[k] \in InstStates /\ inst[k].timer \in Nat
             /\ inst[k].quiet \in 0 .. StaleAfter /\ Quieter(k) \in 0 .. StaleAfter
  <2>1. inst[k] \in InstStates
    BY DEF LockIndInv, LockTypeOK
  <2>2. inst[k].timer \in Nat /\ inst[k].quiet \in 0 .. StaleAfter
    BY <2>1 DEF InstStates
  <2> QED BY <2>1, <2>2 DEF Quieter
<1>1. /\ inst' \in [Instances -> InstStates]
      /\ \A k \in Instances : /\ inst'[k].pc = inst[k].pc
                              /\ inst'[k].current = inst[k].current
                              /\ inst[k].timer \in Nat
                              /\ inst[k].pc # "down" => /\ inst'[k].timer = inst[k].timer + 1
                                                       /\ inst'[k].quiet = Quieter(k)
  <2>1. ASSUME NEW k \in Instances
        PROVE  /\ inst'[k] \in InstStates /\ inst'[k].pc = inst[k].pc
               /\ inst'[k].current = inst[k].current
               /\ inst[k].pc # "down" => /\ inst'[k].timer = inst[k].timer + 1
                                        /\ inst'[k].quiet = Quieter(k)
    <3>1. inst[k].timer + 1 \in Nat
      BY <1>0
    <3>2. CASE inst[k].pc = "down"
      BY <1>0, <1>t, <3>2
    <3>3. CASE inst[k].pc # "down"
      <4>1. inst'[k] = [inst[k] EXCEPT !.timer = inst[k].timer + 1, !.quiet = Quieter(k)]
        BY <1>t, <3>3
      <4>2. inst[k] \in InstStates /\ Quieter(k) \in 0 .. StaleAfter
        BY <1>0
      <4> QED BY <3>1, <4>1, <4>2 DEF InstStates
    <3> QED BY <3>2, <3>3
  <2> QED BY <1>0, <1>t, <2>1
<1>2. row' \in RowStates /\ row'.owner = row.owner /\ row'.age <= row.age + 1 /\ row.age \in Nat
  <2>1. row \in RowStates
    BY DEF LockIndInv, LockTypeOK
  <2>2. row.age \in 0 .. StaleAfter
    BY <2>1 DEF RowStates
  <2>3. CASE row.owner # NoOwner /\ row.age < StaleAfter
    <3>1. row.age + 1 \in 0 .. StaleAfter
      BY <2>2, <2>3
    <3>2. row' = [row EXCEPT !.age = @ + 1]
      BY <2>3 DEF Tick
    <3> QED BY <2>1, <2>2, <3>1, <3>2 DEF RowStates
  <2>4. CASE ~(row.owner # NoOwner /\ row.age < StaleAfter)
    <3>1. row' = row
      BY <2>4 DEF Tick
    <3> QED BY <2>1, <2>2, <3>1
  <2> QED BY <2>3, <2>4
<1>3. Up' = Up
  BY <1>1 DEF Up
<1>4. LockTypeOK' /\ TimersBounded'
  <2>1. LockTypeOK'
    BY <1>1, <1>2, <1>u DEF LockIndInv, LockTypeOK
  <2>2. TimersBounded'
    <3> SUFFICES ASSUME NEW i \in Instances
                 PROVE  /\ inst'[i].pc = "claiming" => inst'[i].timer <= Jitter
                        /\ inst'[i].pc = "up" => inst'[i].timer <= HeartbeatInterval + Jitter
      BY DEF TimersBounded
    <3>1. /\ inst[i].pc = "claiming" => inst[i].timer < Jitter
          /\ inst[i].pc = "up" => inst[i].timer < HeartbeatInterval + Jitter
      BY DEF Tick
    <3>2. /\ inst'[i].pc = inst[i].pc /\ inst[i].timer \in Nat
          /\ inst[i].pc # "down" => inst'[i].timer = inst[i].timer + 1
      BY <1>1
    <3> QED BY <3>1, <3>2
  <2> QED BY <2>1, <2>2
<1>5. ClaimsArePrivate'
  BY <1>1, <1>3, <1>u DEF LockIndInv, ClaimsArePrivate
<1>6. RowOfLiveIsFresh'
  <2> SUFFICES ASSUME ~excused, ~silent, NEW i \in Up
               PROVE  row'.owner = i /\ row'.age <= inst'[i].quiet + Jitter
    BY <1>3, <1>u DEF RowOfLiveIsFresh
  <2>1. row.owner = i /\ row.age <= inst[i].quiet + Jitter
    BY DEF LockIndInv, RowOfLiveIsFresh
  <2>2. inst[i].pc = "up" /\ inst[i].quiet \in 0 .. StaleAfter
    BY DEF Up, LockIndInv, LockTypeOK, InstStates
  <2>3. row'.age \in 0 .. StaleAfter
    BY <1>2 DEF RowStates
  <2>4. CASE inst[i].quiet < StaleAfter
    <3>1. inst'[i].quiet = inst[i].quiet + 1
      BY <1>1, <2>2, <2>4 DEF Quieter, Up
    <3> QED BY <1>2, <2>1, <2>2, <2>3, <3>1
  <2>5. CASE ~(inst[i].quiet < StaleAfter)
    <3>1. inst'[i].quiet = StaleAfter
      BY <1>1, <2>2, <2>5 DEF Quieter, Up
    <3> QED BY <1>2, <2>1, <2>3, <3>1
  <2> QED BY <2>4, <2>5
<1> QED BY <1>4, <1>5, <1>6 DEF LockIndInv

\* The invariant of the lock, whatever the two intervals, however late a
\* statement is and however many heartbeats fail.
THEOREM LockIndInvHolds == LockSpec => []LockIndInv
<1>1. LockIndInv /\ [LockNext]_lockVars => LockIndInv'
  <2> SUFFICES ASSUME LockIndInv, [LockNext]_lockVars PROVE LockIndInv'
    OBVIOUS
  <2>1. CASE UNCHANGED lockVars
    BY <2>1 DEF lockVars, LockIndInv, LockTypeOK, TimersBounded, RowOfLiveIsFresh, ClaimsArePrivate, Up
  <2>2. CASE LockNext
    BY <2>2, ReadLockIndInv, ClaimIndInv, HeartbeatIndInv, EndIndInv, TickIndInv DEF LockNext
  <2> QED BY <2>1, <2>2
<1> QED BY <1>1, LockInitIndInv, PTL DEF LockSpec

\* But for overlapping boots, a forced unlock, a shared hostname and a boot that
\* met a live owner silent for StaleAfter, no two instances are up on one
\* database.
THEOREM OneInstance == LockSpec => []OneUpUnlessSilent
<1>1. LockIndInv => OneUpUnlessSilent
  BY DEF LockIndInv, RowOfLiveIsFresh, OneUpUnlessSilent
<1> QED BY <1>1, LockIndInvHolds, PTL
=============================================================================
