----------------------------- MODULE AccessProofs ----------------------------
(***************************************************************************)
(* Proofs about Access, for every number of requests, sessions, names,     *)
(* passwords, secrets, backup codes and failed statements: a change of the *)
(* password ends the sessions of the old one, the second factor follows    *)
(* the name, and a backup code is accepted once.                           *)
(*                                                                         *)
(* The first needs to know, of every session that the change has outdated, *)
(* which handler has yet to revoke it; the second where the row is while   *)
(* authMu is held; the third that a secret is in one row only, except for  *)
(* the copy that a change of the name has yet to delete.                   *)
(***************************************************************************)
EXTENDS Access, FiniteSetTheorems, TLAPS

USE AccessAssumption

\* The requests that hold a password to be set, as RoomForPassword counts them.
WaitPcs == {"check", "save", "setup"}
Waiting == {r \in Requests : req[r].pc \in WaitPcs}

\* ChangeAdminCredential between its save and its unlock.
MovePcs == {"migrate", "settotp", "deltotp"}
Moving(r) == req[r].pc \in MovePcs

\* What a handler knows at each of its steps.
HandlerSound(r) ==
    LET q == req[r]
    IN  /\ q.pc \notin {"idle", "setup"} => q.user \in Users
        /\ q.pc \in MovePcs \cup {"revoke", "revokenew"} => q.old \in Users /\ q.new \in Users
        /\ q.pc \in {"status", "issue"} => q.kind = "login"
        /\ q.kind = "login" /\ q.pc # "idle" => q.gen # 0 /\ q.gen < nextGen
        /\ q.pc = "verifywrite" => q.base.secret # 0 /\ q.code \in {"otp"} \cup (Codes \ q.base.used)
        /\ q.pc \in {"settotp", "deltotp", "enrol"} => q.base.secret # 0

\* authMu is held exactly while a row moves, and the credential stands still.
MutexSound ==
    \A r \in Requests :
        /\ Moving(r) <=> authMu = r
        /\ Moving(r) => req[r].old # req[r].new /\ cred.user = req[r].new

\* Generations are given out once, and there is room for those that wait.
GenSound ==
    /\ nextGen + Cardinality(Waiting) <= MaxGen + 1
    /\ cred.gen < nextGen
    /\ \A s \in Sids : rows[s].good => rows[s].gen # 0 /\ rows[s].gen < nextGen

\* Before the first setup there is nothing; only a reset comes back to it.
Fresh ==
    cred.gen = 0 /\ ~({"session", "totp"} \subseteq excuse) =>
        /\ \A r \in Requests : req[r].pc \in {"idle", "setup"}
        /\ \A s \in Sids : ~rows[s].good
        /\ \A u \in Users : totp[u].secret = 0
        /\ ~enrolled

\* A session is of the current password, or a change has yet to revoke it.
Revoking(r) == req[r].pc \in MovePcs \cup {"revoke"}
Covered ==
    faults = 0 /\ "session" \notin excuse =>
        /\ \A s \in Sids : rows[s].good =>
              \/ rows[s].gen = cred.gen /\ rows[s].user = cred.user
              \/ \E r \in Requests : Revoking(r) /\ req[r].user = rows[s].user
        /\ \A r \in Requests : req[r].pc # "idle" /\ req[r].kind = "login" /\ req[r].gen = cred.gen
              => req[r].user = cred.user

\* Where the row of the second factor is: under the current name, or on its way.
RowPlaced ==
    faults = 0 /\ "totp" \notin excuse =>
        /\ authMu = NoOne => \A u \in Users : totp[u].secret # 0 <=> enrolled /\ u = cred.user
        /\ \A r \in Requests : Moving(r) =>
              /\ \A u \in Users \ {req[r].old, req[r].new} : totp[u].secret = 0
              /\ req[r].pc = "migrate" =>
                    enrolled <=> totp[req[r].old].secret # 0 \/ totp[req[r].new].secret # 0
              /\ req[r].pc = "settotp" => enrolled
              /\ req[r].pc = "deltotp" => (enrolled <=> totp[req[r].new].secret # 0)

\* A copy that is under way is a copy of the row as it is.
CopySound ==
    "totp" \notin excuse =>
        \A r \in Requests : req[r].pc \in {"settotp", "deltotp"} => totp[req[r].old] = req[r].base

\* The name whose row is about to be deleted.
Leaving(u) == \E r \in Requests : req[r].pc = "deltotp" /\ req[r].old = u

\* A secret is in one row, but for the copy a change has yet to delete, and the
\* cookies and the handlers hold only secrets that were minted.
SecretsSound ==
    "totp" \notin excuse =>
        /\ \A u \in Users : totp[u].secret < nextSecret
        /\ \A u, v \in Users : u # v /\ totp[u].secret # 0 /\ totp[u].secret = totp[v].secret
              => Leaving(u) \/ Leaving(v)
        /\ \A s \in Sids : \A n \in pending[s] : n < nextSecret
        /\ \A r \in Requests : req[r].pc = "enrol" => req[r].base.secret < nextSecret
        /\ \A n \in 1 .. MaxSecrets, c \in Codes : n >= nextSecret => accepted[n][c] = 0

\* An accepted code is marked in the row that counts, and was accepted once.
CodesSound ==
    "totp" \notin excuse =>
        /\ \A u \in Users, c \in Codes :
              totp[u].secret # 0 /\ c \notin totp[u].used /\ ~Leaving(u) => accepted[totp[u].secret][c] = 0
        /\ BackupCodeOnce

Inv ==
    /\ TypeOK /\ MutexSound /\ GenSound /\ Fresh
    /\ \A r \in Requests : HandlerSound(r)
    /\ Covered /\ RowPlaced /\ CopySound /\ SecretsSound /\ CodesSound

-----------------------------------------------------------------------------
(* The handlers.                                                           *)

\* A step of one handler leaves the others where they are.
LEMMA OneHandler ==
    ASSUME TypeOK, NEW r \in Requests, NEW q \in ReqStates, req' = [req EXCEPT ![r] = q]
    PROVE  /\ req' \in [Requests -> ReqStates]
           /\ req'[r] = q
           /\ \A o \in Requests \ {r} : req'[o] = req[o]
BY DEF TypeOK

\* Return and Goto in the form of OneHandler.
LEMMA IdleHandler ==
    /\ Idle \in ReqStates /\ Idle.pc = "idle" /\ Idle.kind = "login"
    /\ NoTotp \in TotpRow /\ NoTotp.secret = 0
BY DEF Idle, ReqStates, NoTotp, TotpRow, Gens

\* How the number of waiting passwords moves.
LEMMA WaitingMoves ==
    ASSUME TypeOK, NEW r \in Requests, NEW q \in ReqStates, req' = [req EXCEPT ![r] = q]
    PROVE  /\ Cardinality(Waiting) \in Nat /\ Cardinality(Waiting)' \in Nat
           /\ q.pc \notin WaitPcs => Cardinality(Waiting)' <= Cardinality(Waiting)
           /\ r \in Waiting => Cardinality(Waiting)' <= Cardinality(Waiting)
           /\ r \in Waiting /\ q.pc \notin WaitPcs => Cardinality(Waiting)' + 1 = Cardinality(Waiting)
           /\ Cardinality(Waiting)' <= Cardinality(Waiting) + 1
           /\ r \in Waiting => Cardinality(Waiting) >= 1
<1>1. IsFiniteSet(Waiting) /\ IsFiniteSet(Waiting \ {r}) /\ IsFiniteSet(Waiting \cup {r})
    <2>1. Waiting \subseteq Requests
        BY DEF Waiting
    <2>. QED  BY <2>1, FS_Subset, FS_RemoveElement, FS_AddElement
<1>2. Waiting' = IF q.pc \in WaitPcs THEN Waiting \cup {r} ELSE Waiting \ {r}
    BY OneHandler DEF Waiting
<1>3. /\ Cardinality(Waiting) \in Nat /\ Cardinality(Waiting \ {r}) \in Nat
      /\ Cardinality(Waiting \cup {r}) \in Nat
    BY <1>1, FS_CardinalityType
<1>4. /\ Cardinality(Waiting \ {r}) = IF r \in Waiting THEN Cardinality(Waiting) - 1 ELSE Cardinality(Waiting)
      /\ Cardinality(Waiting \cup {r}) = IF r \in Waiting THEN Cardinality(Waiting) ELSE Cardinality(Waiting) + 1
    BY <1>1, FS_RemoveElement, FS_AddElement
<1>. QED  BY <1>2, <1>3, <1>4

\* A session that is good has a user and the password of its login.
LEMMA GoodRows ==
    ASSUME TypeOK, NEW s \in Sids, rows[s].good
    PROVE  rows[s] \in [good : {TRUE}, user : Users, gen : Gens] /\ rows[s].gen \in Nat
<1>1. rows[s] \in SessionRow
    BY DEF TypeOK
<1>2. rows[s] # [good |-> FALSE]
    <2> SUFFICES ASSUME rows[s] = [good |-> FALSE] PROVE FALSE
        OBVIOUS
    <2>1. rows[s].good = [good |-> FALSE].good
        OBVIOUS
    <2>2. [good |-> FALSE].good = FALSE
        OBVIOUS
    <2>. QED  BY <2>1, <2>2
<1>3. rows[s] \in [good : {TRUE}, user : Users, gen : Gens]
    BY <1>1, <1>2 DEF SessionRow
<1>4. rows[s].gen \in Gens
    BY <1>3
<1>5. Gens \subseteq Nat
    BY DEF Gens
<1>. QED  BY <1>3, <1>4, <1>5

-----------------------------------------------------------------------------
(* Steps that only move a handler.                                         *)

\* The tables, and what is recorded about them.
tables == <<cred, totp, rows, pending, nextGen, nextSecret, excuse, accepted, enrolled>>

\* What a handler may go on to without a write.
Calm(r, q) ==
    /\ ~Moving(r) /\ q.pc \notin MovePcs /\ ~Revoking(r)
    /\ q.pc \notin {"idle", "setup"} =>
          q.user \in Users /\ (cred.gen # 0 \/ {"session", "totp"} \subseteq excuse)
    /\ q.pc \notin {"revoke", "revokenew"}
    /\ q.pc \in {"status", "issue"} => q.kind = "login"
    /\ q.kind = "login" /\ q.pc # "idle" => q.gen # 0 /\ q.gen < nextGen
    /\ q.kind = "login" /\ q.pc # "idle" /\ q.gen = cred.gen /\ "session" \notin excuse /\ faults = 0
          => q.user = cred.user
    /\ q.pc = "verifywrite" => q.base.secret # 0 /\ q.code \in {"otp"} \cup (Codes \ q.base.used)
    /\ q.pc \in WaitPcs => req[r].pc \in WaitPcs \/ RoomForPassword
    /\ q.pc = "enrol" => q.base.secret # 0 /\ ("totp" \notin excuse => q.base.secret < nextSecret)

\* Such a step keeps the invariant.
LEMMA CalmStep ==
    ASSUME Inv, NEW r \in Requests, NEW q \in ReqStates, req' = [req EXCEPT ![r] = q], Calm(r, q),
           UNCHANGED tables, UNCHANGED authMu, faults' = faults \/ Fault
    PROVE  Inv'
<1> USE DEF Inv, tables
<1>1. /\ req' \in [Requests -> ReqStates] /\ req'[r] = q
      /\ \A o \in Requests \ {r} : req'[o] = req[o]
    BY OneHandler
<1>2. faults' \in 0 .. MaxFaults /\ (faults' = 0 => faults = 0)
    BY DEF TypeOK, Fault
<1>3. TypeOK'
    BY <1>1, <1>2 DEF TypeOK
<1>4. MutexSound' /\ \A o \in Requests : HandlerSound(o)'
    BY <1>1 DEF MutexSound, HandlerSound, Moving, MovePcs, Calm
<1>5. GenSound'
    <2>1. nextGen + Cardinality(Waiting)' <= MaxGen + 1
        <3>1. /\ RoomForPassword <=> nextGen + Cardinality(Waiting) <= MaxGen
              /\ r \in Waiting <=> req[r].pc \in WaitPcs
            BY DEF RoomForPassword, Waiting, WaitPcs
        <3>2. q.pc \in WaitPcs /\ r \notin Waiting => nextGen + Cardinality(Waiting) <= MaxGen
            BY <3>1 DEF Calm
        <3>3. /\ Cardinality(Waiting) \in Nat /\ Cardinality(Waiting)' \in Nat
              /\ Cardinality(Waiting)' <= Cardinality(Waiting) + 1
              /\ q.pc \notin WaitPcs \/ r \in Waiting => Cardinality(Waiting)' <= Cardinality(Waiting)
            BY WaitingMoves
        <3>. QED  BY <3>2, <3>3 DEF GenSound, TypeOK
    <2>. QED  BY <2>1 DEF GenSound
<1>6. Fresh'
    BY <1>1 DEF Fresh, Calm
<1>7. Covered'
    BY <1>1, <1>2 DEF Covered, Revoking, Calm
<1>8. RowPlaced'
    BY <1>1, <1>2 DEF RowPlaced, Moving, Calm, MovePcs
<1>9. CopySound' /\ SecretsSound' /\ CodesSound'
    <2>1. \A u \in Users : Leaving(u)' <=> Leaving(u)
        BY <1>1 DEF Leaving, Calm, Moving, MovePcs
    <2>2. CopySound' /\ CodesSound'
        BY <1>1, <2>1 DEF CopySound, CodesSound, Calm, Moving, MovePcs, BackupCodeOnce
    <2>3. SecretsSound'
        BY <1>1, <2>1 DEF SecretsSound, Calm
    <2>. QED  BY <2>2, <2>3
<1>. QED  BY <1>3, <1>4, <1>5, <1>6, <1>7, <1>8, <1>9

\* A change of the name that fails half-way gives authMu back and nothing else.
LEMMA AbortStep ==
    ASSUME Inv, NEW r \in Requests, req[r].pc \in {"migrate", "settotp"}, Return(r), authMu' = NoOne, Fault,
           UNCHANGED tables
    PROVE  Inv'
<1> USE DEF Inv, tables
<1>0. /\ req' = [req EXCEPT ![r] = Idle] /\ Idle \in ReqStates /\ Idle.pc = "idle"
    BY IdleHandler DEF Return
<1>1. /\ req' \in [Requests -> ReqStates] /\ req'[r] = Idle
      /\ \A o \in Requests \ {r} : req'[o] = req[o]
    BY <1>0, OneHandler
<1>2. faults' \in 0 .. MaxFaults /\ faults' # 0
    BY DEF TypeOK, Fault
<1>3. TypeOK'
    BY <1>1, <1>2 DEF TypeOK
<1>4. MutexSound' /\ \A o \in Requests : HandlerSound(o)'
    BY <1>0, <1>1 DEF MutexSound, HandlerSound, Moving, MovePcs, TypeOK
<1>5. GenSound'
    <2>1. /\ Cardinality(Waiting) \in Nat /\ Cardinality(Waiting)' \in Nat
          /\ Cardinality(Waiting)' <= Cardinality(Waiting)
        BY <1>0, WaitingMoves DEF WaitPcs
    <2>. QED  BY <2>1 DEF GenSound, TypeOK
<1>6. Fresh'
    BY <1>0, <1>1 DEF Fresh
<1>7. Covered' /\ RowPlaced'
    BY <1>2 DEF Covered, RowPlaced
<1>8. CopySound' /\ SecretsSound' /\ CodesSound'
    <2>1. \A u \in Users : Leaving(u)' <=> Leaving(u)
        BY <1>0, <1>1 DEF Leaving
    <2>. QED  BY <1>0, <1>1, <2>1 DEF CopySound, SecretsSound, CodesSound, BackupCodeOnce
<1>. QED  BY <1>3, <1>4, <1>5, <1>6, <1>7, <1>8

\* A handler that has written nothing, or no more, returns.
LEMMA ReturnStep ==
    ASSUME Inv, NEW r \in Requests, Return(r), ~Moving(r), ~Revoking(r), UNCHANGED tables, UNCHANGED authMu,
           faults' = faults \/ Fault
    PROVE  Inv'
<1>1. Calm(r, Idle)
    BY DEF Calm, Idle, MovePcs, WaitPcs
<1>. QED  BY <1>1, IdleHandler, CalmStep DEF Return

\* The handlers up to their first write, and those that end with an error.
LEMMA QuietSteps ==
    ASSUME Inv, NEW r \in Requests,
           \/ BeginLogin(r) \/ ReadStatus(r) \/ ReadTotp(r) \/ CheckCurrent(r) \/ BeginSetup(r)
           \/ \E s \in Sids : BeginDisable(r, s) \/ BeginChange(r, s) \/ BeginVerifyEnroll(r, s)
    PROVE  Inv'
<1> USE DEF Inv, tables
<1>0. /\ req[r] \in ReqStates /\ HandlerSound(r) /\ Idle \in ReqStates
      /\ req[r].pc \notin {"idle", "setup"} => cred.gen # 0 \/ {"session", "totp"} \subseteq excuse
    BY IdleHandler DEF TypeOK, Fresh
<1>1. CASE BeginLogin(r)
    <2> DEFINE q == [Idle EXCEPT !.pc = "status", !.user = cred.user, !.gen = cred.gen]
    <2>1. req' = [req EXCEPT ![r] = q] /\ faults' = faults /\ UNCHANGED <<tables, authMu>>
        BY <1>1 DEF BeginLogin
    <2>2. q \in ReqStates /\ q.pc = "status" /\ q.user = cred.user /\ q.gen = cred.gen /\ q.kind = "login"
        <3>1. cred.user \in Users /\ cred.gen \in Gens
            BY DEF TypeOK, CredStates
        <3>. QED  BY <3>1, IdleHandler DEF ReqStates
    <2>3. Calm(r, q)
        BY <1>1, <2>2 DEF BeginLogin, Calm, Moving, MovePcs, Revoking, WaitPcs, GenSound, TypeOK, CredStates
    <2>. QED  BY <2>1, <2>2, <2>3, CalmStep
<1>2. ASSUME Return(r), ~Moving(r), ~Revoking(r), UNCHANGED tables, UNCHANGED authMu, faults' = faults \/ Fault
      PROVE  Inv'
    BY <1>2, ReturnStep
<1>3. ASSUME NEW at \in {"issue", "verifyread"}, Goto(r, at), req[r].pc = "status", UNCHANGED tables,
             UNCHANGED <<authMu, faults>>
      PROVE  Inv'
    <2> DEFINE q == [req[r] EXCEPT !.pc = at]
    <2>1. req' = [req EXCEPT ![r] = q]
        BY <1>3 DEF Goto, TypeOK
    <2>2. /\ q \in ReqStates /\ q.pc = at /\ q.user = req[r].user /\ q.gen = req[r].gen
          /\ q.kind = req[r].kind
        BY <1>0 DEF ReqStates
    <2>3. Calm(r, q)
        BY <1>0, <1>3, <2>2 DEF Calm, Moving, MovePcs, Revoking, WaitPcs, HandlerSound, Covered
    <2>. QED  BY <1>3, <2>1, <2>2, <2>3, CalmStep
<1>4. CASE ReadStatus(r)
    <2>1. ~Moving(r) /\ ~Revoking(r) /\ UNCHANGED tables /\ UNCHANGED authMu
        BY <1>4 DEF ReadStatus, Moving, MovePcs, Revoking
    <2>. QED  BY <1>2, <1>3, <1>4, <2>1 DEF ReadStatus
<1>5. CASE ReadTotp(r)
    <2> DEFINE row == totp[req[r].user]
    <2>1. ~Moving(r) /\ ~Revoking(r) /\ UNCHANGED tables /\ UNCHANGED authMu
        BY <1>5 DEF ReadTotp, Moving, MovePcs, Revoking
    <2>2. ASSUME NEW code \in Matches(row), row.secret # 0,
                 req' = [req EXCEPT ![r].pc = "verifywrite", ![r].base = row, ![r].code = code], UNCHANGED faults
          PROVE  Inv'
        <3> DEFINE q == [req[r] EXCEPT !.pc = "verifywrite", !.base = row, !.code = code]
        <3>1. req' = [req EXCEPT ![r] = q]
            BY <2>2 DEF TypeOK
        <3>2. row \in TotpRow /\ code \in {"otp"} \cup Codes
            BY <1>0, <1>5, <2>2 DEF ReadTotp, HandlerSound, TypeOK, Matches
        <3>3. /\ q \in ReqStates /\ q.pc = "verifywrite" /\ q.user = req[r].user /\ q.gen = req[r].gen
              /\ q.kind = req[r].kind /\ q.base = row /\ q.code = code
            BY <1>0, <3>2 DEF ReqStates
        <3>4. Calm(r, q)
            BY <1>0, <1>5, <2>1, <2>2, <3>3 DEF ReadTotp, Calm, MovePcs, WaitPcs, HandlerSound, Covered, Matches
        <3>. QED  BY <2>1, <2>2, <3>1, <3>3, <3>4, CalmStep
    <2>. QED  BY <1>2, <1>5, <2>1, <2>2 DEF ReadTotp
<1>6. CASE CheckCurrent(r)
    <2>1. ~Moving(r) /\ ~Revoking(r) /\ UNCHANGED tables /\ UNCHANGED <<authMu, faults>>
        BY <1>6 DEF CheckCurrent, Moving, MovePcs, Revoking
    <2>2. ASSUME Goto(r, "save"), cred.gen # 0 PROVE Inv'
        <3> DEFINE q == [req[r] EXCEPT !.pc = "save"]
        <3>1. req' = [req EXCEPT ![r] = q]
            BY <2>2 DEF Goto, TypeOK
        <3>2. /\ q \in ReqStates /\ q.pc = "save" /\ q.user = req[r].user /\ q.gen = req[r].gen
              /\ q.kind = req[r].kind
            BY <1>0 DEF ReqStates
        <3>3. Calm(r, q)
            BY <1>0, <1>6, <2>1, <2>2, <3>2 DEF CheckCurrent, Calm, MovePcs, WaitPcs, HandlerSound, Covered
        <3>. QED  BY <2>1, <3>1, <3>2, <3>3, CalmStep
    <2>. QED  BY <1>2, <1>6, <2>1, <2>2 DEF CheckCurrent
<1>7. CASE BeginSetup(r)
    <2> DEFINE q == [Idle EXCEPT !.pc = "setup", !.kind = "setup"]
    <2>1. req' = [req EXCEPT ![r] = q] /\ faults' = faults /\ UNCHANGED <<tables, authMu>>
        BY <1>7 DEF BeginSetup
    <2>2. q \in ReqStates /\ q.pc = "setup" /\ q.kind = "setup"
        BY IdleHandler DEF ReqStates
    <2>3. Calm(r, q)
        BY <1>7, <2>2 DEF BeginSetup, Calm, Moving, MovePcs, Revoking, WaitPcs
    <2>. QED  BY <2>1, <2>2, <2>3, CalmStep
<1>8. ASSUME NEW s \in Sids, BeginDisable(r, s) \/ BeginChange(r, s) PROVE Inv'
    <2> DEFINE q(at, kind) == [Idle EXCEPT !.pc = at, !.kind = kind, !.user = rows[s].user]
    <2>1. PICK at \in {"verifyread", "check"}, kind \in {"disable", "change"} :
             /\ req' = [req EXCEPT ![r] = q(at, kind)]
             /\ at = "check" => RoomForPassword
        BY <1>8 DEF BeginDisable, BeginChange
    <2>2. UNCHANGED tables /\ UNCHANGED <<authMu, faults>> /\ req[r].pc = "idle" /\ rows[s].good
        BY <1>8 DEF BeginDisable, BeginChange, Admitted
    <2>3. rows[s].user \in Users /\ (cred.gen # 0 \/ {"session", "totp"} \subseteq excuse)
        <3>1. rows[s] \in [good : {TRUE}, user : Users, gen : Gens]
            BY <2>2, GoodRows
        <3>. QED  BY <2>2, <3>1 DEF Fresh
    <2>4. /\ q(at, kind) \in ReqStates /\ q(at, kind).pc = at /\ q(at, kind).kind = kind
          /\ q(at, kind).user = rows[s].user
        BY <2>3, IdleHandler DEF ReqStates
    <2>5. Calm(r, q(at, kind))
        BY <2>1, <2>2, <2>3, <2>4 DEF Calm, Moving, MovePcs, Revoking, WaitPcs
    <2>. QED  BY <2>1, <2>2, <2>4, <2>5, CalmStep
<1>9. ASSUME NEW s \in Sids, BeginVerifyEnroll(r, s) PROVE Inv'
    <2> DEFINE q(n) == [Idle EXCEPT !.pc = "enrol", !.kind = "enrol", !.user = rows[s].user,
                                    !.base = [secret |-> n, used |-> {}]]
    <2>1. PICK n \in pending[s] : req' = [req EXCEPT ![r] = q(n)]
        BY <1>9 DEF BeginVerifyEnroll
    <2>2. UNCHANGED tables /\ UNCHANGED <<authMu, faults>> /\ req[r].pc = "idle" /\ rows[s].good
        BY <1>9 DEF BeginVerifyEnroll, Admitted
    <2>3. rows[s].user \in Users /\ (cred.gen # 0 \/ {"session", "totp"} \subseteq excuse)
        <3>1. rows[s] \in [good : {TRUE}, user : Users, gen : Gens]
            BY <2>2, GoodRows
        <3>. QED  BY <2>2, <3>1 DEF Fresh
    <2>4. n \in 1 .. MaxSecrets /\ n # 0 /\ [secret |-> n, used |-> {}] \in TotpRow
        <3>1. n \in 1 .. MaxSecrets
            BY DEF TypeOK
        <3>. QED  BY <3>1 DEF TotpRow
    <2>5. /\ q(n) \in ReqStates /\ q(n).pc = "enrol" /\ q(n).kind = "enrol"
          /\ q(n).user = rows[s].user /\ q(n).base.secret = n
        BY <2>3, <2>4, IdleHandler DEF ReqStates
    <2>6. "totp" \notin excuse => n < nextSecret
        BY DEF SecretsSound
    <2>7. Calm(r, q(n))
        BY <2>2, <2>3, <2>4, <2>5, <2>6 DEF Calm, Moving, MovePcs, Revoking, WaitPcs
    <2>. QED  BY <2>1, <2>2, <2>5, <2>7, CalmStep
<1>. QED  BY <1>1, <1>4, <1>5, <1>6, <1>7, <1>8, <1>9

-----------------------------------------------------------------------------
(* The second factor.                                                      *)

\* SetTOTP after a verification: under its own name and on the row as it is, it
\* marks one code, and every other writer of the row is on record.
LEMMA WriteTotpStep ==
    ASSUME Inv, NEW r \in Requests, WriteTotp(r)
    PROVE  Inv'
<1> USE DEF Inv
<1> DEFINE u == req[r].user
           row == req[r].base
           code == req[r].code
<1>0. /\ req[r].pc = "verifywrite" /\ req[r] \in ReqStates
      /\ UNCHANGED <<cred, rows, pending, authMu, nextGen, nextSecret, enrolled>>
      /\ ~Moving(r) /\ ~Revoking(r)
    BY DEF WriteTotp, TypeOK, Moving, MovePcs, Revoking
<1>1. CASE Fault /\ Return(r) /\ UNCHANGED <<totp, accepted, excuse>>
    BY <1>0, <1>1, ReturnStep DEF tables
<1>2. CASE /\ totp' = [totp EXCEPT ![u] = Burnt(row, code)]
           /\ accepted' = IF code \in Codes
                          THEN [accepted EXCEPT ![row.secret][code] = IF @ = 2 THEN 2 ELSE @ + 1]
                          ELSE accepted
           /\ excuse' = IF totp[u] # row \/ u # cred.user THEN excuse \cup {"totp"} ELSE excuse
           /\ req' = [req EXCEPT ![r].pc = IF req[r].kind = "login" THEN "issue" ELSE "delete",
                                 ![r].base = NoTotp, ![r].code = "otp"]
           /\ UNCHANGED faults
    <2>0. PICK at \in {"issue", "delete"} :
             /\ at = "issue" => req[r].kind = "login"
             /\ req' = [req EXCEPT ![r].pc = at, ![r].base = NoTotp, ![r].code = "otp"]
        BY <1>2
    <2> DEFINE q == [req[r] EXCEPT !.pc = at, !.base = NoTotp, !.code = "otp"]
    <2>1. /\ u \in Users /\ row \in TotpRow /\ row.secret \in 1 .. MaxSecrets
          /\ code \in {"otp"} \cup (Codes \ row.used)
        BY <1>0 DEF HandlerSound, ReqStates, TotpRow
    <2>2. /\ Burnt(row, code) \in TotpRow /\ Burnt(row, code).secret = row.secret
          /\ Burnt(row, code).used = row.used \cup ({code} \cap Codes)
        BY <2>1 DEF Burnt, TotpRow
    <2>3. req' = [req EXCEPT ![r] = q]
        BY <2>0 DEF TypeOK
    <2>4. /\ q \in ReqStates /\ q.pc = at /\ q.user = u /\ q.gen = req[r].gen /\ q.kind = req[r].kind
        BY <1>0, IdleHandler DEF ReqStates
    <2> HIDE DEF q
    <2>5. /\ req' \in [Requests -> ReqStates] /\ req'[r] = q
          /\ \A o \in Requests \ {r} : req'[o] = req[o]
        BY <2>3, <2>4, OneHandler
    <2>6. accepted' \in [1 .. MaxSecrets -> [Codes -> 0 .. 2]]
        <3>1. accepted \in [1 .. MaxSecrets -> [Codes -> 0 .. 2]]
            BY DEF TypeOK
        <3>2. CASE code \notin Codes
            BY <1>2, <3>1, <3>2
        <3>3. CASE code \in Codes
            <4> DEFINE n == IF accepted[row.secret][code] = 2 THEN 2 ELSE accepted[row.secret][code] + 1
            <4>1. n \in 0 .. 2 /\ accepted[row.secret] \in [Codes -> 0 .. 2]
                <5>1. accepted[row.secret] \in [Codes -> 0 .. 2]
                    BY <2>1, <3>1
                <5>2. accepted[row.secret][code] \in 0 .. 2
                    BY <3>3, <5>1
                <5>. QED  BY <5>1, <5>2
            <4>2. accepted' = [accepted EXCEPT ![row.secret] = [accepted[row.secret] EXCEPT ![code] = n]]
                BY <1>2, <2>1, <3>1, <3>3
            <4> HIDE DEF n
            <4>3. [accepted[row.secret] EXCEPT ![code] = n] \in [Codes -> 0 .. 2]
                BY <4>1
            <4>. QED  BY <2>1, <3>1, <4>2, <4>3
        <3>. QED  BY <3>2, <3>3
    <2>7. TypeOK'
        BY <1>0, <1>2, <2>1, <2>2, <2>5, <2>6 DEF TypeOK
    <2>8. MutexSound' /\ \A o \in Requests : HandlerSound(o)'
        BY <1>0, <2>0, <2>1, <2>4, <2>5 DEF MutexSound, HandlerSound, Moving, MovePcs
    <2>9. GenSound'
        <3>1. /\ Cardinality(Waiting) \in Nat /\ Cardinality(Waiting)' \in Nat
              /\ Cardinality(Waiting)' <= Cardinality(Waiting)
            BY <2>3, <2>4, WaitingMoves DEF WaitPcs
        <3>. QED  BY <1>0, <3>1 DEF GenSound, TypeOK
    <2>10. Fresh' /\ Covered'
        <3>1. excuse \subseteq excuse' /\ (cred.gen # 0 \/ {"session", "totp"} \subseteq excuse)
            BY <1>0, <1>2 DEF Fresh
        <3>2. Fresh'
            BY <1>0, <3>1 DEF Fresh
        <3>3. Covered'
            BY <1>0, <1>2, <2>4, <2>5, <3>1 DEF Covered, Revoking, MovePcs
        <3>. QED  BY <3>2, <3>3
    <2>11. ASSUME "totp" \notin excuse'
           PROVE  /\ totp[u] = row /\ u = cred.user /\ "totp" \notin excuse
                  /\ totp'[u] = Burnt(row, code)
                  /\ \A v \in Users : totp'[v].secret = totp[v].secret
                  /\ \A v \in Users \ {u} : totp'[v] = totp[v]
                  /\ ~Leaving(u)
                  /\ \A v \in Users : Leaving(v)' <=> Leaving(v)
        <3>1. totp[u] = row /\ u = cred.user /\ "totp" \notin excuse
            BY <1>2, <2>11
        <3>2. ~Leaving(u)
            BY <3>1 DEF Leaving, MutexSound, Moving, MovePcs
        <3>3. \A v \in Users : Leaving(v)' <=> Leaving(v)
            BY <1>0, <2>4, <2>5 DEF Leaving
        <3>. QED  BY <1>2, <2>1, <2>2, <3>1, <3>2, <3>3 DEF TypeOK
    <2>12. RowPlaced' /\ CopySound'
        <3>1. \A o \in Requests : Moving(o)' =>
                 /\ Moving(o) /\ req'[o] = req[o] /\ req[o].old \in Users /\ req[o].new \in Users
                 /\ req[o].old # req[o].new /\ cred.user = req[o].new
            BY <1>0, <2>0, <2>4, <2>5 DEF MutexSound, HandlerSound, Moving, MovePcs
        <3>2. RowPlaced'
            <4> SUFFICES ASSUME faults' = 0, "totp" \notin excuse' PROVE RowPlaced'
                BY DEF RowPlaced
            <4>1. faults = 0 /\ "totp" \notin excuse /\ \A v \in Users : totp'[v].secret = totp[v].secret
                BY <1>2, <2>11
            <4>2. authMu' = NoOne => \A v \in Users : totp'[v].secret # 0 <=> enrolled' /\ v = cred'.user
                BY <1>0, <4>1 DEF RowPlaced
            <4>. QED  BY <1>0, <3>1, <4>1, <4>2 DEF RowPlaced
        <3>3. CopySound'
            BY <1>0, <2>11, <3>1 DEF CopySound, Moving, MovePcs
        <3>. QED  BY <3>2, <3>3
    <2>14. ASSUME "totp" \notin excuse', NEW n \in 1 .. MaxSecrets, NEW c \in Codes
           PROVE  /\ accepted'[n][c] = accepted[n][c] \/ (n = row.secret /\ c = code)
                  /\ n = row.secret /\ c = code => accepted'[n][c] <= 1
        <3>1. code \in Codes => accepted[row.secret][code] = 0
            BY <2>1, <2>11, <2>14 DEF CodesSound
        <3>. QED  BY <1>2, <2>1, <3>1 DEF TypeOK
    <2>15. SecretsSound'
        <3> SUFFICES ASSUME "totp" \notin excuse' PROVE SecretsSound'
            BY DEF SecretsSound
        <3>1. SecretsSound /\ row.secret < nextSecret
            BY <2>1, <2>11 DEF SecretsSound
        <3>3. \A v, w \in Users : v # w /\ totp'[v].secret # 0 /\ totp'[v].secret = totp'[w].secret
                 => Leaving(v)' \/ Leaving(w)'
            BY <2>11, <3>1 DEF SecretsSound
        <3>4. \A o \in Requests : req'[o].pc = "enrol" => req'[o].base.secret < nextSecret
            BY <2>0, <2>4, <2>5, <2>11 DEF SecretsSound
        <3>5. \A n \in 1 .. MaxSecrets, c \in Codes : n >= nextSecret => accepted'[n][c] = 0
            <4> SUFFICES ASSUME NEW n \in 1 .. MaxSecrets, NEW c \in Codes, n >= nextSecret
                         PROVE  accepted'[n][c] = 0
                OBVIOUS
            <4>1. "totp" \notin excuse /\ nextSecret \in Nat /\ row.secret \in Nat
                BY <2>1, <2>11 DEF TypeOK, TotpRow
            <4>2. accepted[n][c] = 0
                BY <3>1, <4>1 DEF SecretsSound
            <4>3. n # row.secret
                BY <3>1, <4>1
            <4>4. accepted'[n][c] = accepted[n][c] \/ (n = row.secret /\ c = code)
                BY <2>14
            <4>. QED  BY <4>2, <4>3, <4>4
        <3>. QED  BY <1>0, <2>11, <3>1, <3>3, <3>4, <3>5 DEF SecretsSound
    <2>16. CodesSound'
        <3> SUFFICES ASSUME "totp" \notin excuse' PROVE CodesSound'
            BY DEF CodesSound
        <3>1. BackupCodeOnce'
            BY <2>11, <2>14 DEF CodesSound, BackupCodeOnce
        <3>2. ASSUME NEW v \in Users, NEW c \in Codes, totp'[v].secret # 0, c \notin totp'[v].used, ~Leaving(v)'
              PROVE  accepted'[totp'[v].secret][c] = 0
            <4>1. totp[v].secret \in 1 .. MaxSecrets /\ totp'[v].secret = totp[v].secret
                BY <2>11, <3>2 DEF TypeOK, TotpRow
            <4>2. v # u => totp[v].secret # row.secret
                BY <2>1, <2>11, <3>2 DEF SecretsSound
            <4>3. v = u => c # code /\ c \notin row.used
                BY <2>2, <2>11, <3>2
            <4>. QED  BY <2>11, <2>14, <3>2, <4>1, <4>2, <4>3 DEF CodesSound
        <3>. QED  BY <3>1, <3>2 DEF CodesSound
    <2>. QED  BY <2>7, <2>8, <2>9, <2>10, <2>12, <2>15, <2>16
<1>. QED  BY <1>1, <1>2 DEF WriteTotp

\* DeleteTOTP: a disabling that no change of the name overlaps leaves no row.
LEMMA DeleteTotpStep ==
    ASSUME Inv, NEW r \in Requests, DeleteTotp(r)
    PROVE  Inv'
<1> USE DEF Inv
<1> DEFINE u == req[r].user
<1>0. /\ req[r].pc = "delete" /\ Return(r) /\ u \in Users
      /\ UNCHANGED <<cred, rows, pending, authMu, nextGen, nextSecret, accepted>>
      /\ ~Moving(r) /\ ~Revoking(r)
    BY DEF DeleteTotp, HandlerSound, Moving, MovePcs, Revoking
<1>1. CASE Fault /\ UNCHANGED <<totp, enrolled, excuse>>
    BY <1>0, <1>1, ReturnStep DEF tables
<1>2. CASE /\ totp' = [totp EXCEPT ![u] = NoTotp]
           /\ enrolled' = FALSE
           /\ excuse' = IF u # cred.user \/ authMu # NoOne THEN excuse \cup {"totp"} ELSE excuse
           /\ UNCHANGED faults
    <2>1. req' = [req EXCEPT ![r] = Idle] /\ Idle \in ReqStates /\ Idle.pc = "idle" /\ NoTotp \in TotpRow
          /\ NoTotp.secret = 0
        BY <1>0, IdleHandler DEF Return
    <2>2. /\ req' \in [Requests -> ReqStates] /\ req'[r] = Idle
          /\ \A o \in Requests \ {r} : req'[o] = req[o]
        BY <2>1, OneHandler
    <2>3. TypeOK'
        BY <1>0, <1>2, <2>1, <2>2 DEF TypeOK
    <2>4. MutexSound' /\ \A o \in Requests : HandlerSound(o)'
        BY <1>0, <2>1, <2>2 DEF MutexSound, HandlerSound, Moving, MovePcs
    <2>5. GenSound'
        <3>1. /\ Cardinality(Waiting) \in Nat /\ Cardinality(Waiting)' \in Nat
              /\ Cardinality(Waiting)' <= Cardinality(Waiting)
            BY <2>1, WaitingMoves DEF WaitPcs
        <3>. QED  BY <1>0, <3>1 DEF GenSound, TypeOK
    <2>6. Fresh' /\ Covered'
        <3>1. excuse \subseteq excuse' /\ (cred.gen # 0 \/ {"session", "totp"} \subseteq excuse)
            BY <1>0, <1>2 DEF Fresh
        <3>2. Fresh'
            BY <1>0, <3>1 DEF Fresh
        <3>3. Covered'
            BY <1>0, <1>2, <2>1, <2>2, <3>1 DEF Covered, Revoking, MovePcs
        <3>. QED  BY <3>2, <3>3
    <2>7. ASSUME "totp" \notin excuse'
          PROVE  /\ u = cred.user /\ authMu = NoOne /\ "totp" \notin excuse
                 /\ \A o \in Requests : ~Moving(o) /\ ~Moving(o)'
                 /\ totp'[u] = NoTotp /\ \A v \in Users \ {u} : totp'[v] = totp[v]
                 /\ \A v \in Users : ~Leaving(v) /\ ~Leaving(v)'
        <3>1. u = cred.user /\ authMu = NoOne /\ "totp" \notin excuse
            BY <1>2, <2>7
        <3>2. \A o \in Requests : ~Moving(o) /\ ~Moving(o)'
            BY <1>0, <3>1, <2>4 DEF MutexSound
        <3>3. \A v \in Users : ~Leaving(v) /\ ~Leaving(v)'
            BY <3>2 DEF Moving, MovePcs, Leaving
        <3>. QED  BY <1>0, <1>2, <3>1, <3>2, <3>3 DEF TypeOK
    <2>8. RowPlaced' /\ CopySound'
        BY <1>0, <1>2, <2>1, <2>7 DEF RowPlaced, CopySound, Moving, MovePcs
    <2>9. SecretsSound' /\ CodesSound'
        <3> SUFFICES ASSUME "totp" \notin excuse' PROVE SecretsSound' /\ CodesSound'
            BY DEF SecretsSound, CodesSound
        <3>1. \A v \in Users : totp'[v].secret = 0 \/ totp'[v] = totp[v]
            BY <2>1, <2>7
        <3>2. nextSecret \in Nat \ {0} /\ \A v \in Users : ~Leaving(v) /\ ~Leaving(v)'
            BY <2>7 DEF TypeOK
        <3>3. SecretsSound'
            BY <1>0, <2>1, <2>2, <2>7, <3>1, <3>2 DEF SecretsSound
        <3>4. CodesSound'
            BY <1>0, <2>7, <3>1, <3>2 DEF CodesSound, BackupCodeOnce
        <3>. QED  BY <3>3, <3>4
    <2>. QED  BY <2>3, <2>4, <2>5, <2>6, <2>8, <2>9
<1>. QED  BY <1>1, <1>2 DEF DeleteTotp

-----------------------------------------------------------------------------
(* Sessions.                                                               *)

\* The secrets after rows were revoked and their cookies dropped.
LEMMA FewerSessions ==
    ASSUME TypeOK, \A s \in Sids : pending'[s] \in {pending[s], {}},
           \A o \in Requests : req'[o] = req[o] \/ req'[o].pc # "enrol",
           UNCHANGED <<cred, totp, nextGen, nextSecret, excuse, accepted, enrolled>>,
           SecretsSound, \A u \in Users : Leaving(u)' <=> Leaving(u)
    PROVE  SecretsSound'
<1> SUFFICES ASSUME "totp" \notin excuse PROVE SecretsSound'
    BY DEF SecretsSound
<1>1. \A s \in Sids : \A n \in pending'[s] : n < nextSecret
    BY DEF SecretsSound
<1>2. \A o \in Requests : req'[o].pc = "enrol" => req'[o].base.secret < nextSecret
    BY DEF SecretsSound
<1>. QED  BY <1>1, <1>2 DEF SecretsSound

\* A logout and the sweeper only take sessions away.
LEMMA SessionEnds ==
    ASSUME Inv, NEW s \in Sids, Logout(s) \/ Expire(s)
    PROVE  Inv'
<1> USE DEF Inv
<1>1. /\ UNCHANGED <<cred, totp, req, authMu, nextGen, nextSecret, excuse, accepted, enrolled>>
      /\ rows' = rows \/ rows' = Revoked({s})
      /\ pending' = Dropped(rows')
      /\ faults' = faults \/ Fault
    BY DEF Logout, Expire
<1>2. /\ rows' \in [Sids -> SessionRow] /\ pending' \in [Sids -> SUBSET (1 .. MaxSecrets)]
      /\ \A t \in Sids : rows'[t] = rows[t] \/ ~rows'[t].good
      /\ \A t \in Sids : pending'[t] \in {pending[t], {}}
    <2>1. NoSession \in SessionRow /\ NoSession.good = FALSE
        BY DEF NoSession, SessionRow
    <2>2. Revoked({s}) \in [Sids -> SessionRow]
        BY <2>1 DEF Revoked, TypeOK
    <2>3. \A t \in Sids : Revoked({s})[t] = rows[t] \/ ~Revoked({s})[t].good
        BY <2>1 DEF Revoked
    <2>4. rows' \in [Sids -> SessionRow]
        BY <1>1, <2>2 DEF TypeOK
    <2>5. \A t \in Sids : rows'[t] = rows[t] \/ ~rows'[t].good
        BY <1>1, <2>3
    <2>6. /\ pending' \in [Sids -> SUBSET (1 .. MaxSecrets)]
          /\ \A t \in Sids : pending'[t] \in {pending[t], {}}
        BY <1>1 DEF TypeOK, Dropped
    <2>. QED  BY <2>4, <2>5, <2>6
<1>3. faults' \in 0 .. MaxFaults /\ (faults' = 0 => faults = 0)
    BY <1>1 DEF TypeOK, Fault
<1>4. TypeOK'
    BY <1>1, <1>2, <1>3 DEF TypeOK
<1>5. MutexSound' /\ \A o \in Requests : HandlerSound(o)'
    BY <1>1 DEF MutexSound, HandlerSound, Moving
<1>6. GenSound'
    BY <1>1, <1>2 DEF GenSound, Waiting
<1>7. Fresh'
    BY <1>1, <1>2 DEF Fresh
<1>8. Covered'
    BY <1>1, <1>2, <1>3 DEF Covered, Revoking
<1>9. RowPlaced' /\ CopySound' /\ CodesSound'
    BY <1>1, <1>3 DEF RowPlaced, CopySound, CodesSound, BackupCodeOnce, Moving, Leaving
<1>10. SecretsSound'
    BY <1>1, <1>2, FewerSessions DEF Leaving
<1>. QED  BY <1>4, <1>5, <1>6, <1>7, <1>8, <1>9, <1>10

\* Issue: the session has the password its login has verified, which is the
\* current one or on record as outdated.
LEMMA IssueStep ==
    ASSUME Inv, NEW r \in Requests, Issue(r)
    PROVE  Inv'
<1> USE DEF Inv
<1>0. /\ req[r].pc = "issue" /\ Return(r) /\ req[r] \in ReqStates
      /\ UNCHANGED <<cred, totp, pending, authMu, nextGen, nextSecret, accepted, enrolled>>
      /\ ~Moving(r) /\ ~Revoking(r)
      /\ req[r].user \in Users /\ req[r].kind = "login" /\ req[r].gen # 0 /\ req[r].gen < nextGen
      /\ cred.gen # 0 \/ {"session", "totp"} \subseteq excuse
    BY DEF Issue, HandlerSound, TypeOK, Moving, MovePcs, Revoking, Fresh
<1>1. CASE Fault /\ UNCHANGED <<rows, excuse>>
    BY <1>0, <1>1, ReturnStep DEF tables
<1>2. ASSUME NEW s \in Sids, ~rows[s].good,
             rows' = [rows EXCEPT ![s] = [good |-> TRUE, user |-> req[r].user, gen |-> req[r].gen]],
             excuse' = IF req[r].gen # cred.gen THEN excuse \cup {"session"} ELSE excuse,
             UNCHANGED faults
      PROVE  Inv'
    <2> DEFINE row == [good |-> TRUE, user |-> req[r].user, gen |-> req[r].gen]
    <2>1. /\ row \in SessionRow /\ row.user = req[r].user /\ row.gen = req[r].gen
        BY <1>0 DEF SessionRow, ReqStates
    <2>2. /\ rows' \in [Sids -> SessionRow] /\ rows'[s] = row
          /\ \A t \in Sids \ {s} : rows'[t] = rows[t]
        BY <1>2, <2>1 DEF TypeOK
    <2> HIDE DEF row
    <2>3. /\ req' = [req EXCEPT ![r] = Idle] /\ Idle \in ReqStates /\ Idle.pc = "idle"
        BY <1>0, IdleHandler DEF Return
    <2>4. /\ req' \in [Requests -> ReqStates] /\ req'[r] = Idle
          /\ \A o \in Requests \ {r} : req'[o] = req[o]
        BY <2>3, OneHandler
    <2>5. TypeOK'
        BY <1>0, <1>2, <2>2, <2>4 DEF TypeOK
    <2>6. MutexSound' /\ \A o \in Requests : HandlerSound(o)'
        BY <1>0, <2>3, <2>4 DEF MutexSound, HandlerSound, Moving, MovePcs
    <2>7. GenSound'
        <3>1. /\ Cardinality(Waiting) \in Nat /\ Cardinality(Waiting)' \in Nat
              /\ Cardinality(Waiting)' <= Cardinality(Waiting)
            BY <2>3, WaitingMoves DEF WaitPcs
        <3>2. \A t \in Sids : rows'[t].good => rows'[t].gen # 0 /\ rows'[t].gen < nextGen
            BY <1>0, <2>1, <2>2 DEF GenSound
        <3>3. nextGen + Cardinality(Waiting)' <= MaxGen + 1
            BY <3>1 DEF GenSound, TypeOK
        <3>. QED  BY <1>0, <3>2, <3>3 DEF GenSound
    <2>8. Fresh'
        BY <1>0, <1>2 DEF Fresh
    <2>9. Covered'
        BY <1>0, <1>2, <2>1, <2>2, <2>3, <2>4 DEF Covered, Revoking, MovePcs
    <2>10. RowPlaced' /\ CopySound' /\ SecretsSound' /\ CodesSound'
        <3>1. /\ \A o \in Requests : Moving(o)' => Moving(o) /\ req'[o] = req[o]
              /\ \A u \in Users : Leaving(u)' <=> Leaving(u)
              /\ "totp" \in excuse' <=> "totp" \in excuse
            BY <1>0, <1>2, <2>3, <2>4 DEF Moving, MovePcs, Leaving
        <3>2. RowPlaced'
            BY <1>0, <1>2, <3>1 DEF RowPlaced
        <3>3. CopySound'
            BY <1>0, <3>1 DEF CopySound, Moving, MovePcs
        <3>4. CodesSound'
            BY <1>0, <3>1 DEF CodesSound, BackupCodeOnce
        <3>5. SecretsSound'
            BY <1>0, <2>3, <2>4, <3>1 DEF SecretsSound
        <3>. QED  BY <3>2, <3>3, <3>4, <3>5
    <2>. QED  BY <2>5, <2>6, <2>7, <2>8, <2>9, <2>10
<1>. QED  BY <1>1, <1>2 DEF Issue

\* RevokeForUser: the sessions of the name are gone; the ones that only this
\* handler had yet to revoke were among them.
LEMMA RevokeStep ==
    ASSUME Inv, NEW r \in Requests, RevokeSessions(r)
    PROVE  Inv'
<1> USE DEF Inv
<1> DEFINE which == {s \in Sids : rows[s].good /\ rows[s].user = RevokedName(r)}
<1>0. /\ req[r].pc \in {"revoke", "revokenew"} /\ req[r] \in ReqStates
      /\ UNCHANGED <<cred, totp, authMu, nextGen, nextSecret, excuse, accepted, enrolled>>
      /\ pending' = Dropped(rows')
      /\ (rows' = Revoked(which) /\ UNCHANGED faults) \/ (UNCHANGED rows /\ Fault)
      /\ ~Moving(r)
    BY DEF RevokeSessions, TypeOK, Moving, MovePcs
<1>1. PICK q \in ReqStates :
        /\ req' = [req EXCEPT ![r] = q]
        /\ \/ q.pc = "idle"
           \/ /\ q.pc = "revokenew" /\ q.kind = req[r].kind /\ q.user = req[r].user /\ q.old = req[r].old
              /\ q.new = req[r].new /\ q.gen = req[r].gen
    <2>1. CASE Return(r)
        BY <2>1, IdleHandler DEF Return
    <2>2. CASE Goto(r, "revokenew")
        <3> DEFINE q == [req[r] EXCEPT !.pc = "revokenew"]
        <3>1. req' = [req EXCEPT ![r] = q]
            BY <2>2 DEF Goto, TypeOK
        <3>2. /\ q \in ReqStates /\ q.pc = "revokenew" /\ q.kind = req[r].kind /\ q.user = req[r].user
              /\ q.old = req[r].old /\ q.new = req[r].new /\ q.gen = req[r].gen
            BY <1>0 DEF ReqStates
        <3>. QED  BY <3>1, <3>2
    <2>. QED  BY <2>1, <2>2 DEF RevokeSessions
<1>2. /\ req' \in [Requests -> ReqStates] /\ req'[r] = q
      /\ \A o \in Requests \ {r} : req'[o] = req[o]
    BY <1>1, OneHandler
<1>3. /\ rows' \in [Sids -> SessionRow] /\ pending' \in [Sids -> SUBSET (1 .. MaxSecrets)]
      /\ \A t \in Sids : rows'[t] = rows[t] \/ ~rows'[t].good
      /\ \A t \in Sids : pending'[t] \in {pending[t], {}}
      /\ faults' = 0 => \A t \in Sids : rows'[t].good => rows[t].user # RevokedName(r)
    <2>1. NoSession \in SessionRow /\ NoSession.good = FALSE
        BY DEF NoSession, SessionRow
    <2>2. Revoked(which) \in [Sids -> SessionRow]
        BY <2>1 DEF Revoked, TypeOK
    <2>3. \A t \in Sids : \/ Revoked(which)[t] = rows[t] /\ t \notin which
                          \/ ~Revoked(which)[t].good
        BY <2>1 DEF Revoked
    <2>4. rows' \in [Sids -> SessionRow]
        BY <1>0, <2>2 DEF TypeOK
    <2>5. Fault => faults' # 0
        BY DEF Fault, TypeOK
    <2>6. \A t \in Sids : rows'[t] = rows[t] \/ ~rows'[t].good
        BY <1>0, <2>3
    <2>7. /\ pending' \in [Sids -> SUBSET (1 .. MaxSecrets)]
          /\ \A t \in Sids : pending'[t] \in {pending[t], {}}
        BY <1>0 DEF Dropped, TypeOK
    <2>8. faults' = 0 => \A t \in Sids : rows'[t].good => rows[t].user # RevokedName(r)
        BY <1>0, <2>3, <2>5
    <2>. QED  BY <2>4, <2>6, <2>7, <2>8
<1> HIDE DEF which
<1>4. faults' \in 0 .. MaxFaults /\ (faults' = 0 => faults = 0)
    BY <1>0 DEF TypeOK, Fault
<1>5. TypeOK'
    BY <1>0, <1>2, <1>3, <1>4 DEF TypeOK
<1>6. MutexSound' /\ \A o \in Requests : HandlerSound(o)'
    BY <1>0, <1>1, <1>2 DEF MutexSound, HandlerSound, Moving, MovePcs
<1>7. GenSound'
    <2>1. /\ Cardinality(Waiting) \in Nat /\ Cardinality(Waiting)' \in Nat
          /\ Cardinality(Waiting)' <= Cardinality(Waiting)
        BY <1>1, WaitingMoves DEF WaitPcs
    <2>. QED  BY <1>0, <1>3, <2>1 DEF GenSound, TypeOK
<1>8. Fresh'
    BY <1>0, <1>1, <1>2, <1>3 DEF Fresh
<1>9. Covered'
    <2> SUFFICES ASSUME faults' = 0, "session" \notin excuse PROVE Covered'
        BY <1>0 DEF Covered
    <2>1. ASSUME NEW s \in Sids, rows'[s].good
          PROVE  \/ rows'[s].gen = cred.gen /\ rows'[s].user = cred.user
                 \/ \E o \in Requests : Revoking(o)' /\ req'[o].user = rows'[s].user
        <3>1. rows'[s] = rows[s] /\ rows[s].user # RevokedName(r)
            BY <1>3, <2>1
        <3>2. CASE rows[s].gen = cred.gen /\ rows[s].user = cred.user
            BY <3>1, <3>2
        <3>3. ASSUME NEW o \in Requests, Revoking(o), req[o].user = rows[s].user
              PROVE  Revoking(o)' /\ req'[o].user = rows'[s].user
            <4>1. o # r
                BY <1>0, <3>1, <3>3 DEF RevokedName, Revoking, MovePcs
            <4>. QED  BY <1>2, <3>1, <3>3, <4>1 DEF Revoking
        <3>. QED  BY <1>4, <2>1, <3>1, <3>2, <3>3 DEF Covered
    <2>. QED  BY <1>0, <1>1, <1>2, <1>4, <2>1 DEF Covered
<1>10. /\ \A o \in Requests : Moving(o)' => Moving(o) /\ req'[o] = req[o]
       /\ \A u \in Users : Leaving(u)' <=> Leaving(u)
    BY <1>0, <1>1, <1>2 DEF Moving, MovePcs, Leaving
<1>11. RowPlaced' /\ CopySound' /\ CodesSound'
    BY <1>0, <1>4, <1>10 DEF RowPlaced, CopySound, CodesSound, BackupCodeOnce, Moving, MovePcs
<1>12. SecretsSound'
    BY <1>0, <1>1, <1>2, <1>3, <1>10, FewerSessions
<1>. QED  BY <1>5, <1>6, <1>7, <1>8, <1>9, <1>11, <1>12

-----------------------------------------------------------------------------
(* Enrolment.                                                              *)

\* A new secret is in no row.
LEMMA EnrollStep ==
    ASSUME Inv, NEW s \in Sids, EnrollTOTP(s)
    PROVE  Inv'
<1> USE DEF Inv
<1>1. /\ nextSecret \in 1 .. MaxSecrets /\ pending' = [pending EXCEPT ![s] = @ \cup {nextSecret}]
      /\ nextSecret' = nextSecret + 1
      /\ UNCHANGED <<cred, totp, rows, req, authMu, nextGen, faults, excuse, accepted, enrolled>>
    BY DEF EnrollTOTP, TypeOK
<1>2. TypeOK'
    BY <1>1 DEF TypeOK
<1>3. MutexSound' /\ (\A o \in Requests : HandlerSound(o)') /\ GenSound' /\ Fresh' /\ Covered'
    BY <1>1 DEF MutexSound, HandlerSound, Moving, GenSound, Waiting, Fresh, Covered, Revoking
<1>4. RowPlaced' /\ CopySound' /\ CodesSound'
    BY <1>1 DEF RowPlaced, CopySound, CodesSound, BackupCodeOnce, Moving, Leaving
<1>5. SecretsSound'
    <2> SUFFICES ASSUME "totp" \notin excuse PROVE SecretsSound'
        BY <1>1 DEF SecretsSound
    <2>1. /\ \A t \in Sids : pending[t] \subseteq Nat /\ \A n \in pending[t] : n < nextSecret
          /\ \A t \in Sids : pending'[t] \subseteq pending[t] \cup {nextSecret}
          /\ \A u \in Users : totp[u].secret \in Nat /\ totp[u].secret < nextSecret
          /\ \A o \in Requests : req[o].base.secret \in Nat
        BY <1>1 DEF TypeOK, TotpRow, ReqStates, SecretsSound
    <2>2. /\ \A t \in Sids : \A n \in pending'[t] : n < nextSecret'
          /\ \A o \in Requests : req[o].pc = "enrol" => req[o].base.secret < nextSecret'
        BY <1>1, <2>1 DEF SecretsSound
    <2>3. \A n \in 1 .. MaxSecrets, c \in Codes : n >= nextSecret' => accepted[n][c] = 0
        BY <1>1 DEF SecretsSound
    <2>4. \A u \in Users : totp[u].secret < nextSecret'
        BY <1>1, <2>1
    <2>5. \A u, v \in Users : u # v /\ totp[u].secret # 0 /\ totp[u].secret = totp[v].secret
             => Leaving(u)' \/ Leaving(v)'
        BY <1>1 DEF SecretsSound, Leaving
    <2>. QED  BY <1>1, <2>2, <2>3, <2>4, <2>5 DEF SecretsSound
<1>. QED  BY <1>2, <1>3, <1>4, <1>5

\* CompleteTOTPEnrollment puts the secret into the row of the session's name and
\* makes all its codes good.
LEMMA VerifyEnrollStep ==
    ASSUME Inv, NEW r \in Requests, VerifyEnrollTOTP(r)
    PROVE  Inv'
<1> USE DEF Inv
<1> DEFINE u == req[r].user
           row == req[r].base
<1>0. /\ req[r].pc = "enrol" /\ req[r] \in ReqStates /\ Return(r)
      /\ UNCHANGED <<cred, rows, pending, authMu, nextGen, nextSecret>>
      /\ ~Moving(r) /\ ~Revoking(r)
    BY DEF VerifyEnrollTOTP, TypeOK, Moving, MovePcs, Revoking
<1>a. CASE Fault /\ UNCHANGED <<totp, enrolled, accepted, excuse>>
    BY <1>0, <1>a, ReturnStep DEF tables
<1>b. CASE /\ totp' = [totp EXCEPT ![u] = row]
           /\ enrolled' = TRUE
           /\ accepted' = [accepted EXCEPT ![row.secret] = [c \in Codes |-> 0]]
           /\ excuse' = IF u # cred.user \/ \E v \in Users \ {u} : totp[v].secret = row.secret
                        THEN excuse \cup {"totp"} ELSE excuse
           /\ UNCHANGED faults
    <2>1. /\ u \in Users /\ row \in TotpRow /\ row.secret \in 1 .. MaxSecrets
          /\ cred.gen # 0 \/ {"session", "totp"} \subseteq excuse
          /\ excuse \subseteq excuse' /\ excuse' \subseteq {"totp", "session"}
        <3>1. u \in Users /\ row \in TotpRow /\ row.secret \in 1 .. MaxSecrets
            BY <1>0 DEF HandlerSound, ReqStates, TotpRow
        <3>2. cred.gen # 0 \/ {"session", "totp"} \subseteq excuse
            BY <1>0 DEF Fresh
        <3>3. excuse \subseteq excuse' /\ excuse' \subseteq {"totp", "session"}
            BY <1>b DEF TypeOK
        <3>. QED  BY <3>1, <3>2, <3>3
    <2>2. /\ req' \in [Requests -> ReqStates] /\ req'[r] = Idle /\ Idle.pc = "idle"
          /\ \A o \in Requests \ {r} : req'[o] = req[o]
          /\ req' = [req EXCEPT ![r] = Idle]
        BY <1>0, IdleHandler, OneHandler DEF Return
    <2>3. TypeOK'
        <3>1. accepted' \in [1 .. MaxSecrets -> [Codes -> 0 .. 2]]
            BY <1>b, <2>1 DEF TypeOK
        <3>. QED  BY <1>0, <1>b, <2>1, <2>2, <3>1 DEF TypeOK
    <2>4. MutexSound' /\ \A o \in Requests : HandlerSound(o)'
        BY <1>0, <2>2 DEF MutexSound, HandlerSound, Moving, MovePcs
    <2>5. GenSound'
        <3>1. /\ Cardinality(Waiting) \in Nat /\ Cardinality(Waiting)' \in Nat
              /\ Cardinality(Waiting)' <= Cardinality(Waiting)
            BY <2>2, IdleHandler, WaitingMoves DEF WaitPcs
        <3>. QED  BY <1>0, <3>1 DEF GenSound, TypeOK
    <2>6. Fresh'
        BY <1>0, <2>1 DEF Fresh
    <2>7. Covered'
        BY <1>0, <1>b, <2>1, <2>2 DEF Covered, Revoking, MovePcs
    <2>8. ASSUME "totp" \notin excuse'
          PROVE  /\ u = cred.user /\ "totp" \notin excuse
                 /\ totp'[u] = row /\ \A v \in Users \ {u} : totp'[v] = totp[v] /\ totp[v].secret # row.secret
                 /\ \A v \in Users : Leaving(v)' <=> Leaving(v)
                 /\ \A o \in Requests : /\ Moving(o)' <=> Moving(o)
                                        /\ Moving(o) => /\ u = req[o].new /\ req[o].old # u /\ req'[o] = req[o]
                                                        /\ req[o].old \in Users /\ req[o].new \in Users
        <3>1. u = cred.user /\ "totp" \notin excuse /\ \A v \in Users \ {u} : totp[v].secret # row.secret
            BY <1>b, <2>8
        <3>2. totp'[u] = row /\ \A v \in Users \ {u} : totp'[v] = totp[v]
            BY <1>b, <2>1 DEF TypeOK
        <3>3. \A v \in Users : Leaving(v)' <=> Leaving(v)
            BY <1>0, <2>2 DEF Leaving
        <3>4. \A o \in Requests : /\ Moving(o)' <=> Moving(o)
                                  /\ Moving(o) => /\ u = req[o].new /\ req[o].old # u /\ req'[o] = req[o]
                                                  /\ req[o].old \in Users /\ req[o].new \in Users
            BY <1>0, <2>2, <3>1 DEF Moving, MovePcs, MutexSound, HandlerSound
        <3>. QED  BY <3>1, <3>2, <3>3, <3>4
    <2> HIDE DEF u, row
    <2>9. RowPlaced'
        <3> SUFFICES ASSUME faults = 0, "totp" \notin excuse' PROVE RowPlaced'
            BY <1>b DEF RowPlaced
        <3>1. authMu = NoOne => \A v \in Users : totp'[v].secret # 0 <=> v = cred.user
            BY <2>1, <2>8 DEF RowPlaced
        <3>2. ASSUME NEW o \in Requests, Moving(o)
              PROVE  /\ \A v \in Users \ {req[o].old, req[o].new} : totp'[v].secret = 0
                     /\ totp'[req[o].new].secret # 0
            BY <2>1, <2>8, <3>2 DEF RowPlaced
        <3>. QED  BY <1>0, <1>b, <2>8, <3>1, <3>2 DEF RowPlaced
    <2>10. CopySound'
        BY <1>0, <2>2, <2>8 DEF CopySound, Moving, MovePcs
    <2>11. ASSUME "totp" \notin excuse', NEW n \in 1 .. MaxSecrets, NEW c \in Codes
           PROVE  accepted'[n][c] = IF n = row.secret THEN 0 ELSE accepted[n][c]
        BY <1>b, <2>1 DEF TypeOK
    <2>12. SecretsSound'
        <3> SUFFICES ASSUME "totp" \notin excuse' PROVE SecretsSound'
            BY DEF SecretsSound
        <3>1. SecretsSound /\ "totp" \notin excuse /\ row.secret < nextSecret
            BY <1>0, <2>8 DEF SecretsSound, row
        <3>2. \A v \in Users : totp'[v].secret < nextSecret
            BY <2>8, <3>1 DEF SecretsSound
        <3>3. \A v, w \in Users : v # w /\ totp'[v].secret # 0 /\ totp'[v].secret = totp'[w].secret
                 => Leaving(v)' \/ Leaving(w)'
            BY <2>8, <3>1 DEF SecretsSound
        <3>4. /\ \A t \in Sids : \A n \in pending[t] : n < nextSecret
              /\ \A o \in Requests : req'[o].pc = "enrol" => req'[o].base.secret < nextSecret
            BY <2>2, <3>1 DEF SecretsSound
        <3>5. \A n \in 1 .. MaxSecrets, c \in Codes : n >= nextSecret => accepted'[n][c] = 0
            BY <2>11, <3>1 DEF SecretsSound
        <3>. QED  BY <1>0, <3>2, <3>3, <3>4, <3>5 DEF SecretsSound
    <2>13. CodesSound'
        <3> SUFFICES ASSUME "totp" \notin excuse' PROVE CodesSound'
            BY DEF CodesSound
        <3>1. BackupCodeOnce'
            BY <2>8, <2>11 DEF CodesSound, BackupCodeOnce
        <3>2. ASSUME NEW v \in Users, NEW c \in Codes, totp'[v].secret # 0, c \notin totp'[v].used, ~Leaving(v)'
              PROVE  accepted'[totp'[v].secret][c] = 0
            <4>1. totp'[v].secret \in 1 .. MaxSecrets
                BY <2>3, <3>2 DEF TypeOK, TotpRow
            <4>2. CASE v = u
                BY <2>8, <2>11, <4>1, <4>2
            <4>3. CASE v # u
                BY <2>8, <2>11, <3>2, <4>1, <4>3 DEF CodesSound
            <4>. QED  BY <4>2, <4>3
        <3>. QED  BY <3>1, <3>2 DEF CodesSound
    <2>. QED  BY <2>3, <2>4, <2>5, <2>6, <2>7, <2>9, <2>10, <2>12, <2>13
<1>. QED  BY <1>a, <1>b DEF VerifyEnrollTOTP

-----------------------------------------------------------------------------
(* The change of the credential.                                           *)

\* SaveAdminCredential under authMu: every session of the old password is left
\* to this handler to revoke, and its row of the second factor to move.
LEMMA SaveStep ==
    ASSUME Inv, NEW r \in Requests, NEW new \in Users, SaveCredential(r, new)
    PROVE  Inv'
<1> USE DEF Inv
<1>0. /\ req[r].pc = "save" /\ authMu = NoOne /\ req[r] \in ReqStates /\ req[r].user \in Users
      /\ UNCHANGED <<totp, rows, pending, nextSecret, accepted, enrolled>>
      /\ \A o \in Requests : ~Moving(o)
      /\ ~Revoking(r) /\ r # NoOne
      /\ cred.gen # 0 \/ {"session", "totp"} \subseteq excuse
    BY DEF SaveCredential, TypeOK, HandlerSound, MutexSound, Revoking, MovePcs, Fresh
<1>1. CASE Return(r) /\ Fault /\ UNCHANGED <<cred, nextGen, excuse, authMu>>
    BY <1>0, <1>1, ReturnStep DEF tables
<1>2. CASE ~(Return(r) /\ Fault /\ UNCHANGED <<cred, nextGen, excuse, authMu>>)
    <2> DEFINE renamed == cred.gen # 0 /\ cred.user # new
    <2>1. /\ cred' = [user |-> new, gen |-> nextGen] /\ nextGen' = nextGen + 1
          /\ excuse' = IF cred.user # req[r].user THEN excuse \cup {"session"} ELSE excuse
          /\ req' = [req EXCEPT ![r].pc = IF renamed THEN "migrate" ELSE "revoke",
                                ![r].old = cred.user, ![r].new = new]
          /\ authMu' = IF renamed THEN r ELSE NoOne
          /\ UNCHANGED faults
        BY <1>2 DEF SaveCredential
    <2>2. PICK at \in {"migrate", "revoke"} :
             /\ at = "migrate" <=> renamed
             /\ req' = [req EXCEPT ![r].pc = at, ![r].old = cred.user, ![r].new = new]
        BY <2>1
    <2> DEFINE q == [req[r] EXCEPT !.pc = at, !.old = cred.user, !.new = new]
    <2>3. req' = [req EXCEPT ![r] = q]
        BY <2>2 DEF TypeOK
    <2>4. cred.user \in Users /\ cred.gen \in Gens
        BY DEF TypeOK, CredStates
    <2>5. /\ q \in ReqStates /\ q.pc = at /\ q.user = req[r].user /\ q.gen = req[r].gen /\ q.kind = req[r].kind
          /\ q.old = cred.user /\ q.new = new
        BY <1>0, <2>4 DEF ReqStates
    <2> HIDE DEF q
    <2>6. /\ req' \in [Requests -> ReqStates] /\ req'[r] = q
          /\ \A o \in Requests \ {r} : req'[o] = req[o]
        BY <2>3, <2>5, OneHandler
    <2>7. /\ Cardinality(Waiting) \in Nat /\ Cardinality(Waiting)' \in Nat
          /\ Cardinality(Waiting)' + 1 = Cardinality(Waiting)
        <3>1. r \in Waiting /\ q.pc \notin WaitPcs
            BY <1>0, <2>5 DEF Waiting, WaitPcs
        <3>. QED  BY <2>3, <2>5, <3>1, WaitingMoves
    <2>8. nextGen \in 1 .. MaxGen /\ nextGen + Cardinality(Waiting) <= MaxGen + 1
        BY <2>7 DEF GenSound, TypeOK
    <2>9. cred' \in CredStates /\ cred'.user = new /\ cred'.gen = nextGen
        BY <2>1, <2>8 DEF CredStates, Gens
    <2>10. TypeOK'
        BY <1>0, <2>1, <2>6, <2>8, <2>9 DEF TypeOK
    <2>11. MutexSound'
        BY <1>0, <2>1, <2>2, <2>5, <2>6, <2>9 DEF MutexSound, Moving, MovePcs
    <2>12. \A o \in Requests : HandlerSound(o)'
        <3>1. HandlerSound(r)'
            BY <1>0, <2>1, <2>4, <2>5, <2>6, <2>8 DEF HandlerSound, MovePcs, ReqStates, Gens
        <3>2. ASSUME NEW o \in Requests \ {r} PROVE HandlerSound(o)'
            <4>1. req[o].gen \in Nat /\ nextGen' = nextGen + 1 /\ nextGen \in Nat /\ req'[o] = req[o]
                BY <2>1, <2>6, <2>8 DEF TypeOK, ReqStates, Gens
            <4>. QED  BY <4>1 DEF HandlerSound
        <3>. QED  BY <3>1, <3>2
    <2>13. GenSound'
        <3>1. \A s \in Sids : rows[s].good => rows[s].gen \in Nat
            BY GoodRows
        <3>. QED  BY <1>0, <2>1, <2>7, <2>8, <2>9, <3>1 DEF GenSound
    <2>14. Fresh'
        BY <2>8, <2>9 DEF Fresh
    <2>15. Covered'
        <3> SUFFICES ASSUME faults = 0, "session" \notin excuse' PROVE Covered'
            BY <2>1 DEF Covered
        <3>1. cred.user = req[r].user /\ "session" \notin excuse
            BY <2>1
        <3>2. Revoking(r)' /\ req'[r].user = cred.user
            BY <2>5, <2>6, <3>1 DEF Revoking, MovePcs
        <3>3. \A o \in Requests : Revoking(o) => Revoking(o)' /\ req'[o].user = req[o].user
            BY <1>0, <2>6 DEF Revoking
        <3>4. \A s \in Sids : rows'[s].good => \E o \in Requests : Revoking(o)' /\ req'[o].user = rows'[s].user
            BY <1>0, <3>1, <3>2, <3>3 DEF Covered
        <3>5. \A o \in Requests : req'[o].pc # "idle" /\ req'[o].kind = "login" => req'[o].gen # cred'.gen
            <4>1. \A o \in Requests : req'[o].kind = req[o].kind /\ req'[o].gen = req[o].gen
                                      /\ (req'[o].pc # "idle" => req[o].pc # "idle")
                BY <1>0, <2>5, <2>6
            <4>. QED  BY <2>8, <2>9, <4>1 DEF HandlerSound
        <3>. QED  BY <3>4, <3>5 DEF Covered
    <2>16. \A o \in Requests : Moving(o)' <=> o = r /\ renamed
        BY <1>0, <2>2, <2>5, <2>6 DEF Moving, MovePcs
    <2>17. RowPlaced'
        <3> SUFFICES ASSUME faults = 0, "totp" \notin excuse' PROVE RowPlaced'
            BY <2>1 DEF RowPlaced
        <3>1. "totp" \notin excuse /\ cred.gen # 0
            BY <1>0, <2>1
        <3>2. \A u \in Users : totp[u].secret # 0 <=> enrolled /\ u = cred.user
            BY <1>0, <3>1 DEF RowPlaced
        <3>3. CASE renamed
            <4>1. authMu' # NoOne /\ q.pc = "migrate" /\ cred.user # new
                BY <1>0, <2>1, <2>2, <2>5, <3>3
            <4>. QED  BY <1>0, <2>4, <2>5, <2>6, <2>16, <3>2, <4>1 DEF RowPlaced
        <3>4. CASE ~renamed
            <4>1. cred.user = new
                BY <3>1, <3>4
            <4>. QED  BY <1>0, <2>9, <2>16, <3>2, <3>4, <4>1 DEF RowPlaced
        <3>. QED  BY <3>3, <3>4
    <2>18. /\ \A u \in Users : Leaving(u)' <=> Leaving(u)
           /\ \A o \in Requests : req'[o].pc \notin {"settotp", "deltotp"}
           /\ "totp" \in excuse' <=> "totp" \in excuse
        BY <1>0, <2>1, <2>5, <2>6 DEF Leaving, Moving, MovePcs
    <2>19. CopySound' /\ SecretsSound' /\ CodesSound'
        <3>1. CopySound' /\ CodesSound'
            BY <1>0, <2>18 DEF CopySound, CodesSound, BackupCodeOnce
        <3>2. \A o \in Requests : req'[o].pc = "enrol" => req'[o] = req[o]
            BY <2>2, <2>5, <2>6
        <3>3. SecretsSound'
            BY <1>0, <2>18, <3>2 DEF SecretsSound
        <3>. QED  BY <3>1, <3>3
    <2>. QED  BY <2>10, <2>11, <2>12, <2>13, <2>14, <2>15, <2>17, <2>19
<1>. QED  BY <1>1, <1>2

\* SetupAdminCredential: there is nothing yet to revoke or to move.
LEMMA SetupStep ==
    ASSUME Inv, NEW r \in Requests, NEW new \in Users, SetupCredential(r, new)
    PROVE  Inv'
<1> USE DEF Inv
<1>0. /\ req[r].pc = "setup" /\ authMu = NoOne /\ Return(r)
      /\ UNCHANGED <<totp, rows, pending, authMu, nextSecret, excuse, accepted, enrolled>>
      /\ \A o \in Requests : ~Moving(o)
      /\ ~Revoking(r)
    BY DEF SetupCredential, MutexSound, Revoking, MovePcs
<1>1. CASE UNCHANGED <<cred, nextGen>> /\ (faults' = faults \/ Fault)
    BY <1>0, <1>1, ReturnStep DEF tables
<1>2. CASE cred.gen = 0 /\ cred' = [user |-> new, gen |-> nextGen] /\ nextGen' = nextGen + 1 /\ UNCHANGED faults
    <2>3. /\ req' = [req EXCEPT ![r] = Idle] /\ Idle \in ReqStates /\ Idle.pc = "idle"
        BY <1>0, IdleHandler DEF Return
    <2>6. /\ req' \in [Requests -> ReqStates] /\ req'[r] = Idle
          /\ \A o \in Requests \ {r} : req'[o] = req[o]
        BY <2>3, OneHandler
    <2>7. /\ Cardinality(Waiting) \in Nat /\ Cardinality(Waiting)' \in Nat
          /\ Cardinality(Waiting)' + 1 = Cardinality(Waiting)
        <3>1. r \in Waiting /\ Idle.pc \notin WaitPcs
            BY <1>0, <2>3 DEF Waiting, WaitPcs
        <3>. QED  BY <2>3, <3>1, WaitingMoves
    <2>8. nextGen \in 1 .. MaxGen /\ nextGen + Cardinality(Waiting) <= MaxGen + 1
        BY <2>7 DEF GenSound, TypeOK
    <2>9. cred' \in CredStates /\ cred'.user = new /\ cred'.gen = nextGen
        BY <1>2, <2>8 DEF CredStates, Gens
    <2>10. TypeOK'
        BY <1>0, <1>2, <2>6, <2>8, <2>9 DEF TypeOK
    <2>11. \A o \in Requests : ~Moving(o)'
        BY <1>0, <2>3, <2>6 DEF Moving, MovePcs
    <2>12. MutexSound'
        BY <1>0, <2>11 DEF MutexSound
    <2>13. ASSUME NEW o \in Requests PROVE HandlerSound(o)'
        <3>1. CASE o = r
            BY <2>3, <2>6, <3>1 DEF HandlerSound, MovePcs
        <3>2. CASE o # r
            <4>1. req[o].gen \in Nat /\ nextGen' = nextGen + 1 /\ nextGen \in Nat /\ req'[o] = req[o]
                BY <1>2, <2>6, <2>8, <3>2 DEF TypeOK, ReqStates, Gens
            <4>. QED  BY <4>1 DEF HandlerSound
        <3>. QED  BY <3>1, <3>2
    <2>14. GenSound'
        <3>1. \A s \in Sids : rows[s].good => rows[s].gen \in Nat
            BY GoodRows
        <3>. QED  BY <1>0, <1>2, <2>7, <2>8, <2>9, <3>1 DEF GenSound
    <2>15. Fresh'
        BY <2>8, <2>9 DEF Fresh
    <2>16. Covered'
        <3> SUFFICES ASSUME "session" \notin excuse PROVE Covered'
            BY <1>0 DEF Covered
        <3>1. /\ \A s \in Sids : ~rows[s].good
              /\ \A o \in Requests : req[o].pc \in {"idle", "setup"}
            BY <1>2 DEF Fresh
        <3>2. \A o \in Requests : req'[o].pc # "idle" /\ req'[o].kind = "login" => req'[o].gen # cred'.gen
            BY <2>3, <2>6, <2>8, <2>9 DEF HandlerSound
        <3>. QED  BY <1>0, <3>1, <3>2 DEF Covered
    <2>17. RowPlaced'
        <3> SUFFICES ASSUME "totp" \notin excuse PROVE RowPlaced'
            BY <1>0 DEF RowPlaced
        <3>1. ~enrolled /\ \A u \in Users : totp[u].secret = 0
            BY <1>2 DEF Fresh
        <3>. QED  BY <1>0, <2>11, <3>1 DEF RowPlaced
    <2>18. /\ \A u \in Users : Leaving(u)' <=> Leaving(u)
           /\ \A o \in Requests : req'[o].pc \notin {"settotp", "deltotp"}
        BY <1>0, <2>11 DEF Leaving, Moving, MovePcs
    <2>19. CopySound' /\ SecretsSound' /\ CodesSound'
        <3>1. CopySound' /\ CodesSound'
            BY <1>0, <2>18 DEF CopySound, CodesSound, BackupCodeOnce
        <3>2. \A o \in Requests : req'[o].pc = "enrol" => req'[o] = req[o]
            BY <2>6, IdleHandler
        <3>3. SecretsSound'
            BY <1>0, <2>18, <3>2 DEF SecretsSound
        <3>. QED  BY <3>1, <3>3
    <2>. QED  BY <2>10, <2>12, <2>13, <2>14, <2>15, <2>16, <2>17, <2>19
<1>. QED  BY <1>1, <1>2 DEF SetupCredential, MayConfigure

\* reset-auth excuses everything that its missing revocations leave behind.
LEMMA ResetStep == ASSUME Inv, ResetAuth PROVE Inv'
<1> USE DEF Inv, ResetAuth
<1>1. cred' \in CredStates /\ cred'.user = cred.user /\ cred'.gen = 0
    <2>1. cred \in [user : Users, gen : Gens] /\ 0 \in Gens /\ cred' = [cred EXCEPT !.gen = 0]
        BY DEF TypeOK, CredStates, Gens
    <2>. QED  BY <2>1 DEF CredStates
<1>2. TypeOK'
    BY <1>1 DEF TypeOK
<1>3. MutexSound' /\ (\A o \in Requests : HandlerSound(o)')
    BY <1>1 DEF MutexSound, HandlerSound, Moving
<1>4. GenSound'
    BY <1>1 DEF GenSound, Waiting, TypeOK
<1>5. Fresh' /\ Covered' /\ RowPlaced' /\ CopySound' /\ SecretsSound' /\ CodesSound'
    BY DEF Fresh, Covered, RowPlaced, CopySound, SecretsSound, CodesSound
<1>. QED  BY <1>2, <1>3, <1>4, <1>5

\* GetTOTP of the old name: there is no row to move, or the handler has it in hand.
LEMMA ReadOldStep ==
    ASSUME Inv, NEW r \in Requests, ReadOldTotp(r)
    PROVE  Inv'
<1> USE DEF Inv
<1> DEFINE row == totp[req[r].old]
<1>0. /\ req[r].pc = "migrate" /\ Moving(r) /\ authMu = r /\ r # NoOne
      /\ req[r] \in ReqStates /\ req[r].old \in Users /\ req[r].new \in Users /\ req[r].user \in Users
      /\ req[r].old # req[r].new /\ cred.user = req[r].new
      /\ UNCHANGED <<cred, totp, rows, pending, nextGen, nextSecret, excuse, accepted, enrolled>>
      /\ \A o \in Requests \ {r} : ~Moving(o)
      /\ cred.gen # 0 \/ {"session", "totp"} \subseteq excuse
    BY DEF ReadOldTotp, TypeOK, HandlerSound, MutexSound, Moving, MovePcs, Fresh
<1>1. CASE Return(r) /\ authMu' = NoOne /\ Fault
    BY <1>0, <1>1, AbortStep DEF tables
<1>2. CASE /\ req' = [req EXCEPT ![r].pc = AfterGetTotp(row), ![r].base = row]
           /\ authMu' = IF AfterGetTotp(row) = "revoke" THEN NoOne ELSE authMu
           /\ UNCHANGED faults
    <2>1. PICK at \in {"revoke", "settotp"} :
             /\ at = "revoke" <=> row.secret = 0
             /\ req' = [req EXCEPT ![r].pc = at, ![r].base = row]
             /\ authMu' = IF at = "revoke" THEN NoOne ELSE r
        BY <1>0, <1>2 DEF AfterGetTotp
    <2> DEFINE q == [req[r] EXCEPT !.pc = at, !.base = row]
    <2>2. req' = [req EXCEPT ![r] = q] /\ row \in TotpRow
        BY <1>0, <2>1 DEF TypeOK
    <2>3. /\ q \in ReqStates /\ q.pc = at /\ q.user = req[r].user /\ q.gen = req[r].gen /\ q.kind = req[r].kind
          /\ q.old = req[r].old /\ q.new = req[r].new /\ q.base = row
        BY <1>0, <2>2 DEF ReqStates
    <2> HIDE DEF q
    <2>4. /\ req' \in [Requests -> ReqStates] /\ req'[r] = q
          /\ \A o \in Requests \ {r} : req'[o] = req[o]
        BY <2>2, <2>3, OneHandler
    <2>5. TypeOK'
        BY <1>0, <1>2, <2>1, <2>4 DEF TypeOK
    <2>6. \A o \in Requests : Moving(o)' <=> o = r /\ at = "settotp"
        BY <1>0, <2>3, <2>4 DEF Moving, MovePcs
    <2>7. MutexSound'
        BY <1>0, <2>1, <2>3, <2>4, <2>6 DEF MutexSound
    <2>8. \A o \in Requests : HandlerSound(o)'
        BY <1>0, <2>1, <2>3, <2>4 DEF HandlerSound, MovePcs
    <2>9. GenSound'
        <3>1. /\ Cardinality(Waiting) \in Nat /\ Cardinality(Waiting)' \in Nat
              /\ Cardinality(Waiting)' <= Cardinality(Waiting)
            BY <2>2, <2>3, WaitingMoves DEF WaitPcs
        <3>. QED  BY <1>0, <3>1 DEF GenSound, TypeOK
    <2>10. Fresh'
        BY <1>0 DEF Fresh
    <2>11. Covered'
        <3>1. \A o \in Requests : /\ Revoking(o)' <=> Revoking(o)
                                  /\ req'[o].user = req[o].user /\ req'[o].kind = req[o].kind
                                  /\ req'[o].gen = req[o].gen
                                  /\ req'[o].pc # "idle" => req[o].pc # "idle"
            BY <1>0, <2>3, <2>4 DEF Revoking, MovePcs
        <3>2. faults' = faults /\ excuse' = excuse /\ rows' = rows /\ cred' = cred
            BY <1>0, <1>2
        <3>. QED  BY <3>1, <3>2 DEF Covered
    <2>12. RowPlaced'
        <3> SUFFICES ASSUME faults = 0, "totp" \notin excuse PROVE RowPlaced'
            BY <1>0, <1>2 DEF RowPlaced
        <3>1. /\ \A u \in Users \ {req[r].old, req[r].new} : totp[u].secret = 0
              /\ enrolled <=> totp[req[r].old].secret # 0 \/ totp[req[r].new].secret # 0
            BY <1>0 DEF RowPlaced
        <3>2. CASE at = "revoke"
            BY <1>0, <2>1, <2>6, <3>1, <3>2 DEF RowPlaced
        <3>3. CASE at = "settotp"
            BY <1>0, <2>1, <2>3, <2>4, <2>6, <3>1, <3>3 DEF RowPlaced
        <3>. QED  BY <3>2, <3>3
    <2>13. \A u \in Users : ~Leaving(u)' /\ ~Leaving(u)
        BY <1>0, <2>3, <2>4 DEF Leaving, Moving, MovePcs
    <2>14. CopySound'
        BY <1>0, <2>3, <2>4 DEF CopySound, Moving, MovePcs
    <2>15. SecretsSound' /\ CodesSound'
        <3>1. \A o \in Requests : req'[o].pc = "enrol" => req'[o] = req[o]
            BY <2>1, <2>3, <2>4
        <3>2. SecretsSound'
            BY <1>0, <2>13, <3>1 DEF SecretsSound
        <3>3. CodesSound'
            BY <1>0, <2>13 DEF CodesSound, BackupCodeOnce
        <3>. QED  BY <3>2, <3>3
    <2>. QED  BY <2>5, <2>7, <2>8, <2>9, <2>10, <2>11, <2>12, <2>14, <2>15
<1>. QED  BY <1>1, <1>2 DEF ReadOldTotp

\* SetTOTP under the new name: for a moment there are two copies.
LEMMA WriteNewStep ==
    ASSUME Inv, NEW r \in Requests, WriteNewTotp(r)
    PROVE  Inv'
<1> USE DEF Inv
<1> DEFINE old == req[r].old
           new == req[r].new
           row == req[r].base
           q == [req[r] EXCEPT !.pc = "deltotp"]
<1>0. /\ req[r].pc = "settotp" /\ Moving(r) /\ authMu = r /\ r # NoOne
      /\ req[r] \in ReqStates /\ old \in Users /\ new \in Users /\ req[r].user \in Users
      /\ old # new /\ cred.user = new /\ row \in TotpRow /\ row.secret # 0
      /\ UNCHANGED <<cred, rows, pending, nextGen, nextSecret, accepted, enrolled>>
      /\ \A o \in Requests \ {r} : ~Moving(o)
      /\ cred.gen # 0 \/ {"session", "totp"} \subseteq excuse
    BY DEF WriteNewTotp, TypeOK, HandlerSound, MutexSound, Moving, MovePcs, Fresh, ReqStates
<1>1. CASE Return(r) /\ authMu' = NoOne /\ Fault /\ UNCHANGED <<totp, excuse>>
    BY <1>0, <1>1, AbortStep DEF tables
<1>2. CASE /\ totp' = [totp EXCEPT ![new] = row]
           /\ excuse' = IF totp[old] # row THEN excuse \cup {"totp"} ELSE excuse
           /\ Goto(r, "deltotp")
           /\ UNCHANGED <<authMu, faults>>
    <2>1. req' = [req EXCEPT ![r] = q]
        BY <1>2 DEF Goto, TypeOK
    <2>2. /\ q \in ReqStates /\ q.pc = "deltotp" /\ q.user = req[r].user /\ q.gen = req[r].gen
          /\ q.kind = req[r].kind /\ q.old = old /\ q.new = new /\ q.base = row
        BY <1>0 DEF ReqStates
    <2> HIDE DEF q
    <2>3. /\ req' \in [Requests -> ReqStates] /\ req'[r] = q
          /\ \A o \in Requests \ {r} : req'[o] = req[o]
        BY <2>1, <2>2, OneHandler
    <2>4. TypeOK'
        BY <1>0, <1>2, <2>3 DEF TypeOK
    <2>5. \A o \in Requests : Moving(o)' <=> o = r
        BY <1>0, <2>2, <2>3 DEF Moving, MovePcs
    <2>6. MutexSound' /\ \A o \in Requests : HandlerSound(o)'
        BY <1>0, <1>2, <2>2, <2>3, <2>5 DEF MutexSound, HandlerSound, MovePcs
    <2>7. GenSound'
        <3>1. /\ Cardinality(Waiting) \in Nat /\ Cardinality(Waiting)' \in Nat
              /\ Cardinality(Waiting)' <= Cardinality(Waiting)
            BY <2>1, <2>2, WaitingMoves DEF WaitPcs
        <3>. QED  BY <1>0, <3>1 DEF GenSound, TypeOK
    <2>8. Fresh' /\ Covered'
        <3>1. \A o \in Requests : /\ Revoking(o)' <=> Revoking(o)
                                  /\ req'[o].user = req[o].user /\ req'[o].kind = req[o].kind
                                  /\ req'[o].gen = req[o].gen
                                  /\ req'[o].pc # "idle" => req[o].pc # "idle"
            BY <1>0, <2>2, <2>3 DEF Revoking, MovePcs
        <3>2. excuse \subseteq excuse' /\ ("session" \in excuse' => "session" \in excuse)
            BY <1>2
        <3>3. Covered'
            BY <1>0, <1>2, <3>1, <3>2 DEF Covered
        <3>4. Fresh'
            BY <1>0, <3>2 DEF Fresh
        <3>. QED  BY <3>3, <3>4
    <2>9. /\ totp'[new] = row /\ \A u \in Users \ {new} : totp'[u] = totp[u]
          /\ "totp" \notin excuse' => "totp" \notin excuse /\ totp[old] = row
        BY <1>0, <1>2 DEF TypeOK
    <2>10. /\ \A u \in Users : ~Leaving(u)
           /\ \A u \in Users : Leaving(u)' <=> u = old
        BY <1>0, <2>2, <2>3, <2>5 DEF Leaving, Moving, MovePcs
    <2>11. RowPlaced'
        <3> SUFFICES ASSUME faults = 0, "totp" \notin excuse' PROVE RowPlaced'
            BY <1>2 DEF RowPlaced
        <3>1. enrolled /\ \A u \in Users \ {old, new} : totp[u].secret = 0
            BY <1>0, <2>9 DEF RowPlaced
        <3>. QED  BY <1>0, <1>2, <2>2, <2>3, <2>5, <2>9, <3>1 DEF RowPlaced
    <2>12. CopySound'
        <3>1. \A o \in Requests : req'[o].pc \in {"settotp", "deltotp"} => o = r
            BY <2>5 DEF Moving, MovePcs
        <3>. QED  BY <1>0, <2>2, <2>3, <2>9, <3>1 DEF CopySound
    <2>13. SecretsSound' /\ CodesSound'
        <3> SUFFICES ASSUME "totp" \notin excuse' PROVE SecretsSound' /\ CodesSound'
            BY DEF SecretsSound, CodesSound
        <3>1. SecretsSound'
            <4>1. \A u \in Users : u # old => totp[u].secret # row.secret
                BY <1>0, <2>9, <2>10 DEF SecretsSound
            <4>2. \A u, v \in Users : u # v /\ totp'[u].secret # 0 /\ totp'[u].secret = totp'[v].secret
                     => Leaving(u)' \/ Leaving(v)'
                BY <1>0, <2>9, <2>10, <4>1 DEF SecretsSound
            <4>3. /\ row.secret < nextSecret
                  /\ \A o \in Requests : req'[o].pc = "enrol" => req'[o].base.secret < nextSecret
                BY <1>0, <2>2, <2>3, <2>9 DEF SecretsSound
            <4>. QED  BY <1>0, <2>9, <4>2, <4>3 DEF SecretsSound
        <3>2. CodesSound'
            BY <1>0, <2>9, <2>10 DEF CodesSound, BackupCodeOnce
        <3>. QED  BY <3>1, <3>2
    <2>. QED  BY <2>4, <2>6, <2>7, <2>8, <2>11, <2>12, <2>13
<1>. QED  BY <1>1, <1>2 DEF WriteNewTotp

\* DeleteTOTP of the old name: the row is under the new one alone, or the copy
\* that stays is on record.
LEMMA DeleteOldStep ==
    ASSUME Inv, NEW r \in Requests, DeleteOldTotp(r)
    PROVE  Inv'
<1> USE DEF Inv
<1> DEFINE old == req[r].old
           new == req[r].new
           q == [req[r] EXCEPT !.pc = "revoke"]
<1>0. /\ req[r].pc = "deltotp" /\ Moving(r) /\ authMu = r /\ authMu' = NoOne /\ r # NoOne /\ Goto(r, "revoke")
      /\ req[r] \in ReqStates /\ old \in Users /\ new \in Users /\ req[r].user \in Users
      /\ old # new /\ cred.user = new
      /\ UNCHANGED <<cred, rows, pending, nextGen, nextSecret, accepted, enrolled>>
      /\ \A o \in Requests \ {r} : ~Moving(o)
      /\ cred.gen # 0 \/ {"session", "totp"} \subseteq excuse
    BY DEF DeleteOldTotp, TypeOK, HandlerSound, MutexSound, Moving, MovePcs, Fresh
<1>1. /\ \/ totp' = [totp EXCEPT ![old] = NoTotp] /\ "totp" \notin excuse' /\ excuse' = excuse
         \/ totp' \in {totp, [totp EXCEPT ![old] = NoTotp]} /\ excuse' = excuse \cup {"totp"}
      /\ faults' = faults \/ Fault
    BY DEF DeleteOldTotp, Moved
<1>2. req' = [req EXCEPT ![r] = q]
    BY <1>0 DEF Goto, TypeOK
<1>3. /\ q \in ReqStates /\ q.pc = "revoke" /\ q.user = req[r].user /\ q.gen = req[r].gen
      /\ q.kind = req[r].kind /\ q.old = old /\ q.new = new
    BY <1>0 DEF ReqStates
<1> HIDE DEF q
<1>4. /\ req' \in [Requests -> ReqStates] /\ req'[r] = q
      /\ \A o \in Requests \ {r} : req'[o] = req[o]
    BY <1>2, <1>3, OneHandler
<1>5. faults' \in 0 .. MaxFaults /\ (faults' = 0 => faults = 0)
    BY <1>1 DEF TypeOK, Fault
<1>6. /\ totp' \in [Users -> TotpRow] /\ excuse \subseteq excuse' /\ excuse' \subseteq {"totp", "session"}
      /\ "session" \in excuse' => "session" \in excuse
      /\ "totp" \notin excuse' => /\ "totp" \notin excuse /\ totp'[old].secret = 0
                                  /\ \A u \in Users \ {old} : totp'[u] = totp[u]
    <2>1. /\ [totp EXCEPT ![old] = NoTotp] \in [Users -> TotpRow] /\ totp \in [Users -> TotpRow]
          /\ [totp EXCEPT ![old] = NoTotp][old] = NoTotp
          /\ \A u \in Users \ {old} : [totp EXCEPT ![old] = NoTotp][u] = totp[u]
        BY <1>0, IdleHandler DEF TypeOK
    <2>2. excuse \subseteq excuse' /\ excuse' \subseteq {"totp", "session"}
        BY <1>1 DEF TypeOK
    <2>. QED  BY <1>1, <2>1, <2>2, IdleHandler
<1>7. TypeOK'
    BY <1>0, <1>4, <1>5, <1>6 DEF TypeOK
<1>8. \A o \in Requests : ~Moving(o)'
    BY <1>0, <1>3, <1>4 DEF Moving, MovePcs
<1>9. MutexSound' /\ \A o \in Requests : HandlerSound(o)'
    <2>1. MutexSound'
        BY <1>0, <1>8 DEF MutexSound
    <2>2. \A o \in Requests : HandlerSound(o)'
        BY <1>0, <1>3, <1>4 DEF HandlerSound, MovePcs
    <2>. QED  BY <2>1, <2>2
<1>10. GenSound'
    <2>1. /\ Cardinality(Waiting) \in Nat /\ Cardinality(Waiting)' \in Nat
          /\ Cardinality(Waiting)' <= Cardinality(Waiting)
        BY <1>2, <1>3, WaitingMoves DEF WaitPcs
    <2>. QED  BY <1>0, <2>1 DEF GenSound, TypeOK
<1>11. Fresh' /\ Covered'
    <2>1. \A o \in Requests : /\ Revoking(o)' <=> Revoking(o)
                              /\ req'[o].user = req[o].user /\ req'[o].kind = req[o].kind
                              /\ req'[o].gen = req[o].gen
                              /\ req'[o].pc # "idle" => req[o].pc # "idle"
        BY <1>0, <1>3, <1>4 DEF Revoking, MovePcs
    <2>2. Covered'
        BY <1>0, <1>5, <1>6, <2>1 DEF Covered
    <2>3. Fresh'
        BY <1>0, <1>6 DEF Fresh
    <2>. QED  BY <2>2, <2>3
<1>12. RowPlaced'
    <2> SUFFICES ASSUME faults = 0, "totp" \notin excuse' PROVE RowPlaced'
        BY <1>5 DEF RowPlaced
    <2>1. (enrolled <=> totp[new].secret # 0) /\ \A u \in Users \ {old, new} : totp[u].secret = 0
        BY <1>0, <1>6 DEF RowPlaced
    <2>. QED  BY <1>0, <1>6, <1>8, <2>1 DEF RowPlaced
<1>13. /\ \A u \in Users : ~Leaving(u)'
       /\ \A u \in Users : Leaving(u) <=> u = old
    BY <1>0, <1>8 DEF Leaving, Moving, MovePcs
<1>14. CopySound'
    BY <1>8 DEF CopySound, Moving, MovePcs
<1>15. SecretsSound' /\ CodesSound'
    <2> SUFFICES ASSUME "totp" \notin excuse' PROVE SecretsSound' /\ CodesSound'
        BY DEF SecretsSound, CodesSound
    <2>1. SecretsSound'
        <3>1. \A u \in Users : totp'[u].secret < nextSecret
            <4>1. nextSecret \in Nat /\ 0 < nextSecret
                BY DEF TypeOK
            <4>2. \A u \in Users \ {old} : totp'[u].secret < nextSecret
                BY <1>6 DEF SecretsSound
            <4>. QED  BY <1>6, <4>1, <4>2
        <3>2. \A u, v \in Users : u # v /\ totp'[u].secret # 0 => totp'[u].secret # totp'[v].secret
            BY <1>6, <1>13 DEF SecretsSound
        <3>3. \A o \in Requests : req'[o].pc = "enrol" => req'[o] = req[o]
            BY <1>3, <1>4
        <3>. QED  BY <1>0, <1>6, <3>1, <3>2, <3>3 DEF SecretsSound
    <2>2. CodesSound'
        BY <1>0, <1>6, <1>13 DEF CodesSound, BackupCodeOnce
    <2>. QED  BY <2>1, <2>2
<1>. QED  BY <1>7, <1>9, <1>10, <1>11, <1>12, <1>14, <1>15

-----------------------------------------------------------------------------
\* The inductive invariant holds in every reachable state.
THEOREM InvariantHolds == Spec => []Inv
<1>1. Init => Inv
    <2> SUFFICES ASSUME Init PROVE Inv
        OBVIOUS
    <2>0. cred \in CredStates /\ cred.gen \in {0, 1} /\ nextGen = cred.gen + 1
        BY DEF Init, CredStates, Gens
    <2>1. /\ req \in [Requests -> ReqStates]
          /\ \A r \in Requests : req[r] = Idle /\ req[r].pc = "idle"
          /\ \A s \in Sids : rows[s] = NoSession /\ ~rows[s].good
          /\ \A u \in Users : totp[u] = NoTotp /\ totp[u].secret = 0
          /\ totp \in [Users -> TotpRow]
        BY IdleHandler DEF Init, NoSession
    <2>2. TypeOK
        <3>1. rows \in [Sids -> SessionRow]
            BY DEF Init, NoSession, SessionRow
        <3>2. accepted \in [1 .. MaxSecrets -> [Codes -> 0 .. 2]]
            BY DEF Init
        <3>3. nextGen \in 1 .. MaxGen + 1 /\ nextSecret \in 1 .. MaxSecrets + 1 /\ faults \in 0 .. MaxFaults
            BY <2>0 DEF Init
        <3>4. pending \in [Sids -> SUBSET (1 .. MaxSecrets)]
            BY DEF Init
        <3>5. authMu \in Requests \cup {NoOne} /\ excuse \subseteq {"totp", "session"} /\ enrolled \in BOOLEAN
            BY DEF Init
        <3>. QED  BY <2>0, <2>1, <3>1, <3>2, <3>3, <3>4, <3>5 DEF TypeOK
    <2>3. Waiting = {}
        BY <2>1 DEF Waiting, WaitPcs
    <2>4. GenSound
        BY <2>0, <2>1, <2>3, FS_EmptySet DEF GenSound
    <2>5. MutexSound /\ \A r \in Requests : HandlerSound(r)
        BY <2>1 DEF Init, MutexSound, HandlerSound, Moving, MovePcs
    <2>6. Fresh /\ Covered
        BY <2>1 DEF Init, Fresh, Covered
    <2>7. RowPlaced /\ CopySound
        BY <2>1 DEF Init, RowPlaced, CopySound, Moving, MovePcs
    <2>8. SecretsSound /\ CodesSound
        BY <2>1 DEF Init, SecretsSound, CodesSound, BackupCodeOnce
    <2>. QED  BY <2>2, <2>4, <2>5, <2>6, <2>7, <2>8 DEF Inv
<1>2. Inv /\ [Next]_vars => Inv'
    <2> SUFFICES ASSUME Inv, [Next]_vars PROVE Inv'
        OBVIOUS
    <2>1. ASSUME NEW r \in Requests, LoginStep(r) PROVE Inv'
        BY <2>1, QuietSteps, WriteTotpStep, DeleteTotpStep, IssueStep, VerifyEnrollStep DEF LoginStep
    <2>2. ASSUME NEW r \in Requests, AccountStep(r) PROVE Inv'
        BY <2>2, QuietSteps, ReadOldStep, WriteNewStep, DeleteOldStep, RevokeStep, SaveStep, SetupStep
           DEF AccountStep
    <2>3. ASSUME NEW r \in Requests,
                 \/ BeginLogin(r) \/ BeginSetup(r)
                 \/ \E s \in Sids : BeginDisable(r, s) \/ BeginChange(r, s) \/ BeginVerifyEnroll(r, s)
          PROVE  Inv'
        BY <2>3, QuietSteps
    <2>4. ASSUME NEW s \in Sids, Logout(s) \/ Expire(s) \/ EnrollTOTP(s) PROVE Inv'
        BY <2>4, SessionEnds, EnrollStep
    <2>5. CASE UNCHANGED vars
        BY <2>5 DEF vars, Inv, TypeOK, MutexSound, GenSound, Fresh, HandlerSound, Covered, RowPlaced, CopySound,
            SecretsSound, CodesSound, BackupCodeOnce, Moving, Revoking, Waiting, Leaving
    <2>. QED  BY <2>1, <2>2, <2>3, <2>4, <2>5, ResetStep DEF Next
<1>. QED  BY <1>1, <1>2, PTL DEF Spec

\* Once a change of the credential is done, no session of an older password is
\* good, under the old name or the new (ChangeCredentials), for any number of
\* concurrent logins, changes and sessions.
THEOREM SessionsEnd == Spec => []RotationEndsSessions
<1>1. Inv => RotationEndsSessions
    BY DEF Inv, Covered, Revoking, MovePcs, Changing, RotationEndsSessions
<1>. QED  BY <1>1, InvariantHolds, PTL

\* The second factor is under the operator's current name and no other
\* (ChangeAdminCredential, EnrollTOTP, DisableTOTP).
THEOREM FactorFollowsName == Spec => []EnrolmentFollowsName
<1>1. Inv => EnrolmentFollowsName
    <2> SUFFICES ASSUME Inv, ~Changing, faults = 0, "totp" \notin excuse,
                 NEW u \in Users
                 PROVE  totp[u].secret # 0 <=> enrolled /\ u = cred.user
        BY DEF EnrolmentFollowsName
    <2>1. authMu = NoOne
        BY DEF Inv, TypeOK, MutexSound, Moving, MovePcs, Changing
    <2>. QED  BY <2>1 DEF Inv, RowPlaced
<1>. QED  BY <1>1, InvariantHolds, PTL

\* A backup code lets one login or disabling in (verifyAndAdvance) until its
\* enrolment is verified anew (VerifyEnrollTOTP).
THEOREM CodesAreSpent == Spec => []BackupCodeOnce
<1>1. Inv => BackupCodeOnce
    BY DEF Inv, CodesSound, BackupCodeOnce
<1>. QED  BY <1>1, InvariantHolds, PTL
=============================================================================
