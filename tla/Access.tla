------------------------------- MODULE Access -------------------------------
(***************************************************************************)
(* The operator's access: the login handler with its second factor, the    *)
(* session rows, first-run setup, the change of user name and password,    *)
(* and the enrolment of the second factor.                                 *)
(*                                                                         *)
(* There is one operator.  Each handler runs in a goroutine of its own and *)
(* each SQL statement is one atomic step; nothing but AppService.authMu is *)
(* held between two statements, so a handler may act on a row it has read  *)
(* some statements ago.                                                    *)
(***************************************************************************)
EXTENDS Naturals, FiniteSets

CONSTANTS
    Requests,      \* goroutines of the HTTP server
    Users,         \* user names the operator may choose
    Codes,         \* the backup codes of one enrolment
    MaxGen,        \* bound: passwords set so far
    MaxSecrets,    \* bound: TOTP secrets minted so far
    Sids,          \* bound: sessions that are good at the same time
    MaxFaults,     \* bound: SQL statements that fail
    NoOne          \* no user, no holder of authMu

ASSUME AccessAssumption ==
    /\ MaxGen \in Nat \ {0} /\ MaxSecrets \in Nat
    /\ MaxFaults \in Nat
    /\ NoOne \notin Requests \cup Users
    /\ IsFiniteSet(Requests)
    /\ "otp" \notin Codes

Gens == 0 .. MaxGen

VARIABLES
    cred,      \* admin_credentials: the user and the generation of the password
    totp,      \* totp_state, by user
    rows,      \* the sessions table
    pending,   \* the secrets in the cookies that were issued for each session
    req,       \* the handlers in flight
    authMu,    \* AppService.authMu
    nextGen, nextSecret,
    faults,    \* failed SQL statements so far
    excuse,    \* auxiliary: what has been written on an outdated basis
    accepted,  \* auxiliary: how often each backup code was accepted since its enrolment
    enrolled   \* auxiliary: the operator has enrolled and not disabled since

vars == <<cred, totp, rows, pending, req, authMu, nextGen, nextSecret,
           faults, excuse, accepted, enrolled>>

\* The row of admin_credentials, gen = 0 when there is none.
CredStates == [user : Users, gen : Gens]

\* A totp_state row; secret = 0 when there is none.  The time of the last
\* verification is left out: every verified code rewrites the row.
TotpRow == [secret : 0 .. MaxSecrets, used : SUBSET Codes]
NoTotp == [secret |-> 0, used |-> {}]

\* A session row as ValidateSession sees it: good, or not (no row yet, revoked,
\* expired, or pruned by the sweeper).  gen is auxiliary, the password its
\* login has verified.
SessionRow == [good : {TRUE}, user : Users, gen : Gens] \cup {[good |-> FALSE]}
NoSession == [good |-> FALSE]

\* A handler: where it is, and the values it has read or been given.
ReqStates == [pc : {"idle", "status", "verifyread",
                    "verifywrite", "issue", "delete", "check", "save",
                    "migrate", "settotp", "deltotp", "revoke", "revokenew", "setup",
                    "enrol"},
              kind : {"login", "disable", "change", "setup", "enrol"},
              user : Users \cup {NoOne}, old : Users \cup {NoOne},
              new : Users \cup {NoOne}, gen : Gens,
              code : {"otp"} \cup Codes, base : TotpRow]

Idle == [pc |-> "idle", kind |-> "login", user |-> NoOne, old |-> NoOne, new |-> NoOne,
         gen |-> 0, code |-> "otp", base |-> NoTotp]

Fault == faults < MaxFaults /\ faults' = faults + 1

\* The handler returns, or goes on.
Return(r) == req' = [req EXCEPT ![r] = Idle]
Goto(r, pc) == req' = [req EXCEPT ![r].pc = pc]

Init ==
    /\ \E u \in Users, configured \in {0, 1} : cred = [user |-> u, gen |-> configured]
    /\ totp = [u \in Users |-> NoTotp]
    /\ rows = [s \in Sids |-> NoSession]
    /\ pending = [s \in Sids |-> {}]
    /\ req = [r \in Requests |-> Idle]
    /\ authMu = NoOne
    /\ nextGen = cred.gen + 1 /\ nextSecret = 1
    /\ faults = 0
    /\ excuse = {}
    /\ accepted = [s \in 1 .. MaxSecrets |-> [c \in Codes |-> 0]]
    /\ enrolled = FALSE

-----------------------------------------------------------------------------
(* Login, up to the second factor.                                         *)

\* adminCredential has read the row and the password is right.  Without a row,
\* with a wrong password or while the account is locked the handler has
\* returned: the counter and the lockout are in module Gate.
BeginLogin(r) ==
    /\ req[r].pc = "idle"
    /\ cred.gen # 0
    /\ req' = [req EXCEPT ![r] = [Idle EXCEPT !.pc = "status", !.user = cred.user,
                                              !.gen = cred.gen]]
    /\ UNCHANGED <<cred, totp, rows, pending, authMu, nextGen, nextSecret,
                   faults, excuse, accepted, enrolled>>

\* TOTPStatusFor: no row, no second factor; an empty code is answered with 401
\* and is not a failure.
ReadStatus(r) ==
    /\ req[r].pc = "status"
    /\ \/ totp[req[r].user].secret = 0 /\ Goto(r, "issue") /\ UNCHANGED faults
       \/ totp[req[r].user].secret # 0 /\ Goto(r, "verifyread") /\ UNCHANGED faults
       \/ totp[req[r].user].secret # 0 /\ Return(r) /\ UNCHANGED faults
       \/ Return(r) /\ Fault
    /\ UNCHANGED <<cred, totp, rows, pending, authMu, nextGen, nextSecret,
                   excuse, accepted, enrolled>>

-----------------------------------------------------------------------------
(* verifyAndAdvance, for a login and for DisableTOTP.                      *)

\* Faulty variant: the mask of the used codes is not looked at.
MatchesBurnt(row) == {"otp"} \cup Codes

\* Verify, then VerifyBackupCode over the unused codes: what will be accepted.
Matches(row) == {"otp"} \cup (Codes \ row.used)

\* The row that is written back: a backup code is marked as used.
Burnt(row, code) == [row EXCEPT !.used = @ \cup ({code} \cap Codes)]

\* The row is read and the code compared with it; no match is a failure of
\* the login, and refuses the disabling.
ReadTotp(r) ==
    /\ req[r].pc = "verifyread"
    /\ LET row == totp[req[r].user]
       IN  \/ row.secret = 0 /\ Return(r) /\ UNCHANGED faults
           \/ /\ row.secret # 0
              /\ \E code \in Matches(row) :
                    req' = [req EXCEPT ![r].pc = "verifywrite", ![r].base = row, ![r].code = code]
              /\ UNCHANGED faults
           \/ row.secret # 0 /\ Return(r) /\ UNCHANGED faults
           \/ Return(r) /\ Fault
    /\ UNCHANGED <<cred, totp, rows, pending, authMu, nextGen, nextSecret,
                   excuse, accepted, enrolled>>

\* SetTOTP with the row read before: it also re-creates a row deleted since.
WriteTotp(r) ==
    /\ req[r].pc = "verifywrite"
    /\ LET u == req[r].user
           row == req[r].base
       IN  \/ /\ totp' = [totp EXCEPT ![u] = Burnt(row, req[r].code)]
              /\ accepted' = IF req[r].code \in Codes
                             THEN [accepted EXCEPT ![row.secret][req[r].code] = IF @ = 2 THEN 2 ELSE @ + 1]
                             ELSE accepted
              /\ excuse' = IF totp[u] # row \/ u # cred.user THEN excuse \cup {"totp"} ELSE excuse
              /\ req' = [req EXCEPT ![r].pc = IF req[r].kind = "login" THEN "issue" ELSE "delete",
                                    ![r].base = NoTotp, ![r].code = "otp"]
              /\ UNCHANGED faults
           \/ Fault /\ Return(r) /\ UNCHANGED <<totp, accepted, excuse>>
    /\ UNCHANGED <<cred, rows, pending, authMu, nextGen, nextSecret,
                   enrolled>>

\* Disable: DeleteTOTP, once a factor has passed.  It does not take authMu, so a
\* change of the name may just be moving a row, and will put it back.
DeleteTotp(r) ==
    /\ req[r].pc = "delete"
    /\ \/ /\ totp' = [totp EXCEPT ![req[r].user] = NoTotp]
          /\ enrolled' = FALSE
          /\ excuse' = IF req[r].user # cred.user \/ authMu # NoOne THEN excuse \cup {"totp"} ELSE excuse
          /\ UNCHANGED faults
       \/ Fault /\ UNCHANGED <<totp, enrolled, excuse>>
    /\ Return(r)
    /\ UNCHANGED <<cred, rows, pending, authMu, nextGen, nextSecret,
                   accepted>>

-----------------------------------------------------------------------------
(* The end of a login, and the life of a session row.                      *)

\* Issue: the row is inserted; if that or saving the cookie fails, the handler
\* answers 500 and no session is good (the row of an unsaved cookie is revoked).
Issue(r) ==
    /\ req[r].pc = "issue"
    /\ \/ \E s \in Sids :
             /\ ~rows[s].good
             /\ rows' = [rows EXCEPT ![s] = [good |-> TRUE, user |-> req[r].user, gen |-> req[r].gen]]
             /\ excuse' = IF req[r].gen # cred.gen THEN excuse \cup {"session"} ELSE excuse
             /\ UNCHANGED faults
       \/ Fault /\ UNCHANGED <<rows, excuse>>
    /\ Return(r)
    /\ UNCHANGED <<cred, totp, pending, authMu, nextGen, nextSecret,
                   accepted, enrolled>>

\* RevokeSession and RevokeAllForUser.
Revoked(which) == [s \in Sids |-> IF s \in which THEN NoSession ELSE rows[s]]

\* The cookies of a session are of use as long as its row is good: the client
\* keeps them, and the server has no record of those it has replaced.
Dropped(newRows) == [s \in Sids |-> IF newRows[s].good THEN pending[s] ELSE {}]

\* Logout: the row first, then the cookie, whatever became of the row.
Logout(s) ==
    /\ rows[s].good
    /\ \/ rows' = Revoked({s}) /\ UNCHANGED faults
       \/ UNCHANGED rows /\ Fault
    /\ pending' = Dropped(rows')
    /\ UNCHANGED <<cred, totp, req, authMu, nextGen, nextSecret, excuse,
                   accepted, enrolled>>

\* Seven days pass since the login, and nothing has extended them; the sweeper
\* (PruneExpiredSessions) deletes the row sooner or later.
Expire(s) ==
    /\ rows[s].good
    /\ rows' = Revoked({s})
    /\ pending' = Dropped(rows')
    /\ UNCHANGED <<cred, totp, req, authMu, nextGen, nextSecret, faults,
                   excuse, accepted, enrolled>>

-----------------------------------------------------------------------------
(* Handlers behind RequireAuth: ValidateSession has found a live row.      *)

Admitted(s) == rows[s].good

\* EnrollTOTP: refused when enrolled; the new secret goes into the cookie.
EnrollTOTP(s) ==
    /\ Admitted(s)
    /\ totp[rows[s].user].secret = 0
    /\ nextSecret <= MaxSecrets
    /\ pending' = [pending EXCEPT ![s] = @ \cup {nextSecret}]
    /\ nextSecret' = nextSecret + 1
    /\ UNCHANGED <<cred, totp, rows, req, authMu, nextGen, faults,
                   excuse, accepted, enrolled>>

\* VerifyEnrollTOTP has passed RequireAuth and found the code right for the
\* secret in the cookie it was sent: the last one, or one it has verified before.
BeginVerifyEnroll(r, s) ==
    /\ req[r].pc = "idle"
    /\ Admitted(s)
    /\ \E secret \in pending[s] :
          req' = [req EXCEPT ![r] = [Idle EXCEPT !.pc = "enrol", !.kind = "enrol",
                                                 !.user = rows[s].user,
                                                 !.base = [secret |-> secret, used |-> {}]]]
    /\ UNCHANGED <<cred, totp, rows, pending, authMu, nextGen, nextSecret,
                   faults, excuse, accepted, enrolled>>

\* CompleteTOTPEnrollment: the row is written whether or not there is one, with
\* no code used.  The cookie that is sent back does not recall the old one.
VerifyEnrollTOTP(r) ==
    /\ req[r].pc = "enrol"
    /\ LET u == req[r].user
           row == req[r].base
       IN  \/ /\ totp' = [totp EXCEPT ![u] = row]
              /\ enrolled' = TRUE
              /\ accepted' = [accepted EXCEPT ![row.secret] = [c \in Codes |-> 0]]
              /\ excuse' = IF u # cred.user \/ \E v \in Users \ {u} : totp[v].secret = row.secret
                           THEN excuse \cup {"totp"} ELSE excuse
              /\ UNCHANGED faults
           \/ Fault /\ UNCHANGED <<totp, enrolled, accepted, excuse>>
    /\ Return(r)
    /\ UNCHANGED <<cred, rows, pending, authMu, nextGen, nextSecret>>

\* DisableTOTP has passed RequireAuth.
BeginDisable(r, s) ==
    /\ req[r].pc = "idle"
    /\ Admitted(s)
    /\ req' = [req EXCEPT ![r] = [Idle EXCEPT !.pc = "verifyread", !.kind = "disable",
                                              !.user = rows[s].user]]
    /\ UNCHANGED <<cred, totp, rows, pending, authMu, nextGen, nextSecret,
                   faults, excuse, accepted, enrolled>>

\* Bound: a new password is only let in while there is a generation for it.
RoomForPassword ==
    nextGen + Cardinality({r \in Requests : req[r].pc \in {"check", "save", "setup"}}) <= MaxGen

\* ChangeCredentials has passed RequireAuth with the cookie of session s.
BeginChange(r, s) ==
    /\ req[r].pc = "idle"
    /\ Admitted(s)
    /\ RoomForPassword
    /\ req' = [req EXCEPT ![r] = [Idle EXCEPT !.pc = "check", !.kind = "change",
                                              !.user = rows[s].user]]
    /\ UNCHANGED <<cred, totp, rows, pending, authMu, nextGen, nextSecret,
                    faults, excuse, accepted, enrolled>>

\* The current password is verified against the row: right, or refused.
CheckCurrent(r) ==
    /\ req[r].pc = "check"
    /\ (cred.gen # 0 /\ Goto(r, "save")) \/ Return(r)
    /\ UNCHANGED <<cred, totp, rows, pending, authMu, nextGen, nextSecret,
                    faults, excuse, accepted, enrolled>>

\* ChangeAdminCredential takes authMu, reads the old name and saves the row;
\* under a new name it has the TOTP row to move before it unlocks.
SaveCredential(r, new) ==
    /\ req[r].pc = "save"
    /\ authMu = NoOne
    /\ \/ /\ cred' = [user |-> new, gen |-> nextGen]
          /\ nextGen' = nextGen + 1
          /\ excuse' = IF cred.user # req[r].user THEN excuse \cup {"session"} ELSE excuse
          /\ LET renamed == cred.gen # 0 /\ cred.user # new
             IN  /\ req' = [req EXCEPT ![r].pc = IF renamed THEN "migrate" ELSE "revoke",
                                       ![r].old = cred.user, ![r].new = new]
                 /\ authMu' = IF renamed THEN r ELSE NoOne
          /\ UNCHANGED faults
       \/ Return(r) /\ Fault /\ UNCHANGED <<cred, nextGen, excuse, authMu>>
    /\ UNCHANGED <<totp, rows, pending, nextSecret,
                   accepted, enrolled>>

\* Faulty variant: the TOTP row stays under the old name.
AfterGetTotpSkipped(row) == "revoke"

\* What GetTOTP(oldUser) leads to.
AfterGetTotp(row) == IF row.secret = 0 THEN "revoke" ELSE "settotp"

\* GetTOTP of the old name; an error aborts the change, with the credential
\* saved and no session revoked.
ReadOldTotp(r) ==
    /\ req[r].pc = "migrate"
    /\ LET row == totp[req[r].old]
       IN  \/ /\ req' = [req EXCEPT ![r].pc = AfterGetTotp(row), ![r].base = row]
              /\ authMu' = IF AfterGetTotp(row) = "revoke" THEN NoOne ELSE authMu
              /\ UNCHANGED faults
           \/ Return(r) /\ authMu' = NoOne /\ Fault
    /\ UNCHANGED <<cred, totp, rows, pending, nextGen, nextSecret,
                   excuse, accepted, enrolled>>

\* SetTOTP under the new name; an error aborts the change likewise.
WriteNewTotp(r) ==
    /\ req[r].pc = "settotp"
    /\ \/ /\ totp' = [totp EXCEPT ![req[r].new] = req[r].base]
          /\ excuse' = IF totp[req[r].old] # req[r].base THEN excuse \cup {"totp"} ELSE excuse
          /\ Goto(r, "deltotp")
          /\ UNCHANGED <<authMu, faults>>
       \/ Return(r) /\ authMu' = NoOne /\ Fault /\ UNCHANGED <<totp, excuse>>
    /\ UNCHANGED <<cred, rows, pending, nextGen, nextSecret,
                   accepted, enrolled>>

\* What DeleteTOTP of the old name leaves.
Moved(r) == [totp EXCEPT ![req[r].old] = NoTotp]

\* DeleteTOTP of the old name; its error is ignored, and leaves a second copy
\* of the row.
DeleteOldTotp(r) ==
    /\ req[r].pc = "deltotp"
    /\ \/ /\ totp' = Moved(r)
          /\ excuse' = IF totp[req[r].old] # req[r].base THEN excuse \cup {"totp"} ELSE excuse
          /\ UNCHANGED faults
       \/ Fault /\ UNCHANGED totp /\ excuse' = excuse \cup {"totp"}
    /\ authMu' = NoOne
    /\ Goto(r, "revoke")
    /\ UNCHANGED <<cred, rows, pending, nextGen, nextSecret,
                   accepted, enrolled>>

\* Faulty variant: only the sessions of the new name are revoked.
RevokedNameNewOnly(r) == req[r].new

\* RevokeForUser of the session's name first, of the new name then.
RevokedName(r) == IF req[r].pc = "revoke" THEN req[r].user ELSE req[r].new

\* RevokeForUser; errors are ignored.
RevokeSessions(r) ==
    /\ req[r].pc \in {"revoke", "revokenew"}
    /\ \/ rows' = Revoked({s \in Sids : rows[s].good /\ rows[s].user = RevokedName(r)})
          /\ UNCHANGED faults
       \/ UNCHANGED rows /\ Fault
    /\ pending' = Dropped(rows')
    /\ IF req[r].pc = "revoke" /\ req[r].new # req[r].user THEN Goto(r, "revokenew") ELSE Return(r)
    /\ UNCHANGED <<cred, totp, authMu, nextGen, nextSecret, excuse,
                   accepted, enrolled>>

-----------------------------------------------------------------------------
(* First-run setup and the reset-auth subcommand.                          *)

\* Setup has found no credential and goes on to SetupAdminCredential.
BeginSetup(r) ==
    /\ req[r].pc = "idle"
    /\ cred.gen = 0
    /\ RoomForPassword
    /\ req' = [req EXCEPT ![r] = [Idle EXCEPT !.pc = "setup", !.kind = "setup"]]
    /\ UNCHANGED <<cred, totp, rows, pending, authMu, nextGen, nextSecret,
                    faults, excuse, accepted, enrolled>>

\* SetupAdminCredential looks again under authMu.
MayConfigure == cred.gen = 0

\* SetupAdminCredential: check and save under authMu.
SetupCredential(r, new) ==
    /\ req[r].pc = "setup"
    /\ authMu = NoOne
    /\ \/ /\ MayConfigure
          /\ cred' = [user |-> new, gen |-> nextGen]
          /\ nextGen' = nextGen + 1
          /\ UNCHANGED faults
       \/ ~MayConfigure /\ UNCHANGED <<cred, nextGen, faults>>
       \/ Fault /\ UNCHANGED <<cred, nextGen>>
    /\ Return(r)
    /\ UNCHANGED <<totp, rows, pending, authMu, nextSecret, excuse,
                   accepted, enrolled>>

\* shellyctl reset-auth deletes the row; sessions and the TOTP row stay.
ResetAuth ==
    /\ cred.gen # 0
    /\ cred' = [cred EXCEPT !.gen = 0]
    /\ excuse' = excuse \cup {"session", "totp"}
    /\ UNCHANGED <<totp, rows, pending, req, authMu, nextGen, nextSecret,
                    faults, accepted, enrolled>>

-----------------------------------------------------------------------------
LoginStep(r) ==
    \/ ReadStatus(r) \/ ReadTotp(r) \/ WriteTotp(r) \/ DeleteTotp(r) \/ Issue(r)
    \/ VerifyEnrollTOTP(r)

AccountStep(r) ==
    \/ CheckCurrent(r) \/ ReadOldTotp(r) \/ WriteNewTotp(r) \/ DeleteOldTotp(r)
    \/ RevokeSessions(r)
    \/ \E new \in Users : SaveCredential(r, new) \/ SetupCredential(r, new)

Next ==
    \/ \E r \in Requests :
          \/ LoginStep(r)
          \/ AccountStep(r)
          \/ BeginLogin(r) \/ BeginSetup(r)
          \/ \E s \in Sids : BeginDisable(r, s) \/ BeginChange(r, s) \/ BeginVerifyEnroll(r, s)
    \/ \E s \in Sids : Logout(s) \/ Expire(s) \/ EnrollTOTP(s)
    \/ ResetAuth

Spec == Init /\ [][Next]_vars

-----------------------------------------------------------------------------
TypeOK ==
    /\ cred \in CredStates
    /\ totp \in [Users -> TotpRow]
    /\ rows \in [Sids -> SessionRow]
    /\ pending \in [Sids -> SUBSET (1 .. MaxSecrets)]
    /\ req \in [Requests -> ReqStates]
    /\ authMu \in Requests \cup {NoOne}
    /\ nextGen \in 1 .. MaxGen + 1
    /\ nextSecret \in 1 .. MaxSecrets + 1
    /\ faults \in 0 .. MaxFaults
    /\ excuse \subseteq {"totp", "session"}
    /\ accepted \in [1 .. MaxSecrets -> [Codes -> 0 .. 2]]
    /\ enrolled \in BOOLEAN

\* A change of the credential is at work between its save and its last revoke.
Changing == \E r \in Requests : req[r].pc \in {"migrate", "settotp", "deltotp", "revoke",
                                               "revokenew"}

\* ChangeCredentials ends every session of the old password, under the old
\* name and the new: once it is done, a session that is still good was opened
\* with the current password, unless its login overlapped the change, a
\* statement failed, or the credential was reset.  All is well typed.
RotationEndsSessions ==
    /\ TypeOK
    /\ ~Changing /\ faults = 0 /\ "session" \notin excuse =>
         \A s \in Sids : rows[s].good => rows[s].gen = cred.gen

\* The second factor follows the operator: there is a row exactly under the
\* current name if it was enrolled and not disabled since, and none under a name
\* of the past, through any change of the name, unless a write rested on an
\* outdated row or name, a statement failed, reset-auth has removed the
\* credential and left the row, the change is still moving the row, or the
\* factor was disabled while it did.
EnrolmentFollowsName ==
    ~Changing /\ faults = 0 /\ "totp" \notin excuse =>
        \A u \in Users : totp[u].secret # 0 <=> enrolled /\ u = cred.user

\* A backup code is accepted once, by a login or a disabling, from one
\* verification of its enrolment to the next, unless two verifications of codes
\* overlapped, a copy of the row stayed behind when a change of the name could
\* not delete it, or reset-auth has left the row.  (The server keeps no record
\* of the cookies it has replaced, so that the same pending enrolment can be
\* verified again, which makes all its codes good again.)
BackupCodeOnce ==
    "totp" \notin excuse => \A s \in 1 .. MaxSecrets, c \in Codes : accepted[s][c] <= 1
=============================================================================
