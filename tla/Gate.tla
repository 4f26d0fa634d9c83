-------------------------------- MODULE Gate --------------------------------
(***************************************************************************)
(* What a request passes before a handler works for it: the rate limiter,  *)
(* the lockout of the login, the session cookie or personal access token,  *)
(* the CSRF check and the scope of the route; and the life of the tokens.  *)
(*                                                                         *)
(* Time is kept as ages: Tick makes every stamp older, so that the model   *)
(* needs no bound on the clock.  The list of stamps is read only by what   *)
(* filters and counts it, so it is a function of the attempts, unordered.  *)
(* The verdict on a password and the second factor are in module Access.   *)
(***************************************************************************)
EXTENDS Integers, FiniteSets, Functions

CONSTANTS
    Requests,      \* goroutines of the HTTP server
    Attempts,      \* bound: login attempts that are remembered at once
    Window,        \* loginWindow, in ticks
    LoginMax,      \* loginMaxAttempts
    EvictAge,      \* rateLimiterEvictAge
    MaxFailures,   \* loginlock.MaxFailures
    LockoutDur,    \* loginlock.LockoutDur
    TokenIds,      \* bound: tokens ever created
    ScopeInputs,   \* the scope lists a caller may ask for
    Users,         \* user names of the operator
    MaxLate,       \* bound: ticks between time.Now() and the store's mutex
    NoOne

ASSUME GateAssumption ==
    /\ Window \in Nat \ {0} /\ LoginMax \in Nat \ {0}
    /\ EvictAge \in Nat /\ EvictAge >= Window
    /\ MaxFailures \in Nat \ {0} /\ LockoutDur \in Nat \ {0}
    /\ MaxLate \in Nat
    /\ IsFiniteSet(Attempts)
    /\ NoOne \notin Users \cup TokenIds

VARIABLES
    data,      \* attempts.data of the one client: the age of each attempt's stamp
    row,       \* login_state: the row of each name
    tokens,    \* personal_access_tokens
    operator,  \* the user name of the operator
    req,       \* the requests in flight
    passed,    \* auxiliary: attempts let through on time in the last Window ticks
    failures,  \* auxiliary: of each name, its failed logins since the last success
    lost       \* auxiliary: the ones of them that were not recorded, or that an
               \* overlapping failure may undo

vars == <<data, row, tokens, operator, req, passed, failures, lost>>

-----------------------------------------------------------------------------
(* The table of routes, by class: documentedAPIRoutes.                     *)

\* The scope field of a route that names none.
NoScope == ""

Routes(method, scope, names) == {[method |-> method, scope |-> scope, name |-> n] : n \in names}

AccountRoutes == Routes("POST", NoScope, {"api/logout", "account/credentials"})
                    \cup Routes("GET", NoScope, {"csrf-token"})

DeviceReadRoutes == Routes("GET", "devices:read",
    {"version", "devices", "devices/target", "devices/actions", "devices/export"})

DeviceWriteRoutes == Routes("POST", "devices:write",
    {"devices/action", "devices/refresh", "devices/refresh-one", "devices/forget", "bulk", "scan/start"})

ScanRoutes == Routes("GET", "devices:read", {"scan/status"})
                \cup Routes("POST", "devices:write", {"scan/confirm"})

FirmwareRoutes == Routes("POST", "firmware:read", {"firmware/check"})
                    \cup Routes("GET", "firmware:read", {"firmware/status", "firmware/install/status"})
                    \cup Routes("POST", "firmware:write", {"firmware/update"})

ProvisionRoutes == Routes("POST", "provision", {"provision", "provision/user-ca"})

SettingsRoutes == Routes("GET", "settings:read", {"settings"})
                    \cup Routes("POST", "settings:write", {"settings"})

TotpRoutes == Routes("GET", NoScope, {"totp/status"})
                \cup Routes("POST", NoScope, {"totp/enroll", "totp/verify-enroll", "totp/disable"})

TokenRoutes == Routes("GET", NoScope, {"tokens"}) \cup Routes("POST", NoScope, {"tokens"})
                 \cup Routes("DELETE", NoScope, {"tokens"})

CatalogRoutes ==
    LET names == {"templates", "credentials", "credential-groups", "assignments"}
    IN  Routes("GET", "provision", names \cup {"templates/name"})
          \cup Routes("POST", "provision", names)
          \cup Routes("DELETE", "provision", names \ {"assignments"})

AdminRoutes == Routes("GET", NoScope, {"logs", "logs/export", "openapi", "backup/export"})
                 \cup Routes("DELETE", NoScope, {"logs"}) \cup Routes("POST", NoScope, {"backup/import"})

\* Routes outside the table, behind authentication but without RequireScope:
\* POST /logout, and the pages of the frontend.
UnscopedRoutes == Routes("POST", NoScope, {"logout"}) \cup Routes("GET", NoScope, {"pages"})

AuthRoutes == UNION {UnscopedRoutes, AccountRoutes, DeviceReadRoutes, DeviceWriteRoutes, ScanRoutes, FirmwareRoutes,
                     ProvisionRoutes, SettingsRoutes, TotpRoutes, TokenRoutes, CatalogRoutes, AdminRoutes}

\* The routes whose handlers change something: all but the reads, and the one
\* read that ends a stale scan.
ChangingRoutes == {route \in AuthRoutes : route.method # "GET" \/ route.name = "scan/status"}

\* registerDocumentedAPIRoutes: a route without a scope takes "admin".
RequiredScope(route) == IF route.scope = NoScope THEN "admin" ELSE route.scope

\* Handlers that ask requirePATCallerCookieOnly.
CookieOnly == TokenRoutes \cup Routes("POST", NoScope, {"account/credentials"})

-----------------------------------------------------------------------------
(* The chain behind authentication.  A caller is a session cookie, with or *)
(* without the nonce in its header, or a token with its scopes.            *)

\* RequireCSRF: reads and tokens pass.
PassesCSRF(caller, route) == route.method # "GET" /\ caller.kind = "cookie" => caller.nonce

\* RequireScope and hasScope: "admin" is the wildcard.
PassesScope(caller, route) ==
    caller.kind = "pat" /\ route \notin UnscopedRoutes => {RequiredScope(route), "admin"} \cap caller.scopes # {}

\* Faulty variant: the handlers of the token routes rely on the scope.
PassesHandlerAlways(caller, route) == TRUE

\* requirePATCallerCookieOnly.
PassesHandler(caller, route) == route \in CookieOnly => caller.kind = "cookie"

\* The first refusal ends the request; APIRateLimit, between authentication
\* and CSRF, may end any of them.
Served(caller, route) ==
    PassesCSRF(caller, route) /\ PassesScope(caller, route) /\ PassesHandler(caller, route)

-----------------------------------------------------------------------------
(* Tokens.                                                                 *)

AllScopes == {"admin", "devices:read", "devices:write", "firmware:read", "firmware:write",
              "provision", "settings:read", "settings:write"}

NoToken == [life |-> "none", owner |-> NoOne, scopes |-> {}, due |-> "never"]
TokenRow == [life : {"none", "live", "revoked"}, owner : Users \cup {NoOne},
             scopes : SUBSET AllScopes, due : {"never", "later", "past"}]

\* Create refuses an empty list and an unknown scope.
ValidScopes(scopes) == scopes # {} /\ scopes \subseteq AllScopes

\* Lookup: the row is there, not revoked and not expired.
LooksUp(t) == tokens[t].life = "live" /\ tokens[t].due # "past"

\* The lockout row and the states of a request.
LockRow == [count : 0 .. MaxFailures, left : 0 .. LockoutDur]
NoFailures == [count |-> 0, left |-> 0]

ReqStates == [pc : {"idle", "stamped", "check", "fail", "failwrite", "pass", "authed"},
              stamp : 0 .. MaxLate, user : Users \cup {NoOne}, base : LockRow,
              token : TokenIds \cup {NoOne}]
Idle == [pc |-> "idle", stamp |-> 0, user |-> NoOne, base |-> NoFailures, token |-> NoOne]

Return(r) == req' = [req EXCEPT ![r] = Idle]
Goto(r, pc) == req' = [req EXCEPT ![r] = [Idle EXCEPT !.pc = pc]]
GotoFor(r, pc, user) == req' = [req EXCEPT ![r] = [Idle EXCEPT !.pc = pc, !.user = user]]

Init ==
    /\ data = [a \in {} |-> 0] /\ row = [u \in Users |-> NoFailures]
    /\ tokens = [t \in TokenIds |-> NoToken]
    /\ operator \in Users
    /\ req = [r \in Requests |-> Idle]
    /\ passed = [a \in {} |-> 0] 
    /\ failures = [u \in Users |-> 0] /\ lost = [u \in Users |-> 0]

-----------------------------------------------------------------------------
(* LoginRateLimit.                                                         *)

\* An age above this makes no difference any more.
AgeCap == EvictAge + MaxLate + 1

\* time.Now(), before the store's mutex.
LoginArrives(r) ==
    /\ req[r].pc = "idle"
    /\ Goto(r, "stamped")
    /\ UNCHANGED <<data, row, tokens, operator, passed, failures, lost>>

\* The stamps within the window of a request whose own stamp has this age.
Recent(stamp) == Restrict(data, {a \in DOMAIN data : data[a] - stamp < Window})

\* Faulty variant: the compaction of the store drops what is still needed.
CompactedEarly(stamps, stamp) == Restrict(stamps, {a \in DOMAIN stamps : stamps[a] - stamp < 1})

\* compactStore, for the key of this client.
Compacted(stamps, stamp) == Restrict(stamps, {a \in DOMAIN stamps : stamps[a] - stamp < EvictAge})

\* append: one more attempt with its age.
With(stamps, new, age) == [a \in DOMAIN stamps \cup {new} |-> IF a = new THEN age ELSE stamps[a]]

\* A refusal keeps the recent stamps and adds none.
AfterRefusal(stamp) == Recent(stamp)

\* allowRequest, under the mutex.  Every rateLimiterGCEveryN-th request, and
\* one that finds too many keys, compacts the store.  Who is let through is in
\* Login, which resolves the name of the operator once, at its start.
LimitLogin(r, gc) ==
    /\ req[r].pc = "stamped"
    /\ LET stamp == req[r].stamp
           seen == Cardinality(DOMAIN Recent(stamp))
           unused == Attempts \ (DOMAIN data \cup DOMAIN passed)
           kept(stamps) == IF gc THEN Compacted(stamps, stamp) ELSE stamps
       IN  \/ /\ seen >= LoginMax
              /\ data' = kept(AfterRefusal(stamp))
              /\ Return(r)
              /\ UNCHANGED passed
           \/ /\ seen < LoginMax
              /\ \E new \in unused :
                    /\ data' = kept(With(Recent(stamp), new, stamp))
                    /\ passed' = IF stamp = 0 THEN With(passed, new, 0) ELSE passed
              /\ GotoFor(r, "check", operator)
    /\ UNCHANGED <<row, tokens, operator, failures, lost>>

\* The compaction in a request of another client, whose stamp has this age.
CompactForOther(stamp) ==
    /\ data' = Compacted(data, stamp)
    /\ UNCHANGED <<row, tokens, operator, req, passed, failures, lost>>

-----------------------------------------------------------------------------
(* The lockout of the login.                                               *)

\* IsLocked, after the password was verified: a locked account answers 423 and
\* counts nothing.  A row that cannot be read does not lock.
CheckLock(r) ==
    /\ req[r].pc = "check"
    /\ \/ row[req[r].user].left > 0 /\ Return(r)
       \/ GotoFor(r, "fail", req[r].user) \/ GotoFor(r, "pass", req[r].user)
    /\ UNCHANGED <<data, row, tokens, operator, passed, failures, lost>>

\* One more of the name's events, saturated at MaxFailures.
OneMoreOf(count, u) == [count EXCEPT ![u] = IF @ < MaxFailures THEN @ + 1 ELSE @]

\* RecordFailure returns an error, from its read or its write: the handler
\* only logs it, and the failed login is in no row.
RecordFails(r) ==
    /\ req[r].pc \in {"fail", "failwrite"}
    /\ failures' = OneMoreOf(failures, req[r].user)
    /\ lost' = OneMoreOf(lost, req[r].user)
    /\ Return(r)
    /\ UNCHANGED <<data, row, tokens, operator, passed>>

\* RecordFailure: GetLoginState.
ReadFailures(r) ==
    /\ req[r].pc = "fail"
    /\ req' = [req EXCEPT ![r].pc = "failwrite", ![r].base = row[req[r].user]]
    /\ UNCHANGED <<data, row, tokens, operator, passed, failures, lost>>

\* Faulty variant: the count starts again when it has locked the account.
CountedReset(base) ==
    IF base.count + 1 >= MaxFailures THEN [count |-> 0, left |-> LockoutDur]
    ELSE [base EXCEPT !.count = @ + 1]

\* The counter moves on, saturated at MaxFailures, and from there on locks.
Counted(base) ==
    IF base.count + 1 >= MaxFailures THEN [count |-> MaxFailures, left |-> LockoutDur]
    ELSE [base EXCEPT !.count = @ + 1]

\* Another attempt on the name is between its read and its write.
Overlapped(r) == \E o \in Requests \ {r} : req[o].pc = "failwrite" /\ req[o].user = req[r].user

\* RecordFailure: SetLoginState of what was read, plus one.
WriteFailure(r) ==
    /\ req[r].pc = "failwrite"
    /\ row' = [row EXCEPT ![req[r].user] = Counted(req[r].base)]
    /\ failures' = OneMoreOf(failures, req[r].user)
    /\ lost' = IF Overlapped(r) THEN OneMoreOf(lost, req[r].user) ELSE lost
    /\ Return(r)
    /\ UNCHANGED <<data, tokens, operator, passed>>

\* RecordLoginSuccess: the row is cleared; an error is only logged.
RecordSuccess(r) ==
    /\ req[r].pc = "pass"
    /\ row' \in {row, [row EXCEPT ![req[r].user] = NoFailures]}
    /\ failures' = [failures EXCEPT ![req[r].user] = 0]
    /\ lost' = [lost EXCEPT ![req[r].user] = 0]
    /\ Return(r)
    /\ UNCHANGED <<data, tokens, operator, passed>>

-----------------------------------------------------------------------------
(* Requests behind authentication.                                         *)

\* RequireAuthWithPAT: a bearer token decides alone; otherwise the cookie.
Authenticate(r) ==
    /\ req[r].pc = "idle"
    /\ \/ Goto(r, "authed")
       \/ \E t \in TokenIds :
             LooksUp(t) /\ req' = [req EXCEPT ![r] = [Idle EXCEPT !.pc = "authed", !.token = t]]
    /\ UNCHANGED <<data, row, tokens, operator, passed, failures, lost>>

Caller(r, nonce) == IF req[r].token = NoOne THEN [kind |-> "cookie", nonce |-> nonce]
                    ELSE [kind |-> "pat", scopes |-> tokens[req[r].token].scopes]

\* A handler whose work is in another module; or a refusal on the way to it.
Finish(r) ==
    /\ req[r].pc = "authed"
    /\ Return(r)
    /\ UNCHANGED <<data, row, tokens, operator, passed, failures, lost>>

\* POST /api/tokens: Create.
CreateToken(r, t, scopes, due) ==
    /\ req[r].pc = "authed"
    /\ \E nonce \in BOOLEAN, route \in Routes("POST", NoScope, {"tokens"}) : Served(Caller(r, nonce), route)
    /\ ValidScopes(scopes)
    /\ tokens[t].life = "none"
    /\ tokens' = [tokens EXCEPT ![t] = [life |-> "live", owner |-> operator, scopes |-> scopes, due |-> due]]
    /\ Return(r)
    /\ UNCHANGED <<data, row, operator, passed, failures, lost>>

\* RevokePAT sets revoked_at.
Revoked(t) == [tokens[t] EXCEPT !.life = "revoked"]

\* DELETE /api/tokens/{id}: only a token of the caller's name is found.
RevokeToken(r, t) ==
    /\ req[r].pc = "authed"
    /\ \E nonce \in BOOLEAN, route \in Routes("DELETE", NoScope, {"tokens"}) : Served(Caller(r, nonce), route)
    /\ tokens[t].life # "none" /\ tokens[t].owner = operator
    /\ tokens' = [tokens EXCEPT ![t] = Revoked(t)]
    /\ Return(r)
    /\ UNCHANGED <<data, row, operator, passed, failures, lost>>

\* A token with an expiry reaches it.
TokenExpires(t) ==
    /\ tokens[t].due = "later"
    /\ tokens' = [tokens EXCEPT ![t].due = "past"]
    /\ UNCHANGED <<data, row, operator, req, passed, failures, lost>>

\* ChangeCredentials under a new name (module Access) leaves the tokens and the
\* lockout rows alone: later logins count in the row of the new name.
Rename(new) ==
    /\ operator' = new
    /\ UNCHANGED <<data, row, tokens, req, passed, failures, lost>>

-----------------------------------------------------------------------------
Older(age, cap) == IF age < cap THEN age + 1 ELSE cap

\* Time passes.
Tick ==
    /\ \A r \in Requests : req[r].pc = "stamped" => req[r].stamp < MaxLate
    /\ data' = [a \in DOMAIN data |-> Older(data[a], AgeCap)]
    /\ passed' = [a \in {b \in DOMAIN passed : passed[b] + 1 < Window} |-> passed[a] + 1]
    /\ row' = [u \in Users |-> [row[u] EXCEPT !.left = IF @ > 0 THEN @ - 1 ELSE 0]]
    /\ req' = [r \in Requests |->
                 [req[r] EXCEPT !.stamp = IF req[r].pc = "stamped" THEN @ + 1 ELSE @,
                                !.base.left = IF @ > 0 THEN @ - 1 ELSE 0]]
    /\ UNCHANGED <<tokens, operator, failures, lost>>

LoginStep(r) ==
    \/ LoginArrives(r) \/ CheckLock(r) \/ RecordSuccess(r)
    \/ ReadFailures(r) \/ WriteFailure(r) \/ RecordFails(r)
    \/ \E gc \in BOOLEAN : LimitLogin(r, gc)

ApiStep(r) ==
    \/ Authenticate(r) \/ Finish(r)
    \/ \E t \in TokenIds : RevokeToken(r, t)
    \/ \E t \in TokenIds, scopes \in ScopeInputs, due \in {"never", "later"} : CreateToken(r, t, scopes, due)

Next ==
    \/ \E r \in Requests : LoginStep(r) \/ ApiStep(r)
    \/ \E t \in TokenIds : TokenExpires(t)
    \/ \E new \in Users : Rename(new)
    \/ \E stamp \in 0 .. MaxLate : CompactForOther(stamp)
    \/ Tick

Spec == Init /\ [][Next]_vars

-----------------------------------------------------------------------------
\* What is known of some of the attempts.
Partial(S) == UNION {[A -> S] : A \in SUBSET Attempts}

TypeOK ==
    /\ data \in Partial(0 .. AgeCap) /\ Cardinality(DOMAIN data) <= LoginMax
    /\ passed \in Partial(0 .. Window - 1)
    /\ row \in [Users -> LockRow]
    /\ tokens \in [TokenIds -> TokenRow]
    /\ operator \in Users
    /\ req \in [Requests -> ReqStates]
    /\ \A r \in Requests : req[r].pc \in {"check", "fail", "failwrite", "pass"} => req[r].user \in Users
    /\ failures \in [Users -> 0 .. MaxFailures] /\ lost \in [Users -> 0 .. MaxFailures]

\* LoginRateLimit lets no more than loginMaxAttempts logins of a client through
\* in any window, not counting those that waited for the store's mutex with an
\* older time in hand.  All is well typed.
AttemptsPerWindow == TypeOK /\ Cardinality(DOMAIN passed) <= LoginMax

\* Every failed login on a name since the last success counts towards its
\* lockout, whoever is renamed meanwhile, but for those whose record failed
\* (RecordLoginFailure's error is only logged) and those recorded while another
\* attempt on the name was between its read and its write in RecordFailure:
\* that one writes the count back to before them.  The row is the name's: after
\* a rename the count goes on in the row of the new name.
FailuresCount == \A u \in Users : row[u].count + lost[u] >= failures[u]

LiveCaller(t) == [kind |-> "pat", scopes |-> tokens[t].scopes]

\* What the routes grant a token.  With read scopes alone the only routes it
\* reaches whose handlers change something are firmware/check (which asks for
\* firmware:read), scan/status (which marks a stale scan interrupted) and the
\* logout outside the table (which asks for no scope, and ends the session of a
\* cookie sent along); its own last_used_at and the log apart.  Without admin it
\* reaches no route of the log, the backup or the second factor.  No token,
\* admin or not, lists, creates or revokes tokens or changes the login.
TokenReach ==
    \A t \in {u \in TokenIds : LooksUp(u)}, route \in AuthRoutes :
        Served(LiveCaller(t), route) =>
            /\ tokens[t].scopes \subseteq {"devices:read", "firmware:read", "settings:read"}
                 /\ route \in ChangingRoutes
                 => route.name \in {"firmware/check", "scan/status", "logout"}
            /\ route \in AdminRoutes \cup TotpRoutes => "admin" \in tokens[t].scopes
            /\ route \notin CookieOnly
=============================================================================
