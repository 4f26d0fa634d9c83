------------------------------- MODULE MCGate -------------------------------
(***************************************************************************)
(* Model checking of Gate: two concurrent requests of one client that log  *)
(* in, or that use and manage a token.                                     *)
(***************************************************************************)
EXTENDS Gate, TLC

\* Requests are interchangeable, and so are user names and attempts.
GateSymmetry == Permutations(Requests) \cup Permutations(Users) \cup Permutations(Attempts)

\* Bound: there are no tokens while logins are counted.  Logins read and write
\* nothing of the tokens, nor requests with tokens of the login's state.
LoginsOrTokens ==
    \/ \A t \in TokenIds : tokens[t] = NoToken
    \/ /\ DOMAIN data = {} /\ \A u \in Users : row[u] = NoFailures /\ failures[u] = 0
       /\ \A r \in Requests : req[r].pc \in {"idle", "authed"}

\* Lists a caller may ask for: none, unknown, read only, administrator.
MCScopeInputs ==
    {{}, {"device:read"}, {"devices:read", "firmware:read", "settings:read"},
     {"admin"}}
=============================================================================
