------------------------------ MODULE MCAccess ------------------------------
(* Model checking of Access: two concurrent requests, two user names.       *)
EXTENDS Access, TLC

\* Requests, session ids, user names and backup codes are interchangeable:
\* nothing in the specification compares two of them.
AccessSymmetry ==
    Permutations(Requests) \cup Permutations(Sids) \cup Permutations(Users)

\* Once both exceptions are met, by reset-auth or by two overlaps, every property
\* excuses what follows: nothing is explored beyond that.
NotAllExcused == ~({"session", "totp"} \subseteq excuse)
=============================================================================
