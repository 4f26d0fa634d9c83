------------------------------ MODULE GateProofs ------------------------------
(***************************************************************************)
(* Proofs about Gate, for every number of requests, attempts, tokens and   *)
(* names and every setting of the windows and limits: the budget of the    *)
(* login, the count towards the lockout, and what the routes grant a       *)
(* token.                                                                  *)
(***************************************************************************)
EXTENDS Gate, FiniteSetTheorems, TLAPS

USE GateAssumption

\* An attempt that was let through on time is still in the store, with the
\* age it has: the window of every later request reaches back to it.
OnTimeRemembered ==
    \A a \in DOMAIN passed : a \in DOMAIN data /\ data[a] = passed[a]

\* What a request has read for its write lacks no more failures than the row.
BasesCount ==
    \A r \in Requests : req[r].pc = "failwrite" =>
        req[r].base.count + lost[req[r].user] >= failures[req[r].user]

\* A login in progress has resolved its name.
Named(q) == q.pc \in {"check", "fail", "failwrite", "pass"} => q.user \in Users

\* The store of the limiter.
StoreSound ==
    /\ data \in Partial(0 .. AgeCap) /\ Cardinality(DOMAIN data) <= LoginMax
    /\ passed \in Partial(0 .. Window - 1) /\ Cardinality(DOMAIN passed) <= LoginMax
    /\ OnTimeRemembered

\* The rows of the lockout, and the requests.
CountSound ==
    /\ row \in [Users -> LockRow] /\ req \in [Requests -> ReqStates]
    /\ \A r \in Requests : Named(req[r])
    /\ failures \in [Users -> 0 .. MaxFailures] /\ lost \in [Users -> 0 .. MaxFailures]
    /\ FailuresCount /\ BasesCount

\* The inductive invariant.
Inv == StoreSound /\ CountSound /\ tokens \in [TokenIds -> TokenRow] /\ operator \in Users

-----------------------------------------------------------------------------
(* Types.                                                                  *)

\* Functions of some of the attempts: what they are and how they are made.
LEMMA PartialFacts ==
    ASSUME NEW S, NEW f
    PROVE  f \in Partial(S) <=>
              DOMAIN f \subseteq Attempts /\ f = [a \in DOMAIN f |-> f[a]] /\ \A a \in DOMAIN f : f[a] \in S
<1>1. ASSUME f \in Partial(S)
      PROVE  DOMAIN f \subseteq Attempts /\ f = [a \in DOMAIN f |-> f[a]] /\ \A a \in DOMAIN f : f[a] \in S
    <2>1. PICK A \in SUBSET Attempts : f \in [A -> S]
        BY <1>1 DEF Partial
    <2>. QED  BY <2>1
<1>2. ASSUME DOMAIN f \subseteq Attempts, f = [a \in DOMAIN f |-> f[a]], \A a \in DOMAIN f : f[a] \in S
      PROVE  f \in Partial(S)
    <2>1. f \in [DOMAIN f -> S]
        BY <1>2
    <2>. QED  BY <1>2, <2>1 DEF Partial
<1>. QED  BY <1>1, <1>2

\* A part of the attempts is finite, and no larger than what it is part of.
LEMMA PartsAreFinite ==
    /\ \A A \in SUBSET Attempts : IsFiniteSet(A) /\ Cardinality(A) \in Nat
    /\ \A A \in SUBSET Attempts : \A B \in SUBSET A : Cardinality(B) <= Cardinality(A)
<1>1. ASSUME NEW A \in SUBSET Attempts
      PROVE  IsFiniteSet(A) /\ Cardinality(A) \in Nat
    BY FS_Subset, FS_CardinalityType
<1>2. ASSUME NEW A \in SUBSET Attempts, NEW B \in SUBSET A
      PROVE  Cardinality(B) <= Cardinality(A)
    BY <1>1, FS_Subset
<1>. QED  BY <1>1, <1>2

\* Constants of the model that are naturals, and the resting request.
LEMMA Ranges ==
    /\ AgeCap \in Nat /\ Window - 1 \in Nat /\ Window <= AgeCap /\ MaxLate < AgeCap
    /\ Idle \in ReqStates /\ NoFailures \in LockRow
<1>1. NoFailures \in LockRow
    BY DEF NoFailures, LockRow
<1>2. Idle \in ReqStates
    BY <1>1 DEF Idle, ReqStates
<1>. QED  BY <1>1, <1>2 DEF AgeCap

\* A step of one request leaves the others where they are.
LEMMA OneRequest ==
    ASSUME CountSound, NEW r \in Requests, NEW q \in ReqStates, req' = [req EXCEPT ![r] = q]
    PROVE  /\ req' \in [Requests -> ReqStates]
           /\ req'[r] = q
           /\ \A o \in Requests \ {r} : req'[o] = req[o]
BY DEF CountSound

-----------------------------------------------------------------------------
(* The store of the limiter.                                               *)

\* Dropping stamps that are at least a window old forgets nobody who counts.
LEMMA DroppingIsSound ==
    ASSUME StoreSound, NEW keep \in SUBSET DOMAIN data,
           \A a \in DOMAIN data : data[a] < Window => a \in keep
    PROVE  /\ Restrict(data, keep) \in Partial(0 .. AgeCap)
           /\ DOMAIN Restrict(data, keep) = keep
           /\ \A a \in keep : Restrict(data, keep)[a] = data[a]
           /\ Cardinality(keep) <= LoginMax
           /\ DOMAIN passed \subseteq keep
<1>1. DOMAIN data \subseteq Attempts /\ \A a \in DOMAIN data : data[a] \in 0 .. AgeCap
    BY PartialFacts DEF StoreSound
<1>2. /\ DOMAIN Restrict(data, keep) = keep
      /\ \A a \in keep : Restrict(data, keep)[a] = data[a]
    BY DEF Restrict
<1>3. Restrict(data, keep) \in Partial(0 .. AgeCap)
    <2>1. Restrict(data, keep) \in [keep -> 0 .. AgeCap]
        BY <1>1 DEF Restrict
    <2>. QED  BY <1>1, <2>1 DEF Partial
<1>4. Cardinality(keep) <= LoginMax
    <2>1. Cardinality(keep) <= Cardinality(DOMAIN data)
        BY <1>1, PartsAreFinite
    <2>2. Cardinality(keep) \in Nat /\ Cardinality(DOMAIN data) \in Nat
        BY <1>1, PartsAreFinite
    <2>. QED  BY <2>1, <2>2 DEF StoreSound
<1>5. DOMAIN passed \subseteq keep
    <2> SUFFICES ASSUME NEW a \in DOMAIN passed PROVE a \in keep
        OBVIOUS
    <2>1. passed[a] \in 0 .. Window - 1
        BY PartialFacts DEF StoreSound
    <2>. QED  BY <2>1 DEF StoreSound, OnTimeRemembered
<1>. QED  BY <1>2, <1>3, <1>4, <1>5

\* The compaction keeps the store sound, whoever's request it is in.
LEMMA CompactionIsSound ==
    ASSUME StoreSound, NEW stamp \in 0 .. MaxLate
    PROVE  /\ Compacted(data, stamp) \in Partial(0 .. AgeCap)
           /\ Cardinality(DOMAIN Compacted(data, stamp)) <= LoginMax
           /\ \A a \in DOMAIN passed :
                 a \in DOMAIN Compacted(data, stamp) /\ Compacted(data, stamp)[a] = data[a]
<1> DEFINE keep == {a \in DOMAIN data : data[a] - stamp < EvictAge}
<1>1. \A a \in DOMAIN data : data[a] \in 0 .. AgeCap
    BY PartialFacts DEF StoreSound
<1>2. \A a \in DOMAIN data : data[a] < Window => a \in keep
    BY <1>1, Ranges
<1>3. Compacted(data, stamp) = Restrict(data, keep)
    BY DEF Compacted
<1> HIDE DEF keep
<1>4. keep \in SUBSET DOMAIN data
    BY DEF keep
<1>. QED  BY <1>2, <1>3, <1>4, DroppingIsSound

\* One more attempt in a function of the attempts.
LEMMA OneMore ==
    ASSUME NEW S, NEW f \in Partial(S), NEW new \in Attempts \ DOMAIN f, NEW v \in S
    PROVE  /\ With(f, new, v) \in Partial(S)
           /\ DOMAIN With(f, new, v) = DOMAIN f \cup {new}
           /\ \A a \in DOMAIN f : With(f, new, v)[a] = f[a]
           /\ With(f, new, v)[new] = v
           /\ Cardinality(DOMAIN With(f, new, v)) = Cardinality(DOMAIN f) + 1
<1> DEFINE g == With(f, new, v)
<1>1. DOMAIN f \subseteq Attempts /\ \A a \in DOMAIN f : f[a] \in S
    BY PartialFacts
<1>2. DOMAIN g = DOMAIN f \cup {new} /\ g[new] = v /\ \A a \in DOMAIN f : g[a] = f[a]
    BY DEF With
<1>3. g \in [DOMAIN f \cup {new} -> S]
    BY <1>1 DEF With
<1>4. g \in Partial(S)
    BY <1>1, <1>3 DEF Partial
<1>5. Cardinality(DOMAIN f \cup {new}) = Cardinality(DOMAIN f) + 1
    BY <1>1, PartsAreFinite, FS_AddElement
<1>. QED  BY <1>2, <1>4, <1>5

\* allowRequest: who is let through on time finds fewer than LoginMax others.
LEMMA LimitLoginStore ==
    ASSUME Inv, NEW r \in Requests, NEW gc \in BOOLEAN, LimitLogin(r, gc)
    PROVE  StoreSound'
<1> DEFINE stamp == req[r].stamp
           recent == {a \in DOMAIN data : data[a] - stamp < Window}
           kept(stamps) == IF gc THEN Compacted(stamps, stamp) ELSE stamps
<1>1. stamp \in 0 .. MaxLate
    BY DEF Inv, CountSound, ReqStates
<1>2. DOMAIN data \subseteq Attempts /\ \A a \in DOMAIN data : data[a] \in 0 .. AgeCap
    BY PartialFacts DEF Inv, StoreSound
<1>3. /\ Recent(stamp) \in Partial(0 .. AgeCap)
      /\ DOMAIN Recent(stamp) = recent /\ recent \in SUBSET DOMAIN data
      /\ \A a \in recent : Recent(stamp)[a] = data[a]
      /\ Cardinality(recent) <= LoginMax
      /\ DOMAIN passed \subseteq recent
    <2>1. \A a \in DOMAIN data : data[a] < Window => a \in recent
        BY <1>1, <1>2, Ranges
    <2>2. Recent(stamp) = Restrict(data, recent)
        BY DEF Recent
    <2> HIDE DEF recent
    <2>3. recent \in SUBSET DOMAIN data
        BY DEF recent
    <2>. QED  BY <2>1, <2>2, <2>3, DroppingIsSound DEF Inv
<1>4. \A a \in DOMAIN passed : passed[a] \in 0 .. Window - 1 /\ data[a] = passed[a]
    BY PartialFacts DEF Inv, StoreSound, OnTimeRemembered
<1>5. ASSUME NEW f \in Partial(0 .. AgeCap), Cardinality(DOMAIN f) <= LoginMax,
             NEW pass \in Partial(0 .. Window - 1), Cardinality(DOMAIN pass) <= LoginMax,
             \A a \in DOMAIN pass : a \in DOMAIN f /\ f[a] = pass[a],
             data' = kept(f), passed' = pass
      PROVE  StoreSound'
    <2> DEFINE keep == {a \in DOMAIN f : f[a] - stamp < EvictAge}
    <2>1. DOMAIN f \subseteq Attempts /\ \A a \in DOMAIN f : f[a] \in 0 .. AgeCap
        BY <1>5, PartialFacts
    <2>2. \A a \in DOMAIN pass : pass[a] \in 0 .. Window - 1
        BY <1>5, PartialFacts
    <2>3. CASE ~gc
        BY <1>5, <2>3 DEF StoreSound, OnTimeRemembered
    <2>4. CASE gc
        <3>1. data' = [a \in keep |-> f[a]]
            BY <1>5, <2>4 DEF Compacted, Restrict
        <3>2. data' \in [keep -> 0 .. AgeCap]
            BY <2>1, <3>1
        <3>3. data' \in Partial(0 .. AgeCap)
            BY <2>1, <3>2 DEF Partial
        <3>4. Cardinality(DOMAIN data') <= LoginMax
            <4>1. Cardinality(keep) <= Cardinality(DOMAIN f)
                BY <2>1, PartsAreFinite
            <4>2. Cardinality(keep) \in Nat /\ Cardinality(DOMAIN f) \in Nat
                BY <2>1, PartsAreFinite
            <4>. QED  BY <1>5, <3>1, <4>1, <4>2
        <3>5. \A a \in DOMAIN pass : a \in DOMAIN data' /\ data'[a] = pass[a]
            BY <1>1, <1>5, <2>2, <3>1
        <3>. QED  BY <1>5, <3>3, <3>4, <3>5 DEF StoreSound, OnTimeRemembered
    <2>. QED  BY <2>3, <2>4
<1> HIDE DEF kept, recent
<1>6. CASE data' = kept(AfterRefusal(stamp)) /\ passed' = passed
    BY <1>3, <1>4, <1>5, <1>6 DEF AfterRefusal, Inv, StoreSound
<1>7. ASSUME Cardinality(recent) < LoginMax, NEW new \in Attempts \ (DOMAIN data \cup DOMAIN passed),
             data' = kept(With(Recent(stamp), new, stamp)),
             passed' = IF stamp = 0 THEN With(passed, new, 0) ELSE passed
      PROVE  StoreSound'
    <2> DEFINE more == With(Recent(stamp), new, stamp)
    <2>1. stamp \in 0 .. AgeCap
        BY <1>1, Ranges
    <2>2. /\ more \in Partial(0 .. AgeCap) /\ DOMAIN more = recent \cup {new}
          /\ \A a \in recent : more[a] = data[a]
          /\ more[new] = stamp
          /\ Cardinality(DOMAIN more) = Cardinality(recent) + 1
        <3>1. new \in Attempts \ DOMAIN Recent(stamp)
            BY <1>3, <1>7
        <3>2. stamp \in 0 .. AgeCap /\ Recent(stamp) \in Partial(0 .. AgeCap)
            BY <1>3, <2>1
        <3>3. more \in Partial(0 .. AgeCap)
            BY <3>1, <3>2, OneMore
        <3>4. DOMAIN more = recent \cup {new} /\ more[new] = stamp
            BY <1>3 DEF With
        <3>5. \A a \in recent : more[a] = data[a]
            BY <1>3, <3>1 DEF With
        <3>6. Cardinality(recent \cup {new}) = Cardinality(recent) + 1
            <4>1. IsFiniteSet(recent) /\ new \notin recent
                BY <1>2, <1>3, <3>1, PartsAreFinite
            <4>. QED  BY <4>1, FS_AddElement
        <3>. QED  BY <3>3, <3>4, <3>5, <3>6
    <2>3. Cardinality(recent) \in Nat /\ Cardinality(DOMAIN passed) \in Nat
          /\ Cardinality(DOMAIN passed) <= Cardinality(recent)
        BY <1>2, <1>3, PartsAreFinite
    <2>4. Cardinality(DOMAIN more) <= LoginMax
        BY <1>7, <2>2, <2>3
    <2>5. passed \in Partial(0 .. Window - 1) /\ Cardinality(DOMAIN passed) <= LoginMax
        BY DEF Inv, StoreSound
    <2> HIDE DEF more
    <2>6. CASE stamp # 0
        BY <1>3, <1>4, <1>5, <1>7, <2>2, <2>4, <2>5, <2>6 DEF more
    <2>7. CASE stamp = 0
        <3> DEFINE pass == With(passed, new, 0)
        <3>1. 0 \in 0 .. Window - 1
            BY Ranges
        <3>2. /\ pass \in Partial(0 .. Window - 1) /\ DOMAIN pass = DOMAIN passed \cup {new}
              /\ \A a \in DOMAIN passed : pass[a] = passed[a]
              /\ pass[new] = 0
              /\ Cardinality(DOMAIN pass) = Cardinality(DOMAIN passed) + 1
            <4>1. new \in Attempts \ DOMAIN passed
                BY <1>7
            <4> DEFINE S == 0 .. Window - 1
                       v == 0
            <4>2. passed \in Partial(S) /\ v \in S
                BY <2>5, <3>1
            <4>3. /\ With(passed, new, v) \in Partial(S)
                  /\ DOMAIN With(passed, new, v) = DOMAIN passed \cup {new}
                  /\ \A a \in DOMAIN passed : With(passed, new, v)[a] = passed[a]
                  /\ With(passed, new, v)[new] = v
                  /\ Cardinality(DOMAIN With(passed, new, v)) = Cardinality(DOMAIN passed) + 1
                <5> HIDE DEF S, v
                <5>. QED  BY <4>1, <4>2, OneMore
            <4>. QED  BY <4>3
        <3>3. Cardinality(DOMAIN pass) <= LoginMax
            BY <1>7, <2>3, <3>2
        <3> HIDE DEF pass
        <3>4. \A a \in DOMAIN pass : a \in DOMAIN more /\ more[a] = pass[a]
            BY <1>3, <1>4, <2>2, <2>7, <3>2
        <3>5. data' = kept(more) /\ passed' = pass
            BY <1>7, <2>7 DEF more, pass
        <3>. QED  BY <1>5, <2>2, <2>4, <3>2, <3>3, <3>4, <3>5
    <2>. QED  BY <2>6, <2>7
<1>. QED  BY <1>3, <1>6, <1>7 DEF LimitLogin, kept

\* Time passes: a stamp and the attempt it belongs to grow older together.
LEMMA TickStore ==
    ASSUME Inv, Tick
    PROVE  StoreSound'
<1> DEFINE still == {b \in DOMAIN passed : passed[b] + 1 < Window}
<1>1. DOMAIN data \subseteq Attempts /\ \A a \in DOMAIN data : data[a] \in 0 .. AgeCap
    BY PartialFacts DEF Inv, StoreSound
<1>2. DOMAIN passed \subseteq Attempts /\ \A a \in DOMAIN passed : passed[a] \in 0 .. Window - 1
    BY PartialFacts DEF Inv, StoreSound
<1>3. data' \in [DOMAIN data -> 0 .. AgeCap]
    <2>1. \A a \in DOMAIN data : Older(data[a], AgeCap) \in 0 .. AgeCap
        BY <1>1, Ranges DEF Older
    <2>2. data' = [a \in DOMAIN data |-> Older(data[a], AgeCap)]
        BY DEF Tick
    <2>. QED  BY <2>1, <2>2
<1>4. data' \in Partial(0 .. AgeCap) /\ DOMAIN data' = DOMAIN data
    BY <1>1, <1>3 DEF Partial
<1>5. passed' \in [still -> 0 .. Window - 1]
    <2>1. \A a \in still : passed[a] + 1 \in 0 .. Window - 1
        BY <1>2
    <2>2. passed' = [a \in still |-> passed[a] + 1]
        BY DEF Tick
    <2> HIDE DEF still
    <2>. QED  BY <2>1, <2>2
<1>6. passed' \in Partial(0 .. Window - 1) /\ DOMAIN passed' = still
    BY <1>2, <1>5 DEF Partial
<1>7. Cardinality(still) <= LoginMax
    <2>1. Cardinality(still) <= Cardinality(DOMAIN passed)
        BY <1>2, PartsAreFinite
    <2>2. Cardinality(still) \in Nat /\ Cardinality(DOMAIN passed) \in Nat
        BY <1>2, PartsAreFinite
    <2>. QED  BY <2>1, <2>2 DEF Inv, StoreSound
<1>8. \A a \in still : a \in DOMAIN data' /\ data'[a] = passed'[a]
    <2> SUFFICES ASSUME NEW a \in still PROVE a \in DOMAIN data' /\ data'[a] = passed'[a]
        OBVIOUS
    <2>1. a \in DOMAIN data /\ data[a] = passed[a] /\ passed[a] \in Nat
        BY <1>2 DEF Inv, StoreSound, OnTimeRemembered
    <2>2. data'[a] = Older(data[a], AgeCap) /\ passed'[a] = passed[a] + 1
        BY <2>1 DEF Tick
    <2>. QED  BY <1>4, <2>1, <2>2, Ranges DEF Older
<1>. QED  BY <1>4, <1>6, <1>7, <1>8 DEF StoreSound, OnTimeRemembered, Inv

-----------------------------------------------------------------------------
(* The count of failures.                                                  *)

\* A request that goes on without writing a row of the lockout.
LEMMA MoveCount ==
    ASSUME CountSound, NEW r \in Requests, NEW q \in ReqStates, req' = [req EXCEPT ![r] = q],
           Named(q), q.pc = "failwrite" => q.base = row[q.user],
           UNCHANGED <<row, failures, lost>>
    PROVE  CountSound'
<1>1. /\ req' \in [Requests -> ReqStates] /\ req'[r] = q
      /\ \A o \in Requests \ {r} : req'[o] = req[o]
    BY OneRequest
<1>2. BasesCount'
    <2> SUFFICES ASSUME NEW o \in Requests, req'[o].pc = "failwrite"
                 PROVE  req'[o].base.count + lost[req'[o].user] >= failures[req'[o].user]
        BY DEF BasesCount
    <2>1. CASE o = r
        BY <1>1, <2>1 DEF CountSound, FailuresCount, Named
    <2>2. CASE o # r
        BY <1>1, <2>2 DEF CountSound, BasesCount
    <2>. QED  BY <2>1, <2>2
<1>3. \A o \in Requests : Named(req'[o])
    BY <1>1 DEF CountSound
<1>4. (\A o \in Requests : Named(req[o]))'
    BY <1>3 DEF Named
<1>. QED  BY <1>1, <1>2, <1>4 DEF CountSound, FailuresCount

\* Goto, GotoFor and Return are such steps.
LEMMA GotoCount ==
    ASSUME CountSound, NEW r \in Requests,
           \/ Return(r)
           \/ \E pc \in {"stamped", "authed"} : Goto(r, pc)
           \/ \E pc \in {"check", "fail", "pass"}, u \in Users : GotoFor(r, pc, u),
           UNCHANGED <<row, failures, lost>>
    PROVE  CountSound'
<1>1. CASE Return(r)
    <2>1. Idle \in ReqStates /\ Idle.pc = "idle"
        BY Ranges DEF Idle
    <2>. QED  BY <1>1, <2>1, MoveCount DEF Return, Named
<1>2. ASSUME NEW pc \in {"stamped", "authed"}, Goto(r, pc) PROVE CountSound'
    <2> DEFINE q == [Idle EXCEPT !.pc = pc]
    <2>1. q \in ReqStates /\ q.pc = pc
        BY <1>2, Ranges DEF Idle, ReqStates
    <2>2. req' = [req EXCEPT ![r] = q]
        BY <1>2 DEF Goto
    <2> HIDE DEF q
    <2>. QED  BY <2>1, <2>2, MoveCount DEF Named
<1>3. ASSUME NEW pc \in {"check", "fail", "pass"}, NEW u \in Users, GotoFor(r, pc, u)
      PROVE  CountSound'
    <2> DEFINE q == [Idle EXCEPT !.pc = pc, !.user = u]
    <2>1. q \in ReqStates /\ q.pc = pc /\ q.user = u
        BY <1>3, Ranges DEF Idle, ReqStates
    <2>2. req' = [req EXCEPT ![r] = q]
        BY <1>3 DEF GotoFor
    <2> HIDE DEF q
    <2>. QED  BY <2>1, <2>2, MoveCount DEF Named
<1>. QED  BY <1>1, <1>2, <1>3

\* RecordFailure, its read: the base is the row.
LEMMA ReadFailuresCount ==
    ASSUME Inv, NEW r \in Requests, ReadFailures(r)
    PROVE  CountSound'
<1> DEFINE q == [req[r] EXCEPT !.pc = "failwrite", !.base = row[req[r].user]]
<1>1. /\ req[r] \in ReqStates /\ req[r].user \in Users /\ row[req[r].user] \in LockRow
      /\ req \in [Requests -> ReqStates]
    BY DEF Inv, CountSound, Named, ReadFailures
<1>2. q \in ReqStates /\ q.user = req[r].user /\ q.base = row[q.user]
    BY <1>1 DEF ReqStates
<1>3. req' = [req EXCEPT ![r] = q]
    BY <1>1 DEF ReadFailures
<1> HIDE DEF q
<1>4. Named(q)
    BY <1>1, <1>2 DEF Named
<1>. QED  BY <1>2, <1>3, <1>4, MoveCount DEF Inv, ReadFailures

\* What RecordFailure makes of the row it has read.
LEMMA CountedRow ==
    ASSUME NEW base \in LockRow
    PROVE  /\ Counted(base) \in LockRow
           /\ Counted(base).count = MaxFailures \/ Counted(base).count = base.count + 1
           /\ base.count \in Nat /\ Counted(base).count \in Nat
BY DEF Counted, LockRow

\* One more, of one name.
LEMMA OneMoreCounted ==
    ASSUME NEW count \in [Users -> 0 .. MaxFailures], NEW u \in Users
    PROVE  /\ OneMoreOf(count, u) \in [Users -> 0 .. MaxFailures]
           /\ OneMoreOf(count, u)[u] = IF count[u] < MaxFailures THEN count[u] + 1 ELSE count[u]
           /\ \A v \in Users \ {u} : OneMoreOf(count, u)[v] = count[v]
<1>1. (IF count[u] < MaxFailures THEN count[u] + 1 ELSE count[u]) \in 0 .. MaxFailures
    OBVIOUS
<1>. QED  BY <1>1 DEF OneMoreOf

\* The request that ends, and the others.
LEMMA EndedRequest ==
    ASSUME CountSound, NEW r \in Requests, Return(r)
    PROVE  /\ req' \in [Requests -> ReqStates] /\ req'[r].pc = "idle"
           /\ \A o \in Requests \ {r} : req'[o] = req[o]
           /\ (\A o \in Requests : Named(req[o]))'
<1>1. Idle \in ReqStates /\ Idle.pc = "idle"
    BY Ranges DEF Idle
<1>2. /\ req' \in [Requests -> ReqStates] /\ req'[r] = Idle
      /\ \A o \in Requests \ {r} : req'[o] = req[o]
    BY <1>1, OneRequest DEF Return
<1>3. \A o \in Requests : Named(req'[o])
    BY <1>1, <1>2 DEF CountSound, Named
<1>4. (\A o \in Requests : Named(req[o]))'
    BY <1>3 DEF Named
<1>. QED  BY <1>1, <1>2, <1>4

\* RecordFailure, its write: an overlapping request has one failure more to
\* make up for, and that one is counted in lost.
LEMMA WriteFailureCount ==
    ASSUME Inv, NEW r \in Requests, WriteFailure(r)
    PROVE  CountSound'
<1> DEFINE u == req[r].user
<1>1. /\ row \in [Users -> LockRow] /\ req \in [Requests -> ReqStates] /\ u \in Users
      /\ failures \in [Users -> 0 .. MaxFailures] /\ lost \in [Users -> 0 .. MaxFailures]
    BY DEF Inv, CountSound, Named, WriteFailure
<1>2. req[r].base \in LockRow /\ req[r].base.count + lost[u] >= failures[u]
    BY <1>1 DEF Inv, CountSound, BasesCount, WriteFailure, ReqStates
<1>3. /\ req' \in [Requests -> ReqStates] /\ req'[r].pc = "idle"
      /\ \A o \in Requests \ {r} : req'[o] = req[o]
      /\ (\A o \in Requests : Named(req[o]))'
    BY EndedRequest DEF Inv, WriteFailure
<1>4. /\ failures' = OneMoreOf(failures, u)
      /\ lost' = IF Overlapped(r) THEN OneMoreOf(lost, u) ELSE lost
      /\ row' = [row EXCEPT ![u] = Counted(req[r].base)]
    BY DEF WriteFailure
<1> HIDE DEF u
<1>5. /\ failures' \in [Users -> 0 .. MaxFailures] /\ lost' \in [Users -> 0 .. MaxFailures]
      /\ row' \in [Users -> LockRow]
      /\ failures'[u] <= failures[u] + 1 /\ lost'[u] >= lost[u]
      /\ \A v \in Users \ {u} : failures'[v] = failures[v] /\ lost'[v] = lost[v] /\ row'[v] = row[v]
    <2>1. Counted(req[r].base) \in LockRow
        BY <1>2, CountedRow
    <2>2. /\ failures' \in [Users -> 0 .. MaxFailures] /\ failures'[u] <= failures[u] + 1
          /\ \A v \in Users \ {u} : failures'[v] = failures[v]
        BY <1>1, <1>4, OneMoreCounted
    <2>3. /\ lost' \in [Users -> 0 .. MaxFailures] /\ lost'[u] >= lost[u]
          /\ \A v \in Users \ {u} : lost'[v] = lost[v]
        <3>1. CASE Overlapped(r)
            <4>1. lost' = OneMoreOf(lost, u)
                BY <1>4, <3>1
            <4>2. /\ OneMoreOf(lost, u) \in [Users -> 0 .. MaxFailures]
                  /\ OneMoreOf(lost, u)[u] = IF lost[u] < MaxFailures THEN lost[u] + 1 ELSE lost[u]
                  /\ \A v \in Users \ {u} : OneMoreOf(lost, u)[v] = lost[v]
                BY <1>1, OneMoreCounted
            <4>3. lost[u] \in 0 .. MaxFailures
                BY <1>1
            <4>. QED  BY <4>1, <4>2, <4>3
        <3>2. CASE ~Overlapped(r)
            BY <1>1, <1>4, <3>2
        <3>. QED  BY <3>1, <3>2
    <2>. QED  BY <1>1, <1>4, <2>1, <2>2, <2>3
<1>6. FailuresCount'
    <2> SUFFICES ASSUME NEW v \in Users PROVE row'[v].count + lost'[v] >= failures'[v]
        BY DEF FailuresCount
    <2>1. CASE v = u
        <3>1. /\ row'[u].count = MaxFailures \/ row'[u].count = req[r].base.count + 1
              /\ row'[u].count \in Nat /\ req[r].base.count \in Nat
            BY <1>1, <1>2, <1>4, CountedRow
        <3>2. lost[u] \in Nat /\ lost'[u] \in Nat /\ failures[u] \in Nat /\ failures'[u] \in 0 .. MaxFailures
            BY <1>1, <1>5
        <3>. QED  BY <1>2, <1>5, <2>1, <3>1, <3>2
    <2>2. CASE v # u
        BY <1>5, <2>2 DEF Inv, CountSound, FailuresCount
    <2>. QED  BY <2>1, <2>2
<1>7. BasesCount'
    <2> SUFFICES ASSUME NEW o \in Requests, req'[o].pc = "failwrite"
                 PROVE  req'[o].base.count + lost'[req'[o].user] >= failures'[req'[o].user]
        BY DEF BasesCount
    <2>1. o # r /\ req'[o] = req[o] /\ req[o].pc = "failwrite" /\ req[o].user \in Users
        BY <1>3 DEF Inv, CountSound, Named
    <2>2. /\ req[o].base.count + lost[req[o].user] >= failures[req[o].user]
          /\ req[o].base.count \in Nat
        BY <1>1, <2>1 DEF Inv, CountSound, BasesCount, ReqStates, LockRow
    <2>3. CASE req[o].user = u
        <3>1. Overlapped(r)
            BY <2>1, <2>3 DEF Overlapped, u
        <3>2. lost'[u] = IF lost[u] < MaxFailures THEN lost[u] + 1 ELSE lost[u]
            BY <1>1, <1>4, <3>1, OneMoreCounted
        <3>3. lost[u] \in Nat /\ failures[u] \in Nat /\ failures'[u] \in 0 .. MaxFailures
            BY <1>1, <1>5
        <3>. QED  BY <1>5, <2>1, <2>2, <2>3, <3>2, <3>3
    <2>4. CASE req[o].user # u
        BY <1>5, <2>1, <2>2, <2>4
    <2>. QED  BY <2>3, <2>4
<1>. QED  BY <1>3, <1>5, <1>6, <1>7 DEF CountSound

\* A failure that is not recorded is one more, and one more that is lost.
LEMMA RecordFailsCount ==
    ASSUME Inv, NEW r \in Requests, RecordFails(r)
    PROVE  CountSound'
<1> DEFINE u == req[r].user
<1>1. /\ row \in [Users -> LockRow] /\ req \in [Requests -> ReqStates] /\ u \in Users
      /\ failures \in [Users -> 0 .. MaxFailures] /\ lost \in [Users -> 0 .. MaxFailures]
    BY DEF Inv, CountSound, Named, RecordFails
<1>2. /\ req' \in [Requests -> ReqStates] /\ req'[r].pc = "idle"
      /\ \A o \in Requests \ {r} : req'[o] = req[o]
      /\ (\A o \in Requests : Named(req[o]))'
    BY EndedRequest DEF Inv, RecordFails
<1>3. failures' = OneMoreOf(failures, u) /\ lost' = OneMoreOf(lost, u) /\ row' = row
    BY DEF RecordFails
<1> HIDE DEF u
<1>4. /\ failures' \in [Users -> 0 .. MaxFailures] /\ lost' \in [Users -> 0 .. MaxFailures]
      /\ failures'[u] = IF failures[u] < MaxFailures THEN failures[u] + 1 ELSE failures[u]
      /\ lost'[u] = IF lost[u] < MaxFailures THEN lost[u] + 1 ELSE lost[u]
      /\ \A v \in Users \ {u} : failures'[v] = failures[v] /\ lost'[v] = lost[v]
    BY <1>1, <1>3, OneMoreCounted
\* What is enough of a count stays enough.
<1>5. ASSUME NEW count \in Nat, NEW v \in Users, count + lost[v] >= failures[v]
      PROVE  count + lost'[v] >= failures'[v]
    <2>1. lost[v] \in 0 .. MaxFailures /\ failures[v] \in 0 .. MaxFailures
        BY <1>1
    <2>2. CASE v = u
        BY <1>4, <1>5, <2>1, <2>2
    <2>3. CASE v # u
        BY <1>4, <1>5, <2>3
    <2>. QED  BY <2>2, <2>3
<1>6. FailuresCount'
    <2> SUFFICES ASSUME NEW v \in Users PROVE row'[v].count + lost'[v] >= failures'[v]
        BY DEF FailuresCount
    <2>1. row[v].count \in Nat /\ row[v].count + lost[v] >= failures[v]
        BY <1>1 DEF Inv, CountSound, FailuresCount, LockRow
    <2>. QED  BY <1>3, <1>5, <2>1
<1>7. BasesCount'
    <2> SUFFICES ASSUME NEW o \in Requests, req'[o].pc = "failwrite"
                 PROVE  req'[o].base.count + lost'[req'[o].user] >= failures'[req'[o].user]
        BY DEF BasesCount
    <2>1. req'[o] = req[o] /\ req[o].pc = "failwrite" /\ req[o].user \in Users
        BY <1>2 DEF Inv, CountSound, Named
    <2>2. /\ req[o].base.count + lost[req[o].user] >= failures[req[o].user]
          /\ req[o].base.count \in Nat
        BY <1>1, <2>1 DEF Inv, CountSound, BasesCount, ReqStates, LockRow
    <2>. QED  BY <1>5, <2>1, <2>2
<1>. QED  BY <1>1, <1>2, <1>3, <1>4, <1>6, <1>7 DEF CountSound

\* A success starts the count of its name anew.
LEMMA RecordSuccessCount ==
    ASSUME Inv, NEW r \in Requests, RecordSuccess(r)
    PROVE  CountSound'
<1> DEFINE u == req[r].user
<1>1. /\ row \in [Users -> LockRow] /\ req \in [Requests -> ReqStates] /\ u \in Users
      /\ failures \in [Users -> 0 .. MaxFailures] /\ lost \in [Users -> 0 .. MaxFailures]
    BY DEF Inv, CountSound, Named, RecordSuccess
<1>2. /\ req' \in [Requests -> ReqStates] /\ req'[r].pc = "idle"
      /\ \A o \in Requests \ {r} : req'[o] = req[o]
      /\ (\A o \in Requests : Named(req[o]))'
    BY EndedRequest DEF Inv, RecordSuccess
<1>3. /\ failures' = [failures EXCEPT ![u] = 0] /\ lost' = [lost EXCEPT ![u] = 0]
      /\ row' \in {row, [row EXCEPT ![u] = NoFailures]}
    BY DEF RecordSuccess
<1> HIDE DEF u
<1>4. /\ failures' \in [Users -> 0 .. MaxFailures] /\ lost' \in [Users -> 0 .. MaxFailures]
      /\ row' \in [Users -> LockRow] /\ failures'[u] = 0 /\ lost'[u] = 0
      /\ \A v \in Users \ {u} : failures'[v] = failures[v] /\ lost'[v] = lost[v] /\ row'[v] = row[v]
    BY <1>1, <1>3, Ranges
<1>5. \A v \in Users : row'[v].count \in Nat
    BY <1>4 DEF LockRow
<1>6. \A o \in Requests : req'[o].base.count \in Nat
    BY <1>2 DEF ReqStates, LockRow
<1>7. FailuresCount'
    <2> SUFFICES ASSUME NEW v \in Users PROVE row'[v].count + lost'[v] >= failures'[v]
        BY DEF FailuresCount
    <2>. QED  BY <1>4, <1>5 DEF Inv, CountSound, FailuresCount
<1>8. BasesCount'
    <2> SUFFICES ASSUME NEW o \in Requests, req'[o].pc = "failwrite"
                 PROVE  req'[o].base.count + lost'[req'[o].user] >= failures'[req'[o].user]
        BY DEF BasesCount
    <2>1. req'[o] = req[o] /\ req[o].pc = "failwrite" /\ req[o].user \in Users
        BY <1>2 DEF Inv, CountSound, Named
    <2>2. CASE req[o].user = u
        BY <1>4, <1>6, <2>1, <2>2
    <2>3. CASE req[o].user # u
        BY <1>4, <2>1, <2>3 DEF Inv, CountSound, BasesCount
    <2>. QED  BY <2>2, <2>3
<1>. QED  BY <1>2, <1>4, <1>7, <1>8 DEF CountSound

\* Time changes no count.
LEMMA TickCount ==
    ASSUME Inv, Tick
    PROVE  CountSound'
<1>1. /\ row \in [Users -> LockRow] /\ req \in [Requests -> ReqStates]
    BY DEF Inv, CountSound
<1> DEFINE less(left) == IF left > 0 THEN left - 1 ELSE 0
<1>0. ASSUME NEW left \in 0 .. LockoutDur PROVE less(left) \in 0 .. LockoutDur
    OBVIOUS
<1>2. row' \in [Users -> LockRow] /\ \A u \in Users : row'[u].count = row[u].count
    <2>1. row' = [u \in Users |-> [row[u] EXCEPT !.left = less(row[u].left)]]
        BY <1>1 DEF Tick
    <2>2. \A u \in Users : less(row[u].left) \in 0 .. LockoutDur
        BY <1>0, <1>1 DEF LockRow
    <2> HIDE DEF less
    <2>. QED  BY <1>1, <2>1, <2>2 DEF LockRow
<1>3. \A r \in Requests : /\ req'[r] \in ReqStates
                           /\ req'[r].pc = req[r].pc /\ req'[r].user = req[r].user
                           /\ req'[r].base.count = req[r].base.count
    <2> SUFFICES ASSUME NEW r \in Requests
                 PROVE  /\ req'[r] \in ReqStates
                        /\ req'[r].pc = req[r].pc /\ req'[r].user = req[r].user
                        /\ req'[r].base.count = req[r].base.count
        OBVIOUS
    <2>1. /\ req[r] \in ReqStates /\ req[r].base \in LockRow
          /\ req[r].pc = "stamped" => req[r].stamp < MaxLate
        BY <1>1 DEF ReqStates, Tick
    <2> DEFINE stamp == IF req[r].pc = "stamped" THEN req[r].stamp + 1 ELSE req[r].stamp
               base == [req[r].base EXCEPT !.left = less(req[r].base.left)]
    <2>2. req'[r] = [req[r] EXCEPT !.stamp = stamp, !.base = base]
        BY <2>1 DEF Tick, ReqStates
    <2>3. stamp \in 0 .. MaxLate
        BY <2>1 DEF ReqStates
    <2>4. base \in LockRow /\ base.count = req[r].base.count
        <3>1. less(req[r].base.left) \in 0 .. LockoutDur
            BY <1>0, <2>1 DEF LockRow
        <3> HIDE DEF less
        <3>. QED  BY <2>1, <3>1 DEF LockRow
    <2> HIDE DEF stamp, base
    <2>. QED  BY <2>1, <2>2, <2>3, <2>4 DEF ReqStates
<1>4. req' \in [Requests -> ReqStates]
    <2>1. DOMAIN req' = Requests /\ req' = [r \in Requests |-> req'[r]]
        BY DEF Tick
    <2>. QED  BY <1>3, <2>1
<1>5. failures' = failures /\ lost' = lost
    BY DEF Tick
<1>6. FailuresCount' /\ BasesCount'
    BY <1>2, <1>3, <1>5 DEF FailuresCount, BasesCount, Inv, CountSound
<1>7. (\A r \in Requests : Named(req[r]))'
    BY <1>3 DEF Named, Inv, CountSound
<1>. QED  BY <1>2, <1>4, <1>5, <1>6, <1>7 DEF CountSound, Inv

-----------------------------------------------------------------------------
(* All together.                                                           *)

\* The requests behind authentication move one request and perhaps a token.
LEMMA ApiStepInv ==
    ASSUME Inv, NEW r \in Requests, ApiStep(r)
    PROVE  Inv'
<1>1. StoreSound' /\ operator' \in Users
    BY DEF ApiStep, Authenticate, Finish, RevokeToken, CreateToken, Inv, StoreSound, OnTimeRemembered
<1>2. ASSUME NEW t \in TokenIds, req' = [req EXCEPT ![r] = [Idle EXCEPT !.pc = "authed", !.token = t]],
             UNCHANGED <<row, failures, lost>>
      PROVE  CountSound'
    <2> DEFINE q == [Idle EXCEPT !.pc = "authed", !.token = t]
    <2>1. q \in ReqStates /\ q.pc = "authed"
        BY Ranges DEF Idle, ReqStates
    <2>2. req' = [req EXCEPT ![r] = q]
        BY <1>2
    <2> HIDE DEF q
    <2>. QED  BY <1>2, <2>1, <2>2, MoveCount DEF Inv, Named
<1>3. CASE Authenticate(r)
    <2>1. CountSound'
        BY <1>2, <1>3, GotoCount DEF Authenticate, Inv
    <2>. QED  BY <1>1, <1>3, <2>1 DEF Authenticate, Inv
<1>4. CASE Finish(r)
    <2>1. CountSound'
        BY <1>4, GotoCount DEF Finish, Inv
    <2>. QED  BY <1>1, <1>4, <2>1 DEF Finish, Inv
<1>5. ASSUME NEW t \in TokenIds, RevokeToken(r, t) PROVE Inv'
    <2>1. CountSound'
        BY <1>5, GotoCount DEF RevokeToken, Inv
    <2>2. tokens' \in [TokenIds -> TokenRow]
        <3>1. tokens[t] \in TokenRow
            BY DEF Inv
        <3>2. Revoked(t) \in TokenRow
            BY <3>1 DEF Revoked, TokenRow
        <3>. QED  BY <1>5, <3>2 DEF RevokeToken, Inv
    <2>. QED  BY <1>1, <2>1, <2>2 DEF Inv
<1>6. ASSUME NEW t \in TokenIds, NEW scopes \in ScopeInputs, NEW due \in {"never", "later"},
             CreateToken(r, t, scopes, due)
      PROVE  Inv'
    <2>1. CountSound'
        BY <1>6, GotoCount DEF CreateToken, Inv
    <2>2. tokens' \in [TokenIds -> TokenRow]
        <3>1. [life |-> "live", owner |-> operator, scopes |-> scopes, due |-> due] \in TokenRow
            BY <1>6 DEF CreateToken, ValidScopes, TokenRow, Inv
        <3>. QED  BY <1>6, <3>1 DEF CreateToken, Inv
    <2>. QED  BY <1>1, <2>1, <2>2 DEF Inv
<1>. QED  BY <1>3, <1>4, <1>5, <1>6 DEF ApiStep

\* The steps of a login.
LEMMA LoginStepInv ==
    ASSUME Inv, NEW r \in Requests, LoginStep(r)
    PROVE  Inv'
<1>1. tokens' \in [TokenIds -> TokenRow] /\ operator' \in Users
    BY DEF LoginStep, LoginArrives, CheckLock, ReadFailures, WriteFailure, RecordFails, RecordSuccess,
           LimitLogin, Inv
<1>2. CASE LoginArrives(r) \/ CheckLock(r)
    <2>1. CountSound'
        <3>1. CheckLock(r) => req[r].user \in Users
            BY DEF CheckLock, Inv, CountSound, Named
        <3>. QED  BY <1>2, <3>1, GotoCount DEF LoginArrives, CheckLock, Inv
    <2>2. StoreSound'
        BY <1>2 DEF LoginArrives, CheckLock, Inv, StoreSound, OnTimeRemembered
    <2>. QED  BY <1>1, <2>1, <2>2 DEF Inv
<1>3. CASE ReadFailures(r) \/ WriteFailure(r) \/ RecordFails(r) \/ RecordSuccess(r)
    <2>1. StoreSound'
        BY <1>3 DEF ReadFailures, WriteFailure, RecordFails, RecordSuccess, Inv, StoreSound, OnTimeRemembered
    <2>. QED  BY <1>1, <1>3, <2>1, ReadFailuresCount, WriteFailureCount, RecordFailsCount,
                 RecordSuccessCount DEF Inv
<1>4. ASSUME NEW gc \in BOOLEAN, LimitLogin(r, gc) PROVE Inv'
    <2>1. CountSound'
        BY <1>4, GotoCount DEF LimitLogin, Inv
    <2>. QED  BY <1>1, <1>4, <2>1, LimitLoginStore DEF Inv
<1>. QED  BY <1>2, <1>3, <1>4 DEF LoginStep

\* At the start nothing is stored and nothing is counted.
LEMMA InitInv == Init => Inv
<1> SUFFICES ASSUME Init PROVE Inv
    OBVIOUS
<1>1. StoreSound
    <2>1. DOMAIN data = {} /\ DOMAIN passed = {} /\ Cardinality({}) = 0
        BY FS_EmptySet DEF Init
    <2>2. data \in [{} -> 0 .. AgeCap] /\ passed \in [{} -> 0 .. Window - 1]
        BY DEF Init
    <2>3. data \in Partial(0 .. AgeCap) /\ passed \in Partial(0 .. Window - 1)
        BY <2>2 DEF Partial
    <2>. QED  BY <2>1, <2>3 DEF StoreSound, OnTimeRemembered
<1>2. CountSound
    BY Ranges DEF Init, CountSound, FailuresCount, BasesCount, NoFailures, Idle, Named
<1>3. NoToken \in TokenRow
    BY DEF NoToken, TokenRow
<1>. QED  BY <1>1, <1>2, <1>3 DEF Inv, Init

\* Every step keeps the invariant.
LEMMA NextInv == Inv /\ [Next]_vars => Inv'
<1> SUFFICES ASSUME Inv, [Next]_vars PROVE Inv'
    OBVIOUS
<1>1. CASE \E r \in Requests : LoginStep(r) \/ ApiStep(r)
    BY <1>1, LoginStepInv, ApiStepInv
<1>2. ASSUME NEW t \in TokenIds, TokenExpires(t) PROVE Inv'
    <2>1. tokens' \in [TokenIds -> TokenRow]
        BY <1>2 DEF TokenExpires, Inv, TokenRow
    <2>. QED  BY <1>2, <2>1 DEF TokenExpires, Inv, StoreSound, OnTimeRemembered, CountSound,
                                FailuresCount, BasesCount, Named
<1>3. ASSUME NEW new \in Users, Rename(new) PROVE Inv'
    BY <1>3 DEF Rename, Inv, StoreSound, OnTimeRemembered, CountSound, FailuresCount, BasesCount,
                  Named
<1>4. ASSUME NEW stamp \in 0 .. MaxLate, CompactForOther(stamp) PROVE Inv'
    <2>1. StoreSound'
        BY <1>4, CompactionIsSound DEF CompactForOther, Inv, StoreSound, OnTimeRemembered
    <2>. QED  BY <1>4, <2>1 DEF CompactForOther, Inv, CountSound, FailuresCount, BasesCount, Named
<1>5. CASE Tick
    BY <1>5, TickStore, TickCount DEF Tick, Inv
<1>6. CASE UNCHANGED vars
    BY <1>6 DEF vars, Inv, StoreSound, OnTimeRemembered, CountSound, FailuresCount, BasesCount, Named
<1>. QED  BY <1>1, <1>2, <1>3, <1>4, <1>5, <1>6 DEF Next

\* The invariant of limiter, lockout and tokens holds in every reachable state.
THEOREM InvariantHolds == Spec => []Inv
BY InitInv, NextInv, PTL DEF Spec

\* LoginRateLimit: no more than loginMaxAttempts logins that had the time of
\* their turn pass in any window.
THEOREM BudgetIsKept == Spec => []AttemptsPerWindow
<1>1. Inv => AttemptsPerWindow
    BY DEF Inv, AttemptsPerWindow, TypeOK, StoreSound, CountSound, Named
<1>. QED  BY <1>1, InvariantHolds, PTL

\* RecordFailure: no failed login on a name is missing from its count but those
\* whose record failed or that another one overlapped.
THEOREM FailuresAreCounted == Spec => []FailuresCount
<1>1. Inv => FailuresCount
    BY DEF Inv, CountSound
<1>. QED  BY <1>1, InvariantHolds, PTL

-----------------------------------------------------------------------------
(* Tokens.                                                                 *)

ReadScopes == {"devices:read", "firmware:read", "settings:read"}

\* The routes of one class.
LEMMA RouteOf ==
    \A method, scope, names : \A route \in Routes(method, scope, names) :
        route.method = method /\ route.scope = scope /\ route.name \in names
<1> SUFFICES ASSUME NEW method, NEW scope, NEW names, NEW route \in Routes(method, scope, names)
             PROVE  route.method = method /\ route.scope = scope /\ route.name \in names
    OBVIOUS
<1>1. PICK n \in names : route = [method |-> method, scope |-> scope, name |-> n]
    BY DEF Routes
<1>. QED  BY <1>1

\* The table of routes, class by class: where read scopes lead, and that the
\* routes of log, backup and second factor ask for admin.
LEMMA RouteTable ==
    ASSUME NEW route \in AuthRoutes
    PROVE  /\ RequiredScope(route) \in ReadScopes => route.method = "GET" \/ route.name = "firmware/check"
           /\ route \in UnscopedRoutes => route.scope = NoScope /\ (route.method = "GET" \/ route.name = "logout")
           /\ route \in AdminRoutes \cup TotpRoutes => RequiredScope(route) = "admin"
<1>0. /\ route \in AdminRoutes => route.scope = NoScope
      /\ route \in TotpRoutes => route.scope = NoScope
      /\ route \in AccountRoutes => route.scope = NoScope
      /\ route \in TokenRoutes => route.scope = NoScope
      /\ route \in UnscopedRoutes => route.scope = NoScope /\ (route.method = "GET" \/ route.name = "logout")
    <2>1. route \in AdminRoutes => route.scope = NoScope
        BY RouteOf DEF AdminRoutes
    <2>2. route \in TotpRoutes => route.scope = NoScope
        BY RouteOf DEF TotpRoutes
    <2>3. route \in AccountRoutes => route.scope = NoScope
        BY RouteOf DEF AccountRoutes
    <2>4. route \in TokenRoutes => route.scope = NoScope
        BY RouteOf DEF TokenRoutes
    <2>5. route \in UnscopedRoutes => route.scope = NoScope /\ (route.method = "GET" \/ route.name = "logout")
        BY RouteOf DEF UnscopedRoutes
    <2>. QED  BY <2>1, <2>2, <2>3, <2>4, <2>5
<1>1. CASE route \in UnscopedRoutes \cup AccountRoutes \cup TotpRoutes \cup TokenRoutes \cup AdminRoutes
    <2>1. route.scope = NoScope
        BY <1>0, <1>1
    <2>. QED  BY <1>0, <2>1 DEF RequiredScope, ReadScopes
<1>2. CASE route \in DeviceReadRoutes \cup ScanRoutes \cup DeviceWriteRoutes
    <2>1. (route.method = "GET" /\ route.scope = "devices:read") \/ route.scope = "devices:write"
        BY <1>2, RouteOf DEF DeviceReadRoutes, ScanRoutes, DeviceWriteRoutes
    <2>. QED  BY <1>0, <2>1 DEF RequiredScope, ReadScopes
<1>3. CASE route \in FirmwareRoutes
    <2>1. \/ route.method = "GET" /\ route.scope = "firmware:read"
          \/ route.name \in {"firmware/check"} /\ route.scope = "firmware:read"
          \/ route.scope = "firmware:write"
        BY <1>3, RouteOf DEF FirmwareRoutes
    <2>. QED  BY <1>0, <2>1 DEF RequiredScope, ReadScopes
<1>4. CASE route \in ProvisionRoutes \cup CatalogRoutes
    <2>1. route.scope = "provision"
        BY <1>4, RouteOf DEF ProvisionRoutes, CatalogRoutes
    <2>. QED  BY <1>0, <2>1 DEF RequiredScope, ReadScopes
<1>5. CASE route \in SettingsRoutes
    <2>1. (route.method = "GET" /\ route.scope = "settings:read") \/ route.scope = "settings:write"
        BY <1>5, RouteOf DEF SettingsRoutes
    <2>. QED  BY <1>0, <2>1 DEF RequiredScope, ReadScopes
<1>. QED  BY <1>1, <1>2, <1>3, <1>4, <1>5 DEF AuthRoutes

\* What the routes grant a token, whatever scopes it was created with.
THEOREM TokensReach == Spec => []TokenReach
<1>1. TokenReach
    <2> SUFFICES ASSUME NEW t \in TokenIds, NEW route \in AuthRoutes, Served(LiveCaller(t), route)
                 PROVE  /\ tokens[t].scopes \subseteq ReadScopes /\ route \in ChangingRoutes
                             => route.name \in {"firmware/check", "scan/status", "logout"}
                        /\ route \in AdminRoutes \cup TotpRoutes => "admin" \in tokens[t].scopes
                        /\ route \notin CookieOnly
        BY DEF TokenReach, ReadScopes
    <2>1. LiveCaller(t).kind = "pat" /\ LiveCaller(t).scopes = tokens[t].scopes
        BY DEF LiveCaller
    <2>2. \/ route \in UnscopedRoutes
          \/ RequiredScope(route) \in tokens[t].scopes \/ "admin" \in tokens[t].scopes
        BY <2>1 DEF Served, PassesScope
    <2>3. route \notin CookieOnly
        BY <2>1 DEF Served, PassesHandler
    <2>4. "admin" \notin ReadScopes
        BY DEF ReadScopes
    <2>5. route \in ChangingRoutes => route.method # "GET" \/ route.name = "scan/status"
        BY DEF ChangingRoutes
    <2>6. route \in AdminRoutes \cup TotpRoutes => route \notin UnscopedRoutes
        <3>1. route \in UnscopedRoutes => route.name \in {"logout", "pages"}
            BY RouteOf DEF UnscopedRoutes
        <3>2. route \in AdminRoutes =>
                route.name \in {"logs", "logs/export", "openapi", "backup/export", "backup/import"}
            BY RouteOf DEF AdminRoutes
        <3>3. route \in TotpRoutes =>
                route.name \in {"totp/status", "totp/enroll", "totp/verify-enroll", "totp/disable"}
            BY RouteOf DEF TotpRoutes
        <3>. QED  BY <3>1, <3>2, <3>3
    <2>. QED  BY <2>2, <2>3, <2>4, <2>5, <2>6, RouteTable
<1>. QED  BY <1>1, PTL
=============================================================================
