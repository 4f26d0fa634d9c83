------------------------------- MODULE Device -------------------------------
(***************************************************************************)
(* One device as the service sees it, and the client that talks to it.      *)
(*                                                                          *)
(* The device is external: what a method does to it is taken from how the   *)
(* code in internal/core uses the method.  The client is shellyclient: a    *)
(* request, the digest challenge it may meet, and the one retry with the    *)
(* answer to that challenge.  Everything else a client can hear (silence, a *)
(* lockout, an unknown method, a refusal) ends the call.                    *)
(***************************************************************************)
EXTENDS Naturals, Sequences, SequencesExt, FiniteSets

CONSTANTS
    Sessions,   \* requests being served that talk to the device
    Passwords,  \* device passwords
    Assigned,   \* the password of the credential assigned to the device
    NoAuth,     \* a device without a password, a client without a credential
    MaxFaults,  \* bound: lost requests, lost answers and refusals
    MaxReboots  \* bound: reboots, updates of the device's own accord

ASSUME DeviceAssumption ==
    /\ NoAuth \notin Passwords /\ Assigned \in Passwords /\ NoAuth \notin Sessions
    /\ MaxFaults \in Nat /\ MaxReboots \in Nat

VARIABLES
    dev,        \* the device
    work,       \* the sessions' calls
    faults,     \* faults so far
    reboots     \* reboots so far

deviceVars == <<dev, work, faults, reboots>>

Hooks == {"old", "x", "y"}
Sections == {"sys", "ws", "ble", "mqtt", "gen1_http", "kvs", "script", "gen2_rpc",
             "auth", "webhooks", "auto_update"}
Single == {"sys", "ws", "ble", "mqtt"}

\* Entries of the device's schedule: "owner" is one of its owner's, "stable" and
\* "beta" are the auto-update's, "free" is none.
ScheduleIds == 1 .. 4

\* A fresh device: one webhook, one schedule entry of its owner and one of the
\* device's own auto-update, no certificate.
Fresh(password, lacks) ==
    [password |-> password, lacks |-> lacks, conf |-> [c \in Single |-> {}], items |-> {},
     hooks |-> [h \in Hooks |-> IF h = "old" THEN 1 ELSE 0],
     schedule |-> [id \in ScheduleIds |-> IF id = 1 THEN "owner" ELSE IF id = 2 THEN "stable" ELSE "free"],
     buffer |-> <<>>, file |-> <<>>, ver |-> 1, ota |-> 0]

\* serial, seen (FW of the row it read), ops, section, payload, status: locals.
\* unauthorized, failed: 1 once a section was refused with "401 Unauthorized", once
\* any has failed.  Auxiliary: alone, nothing but the session has changed what Config
\* names since the section began (a restart in the middle of an upload does);
\* kept, the credential has been right since the session began; calm, no restart
\* since the call began.
IdleWork ==
    [kind |-> "none", pc |-> "idle", todo |-> {}, section |-> "none", payload |-> {},
     ops |-> <<>>, status |-> "none", unauthorized |-> 0, failed |-> 0, creds |-> NoAuth, nonce |-> "none",
     serial |-> 0, seen |-> 1, alone |-> 1, kept |-> 1, calm |-> 1]

DeviceInit(lacks) ==
    /\ dev \in {Fresh(password, l) : password \in {Assigned, NoAuth}, l \in lacks}
    /\ work = [s \in Sessions |-> IdleWork]
    /\ faults = 0 /\ reboots = 0

BoolToInt(b) == IF b THEN 1 ELSE 0

-----------------------------------------------------------------------------
(* What the methods do.                                                    *)

\* The entries that are the auto-update's.
IsAutoUpdate(mode) == mode \in {"stable", "beta"}

FreeId(d) == CHOOSE id \in ScheduleIds : d.schedule[id] = "free"

\* Methods the device answers with an error instead of doing them.
Refuses(d, op) ==
    \/ op.method \in {"Webhook.Delete", "Webhook.Update"} /\ d.hooks[op.arg] = 0
    \/ op.method = "Webhook.Create" /\ d.hooks[op.arg] = 2
    \/ op.method = "Schedule.Delete" /\ d.schedule[op.arg] = "free"
    \/ op.method = "Schedule.Create" /\ \A id \in ScheduleIds : d.schedule[id] # "free"
    \/ op.method = "Shelly.SetAuth" /\ op.arg.realm = 0
    \/ op.method = "OTA.Revert" /\ d.ver = 1

\* Shelly.Put*: null data closes the upload, and what was buffered is the file.
PutCertificate(d, arg) ==
    IF arg.data = <<>> THEN [d EXCEPT !.file = d.buffer, !.buffer = <<>>]
    ELSE [d EXCEPT !.buffer = (IF arg.append THEN @ ELSE <<>>) \o arg.data]

Restarted(d) == [d EXCEPT !.buffer = <<>>, !.ota = 0]

Applied(d, op) ==
    CASE op.method \in Single -> [d EXCEPT !.conf[op.method] = op.arg]
      [] op.method = "Set" -> [d EXCEPT !.items = @ \cup {op.arg}]
      [] op.method = "Shelly.SetAuth" -> [d EXCEPT !.password = op.arg.pass]
      [] op.method = "Webhook.DeleteAll" -> [d EXCEPT !.hooks = [h \in Hooks |-> 0]]
      [] op.method = "Webhook.Delete" -> [d EXCEPT !.hooks[op.arg] = 0]
      [] op.method = "Webhook.Create" -> [d EXCEPT !.hooks[op.arg] = @ + 1]
      [] op.method = "Schedule.Delete" -> [d EXCEPT !.schedule[op.arg] = "free"]
      [] op.method = "Schedule.Create" -> [d EXCEPT !.schedule[FreeId(d)] = op.arg]
      [] op.method = "Shelly.PutUserCA" -> PutCertificate(d, op.arg)
      [] op.method = "Shelly.Update" -> [d EXCEPT !.ota = BoolToInt(d.ver = 1)]
      [] op.method = "Shelly.Reboot" -> Restarted(d)
      [] op.method = "OTA.Revert" -> [Restarted(d) EXCEPT !.ver = 1]
      [] op.method = "Shelly.FactoryReset" ->
            [Restarted(Fresh(NoAuth, d.lacks)) EXCEPT !.ver = d.ver,
             !.hooks = [h \in Hooks |-> 0], !.schedule = [id \in ScheduleIds |-> "free"]]
      [] OTHER -> d

Restarts == {"Shelly.Reboot", "OTA.Revert", "Shelly.FactoryReset"}

-----------------------------------------------------------------------------
(* The client.                                                             *)

\* What sessions write, apart from firmware; conf holds the fields of the last
\* SetConfig that the device accepted.
Config(d) == <<d.password, d.conf, d.items, d.hooks, d.schedule, d.buffer, d.file>>

\* What a step that leaves the device as d means to the other sessions: a
\* restart forgets the nonces.
Others(s, d, restart) ==
    [t \in Sessions |->
       IF work[t].pc = "idle" THEN work[t]
       ELSE [work[t] EXCEPT
               !.alone = IF t = s \/ Config(d) = Config(dev) THEN @ ELSE 0,
               !.kept = IF d.password \in {work[t].creds, NoAuth} THEN @ ELSE 0,
               !.calm = IF restart THEN 0 ELSE @,
               !.nonce = IF restart /\ @ = "fresh" THEN "stale" ELSE @]]

\* The device accepts the request as it is.
Authorized(s) ==
    dev.password = NoAuth \/ (work[s].creds = dev.password /\ work[s].nonce = "fresh")

\* Faulty variant: an answer to an old challenge is not renewed.
MayRetryOnce(s) == work[s].creds # NoAuth /\ work[s].nonce = "none"

\* do: a 401 is answered when there is a credential to answer it with.  The
\* certificate upload has no credential and no retry.
MayRetry(s) == work[s].creds # NoAuth

\* do, first request: challenged.
Challenged(s) ==
    /\ work[s].pc = "send"
    /\ ~Authorized(s) /\ MayRetry(s)
    /\ work' = [work EXCEPT ![s].pc = "retry", ![s].nonce = "fresh"]
    /\ UNCHANGED <<dev, faults, reboots>>

\* The request that the device decides on: the first, or the retry.
Decisive(s) == work[s].pc = "retry" \/ (work[s].pc = "send" /\ (Authorized(s) \/ ~MayRetry(s)))

Fault == faults < MaxFaults /\ faults' = faults + 1

\* The call ends with an error; on is what the caller makes of it.
Fails(s, why, on) ==
    /\ \/ why = "unauthorized" /\ Decisive(s) /\ ~Authorized(s) /\ UNCHANGED faults
       \/ why = "lockout" /\ Decisive(s) /\ ~Authorized(s) /\ UNCHANGED faults
       \/ why = "notfound" /\ Decisive(s) /\ Authorized(s) /\ Head(work[s].ops).method \in dev.lacks
          /\ UNCHANGED faults
       \/ why = "rpcerror" /\ Decisive(s) /\ Authorized(s) /\ Refuses(dev, Head(work[s].ops))
          /\ UNCHANGED faults
       \/ why = "rpcerror" /\ Decisive(s) /\ Authorized(s) /\ Fault
       \/ why = "silent" /\ Fault
    /\ work' = [work EXCEPT ![s] = on]
    /\ UNCHANGED <<dev, reboots>>

\* The device does what it was asked to.
Succeeds(s, on) ==
    LET op == Head(work[s].ops)
        restart == op.method \in Restarts
    IN  /\ Decisive(s) /\ Authorized(s)
        /\ op.method \notin dev.lacks /\ ~Refuses(dev, op)
        /\ dev' = Applied(dev, op)
        /\ work' = [Others(s, dev', restart) EXCEPT ![s] =
                      [on EXCEPT !.kept = IF dev'.password \in {on.creds, NoAuth} THEN @ ELSE 0,
                                 !.nonce = IF restart /\ @ = "fresh" THEN "stale" ELSE @]]
        /\ UNCHANGED reboots

-----------------------------------------------------------------------------
(* What the device does by itself.                                         *)

\* A power cut.
Restart ==
    /\ reboots < MaxReboots /\ reboots' = reboots + 1
    /\ dev' = Restarted(dev)
    /\ work' = Others(NoAuth, dev', TRUE)
    /\ UNCHANGED faults

\* The update is flashed and the device restarts on it; or the download fails.
Flash ==
    /\ dev.ota = 1
    /\ dev' \in {[Restarted(dev) EXCEPT !.ver = 2], [dev EXCEPT !.ota = 0]}
    /\ work' = Others(NoAuth, dev', dev'.ver # dev.ver)
    /\ UNCHANGED <<faults, reboots>>

\* Its auto-update entry comes due.
SelfUpdate ==
    /\ reboots < MaxReboots /\ reboots' = reboots + 1
    /\ dev.ver = 1 /\ dev.ota = 0
    /\ \E id \in ScheduleIds : IsAutoUpdate(dev.schedule[id])
    /\ dev' = [dev EXCEPT !.ota = 1]
    /\ UNCHANGED <<work, faults>>

DeviceStep == Restart \/ Flash \/ SelfUpdate
=============================================================================
