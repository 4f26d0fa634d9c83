----------------------------- MODULE DeviceWork -----------------------------
(***************************************************************************)
(* Everything that writes to one device, together: provisions, uploads and  *)
(* actions (Provision), the firmware install job (Install) and the device   *)
(* itself (Device).                                                         *)
(***************************************************************************)
EXTENDS Install

CONSTANT Lacks  \* sets of methods a device may not have

vars == <<deviceVars, provisionVars, installVars>>

Init ==
    /\ DeviceInit(Lacks)
    /\ InstallInit
    /\ authRow = FALSE /\ rowVer = 1 /\ starts = 0

Credentials == Passwords \cup {NoAuth}

\* A step outside the job, which may change the version of the device.
BesideJob(A) ==
    /\ A
    /\ moved' = moved \cup {how \in {"landed", "reverted"} :
                             /\ job = "running"
                             /\ IF how = "landed" THEN dev'.ver > dev.ver ELSE dev'.ver < dev.ver}
    /\ UNCHANGED <<job, inst, results, jobRow, stopping>>

Next ==
    \/ BesideJob(ProvisionStep(Held) \/ RefreshRow)
    \/ BesideJob(DeviceStep /\ UNCHANGED provisionVars)
    \/ StartInstall \/ Complete \/ Stop
    \/ \E t \in Targets : TargetStep(t)

Spec == Init /\ [][Next]_vars

-----------------------------------------------------------------------------
DeviceState ==
    [password : Credentials, lacks : Lacks, conf : [Single -> SUBSET Seq(Names)], items : SUBSET Names,
     hooks : [Hooks -> 0 .. 2], schedule : [ScheduleIds -> {"free", "owner", "stable", "beta"}],
     buffer : Seq(Sessions \X {1, 2}), file : Seq(Sessions \X {1, 2}), ver : 1 .. 2, ota : 0 .. 1]

TypeOK ==
    /\ dev \in DeviceState
    /\ DOMAIN work = Sessions
    /\ \A s \in Sessions :
         /\ work[s].kind \in {"none", "provision", "upload", "action"}
         /\ work[s].pc \in {"idle", "identify", "pick", "send", "retry"}
         /\ work[s].status \in {"none", "ok", "skipped", "failed"}
         /\ work[s].creds \in Credentials
         /\ work[s].nonce \in {"none", "fresh", "stale"}
         /\ work[s].pc = "idle" <=> work[s].kind = "none"
         /\ work[s].pc \in {"send", "retry"} <=> work[s].ops # <<>>
    /\ faults \in 0 .. MaxFaults /\ reboots \in 0 .. MaxReboots /\ starts \in 0 .. MaxStarts
    /\ authRow \in BOOLEAN /\ stopping \in BOOLEAN /\ moved \subseteq {"outdated", "landed", "reverted"}
    /\ job \in {"none", "running", "completed"} /\ rowVer \in 1 .. 2
    /\ results \in [Targets -> Statuses] /\ jobRow \in [Targets -> Statuses]
    /\ inst \in [Targets -> InstState]

AutoJobs(d) == {id \in ScheduleIds : IsAutoUpdate(d.schedule[id])}

\* ReadAutoUpdate: the first auto-update entry that counts.
ReadAutoUpdate(d) ==
    IF AutoJobs(d) = {} THEN "off"
    ELSE d.schedule[CHOOSE j \in AutoJobs(d) : \A k \in AutoJobs(d) : j <= k]

\* The device d is as the section asked for.
InForce(d, section, p) ==
    CASE section = "sys" ->
           \A f \in DOMAIN SysSources : \A i \in DOMAIN SysSources[f] : SysSources[f][i] \in p =>
              /\ \E j \in 1 .. i : SysSources[f][j] \in p /\ <<f, SysSources[f][j]>> \in d.conf.sys
              /\ \A j \in i + 1 .. Len(SysSources[f]) : <<f, SysSources[f][j]>> \notin d.conf.sys
      [] section = "ws" ->
           /\ p.server # "none" => <<"server", p.server>> \in d.conf.ws
           /\ p.server = "wss" /\ p.tls = "user" => <<"ssl_ca", p.ca>> \in d.conf.ws
           /\ p.server = "wss" /\ p.tls = "no_validation" => <<"ssl_ca", "*">> \in d.conf.ws
      [] section \in {"ble", "mqtt"} -> p \ {<<"enable">>} \subseteq d.conf[section]
      [] section \in {"kvs", "script", "gen2_rpc"} -> p \subseteq d.items
      [] section = "auth" -> d.password = p
      [] section = "webhooks" ->
           \A h \in Hooks : LET made == Cardinality({i \in DOMAIN p.create : p.create[i] = h}) IN
              /\ p.delete_all => d.hooks[h] = made
              /\ made > 0 => d.hooks[h] >= made
              /\ h \in Range(p.delete) /\ made = 0 => d.hooks[h] = 0
      [] section = "auto_update" -> ReadAutoUpdate(d) = p /\ Cardinality(AutoJobs(d)) <= 1
      [] section = "upload" -> \E s \in Sessions : d.file = Chunks(s)
      [] section = "action" -> p.method \in Single => d.conf[p.method] = p.arg
      [] OTHER -> TRUE

\* A section or an action that is reported "ok" is in force, every entry, webhook and
\* chunk of what the code read of it, unless another request wrote to the device
\* meanwhile or the device restarted in the middle of an upload: the call sequences
\* of applySection, SetAutoUpdate and UploadCertificate stop at the first failure
\* and start over cleanly after an earlier failed attempt.  It is not the payload as
\* written that is in force: a section that is no object (kvs, script, gen2_rpc), a
\* coordinate or port that is no number and a webhook list that is no list are left
\* out by Read, and the section is "ok" all the same.  What Webhook.Update changes in
\* a webhook is not looked at.
OkMeansInForce ==
    \A s \in Sessions :
       work[s].pc = "pick" /\ work[s].status = "ok" /\ work[s].alone = 1
       => InForce(dev, work[s].section, Read(work[s].section, work[s].payload))

\* A credential that was right all along is refused only when a restart of the
\* device outdates the nonce within one call: the retry of shellyclient.do covers
\* every other expired nonce.
RightCredentialIsAccepted ==
    [][\A s \in Sessions :
          /\ work[s].pc \in {"send", "retry"} /\ work[s].kept = 1 /\ work[s].calm = 1
          /\ work[s].creds # NoAuth
          => work'[s].unauthorized = work[s].unauthorized]_vars

\* "current" is reported only when an update landed while the job ran, unless the
\* inventory row had the wrong version when the job read it or the firmware was
\* rolled back (OTA.Revert) while it ran, which the code takes for an update too
\* (firmware_install.go:259): a device that accepts Shelly.Update and
\* does nothing is not taken for updated, however it restarts meanwhile.
CurrentMeansUpdated ==
    results[Dev] = "current" /\ moved \cap {"outdated", "reverted"} = {} => "landed" \in moved

\* An install that gives up on its own has looked at the device at least once
\* after the quiet period, whatever the two settings say.
PolledBeforeGivingUp ==
    \A t \in Targets :
       results[t] = "unknown" /\ inst[t].pc # "none" /\ ~stopping => inst[t].polls = 1

\* A completed install leaves a final status for every target in the jobs row,
\* though progress writes overtake one another while it runs.  All is well typed.
CompletedRowIsFinal ==
    /\ TypeOK
    /\ job = "completed" => \A t \in Targets : jobRow[t] \in Terminal
=============================================================================
