----------------------------- MODULE Provision ------------------------------
(***************************************************************************)
(* The requests that write a device's configuration: a provision applies    *)
(* the sections of a template, an upload sends a certificate in chunks, a   *)
(* bulk or device action makes one change.  Provisions and uploads reserve  *)
(* the device against firmware installs, actions reserve nothing.           *)
(*                                                                          *)
(* A section is the sequence of calls it makes.  Go ranges over maps, so    *)
(* sections, and the entries of a kvs, script or gen2_rpc section, come in  *)
(* any order.  The first call that fails ends the section, never the        *)
(* provision.                                                               *)
(***************************************************************************)
EXTENDS Device

CONSTANTS
    Names,      \* keys and values of payloads
    Misfit,     \* a value that is not of the type the code asks for
    NilText,    \* the password "<nil>"
    Templates,  \* templates: sets of <<section, payload>>
    Actions,    \* actions: sets of <<section, payload>>, one each
    MaxStarts   \* bound: requests and install jobs

VARIABLES
    authRow,    \* AuthRequired of the inventory row
    rowVer,     \* FW of the inventory row
    starts      \* requests and install jobs so far

provisionVars == <<authRow, rowVer, starts>>

-----------------------------------------------------------------------------
(* Payloads.  A template is checked for its size and its section names only,  *)
(* so any value may come with any key: Misfit is one of the wrong type.       *)

Op(method, arg) == [method |-> method, arg |-> arg]

\* Where normalizeSysPayload takes a field from, the first one present.  The fields
\* left out (tz, sntp, debug, ...) are taken in the same way.
SysSources ==
    [name |-> <<"device.name", "name">>, lat |-> <<"location.lat", "lat">>,
     lon |-> <<"location.lon", "lon", "lng">>,
     rpc_udp |-> <<"rpc_udp.listen_port", "rpc_udp.port">>, profile |-> <<"profile">>]

\* What a template may hold.  A key of a nested sys payload is the path to it, and
\* wrong are the ones that a type assertion turns down: a coordinate or port that is
\* no number, a key below something that is no object.  "none" is a field that is not
\* there, "odd" an entry of the wrong shape.
RawPayload(section, raw) ==
    \/ raw = Misfit
    \/ CASE section = "sys" -> raw \in [right : SUBSET Names, wrong : SUBSET Names]
         [] section = "ws" -> raw \in [server : Names, tls : Names, ca : Names]
         [] section \in {"ble", "mqtt"} -> raw \subseteq Seq(Names)
         [] section \in {"kvs", "script", "gen2_rpc"} -> raw \subseteq Names /\ IsFiniteSet(raw)
         [] section = "auth" -> raw \in Passwords
         [] section = "webhooks" ->
               /\ DOMAIN raw = {"delete_all", "delete", "update", "create"}
               /\ \A f \in {"delete", "update", "create"} :
                     raw[f] = Misfit \/ raw[f] \in Seq(Hooks \cup {Misfit})
         [] OTHER -> TRUE

\* What the type assertions of applySection, normalizeSysPayload and
\* applyWebhooksSection leave of a payload: a value of the wrong type is as if it
\* were not there, except as the element of a webhook list.  fmt.Sprint makes
\* "<nil>" of a password that is not there, and no mode is "off".
Read(section, raw) ==
    CASE section = "sys" -> IF raw = Misfit THEN {} ELSE raw.right
      [] section = "ws" -> IF raw = Misfit THEN [server |-> "none", tls |-> "none", ca |-> "none"] ELSE raw
      [] section \in {"ble", "mqtt", "kvs", "script", "gen2_rpc"} -> IF raw = Misfit THEN {} ELSE raw
      [] section = "auth" -> IF raw = Misfit THEN NilText ELSE raw
      [] section = "webhooks" ->
           LET List(f) == IF raw = Misfit THEN <<>> ELSE IF raw[f] = Misfit THEN <<>> ELSE raw[f]
           IN  [delete_all |-> IF raw = Misfit THEN FALSE ELSE raw.delete_all = TRUE,
                delete |-> List("delete"), update |-> List("update"), create |-> List("create")]
      [] section = "auto_update" -> IF raw = "" THEN "off" ELSE raw
      [] OTHER -> raw

\* The methods of the actions that carry no configuration.
SetterMethods ==
    {"Shelly.Update", "Shelly.Reboot", "BLE.Pair", "Wifi.Scan", "Eth.GetStatus",
     "Shelly.ResetWiFiConfig", "Switch.Toggle", "Light.Toggle", "Cover.Open", "Cover.Close", "Cover.Stop",
     "OTA.Revert", "Shelly.FactoryReset"}

\* The call of an action: one of these, or the SetConfig of a location, a time zone,
\* a server or a switch.  "mqtt" stands for Cloud and Wifi too.
IsSetter(op) ==
    IF op.method \in {"sys", "mqtt", "ble"}
    THEN op \in [method : {"sys", "mqtt", "ble"}, arg : SUBSET Seq(Names)]
    ELSE op \in [method : SetterMethods, arg : {0}]

\* Of an action validateBulkAction and the catalog admit only what is well formed.
ASSUME ProvisionAssumption ==
    /\ \A template \in Templates : \A entry \in template :
          entry[1] \in Sections /\ RawPayload(entry[1], entry[2])
    /\ \A entry \in Actions :
          \/ entry[1] = "action" /\ IsSetter(entry[2])
          \/ entry[1] = "auto_update" /\ entry[2] \in {"off", "stable", "beta"}
    /\ DOMAIN SysSources \cup {"none", "server", "ssl_ca", "*"} \subseteq Names
    /\ NilText \in Passwords
    /\ MaxStarts \in Nat

\* Place of the source that counts; 0 if the payload has none.
SysChosen(payload, f) == SelectInSeq(SysSources[f], LAMBDA k : k \in payload)

NormalizeSys(payload) ==
    {<<f, SysSources[f][SysChosen(payload, f)]>> :
        f \in {g \in DOMAIN SysSources : SysChosen(payload, g) # 0}}

\* normalizeWSPayload: a TLS mode counts on a wss server, and "user" needs a CA.
WSInvalid(p) == p.server = "wss" /\ (p.tls = "odd" \/ (p.tls = "user" /\ p.ca = "none"))

NormalizeWS(p) ==
    (IF p.server = "none" THEN {} ELSE {<<"server", p.server>>})
    \cup (IF p.server # "wss" THEN {}
          ELSE IF p.tls = "no_validation" THEN {<<"ssl_ca", "*">>}
          ELSE IF p.tls = "user" THEN {<<"ssl_ca", p.ca>>} ELSE {})

NormalizeBLE(payload) == payload \ {<<"enable">>}

-----------------------------------------------------------------------------
(* The calls of a section.                                                 *)

\* Something the code refuses before it calls the device.
Invalid == Op("invalid", 0)

\* An id that is not a number, or an entry that is not an object, is refused.
HookOp(method, h) == IF h = Misfit THEN Invalid ELSE Op(method, h)

\* Faulty variant: the new webhooks are created before the old ones go.
WebhookOpsCreateFirst(p) ==
    [i \in DOMAIN p.create |-> HookOp("Webhook.Create", p.create[i])]
    \o (IF p.delete_all THEN <<Op("Webhook.DeleteAll", 0)>> ELSE <<>>)
    \o [i \in DOMAIN p.delete |-> HookOp("Webhook.Delete", p.delete[i])]
    \o [i \in DOMAIN p.update |-> HookOp("Webhook.Update", p.update[i])]

\* applyWebhooksSection: delete_all, delete, update, create.
WebhookOps(p) ==
    (IF p.delete_all THEN <<Op("Webhook.DeleteAll", 0)>> ELSE <<>>)
    \o [i \in DOMAIN p.delete |-> HookOp("Webhook.Delete", p.delete[i])]
    \o [i \in DOMAIN p.update |-> HookOp("Webhook.Update", p.update[i])]
    \o [i \in DOMAIN p.create |-> HookOp("Webhook.Create", p.create[i])]

\* SetAutoUpdate: list, delete (see Deletions), create.
AutoUpdateOps(mode) ==
    IF mode \notin {"off", "stable", "beta"} THEN <<Invalid>>
    ELSE <<Op("Schedule.List", 0)>>
         \o (IF mode = "off" THEN <<>> ELSE <<Op("Schedule.Create", mode)>>)

\* A deletion of each auto-update entry that Schedule.List returned, in whatever
\* order it did.
Deletions(schedule) ==
    SetToSeqs({Op("Schedule.Delete", id) : id \in {i \in ScheduleIds : IsAutoUpdate(schedule[i])}})

\* A single SetConfig, unless normalisation left nothing of the payload.
ConfigOps(section, config) == IF config = {} THEN <<>> ELSE <<Op(section, config)>>

\* The entries of a map, each one call; a key of kvs takes any value, an entry of the
\* other two has a shape.
Entries(section, payload) ==
    SetToSeqs({IF section # "kvs" /\ e = "odd" THEN Invalid ELSE Op("Set", e) : e \in payload})

\* applySection: the sequences of calls that what it read may turn into.  "mqtt" stands for
\* every section that is passed on as it is (matter, cloud, wifi, eth, lnm, ...).
SectionOps(section, payload, serial) ==
    CASE section = "sys" -> {ConfigOps(section, NormalizeSys(payload))}
      [] section = "ws" -> {IF WSInvalid(payload) THEN <<Invalid>>
                            ELSE ConfigOps(section, NormalizeWS(payload))}
      [] section = "ble" -> {ConfigOps(section, NormalizeBLE(payload))}
      [] section = "mqtt" -> {<<Op(section, payload)>>}
      [] section = "gen1_http" -> {<<>>}
      [] section \in {"kvs", "script", "gen2_rpc"} -> Entries(section, payload)
      [] section = "auth" -> {<<Op("Shelly.SetAuth", [pass |-> payload, realm |-> serial])>>}
      [] section = "webhooks" -> {WebhookOps(payload)}
      [] section = "auto_update" -> {AutoUpdateOps(payload)}

\* applyBulkAction and the action catalog: a setter is one call.
ActionOps(section, payload) ==
    IF section = "auto_update" THEN AutoUpdateOps(payload) ELSE <<payload>>

\* A section without a call: nothing to do is "skipped", an empty map "ok".
EmptyStatus(section) == IF section \in {"kvs", "script", "gen2_rpc"} THEN "ok" ELSE "skipped"

-----------------------------------------------------------------------------
(* Uploads.                                                                *)

\* The chunks of the PEM that session s uploads.
Chunks(s) == <<<<s, 1>>, <<s, 2>>>>

\* UploadCertificate: append is i > 0, the first chunk starts the upload anew.
AppendFlag(i) == i > 1

Commit == Op("Shelly.PutUserCA", [data |-> <<>>, append |-> FALSE])

UploadOps(s) ==
    [i \in DOMAIN Chunks(s) |-> Op("Shelly.PutUserCA", [data |-> <<Chunks(s)[i]>>, append |-> AppendFlag(i)])]
    \o <<Commit>>

-----------------------------------------------------------------------------
(* Requests.                                                               *)

\* Sessions that hold the device in activeProvision.
Provisioning == {s \in Sessions : work[s].kind \in {"provision", "upload"}}

Begun(kind, pc, creds) ==
    [IdleWork EXCEPT !.kind = kind, !.pc = pc, !.creds = creds, !.seen = rowVer,
                     !.kept = BoolToInt(dev.password \in {creds, NoAuth})]

Begin(s) == work[s].pc = "idle" /\ starts < MaxStarts /\ starts' = starts + 1

\* Provision: a device known to need a password is skipped without a
\* credential_ref, and one that a firmware job holds is busy.  creds is the
\* credential of the ref, or else the one assigned to the device.
BeginProvision(s, template, ref, held) ==
    /\ Begin(s) /\ ~held
    /\ authRow => ref # NoAuth
    /\ work' = [work EXCEPT ![s] = [Begun("provision", "identify", IF ref = NoAuth THEN Assigned ELSE ref) EXCEPT !.todo = template]]
    /\ UNCHANGED <<dev, faults, reboots, authRow, rowVer>>

\* identify, and the name read with Shelly.GetConfig, which meets the first
\* challenge.  Without an answer the serial is empty.
Identify(s) ==
    /\ work[s].pc = "identify"
    /\ \/ /\ work' = [work EXCEPT ![s].pc = "pick", ![s].serial = 1,
                        ![s].nonce = IF dev.password # NoAuth /\ work[s].creds # NoAuth
                                     THEN "fresh" ELSE @]
          /\ UNCHANGED faults
       \/ Fault /\ work' = [work EXCEPT ![s].pc = "pick"]
    /\ UNCHANGED <<dev, reboots, provisionVars>>

\* The next section of the range over the template.
PickSection(s) ==
    /\ work[s].pc = "pick"
    /\ \E entry \in work[s].todo :
       \E ops \in SectionOps(entry[1], Read(entry[1], entry[2]), work[s].serial) :
         work' = [work EXCEPT ![s] =
                    [work[s] EXCEPT
                       !.todo = work[s].todo \ {entry}, !.section = entry[1], !.payload = entry[2],
                       !.ops = ops, !.alone = 1, !.calm = 1,
                       !.pc = IF ops = <<>> THEN "pick" ELSE "send",
                       !.status = IF ops = <<>> THEN EmptyStatus(entry[1]) ELSE "none"]]
    /\ UNCHANGED <<dev, faults, reboots, provisionVars>>

\* UploadUserCA: no credential, plain http.
BeginUpload(s, held) ==
    /\ Begin(s) /\ ~held
    /\ work' = [work EXCEPT ![s] = [Begun("upload", "send", NoAuth) EXCEPT
                                      !.section = "upload", !.ops = UploadOps(s)]]
    /\ UNCHANGED <<dev, faults, reboots, authRow, rowVer>>

\* BulkAction and ExecuteDeviceAction: the row must not ask for a password.
BeginAction(s, entry) ==
    /\ Begin(s) /\ ~authRow
    /\ work' = [work EXCEPT ![s] =
                  [Begun("action", "send", Assigned) EXCEPT
                     !.section = entry[1], !.payload = entry[2], !.ops = ActionOps(entry[1], entry[2])]]
    /\ UNCHANGED <<dev, faults, reboots, authRow, rowVer>>

-----------------------------------------------------------------------------
(* Calls.                                                                  *)

\* Faulty variant: an error of one call does not end the section.
AfterErrorGoOn(s, why) ==
    LET rest == Tail(work[s].ops)
    IN  [work[s] EXCEPT !.ops = rest, !.pc = IF rest = <<>> THEN "pick" ELSE "send", !.calm = 1,
                        !.status = IF rest = <<>> THEN "ok" ELSE @]

\* rpcSection, webhookFailure, SetAutoUpdate, UploadCertificate, setters: an
\* unknown method skips a section of a template; an error of SetAutoUpdate, of an
\* upload or of an action is a failure.  rpcSection writes "401 Unauthorized" of a
\* refused credential; the text of any other failure may hold these digits too.
AfterError(s, why) ==
    LET skips == why = "notfound" /\ work[s].section \in Sections \ {"auto_update"}
    IN  [work[s] EXCEPT
       !.ops = <<>>, !.pc = "pick",
       !.status = IF skips THEN "skipped" ELSE "failed",
       !.failed = IF skips THEN @ ELSE 1,
       !.unauthorized = IF /\ why = "unauthorized"
                           /\ work[s].section \in Sections \ {"webhooks", "auto_update"}
                        THEN 1 ELSE @]

\* The calls that the answer asks for.
Listed(s) ==
    IF Head(work[s].ops).method = "Schedule.List" THEN Deletions(dev.schedule) ELSE {<<>>}

\* The next call, or the end of the section.
AfterSuccess(s, listed) ==
    LET rest == listed \o Tail(work[s].ops)
    IN  [work[s] EXCEPT !.ops = rest, !.pc = IF rest = <<>> THEN "pick" ELSE "send", !.calm = 1,
                        !.status = IF rest = <<>> THEN "ok" ELSE @]

RefuseLocally(s) ==
    /\ work[s].pc = "send" /\ Head(work[s].ops) = Invalid
    /\ work' = [work EXCEPT ![s] = AfterError(s, "invalid")]
    /\ UNCHANGED <<dev, faults, reboots>>

Call(s) ==
    /\ work[s].pc \in {"send", "retry"}
    /\ \/ RefuseLocally(s)
       \/ /\ Head(work[s].ops) # Invalid
          /\ \/ Challenged(s)
             \/ \E why \in {"unauthorized", "lockout", "notfound", "rpcerror", "silent"} :
                  Fails(s, why, AfterError(s, why))
             \/ \E listed \in Listed(s) : Succeeds(s, AfterSuccess(s, listed)) /\ UNCHANGED faults
             \/ Succeeds(s, AfterError(s, "silent")) /\ Fault   \* the answer is lost
    /\ UNCHANGED provisionVars

\* Provision and BulkAction, after the last section, write the row as they read it
\* at the start: Provision when "401" or "403" is in the detail of a section that
\* failed, whatever it means there, BulkAction after a set_auto_update.
WritesRow(s) ==
    \/ work[s].kind = "provision" /\ work[s].unauthorized = 1
    \/ work[s].kind = "action" /\ work[s].section = "auto_update" /\ work[s].status = "ok"

MayWriteRow(s) == WritesRow(s) \/ (work[s].kind = "provision" /\ work[s].failed = 1)

\* The write of the row may fail, which is logged.
Finish(s) ==
    /\ work[s].pc = "pick" /\ work[s].todo = {}
    /\ \/ ~WritesRow(s) /\ UNCHANGED <<authRow, rowVer, faults>>
       \/ MayWriteRow(s) /\ authRow' = (work[s].kind = "provision") /\ rowVer' = work[s].seen
          /\ UNCHANGED faults
       \/ WritesRow(s) /\ Fault /\ UNCHANGED <<authRow, rowVer>>
    /\ work' = [work EXCEPT ![s] = IdleWork]
    /\ UNCHANGED <<dev, reboots, starts>>

\* A refresh writes the version of a device that answers to its credential and
\* clears the mark; it sets the mark of one that does not.
RefreshRow ==
    /\ starts < MaxStarts   \* nobody reads the row after the last request
    /\ authRow' = (dev.password \notin {Assigned, NoAuth})
    /\ rowVer' = IF authRow' THEN rowVer ELSE dev.ver
    /\ UNCHANGED <<dev, work, faults, reboots, starts>>

ProvisionStep(held) ==
    \E s \in Sessions :
       \/ \E template \in Templates, ref \in Passwords \cup {NoAuth} :
            BeginProvision(s, template, ref, held)
       \/ BeginUpload(s, held)
       \/ \E entry \in Actions : BeginAction(s, entry)
       \/ Identify(s) \/ PickSection(s) \/ Call(s) \/ Finish(s)
=============================================================================
