---------------------------- MODULE MCDeviceWork ----------------------------
(* Model checking of DeviceWork: two requests or an install at a time.      *)
EXTENDS DeviceWork, TLC

AllNames == STRING

WipeAndReplace == [delete_all |-> TRUE, delete |-> <<>>, update |-> <<>>, create |-> <<"x", "y">>]
Edit == [delete_all |-> FALSE, delete |-> <<"old">>, update |-> <<"old">>, create |-> <<"x">>]
NoList == [delete_all |-> Misfit, delete |-> Misfit, update |-> <<>>, create |-> <<"x", Misfit>>]
Nothing == [delete_all |-> FALSE, delete |-> <<>>, update |-> Misfit, create |-> <<>>]

WS(tls, ca) == [server |-> "wss", tls |-> tls, ca |-> ca]

NewPassword == CHOOSE p \in Passwords : p # Assigned

FewTemplates ==
    {{<<"auth", NewPassword>>, <<"kvs", {"k1", "k2"}>>},
     {<<"webhooks", WipeAndReplace>>},
     {<<"webhooks", Edit>>, <<"script", {"s1", "odd"}>>},
     {<<"auto_update", "beta">>},
     {<<"ble", {<<"enable">>, <<"rpc">>}>>, <<"mqtt", {<<"server">>}>>},
     {<<"sys", [right |-> {"name", "device.name", "lng", "clock_mode"}, wrong |-> {"lon", "rpc_udp.port"}]>>,
      <<"ws", WS("user", "user_ca.pem")>>},
     {<<"ws", WS("user", "none")>>, <<"gen1_http", {}>>, <<"webhooks", Nothing>>},
     {<<"kvs", Misfit>>, <<"auth", Misfit>>},
     {<<"webhooks", NoList>>, <<"auto_update", "">>}}

FewActions ==
    {<<"action", Op("OTA.Revert", 0)>>, <<"action", Op("Shelly.FactoryReset", 0)>>,
     <<"action", Op("sys", {<<"lat">>, <<"lon">>})>>, <<"auto_update", "off">>}

FewLacks == {{}, {"Webhook.Create"}}

\* Sections of a session, done and to do.
Touches(s) == {work[s].section} \cup {entry[1] : entry \in work[s].todo}

\* Bound: two requests at once only if they can meet: on a section, or because
\* one changes the password or resets the device; and not during an install.
Meeting ==
    \/ \E s \in Sessions : work[s].pc = "idle"
    \/ /\ dev.ota = 0 /\ dev.ver = 1 /\ job # "running"
       /\ \/ \E s \in Sessions : Touches(s) \cap {"auth", "action"} # {}
          \/ \E s, t \in Sessions : s # t /\ (Touches(s) \cap Touches(t)) \ {"none"} # {}

\* Bound: one mishap, and none when two requests, or a request and an install, run
\* at once.  Bound: the other target of an install does not move while a request or
\* a second install runs beside it.
Focus ==
    /\ faults + reboots <= 1
    /\ faults + reboots = 1 =>
         IF job = "running" THEN starts = 1 ELSE \E s \in Sessions : work[s].pc = "idle"
    /\ job = "running" /\ starts = 2 => \A t \in Targets \ {Dev} : inst[t].pc \in {"trigger", "ended"}
    /\ Meeting

SessionSymmetry == Permutations(Sessions)
=============================================================================
