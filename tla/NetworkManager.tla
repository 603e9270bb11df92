--------------------------- MODULE NetworkManager ---------------------------
(***************************************************************************)
(* How a sensor comes online and stays there: the passes of Spark_Idle over *)
(* the Wi-Fi interface and the cloud connection (system_task.cpp,          *)
(* system_network_internal.h, system_cloud_internal.cpp), the callbacks    *)
(* with which the Wi-Fi thread reports that the link was lost or is back,   *)
(* the watchdog that resets the interface, the set-up button and the        *)
(* alarm that ends a sleep.                                                *)
(*                                                                         *)
(* One step is what runs between two points at which another thread or an   *)
(* interrupt can matter: a call that waits (joining, DHCP, opening the      *)
(* socket, the handshake, the events after it) is a step of its own.        *)
(* Application code runs between two passes, as there is one thread.        *)
(***************************************************************************)
EXTENDS Integers

CONSTANT OffAnytime  \* may the application switch Wi-Fi off while a reset is due

ASSUME OffAssumption == OffAnytime \in BOOLEAN

VARIABLES wlan,    \* the flags of ManagedNetworkInterface and SPARK_WLAN_*
          air,     \* the interface itself: down, joined, or joined and lost
          config,  \* what listening mode leaves: credentials, whether they are new
          cloud,   \* the SPARK_CLOUD_* flags, the socket, the failure counters
          wake,    \* wakeupState, and is the alarm of a sleep still to come
          pc,      \* the call in which the system waits; "idle" between passes
          back,    \* where the pass goes on after the interface has connected
          calm     \* from now on nothing fails and nobody interferes

vars == <<wlan, air, config, cloud, wake, pc, back, calm>>

WlanFlags ==
    [started : BOOLEAN, sleep : BOOLEAN, reset : BOOLEAN, disconnect : BOOLEAN,
     connected : BOOLEAN, dhcp : BOOLEAN, watchdog : {"off", "armed", "expired"},
     listen : BOOLEAN, finished : BOOLEAN, onFailed : BOOLEAN]

CloudFlags ==
    [wanted : BOOLEAN, socketed : BOOLEAN, connected : BOOLEAN,
     socket : {"none", "open", "shaken"}, backoff : BOOLEAN, cfod : 0 .. 3]

TypeOK ==
    /\ wlan \in WlanFlags
    /\ air \in {"down", "joined", "lost"}
    /\ config \in [credentials : BOOLEAN, changed : BOOLEAN, wasStarted : BOOLEAN]
    /\ cloud \in CloudFlags
    /\ cloud.socketed => cloud.socket # "none"
    /\ wake \in [wifi : BOOLEAN, cloud : BOOLEAN, alarm : BOOLEAN]
    /\ pc \in {"idle", "joining", "dhcp", "setup", "listening", "cloud",
               "connecting", "handshake", "greeting", "events"}
    /\ back \in {"idle", "setup", "cloud"}
    /\ calm \in BOOLEAN

-----------------------------------------------------------------------------
(* ManagedNetworkInterface, and cloud_disconnect.                           *)

Ready(w) == w.started /\ w.dhcp
Listening(w) == w.listen /\ ~w.finished

\* connecting(): the flag is up exactly while connect() has not returned.
Connecting == pc \in {"joining", "dhcp"}

NotifyConnected(w) ==
    [w EXCEPT !.connected = TRUE,
              !.watchdog = IF w.disconnect THEN @ ELSE "armed"]

NotifyDisconnected(w) ==
    [w EXCEPT !.connected = FALSE, !.dhcp = FALSE,
              !.watchdog = IF (w.connected \/ ~w.listen) /\ ~w.disconnect
                           THEN "armed" ELSE @]

\* Mutant: no address and no watchdog either.
NotifyDhcpUnarmed(w, ok) ==
    IF ok THEN [w EXCEPT !.dhcp = TRUE, !.watchdog = "off", !.onFailed = FALSE]
          ELSE [w EXCEPT !.dhcp = FALSE, !.watchdog = "off",
                         !.listen = @ \/ w.onFailed]

NotifyDhcp(w, ok) ==
    IF ok THEN [w EXCEPT !.dhcp = TRUE, !.watchdog = "off", !.onFailed = FALSE]
    ELSE IF w.onFailed THEN [w EXCEPT !.dhcp = FALSE, !.listen = TRUE]
    ELSE [w EXCEPT !.dhcp = FALSE, !.watchdog = "armed"]

Disconnect(w) ==
    IF w.started
    THEN NotifyDisconnected([w EXCEPT !.disconnect = TRUE, !.connected = FALSE,
                                      !.dhcp = FALSE])
    ELSE w

On(w) == IF w.started THEN w ELSE [w EXCEPT !.started = TRUE, !.sleep = FALSE]

Off(w) ==
    IF w.started
    THEN [Disconnect(w) EXCEPT !.sleep = TRUE, !.started = FALSE]
    ELSE w

\* notify_disconnected leaves the socket to be closed later.
CloudDropped(c) == [c EXCEPT !.socketed = FALSE, !.connected = FALSE]

\* Mutant: the flag of the socket outlives it.
CloudDisconnectSocketed(c) ==
    IF c.socketed \/ c.connected
    THEN [c EXCEPT !.connected = FALSE, !.socket = "none"]
    ELSE c

CloudDisconnect(c) ==
    IF c.socketed \/ c.connected
    THEN [c EXCEPT !.socketed = FALSE, !.connected = FALSE, !.socket = "none"]
    ELSE c

\* disconnect() and off(): cloud_disconnect, and wlan_disconnect_now closes
\* every socket.
AirDown(w) == IF w.started THEN "down" ELSE air
SocketsClosed(w) ==
    IF w.started THEN [CloudDropped(cloud) EXCEPT !.socket = "none"] ELSE cloud

\* listen(stop)
Listen(w, stop) ==
    [w EXCEPT !.listen = ~stop, !.onFailed = @ /\ ~stop]

\* connect(), from wherever it is called, up to the point where it waits.
\* Without credentials it asks for listening mode.
Connect(w, next) ==
    IF Ready(w) \/ Listening(w)
    THEN wlan' = w /\ pc' = next /\ UNCHANGED back
    ELSE LET on == [w EXCEPT !.started = TRUE, !.sleep = FALSE, !.disconnect = FALSE]
         IN  IF config.credentials
             THEN /\ wlan' = [on EXCEPT !.watchdog = "armed"]
                  /\ pc' = "joining" /\ back' = next
             ELSE wlan' = Listen(on, FALSE) /\ pc' = next /\ UNCHANGED back

-----------------------------------------------------------------------------
(* What the world allows.                                                   *)

\* Before the calm anything may succeed or fail, even, for what was already on
\* its way, with the link gone.
MaySucceed == calm => air = "joined"
MayFail == calm => air # "joined"

\* Network_Setup ends with network.connect().
Init ==
    /\ config \in [credentials : BOOLEAN, changed : {FALSE}, wasStarted : {FALSE}]
    /\ wlan = [started |-> TRUE, sleep |-> FALSE, reset |-> FALSE,
               disconnect |-> FALSE, connected |-> FALSE, dhcp |-> FALSE,
               watchdog |-> IF config.credentials THEN "armed" ELSE "off",
               listen |-> ~config.credentials, finished |-> FALSE,
               onFailed |-> FALSE]
    /\ air = "down"
    /\ cloud = [wanted |-> TRUE, socketed |-> FALSE, connected |-> FALSE,
                socket |-> "none", backoff |-> FALSE, cfod |-> 0]
    /\ wake = [wifi |-> FALSE, cloud |-> FALSE, alarm |-> FALSE]
    /\ pc = IF config.credentials THEN "joining" ELSE "idle"
    /\ back = "idle"
    /\ calm = FALSE

-----------------------------------------------------------------------------
(* One pass of Spark_Idle_Events.                                           *)

Disturbed == wlan.reset \/ wlan.sleep \/ wlan.watchdog = "expired"

\* Mutant: the reset forgets that the device was not asleep.
ResetWlanAsleep ==
    /\ pc = "idle" /\ Disturbed /\ wlan.started
    /\ wlan' = [Off(wlan) EXCEPT !.watchdog = "off", !.reset = FALSE,
                                 !.disconnect = wlan.disconnect]
    /\ air' = "down"
    /\ cloud' = [SocketsClosed(wlan) EXCEPT !.cfod = 0]
    /\ pc' = "setup"
    /\ UNCHANGED <<config, wake, back, calm>>

\* Mutant: the count of failed connections outlives the reset.
ResetWlanKeepingCount ==
    /\ pc = "idle" /\ Disturbed /\ wlan.started
    /\ wlan' = [Off(wlan) EXCEPT !.watchdog = "off", !.reset = FALSE,
                                 !.sleep = wlan.sleep, !.disconnect = wlan.disconnect]
    /\ air' = "down"
    /\ cloud' = SocketsClosed(wlan)
    /\ pc' = "setup"
    /\ UNCHANGED <<config, wake, back, calm>>

\* manage_network_connection: "Resetting WLAN!"
ResetWlan ==
    /\ pc = "idle" /\ Disturbed /\ wlan.started
    /\ wlan' = [Off(wlan) EXCEPT !.watchdog = "off", !.reset = FALSE,
                                 !.sleep = wlan.sleep, !.disconnect = wlan.disconnect]
    /\ air' = "down"
    /\ cloud' = [SocketsClosed(wlan) EXCEPT !.cfod = 0]
    /\ pc' = "setup"
    /\ UNCHANGED <<config, wake, back, calm>>

\* manage_network_connection with nothing to reset.
ManageNetwork ==
    /\ pc = "idle" /\ ~(Disturbed /\ wlan.started)
    /\ IF ~Disturbed /\ (~wlan.started \/ (cloud.wanted /\ ~wlan.connected))
       THEN Connect(wlan, "setup")
       ELSE pc' = "setup" /\ UNCHANGED <<wlan, back>>
    /\ UNCHANGED <<air, config, cloud, wake, calm>>

\* wlan_connect_finalize: the interface goes up ...
Joined ==
    /\ pc = "joining"
    /\ air' = "joined"
    /\ wlan' = NotifyConnected(wlan)
    /\ pc' = "dhcp"
    /\ UNCHANGED <<config, cloud, wake, back, calm>>

\* ... or does not: no such network, a wrong password, the button.
JoinFails ==
    /\ pc = "joining" /\ ~calm
    /\ air' = "down"
    /\ wlan' = NotifyDhcp(wlan, FALSE)
    /\ pc' = back
    /\ UNCHANGED <<config, cloud, wake, back, calm>>

\* DHCP happens synchronously.
Dhcp(ok) ==
    /\ pc = "dhcp"
    /\ IF ok THEN MaySucceed ELSE MayFail
    /\ wlan' = NotifyDhcp(wlan, ok)
    /\ pc' = back
    /\ UNCHANGED <<air, config, cloud, wake, back, calm>>

\* manage_smart_config: start_listening up to its loop.
StartListening ==
    /\ pc = "setup" /\ wlan.listen
    /\ wlan' = On(Disconnect([wlan EXCEPT !.finished = FALSE]))
    /\ air' = "down"
    /\ cloud' = [CloudDropped(cloud) EXCEPT !.socket = "none"]
    /\ config' = [config EXCEPT !.changed = FALSE, !.wasStarted = wlan.started]
    /\ pc' = "listening"
    /\ UNCHANGED <<wake, back, calm>>

NotListening ==
    /\ pc = "setup" /\ ~wlan.listen
    /\ pc' = "cloud"
    /\ UNCHANGED <<wlan, air, config, cloud, wake, back, calm>>

\* start_listening after its loop; the credentials count as new only when the
\* interface was on before.
EndListening ==
    /\ pc = "listening" /\ ~Listening(wlan)
    /\ LET w == [wlan EXCEPT !.listen = FALSE,
                             !.onFailed = config.wasStarted /\ config.changed]
       IN  IF config.credentials THEN Connect(w, "cloud")
           ELSE /\ wlan' = IF config.wasStarted THEN w ELSE Off(w)
                /\ pc' = "cloud" /\ UNCHANGED back
    /\ UNCHANGED <<air, config, cloud, wake, calm>>

\* manage_cloud_connection, up to the call that waits.
ManageCloud ==
    /\ pc = "cloud"
    /\ IF ~cloud.wanted THEN cloud' = CloudDisconnect(cloud) /\ pc' = "idle"
       ELSE /\ UNCHANGED cloud
            /\ pc' = IF cloud.socketed
                     THEN IF cloud.connected THEN "events" ELSE "handshake"
                     ELSE IF Ready(wlan) /\ ~wlan.sleep /\ ~cloud.backoff
                     THEN "connecting" ELSE "idle"
    /\ UNCHANGED <<wlan, air, config, wake, back, calm>>

\* Spark_Connect, in establish_cloud_connection.
SparkConnected ==
    /\ pc = "connecting" /\ MaySucceed
    /\ cloud' = [cloud EXCEPT !.socket = "open", !.socketed = TRUE, !.cfod = 0]
    /\ pc' = IF cloud.connected THEN "events" ELSE "handshake"
    /\ UNCHANGED <<wlan, air, config, wake, back, calm>>

MaxFailedConnects == 2

\* A connection fails.  handle_cfod, unless a reset is due: one strike, and one
\* more without Internet, each compared with ==.
SparkConnectFails(internet) ==
    /\ pc = "connecting" /\ MayFail
    /\ LET strikes == IF internet THEN 1 ELSE 2
           failed  == IF wlan.reset THEN cloud.cfod ELSE cloud.cfod + strikes
       IN  /\ cloud' = [cloud EXCEPT !.socket = "none", !.socketed = FALSE,
                            !.backoff = @ \/ ~wlan.reset, !.cfod = failed]
           /\ wlan' = [wlan EXCEPT
                            !.reset = @ \/ \E n \in cloud.cfod + 1 .. failed :
                                               n = MaxFailedConnects]
    /\ pc' = "idle"
    /\ UNCHANGED <<air, config, wake, back, calm>>

\* Spark_Handshake, in handle_cloud_connection.
Handshake ==
    /\ pc = "handshake" /\ MaySucceed
    /\ cloud' = [cloud EXCEPT !.socket = IF @ = "open" THEN "shaken" ELSE @]
    /\ pc' = "greeting"
    /\ UNCHANGED <<wlan, air, config, wake, back, calm>>

HandshakeFails ==
    /\ pc = "handshake" /\ (MayFail \/ cloud.socket # "open")
    /\ cloud' = CloudDisconnect([cloud EXCEPT !.backoff = TRUE])
    /\ pc' = "idle"
    /\ UNCHANGED <<wlan, air, config, wake, back, calm>>

\* The end of Spark_Handshake: the first events, in which the connection may
\* break; it then counts as connected all the same.
Greet(ok) ==
    /\ pc = "greeting"
    /\ IF ok THEN MaySucceed ELSE MayFail
    /\ cloud' = [(IF ok THEN cloud ELSE CloudDropped(cloud)) EXCEPT
                    !.connected = TRUE, !.backoff = FALSE]
    /\ pc' = "events"
    /\ UNCHANGED <<wlan, air, config, wake, back, calm>>

\* Spark_Process_Events.  A server that waits for a handshake breaks off.
ProcessEvents(ok) ==
    /\ pc = "events"
    /\ IF ok THEN calm => air = "joined" /\ cloud.socket = "shaken"
             ELSE calm => ~(air = "joined" /\ cloud.socket = "shaken")
    /\ cloud' = IF cloud.socketed /\ ~ok THEN CloudDropped(cloud) ELSE cloud
    /\ pc' = "idle"
    /\ UNCHANGED <<wlan, air, config, wake, back, calm>>

-----------------------------------------------------------------------------
(* The Wi-Fi thread, interrupts and time.                                   *)

LinkDown ==
    /\ air = "joined" /\ ~calm
    /\ air' = "lost"
    /\ wlan' = NotifyDisconnected(wlan)
    /\ cloud' = CloudDropped(cloud)
    /\ UNCHANGED <<config, wake, pc, back, calm>>

LinkUp ==
    /\ air = "lost" /\ ~calm
    /\ air' = "joined"
    /\ wlan' = NotifyConnected(wlan)
    /\ UNCHANGED <<config, cloud, wake, pc, back, calm>>

\* WLAN_WD_TO
WatchdogExpires ==
    /\ wlan.watchdog = "armed"
    /\ wlan' = [wlan EXCEPT !.watchdog = "expired"]
    /\ UNCHANGED <<air, config, cloud, wake, pc, back, calm>>

\* in_cloud_backoff_period comes to its end.
BackoffEnds ==
    /\ cloud.backoff
    /\ cloud' = [cloud EXCEPT !.backoff = FALSE]
    /\ UNCHANGED <<wlan, air, config, wake, pc, back, calm>>

\* HAL_SysTick_Handler: the set-up button is held for three seconds.
SetupButton ==
    /\ ~calm /\ ~Listening(wlan)
    /\ wlan' = Listen(wlan, FALSE)
    /\ UNCHANGED <<air, config, cloud, wake, pc, back, calm>>

\* HAL_Notify_Button_State: held and released while listening.
StopButton ==
    /\ ~calm /\ pc = "listening" /\ Listening(wlan)
    /\ wlan' = Listen(wlan, TRUE)
    /\ UNCHANGED <<air, config, cloud, wake, pc, back, calm>>

\* HAL_SysTick_Handler: held for ten seconds, the credentials are deleted.
ClearCredentials ==
    /\ ~calm /\ pc = "listening" /\ Listening(wlan)
    /\ config' = [config EXCEPT !.credentials = FALSE]
    /\ UNCHANGED <<wlan, air, cloud, wake, pc, back, calm>>

\* The commands configure-ap and connect-ap of the soft access point.
ConfigureAP ==
    /\ pc = "listening" /\ Listening(wlan)
    /\ config' = [config EXCEPT !.credentials = TRUE, !.changed = TRUE]
    /\ UNCHANGED <<wlan, air, cloud, wake, pc, back, calm>>

ConnectAP ==
    /\ pc = "listening" /\ Listening(wlan)
    /\ calm => config.credentials
    /\ wlan' = [wlan EXCEPT !.finished = TRUE]
    /\ UNCHANGED <<air, config, cloud, wake, pc, back, calm>>

\* HAL_RTCAlarm_Handler
Alarm ==
    /\ wake.alarm
    /\ wlan' = [wlan EXCEPT !.sleep = @ /\ ~wake.wifi /\ ~wake.cloud]
    /\ cloud' = [cloud EXCEPT !.wanted = @ \/ wake.cloud]
    /\ wake' = [wake EXCEPT !.alarm = FALSE]
    /\ UNCHANGED <<air, config, pc, back, calm>>

-----------------------------------------------------------------------------
(* The application, between two passes.                                     *)

Application == pc = "idle" /\ ~calm

SparkConnect ==
    /\ Application
    /\ cloud' = [cloud EXCEPT !.wanted = TRUE]
    /\ wlan' = [wlan EXCEPT !.sleep = FALSE]
    /\ UNCHANGED <<air, config, wake, pc, back, calm>>

SparkDisconnect ==
    /\ Application
    /\ cloud' = [cloud EXCEPT !.wanted = FALSE]
    /\ UNCHANGED <<wlan, air, config, wake, pc, back, calm>>

NetworkOn ==
    /\ Application
    /\ wlan' = On(wlan)
    /\ UNCHANGED <<air, config, cloud, wake, pc, back, calm>>

OffAllowed == OffAnytime \/ (wlan.watchdog = "off" /\ ~wlan.reset)

NetworkOff ==
    /\ Application /\ OffAllowed
    /\ wlan' = Off(wlan)
    /\ air' = AirDown(wlan)
    /\ cloud' = SocketsClosed(wlan)
    /\ UNCHANGED <<config, wake, pc, back, calm>>

NetworkDisconnect ==
    /\ Application
    /\ wlan' = Disconnect(wlan)
    /\ air' = AirDown(wlan)
    /\ cloud' = SocketsClosed(wlan)
    /\ UNCHANGED <<config, wake, pc, back, calm>>

NetworkConnect ==
    /\ Application
    /\ Connect(wlan, "idle")
    /\ UNCHANGED <<air, config, cloud, wake, calm>>

\* system_sleep(SLEEP_MODE_WLAN, seconds)
SleepWlan ==
    /\ Application /\ OffAllowed
    /\ wake' = [wifi |-> ~wlan.sleep, alarm |-> TRUE,
                cloud |-> cloud.socketed /\ cloud.connected]
    /\ wlan' = Off(wlan)
    /\ air' = AirDown(wlan)
    /\ cloud' = [SocketsClosed(wlan) EXCEPT !.wanted = FALSE]
    /\ UNCHANGED <<config, pc, back, calm>>

Calm ==
    /\ ~calm /\ calm' = TRUE
    /\ UNCHANGED <<wlan, air, config, cloud, wake, pc, back>>

-----------------------------------------------------------------------------

Pass ==
    \/ ResetWlan \/ ManageNetwork
    \/ Joined \/ JoinFails \/ \E ok \in BOOLEAN : Dhcp(ok)
    \/ StartListening \/ NotListening \/ EndListening
    \/ ManageCloud
    \/ SparkConnected \/ \E internet \in BOOLEAN : SparkConnectFails(internet)
    \/ Handshake \/ HandshakeFails
    \/ \E ok \in BOOLEAN : Greet(ok) \/ ProcessEvents(ok)

Outside ==
    \/ LinkDown \/ LinkUp
    \/ SetupButton \/ StopButton \/ ClearCredentials \/ ConfigureAP \/ ConnectAP
    \/ Alarm
    \/ SparkConnect \/ SparkDisconnect
    \/ NetworkOn \/ NetworkOff \/ NetworkDisconnect \/ NetworkConnect
    \/ SleepWlan
    \/ Calm

Next == Pass \/ Outside \/ WatchdogExpires \/ BackoffEnds

\* app_loop passes again and again, time goes on, an alarm that was set comes,
\* and in the calm a user who finds the sensor listening sets it up.
Fairness ==
    /\ WF_vars(Pass) /\ WF_vars(WatchdogExpires) /\ WF_vars(BackoffEnds)
    /\ WF_vars(Alarm)
    /\ WF_vars(calm /\ ConfigureAP) /\ WF_vars(calm /\ ConnectAP)

Spec == Init /\ [][Next]_vars /\ Fairness

-----------------------------------------------------------------------------
\* The second failed connection in a row, or the first one without Internet,
\* resets the interface: the counter, which is compared with ==, never jumps
\* over the limit, and is there, or past it, only while the reset is due.
FailuresReset == wlan.reset <=> cloud.cfod >= MaxFailedConnects

\* An interface that has joined a network and has no address is being watched,
\* whatever the Wi-Fi thread reported in the meantime: nothing else would ever
\* try again, as a pass connects only what has no link.
NeverStranded ==
    wlan.connected /\ ~wlan.dhcp => wlan.watchdog # "off"

Online ==
    /\ Ready(wlan) /\ air = "joined"
    /\ cloud.socketed /\ cloud.connected /\ cloud.socket = "shaken"

\* The user ends the set-up of a sensor that was off without giving it a network:
\* it is switched off again.
GivenUp == pc = "listening" /\ ~Listening(wlan) /\ ~config.credentials /\ ~config.wasStarted

\* From whatever went wrong before, a sensor that is to be online gets online,
\* over a connection that has had its handshake, and stays there.
Reconnects == (calm /\ cloud.wanted /\ ~wlan.sleep /\ ~GivenUp) ~> []Online

=============================================================================
