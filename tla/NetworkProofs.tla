---------------------------- MODULE NetworkProofs ----------------------------
(***************************************************************************)
(* Proofs about the network manager: as long as the application does not    *)
(* switch Wi-Fi off while a reset is due, the flags keep their types        *)
(* (TypeCorrect), the interface is reset exactly at the second failed       *)
(* connection (FailuresAreCounted), and an interface that has joined a      *)
(* network without an address is always watched (NobodyStranded).          *)
(***************************************************************************)
EXTENDS NetworkManager, TLAPS

\* An interface that has a link has not been told to disconnect, so that the
\* callbacks of the Wi-Fi thread arm the watchdog.
LinkWatched == air # "down" => ~wlan.disconnect

\* An interface that is off has neither link nor address.
OffMeansOff == ~wlan.started => ~wlan.connected /\ ~wlan.dhcp /\ air = "down"

\* connect() waits without an address, and nothing disconnects it meanwhile.
Joining == Connecting => wlan.started /\ ~wlan.dhcp /\ ~wlan.disconnect

\* Between the request of a reset and the pass that makes it, the interface stays
\* on, and only connect() called by the application may come in.
ResetDue ==
    wlan.reset => /\ wlan.started
                  /\ pc = "idle" \/ (Connecting /\ back = "idle")

\* A socket is opened over an interface that is on.
OnToConnect == pc = "connecting" => wlan.started

\* Listening mode has taken the interface down first.
DownToListen == pc = "listening" => air = "down"

LinkInv ==
    /\ LinkWatched /\ OffMeansOff /\ Joining /\ ResetDue /\ OnToConnect
    /\ DownToListen
    /\ FailuresReset /\ NeverStranded

Managed == TypeOK /\ LinkInv

\* What LinkInv looks at of the flags of the interface.
SameLink(v, w) ==
    /\ v.started = w.started /\ v.reset = w.reset
    /\ v.disconnect = w.disconnect
    /\ v.connected = w.connected /\ v.dhcp = w.dhcp
    /\ v.watchdog = w.watchdog

IsCloud(c) == c \in CloudFlags /\ (c.socketed => c.socket # "none")

LEMMA ManagedInit == Init => Managed
<1> SUFFICES ASSUME Init PROVE Managed
  OBVIOUS
<1>1. config.credentials \in BOOLEAN
  BY DEF Init
<1>2. TypeOK
  <2>1. wlan \in WlanFlags
    BY <1>1 DEF Init, WlanFlags
  <2>2. config \in [credentials : BOOLEAN, changed : BOOLEAN, wasStarted : BOOLEAN]
    BY DEF Init
  <2>3. cloud \in CloudFlags /\ ~cloud.socketed
    BY DEF Init, CloudFlags
  <2>4. wake \in [wifi : BOOLEAN, cloud : BOOLEAN, alarm : BOOLEAN]
    BY DEF Init
  <2>5. air = "down" /\ pc \in {"joining", "idle"} /\ back = "idle" /\ calm = FALSE
    BY <1>1 DEF Init
  <2> QED
    BY <2>1, <2>2, <2>3, <2>4, <2>5 DEF TypeOK
<1>3. /\ wlan.started /\ ~wlan.reset
      /\ ~wlan.connected /\ ~wlan.dhcp /\ ~wlan.disconnect
  BY DEF Init
<1>4. cloud.cfod = 0 /\ air = "down" /\ pc \in {"joining", "idle"}
  BY <1>1 DEF Init
<1> QED
  BY <1>2, <1>3, <1>4 DEF Managed, LinkInv, LinkWatched, OffMeansOff, Joining, Connecting,
     ResetDue, OnToConnect, DownToListen, FailuresReset, NeverStranded,
     MaxFailedConnects

-----------------------------------------------------------------------------
(* The operations of the interface and of the cloud connection.             *)

LEMMA NotifyConnectedIs ==
    ASSUME NEW w \in WlanFlags
    PROVE  /\ NotifyConnected(w) \in WlanFlags
           /\ NotifyConnected(w).started = w.started
           /\ NotifyConnected(w).reset = w.reset
           /\ NotifyConnected(w).disconnect = w.disconnect
           /\ NotifyConnected(w).dhcp = w.dhcp
           /\ ~w.disconnect => NotifyConnected(w).watchdog = "armed"
  BY DEF WlanFlags, NotifyConnected

LEMMA NotifyDisconnectedIs ==
    ASSUME NEW w \in WlanFlags
    PROVE  /\ NotifyDisconnected(w) \in WlanFlags
           /\ NotifyDisconnected(w).started = w.started
           /\ NotifyDisconnected(w).reset = w.reset
           /\ NotifyDisconnected(w).disconnect = w.disconnect
           /\ ~NotifyDisconnected(w).connected /\ ~NotifyDisconnected(w).dhcp
  BY DEF WlanFlags, NotifyDisconnected

LEMMA NotifyDhcpIs ==
    ASSUME NEW w \in WlanFlags, NEW ok \in BOOLEAN
    PROVE  /\ NotifyDhcp(w, ok) \in WlanFlags
           /\ NotifyDhcp(w, ok).started = w.started
           /\ NotifyDhcp(w, ok).reset = w.reset
           /\ NotifyDhcp(w, ok).disconnect = w.disconnect
           /\ NotifyDhcp(w, ok).connected = w.connected
           /\ NotifyDhcp(w, ok).dhcp = ok
           /\ ~ok => NotifyDhcp(w, ok).watchdog \in {"armed", w.watchdog}
  BY DEF WlanFlags, NotifyDhcp

LEMMA DisconnectIs ==
    ASSUME NEW w \in WlanFlags
    PROVE  /\ Disconnect(w) \in WlanFlags
           /\ Disconnect(w).started = w.started
           /\ Disconnect(w).reset = w.reset
           /\ w.started => ~Disconnect(w).connected /\ ~Disconnect(w).dhcp
           /\ ~w.started => Disconnect(w) = w
<1> DEFINE v == [w EXCEPT !.disconnect = TRUE, !.connected = FALSE, !.dhcp = FALSE]
<1>1. v \in WlanFlags /\ v.started = w.started /\ v.reset = w.reset
  BY DEF WlanFlags
<1> HIDE DEF v
<1>2. Disconnect(w) = IF w.started THEN NotifyDisconnected(v) ELSE w
  BY DEF Disconnect, v
<1> QED
  BY <1>1, <1>2, NotifyDisconnectedIs

LEMMA OnIs ==
    ASSUME NEW w \in WlanFlags
    PROVE  /\ On(w) \in WlanFlags
           /\ On(w).started
           /\ On(w).reset = w.reset
           /\ On(w).disconnect = w.disconnect
           /\ On(w).connected = w.connected
           /\ On(w).dhcp = w.dhcp
           /\ On(w).watchdog = w.watchdog
  BY DEF WlanFlags, On

LEMMA OffIs ==
    ASSUME NEW w \in WlanFlags
    PROVE  /\ Off(w) \in WlanFlags
           /\ ~Off(w).started
           /\ Off(w).reset = w.reset
           /\ w.started => ~Off(w).connected /\ ~Off(w).dhcp
           /\ ~w.started => Off(w) = w
<1>1. CASE w.started
  <2> DEFINE v == Disconnect(w)
  <2>1. v \in WlanFlags /\ v.reset = w.reset /\ ~v.connected /\ ~v.dhcp
    BY <1>1, DisconnectIs
  <2>2. Off(w) = [v EXCEPT !.sleep = TRUE, !.started = FALSE]
    BY <1>1 DEF Off
  <2> HIDE DEF v
  <2> QED
    BY <1>1, <2>1, <2>2 DEF WlanFlags
<1>2. CASE ~w.started
  BY <1>2 DEF Off
<1> QED
  BY <1>1, <1>2

LEMMA ListenIs ==
    ASSUME NEW w \in WlanFlags, NEW stop \in BOOLEAN
    PROVE  Listen(w, stop) \in WlanFlags /\ SameLink(Listen(w, stop), w)
  BY DEF WlanFlags, Listen, SameLink

LEMMA CloudDroppedIs ==
    ASSUME NEW c, IsCloud(c)
    PROVE  /\ IsCloud(CloudDropped(c)) /\ CloudDropped(c).cfod = c.cfod
           /\ IsCloud([CloudDropped(c) EXCEPT !.socket = "none"])
           /\ [CloudDropped(c) EXCEPT !.socket = "none"].cfod = c.cfod
  BY DEF IsCloud, CloudFlags, CloudDropped

LEMMA SocketsClosedIs ==
    ASSUME NEW w, IsCloud(cloud)
    PROVE  IsCloud(SocketsClosed(w)) /\ SocketsClosed(w).cfod = cloud.cfod
  BY CloudDroppedIs DEF SocketsClosed

LEMMA CloudDisconnectIs ==
    ASSUME NEW c, IsCloud(c)
    PROVE  IsCloud(CloudDisconnect(c)) /\ CloudDisconnect(c).cfod = c.cfod
  BY DEF IsCloud, CloudFlags, CloudDisconnect

-----------------------------------------------------------------------------
(* The steps of a pass, of the others and of the application.               *)

\* What concerns neither the link nor the count.
LEMMA Aside ==
    ASSUME Managed, SameLink(wlan', wlan), cloud'.cfod = cloud.cfod,
           UNCHANGED <<air, pc, back>>
    PROVE  LinkInv'
  BY DEF Managed, SameLink, LinkInv, LinkWatched, OffMeansOff, Joining, Connecting, ResetDue, OnToConnect, DownToListen, FailuresReset, NeverStranded

\* A pass that goes on, without touching the interface.
LEMMA Onwards ==
    ASSUME Managed, UNCHANGED <<wlan, air, back>>, cloud'.cfod = cloud.cfod,
           pc # "idle", ~Connecting,
           pc' \notin {"joining", "dhcp", "listening"},
           pc' = "connecting" => wlan.started
    PROVE  LinkInv'
  BY DEF Managed, LinkInv, LinkWatched, OffMeansOff, Joining, Connecting, ResetDue, OnToConnect, DownToListen, FailuresReset, NeverStranded

\* connect() begins, from a pass or from the application.
LEMMA ConnectKeeps ==
    ASSUME Managed, NEW w \in WlanFlags, SameLink(w, wlan),
           NEW next \in {"idle", "setup", "cloud"}, Connect(w, next),
           next # "idle" => ~wlan.reset,
           UNCHANGED <<air, cloud>>
    PROVE  /\ wlan' \in WlanFlags
           /\ pc' \in {"idle", "setup", "cloud", "joining"}
           /\ back' \in {"idle", "setup", "cloud"}
           /\ LinkInv'
<1>1. back \in {"idle", "setup", "cloud"}
  BY DEF Managed, TypeOK
<1>2. CASE wlan' = w /\ pc' = next /\ UNCHANGED back
  BY <1>1, <1>2 DEF Managed, SameLink, LinkInv, LinkWatched, OffMeansOff, Joining, Connecting, ResetDue, OnToConnect, DownToListen, FailuresReset, NeverStranded
<1> DEFINE on == [w EXCEPT !.started = TRUE, !.sleep = FALSE, !.disconnect = FALSE]
<1>3. /\ on \in WlanFlags /\ on.started /\ ~on.disconnect
      /\ on.reset = w.reset /\ on.connected = w.connected
      /\ on.dhcp = w.dhcp /\ on.watchdog = w.watchdog
  BY DEF WlanFlags
<1> HIDE DEF on
<1>4. CASE ~Ready(w) /\ wlan' = [on EXCEPT !.watchdog = "armed"]
           /\ pc' = "joining" /\ back' = next
  <2>1. /\ wlan' \in WlanFlags /\ wlan'.started /\ ~wlan'.disconnect
        /\ wlan'.reset = wlan.reset /\ wlan'.dhcp = wlan.dhcp
        /\ wlan'.watchdog = "armed"
    BY <1>3, <1>4 DEF WlanFlags, SameLink
  <2>2. ~wlan.dhcp
    BY <1>4 DEF Ready, SameLink, Managed, LinkInv, OffMeansOff
  <2> QED
    BY <1>4, <2>1, <2>2 DEF Managed, LinkInv, LinkWatched, OffMeansOff, Joining, Connecting, ResetDue, OnToConnect, DownToListen, FailuresReset, NeverStranded
<1>5. CASE wlan' = Listen(on, FALSE) /\ pc' = next /\ UNCHANGED back
  <2>1. wlan' \in WlanFlags /\ SameLink(wlan', on)
    BY <1>3, <1>5, ListenIs
  <2> QED
    BY <1>1, <1>3, <1>5, <2>1 DEF Managed, SameLink, LinkInv, LinkWatched, OffMeansOff, Joining, Connecting, ResetDue, OnToConnect, DownToListen, FailuresReset, NeverStranded
<1> QED
  BY <1>2, <1>4, <1>5 DEF Connect, on

LEMMA PassKeeps ==
    ASSUME Managed, Pass
    PROVE  Managed'
<1>0. /\ wlan \in WlanFlags /\ IsCloud(cloud)
      /\ config \in [credentials : BOOLEAN, changed : BOOLEAN, wasStarted : BOOLEAN]
      /\ wake \in [wifi : BOOLEAN, cloud : BOOLEAN, alarm : BOOLEAN]
      /\ air \in {"down", "joined", "lost"}
      /\ back \in {"idle", "setup", "cloud"} /\ calm \in BOOLEAN
  BY DEF Managed, TypeOK, IsCloud
<1>1. CASE ResetWlan
  <2> DEFINE v == Off(wlan)
             c == SocketsClosed(wlan)
  <2>1. /\ wlan.started /\ v \in WlanFlags /\ ~v.started
        /\ ~v.connected /\ ~v.dhcp /\ IsCloud(c)
    BY <1>0, <1>1, OffIs, SocketsClosedIs DEF ResetWlan
  <2>2. /\ wlan' = [v EXCEPT !.watchdog = "off", !.reset = FALSE,
                      !.sleep = wlan.sleep, !.disconnect = wlan.disconnect]
        /\ cloud' = [c EXCEPT !.cfod = 0]
        /\ air' = "down" /\ pc' = "setup" /\ UNCHANGED <<config, wake, back, calm>>
    BY <1>1 DEF ResetWlan
  <2> HIDE DEF v, c
  <2>3. /\ wlan' \in WlanFlags /\ ~wlan'.started /\ ~wlan'.reset
        /\ ~wlan'.connected /\ ~wlan'.dhcp
    BY <1>0, <2>1, <2>2 DEF WlanFlags
  <2>4. IsCloud(cloud') /\ cloud'.cfod = 0
    BY <2>1, <2>2 DEF IsCloud, CloudFlags
  <2>5. TypeOK'
    BY <1>0, <2>2, <2>3, <2>4 DEF TypeOK, IsCloud
  <2>6. LinkInv'
    BY <2>2, <2>3, <2>4 DEF LinkInv, LinkWatched, OffMeansOff, Joining, Connecting,
          ResetDue, OnToConnect, DownToListen, FailuresReset, NeverStranded, MaxFailedConnects
  <2> QED
    BY <2>5, <2>6 DEF Managed
<1>2. CASE ManageNetwork
  <2>1. ~wlan.reset /\ ~Connecting
    BY <1>2 DEF ManageNetwork, Disturbed, Managed, LinkInv, ResetDue, Connecting
  <2>2. UNCHANGED <<air, config, cloud, wake, calm>>
    BY <1>2 DEF ManageNetwork
  <2>3. CASE Connect(wlan, "setup")
    <3>1. SameLink(wlan, wlan)
      BY DEF SameLink
    <3>2. /\ wlan' \in WlanFlags /\ LinkInv'
          /\ pc' \in {"idle", "setup", "cloud", "joining"}
          /\ back' \in {"idle", "setup", "cloud"}
      BY <1>0, <2>1, <2>2, <2>3, <3>1, ConnectKeeps
    <3> QED
      BY <1>0, <2>2, <3>2 DEF Managed, TypeOK, IsCloud
  <2>4. CASE pc' = "setup" /\ UNCHANGED <<wlan, back>>
    <3>1. LinkInv'
      BY <2>1, <2>2, <2>4 DEF Managed, LinkInv, LinkWatched, OffMeansOff, Joining, Connecting,
            ResetDue, OnToConnect, DownToListen, FailuresReset, NeverStranded
    <3> QED
      BY <1>0, <2>2, <2>4, <3>1 DEF Managed, TypeOK, IsCloud
  <2> QED
    BY <1>2, <2>3, <2>4 DEF ManageNetwork
<1>3. CASE Joined
  <2>1. /\ wlan' = NotifyConnected(wlan) /\ air' = "joined"
        /\ pc = "joining" /\ pc' = "dhcp"
        /\ UNCHANGED <<config, cloud, wake, back, calm>>
    BY <1>3 DEF Joined
  <2>2. LinkInv'
    BY <1>0, <2>1, NotifyConnectedIs DEF Managed, LinkInv, LinkWatched, OffMeansOff, Joining, Connecting,
          ResetDue, OnToConnect, DownToListen, FailuresReset, NeverStranded
  <2> QED
    BY <1>0, <2>1, <2>2, NotifyConnectedIs DEF Managed, TypeOK, IsCloud
<1>4. CASE JoinFails
  <2>1. /\ wlan' = NotifyDhcp(wlan, FALSE) /\ air' = "down"
        /\ pc = "joining" /\ pc' = back
        /\ UNCHANGED <<config, cloud, wake, back, calm>>
    BY <1>4 DEF JoinFails
  <2>2. LinkInv'
    BY <1>0, <2>1, NotifyDhcpIs DEF Managed, LinkInv, LinkWatched, OffMeansOff, Joining, Connecting,
          ResetDue, OnToConnect, DownToListen, FailuresReset, NeverStranded
  <2> QED
    BY <1>0, <2>1, <2>2, NotifyDhcpIs DEF Managed, TypeOK, IsCloud
<1>5. ASSUME NEW ok \in BOOLEAN, Dhcp(ok) PROVE Managed'
  <2>1. /\ wlan' = NotifyDhcp(wlan, ok)
        /\ pc = "dhcp" /\ pc' = back
        /\ UNCHANGED <<air, config, cloud, wake, back, calm>>
    BY <1>5 DEF Dhcp
  <2>2. LinkInv'
    BY ZenonT(40), <1>0, <2>1, NotifyDhcpIs DEF Managed, LinkInv, LinkWatched, OffMeansOff, Joining, Connecting,
          ResetDue, OnToConnect, DownToListen, FailuresReset, NeverStranded
  <2> QED
    BY <1>0, <2>1, <2>2, NotifyDhcpIs DEF Managed, TypeOK, IsCloud
<1>6. CASE StartListening
  <2> DEFINE u == [wlan EXCEPT !.finished = FALSE]
             d == Disconnect(u)
  <2>1. u \in WlanFlags /\ SameLink(u, wlan)
    BY <1>0 DEF WlanFlags, SameLink
  <2>2. /\ wlan' = On(d) /\ air' = "down" /\ pc = "setup" /\ pc' = "listening"
        /\ cloud' = [CloudDropped(cloud) EXCEPT !.socket = "none"]
        /\ config' = [config EXCEPT !.changed = FALSE, !.wasStarted = wlan.started]
        /\ UNCHANGED <<wake, back, calm>>
    BY <1>6 DEF StartListening
  <2> HIDE DEF u
  <2>3. d \in WlanFlags /\ d.reset = wlan.reset /\ ~d.connected /\ ~d.dhcp
    BY <2>1, DisconnectIs DEF SameLink, Managed, LinkInv, OffMeansOff
  <2> HIDE DEF d
  <2>4. IsCloud(cloud') /\ cloud'.cfod = cloud.cfod
    BY <1>0, <2>2, CloudDroppedIs
  <2>5. wlan.started \in BOOLEAN
    BY <1>0 DEF WlanFlags
  <2>6. config' \in [credentials : BOOLEAN, changed : BOOLEAN, wasStarted : BOOLEAN]
    BY <1>0, <2>2, <2>5
  <2>7. /\ wlan' \in WlanFlags /\ wlan'.started /\ wlan'.reset = wlan.reset
        /\ ~wlan'.connected /\ ~wlan'.dhcp
    BY <2>2, <2>3, OnIs
  <2>8. LinkInv'
    BY <2>2, <2>4, <2>7 DEF Managed, LinkInv, LinkWatched, OffMeansOff, Joining, Connecting,
          ResetDue, OnToConnect, DownToListen, FailuresReset, NeverStranded
  <2> QED
    BY <1>0, <2>2, <2>4, <2>6, <2>7, <2>8 DEF Managed, TypeOK, IsCloud
<1>7. CASE NotListening
  <2>1. LinkInv'
    BY <1>7, Onwards DEF NotListening, Connecting
  <2> QED
    BY <1>0, <1>7, <2>1 DEF NotListening, Managed, TypeOK, IsCloud
<1>8. CASE EndListening
  <2> DEFINE w == [wlan EXCEPT !.listen = FALSE,
                               !.onFailed = config.wasStarted /\ config.changed]
  <2>1. w \in WlanFlags /\ SameLink(w, wlan)
    BY <1>0 DEF WlanFlags, SameLink
  <2>2. pc = "listening" /\ UNCHANGED <<air, config, cloud, wake, calm>>
    BY <1>8 DEF EndListening
  <2>3. ~wlan.reset /\ air = "down"
    BY <2>2 DEF Managed, LinkInv, ResetDue, DownToListen, Connecting
  <2>4. Connect(w, "cloud") \/ (/\ wlan' \in {w, Off(w)}
                                /\ pc' = "cloud" /\ UNCHANGED back)
    BY <1>8 DEF EndListening
  <2> HIDE DEF w
  <2>5. CASE Connect(w, "cloud")
    <3>1. /\ wlan' \in WlanFlags /\ LinkInv'
          /\ pc' \in {"idle", "setup", "cloud", "joining"}
          /\ back' \in {"idle", "setup", "cloud"}
      BY <2>1, <2>2, <2>3, <2>5, ConnectKeeps
    <3> QED
      BY <1>0, <2>2, <3>1 DEF Managed, TypeOK, IsCloud
  <2>6. CASE wlan' \in {w, Off(w)} /\ pc' = "cloud" /\ UNCHANGED back
    <3>1. /\ wlan' \in WlanFlags /\ ~wlan'.reset
          /\ SameLink(wlan', wlan) \/ (~wlan'.connected /\ ~wlan'.dhcp)
      BY <2>1, <2>3, <2>6, OffIs DEF SameLink
    <3>2. LinkInv'
      BY <2>2, <2>3, <2>6, <3>1 DEF SameLink, Managed, LinkInv, LinkWatched, OffMeansOff, Joining, Connecting,
            ResetDue, OnToConnect, DownToListen, FailuresReset, NeverStranded
    <3> QED
      BY <1>0, <2>2, <2>6, <3>1, <3>2 DEF Managed, TypeOK, IsCloud
  <2> QED
    BY <2>4, <2>5, <2>6
<1>9. CASE ManageCloud
  <2>1. /\ cloud' \in {cloud, CloudDisconnect(cloud)}
        /\ pc = "cloud"
        /\ pc' \in {"idle", "events", "handshake", "connecting"}
        /\ pc' = "connecting" => Ready(wlan)
        /\ UNCHANGED <<wlan, air, config, wake, back, calm>>
    BY <1>9 DEF ManageCloud
  <2>2. IsCloud(cloud') /\ cloud'.cfod = cloud.cfod
    BY <1>0, <2>1, CloudDisconnectIs
  <2>3. LinkInv'
    BY <2>1, <2>2, Onwards DEF Connecting, Ready
  <2> QED
    BY <1>0, <2>1, <2>2, <2>3 DEF Managed, TypeOK, IsCloud
<1>10. CASE SparkConnected
  <2> DEFINE c == [cloud EXCEPT !.socket = "open", !.socketed = TRUE]
  <2>1. IsCloud(c)
    BY <1>0 DEF IsCloud, CloudFlags
  <2>2. /\ cloud' = [c EXCEPT !.cfod = 0]
        /\ pc = "connecting" /\ pc' \in {"events", "handshake"}
        /\ UNCHANGED <<wlan, air, config, wake, back, calm>>
    BY <1>10 DEF SparkConnected
  <2> HIDE DEF c
  <2>3. IsCloud(cloud') /\ cloud'.cfod = 0
    BY <2>1, <2>2 DEF IsCloud, CloudFlags
  <2>4. LinkInv'
    BY <2>2, <2>3 DEF Managed, LinkInv, LinkWatched, OffMeansOff, Joining, Connecting,
          ResetDue, OnToConnect, DownToListen, FailuresReset, NeverStranded, MaxFailedConnects
  <2> QED
    BY <1>0, <2>2, <2>3, <2>4 DEF Managed, TypeOK, IsCloud
<1>11. ASSUME NEW internet \in BOOLEAN, SparkConnectFails(internet) PROVE Managed'
  <2> DEFINE strikes == IF internet THEN 1 ELSE 2
             failed == cloud.cfod + strikes
  <2>1. /\ pc = "connecting" /\ pc' = "idle"
        /\ UNCHANGED <<air, config, wake, back, calm>>
    BY <1>11 DEF SparkConnectFails
  <2>2. /\ ~wlan.reset /\ wlan.started /\ cloud.cfod \in 0 .. 1
    BY <1>0, <2>1 DEF Managed, LinkInv, ResetDue, OnToConnect, Connecting,
       FailuresReset, MaxFailedConnects, IsCloud, CloudFlags
  <2>3. /\ cloud' = [cloud EXCEPT !.socket = "none", !.socketed = FALSE,
                        !.backoff = @ \/ ~wlan.reset, !.cfod = failed]
        /\ wlan' = [wlan EXCEPT !.reset = @ \/ \E n \in cloud.cfod + 1 .. failed :
                                                n = MaxFailedConnects]
    BY <1>11, <2>2 DEF SparkConnectFails
  <2>4. failed \in 0 .. 3
    BY <2>2
  <2>5. (\E n \in cloud.cfod + 1 .. failed : n = 2) <=> failed >= 2
    BY <2>2
  <2> HIDE DEF failed
  <2>6. IsCloud(cloud') /\ cloud'.cfod = failed
    BY <1>0, <2>2, <2>3, <2>4 DEF IsCloud, CloudFlags
  <2>7. /\ wlan' \in WlanFlags /\ (wlan'.reset <=> failed >= 2)
        /\ wlan' = [wlan EXCEPT !.reset = wlan'.reset]
    BY <1>0, <2>2, <2>3, <2>5 DEF WlanFlags, MaxFailedConnects
  <2>8. LinkInv'
    BY <1>0, <2>1, <2>2, <2>6, <2>7 DEF WlanFlags, Managed, LinkInv, LinkWatched, OffMeansOff, Joining, Connecting,
          ResetDue, OnToConnect, DownToListen, FailuresReset, NeverStranded,
       MaxFailedConnects
  <2> QED
    BY <1>0, <2>1, <2>6, <2>7, <2>8 DEF Managed, TypeOK, IsCloud
<1>12. CASE Handshake
  <2>1. IsCloud(cloud') /\ cloud'.cfod = cloud.cfod
    BY <1>0, <1>12 DEF Handshake, IsCloud, CloudFlags
  <2>2. LinkInv'
    BY <1>12, <2>1, Onwards DEF Handshake, Connecting
  <2> QED
    BY <1>0, <1>12, <2>1, <2>2 DEF Handshake, Managed, TypeOK, IsCloud
<1>13. CASE HandshakeFails
  <2> DEFINE c == [cloud EXCEPT !.backoff = TRUE]
  <2>1. IsCloud(c) /\ c.cfod = cloud.cfod
    BY <1>0 DEF IsCloud, CloudFlags
  <2>2. /\ cloud' = CloudDisconnect(c) /\ pc = "handshake" /\ pc' = "idle"
        /\ UNCHANGED <<wlan, air, config, wake, back, calm>>
    BY <1>13 DEF HandshakeFails
  <2> HIDE DEF c
  <2>3. IsCloud(cloud') /\ cloud'.cfod = cloud.cfod
    BY <2>1, <2>2, CloudDisconnectIs
  <2>4. LinkInv'
    BY <2>2, <2>3, Onwards DEF Connecting
  <2> QED
    BY <1>0, <2>2, <2>3, <2>4 DEF Managed, TypeOK, IsCloud
<1>14. ASSUME NEW ok \in BOOLEAN, Greet(ok) PROVE Managed'
  <2> DEFINE c == IF ok THEN cloud ELSE CloudDropped(cloud)
  <2>1. IsCloud(c) /\ c.cfod = cloud.cfod
    BY <1>0, CloudDroppedIs
  <2>2. /\ cloud' = [c EXCEPT !.connected = TRUE, !.backoff = FALSE]
        /\ pc = "greeting" /\ pc' = "events"
        /\ UNCHANGED <<wlan, air, config, wake, back, calm>>
    BY <1>14 DEF Greet
  <2> HIDE DEF c
  <2>3. IsCloud(cloud') /\ cloud'.cfod = cloud.cfod
    BY <2>1, <2>2 DEF IsCloud, CloudFlags
  <2>4. LinkInv'
    BY <2>2, <2>3, Onwards DEF Connecting
  <2> QED
    BY <1>0, <2>2, <2>3, <2>4 DEF Managed, TypeOK, IsCloud
<1>15. ASSUME NEW ok \in BOOLEAN, ProcessEvents(ok) PROVE Managed'
  <2>1. /\ cloud' \in {cloud, CloudDropped(cloud)}
        /\ pc = "events" /\ pc' = "idle"
        /\ UNCHANGED <<wlan, air, config, wake, back, calm>>
    BY <1>15 DEF ProcessEvents
  <2>2. IsCloud(cloud') /\ cloud'.cfod = cloud.cfod
    BY <1>0, <2>1, CloudDroppedIs
  <2>3. LinkInv'
    BY <2>1, <2>2, Onwards DEF Connecting
  <2> QED
    BY <1>0, <2>1, <2>2, <2>3 DEF Managed, TypeOK, IsCloud
<1> QED
  BY <1>1, <1>2, <1>3, <1>4, <1>5, <1>6, <1>7, <1>8, <1>9, <1>10, <1>11,
     <1>12, <1>13, <1>14, <1>15 DEF Pass

LEMMA OthersKeep ==
    ASSUME ~OffAnytime, Managed, Outside \/ WatchdogExpires \/ BackoffEnds
    PROVE  Managed'
<1>0. /\ wlan \in WlanFlags /\ IsCloud(cloud)
      /\ config \in [credentials : BOOLEAN, changed : BOOLEAN, wasStarted : BOOLEAN]
      /\ wake \in [wifi : BOOLEAN, cloud : BOOLEAN, alarm : BOOLEAN]
      /\ air \in {"down", "joined", "lost"}
      /\ pc \in {"idle", "joining", "dhcp", "setup", "listening", "cloud",
                 "connecting", "handshake", "greeting", "events"}
      /\ back \in {"idle", "setup", "cloud"} /\ calm \in BOOLEAN
      /\ SameLink(wlan, wlan)
  BY DEF Managed, TypeOK, IsCloud, SameLink
<1>1. CASE LinkDown
  <2>1. /\ wlan' = NotifyDisconnected(wlan) /\ cloud' = CloudDropped(cloud)
        /\ air = "joined" /\ air' = "lost"
        /\ UNCHANGED <<config, wake, pc, back, calm>>
    BY <1>1 DEF LinkDown
  <2>2. IsCloud(cloud') /\ cloud'.cfod = cloud.cfod
    BY <1>0, <2>1, CloudDroppedIs
  <2>3. LinkInv'
    BY <1>0, <2>1, <2>2, NotifyDisconnectedIs DEF Managed, LinkInv, LinkWatched, OffMeansOff, Joining, Connecting,
          ResetDue, OnToConnect, DownToListen, FailuresReset, NeverStranded
  <2> QED
    BY <1>0, <2>1, <2>2, <2>3, NotifyDisconnectedIs DEF Managed, TypeOK, IsCloud
<1>2. CASE LinkUp
  <2>1. /\ wlan' = NotifyConnected(wlan)
        /\ air = "lost" /\ air' = "joined"
        /\ UNCHANGED <<config, cloud, wake, pc, back, calm>>
    BY <1>2 DEF LinkUp
  <2>2. LinkInv'
    BY <1>0, <2>1, NotifyConnectedIs DEF Managed, LinkInv, LinkWatched, OffMeansOff, Joining, Connecting,
          ResetDue, OnToConnect, DownToListen, FailuresReset, NeverStranded
  <2> QED
    BY <1>0, <2>1, <2>2, NotifyConnectedIs DEF Managed, TypeOK, IsCloud
<1>3. CASE SetupButton \/ StopButton
  <2>1. /\ wlan' \in {Listen(wlan, FALSE), Listen(wlan, TRUE)}
        /\ UNCHANGED <<air, config, cloud, wake, pc, back, calm>>
    BY <1>3 DEF SetupButton, StopButton
  <2>2. wlan' \in WlanFlags /\ SameLink(wlan', wlan)
    BY <1>0, <2>1, ListenIs
  <2>3. LinkInv'
    BY <2>1, <2>2, Aside
  <2> QED
    BY <1>0, <2>1, <2>2, <2>3 DEF Managed, TypeOK, IsCloud
<1>4. CASE ClearCredentials \/ ConfigureAP
  <2>1. /\ UNCHANGED <<wlan, air, cloud, wake, pc, back, calm>>
        /\ config' \in {[config EXCEPT !.credentials = FALSE],
                       [config EXCEPT !.credentials = TRUE, !.changed = TRUE]}
    BY <1>4 DEF ClearCredentials, ConfigureAP
  <2>2. config' \in [credentials : BOOLEAN, changed : BOOLEAN, wasStarted : BOOLEAN]
    BY <1>0, <2>1
  <2>3. LinkInv'
    BY <1>0, <2>1, Aside
  <2> QED
    BY <1>0, <2>1, <2>2, <2>3 DEF Managed, TypeOK, IsCloud
<1>5. CASE ConnectAP
  <2>1. /\ wlan' = [wlan EXCEPT !.finished = TRUE]
        /\ UNCHANGED <<air, config, cloud, wake, pc, back, calm>>
    BY <1>5 DEF ConnectAP
  <2>2. wlan' \in WlanFlags /\ SameLink(wlan', wlan)
    BY <1>0, <2>1 DEF WlanFlags, SameLink
  <2>3. LinkInv'
    BY <2>1, <2>2, Aside
  <2> QED
    BY <1>0, <2>1, <2>2, <2>3 DEF Managed, TypeOK, IsCloud
<1>6. CASE Alarm
  <2>1. /\ wlan' = [wlan EXCEPT !.sleep = @ /\ ~wake.wifi /\ ~wake.cloud]
        /\ cloud' = [cloud EXCEPT !.wanted = @ \/ wake.cloud]
        /\ wake' = [wake EXCEPT !.alarm = FALSE]
        /\ UNCHANGED <<air, config, pc, back, calm>>
    BY <1>6 DEF Alarm
  <2>2. wlan' \in WlanFlags /\ SameLink(wlan', wlan)
    BY <1>0, <2>1 DEF WlanFlags, SameLink
  <2>3. IsCloud(cloud') /\ cloud'.cfod = cloud.cfod
    BY <1>0, <2>1 DEF IsCloud, CloudFlags
  <2>4. wake' \in [wifi : BOOLEAN, cloud : BOOLEAN, alarm : BOOLEAN]
    BY <1>0, <2>1
  <2>5. LinkInv'
    BY <2>1, <2>2, <2>3, Aside
  <2> QED
    BY <1>0, <2>1, <2>2, <2>3, <2>4, <2>5 DEF Managed, TypeOK, IsCloud
<1>7. CASE SparkConnect
  <2>1. /\ wlan' = [wlan EXCEPT !.sleep = FALSE]
        /\ cloud' = [cloud EXCEPT !.wanted = TRUE]
        /\ UNCHANGED <<air, config, wake, pc, back, calm>>
    BY <1>7 DEF SparkConnect
  <2>2. wlan' \in WlanFlags /\ SameLink(wlan', wlan)
    BY <1>0, <2>1 DEF WlanFlags, SameLink
  <2>3. IsCloud(cloud') /\ cloud'.cfod = cloud.cfod
    BY <1>0, <2>1 DEF IsCloud, CloudFlags
  <2>4. LinkInv'
    BY <2>1, <2>2, <2>3, Aside
  <2> QED
    BY <1>0, <2>1, <2>2, <2>3, <2>4 DEF Managed, TypeOK, IsCloud
<1>8. CASE SparkDisconnect \/ BackoffEnds
  <2>1. /\ cloud' \in {[cloud EXCEPT !.wanted = FALSE],
                      [cloud EXCEPT !.backoff = FALSE]}
        /\ UNCHANGED <<wlan, air, config, wake, pc, back, calm>>
    BY <1>8 DEF SparkDisconnect, BackoffEnds
  <2>2. IsCloud(cloud') /\ cloud'.cfod = cloud.cfod
    BY <1>0, <2>1 DEF IsCloud, CloudFlags
  <2>3. LinkInv'
    BY <1>0, <2>1, <2>2, Aside
  <2> QED
    BY <1>0, <2>1, <2>2, <2>3 DEF Managed, TypeOK, IsCloud
<1>9. CASE NetworkOn
  <2>1. /\ wlan' = On(wlan) /\ pc = "idle"
        /\ UNCHANGED <<air, config, cloud, wake, pc, back, calm>>
    BY <1>9 DEF NetworkOn, Application
  <2>2. LinkInv'
    BY <1>0, <2>1, OnIs DEF Managed, LinkInv, LinkWatched, OffMeansOff, Joining, Connecting,
          ResetDue, OnToConnect, DownToListen, FailuresReset, NeverStranded
  <2> QED
    BY <1>0, <2>1, <2>2, OnIs DEF Managed, TypeOK, IsCloud
<1>10. CASE NetworkOff
  <2>1. /\ wlan' = Off(wlan) /\ air' = AirDown(wlan)
        /\ cloud' = SocketsClosed(wlan) /\ pc = "idle" /\ ~wlan.reset
        /\ UNCHANGED <<config, wake, pc, back, calm>>
    BY <1>10 DEF NetworkOff, Application, OffAllowed
  <2>2. air' = "down"
    BY <2>1 DEF AirDown, Managed, LinkInv, OffMeansOff
  <2>3. IsCloud(cloud') /\ cloud'.cfod = cloud.cfod
    BY <1>0, <2>1, SocketsClosedIs
  <2>4. LinkInv'
    BY <1>0, <2>1, <2>2, <2>3, OffIs DEF Managed, LinkInv, LinkWatched, OffMeansOff, Joining, Connecting,
          ResetDue, OnToConnect, DownToListen, FailuresReset, NeverStranded
  <2> QED
    BY <1>0, <2>1, <2>2, <2>3, <2>4, OffIs DEF Managed, TypeOK, IsCloud
<1>11. CASE NetworkDisconnect
  <2>1. /\ wlan' = Disconnect(wlan) /\ air' = AirDown(wlan)
        /\ cloud' = SocketsClosed(wlan) /\ pc = "idle"
        /\ UNCHANGED <<config, wake, pc, back, calm>>
    BY <1>11 DEF NetworkDisconnect, Application
  <2>2. air' = "down"
    BY <2>1 DEF AirDown, Managed, LinkInv, OffMeansOff
  <2>3. IsCloud(cloud') /\ cloud'.cfod = cloud.cfod
    BY <1>0, <2>1, SocketsClosedIs
  <2>4. LinkInv'
    BY <1>0, <2>1, <2>2, <2>3, DisconnectIs DEF Managed, LinkInv, LinkWatched, OffMeansOff, Joining, Connecting,
          ResetDue, OnToConnect, DownToListen, FailuresReset, NeverStranded
  <2> QED
    BY <1>0, <2>1, <2>2, <2>3, <2>4, DisconnectIs DEF Managed, TypeOK, IsCloud
<1>12. CASE NetworkConnect
  <2>1. /\ Connect(wlan, "idle") /\ pc = "idle"
        /\ UNCHANGED <<air, config, cloud, wake, calm>>
    BY <1>12 DEF NetworkConnect, Application
  <2>2. /\ wlan' \in WlanFlags /\ LinkInv'
        /\ pc' \in {"idle", "setup", "cloud", "joining"}
        /\ back' \in {"idle", "setup", "cloud"}
    BY <1>0, <2>1, ConnectKeeps
  <2> QED
    BY <1>0, <2>1, <2>2 DEF Managed, TypeOK, IsCloud
<1>13. CASE SleepWlan
  <2> DEFINE c == SocketsClosed(wlan)
  <2>1. /\ wlan' = Off(wlan) /\ air' = AirDown(wlan)
        /\ cloud' = [c EXCEPT !.wanted = FALSE] /\ pc = "idle" /\ ~wlan.reset
        /\ wake' = [wifi |-> ~wlan.sleep, alarm |-> TRUE,
                    cloud |-> cloud.socketed /\ cloud.connected]
        /\ UNCHANGED <<config, pc, back, calm>>
    BY <1>13 DEF SleepWlan, Application, OffAllowed
  <2>2. air' = "down"
    BY <2>1 DEF AirDown, Managed, LinkInv, OffMeansOff
  <2>3. IsCloud(c) /\ c.cfod = cloud.cfod
    BY <1>0, SocketsClosedIs
  <2> HIDE DEF c
  <2>4. IsCloud(cloud') /\ cloud'.cfod = cloud.cfod
    BY <2>1, <2>3 DEF IsCloud, CloudFlags
  <2>5. wake' \in [wifi : BOOLEAN, cloud : BOOLEAN, alarm : BOOLEAN]
    BY <2>1
  <2>6. LinkInv'
    BY <1>0, <2>1, <2>2, <2>4, OffIs DEF Managed, LinkInv, LinkWatched, OffMeansOff, Joining, Connecting,
          ResetDue, OnToConnect, DownToListen, FailuresReset, NeverStranded
  <2> QED
    BY <1>0, <2>1, <2>2, <2>4, <2>5, <2>6, OffIs DEF Managed, TypeOK, IsCloud
<1>14. CASE Calm
  <2>1. calm' = TRUE /\ UNCHANGED <<wlan, air, config, cloud, wake, pc, back>>
    BY <1>14 DEF Calm
  <2>2. LinkInv'
    BY <1>0, <2>1, Aside
  <2> QED
    BY <1>0, <2>1, <2>2 DEF Managed, TypeOK, IsCloud
<1>15. CASE WatchdogExpires
  <2>1. /\ wlan' = [wlan EXCEPT !.watchdog = "expired"]
        /\ UNCHANGED <<air, config, cloud, wake, pc, back, calm>>
    BY <1>15 DEF WatchdogExpires
  <2>2. wlan' \in WlanFlags
    BY <1>0, <2>1 DEF WlanFlags
  <2>3. LinkInv'
    BY <1>0, <2>1 DEF WlanFlags, Managed, LinkInv, LinkWatched, OffMeansOff, Joining, Connecting,
          ResetDue, OnToConnect, DownToListen, FailuresReset, NeverStranded
  <2> QED
    BY <1>0, <2>1, <2>2, <2>3 DEF Managed, TypeOK, IsCloud
<1> QED
  BY <1>1, <1>2, <1>3, <1>4, <1>5, <1>6, <1>7, <1>8, <1>9, <1>10, <1>11,
     <1>12, <1>13, <1>14, <1>15 DEF Outside

LEMMA ManagedStep == ~OffAnytime /\ Managed /\ [Next]_vars => Managed'
<1>1. ASSUME ~OffAnytime, Managed, Next PROVE Managed'
  BY <1>1, PassKeeps, OthersKeep DEF Next
<1>2. ASSUME Managed, UNCHANGED vars PROVE Managed'
  BY <1>2 DEF vars, Managed, TypeOK, LinkInv, LinkWatched, OffMeansOff, Joining, Connecting,
     ResetDue, OnToConnect, DownToListen, FailuresReset, NeverStranded
<1> QED
  BY <1>1, <1>2

\* The invariants hold as long as the application does not switch the interface
\* off while a reset of it is due (NetworkOff, SleepWlan).
LEMMA AlwaysManaged == ASSUME ~OffAnytime PROVE Spec => []Managed
<1>1. Managed /\ [Next]_vars => Managed'
  BY ManagedStep
<1> QED
  BY <1>1, ManagedInit, PTL DEF Spec

-----------------------------------------------------------------------------
\* The flags of the interface and of the cloud connection keep their types; in
\* particular the count of failed connections stays below four, and there is a
\* socket whenever the flag says so.
THEOREM TypeCorrect == ASSUME ~OffAnytime PROVE Spec => []TypeOK
<1>1. Managed => TypeOK
  BY DEF Managed
<1> QED
  BY <1>1, AlwaysManaged, PTL

\* handle_cfod: a reset is due exactly when the count has reached its limit.
THEOREM FailuresAreCounted == ASSUME ~OffAnytime PROVE Spec => []FailuresReset
<1>1. Managed => FailuresReset
  BY DEF Managed, LinkInv
<1> QED
  BY <1>1, AlwaysManaged, PTL

\* The callbacks of the Wi-Fi thread, in any order with the passes and the
\* application, leave no interface with a link, without an address and unwatched.
THEOREM NobodyStranded == ASSUME ~OffAnytime PROVE Spec => []NeverStranded
<1>1. Managed => NeverStranded
  BY DEF Managed, LinkInv
<1> QED
  BY <1>1, AlwaysManaged, PTL

=============================================================================
