------------------------------ MODULE ChimeLoop ------------------------------
(***************************************************************************)
(* The strikes of a netChimes sensor: loop(), strike() and the debounce    *)
(* delay of netChimes2.cpp, on top of the event limiter of the firmware.   *)
(*                                                                         *)
(* A strike publishes two events, "data" and "json", and the debounce is   *)
(* half the limiter's window, so that the limiter is met exactly at its    *)
(* boundary.  Time passes between any two steps; delay() lasts at least    *)
(* BounceDelay and may last longer, since the cloud is served in it.  The  *)
(* connection may fail between any two steps, the two events among them.   *)
(***************************************************************************)
EXTENDS PublishLimiter

CONSTANTS Sensors,      \* number of hall sensors: 6
          BounceDelay   \* bounceDelay, 125 ms

ASSUME SensorsAssumption == Sensors \in Nat \ {0}
ASSUME BounceAssumption  == BounceDelay \in Nat /\ 2 * BounceDelay >= Window
\* The longest age in the ring stays below the overflow of millis().
ASSUME QuietAssumption   == 4 * MaxGap < Wrap

VARIABLES flash,   \* SPARK_FLASH_UPDATE, which keeps the application waiting
          link,    \* the cloud connection, see Links
          pc,      \* where the application is
          sensor,  \* sensor that loop() looks at
          wait     \* what is left of delay(bounceDelay)

vars == <<limiterVars, flash, link, pc, sensor, wait>>

Links == {
    "none",    \* no socket: SPARK_CLOUD_SOCKETED and SPARK_CLOUD_CONNECTED are 0
    "sound",   \* connected, and every send gets its bytes out
    "faulty"}  \* connected as far as the flags say, but sends may fail: the socket
               \* was closed, or the Wi-Fi stack had no buffer

TypeOK ==
    /\ LimiterTypeOK
    /\ flash \in BOOLEAN /\ link \in Links
    /\ pc \in {"idle", "poll", "data", "json", "delay"}
    /\ sensor \in 0 .. Sensors
    /\ wait \in 0 .. BounceDelay

\* app_loop calls loop() for the first time when a connection has been made.
Init ==
    /\ LimiterInit
    /\ flash = FALSE /\ link = "sound"
    /\ pc = "idle"
    /\ sensor = 0
    /\ wait = 0

-----------------------------------------------------------------------------
\* The system calls loop() when no update is being received.
StartLoop ==
    /\ pc = "idle" /\ ~flash
    /\ pc' = "poll" /\ sensor' = 0
    /\ UNCHANGED <<limiterVars, flash, link, wait>>

\* digitalRead(sensor) == LOW
Struck ==
    /\ pc = "poll" /\ sensor < Sensors
    /\ pc' = "data"
    /\ UNCHANGED <<limiterVars, flash, link, sensor, wait>>

\* Mutant: one sensor more is polled than there are.
NotStruckPastTheEnd ==
    /\ pc = "poll" /\ sensor <= Sensors
    /\ sensor' = sensor + 1
    /\ UNCHANGED <<limiterVars, flash, link, pc, wait>>

NotStruck ==
    /\ pc = "poll" /\ sensor < Sensors
    /\ sensor' = sensor + 1
    /\ UNCHANGED <<limiterVars, flash, link, pc, wait>>

EndLoop ==
    /\ pc = "poll" /\ sensor = Sensors
    /\ pc' = "idle"
    /\ UNCHANGED <<limiterVars, flash, link, sensor, wait>>

\* Spark_Send refuses without a socket; over a faulty connection it may refuse.
Publish == \E sent \in BOOLEAN :
    /\ link = "none" => ~sent
    /\ link = "sound" => sent
    /\ SendEvent(sent)

\* Particle.publish("data", strikeString), whose result strike() does not look at
PublishData ==
    /\ pc = "data"
    /\ Publish
    /\ pc' = "json"
    /\ UNCHANGED <<flash, link, sensor, wait>>

\* Mutant: the sensor is read again with no delay after a strike.
PublishJsonNoDelay ==
    /\ pc = "json"
    /\ Publish
    /\ pc' = "delay" /\ wait' = 0
    /\ UNCHANGED <<flash, link, sensor>>

\* Particle.publish("json", chimeString); then delay(bounceDelay)
PublishJson ==
    /\ pc = "json"
    /\ Publish
    /\ pc' = "delay" /\ wait' = BounceDelay
    /\ UNCHANGED <<flash, link, sensor>>

EndDelay ==
    /\ pc = "delay" /\ wait = 0 /\ ~flash
    /\ pc' = "poll" /\ sensor' = sensor + 1
    /\ UNCHANGED <<limiterVars, flash, link, wait>>

\* A millisecond passes; in the delay it counts.
Millisecond ==
    /\ Older(1)
    /\ wait' = IF pc = "delay" /\ wait > 0 THEN wait - 1 ELSE wait
    /\ UNCHANGED <<flash, link, pc, sensor>>

-----------------------------------------------------------------------------
(* Spark_Idle, between two calls of loop() and inside delay(), serves the   *)
(* cloud.  Losing the connection ends the update the application waits for, *)
(* but not the limiter's, which the next handshake ends.                    *)

Served == pc \in {"idle", "delay"} /\ UNCHANGED <<pc, sensor, wait>>

UpdateBegins   == /\ Served /\ link # "none"
                  /\ Updating(TRUE) /\ flash' = TRUE /\ UNCHANGED link
UpdateEnds     == /\ Served /\ link # "none"
                  /\ Updating(FALSE) /\ flash' = FALSE /\ UNCHANGED link
ConnectionLost == /\ Served /\ link # "none"
                  /\ link' = "none" /\ flash' = FALSE /\ UNCHANGED limiterVars

\* Mutant: the handshake does not reset what the last connection left.
HandshakeKeeps == /\ Served /\ link = "none"
                  /\ link' \in Links /\ UNCHANGED <<limiterVars, flash>>

\* spark_protocol_handshake calls reset_updating() first, and may then fail.
Handshake      == /\ Served /\ link = "none"
                  /\ Updating(FALSE) /\ link' \in Links /\ UNCHANGED flash

\* The server closes the socket, or Wi-Fi fails: at any time, and nobody notices
\* before the cloud is served again.
LinkFails ==
    /\ link = "sound"
    /\ link' = "faulty"
    /\ UNCHANGED <<limiterVars, flash, pc, sensor, wait>>

Next ==
    \/ StartLoop \/ Struck \/ NotStruck \/ EndLoop
    \/ PublishData \/ PublishJson \/ EndDelay
    \/ Millisecond
    \/ UpdateBegins \/ UpdateEnds \/ ConnectionLost \/ Handshake \/ LinkFails

Spec == Init /\ [][Next]_vars

-----------------------------------------------------------------------------
\* The limiter never refuses an event of a strike, however fast the strikes of
\* the sensors follow each other: two debounces are a window.
NeverLimited == pc \in {"data", "json"} => Allowed

\* A strike that finds a connection whose sends succeed up to its second event is
\* sent as both events.  In particular no update refuses one of them: not one that
\* begins or ends between the two, and not one that a lost connection cut short,
\* of which the protocol keeps the flag, while the application goes on.
SentInFull == [][PublishJson /\ link = "sound" => answer /\ answer']_vars

=============================================================================
