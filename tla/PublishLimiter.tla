--------------------------- MODULE PublishLimiter ---------------------------
(***************************************************************************)
(* The rate limit on events the application publishes: the non-system      *)
(* branch of SparkProtocol::send_event (communication/src/                 *)
(* spark_protocol.cpp), as this repository changed it, 1000 ms to 250 ms.  *)
(*                                                                         *)
(* The code keeps the millisecond of the last five attempts in a ring and  *)
(* compares with the oldest.  The model keeps their ages, so that time has *)
(* no origin; the code's unsigned difference is the age modulo Wrap.       *)
(***************************************************************************)
EXTENDS Integers

CONSTANTS Window,  \* 250 ms
          Wrap,    \* 2^32 ms, where millis() starts again
          MaxGap   \* bound: longest time without an attempt

ASSUME WindowAssumption == Window \in Nat \ {0}
ASSUME WrapAssumption   == Wrap \in Nat /\ Wrap > Window
ASSUME GapAssumption    == MaxGap \in Nat /\ MaxGap >= Window

VARIABLES age,       \* now - recent_event_ticks[i]
          next,      \* evt_tick_idx
          updating,  \* a firmware update is being received
          answer,    \* what send_event returned last
          passed     \* history: ages of the last five events let through, at
                     \* most Window

limiterVars == <<age, next, updating, answer, passed>>

Ring == 0 .. 4

LimiterTypeOK ==
    /\ age \in [Ring -> Nat]
    /\ next \in Ring
    /\ updating \in BOOLEAN
    /\ answer \in BOOLEAN
    /\ passed \in [1 .. 5 -> 0 .. Window]

\* All five slots start at -250.  The device has just booted; MaxGap may
\* exceed that, so the first attempt can come later.
LimiterInit ==
    /\ age = [i \in Ring |-> Window]
    /\ next = 0
    /\ updating = FALSE
    /\ answer = TRUE
    /\ passed = [k \in 1 .. 5 |-> Window]

-----------------------------------------------------------------------------
Following(i) == (i + 1) % 5

\* A(k) is the age of the attempt before the last k - 1.
A(k) == age[(next + 5 - k) % 5]

Elapsed(a) == a % Wrap

\* Mutant: the comparison lets an event pass one millisecond early.
AllowedEarly == Elapsed(age[Following(next)]) >= Window - 1

\* The slot after the one the attempt is recorded in is the oldest.
Allowed == Elapsed(age[Following(next)]) >= Window

\* Mutant: evt_tick_idx is not taken modulo 5.
RecordPastTheEnd ==
    /\ age' = [age EXCEPT ![next] = 0]
    /\ next' = next + 1

\* The attempt is recorded whether or not it is allowed.
Record ==
    /\ age' = [age EXCEPT ![next] = 0]
    /\ next' = Following(next)

History ==
    passed' = IF Allowed
              THEN [k \in 1 .. 5 |-> IF k = 1 THEN 0 ELSE passed[k - 1]]
              ELSE passed

\* sent is whether blocking_send, which comes last, gets all bytes out.
SendEvent(sent) ==
    \/ /\ updating
       /\ answer' = FALSE
       /\ UNCHANGED <<age, next, updating, passed>>
    \/ /\ ~updating
       /\ answer' = (Allowed /\ sent)
       /\ Record
       /\ History
       /\ UNCHANGED updating

\* Time, up to MaxGap after the last attempt.
Older(d) ==
    /\ A(1) + d <= MaxGap
    /\ age' = [i \in Ring |-> age[i] + d]
    /\ passed' = [k \in 1 .. 5 |->
                    IF passed[k] + d < Window THEN passed[k] + d ELSE Window]
    /\ UNCHANGED <<next, updating, answer>>

\* handle_update_begin, handle_update_done and reset_updating.
Updating(b) == updating' = b /\ UNCHANGED <<age, next, answer, passed>>

LimiterNext ==
    \/ \E sent \in BOOLEAN : SendEvent(sent)
    \/ Older(1)
    \/ \E b \in BOOLEAN : Updating(b)

LimiterSpec == LimiterInit /\ [][LimiterNext]_limiterVars

-----------------------------------------------------------------------------
\* In no span of Window do more than four events pass, whatever the pattern of
\* attempts, refusals, updates and overflows of millis().
BurstBound == passed[5] >= Window

=============================================================================
