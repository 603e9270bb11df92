---------------------------- MODULE PublishProofs ----------------------------
(***************************************************************************)
(* Proofs about the event limiter and the strikes that go through it: the  *)
(* limiter bounds the bursts of every publisher (BurstsBounded), the       *)
(* strikes of a sensor are never limited (StrikesAreNeverLimited), and     *)
(* those over a connection that works are sent (StrikesAreSentInFull), for *)
(* every window, debounce and number of sensors.                           *)
(*                                                                         *)
(* Everything rests on one fact about the ring, Shift: an attempt moves    *)
(* the k-th last attempt to the (k+1)-th last.                             *)
(***************************************************************************)
EXTENDS ChimeLoop, TLAPS

LEMMA RingArithmetic ==
    ASSUME NEW n \in Ring
    PROVE  /\ Following(n) \in Ring
           /\ (n + 5 - 4) % 5 = Following(n)
           /\ (Following(n) + 5 - 1) % 5 = n
           /\ \A k \in 1 .. 4 : /\ (Following(n) + 5 - (k + 1)) % 5 = (n + 5 - k) % 5
                                /\ (n + 5 - k) % 5 \in Ring \ {n}
           /\ (n + 5 - 5) % 5 \in Ring
  BY DEF Ring, Following

LEMMA AgesAreNumbers ==
    ASSUME LimiterTypeOK
    PROVE  /\ \A k \in 1 .. 5 : A(k) \in Nat
           /\ Allowed <=> A(4) % Wrap >= Window
<1>1. next \in Ring /\ age \in [Ring -> Nat]
  BY DEF LimiterTypeOK
<1>2. \A k \in 1 .. 5 : (next + 5 - k) % 5 \in Ring
  BY <1>1 DEF Ring
<1>3. (next + 5 - 4) % 5 = Following(next)
  BY <1>1, RingArithmetic
<1> QED
  BY <1>1, <1>2, <1>3 DEF A, Allowed, Elapsed

LEMMA Shift ==
    ASSUME LimiterTypeOK, Record
    PROVE  /\ next' \in Ring
           /\ age' \in [Ring -> Nat]
           /\ A(1)' = 0
           /\ \A k \in 1 .. 4 : A(k + 1)' = A(k)
<1>1. next \in Ring /\ age \in [Ring -> Nat]
  BY DEF LimiterTypeOK
<1>2. next' = Following(next) /\ age' = [age EXCEPT ![next] = 0]
  BY DEF Record
<1>3. next' \in Ring /\ age' \in [Ring -> Nat]
  BY <1>1, <1>2, RingArithmetic
<1>4. A(1)' = 0
  <2>1. (next' + 5 - 1) % 5 = next
    BY <1>1, <1>2, RingArithmetic
  <2> QED
    BY <1>1, <1>2, <2>1 DEF A
<1>5. ASSUME NEW k \in 1 .. 4
      PROVE  A(k + 1)' = A(k)
  <2>1. /\ (next' + 5 - (k + 1)) % 5 = (next + 5 - k) % 5
        /\ (next + 5 - k) % 5 \in Ring \ {next}
    BY <1>1, <1>2, RingArithmetic
  <2> QED
    BY <1>1, <1>2, <2>1 DEF A
<1> QED
  BY <1>3, <1>4, <1>5

LEMMA AllOlder ==
    ASSUME LimiterTypeOK, NEW d \in Nat, Older(d)
    PROVE  /\ age' \in [Ring -> Nat]
           /\ next' = next
           /\ A(1)' <= MaxGap
           /\ \A k \in 1 .. 5 : A(k)' = A(k) + d
<1>1. next \in Ring /\ age \in [Ring -> Nat]
  BY DEF LimiterTypeOK
<1>2. next' = next /\ age' = [i \in Ring |-> age[i] + d] /\ A(1) + d <= MaxGap
  BY DEF Older
<1>3. \A k \in 1 .. 5 : (next + 5 - k) % 5 \in Ring
  BY <1>1 DEF Ring
<1>4. \A k \in 1 .. 5 : A(k)' = A(k) + d
  BY <1>1, <1>2, <1>3 DEF A
<1>5. age' \in [Ring -> Nat]
  BY <1>1, <1>2
<1> QED
  BY <1>2, <1>4, <1>5

-----------------------------------------------------------------------------
(* Types, for the limiter alone and under the loop of the application.      *)

LEMMA LimiterStepTyped ==
    ASSUME LimiterTypeOK,
           \/ \E sent \in BOOLEAN : SendEvent(sent)
           \/ Older(1)
           \/ \E b \in BOOLEAN : Updating(b)
    PROVE  LimiterTypeOK'
<1> USE WindowAssumption
<1>1. ASSUME NEW sent \in BOOLEAN, SendEvent(sent)
      PROVE  LimiterTypeOK'
  <2>1. CASE updating
    BY <1>1, <2>1 DEF SendEvent, LimiterTypeOK
  <2>2. CASE ~updating
    <3>1. Record /\ History /\ answer' = (Allowed /\ sent) /\ updating' = updating
      BY <1>1, <2>2 DEF SendEvent
    <3>2. passed' \in [1 .. 5 -> 0 .. Window]
      BY <3>1 DEF History, LimiterTypeOK
    <3>3. answer' \in BOOLEAN
      BY <3>1 DEF Allowed
    <3> QED
      BY <3>1, <3>2, <3>3, Shift DEF LimiterTypeOK
  <2> QED
    BY <2>1, <2>2
<1>2. CASE Older(1)
  <2>1. passed' \in [1 .. 5 -> 0 .. Window]
    BY <1>2 DEF Older, LimiterTypeOK
  <2>2. updating' = updating /\ answer' = answer
    BY <1>2 DEF Older
  <2> QED
    BY <1>2, <2>1, <2>2, AllOlder DEF LimiterTypeOK
<1>3. CASE \E b \in BOOLEAN : Updating(b)
  BY <1>3 DEF Updating, LimiterTypeOK
<1> QED
  BY <1>1, <1>2, <1>3

LEMMA LimiterInitTyped ==
    ASSUME LimiterInit
    PROVE  /\ LimiterTypeOK
           /\ \A k \in 1 .. 5 : A(k) = Window
           /\ \A k \in 1 .. 5 : passed[k] = Window
<1> USE WindowAssumption
<1>1. LimiterTypeOK
  <2>1. age \in [Ring -> Nat] /\ next \in Ring
    BY DEF LimiterInit, Ring
  <2>2. passed \in [1 .. 5 -> 0 .. Window]
    BY DEF LimiterInit
  <2>3. updating \in BOOLEAN /\ answer \in BOOLEAN
    BY DEF LimiterInit
  <2> QED
    BY <2>1, <2>2, <2>3 DEF LimiterTypeOK
<1>2. \A k \in 1 .. 5 : (next + 5 - k) % 5 \in Ring
  BY DEF LimiterInit, Ring
<1> QED
  BY <1>1, <1>2 DEF LimiterInit, A

-----------------------------------------------------------------------------
(* The limiter.  The event that passed k-th last was attempted k-th last or *)
(* earlier, so it is at least as old as the attempt in that place.          *)

BurstInv ==
    /\ LimiterTypeOK
    /\ \A k \in 1 .. 5 : passed[k] = Window \/ passed[k] >= A(k)
    /\ \A k \in 1 .. 4 : A(k) <= A(k + 1)
    /\ passed[5] >= Window

LEMMA SendKeepsBurstInv ==
    ASSUME BurstInv, NEW sent \in BOOLEAN, SendEvent(sent)
    PROVE  BurstInv'
<1> USE WindowAssumption, WrapAssumption
<1>1. LimiterTypeOK /\ LimiterTypeOK'
  BY LimiterStepTyped DEF BurstInv
<1>2. CASE updating
  <2>1. age' = age /\ next' = next /\ passed' = passed
    BY <1>2 DEF SendEvent
  <2> QED
    BY <1>1, <2>1 DEF BurstInv, A
<1>3. CASE ~updating
  <2>1. Record /\ History
    BY <1>3 DEF SendEvent
  <2>2. \A k \in 1 .. 5 : A(k) \in Nat
    BY <1>1, AgesAreNumbers
  <2>3. A(1)' = 0 /\ \A k \in 1 .. 4 : A(k + 1)' = A(k)
    BY <1>1, <2>1, Shift
  <2>4. passed \in [1 .. 5 -> 0 .. Window]
    BY <1>1 DEF LimiterTypeOK
  <2>7. \A k \in 1 .. 4 : A(k)' <= A(k + 1)'
    <3>1. ASSUME NEW k \in 1 .. 4
          PROVE  A(k)' <= A(k + 1)'
      <4>1. CASE k = 1
        BY <2>2, <2>3, <4>1
      <4>2. CASE k # 1
        <5>1. PICK j \in 1 .. 3 : k = j + 1
          BY <4>2
        <5>2. A(j + 1)' = A(j) /\ A((j + 1) + 1)' = A(j + 1) /\ A(j) <= A(j + 1)
          BY <2>3 DEF BurstInv
        <5> QED
          BY <5>1, <5>2
      <4> QED
        BY <4>1, <4>2
    <3> QED
      BY <3>1
  <2>5. CASE Allowed
    <3>1. A(4) % Wrap >= Window
      BY <1>1, <2>5, AgesAreNumbers
    <3>2. A(4) >= Window
      <4>1. \A a \in Nat : a % Wrap <= a
        OBVIOUS
      <4> QED
        BY <2>2, <3>1, <4>1
    <3>3. passed'[1] = 0 /\ \A k \in 1 .. 4 : passed'[k + 1] = passed[k]
      BY <2>1, <2>4, <2>5 DEF History
    <3>4. passed[4] >= Window
      BY <2>2, <2>4, <3>2 DEF BurstInv
    <3>5. passed'[5] >= Window
      BY <3>3, <3>4
    <3>6. ASSUME NEW k \in 1 .. 5
          PROVE  (passed[k])' = Window \/ (passed[k])' >= A(k)'
      <4>1. CASE k = 1
        BY <2>3, <3>3, <4>1
      <4>2. CASE k # 1
        <5>1. PICK j \in 1 .. 4 : k = j + 1
          BY <4>2
        <5>2. A(j + 1)' = A(j) /\ passed'[j + 1] = passed[j]
          BY <2>3, <3>3
        <5>3. passed[j] = Window \/ passed[j] >= A(j)
          BY DEF BurstInv
        <5> QED
          BY <5>1, <5>2, <5>3
      <4> QED
        BY <4>1, <4>2
    <3> QED
      BY <1>1, <2>7, <3>5, <3>6 DEF BurstInv
  <2>6. CASE ~Allowed
    <3>1. passed' = passed
      BY <2>1, <2>6 DEF History
    <3>2. ASSUME NEW k \in 1 .. 5
          PROVE  (passed[k])' = Window \/ (passed[k])' >= A(k)'
      <4>1. CASE k = 1
        BY <1>1, <2>3, <2>4, <3>1, <4>1
      <4>2. CASE k # 1
        <5>1. PICK j \in 1 .. 4 : k = j + 1
          BY <4>2
        <5>2. A(j + 1)' = A(j) /\ A(j) <= A(j + 1)
          BY <2>3 DEF BurstInv
        <5>3. passed[j + 1] = Window \/ passed[j + 1] >= A(j + 1)
          BY DEF BurstInv
        <5>4. A(j) \in Nat /\ A(j + 1) \in Nat /\ passed[j + 1] \in Nat
          BY <2>2, <2>4
        <5> QED
          BY <3>1, <5>1, <5>2, <5>3, <5>4
      <4> QED
        BY <4>1, <4>2
    <3> QED
      BY <1>1, <2>7, <3>1, <3>2 DEF BurstInv
  <2> QED
    BY <2>5, <2>6
<1> QED
  BY <1>2, <1>3

LEMMA BurstInvStep ==
    ASSUME BurstInv, [LimiterNext]_limiterVars
    PROVE  BurstInv'
<1> USE WindowAssumption
<1>1. CASE \E sent \in BOOLEAN : SendEvent(sent)
  BY <1>1, SendKeepsBurstInv
<1>2. CASE Older(1)
  <2>1. LimiterTypeOK /\ LimiterTypeOK'
    BY <1>2, LimiterStepTyped DEF BurstInv
  <2>2. \A k \in 1 .. 5 : A(k) \in Nat /\ A(k)' = A(k) + 1
    BY <1>2, <2>1, AgesAreNumbers, AllOlder
  <2>3. /\ passed \in [1 .. 5 -> 0 .. Window]
        /\ \A k \in 1 .. 5 : passed'[k] = IF passed[k] + 1 < Window
                                         THEN passed[k] + 1 ELSE Window
    BY <1>2, <2>1 DEF Older, LimiterTypeOK
  <2>4. ASSUME NEW k \in 1 .. 5
        PROVE  (passed[k])' = Window \/ (passed[k])' >= A(k)'
    <3>1. passed[k] = Window \/ passed[k] >= A(k)
      BY DEF BurstInv
    <3> QED
      BY <2>2, <2>3, <3>1
  <2>5. \A k \in 1 .. 4 : A(k)' <= A(k + 1)'
    BY <2>2 DEF BurstInv
  <2>6. passed'[5] >= Window
    BY <2>3 DEF BurstInv
  <2> QED
    BY <2>1, <2>4, <2>5, <2>6 DEF BurstInv
<1>3. CASE \E b \in BOOLEAN : Updating(b)
  <2>1. LimiterTypeOK'
    BY <1>3, LimiterStepTyped DEF BurstInv
  <2>2. age' = age /\ next' = next /\ passed' = passed
    BY <1>3 DEF Updating
  <2> QED
    BY <2>1, <2>2 DEF BurstInv, A
<1>4. CASE UNCHANGED limiterVars
  BY <1>4 DEF BurstInv, A, limiterVars, LimiterTypeOK
<1> QED
  BY <1>1, <1>2, <1>3, <1>4 DEF LimiterNext

\* Whoever publishes, and however often: no more than four events pass within
\* a window.
THEOREM BurstsBounded == LimiterSpec => []BurstBound
<1> USE WindowAssumption
<1>1. LimiterInit => BurstInv
  <2>1. SUFFICES ASSUME LimiterInit PROVE BurstInv
    OBVIOUS
  <2> QED
    BY <2>1, LimiterInitTyped DEF BurstInv
<1>2. BurstInv /\ [LimiterNext]_limiterVars => BurstInv'
  BY BurstInvStep
<1>3. BurstInv => BurstBound
  BY DEF BurstInv, BurstBound
<1> QED
  BY <1>1, <1>2, <1>3, PTL DEF LimiterSpec

\* The ring, its index and the history of the limiter keep their types, whoever
\* publishes and for every window.
THEOREM LimiterTypeCorrect == LimiterSpec => []LimiterTypeOK
<1>1. LimiterInit => LimiterTypeOK
  BY LimiterInitTyped
<1>2. LimiterTypeOK /\ [LimiterNext]_limiterVars => LimiterTypeOK'
  <2>1. ASSUME LimiterTypeOK, UNCHANGED limiterVars PROVE LimiterTypeOK'
    BY <2>1 DEF limiterVars, LimiterTypeOK
  <2> QED
    BY <2>1, LimiterStepTyped DEF LimiterNext
<1> QED
  BY <1>1, <1>2, PTL DEF LimiterSpec

-----------------------------------------------------------------------------
(* The strikes.  Lags says how old the last four attempts are at each place *)
(* of the loop: a debounce between strikes, G = Window - BounceDelay of it   *)
(* needed, and what has passed of the running debounce.                      *)

G == Window - BounceDelay

Lags ==
    CASE pc \in {"idle", "poll", "data"} ->
             A(1) >= G /\ A(2) >= G /\ A(3) >= Window /\ A(4) >= Window
      [] pc = "json" ->
             A(2) >= G /\ A(3) >= G /\ A(4) >= Window
      [] pc = "delay" ->
             LET e == BounceDelay - wait
             IN  /\ A(1) >= e /\ A(2) >= e
                 /\ A(3) >= G + e /\ A(4) >= G + e

\* No age comes near the overflow of millis().
Recent ==
    /\ A(1) <= MaxGap
    /\ \A k \in 1 .. 3 : A(k + 1) <= A(k) + MaxGap

\* TypeOK alone is not inductive: the sensor of a strike is one that exists.
Typed == TypeOK /\ (pc \in {"data", "json", "delay"} => sensor < Sensors)

LoopInv == Typed /\ Lags /\ Recent

LEMMA LoopInit ==
    ASSUME Init
    PROVE  LoopInv
<1> USE WindowAssumption, GapAssumption, SensorsAssumption, BounceAssumption
<1>1. LimiterTypeOK /\ \A k \in 1 .. 5 : A(k) = Window
  BY LimiterInitTyped DEF Init
<1>2. TypeOK
  <2>1. sensor \in 0 .. Sensors /\ wait \in 0 .. BounceDelay
    BY DEF Init
  <2>2. /\ flash \in BOOLEAN /\ link \in Links
        /\ pc \in {"idle", "poll", "data", "json", "delay"}
    BY DEF Init, Links
  <2> QED
    BY <1>1, <2>1, <2>2 DEF TypeOK
<1>3. Lags
  BY <1>1 DEF Init, Lags, G
<1>4. Recent
  BY <1>1 DEF Recent
<1> QED
  BY <1>2, <1>3, <1>4 DEF LoopInv, Typed, Init

\* What a strike asks of the limiter: the send of its event succeeds over a sound
\* connection.
LEMMA PublishSends ==
    ASSUME Publish
    PROVE  \E sent \in BOOLEAN : SendEvent(sent) /\ (link = "sound" => sent)
  BY DEF Publish

LEMMA LoopTyped ==
    ASSUME Typed, [Next]_vars
    PROVE  Typed'
<1> USE SensorsAssumption, BounceAssumption
<1>1. ASSUME UNCHANGED limiterVars
      PROVE  LimiterTypeOK'
  BY <1>1 DEF Typed, TypeOK, LimiterTypeOK, limiterVars
<1>2. ASSUME \/ \E sent \in BOOLEAN : SendEvent(sent)
             \/ Older(1)
             \/ \E b \in BOOLEAN : Updating(b)
      PROVE  LimiterTypeOK'
  BY <1>2, LimiterStepTyped DEF Typed, TypeOK
<1>3. CASE StartLoop \/ Struck \/ NotStruck \/ EndLoop
  <2>1. sensor' \in 0 .. Sensors
    BY <1>3 DEF StartLoop, Struck, NotStruck, EndLoop, Typed, TypeOK
  <2>2. limiterVars' = limiterVars /\ flash' = flash /\ link' = link /\ wait' = wait
        /\ pc' \in {"idle", "poll", "data"}
    BY <1>3 DEF StartLoop, Struck, NotStruck, EndLoop
  <2>3. pc' = "data" => sensor' < Sensors
    BY <1>3 DEF StartLoop, Struck, NotStruck, EndLoop
  <2> QED
    BY <1>1, <2>1, <2>2, <2>3 DEF Typed, TypeOK
<1>11. CASE EndDelay
  <2>1. sensor' \in 0 .. Sensors
    BY <1>11 DEF EndDelay, Typed, TypeOK
  <2> QED
    BY <1>1, <1>11, <2>1 DEF EndDelay, Typed, TypeOK
<1>4. CASE PublishData \/ PublishJson
  <2>1. LimiterTypeOK'
    BY <1>2, <1>4, PublishSends DEF PublishData, PublishJson
  <2> QED
    BY <1>4, <2>1 DEF PublishData, PublishJson, Typed, TypeOK
<1>5. CASE Millisecond
  <2>1. wait' \in 0 .. BounceDelay
    BY <1>5 DEF Millisecond, Typed, TypeOK
  <2> QED
    BY <1>2, <1>5, <2>1 DEF Millisecond, Typed, TypeOK
<1>6. CASE UpdateBegins
  <2>1. LimiterTypeOK'
    BY <1>2, <1>6 DEF UpdateBegins
  <2> QED
    BY <1>6, <2>1 DEF UpdateBegins, Served, Typed, TypeOK
<1>7. CASE UpdateEnds
  <2>1. LimiterTypeOK'
    BY <1>2, <1>7 DEF UpdateEnds
  <2> QED
    BY <1>7, <2>1 DEF UpdateEnds, Served, Typed, TypeOK
<1>8. CASE ConnectionLost
  BY <1>1, <1>8 DEF ConnectionLost, Served, Typed, TypeOK, Links
<1>9. CASE Handshake
  <2>1. LimiterTypeOK'
    BY <1>2, <1>9 DEF Handshake
  <2> QED
    BY <1>9, <2>1 DEF Handshake, Served, Typed, TypeOK
<1>10. CASE UNCHANGED vars
  BY <1>1, <1>10 DEF vars, Typed, TypeOK
<1>12. CASE LinkFails
  BY <1>1, <1>12 DEF LinkFails, Typed, TypeOK, Links
<1> QED
  BY <1>3, <1>4, <1>5, <1>6, <1>7, <1>8, <1>9, <1>10, <1>11, <1>12 DEF Next

\* What an attempt does to the ages: they shift, or an update is running and
\* nothing is recorded.
LEMMA Attempt ==
    ASSUME LimiterTypeOK, NEW sent \in BOOLEAN, SendEvent(sent)
    PROVE  \/ A(1)' = 0 /\ A(2)' = A(1) /\ A(3)' = A(2) /\ A(4)' = A(3)
           \/ \A k \in 1 .. 4 : A(k)' = A(k)
<1>1. CASE updating
  BY <1>1 DEF SendEvent, A
<1>2. CASE ~updating
  <2>1. \A k \in 1 .. 4 : A(k + 1)' = A(k)
    BY <1>2, Shift DEF SendEvent
  <2>2. A(1 + 1)' = A(1) /\ A(2 + 1)' = A(2) /\ A(3 + 1)' = A(3)
    BY <2>1
  <2>3. A(1)' = 0
    BY <1>2, Shift DEF SendEvent
  <2> QED
    BY <2>2, <2>3
<1> QED
  BY <1>1, <1>2

LEMMA SameAges ==
    ASSUME age' = age, next' = next
    PROVE  \A k \in 1 .. 4 : A(k)' = A(k)
  BY DEF A

LEMMA RecentStep ==
    ASSUME LoopInv, [Next]_vars
    PROVE  Recent'
<1> USE GapAssumption
<1>1. LimiterTypeOK /\ Recent
  BY DEF LoopInv, Typed, TypeOK
<1>2. A(1) \in Nat /\ A(2) \in Nat /\ A(3) \in Nat /\ A(4) \in Nat
  BY <1>1, AgesAreNumbers
<1>3. /\ A(1) <= MaxGap /\ A(2) <= A(1) + MaxGap
      /\ A(3) <= A(2) + MaxGap /\ A(4) <= A(3) + MaxGap
  <2>1. A(1 + 1) <= A(1) + MaxGap /\ A(2 + 1) <= A(2) + MaxGap
        /\ A(3 + 1) <= A(3) + MaxGap
    BY <1>1 DEF Recent
  <2> QED
    BY <1>1, <2>1 DEF Recent
<1>4. SUFFICES /\ A(1)' <= MaxGap /\ A(2)' <= A(1)' + MaxGap
               /\ A(3)' <= A(2)' + MaxGap /\ A(4)' <= A(3)' + MaxGap
  <2>1. ASSUME NEW k \in 1 .. 3
        PROVE  A(k + 1)' <= A(k)' + MaxGap
    <3>1. k = 1 \/ k = 2 \/ k = 3
      OBVIOUS
    <3>2. A(1 + 1)' = A(2)' /\ A(2 + 1)' = A(3)' /\ A(3 + 1)' = A(4)'
      OBVIOUS
    <3> QED
      BY <1>4, <3>1, <3>2
  <2> QED
    BY <1>4, <2>1 DEF Recent
<1>5. CASE PublishData \/ PublishJson
  <2>1. PICK sent \in BOOLEAN : SendEvent(sent)
    BY <1>5, PublishSends DEF PublishData, PublishJson
  <2> QED
    BY <1>1, <1>2, <1>3, <2>1, Attempt
<1>6. CASE Millisecond
  <2>1. A(1)' <= MaxGap /\ \A k \in 1 .. 5 : A(k)' = A(k) + 1
    BY <1>1, <1>6, AllOlder DEF Millisecond
  <2> QED
    BY <1>2, <1>3, <2>1
<1>7. CASE age' = age /\ next' = next
  BY <1>3, <1>7, SameAges
<1> QED
  BY <1>5, <1>6, <1>7 DEF Next, vars, limiterVars, StartLoop, Struck, NotStruck,
     EndLoop, EndDelay, UpdateBegins, UpdateEnds, ConnectionLost, Handshake,
     LinkFails, Updating

LEMMA KeepsUp ==
    ASSUME NEW a \in Nat, NEW d \in Int, NEW e \in Int, a >= d, e <= d + 1
    PROVE  a + 1 >= e
  OBVIOUS

LEMMA KeepsUpBehind ==
    ASSUME NEW a \in Nat, NEW g \in Int, NEW d \in Int, NEW e \in Int,
           a >= g + d, e <= d + 1
    PROVE  a + 1 >= g + e
  OBVIOUS

LEMMA LagsStep ==
    ASSUME LoopInv, [Next]_vars
    PROVE  Lags'
<1> USE WindowAssumption, BounceAssumption
<1>1. LimiterTypeOK /\ Lags
      /\ pc \in {"idle", "poll", "data", "json", "delay"}
      /\ wait \in 0 .. BounceDelay
  BY DEF LoopInv, Typed, TypeOK
<1>2. A(1) \in Nat /\ A(2) \in Nat /\ A(3) \in Nat /\ A(4) \in Nat
  BY <1>1, AgesAreNumbers
<1>3. CASE PublishData
  <2>1. A(1) >= G /\ A(2) >= G /\ A(3) >= Window /\ A(4) >= Window
    BY <1>1, <1>3 DEF PublishData, Lags
  <2>3. PICK sent \in BOOLEAN : SendEvent(sent)
    BY <1>3, PublishSends DEF PublishData
  <2>2. A(2)' >= G /\ A(3)' >= G /\ A(4)' >= Window
    BY <1>1, <1>2, <2>1, <2>3, Attempt DEF G
  <2> QED
    BY <1>3, <2>2 DEF PublishData, Lags
<1>4. CASE PublishJson
  <2>1. A(2) >= G /\ A(3) >= G /\ A(4) >= Window
    BY <1>1, <1>4 DEF PublishJson, Lags
  <2>4. PICK sent \in BOOLEAN : SendEvent(sent)
    BY <1>4, PublishSends DEF PublishJson
  <2>2. A(1)' >= 0 /\ A(2)' >= 0 /\ A(3)' >= G /\ A(4)' >= G
    BY <1>1, <1>2, <2>1, <2>4, Attempt DEF G
  <2>3. pc' = "delay" /\ BounceDelay - wait' = 0 /\ G + 0 = G
    BY <1>4 DEF PublishJson, G
  <2> QED
    BY <2>2, <2>3 DEF Lags
<1>5. CASE EndDelay
  <2>1. /\ A(1) >= BounceDelay /\ A(2) >= BounceDelay
        /\ A(3) >= G + BounceDelay /\ A(4) >= G + BounceDelay
    BY <1>1, <1>5 DEF EndDelay, Lags
  <2>2. A(1) >= G /\ A(2) >= G /\ A(3) >= Window /\ A(4) >= Window
    BY <1>2, <2>1 DEF G
  <2>3. \A k \in 1 .. 4 : A(k)' = A(k)
    BY <1>5, SameAges DEF EndDelay, limiterVars
  <2> QED
    BY <1>5, <2>2, <2>3 DEF EndDelay, Lags
<1>6. CASE Millisecond
  <2>1. \A k \in 1 .. 5 : A(k)' = A(k) + 1
    BY <1>1, <1>6, AllOlder DEF Millisecond
  <2>2. pc' = pc /\ (pc = "delay" => wait' = wait \/ wait' = wait - 1)
    BY <1>6 DEF Millisecond
  <2>3. CASE pc = "delay"
    <3> DEFINE e == BounceDelay - wait
    <3>1. /\ A(1) >= e /\ A(2) >= e
          /\ A(3) >= G + e /\ A(4) >= G + e
      BY <1>1, <2>3 DEF Lags
    <3>2. BounceDelay - wait' <= e + 1 /\ wait' \in Int
      BY <1>1, <2>2, <2>3
    <3>3. /\ A(1)' >= BounceDelay - wait' /\ A(2)' >= BounceDelay - wait'
          /\ A(3)' >= G + (BounceDelay - wait')
          /\ A(4)' >= G + (BounceDelay - wait')
      <4>1. /\ A(1)' = A(1) + 1 /\ A(2)' = A(2) + 1
            /\ A(3)' = A(3) + 1 /\ A(4)' = A(4) + 1
        BY <2>1
      <4>2. e \in Int /\ G \in Int /\ BounceDelay - wait' \in Int
        BY <1>1, <3>2 DEF G
      <4>3. A(1)' >= BounceDelay - wait' /\ A(2)' >= BounceDelay - wait'
        BY <1>2, <3>1, <3>2, <4>1, <4>2, KeepsUp
      <4>4. A(3)' >= G + (BounceDelay - wait') /\ A(4)' >= G + (BounceDelay - wait')
        BY <1>2, <3>1, <3>2, <4>1, <4>2, KeepsUpBehind
      <4> QED
        BY <4>3, <4>4
    <3> QED
      BY <2>2, <2>3, <3>3 DEF Lags
  <2>4. CASE pc = "json"
    <3>1. A(2) >= G /\ A(3) >= G /\ A(4) >= Window
      BY <1>1, <2>4 DEF Lags
    <3>2. A(2)' >= G /\ A(3)' >= G /\ A(4)' >= Window
      BY <1>2, <2>1, <3>1 DEF G
    <3> QED
      BY <2>2, <2>4, <3>2 DEF Lags
  <2>5. CASE pc \in {"idle", "poll", "data"}
    <3>1. A(1) >= G /\ A(2) >= G /\ A(3) >= Window /\ A(4) >= Window
      BY <1>1, <2>5 DEF Lags
    <3>2. A(1)' >= G /\ A(2)' >= G /\ A(3)' >= Window /\ A(4)' >= Window
      BY <1>2, <2>1, <3>1 DEF G
    <3> QED
      BY <2>2, <2>5, <3>2 DEF Lags
  <2> QED
    BY <1>1, <2>3, <2>4, <2>5
<1>7. CASE StartLoop \/ Struck \/ NotStruck \/ EndLoop
  <2>1. /\ age' = age /\ next' = next
        /\ pc \in {"idle", "poll"} /\ pc' \in {"idle", "poll", "data"}
    BY <1>7 DEF StartLoop, Struck, NotStruck, EndLoop, limiterVars
  <2>2. \A k \in 1 .. 4 : A(k)' = A(k)
    BY <2>1, SameAges
  <2>3. A(1) >= G /\ A(2) >= G /\ A(3) >= Window /\ A(4) >= Window
    BY <1>1, <2>1 DEF Lags
  <2>4. /\ A(1)' >= G /\ A(2)' >= G /\ A(3)' >= Window /\ A(4)' >= Window
    BY <2>2, <2>3
  <2>5. pc' # "json" /\ pc' # "delay"
    BY <2>1
  <2> QED
    BY <2>1, <2>4, <2>5 DEF Lags
<1>8. CASE age' = age /\ next' = next /\ pc' = pc /\ wait' = wait
  BY <1>1, <1>8 DEF Lags, A
<1> QED
  BY <1>3, <1>4, <1>5, <1>6, <1>7, <1>8 DEF Next, vars, limiterVars, UpdateBegins,
     UpdateEnds, ConnectionLost, Handshake, LinkFails, Served, Updating

\* The loop of the application keeps its variables in their types.
THEOREM LoopTypeCorrect == Spec => []TypeOK
<1>1. Init => Typed
  BY LoopInit DEF LoopInv
<1>2. Typed /\ [Next]_vars => Typed'
  BY LoopTyped
<1>3. Typed => TypeOK
  BY DEF Typed
<1> QED
  BY <1>1, <1>2, <1>3, PTL DEF Spec

LEMMA LoopNeverLimits == LoopInv => NeverLimited
<1>1. SUFFICES ASSUME LoopInv, pc \in {"data", "json"} PROVE Allowed
  BY DEF NeverLimited
<1> USE WindowAssumption, WrapAssumption, GapAssumption, QuietAssumption
<1>2. /\ A(1) \in Nat /\ A(2) \in Nat /\ A(3) \in Nat /\ A(4) \in Nat
      /\ Allowed <=> A(4) % Wrap >= Window
  BY <1>1, AgesAreNumbers DEF LoopInv, Typed, TypeOK
<1>3. A(4) >= Window
  BY <1>1 DEF LoopInv, Lags
<1>4. A(4) < Wrap
  <2>1. A(1) <= MaxGap /\ A(1 + 1) <= A(1) + MaxGap
        /\ A(2 + 1) <= A(2) + MaxGap /\ A(3 + 1) <= A(3) + MaxGap
    BY <1>1 DEF LoopInv, Recent
  <2>2. A(2) <= A(1) + MaxGap /\ A(3) <= A(2) + MaxGap /\ A(4) <= A(3) + MaxGap
    BY <2>1
  <2> QED
    BY <1>2, <2>1, <2>2
<1>5. A(4) % Wrap = A(4)
  <2>1. \A a, m \in Nat : a < m => a % m = a
    OBVIOUS
  <2> QED
    BY <1>2, <1>4, <2>1
<1> QED
  BY <1>2, <1>3, <1>5

\* With a debounce of half the window, no event of a strike is ever refused by
\* the limiter, for any number of sensors and any order of strikes.
THEOREM StrikesAreNeverLimited == Spec => []NeverLimited
<1>1. Init => LoopInv
  BY LoopInit
<1>2. LoopInv /\ [Next]_vars => LoopInv'
  BY LoopTyped, RecentStep, LagsStep DEF LoopInv
<1> QED
  BY <1>1, <1>2, LoopNeverLimits, PTL DEF Spec

\* On a connection an update keeps the application waiting, so that none runs where
\* a strike is published; a connection found sound at the second event was sound at
\* the first, which was therefore sent.
Undisturbed ==
    /\ link # "none" /\ updating => flash
    /\ pc \in {"poll", "data", "json"} => ~flash
    /\ pc = "json" /\ link = "sound" => answer

LEMMA UndisturbedStep ==
    ASSUME LoopInv, Undisturbed, [Next]_vars
    PROVE  Undisturbed'
<1> USE DEF Undisturbed
<1>1. CASE PublishData
  <2>1. Allowed /\ ~flash
    BY <1>1, LoopNeverLimits DEF PublishData, NeverLimited
  <2>2. PICK sent \in BOOLEAN : SendEvent(sent) /\ (link = "sound" => sent)
    BY <1>1, PublishSends DEF PublishData
  <2>3. updating' = updating
    BY <2>2 DEF SendEvent
  <2>4. link = "sound" => answer'
    BY <2>1, <2>2 DEF SendEvent
  <2> QED
    BY <1>1, <2>1, <2>3, <2>4 DEF PublishData
<1>2. CASE PublishJson
  <2>1. PICK sent \in BOOLEAN : SendEvent(sent)
    BY <1>2, PublishSends DEF PublishJson
  <2>2. updating' = updating
    BY <2>1 DEF SendEvent
  <2> QED
    BY <1>2, <2>2 DEF PublishJson
<1>3. CASE Millisecond
  BY <1>3 DEF Millisecond, Older
<1>4. CASE StartLoop \/ Struck \/ NotStruck \/ EndLoop \/ EndDelay
  BY <1>4 DEF StartLoop, Struck, NotStruck, EndLoop, EndDelay, limiterVars
<1>5. CASE UpdateBegins
  BY <1>5 DEF UpdateBegins, Served, Updating
<1>6. CASE UpdateEnds
  BY <1>6 DEF UpdateEnds, Served, Updating
<1>7. CASE ConnectionLost
  BY <1>7 DEF ConnectionLost, Served, limiterVars
<1>8. CASE Handshake
  BY <1>8 DEF Handshake, Served, Updating
<1>9. CASE LinkFails
  BY <1>9 DEF LinkFails, limiterVars
<1>10. CASE UNCHANGED vars
  BY <1>10 DEF vars, limiterVars
<1> QED
  BY <1>1, <1>2, <1>3, <1>4, <1>5, <1>6, <1>7, <1>8, <1>9, <1>10 DEF Next

\* A strike that finds a connection whose sends succeed is sent as both events:
\* no update refuses one of them, whether it begins, ends or is cut short by a lost
\* connection, and neither does the limiter, for any number of sensors.
THEOREM StrikesAreSentInFull == Spec => SentInFull
<1>1. Init => LoopInv /\ Undisturbed
  BY LoopInit DEF Init, LimiterInit, Undisturbed
<1>2. LoopInv /\ Undisturbed /\ [Next]_vars => (LoopInv /\ Undisturbed)'
  BY LoopTyped, RecentStep, LagsStep, UndisturbedStep DEF LoopInv
<1>3. LoopInv /\ Undisturbed
      => [PublishJson /\ link = "sound" => answer /\ answer']_vars
  <2> SUFFICES ASSUME LoopInv, Undisturbed, PublishJson, link = "sound"
               PROVE  answer /\ answer'
    OBVIOUS
  <2>1. pc = "json" /\ Publish /\ Allowed
    BY LoopNeverLimits DEF PublishJson, NeverLimited
  <2>2. answer /\ ~updating
    BY <2>1 DEF Undisturbed
  <2>3. PICK sent \in BOOLEAN : SendEvent(sent) /\ (link = "sound" => sent)
    BY <2>1, PublishSends
  <2> QED
    BY <2>1, <2>2, <2>3 DEF SendEvent
<1> QED
  BY <1>1, <1>2, <1>3, PTL DEF Spec, SentInFull

=============================================================================
