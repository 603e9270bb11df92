--------------------------- MODULE FirmwareProofs ---------------------------
(***************************************************************************)
(* Proofs about the reception of a firmware update: whatever the errors,   *)
(* repetitions and broken connections, an update that is reported complete *)
(* is complete (OnlyCompleteUpdatesFinish), and a device that receives one *)
(* has its watchdog running (WatchdogAlwaysArmed), for every size of file  *)
(* and of batch and all timeouts.                                          *)
(***************************************************************************)
EXTENDS FirmwareUpdate, FiniteSetTheorems, WellFoundedInduction, TLAPS

\* The two flags agree on a link; a slow update fills the file from its start;
\* in a fast one the bitmap is what is saved; the outcome is open until the end.
Transfer ==
    /\ updating \in 0 .. 2
    /\ saved \subseteq Chunks /\ received \subseteq Chunks
    /\ WatchdogArmed
    /\ updating = 2 => fast
    /\ updating # 0 => outcome = "none"
    /\ updating # 0 /\ fast => received = saved
    /\ updating # 0 /\ ~fast => /\ received = Chunks
                                /\ chunk \in 0 .. ChunkCount
                                /\ sending = chunk .. ChunkCount - 1
                                /\ saved = 0 .. chunk - 1
    /\ FinishOnlyComplete

\* The least element of an interval is its lower end.
LEMMA MinOfInterval ==
    ASSUME NEW a \in Int, NEW b \in Int, a <= b
    PROVE  Min(a .. b) = a
<1> DEFINE IsMin(x) == x \in a .. b /\ \A y \in a .. b : x <= y
<1>1. IsMin(a) /\ \A x : IsMin(x) => x = a
  OBVIOUS
<1> QED
  BY <1>1 DEF Min

LEMMA TransferInit == Init => Transfer
  BY CountsAssumption DEF Init, Transfer, WatchdogArmed, FinishOnlyComplete

\* An update is declared over only where all of it is saved.
LEMMA EndOfUpdate ==
    ASSUME AllThere, saved' = Chunks, received' \subseteq Chunks
    PROVE  Transfer'
  BY DEF AllThere, Finish, Transfer, WatchdogArmed, FinishOnlyComplete

\* The chunk that a slow update takes is the one whose turn it is.
LEMMA InTurn ==
    ASSUME Transfer, NEW c \in Chunks, HandleChunkInTurn(c)
    PROVE  Transfer'
<1> USE CountsAssumption
<1>1. /\ link /\ updating = 1 /\ ~fast
      /\ c \in sending /\ c = Min(sending)
  BY DEF HandleChunkInTurn, GoodChunk, Arrives, Received
<1>2. /\ chunk \in 0 .. ChunkCount
      /\ sending = chunk .. ChunkCount - 1 /\ saved = 0 .. chunk - 1
      /\ received = Chunks /\ flash /\ outcome = "none"
  BY <1>1 DEF Transfer, WatchdogArmed
<1>3. chunk <= ChunkCount - 1
  BY <1>1, <1>2
<1>4. c = chunk
  BY <1>1, <1>2, <1>3, MinOfInterval
<1>5. /\ chunk' = chunk + 1 /\ saved' = saved \cup {c} /\ sending' = sending \ {c}
      /\ received' = received \cup {c}
      /\ updating' = updating /\ fast' = fast /\ flash' = flash /\ outcome' = outcome
  BY <1>4 DEF HandleChunkInTurn, GoodChunk
<1>6. /\ saved' = 0 .. chunk' - 1 /\ saved' \subseteq Chunks
      /\ sending' = chunk' .. ChunkCount - 1 /\ chunk' \in 0 .. ChunkCount
      /\ received' = Chunks
  BY <1>2, <1>3, <1>4, <1>5 DEF Chunks
<1> QED
  BY <1>1, <1>2, <1>5, <1>6 DEF Transfer, WatchdogArmed, FinishOnlyComplete

\* A chunk that was asked for is one of a fast update; the last one completes it.
LEMMA Missed ==
    ASSUME Transfer, NEW c \in Chunks, HandleMissedChunk(c)
    PROVE  Transfer'
<1>1. /\ link /\ updating = 2 /\ fast' = fast /\ link' = link
      /\ saved' = saved \cup {c} /\ received' = received \cup {c}
  BY DEF HandleMissedChunk, MissedChunk, GoodChunk, Arrives, Received
<1>2. fast /\ received = saved /\ outcome = "none" /\ flash /\ saved \subseteq Chunks
  BY <1>1 DEF Transfer, WatchdogArmed
<1>3. saved' = received' /\ saved' \subseteq Chunks
  BY <1>1, <1>2
<1>4. CASE Missing(received') = {}
  <2>1. AllThere
    BY <1>4 DEF HandleMissedChunk
  <2>2. saved' = Chunks
    BY <1>3, <1>4 DEF Missing
  <2> QED
    BY <1>3, <2>1, <2>2, EndOfUpdate
<1>5. CASE Missing(received') # {}
  <2>1. updating' = updating /\ flash' = flash /\ outcome' = outcome
    BY <1>5 DEF HandleMissedChunk, SomeMissing
  <2> QED
    BY <1>1, <1>2, <1>3, <2>1 DEF Transfer, WatchdogArmed, FinishOnlyComplete
<1> QED
  BY <1>4, <1>5

\* The server's word that it has sent everything is checked against the bitmap.
LEMMA Done ==
    ASSUME Transfer, HandleUpdateDone
    PROVE  Transfer'
<1> USE CountsAssumption
<1>1. /\ link /\ updating = 1 /\ (~fast => sending = {})
      /\ saved' = saved /\ received' = received /\ fast' = fast /\ link' = link
  BY DEF HandleUpdateDone, Received
<1>2. /\ outcome = "none" /\ flash
      /\ saved \subseteq Chunks /\ received \subseteq Chunks
      /\ fast => received = saved
      /\ ~fast => /\ received = Chunks /\ chunk \in 0 .. ChunkCount
                  /\ sending = chunk .. ChunkCount - 1 /\ saved = 0 .. chunk - 1
  BY <1>1 DEF Transfer, WatchdogArmed
<1>3. CASE Missing(received) = {}
  <2>1. AllThere
    BY <1>3 DEF HandleUpdateDone
  <2>2. CASE fast
    BY <1>1, <1>2, <1>3, <2>1, <2>2, EndOfUpdate DEF Missing
  <2>3. CASE ~fast
    <3>1. chunk .. ChunkCount - 1 = {}
      BY <1>1, <1>2, <2>3
    <3>2. chunk = ChunkCount
      BY <1>2, <2>3, <3>1
    <3>3. saved = Chunks
      BY <1>2, <2>3, <3>2 DEF Chunks
    <3> QED
      BY <1>1, <1>2, <2>1, <3>3, EndOfUpdate
  <2> QED
    BY <2>2, <2>3
<1>4. CASE Missing(received) # {}
  <2>1. fast
    BY <1>2, <1>4 DEF Missing
  <2>2. updating' = 2 /\ flash' = flash /\ outcome' = outcome
    BY <1>4 DEF HandleUpdateDone
  <2> QED
    BY <1>1, <1>2, <2>1, <2>2 DEF Transfer, WatchdogArmed, FinishOnlyComplete
<1> QED
  BY <1>3, <1>4

LEMMA TransferStep == Transfer /\ [Next]_vars => Transfer'
<1> SUFFICES ASSUME Transfer, [Next]_vars PROVE Transfer'
  OBVIOUS
<1> USE CountsAssumption
<1>1. CASE HandleOther \/ HandleTime
  BY <1>1 DEF HandleOther, HandleTime, Received, systemVars, serverVars, Transfer,
     WatchdogArmed, FinishOnlyComplete
<1>2. ASSUME NEW f \in BOOLEAN, HandleUpdateBegin(f) PROVE Transfer'
  BY <1>2 DEF HandleUpdateBegin, Begin, Received, Transfer, Chunks,
     WatchdogArmed, FinishOnlyComplete
<1>3. ASSUME NEW c \in Chunks, HandleBadChunk(c) PROVE Transfer'
  BY <1>3 DEF HandleBadChunk, BadChunk, Arrives, Transfer,
     WatchdogArmed, FinishOnlyComplete
<1>4. ASSUME NEW c \in Chunks, HandleChunkInTurn(c) PROVE Transfer'
  BY <1>4, InTurn
<1>5. ASSUME NEW c \in Chunks, HandleChunkIndexed(c) PROVE Transfer'
  BY <1>5 DEF HandleChunkIndexed, GoodChunk, Arrives, Received, Transfer,
     WatchdogArmed, FinishOnlyComplete
<1>6. ASSUME NEW c \in Chunks, HandleMissedChunk(c) PROVE Transfer'
  BY <1>6, Missed
<1>7. CASE HandleUpdateDone
  BY <1>7, Done
<1>8. CASE NoMessage
  BY <1>8 DEF NoMessage, ChunkTimedOut, Ping, PingTimedOut, systemVars, serverVars,
     Transfer, WatchdogArmed, FinishOnlyComplete
<1>9. CASE HandlingFails \/ ReceiveFails \/ CloudDisconnect
  BY <1>9 DEF HandlingFails, ReceiveFails, CloudDisconnect, Finish, protocolVars,
     serverVars, Transfer, WatchdogArmed, FinishOnlyComplete
<1>10. CASE Handshake \/ HandshakeFails
  BY <1>10 DEF Handshake, Reconnect, HandshakeFails, Transfer,
     WatchdogArmed, FinishOnlyComplete
<1>11. CASE Tick
  BY <1>11 DEF Tick, Restarted, serverVars, Transfer, WatchdogArmed, FinishOnlyComplete
<1>12. CASE UNCHANGED vars
  BY <1>12 DEF vars, protocolVars, systemVars, serverVars, Transfer,
     WatchdogArmed, FinishOnlyComplete
<1> QED
  BY <1>1, <1>2, <1>3, <1>4, <1>5, <1>6, <1>7, <1>8, <1>9, <1>10, <1>11, <1>12 DEF Next

\* Spark_Finish_Firmware_Update is told of success only when every chunk of the
\* file has been saved at its place.
THEOREM OnlyCompleteUpdatesFinish == Spec => []FinishOnlyComplete
<1>1. Transfer => FinishOnlyComplete
  BY DEF Transfer
<1> QED
  BY <1>1, TransferInit, TransferStep, PTL DEF Spec

\* Whenever event_loop believes that it receives an update over a link, and so
\* sends no pings, the watchdog of the update is running.
THEOREM WatchdogAlwaysArmed == Spec => []WatchdogArmed
<1>1. Transfer => WatchdogArmed
  BY DEF Transfer
<1> QED
  BY <1>1, TransferInit, TransferStep, PTL DEF Spec

-----------------------------------------------------------------------------
(* Types.  A batch of missing chunks has a last one, because the second pass *)
(* only goes on while something is missing.                                 *)

\* A set of naturals has a least element.
LEMMA LeastExists ==
    ASSUME NEW S, S \subseteq Nat, S # {}
    PROVE  \E m \in S : \A x \in S : m <= x
<1>1. PICK m \in S : \A x \in S : ~(<<x, m>> \in OpToRel(<, Nat))
  BY NatLessThanWellFounded, WFMin
<1>2. \A x \in S : ~(x < m)
  BY <1>1 DEF OpToRel
<1> QED
  BY <1>2

\* A set of naturals with an upper bound has a greatest element.
LEMMA GreatestExists ==
    ASSUME NEW n \in Nat, NEW S, S \subseteq 0 .. n, S # {}
    PROVE  \E m \in S : \A x \in S : m >= x
<1> DEFINE U == {k \in Nat : \A x \in S : x <= k}
<1>1. n \in U
  OBVIOUS
<1>2. PICK m \in U : \A k \in U : m <= k
  BY <1>1, LeastExists
<1>3. m \in S
  <2> SUFFICES ASSUME m \notin S PROVE FALSE
    OBVIOUS
  <2>1. PICK s \in S : TRUE
    OBVIOUS
  <2>2. m - 1 \in Nat /\ \A x \in S : x <= m - 1
    BY <2>1, <1>2
  <2> QED
    BY <2>2, <1>2
<1> QED
  BY <1>2, <1>3

LEMMA MinOfSet ==
    ASSUME NEW S, S \subseteq Nat, S # {}
    PROVE  Min(S) \in S /\ \A x \in S : Min(S) <= x
BY LeastExists DEF Min

LEMMA MaxOfSet ==
    ASSUME NEW n \in Nat, NEW S, S \subseteq 0 .. n, S # {}
    PROVE  Max(S) \in S /\ \A x \in S : x <= Max(S)
<1>1. Max(S) \in S /\ \A x \in S : Max(S) >= x
  BY GreatestExists DEF Max
<1> QED
  BY <1>1

LEMMA Times ==
    /\ Longest \in Nat \ {0} /\ 0 \in 0 .. Longest /\ Longest \in 0 .. Longest
    /\ StuckTimeout \in Nat /\ 0 \in 0 .. StuckTimeout
    /\ \A t \in 0 .. Longest : Min({t + 1, Longest}) \in 0 .. Longest
<1> DEFINE T == {ChunkTimeout, PingAfter, PingTimeout}
<1>1. Longest \in Nat \ {0}
  <2>1. \E n \in T : \A m \in T : n >= m
    BY TimesAssumption
  <2>2. Max(T) \in T
    BY <2>1 DEF Max
  <2> QED
    BY <2>2, TimesAssumption DEF Longest
<1>2. ASSUME NEW t \in 0 .. Longest PROVE Min({t + 1, Longest}) \in 0 .. Longest
  <2> DEFINE S == {t + 1, Longest}
  <2>1. S \subseteq Nat /\ S # {}
    BY <1>1
  <2>2. Min(S) \in S /\ \A x \in S : Min(S) <= x
    BY <2>1, MinOfSet
  <2> QED
    BY <1>1, <2>1, <2>2
<1> QED
  BY <1>1, <1>2, TimesAssumption

LEMMA Starts ==
    /\ 0 \in 0 .. Longest /\ Longest \in 0 .. Longest /\ 0 \in 0 .. StuckTimeout
    /\ 0 \in Chunks /\ 0 \in 0 .. ChunkCount
    /\ None \in [Chunks -> 0 .. MaxAsked]
  BY Times, CountsAssumption DEF Chunks, None

LEMMA Places ==
    ASSUME NEW c \in Chunks
    PROVE  c \in 0 .. ChunkCount /\ c + 1 \in 0 .. ChunkCount
  BY CountsAssumption DEF Chunks

LEMMA FirstOfSome ==
    ASSUME NEW S, S \subseteq Chunks, S # {}
    PROVE  Max(FirstOf(S)) \in S
<1>1. S \subseteq Nat
  BY CountsAssumption DEF Chunks
<1>2. PICK m \in S : \A x \in S : m <= x
  BY <1>1, LeastExists
<1>3. {d \in S : d < m} = {}
  <2>1. m \in Nat /\ \A d \in S : d \in Nat /\ m <= d
    BY <1>1, <1>2
  <2>2. ASSUME NEW d \in S, d < m PROVE FALSE
    BY <2>1, <2>2
  <2> QED
    BY <2>2
<1>4. m \in FirstOf(S)
  BY <1>3, FS_EmptySet, CountsAssumption DEF FirstOf
<1>5. FirstOf(S) \subseteq S /\ FirstOf(S) \subseteq 0 .. ChunkCount /\ ChunkCount \in Nat
  <2>1. Chunks \subseteq 0 .. ChunkCount /\ ChunkCount \in Nat
    BY CountsAssumption DEF Chunks
  <2>2. FirstOf(S) \subseteq S
    BY DEF FirstOf
  <2> QED
    BY <2>1, <2>2
<1> QED
  BY <1>4, <1>5, MaxOfSet

LEMMA BatchTyped ==
    ASSUME NEW have, NEW left \in [Chunks -> 0 .. MaxAsked], Missing(have) # {},
           SendMissingChunks(have, left)
    PROVE  missed' \in Chunks /\ asked' \in [Chunks -> 0 .. MaxAsked]
<1>1. missed' \in Chunks
  BY FirstOfSome DEF SendMissingChunks, Missing
<1>2. asked' \in [Chunks -> 0 .. MaxAsked]
  BY CountsAssumption DEF SendMissingChunks
<1> QED
  BY <1>1, <1>2

\* The second pass has something to wait for.
Wanted == updating = 2 => Missing(received) # {}

TypeInv == Transfer /\ TypeOK /\ Wanted

LEMMA TypeInit == Init => TypeInv
<1> SUFFICES ASSUME Init PROVE TypeInv
  OBVIOUS
<1>1. received \subseteq Chunks /\ saved \subseteq Chunks /\ sending \subseteq Chunks
  BY DEF Init
<1>2. chunk \in 0 .. ChunkCount /\ missed \in Chunks /\ asked \in [Chunks -> 0 .. MaxAsked]
  BY Starts DEF Init
<1>3. sinceChunk \in 0 .. Longest /\ sinceMessage \in 0 .. Longest /\ stuck \in 0 .. StuckTimeout
  BY Starts DEF Init
<1>4. link \in BOOLEAN /\ flash \in BOOLEAN /\ awaitingAck \in BOOLEAN /\ fast \in BOOLEAN
  BY DEF Init
<1>5. updating \in 0 .. 2 /\ outcome \in {"none", "complete", "aborted"}
  BY DEF Init
<1>6. TypeOK
  BY <1>1, <1>2, <1>3, <1>4, <1>5 DEF TypeOK
<1>7. Wanted
  BY DEF Init, Wanted
<1> QED
  BY <1>6, <1>7, TransferInit DEF TypeInv

\* The end of an update.
LEMMA AllThereTyped ==
    ASSUME TypeOK, AllThere,
           received' \subseteq Chunks, saved' \subseteq Chunks, sending' \subseteq Chunks,
           chunk' \in 0 .. ChunkCount, sinceMessage' \in 0 .. Longest,
           link' \in BOOLEAN, fast' \in BOOLEAN, awaitingAck' \in BOOLEAN
    PROVE  TypeOK' /\ Wanted'
<1>1. asked' \in [Chunks -> 0 .. MaxAsked] /\ missed' \in Chunks
  BY Starts DEF AllThere, TypeOK
<1>2. sinceChunk' \in 0 .. Longest /\ stuck' \in 0 .. StuckTimeout
  BY Starts DEF AllThere, Finish
<1>3. updating' \in 0 .. 2 /\ outcome' \in {"none", "complete", "aborted"}
  BY DEF AllThere, Finish
<1>4. flash' \in BOOLEAN
  BY DEF AllThere, Finish
<1> QED
  BY <1>1, <1>2, <1>3, <1>4 DEF TypeOK, Wanted, AllThere

LEMMA AskedLess ==
    ASSUME TypeOK, NEW c \in Chunks, asked[c] > 0
    PROVE  OneLess(c) \in [Chunks -> 0 .. MaxAsked]
  BY CountsAssumption DEF OneLess, TypeOK

LEMMA TypeStep == TypeInv /\ [Next]_vars => TypeInv'
<1> SUFFICES ASSUME TypeInv, [Next]_vars PROVE TypeOK' /\ Wanted'
  BY TransferStep DEF TypeInv
<1> USE DEF TypeInv
<1>1. CASE HandleOther
  <2>1. TypeOK'
    BY <1>1, Starts DEF HandleOther, Received, systemVars, serverVars, TypeOK
  <2>2. Wanted'
    BY <1>1 DEF HandleOther, Received, systemVars, serverVars, Wanted
  <2> QED
    BY <2>1, <2>2
<1>2. CASE HandleTime
  <2>1. TypeOK'
    BY <1>2, Starts DEF HandleTime, Received, systemVars, serverVars, TypeOK
  <2>2. Wanted'
    BY <1>2 DEF HandleTime, Received, systemVars, serverVars, Wanted
  <2> QED
    BY <2>1, <2>2
<1>3. ASSUME NEW f \in BOOLEAN, HandleUpdateBegin(f) PROVE TypeOK' /\ Wanted'
  <2>1. TypeOK'
    <3>1. received' \subseteq Chunks /\ saved' \subseteq Chunks /\ sending' \subseteq Chunks
      BY <1>3, Starts DEF HandleUpdateBegin, Begin, Received, TypeOK
    <3>2. chunk' \in 0 .. ChunkCount /\ missed' \in Chunks /\ asked' \in [Chunks -> 0 .. MaxAsked]
      BY <1>3, Starts DEF HandleUpdateBegin, Begin, Received, TypeOK
    <3>3. sinceChunk' \in 0 .. Longest /\ sinceMessage' \in 0 .. Longest /\ stuck' \in 0 .. StuckTimeout
      BY <1>3, Starts DEF HandleUpdateBegin, Begin, Received, TypeOK
    <3>4. link' \in BOOLEAN /\ flash' \in BOOLEAN /\ awaitingAck' \in BOOLEAN /\ fast' \in BOOLEAN
      BY <1>3, Starts DEF HandleUpdateBegin, Begin, Received, TypeOK
    <3>5. updating' \in 0 .. 2 /\ outcome' \in {"none", "complete", "aborted"}
      BY <1>3, Starts DEF HandleUpdateBegin, Begin, Received, TypeOK
    <3> QED
      BY <3>1, <3>2, <3>3, <3>4, <3>5 DEF TypeOK
  <2>2. Wanted'
    BY <1>3 DEF HandleUpdateBegin, Begin, Received, Wanted
  <2> QED
    BY <2>1, <2>2
<1>4. ASSUME NEW c \in Chunks, HandleBadChunk(c) PROVE TypeOK' /\ Wanted'
  <2>1. asked' \in [Chunks -> 0 .. MaxAsked]
    BY <1>4, AskedLess DEF HandleBadChunk, BadChunk, Arrives, TypeOK
  <2>2. chunk' \in 0 .. ChunkCount /\ sending' \subseteq Chunks
    BY <1>4, Places DEF HandleBadChunk, BadChunk, TypeOK
  <2>3. TypeOK'
    BY <1>4, <2>1, <2>2, Starts DEF HandleBadChunk, BadChunk, Arrives, Received, TypeOK
  <2> QED
    BY <1>4, <2>3 DEF HandleBadChunk, BadChunk, Wanted
<1>5. ASSUME NEW c \in Chunks, HandleChunkInTurn(c) PROVE TypeOK' /\ Wanted'
  <2>1. chunk' \in 0 .. ChunkCount
    BY <1>5, InTurn, Places DEF HandleChunkInTurn, GoodChunk, Arrives, Transfer
  <2>2. saved' \subseteq Chunks /\ sending' \subseteq Chunks /\ received' \subseteq Chunks
    BY <1>5 DEF HandleChunkInTurn, GoodChunk, TypeOK
  <2>3. TypeOK'
    BY <1>5, <2>1, <2>2, Starts DEF HandleChunkInTurn, GoodChunk, Arrives, Received, TypeOK
  <2> QED
    BY <1>5, <2>3 DEF HandleChunkInTurn, Wanted
<1>6. ASSUME NEW c \in Chunks, HandleChunkIndexed(c) PROVE TypeOK' /\ Wanted'
  <2>1. chunk' \in 0 .. ChunkCount
    BY <1>6, Places DEF HandleChunkIndexed
  <2>2. saved' \subseteq Chunks /\ sending' \subseteq Chunks /\ received' \subseteq Chunks
    BY <1>6 DEF HandleChunkIndexed, GoodChunk, TypeOK
  <2>3. TypeOK'
    BY <1>6, <2>1, <2>2, Starts DEF HandleChunkIndexed, GoodChunk, Arrives, Received, TypeOK
  <2> QED
    BY <1>6, <2>3 DEF HandleChunkIndexed, Wanted
<1>7. ASSUME NEW c \in Chunks, HandleMissedChunk(c) PROVE TypeOK' /\ Wanted'
  <2>1. /\ updating = 2 /\ asked[c] > 0 /\ chunk' = c + 1
        /\ received' = received \cup {c} /\ saved' = saved \cup {c}
        /\ link' = link /\ fast' = fast /\ sending' = sending
        /\ sinceMessage' = 0 /\ awaitingAck' = FALSE
    BY <1>7 DEF HandleMissedChunk, MissedChunk, GoodChunk, Arrives, Received
  <2>2. /\ received' \subseteq Chunks /\ saved' \subseteq Chunks /\ chunk' \in 0 .. ChunkCount
        /\ link' \in BOOLEAN /\ fast' \in BOOLEAN /\ sending' \subseteq Chunks
        /\ sinceMessage' \in 0 .. Longest /\ awaitingAck' \in BOOLEAN
    <3>1. received' \subseteq Chunks /\ saved' \subseteq Chunks /\ sending' \subseteq Chunks
      BY <2>1 DEF TypeOK
    <3>2. chunk' \in 0 .. ChunkCount /\ sinceMessage' \in 0 .. Longest
      BY <2>1, Places, Starts
    <3>3. link' \in BOOLEAN /\ fast' \in BOOLEAN /\ awaitingAck' \in BOOLEAN
      BY <2>1 DEF TypeOK
    <3> QED
      BY <3>1, <3>2, <3>3
  <2>3. CASE Missing(received') = {}
    <3>1. AllThere
      BY <1>7, <2>3 DEF HandleMissedChunk
    <3> QED
      BY <2>2, <3>1, AllThereTyped
  <2>4. CASE Missing(received') # {}
    <3>1. SomeMissing(c)
      BY <1>7, <2>4 DEF HandleMissedChunk
    <3>2. missed' \in Chunks /\ asked' \in [Chunks -> 0 .. MaxAsked]
      BY <2>1, <2>4, <3>1, AskedLess, BatchTyped DEF SomeMissing, TypeOK
    <3>3. Wanted'
      BY <2>4 DEF Wanted, Missing
    <3> QED
      BY <2>2, <3>1, <3>2, <3>3, Starts DEF SomeMissing, TypeOK
  <2> QED
    BY <2>3, <2>4
<1>8. CASE HandleUpdateDone
  <2>1. /\ received' = received /\ chunk' = chunk /\ link' = link /\ saved' = saved
        /\ fast' = fast /\ sending' = {} /\ sinceMessage' = 0 /\ awaitingAck' = FALSE
    BY <1>8 DEF HandleUpdateDone, Received
  <2>4. sinceMessage' \in 0 .. Longest /\ awaitingAck' \in BOOLEAN
    BY <2>1, Starts
  <2>2. CASE Missing(received) = {}
    <3>1. AllThere
      BY <1>8, <2>2 DEF HandleUpdateDone
    <3> QED
      BY <2>1, <2>4, <3>1, AllThereTyped DEF TypeOK
  <2>3. CASE Missing(received) # {}
    <3>1. /\ SendMissingChunks(received, asked) /\ updating' = 2 /\ sinceChunk' = 0
          /\ flash' = flash /\ stuck' = stuck /\ outcome' = outcome
      BY <1>8, <2>3 DEF HandleUpdateDone
    <3>2. missed' \in Chunks /\ asked' \in [Chunks -> 0 .. MaxAsked]
      BY <2>3, <3>1, BatchTyped DEF TypeOK
    <3>3. Wanted'
      BY <2>1, <2>3 DEF Wanted, Missing
    <3>4. updating' \in 0 .. 2 /\ sinceChunk' \in 0 .. Longest
      BY <3>1, Starts
    <3> QED
      BY <2>1, <2>4, <3>1, <3>2, <3>3, <3>4 DEF TypeOK
  <2> QED
    BY <2>2, <2>3
<1>9. CASE ChunkTimedOut
  <2>1. missed' \in Chunks /\ asked' \in [Chunks -> 0 .. MaxAsked]
    BY <1>9, BatchTyped DEF ChunkTimedOut, TypeOK, Wanted
  <2>2. TypeOK'
    BY <1>9, <2>1, Starts DEF ChunkTimedOut, systemVars, TypeOK
  <2> QED
    BY <1>9, <2>2 DEF ChunkTimedOut, Wanted
<1>10. CASE Ping
  <2>1. TypeOK'
    BY <1>10, Starts DEF Ping, systemVars, serverVars, TypeOK
  <2>2. Wanted'
    BY <1>10 DEF Ping, systemVars, serverVars, Wanted
  <2> QED
    BY <2>1, <2>2
<1>11. CASE PingTimedOut
  <2>1. TypeOK'
    BY <1>11, Starts DEF PingTimedOut, serverVars, TypeOK
  <2>2. Wanted'
    BY <1>11 DEF PingTimedOut, serverVars, Wanted
  <2> QED
    BY <2>1, <2>2
<1>12. CASE HandlingFails
  <2>1. TypeOK'
    <3>1. received' \subseteq Chunks /\ saved' \subseteq Chunks /\ sending' \subseteq Chunks
      BY <1>12, Starts DEF HandlingFails, Received, Finish, serverVars, TypeOK
    <3>2. chunk' \in 0 .. ChunkCount /\ missed' \in Chunks /\ asked' \in [Chunks -> 0 .. MaxAsked]
      BY <1>12, Starts DEF HandlingFails, Received, Finish, serverVars, TypeOK
    <3>3. sinceChunk' \in 0 .. Longest /\ sinceMessage' \in 0 .. Longest /\ stuck' \in 0 .. StuckTimeout
      BY <1>12, Starts DEF HandlingFails, Received, Finish, serverVars, TypeOK
    <3>4. link' \in BOOLEAN /\ flash' \in BOOLEAN /\ awaitingAck' \in BOOLEAN /\ fast' \in BOOLEAN
      BY <1>12, Starts DEF HandlingFails, Received, Finish, serverVars, TypeOK
    <3>5. updating' \in 0 .. 2 /\ outcome' \in {"none", "complete", "aborted"}
      BY <1>12, Starts DEF HandlingFails, Received, Finish, serverVars, TypeOK
    <3> QED
      BY <3>1, <3>2, <3>3, <3>4, <3>5 DEF TypeOK
  <2>2. Wanted'
    BY <1>12 DEF HandlingFails, Received, Finish, serverVars, Wanted
  <2> QED
    BY <2>1, <2>2
<1>13. CASE ReceiveFails
  <2>1. TypeOK'
    BY <1>13, Starts DEF ReceiveFails, protocolVars, serverVars, TypeOK
  <2>2. Wanted'
    BY <1>13 DEF ReceiveFails, protocolVars, serverVars, Wanted
  <2> QED
    BY <2>1, <2>2
<1>14. CASE CloudDisconnect
  <2>1. TypeOK'
    BY <1>14, Starts DEF CloudDisconnect, protocolVars, serverVars, TypeOK
  <2>2. Wanted'
    BY <1>14 DEF CloudDisconnect, protocolVars, serverVars, Wanted
  <2> QED
    BY <2>1, <2>2
<1>15. CASE Handshake
  <2>1. TypeOK'
    <3>1. received' \subseteq Chunks /\ saved' \subseteq Chunks /\ sending' \subseteq Chunks
      BY <1>15, Starts DEF Handshake, Reconnect, TypeOK
    <3>2. chunk' \in 0 .. ChunkCount /\ missed' \in Chunks /\ asked' \in [Chunks -> 0 .. MaxAsked]
      BY <1>15, Starts DEF Handshake, Reconnect, TypeOK
    <3>3. sinceChunk' \in 0 .. Longest /\ sinceMessage' \in 0 .. Longest /\ stuck' \in 0 .. StuckTimeout
      BY <1>15, Starts DEF Handshake, Reconnect, TypeOK
    <3>4. link' \in BOOLEAN /\ flash' \in BOOLEAN /\ awaitingAck' \in BOOLEAN /\ fast' \in BOOLEAN
      BY <1>15, Starts DEF Handshake, Reconnect, TypeOK
    <3>5. updating' \in 0 .. 2 /\ outcome' \in {"none", "complete", "aborted"}
      BY <1>15, Starts DEF Handshake, Reconnect, TypeOK
    <3> QED
      BY <3>1, <3>2, <3>3, <3>4, <3>5 DEF TypeOK
  <2>2. Wanted'
    BY <1>15 DEF Handshake, Reconnect, Wanted
  <2> QED
    BY <2>1, <2>2
<1>16. CASE HandshakeFails
  <2>1. TypeOK'
    <3>1. received' \subseteq Chunks /\ saved' \subseteq Chunks /\ sending' \subseteq Chunks
      BY <1>16, Starts DEF HandshakeFails, serverVars, TypeOK
    <3>2. chunk' \in 0 .. ChunkCount /\ missed' \in Chunks /\ asked' \in [Chunks -> 0 .. MaxAsked]
      BY <1>16, Starts DEF HandshakeFails, serverVars, TypeOK
    <3>3. sinceChunk' \in 0 .. Longest /\ sinceMessage' \in 0 .. Longest /\ stuck' \in 0 .. StuckTimeout
      BY <1>16, Starts DEF HandshakeFails, serverVars, TypeOK
    <3>4. link' \in BOOLEAN /\ flash' \in BOOLEAN /\ awaitingAck' \in BOOLEAN /\ fast' \in BOOLEAN
      BY <1>16, Starts DEF HandshakeFails, serverVars, TypeOK
    <3>5. updating' \in 0 .. 2 /\ outcome' \in {"none", "complete", "aborted"}
      BY <1>16, Starts DEF HandshakeFails, serverVars, TypeOK
    <3> QED
      BY <3>1, <3>2, <3>3, <3>4, <3>5 DEF TypeOK
  <2>2. Wanted'
    BY <1>16 DEF HandshakeFails, serverVars, Wanted
  <2> QED
    BY <2>1, <2>2
<1>17. CASE Tick
  <2>1. CASE Restarted
    <3>1. received' \subseteq Chunks /\ saved' \subseteq Chunks /\ sending' \subseteq Chunks
      BY <2>1 DEF Restarted, TypeOK
    <3>2. chunk' \in 0 .. ChunkCount /\ missed' \in Chunks /\ asked' \in [Chunks -> 0 .. MaxAsked]
      BY <2>1, Starts DEF Restarted
    <3>3. sinceChunk' \in 0 .. Longest /\ sinceMessage' \in 0 .. Longest /\ stuck' \in 0 .. StuckTimeout
      BY <2>1, Starts DEF Restarted
    <3>4. link' \in BOOLEAN /\ flash' \in BOOLEAN /\ awaitingAck' \in BOOLEAN /\ fast' \in BOOLEAN
      BY <2>1 DEF Restarted, TypeOK
    <3>5. updating' \in 0 .. 2 /\ outcome' \in {"none", "complete", "aborted"}
      BY <2>1 DEF Restarted
    <3> QED
      BY <2>1, <3>1, <3>2, <3>3, <3>4, <3>5 DEF Restarted, TypeOK, Wanted
  <2>2. CASE ~Restarted
    <3>1. stuck' \in 0 .. StuckTimeout
      BY <1>17, <2>2, TimesAssumption DEF Tick, TypeOK
    <3>2. sinceChunk' \in 0 .. Longest /\ sinceMessage' \in 0 .. Longest
      BY <1>17, <2>2, Times DEF Tick, TypeOK
    <3> QED
      BY <1>17, <2>2, <3>1, <3>2 DEF Tick, serverVars, TypeOK, Wanted
  <2> QED
    BY <2>1, <2>2
<1>18. CASE UNCHANGED vars
  <2>1. TypeOK'
    BY <1>18, Starts DEF vars, protocolVars, systemVars, serverVars, TypeOK
  <2>2. Wanted'
    BY <1>18 DEF vars, protocolVars, systemVars, serverVars, Wanted
  <2> QED
    BY <2>1, <2>2
<1> QED
  BY <1>1, <1>2, <1>3, <1>4, <1>5, <1>6, <1>7, <1>8, <1>9, <1>10, <1>11,
     <1>12, <1>13, <1>14, <1>15, <1>16, <1>17, <1>18 DEF Next, NoMessage

\* The two bitmaps, the indices, the timers and what is asked of the server keep
\* their types: no index leaves the file, no timer its range.
THEOREM TypeCorrect == Spec => []TypeOK
<1>1. TypeInv => TypeOK
  BY DEF TypeInv
<1> QED
  BY <1>1, TypeInit, TypeStep, PTL DEF Spec

=============================================================================
