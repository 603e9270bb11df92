--------------------------- MODULE FirmwareUpdate ---------------------------
(***************************************************************************)
(* Receiving a firmware update over the cloud connection, and keeping that *)
(* connection alive: SparkProtocol::event_loop and the handlers it calls   *)
(* (communication/src/spark_protocol.cpp), the callbacks of system_update  *)
(* .cpp and the watchdog in the SysTick handler of main.cpp.               *)
(*                                                                         *)
(* A call of event_loop handles one message, or finds none and looks at    *)
(* its timers.  The server is outside: it sends what the protocol lets it  *)
(* send, over a connection that can break at any moment.                   *)
(***************************************************************************)
EXTENDS Integers, FiniteSets, FiniteSetsExt

CONSTANTS ChunkCount,    \* chunks of the file
          Batch,         \* MISSED_CHUNKS_TO_SEND: 50
          ChunkTimeout,  \* 3000 ms
          PingAfter,     \* 15000 ms
          PingTimeout,   \* 10000 ms
          StuckTimeout,  \* TIMING_FLASH_UPDATE_TIMEOUT: 30000 ms
    MaxAsked       \* bound: copies of a chunk on their way at a time

ASSUME CountsAssumption == ChunkCount \in Nat \ {0} /\ Batch \in Nat \ {0}
                           /\ MaxAsked \in Nat \ {0}
ASSUME TimesAssumption  == /\ ChunkTimeout \in Nat /\ PingAfter \in Nat
                           /\ PingTimeout \in Nat /\ StuckTimeout \in Nat

Chunks  == 0 .. ChunkCount - 1
Longest == Max({ChunkTimeout, PingAfter, PingTimeout}) + 1
None    == [c \in Chunks |-> 0]

VARIABLES
    \* the protocol
    updating,      \* 0, 1: receiving chunks, 2: receiving missed chunks
    received,      \* the bitmap
    chunk,         \* chunk_index
    missed,        \* missed_chunk_index
    sinceChunk,    \* now - last_chunk_millis, at most Longest
    sinceMessage,  \* now - last_message_millis, at most Longest
    awaitingAck,   \* expecting_ping_ack
    \* the system
    link,          \* the cloud socket is open and the handshake was made
    flash,         \* SPARK_FLASH_UPDATE
    stuck,         \* TimingFlashUpdateTimeout
    saved,         \* chunks of this file that are in the OTA region
    outcome,       \* how the last update was finished
    \* the server
    fast,          \* it sends the chunks with their index
    sending,       \* fast: not yet sent; slow: the chunk it is at and the rest
    asked          \* how often each chunk was asked for and is still to come,
                   \* at most MaxAsked

protocolVars == <<updating, received, chunk, missed, sinceChunk, sinceMessage, awaitingAck>>
systemVars   == <<link, flash, stuck, saved, outcome>>
serverVars   == <<fast, sending, asked>>
vars         == <<protocolVars, systemVars, serverVars>>

TypeOK ==
    /\ updating \in 0 .. 2
    /\ received \subseteq Chunks /\ saved \subseteq Chunks
    /\ chunk \in 0 .. ChunkCount
    /\ missed \in Chunks
    /\ sinceChunk \in 0 .. Longest /\ sinceMessage \in 0 .. Longest
    /\ awaitingAck \in BOOLEAN /\ link \in BOOLEAN /\ flash \in BOOLEAN
    /\ stuck \in 0 .. StuckTimeout
    /\ outcome \in {"none", "complete", "aborted"}
    /\ fast \in BOOLEAN
    /\ sending \subseteq Chunks /\ asked \in [Chunks -> 0 .. MaxAsked]

\* A device that has just started.
Restarted ==
    /\ updating' = 0 /\ received' = {} /\ chunk' = 0 /\ missed' = 0
    /\ sinceChunk' = 0 /\ sinceMessage' = 0 /\ awaitingAck' = FALSE
    /\ link' = FALSE /\ flash' = FALSE /\ stuck' = 0
    /\ outcome' = "none"
    /\ sending' = {} /\ asked' = None
    /\ UNCHANGED <<saved, fast>>

Init ==
    /\ updating = 0 /\ received = {} /\ chunk = 0 /\ missed = 0
    /\ sinceChunk = 0 /\ sinceMessage = 0 /\ awaitingAck = FALSE
    /\ link = FALSE /\ flash = FALSE /\ stuck = 0
    /\ saved = {} /\ outcome = "none"
    /\ fast = FALSE /\ sending = {} /\ asked = None

-----------------------------------------------------------------------------
\* handle_received_message, before it looks at what it has.
Received == link /\ sinceMessage' = 0 /\ awaitingAck' = FALSE

\* Any message that has nothing to do with updates: an event, a ping, an ack, or
\* a chunk when there is no update; the last of these sets last_chunk_millis.
HandleOther ==
    /\ Received
    /\ sinceChunk' \in IF updating = 0 THEN {0, sinceChunk} ELSE {sinceChunk}
    /\ UNCHANGED <<updating, received, chunk, missed, systemVars, serverVars>>

\* The answer to a request for the time sets last_chunk_millis to 0, which is
\* long ago.
HandleTime ==
    /\ Received
    /\ sinceChunk' = Longest
    /\ UNCHANGED <<updating, received, chunk, missed, systemVars, serverVars>>

Begin(f) ==
    /\ Received
    /\ updating' = 1
    /\ received' = IF f THEN {} ELSE Chunks
    /\ sinceChunk' = 0
    /\ flash' = TRUE /\ stuck' = 0 /\ saved' = {} /\ outcome' = "none"
    /\ fast' = f /\ sending' = Chunks /\ asked' = None
    /\ UNCHANGED <<missed, link>>

\* Mutant: the place of the next chunk is kept from the last update.
HandleUpdateBeginKept(f) == Begin(f) /\ UNCHANGED chunk

\* handle_update_begin and Spark_Prepare_For_Firmware_Update.  Without fast OTA
\* the bitmap is filled: missing chunks are dealt with one by one.
HandleUpdateBegin(f) == Begin(f) /\ chunk' = 0

\* Spark_Finish_Firmware_Update.
Finish(how) == flash' = FALSE /\ stuck' = 0 /\ outcome' = how

\* next_chunk_missing(0), for a bitmap, and send_missing_chunks.
Missing(have) == Chunks \ have

FirstOf(S) == {c \in S : Cardinality({d \in S : d < c}) < Batch}

SendMissingChunks(have, left) ==
    /\ asked' = [c \in Chunks |->
                    IF c \in FirstOf(Missing(have)) /\ left[c] < MaxAsked
                    THEN left[c] + 1 ELSE left[c]]
    /\ missed' = Max(FirstOf(Missing(have)))

OneLess(c) == [asked EXCEPT ![c] = @ - 1]

-----------------------------------------------------------------------------
(* handle_chunk.                                                            *)

\* The server sends a chunk of the first pass, or one that was asked for.
Arrives(c) ==
    /\ Received
    /\ updating # 0
    /\ \/ updating = 1 /\ c \in sending /\ (~fast => c = Min(sending))
       \/ updating = 2 /\ asked[c] > 0

BadChunk(c) ==
    /\ Arrives(c)
    /\ sinceChunk' = 0
    /\ chunk'   = IF fast THEN c ELSE chunk
    /\ sending' = IF fast THEN sending \ {c} ELSE sending
    /\ asked'   = IF updating = 2 THEN OneLess(c) ELSE asked
    /\ UNCHANGED <<updating, received, missed, link, flash, saved, outcome, fast>>

\* Mutant: a chunk that is not saved resets the watchdog, too.
HandleBadChunkAlive(c) == BadChunk(c) /\ stuck' = 0

\* The checksum is wrong: in slow mode the server is told, and sends the chunk
\* again; in fast mode it is asked for later.
HandleBadChunk(c) == BadChunk(c) /\ UNCHANGED stuck

GoodChunk(c) ==
    /\ Arrives(c)
    /\ received' = received \cup {c}

\* Slow: the chunk goes where chunk_index says, and the server goes on when it
\* is told that it arrived.
HandleChunkInTurn(c) ==
    /\ ~fast /\ updating = 1 /\ GoodChunk(c)
    /\ saved' = IF chunk = c THEN saved \cup {c} ELSE saved \ {chunk}
    /\ chunk' = chunk + 1
    /\ stuck' = 0 /\ sinceChunk' = 0
    /\ sending' = sending \ {c}
    /\ UNCHANGED <<updating, missed, link, flash, outcome, fast, asked>>

\* Fast, the first pass through the file.
HandleChunkIndexed(c) ==
    /\ fast /\ updating = 1 /\ GoodChunk(c)
    /\ saved' = saved \cup {c} /\ chunk' = c + 1
    /\ stuck' = 0 /\ sinceChunk' = 0
    /\ sending' = sending \ {c}
    /\ UNCHANGED <<updating, missed, link, flash, outcome, fast, asked>>

MissedChunk(c) ==
    /\ updating = 2 /\ GoodChunk(c)
    /\ saved' = saved \cup {c} /\ chunk' = c + 1
    /\ UNCHANGED <<link, fast, sending>>

\* The update is over.
AllThere ==
    /\ updating' = 0 /\ sinceChunk' = Longest
    /\ Finish("complete")
    /\ asked' = None /\ UNCHANGED missed

\* The next batch is asked for after the last chunk of the one before.
SomeMissing(c) ==
    /\ sinceChunk' = 0 /\ stuck' = 0
    /\ IF Min(Missing(received')) > missed
       THEN SendMissingChunks(received', OneLess(c))
       ELSE asked' = OneLess(c) /\ UNCHANGED missed
    /\ UNCHANGED <<updating, flash, outcome>>

\* Mutant: the update is over when the last chunk that was asked for arrives.
HandleMissedChunkLast(c) ==
    /\ MissedChunk(c)
    /\ IF c = missed \/ Missing(received') = {} THEN AllThere ELSE SomeMissing(c)

\* Fast, a chunk that was asked for.
HandleMissedChunk(c) ==
    /\ MissedChunk(c)
    /\ IF Missing(received') = {} THEN AllThere ELSE SomeMissing(c)

-----------------------------------------------------------------------------
\* handle_update_done.  In fast mode the server may have lost chunks on its
\* way, in slow mode it has seen every chunk acknowledged.
HandleUpdateDone ==
    /\ Received
    /\ updating = 1
    /\ ~fast => sending = {}
    /\ sending' = {}
    /\ IF Missing(received) = {}
       THEN AllThere
       ELSE /\ updating' = 2 /\ sinceChunk' = 0
            /\ SendMissingChunks(received, asked)
            /\ UNCHANGED <<flash, stuck, outcome>>
    /\ UNCHANGED <<received, chunk, link, saved, fast>>

-----------------------------------------------------------------------------
(* event_loop when there is no message.                                     *)

\* Missed chunks are asked for again; in the first pass nothing is, "since this
\* can cause duplicates on the server".
ChunkTimedOut ==
    /\ link /\ updating # 0
    /\ ChunkTimeout < sinceChunk
    /\ sinceChunk' = 0
    /\ IF updating = 2 THEN SendMissingChunks(received, asked) ELSE UNCHANGED <<missed, asked>>
    /\ UNCHANGED <<updating, received, chunk, sinceMessage, awaitingAck, systemVars, fast, sending>>

Ping ==
    /\ link /\ updating = 0 /\ ~awaitingAck
    /\ PingAfter < sinceMessage
    /\ awaitingAck' = TRUE /\ sinceMessage' = 0
    /\ UNCHANGED <<updating, received, chunk, missed, sinceChunk, systemVars, serverVars>>

\* Mutant: the unanswered ping is forgotten and another one is sent.
PingForgotten ==
    /\ link /\ updating = 0 /\ awaitingAck
    /\ PingTimeout < sinceMessage
    /\ awaitingAck' = FALSE /\ sinceMessage' = 0
    /\ UNCHANGED <<updating, received, chunk, missed, sinceChunk, systemVars, serverVars>>

PingTimedOut ==
    /\ link /\ updating = 0 /\ awaitingAck
    /\ PingTimeout < sinceMessage
    /\ awaitingAck' = FALSE /\ sinceMessage' = 0
    /\ link' = FALSE
    /\ UNCHANGED <<updating, received, chunk, missed, sinceChunk,
                   flash, stuck, saved, outcome, serverVars>>

NoMessage == ChunkTimedOut \/ Ping \/ PingTimedOut

-----------------------------------------------------------------------------
(* The connection.                                                          *)

\* A send fails while a message is handled: the update is aborted.
HandlingFails ==
    /\ Received
    /\ link' = FALSE
    /\ updating' = 0
    /\ IF updating # 0 THEN Finish("aborted") ELSE UNCHANGED <<flash, stuck, outcome>>
    /\ UNCHANGED <<received, chunk, missed, sinceChunk, saved, serverVars>>

\* A receive fails: Spark_Process_Events closes the socket, and that is all.
ReceiveFails ==
    /\ link
    /\ link' = FALSE
    /\ UNCHANGED <<protocolVars, flash, stuck, saved, outcome, serverVars>>

\* cloud_disconnect, with or without a handshake before it.
CloudDisconnect ==
    /\ link' = FALSE /\ flash' = FALSE
    /\ UNCHANGED <<protocolVars, stuck, saved, outcome, serverVars>>

\* The server forgets what it was doing; a hello is received.
Reconnect ==
    /\ ~link
    /\ link' = TRUE
    /\ sinceChunk' = Longest
    /\ sinceMessage' = 0 /\ awaitingAck' = FALSE
    /\ sending' = {} /\ asked' = None
    /\ UNCHANGED <<received, chunk, missed, flash, stuck, saved, outcome, fast>>

\* Mutant: the update that was cut short is not given up.
HandshakeKept == Reconnect /\ UNCHANGED updating

\* spark_protocol_handshake: reset_updating, then the handshake.
Handshake == Reconnect /\ updating' = 0

\* reset_updating, a handshake that fails, and cloud_disconnect.
HandshakeFails ==
    /\ ~link
    /\ updating' = 0 /\ sinceChunk' = Longest
    /\ flash' = FALSE
    /\ UNCHANGED <<received, chunk, missed, sinceMessage, awaitingAck,
                   link, stuck, saved, outcome, serverVars>>

\* A millisecond; HAL_SysTick_Handler resets a device that is stuck in an update.
Tick ==
    \/ flash /\ stuck >= StuckTimeout /\ Restarted
    \/ /\ flash => stuck < StuckTimeout
       /\ stuck' = IF flash THEN stuck + 1 ELSE stuck
       /\ sinceChunk' = Min({sinceChunk + 1, Longest})
       /\ sinceMessage' = Min({sinceMessage + 1, Longest})
       /\ UNCHANGED <<updating, received, chunk, missed, awaitingAck,
                      link, flash, saved, outcome, serverVars>>

Next ==
    \/ HandleOther \/ HandleTime
    \/ \E f \in BOOLEAN : HandleUpdateBegin(f)
    \/ \E c \in Chunks : \/ HandleBadChunk(c) \/ HandleChunkInTurn(c)
                         \/ HandleChunkIndexed(c) \/ HandleMissedChunk(c)
    \/ HandleUpdateDone
    \/ NoMessage
    \/ HandlingFails \/ ReceiveFails \/ CloudDisconnect
    \/ Handshake \/ HandshakeFails
    \/ Tick

\* Time passes, and the event loop is run; nothing is asked of the server.
Spec == Init /\ [][Next]_vars /\ WF_vars(Tick) /\ WF_vars(NoMessage)

-----------------------------------------------------------------------------
\* An update is finished as successful only when every chunk of the file is in
\* the OTA region, in whatever order and with whatever errors and repetitions
\* they came.
FinishOnlyComplete == outcome = "complete" => saved = Chunks

\* Pings stop while an update is received, so that the watchdog must be running:
\* the two flags that say so, in two layers, agree whenever there is a link.
WatchdogArmed == link /\ updating # 0 => flash

\* A server that falls silent is given up for good, by the unanswered ping or by
\* the watchdog of the update.
SilenceIsNoticed == <>[][NoMessage \/ Tick]_vars => <>[]~link

\* The application, which waits while an update is received, goes on at some
\* time, even if all that the server sends are chunks with errors.
UpdateEnds ==
    <>[][\A f \in BOOLEAN : ~HandleUpdateBegin(f)]_vars => (flash ~> ~flash)

=============================================================================
