---------------------------- MODULE CloudMessages ----------------------------
(***************************************************************************)
(* Events and function calls from the cloud (spark_protocol.cpp,           *)
(* system_cloud.cpp, system_cloud_internal.cpp), on one thread.            *)
(*                                                                         *)
(* The protocol has one buffer for everything it receives and sends, and   *)
(* calls the application's handlers and functions from the middle of its    *)
(* loop.  These may publish, subscribe, or delay, and a delay is a pass of  *)
(* the same loop: it may receive the next message, or find the connection   *)
(* gone and make a new one, under the calls that are still running.  The    *)
(* stack below is that of the C++ program.                                 *)
(***************************************************************************)
EXTENDS Integers, Sequences, SequencesExt

CONSTANTS Names,        \* event names and filters, as sequences
          System,       \* the filter of the system's own handler
          Apps,         \* the handlers of the application
          Slots,        \* of event_handlers
          Tokens,       \* how many tokens the server has to mark its calls with
          MaxMessages,  \* bound: messages the server sends
          MaxDepth,     \* bound: calls within calls
          MaxSessions   \* bound: connections

ASSUME NamesAssumption == Names \subseteq Seq(STRING) /\ System \in Names
ASSUME AppsAssumption  == "system" \notin Apps
ASSUME BoundAssumption ==
    /\ Slots \in Nat \ {0} /\ Tokens \in Nat \ {0} /\ MaxMessages \in Nat /\ MaxDepth \in Nat
    /\ MaxSessions \in Nat

Ids == 1 .. MaxMessages

VARIABLES handlers,  \* event_handlers up to the first empty slot
          conn,      \* SPARK_CLOUD_*, and what the connection is at its far end
          known,     \* the filters the server has been sent on this connection
          wire,      \* messages on their way to the device
          msgs,      \* history: all messages the server has sent
          buffer,    \* the event whose name is in queue, 0 if it was overwritten
          arg,       \* the call whose argument is in function_arg, 0 at first
          stack,     \* the calls that are running, the innermost last
          answers    \* history: the results the server has received

vars == <<handlers, conn, known, wire, msgs, buffer, arg, stack, answers>>

Key == [filter : Names, by : Apps \cup {"system"}]

\* late: history, subscribed while a greeting was going on.
Handler == [filter : Names, by : Apps \cup {"system"}, late : BOOLEAN]

Event == [kind : {"event"}, name : Names]
Call  == [kind : {"call"}, token : 0 .. Tokens - 1, exists : BOOLEAN, long : BOOLEAN,
          session : 1 .. MaxSessions]

EventFrame    == [kind : {"event"}, running : BOOLEAN, id : Ids,
                  at : 1 .. Slots + 1, due : SUBSET Key, told : SUBSET Key]
CallFrame     == [kind : {"call"}, running : {TRUE}, id : Ids, token : 0 .. Tokens - 1,
                  arg : 0 .. MaxMessages]
GreetingFrame == [kind : {"greeting"}, running : {FALSE}, received : BOOLEAN]

TypeOK ==
    /\ handlers \in Seq(Handler) /\ Len(handlers) <= Slots
    /\ conn \in [socketed : BOOLEAN, connected : BOOLEAN, shaken : BOOLEAN,
                 up : BOOLEAN, session : 0 .. MaxSessions]
    /\ known \subseteq Names
    /\ wire \in Seq(DOMAIN msgs)
    /\ msgs \in Seq(Event \cup Call) /\ Len(msgs) <= MaxMessages
    /\ buffer \in 0 .. Len(msgs) /\ (buffer > 0 => msgs[buffer] \in Event)
    /\ arg \in 0 .. Len(msgs)
    /\ stack \in Seq(EventFrame \cup CallFrame \cup GreetingFrame)
    /\ answers \in Seq([call : DOMAIN msgs, token : 0 .. Tokens - 1, arg : 0 .. Len(msgs)])

KeyOf(h) == [filter |-> h.filter, by |-> h.by]
Filters == {h.filter : h \in ToSet(handlers)}

Init ==
    /\ handlers = <<[filter |-> System, by |-> "system", late |-> FALSE]>>
    /\ conn = [socketed |-> FALSE, connected |-> FALSE, shaken |-> FALSE,
               up |-> FALSE, session |-> 0]
    /\ known = {} /\ wire = <<>> /\ msgs = <<>>
    /\ buffer = 0 /\ arg = 0
    /\ stack = <<>> /\ answers = <<>>

-----------------------------------------------------------------------------
(* The server and the network.                                              *)

Reaches(c) == c.socketed /\ c.up /\ c.shaken

Send(m) ==
    /\ Reaches(conn) /\ Len(msgs) < MaxMessages
    /\ msgs' = Append(msgs, m)
    /\ wire' = Append(wire, Len(msgs'))
    /\ UNCHANGED <<handlers, conn, known, buffer, arg, stack, answers>>

SendEvent(name) ==
    /\ \E filter \in known : IsPrefix(filter, name)
    /\ Send([kind |-> "event", name |-> name])

Answered(id) == \E i \in DOMAIN answers : answers[i].call = id

Outstanding(token) ==
    \E id \in DOMAIN msgs :
        /\ msgs[id].kind = "call" /\ msgs[id].token = token
        /\ msgs[id].exists /\ ~Answered(id)

\* The server takes its tokens in turn, none before its last call is answered.
\* The call of a function that does not exist stands for every request that is
\* answered at once.
SendCall(exists, long) ==
    LET token == Len(msgs) % Tokens IN
    /\ ~Outstanding(token) /\ (long => exists)
    /\ Send([kind |-> "call", token |-> token, exists |-> exists,
             long |-> long, session |-> conn.session])

\* The network fails, or a server that waits for a handshake gives up.
LinkBreaks ==
    /\ conn.up
    /\ conn' = [conn EXCEPT !.up = FALSE]
    /\ known' = {} /\ wire' = <<>>
    /\ UNCHANGED <<handlers, msgs, buffer, arg, stack, answers>>

-----------------------------------------------------------------------------
(* A pass of Spark_Idle_Events, made by the application's loop or by a       *)
(* callback that delays.                                                   *)

Top == Last(stack)
WithTop(frame) == Append(Front(stack), frame)

InApplication == stack # <<>> => Top.running

Greeting == [kind |-> "greeting", running |-> FALSE, received |-> FALSE]

\* Mutant: the subscriptions are not sent again.
ConnectUnsubscribed ==
    /\ InApplication /\ ~conn.socketed
    /\ conn.session < MaxSessions /\ Len(stack) < MaxDepth
    /\ conn' = [conn EXCEPT !.socketed = TRUE, !.shaken = ~conn.connected,
                            !.up = TRUE, !.session = @ + 1]
    /\ known' = {} /\ wire' = <<>>
    /\ IF conn.connected THEN UNCHANGED <<stack, buffer>>
       ELSE stack' = Append(stack, Greeting) /\ buffer' = 0
    /\ handlers' = [i \in DOMAIN handlers |-> [handlers[i] EXCEPT !.late = FALSE]]
    /\ UNCHANGED <<msgs, arg, answers>>

\* Spark_Connect, then Spark_Handshake up to its last call, both in one pass.
\* A flag that says "connected" already skips the handshake.
Connect ==
    /\ InApplication /\ ~conn.socketed
    /\ conn.session < MaxSessions /\ Len(stack) < MaxDepth
    /\ conn' = [conn EXCEPT !.socketed = TRUE, !.shaken = ~conn.connected,
                            !.up = TRUE, !.session = @ + 1]
    /\ wire' = <<>>
    /\ IF conn.connected
       THEN known' = {} /\ UNCHANGED <<stack, buffer, handlers>>
       ELSE /\ known' = Filters              \* send_subscriptions
            /\ stack' = Append(stack, Greeting)
            /\ buffer' = 0
            /\ handlers' = [i \in DOMAIN handlers |->
                               [handlers[i] EXCEPT !.late = FALSE]]
    /\ UNCHANGED <<msgs, arg, answers>>

\* A callback of the greeting delays: the flag is not up yet, and the pass
\* shakes hands a second time, which fails and closes the socket.
HandshakeAgain ==
    /\ InApplication /\ conn.socketed /\ ~conn.connected
    /\ conn' = [conn EXCEPT !.socketed = FALSE, !.up = FALSE, !.shaken = FALSE]
    /\ known' = {} /\ wire' = <<>> /\ buffer' = 0
    /\ UNCHANGED <<handlers, msgs, arg, stack, answers>>

GreetingReceives == stack # <<>> /\ Top.kind = "greeting" /\ ~Top.received

\* Who calls Spark_Process_Events: a pass, or the end of Spark_Handshake.
ProcessEvents ==
    conn.socketed /\ (GreetingReceives \/ (InApplication /\ conn.connected))

Caller == IF GreetingReceives THEN WithTop([Top EXCEPT !.received = TRUE]) ELSE stack

\* The connection is gone.
ReceiveFails ==
    /\ ProcessEvents /\ ~conn.up
    /\ conn' = [conn EXCEPT !.socketed = FALSE, !.connected = FALSE]
    /\ stack' = Caller
    /\ UNCHANGED <<handlers, known, wire, msgs, buffer, arg, answers>>

ReceiveNothing ==
    /\ ProcessEvents /\ GreetingReceives
    /\ stack' = Caller
    /\ UNCHANGED <<handlers, conn, known, wire, msgs, buffer, arg, answers>>

Receiving(kind) ==
    /\ ProcessEvents /\ conn.up /\ Len(stack) < MaxDepth
    /\ wire # <<>> /\ msgs[Head(wire)].kind = kind
    /\ wire' = Tail(wire)
    /\ UNCHANGED <<handlers, conn, known, msgs, answers>>

\* handle_event: the name stays where it was received.
ReceiveEvent ==
    /\ Receiving("event")
    /\ buffer' = Head(wire)
    /\ stack' = Append(Caller,
                    [kind |-> "event", running |-> FALSE, id |-> Head(wire), at |-> 1,
                     due |-> {KeyOf(h) : h \in ToSet(handlers)}, told |-> {}])
    /\ UNCHANGED arg

\* handle_function_call: the argument is copied, unless it is too long, the call
\* is acknowledged, the function is called with a copy of the copy.
ReceiveCall ==
    /\ Receiving("call")
    /\ buffer' = 0
    /\ LET id == Head(wire) IN
       /\ arg' = IF msgs[id].long THEN arg ELSE id
       /\ stack' = IF msgs[id].exists
                   THEN Append(Caller, [kind |-> "call", running |-> TRUE, id |-> id,
                                        token |-> msgs[id].token, arg |-> arg'])
                   ELSE Caller

-----------------------------------------------------------------------------
(* The loop of handle_event, and the ends of the calls.                      *)

InEvent == stack # <<>> /\ Top.kind = "event" /\ ~Top.running

\* Is the handler called at this turn of the loop?  An overwritten name matches
\* no filter; that of a later event does as it would there.
Matches(h) == buffer # 0 /\ IsPrefix(h.filter, msgs[buffer].name)

\* Mutant: a filter that does not match ends the loop.
NextHandlerOrNone ==
    /\ InEvent /\ Top.at <= Len(handlers)
    /\ LET h == handlers[Top.at] IN
       stack' = WithTop(IF Matches(h)
                        THEN [Top EXCEPT !.running = TRUE,
                                         !.told = @ \cup {KeyOf(h)}]
                        ELSE [Top EXCEPT !.at = Len(handlers) + 1])
    /\ UNCHANGED <<handlers, conn, known, wire, msgs, buffer, arg, answers>>

NextHandler ==
    /\ InEvent /\ Top.at <= Len(handlers)
    /\ LET h == handlers[Top.at] IN
       stack' = WithTop(IF Matches(h)
                        THEN [Top EXCEPT !.running = TRUE,
                                         !.told = @ \cup {KeyOf(h)}]
                        ELSE [Top EXCEPT !.at = @ + 1])
    /\ UNCHANGED <<handlers, conn, known, wire, msgs, buffer, arg, answers>>

HandlerReturns ==
    /\ stack # <<>> /\ Top.kind = "event" /\ Top.running
    /\ stack' = WithTop([Top EXCEPT !.running = FALSE, !.at = @ + 1])
    /\ UNCHANGED <<handlers, conn, known, wire, msgs, buffer, arg, answers>>

EventOver ==
    /\ InEvent /\ Top.at > Len(handlers)
    /\ stack' = Front(stack)
    /\ UNCHANGED <<handlers, conn, known, wire, msgs, buffer, arg, answers>>

\* Something is written into queue and sent on the socket.  A server that waits
\* for a handshake breaks off.
SendOwn ==
    /\ buffer' = 0
    /\ conn' = [conn EXCEPT !.up = @ /\ (conn.socketed => conn.shaken)]

\* Mutant: the function is given function_arg itself, not a copy.
FunctionReturnsUncopied ==
    /\ stack # <<>> /\ Top.kind = "call"
    /\ stack' = Front(stack)
    /\ SendOwn
    /\ answers' = IF Reaches(conn)
                  THEN Append(answers, [call |-> Top.id, token |-> Top.token, arg |-> arg])
                  ELSE answers
    /\ UNCHANGED <<handlers, known, wire, msgs, arg>>

\* Mutant: the result is sent by the outermost call only.
FunctionReturnsNested ==
    /\ stack # <<>> /\ Top.kind = "call"
    /\ stack' = Front(stack)
    /\ SendOwn
    /\ answers' = IF Reaches(conn) /\ Len(stack) = 1
                  THEN Append(answers,
                           [call |-> Top.id, token |-> Top.token, arg |-> Top.arg])
                  ELSE answers
    /\ UNCHANGED <<handlers, known, wire, msgs, arg>>

\* userFuncScheduleImpl, then function_result.
FunctionReturns ==
    /\ stack # <<>> /\ Top.kind = "call"
    /\ stack' = Front(stack)
    /\ SendOwn
    /\ answers' = IF Reaches(conn)
                  THEN Append(answers,
                           [call |-> Top.id, token |-> Top.token, arg |-> Top.arg])
                  ELSE answers
    /\ UNCHANGED <<handlers, known, wire, msgs, arg>>

\* The connection counts as made, even if it broke in the greeting.
GreetingOver ==
    /\ stack # <<>> /\ Top.kind = "greeting" /\ Top.received
    /\ stack' = Front(stack)
    /\ conn' = [conn EXCEPT !.connected = TRUE]
    /\ UNCHANGED <<handlers, known, wire, msgs, buffer, arg, answers>>

-----------------------------------------------------------------------------
(* What the application does in its loop and in its callbacks.               *)

Publish ==
    /\ InApplication /\ SendOwn
    /\ UNCHANGED <<handlers, known, wire, msgs, arg, stack, answers>>

\* event_handler_exists compares as many characters as the new name has.
HandlerExists(name, by) ==
    \E h \in ToSet(handlers) : h.by = by /\ IsPrefix(name, h.filter)

\* Mutant: the slots are not counted.
SubscribeUncounted(name, by) ==
    /\ InApplication
    /\ handlers' = IF HandlerExists(name, by) THEN handlers
                   ELSE Append(handlers, [filter |-> name, by |-> by,
                                          late |-> conn.socketed /\ ~conn.connected])
    /\ IF conn.socketed /\ conn.connected
       THEN /\ known' = IF Reaches(conn) THEN known \cup {name} ELSE known
            /\ SendOwn
       ELSE UNCHANGED <<known, conn, buffer>>
    /\ UNCHANGED <<wire, msgs, arg, stack, answers>>

\* spark_subscribe with add_event_handler; the server is told when there is a
\* connection, and at the next handshake otherwise.
Subscribe(name, by) ==
    /\ InApplication
    /\ LET exists  == HandlerExists(name, by)
           success == exists \/ Len(handlers) < Slots
       IN  /\ handlers' = IF success /\ ~exists
                          THEN Append(handlers,
                                   [filter |-> name, by |-> by,
                                    late |-> conn.socketed /\ ~conn.connected])
                          ELSE handlers
           /\ IF success /\ conn.socketed /\ conn.connected
              THEN /\ known' = IF Reaches(conn) THEN known \cup {name} ELSE known
                   /\ SendOwn
              ELSE UNCHANGED <<known, conn, buffer>>
    /\ UNCHANGED <<wire, msgs, arg, stack, answers>>

\* unsubscribe() empties all slots, the system's own among them.
Unsubscribe ==
    /\ InApplication
    /\ handlers' = <<>>
    /\ stack' = [k \in DOMAIN stack |->
                    IF stack[k].kind = "event" THEN [stack[k] EXCEPT !.due = {}]
                                               ELSE stack[k]]
    /\ UNCHANGED <<conn, known, wire, msgs, buffer, arg, answers>>

-----------------------------------------------------------------------------

Server ==
    \/ \E name \in Names : SendEvent(name)
    \/ \E exists, long \in BOOLEAN : SendCall(exists, long)

Pass ==
    \/ Connect \/ HandshakeAgain
    \/ ReceiveFails \/ ReceiveNothing \/ ReceiveEvent \/ ReceiveCall

Return ==
    \/ NextHandler \/ HandlerReturns \/ EventOver
    \/ FunctionReturns \/ GreetingOver

Application ==
    \/ Publish
    \/ \E name \in Names, by \in Apps : Subscribe(name, by)
    \/ Unsubscribe

Next == Server \/ LinkBreaks \/ Pass \/ Return \/ Application

\* Handlers and functions return.
Fairness == WF_vars(Return) /\ WF_vars(GreetingReceives /\ Pass)

Spec == Init /\ [][Next]_vars /\ Fairness

-----------------------------------------------------------------------------
\* The server knows the filter of every handler whenever the device is online,
\* across reconnections made under running callbacks, except those subscribed
\* while the greeting of this very connection was going on.
KnownToServer ==
    Reaches(conn) /\ conn.connected =>
        \A h \in ToSet(handlers) : h.late \/ h.filter \in known

\* Every result goes out with the token of its call and is computed from the
\* argument of its call, if that was acknowledged, whatever calls were served
\* while the function ran; and no call is answered twice.
ResultMatchesCall ==
    \A i \in DOMAIN answers :
        LET m == msgs[answers[i].call] IN
        /\ answers[i].token = m.token
        /\ ~m.long => answers[i].arg = answers[i].call
        /\ \A j \in DOMAIN answers : answers[j].call = answers[i].call => i = j

\* When an event is over, every handler that was there when it came and whose
\* filter its name begins with has been called, unless a handler before it
\* sent or received something.
EveryListenerHears ==
    [][InEvent /\ stack' = Front(stack) /\ buffer = Top.id =>
            \A k \in Top.due : IsPrefix(k.filter, msgs[Top.id].name) => k \in Top.told]_vars

Running(id) == \E k \in DOMAIN stack : stack[k].kind = "call" /\ stack[k].id = id

OnItsConnection(id) ==
    /\ Reaches(conn)
    /\ id \in DOMAIN msgs /\ msgs[id].kind = "call" /\ msgs[id].session = conn.session

\* A function that is called answers, unless the connection of its call breaks.
CallsAnswered ==
    \A id \in Ids :
        Running(id) ~> (~Running(id) /\ (Answered(id) \/ ~OnItsConnection(id)))

=============================================================================
