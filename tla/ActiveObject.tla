----------------------------- MODULE ActiveObject -----------------------------
(***************************************************************************)
(* System threading: the thread of the system and that of the application, *)
(* each with a bounded queue of calls made by the other (active_object.h,   *)
(* active_object.cpp, system_threading.h, system-threading.md), and what    *)
(* goes through the queues: events and function calls from the cloud one    *)
(* way, calls of system functions and results the other way.               *)
(*                                                                         *)
(* Both threads have been started.  A call that the application makes       *)
(* synchronously waits for its result without limit; putting a call into a *)
(* full queue waits for a time and then drops the call, without a word.     *)
(***************************************************************************)
EXTENDS Integers, Sequences, SequencesExt

CONSTANTS QueueSize,
          MaxMade,  \* bound: calls made by either thread
          MaxDepth  \* bound: process() within process()

ASSUME SizeAssumption  == QueueSize \in Nat \ {0}
ASSUME BoundAssumption == MaxMade \in Nat /\ MaxDepth \in Nat

Threads == {"system", "app"}
Other(t) == IF t = "app" THEN "system" ELSE "app"
Ids == 1 .. MaxMade

ForApp    == {"event", "call", "notice"}
ForSystem == {"async", "sync", "result"}

\* of: the function call that a result answers, 0 in all others.
Message == [kind : ForApp \cup ForSystem, id : Ids, of : 0 .. MaxMade]
MessageFor(t) == {m \in Message : m.kind \in IF t = "app" THEN ForApp ELSE ForSystem}

None == [kind |-> "none", id |-> 0, of |-> 0]

VARIABLES queue,    \* the queue of each thread
          stack,    \* the messages each thread is executing, the innermost last
          putting,  \* the message each thread is putting into the other's queue
          waiting,  \* the synchronous call the application waits for, 0 for none
          buffer,   \* the event whose data is in the protocol's buffer, 0 for none
          made,     \* how many messages were made
          lost,     \* those that were dropped
          answers   \* the function calls whose results were sent, and by whom

vars == <<queue, stack, putting, waiting, buffer, made, lost, answers>>

TypeOK ==
    /\ queue \in [Threads -> Seq(Message)] /\ stack \in [Threads -> Seq(Message)]
    /\ \A t \in Threads :
        /\ Len(queue[t]) <= QueueSize
        /\ queue[t] \in Seq(MessageFor(t)) /\ stack[t] \in Seq(MessageFor(t))
    /\ Len(stack["system"]) <= 1
    /\ putting \in [Threads -> Message \cup {None}]
    /\ \A t \in Threads : putting[t] \in MessageFor(Other(t)) \cup {None}
    /\ waiting \in 0 .. MaxMade /\ buffer \in 0 .. MaxMade /\ made \in 0 .. MaxMade
    /\ lost \subseteq Ids
    /\ answers \in Seq([of : Ids, by : Threads])

Init ==
    /\ queue = [t \in Threads |-> <<>>] /\ stack = [t \in Threads |-> <<>>]
    /\ putting = [t \in Threads |-> None]
    /\ waiting = 0 /\ buffer = 0 /\ made = 0
    /\ lost = {} /\ answers = <<>>

-----------------------------------------------------------------------------
(* ActiveObjectQueue.                                                       *)

Blocked(t) == putting[t] # None \/ (t = "app" /\ waiting # 0)
Top(t) == Last(stack[t])
Executing(t, kinds) == ~Blocked(t) /\ stack[t] # <<>> /\ Top(t).kind \in kinds

\* put(), of a new message.
Put(t, kind, of) ==
    /\ made < MaxMade
    /\ made' = made + 1
    /\ putting' = [putting EXCEPT ![t] = [kind |-> kind, id |-> made', of |-> of]]

\* The end of put(): invoke_future goes on to wait, queued or not.
PutReturns(t) ==
    /\ putting' = [putting EXCEPT ![t] = None]
    /\ waiting' = IF putting[t].kind = "sync" THEN putting[t].id ELSE waiting
    /\ UNCHANGED <<stack, buffer, made, answers>>

Enqueue(t) ==
    /\ putting[t] # None /\ Len(queue[Other(t)]) < QueueSize
    /\ queue' = [queue EXCEPT ![Other(t)] = Append(@, putting[t])]
    /\ PutReturns(t)
    /\ UNCHANGED lost

\* Mutant: the system's thread waits for room without limit.
PutTimesOutInApp(t) ==
    /\ t = "app"
    /\ putting[t] # None /\ Len(queue[Other(t)]) = QueueSize
    /\ lost' = lost \cup {putting[t].id}
    /\ PutReturns(t)
    /\ UNCHANGED queue

\* put_wait has passed; the answer of os_queue_put is not looked at.
PutTimesOut(t) ==
    /\ putting[t] # None /\ Len(queue[Other(t)]) = QueueSize
    /\ lost' = lost \cup {putting[t].id}
    /\ PutReturns(t)
    /\ UNCHANGED queue

\* Mutant: the system's thread processes its queue while it executes.
TakeNested(t) ==
    /\ ~Blocked(t) /\ queue[t] # <<>> /\ Len(stack[t]) < MaxDepth
    /\ stack' = [stack EXCEPT ![t] = Append(@, Head(queue[t]))]
    /\ queue' = [queue EXCEPT ![t] = Tail(@)]
    /\ UNCHANGED <<putting, waiting, buffer, made, lost, answers>>

\* process(): in run(), and for the application in Particle.process() as well,
\* wherever it is called.
Take(t) ==
    /\ ~Blocked(t) /\ queue[t] # <<>>
    /\ IF t = "system" THEN stack[t] = <<>> ELSE Len(stack[t]) < MaxDepth
    /\ stack' = [stack EXCEPT ![t] = Append(@, Head(queue[t]))]
    /\ queue' = [queue EXCEPT ![t] = Tail(@)]
    /\ UNCHANGED <<putting, waiting, buffer, made, lost, answers>>

Returns(t) == stack' = [stack EXCEPT ![t] = Front(@)]

-----------------------------------------------------------------------------
(* The system's thread: its background function receives from the cloud.     *)

InBackground == stack["system"] = <<>> /\ ~Blocked("system")

\* invokeEventHandler: the name is copied, the data stays in the buffer.
EventArrives ==
    /\ InBackground
    /\ Put("system", "event", 0)
    /\ buffer' = made'
    /\ UNCHANGED <<queue, stack, waiting, lost, answers>>

\* userFuncSchedule
CallArrives ==
    /\ InBackground
    /\ Put("system", "call", 0)
    /\ buffer' = 0
    /\ UNCHANGED <<queue, stack, waiting, lost, answers>>

\* Any other message; and all that a system function sends.
OtherTraffic ==
    /\ ~Blocked("system") /\ buffer # 0
    /\ buffer' = 0
    /\ UNCHANGED <<queue, stack, putting, waiting, made, lost, answers>>

\* system_notify_event
Notify ==
    /\ ~Blocked("system")
    /\ Put("system", "notice", 0)
    /\ UNCHANGED <<queue, stack, waiting, buffer, lost, answers>>

AsyncEnds ==
    /\ Executing("system", {"async"})
    /\ Returns("system")
    /\ UNCHANGED <<queue, putting, waiting, buffer, made, lost, answers>>

\* The promise is kept: the semaphore is given.
SyncEnds ==
    /\ Executing("system", {"sync"})
    /\ Returns("system")
    /\ waiting' = 0
    /\ UNCHANGED <<queue, putting, buffer, made, lost, answers>>

\* function_result, with the token of the call.
ResultEnds ==
    /\ Executing("system", {"result"})
    /\ Returns("system")
    /\ answers' = Append(answers, [of |-> Top("system").of, by |-> "system"])
    /\ buffer' = 0
    /\ UNCHANGED <<queue, putting, waiting, made, lost>>

-----------------------------------------------------------------------------
(* The application's thread: its loop and, between two turns or wherever it  *)
(* processes, the handlers and functions called for the system.             *)

\* WiFi.connect(), WiFi.off(), ...
CallAsync ==
    /\ ~Blocked("app")
    /\ Put("app", "async", 0)
    /\ UNCHANGED <<queue, stack, waiting, buffer, lost, answers>>

\* Particle.publish(), Particle.subscribe(), ...
CallSync ==
    /\ ~Blocked("app")
    /\ Put("app", "sync", 0)
    /\ UNCHANGED <<queue, stack, waiting, buffer, lost, answers>>

HandlerEnds ==
    /\ Executing("app", {"event", "notice"})
    /\ Returns("app")
    /\ UNCHANGED <<queue, putting, waiting, buffer, made, lost, answers>>

\* Mutant: no return after the call has been marshalled, so that it is made here
\* as well.
FunctionEndsTwice ==
    /\ Executing("app", {"call"})
    /\ Returns("app")
    /\ Put("app", "result", Top("app").id)
    /\ answers' = Append(answers, [of |-> Top("app").id, by |-> "app"])
    /\ UNCHANGED <<queue, waiting, buffer, lost>>

\* userFuncScheduleImpl
FunctionEnds ==
    /\ Executing("app", {"call"})
    /\ Returns("app")
    /\ Put("app", "result", Top("app").id)
    /\ UNCHANGED <<queue, waiting, buffer, lost, answers>>

-----------------------------------------------------------------------------

System ==
    \/ Enqueue("system") \/ PutTimesOut("system") \/ Take("system")
    \/ AsyncEnds \/ SyncEnds \/ ResultEnds

Application ==
    \/ Enqueue("app") \/ PutTimesOut("app") \/ Take("app")
    \/ HandlerEnds \/ FunctionEnds

Next ==
    \/ System \/ Application
    \/ EventArrives \/ CallArrives \/ OtherTraffic \/ Notify
    \/ CallAsync \/ CallSync

\* The system's functions return; the application's need not.
SystemFairness == WF_vars(System)

Spec == Init /\ [][Next]_vars /\ SystemFairness

-----------------------------------------------------------------------------
\* The system's thread always comes back to its background function, whatever
\* the application does in its own thread, or stops doing.
SystemServes == []<>InBackground

\* A synchronous call that was not dropped returns, even if the system is just
\* putting something into a queue that the waiting application does not empty.
SyncCallReturns ==
    \A id \in Ids : waiting = id /\ id \notin lost ~> waiting # id

\* A function call is answered at most once, and by the system's thread, whose
\* protocol and socket are not guarded against another.
AnsweredOnce ==
    \A i \in DOMAIN answers :
        /\ answers[i].by = "system"
        /\ \A j \in DOMAIN answers : answers[j].of = answers[i].of => i = j

\* An event is handled with the data that came with it, however long it was
\* queued.  The code does not keep this: invokeEventHandler queues the pointer to
\* the buffer.
EventDataIntact ==
    [][Take("app") /\ Head(queue["app"]).kind = "event" =>
            buffer = Head(queue["app"]).id]_vars

=============================================================================
