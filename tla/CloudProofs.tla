----------------------------- MODULE CloudProofs -----------------------------
(***************************************************************************)
(* What the server knows and what it is told, for every set of names and    *)
(* handlers, and however deep the calls go.  The invariant: a message is on *)
(* its way, or served by one running call, or done, and never twice; and    *)
(* an event whose name is still in the buffer has been given to every       *)
(* handler before the one its loop is at.                                   *)
(***************************************************************************)
EXTENDS CloudMessages, SequenceTheorems, TLAPS

Frame == EventFrame \cup CallFrame \cup GreetingFrame

Serves(k, id) == stack[k].kind # "greeting" /\ stack[k].id = id
Served(id) == Answered(id) \/ \E k \in DOMAIN stack : Serves(k, id)

\* Token and argument are those of the call.
Matched(id, token, argument) ==
    /\ id \in DOMAIN msgs
    /\ token = msgs[id].token
    /\ ~msgs[id].long => argument = id

Bounded ==
    /\ conn.socketed => conn.session \in 1 .. MaxSessions
    /\ \A k \in DOMAIN stack :
           /\ stack[k].kind = "event" /\ stack[k].running => stack[k].at <= Slots
           /\ stack[k].kind = "call" => stack[k].arg \in 0 .. Len(msgs)

Known == Reaches(conn) => \A h \in ToSet(handlers) : h.late \/ h.filter \in known

Once ==
    /\ \A i, j \in DOMAIN wire : wire[i] = wire[j] => i = j
    /\ \A i \in DOMAIN wire : ~Served(wire[i])
    /\ \A k, l \in DOMAIN stack :
           stack[k].kind # "greeting" /\ Serves(l, stack[k].id) => k = l
    /\ \A k \in DOMAIN stack : stack[k].kind # "greeting" => stack[k].id \in DOMAIN msgs
    /\ \A k \in DOMAIN stack : stack[k].kind = "call" => ~Answered(stack[k].id)
    /\ \A i, j \in DOMAIN answers : answers[j].call = answers[i].call => i = j

Marked ==
    /\ \A k \in DOMAIN stack : stack[k].kind = "call" =>
           Matched(stack[k].id, stack[k].token, stack[k].arg)
    /\ \A i \in DOMAIN answers :
           Matched(answers[i].call, answers[i].token, answers[i].arg)

\* The loop of handle_event has passed the slot, or is at it and its handler runs.
Passed(f, i) == i < f.at \/ (f.running /\ i = f.at)

\* The handlers that an event is for are still there, unless all have been removed,
\* and those its loop has passed have been called if the name is still there.
Hears(f, hs, b, ms) ==
    /\ \A key \in f.due : \E i \in DOMAIN hs : KeyOf(hs[i]) = key
    /\ f.due # {} => /\ f.at <= Len(hs) + 1
                     /\ f.running => f.at <= Len(hs)
    /\ f.id = b =>
           \A i \in DOMAIN hs :
               Passed(f, i) /\ KeyOf(hs[i]) \in f.due /\ IsPrefix(hs[i].filter, ms[b].name)
                   => KeyOf(hs[i]) \in f.told

Heard == \A k \in DOMAIN stack :
             stack[k].kind = "event" => Hears(stack[k], handlers, buffer, msgs)

IInv == TypeOK /\ Bounded /\ Known /\ Once /\ Marked /\ Heard

-----------------------------------------------------------------------------
(* Sequences and frames.                                                    *)

LEMMA Appended ==
    ASSUME NEW S, NEW s \in Seq(S), NEW e \in S
    PROVE  /\ Append(s, e) \in Seq(S) /\ Len(Append(s, e)) = Len(s) + 1
           /\ \A i \in 1 .. Len(s) : Append(s, e)[i] = s[i]
           /\ Append(s, e)[Len(s) + 1] = e
  OBVIOUS

LEMMA Popped ==
    ASSUME NEW S, NEW s \in Seq(S), s # <<>>
    PROVE  /\ Len(s) \in Nat \ {0} /\ Last(s) = s[Len(s)] /\ Last(s) \in S
           /\ Front(s) \in Seq(S) /\ Len(Front(s)) = Len(s) - 1
           /\ \A i \in 1 .. Len(s) - 1 : Front(s)[i] = s[i]
<1>1. Len(s) \in Nat \ {0}
  OBVIOUS
<1>2. Last(s) = s[Len(s)] /\ Last(s) \in S
  BY <1>1 DEF Last
<1>3. \A i \in 1 .. Len(s) - 1 : s[i] \in S
  BY <1>1
<1>4. /\ SubSeq(s, 1, Len(s) - 1) \in Seq(S)
      /\ Len(SubSeq(s, 1, Len(s) - 1)) = IF 1 <= Len(s) - 1 THEN (Len(s) - 1) - 1 + 1 ELSE 0
      /\ \A i \in 1 .. (Len(s) - 1) - 1 + 1 : SubSeq(s, 1, Len(s) - 1)[i] = s[1 + i - 1]
  BY <1>1, <1>3, SubSeqProperties
<1>5. Front(s) \in Seq(S) /\ Len(Front(s)) = Len(s) - 1
  <2>1. Front(s) \in Seq(S)
    BY <1>4 DEF Front
  <2>2. Len(Front(s)) = IF 1 <= Len(s) - 1 THEN (Len(s) - 1) - 1 + 1 ELSE 0
    BY <1>4 DEF Front
  <2>3. ASSUME NEW n \in Nat \ {0} PROVE (IF 1 <= n - 1 THEN (n - 1) - 1 + 1 ELSE 0) = n - 1
    OBVIOUS
  <2> QED
    BY <1>1, <2>1, <2>2, <2>3
<1>6. \A i \in 1 .. Len(s) - 1 : Front(s)[i] = s[i]
  BY <1>1, <1>4 DEF Front
<1> QED
  BY <1>1, <1>2, <1>5, <1>6

LEMMA Swapped ==
    ASSUME NEW S, NEW s \in Seq(S), s # <<>>, NEW e \in S
    PROVE  /\ Append(Front(s), e) \in Seq(S) /\ Len(Append(Front(s), e)) = Len(s)
           /\ \A i \in 1 .. Len(s) - 1 : Append(Front(s), e)[i] = s[i]
           /\ Append(Front(s), e)[Len(s)] = e
  BY Popped, Appended

LEMMA Tailed ==
    ASSUME NEW S, NEW s \in Seq(S), s # <<>>
    PROVE  /\ Len(s) \in Nat \ {0} /\ Head(s) = s[1] /\ Head(s) \in S
           /\ Tail(s) \in Seq(S) /\ Len(Tail(s)) = Len(s) - 1
           /\ \A i \in 1 .. Len(s) - 1 : Tail(s)[i] = s[i + 1]
  OBVIOUS

LEMMA Kinds ==
    ASSUME NEW f \in Frame
    PROVE  /\ f.kind \in {"event", "call", "greeting"}
           /\ f.kind = "event" <=> f \in EventFrame
           /\ f.kind = "call" <=> f \in CallFrame
           /\ f.kind = "greeting" <=> f \in GreetingFrame
  BY DEF Frame, EventFrame, CallFrame, GreetingFrame

LEMMA StackOf ==
    ASSUME TypeOK
    PROVE  /\ stack \in Seq(Frame) /\ Len(stack) \in Nat /\ DOMAIN stack = 1 .. Len(stack)
           /\ \A k \in DOMAIN stack : stack[k] \in Frame
           /\ stack # <<>> => /\ Top = stack[Len(stack)] /\ Top \in Frame
                              /\ Len(stack) \in DOMAIN stack
<1>1. stack \in Seq(Frame)
  BY DEF TypeOK, Frame
<1>2. /\ Len(stack) \in Nat /\ DOMAIN stack = 1 .. Len(stack)
      /\ \A k \in DOMAIN stack : stack[k] \in Frame
  BY <1>1
<1>3. stack # <<>> => Top = stack[Len(stack)] /\ Top \in Frame /\ Len(stack) \in 1 .. Len(stack)
  BY <1>1, Popped DEF Top
<1> QED
  BY <1>1, <1>2, <1>3

\* Up to the n-th, only greetings have changed.
Below(n) ==
    \A k \in 1 .. n : /\ stack'[k].kind = stack[k].kind
                      /\ stack[k].kind # "greeting" => stack'[k] = stack[k]

LEMMA CallerIs ==
    ASSUME TypeOK
    PROVE  /\ Caller \in Seq(Frame) /\ Len(Caller) = Len(stack)
           /\ \A k \in 1 .. Len(stack) :
                  /\ Caller[k].kind = stack[k].kind
                  /\ stack[k].kind # "greeting" => Caller[k] = stack[k]
<1>1. CASE GreetingReceives
  <2> DEFINE f == [Top EXCEPT !.received = TRUE]
  <2>1. stack # <<>> /\ Top.kind = "greeting" /\ Top \in GreetingFrame
    BY <1>1, StackOf, Kinds DEF GreetingReceives
  <2>2. f \in Frame /\ f.kind = "greeting"
    BY <2>1 DEF Frame, GreetingFrame
  <2>3. Caller = Append(Front(stack), f)
    BY <1>1 DEF Caller, WithTop
  <2> HIDE DEF f
  <2>4. /\ Caller \in Seq(Frame) /\ Len(Caller) = Len(stack) /\ Caller[Len(stack)] = f
        /\ \A k \in 1 .. Len(stack) - 1 : Caller[k] = stack[k]
    <3>1. stack \in Seq(Frame) /\ f \in Frame /\ stack # <<>>
      BY <2>1, <2>2, StackOf
    <3> QED
      BY <2>3, <3>1, Swapped
  <2>5. stack[Len(stack)].kind = "greeting" /\ Len(stack) \in Nat
    BY <2>1, StackOf
  <2> QED
    BY <2>2, <2>4, <2>5
<1>2. CASE ~GreetingReceives
  BY <1>2, StackOf DEF Caller
<1> QED
  BY <1>1, <1>2

-----------------------------------------------------------------------------
(* Once and Marked, for each way the stack can change.                      *)

WireShrinks == wire' = wire \/ wire' = <<>> \/ (wire # <<>> /\ wire' = Tail(wire))

LEMMA Shrinks ==
    ASSUME TypeOK, Once, WireShrinks
    PROVE  /\ wire' \in Seq(DOMAIN msgs)
           /\ \A i, j \in DOMAIN wire' : wire'[i] = wire'[j] => i = j
           /\ \A i \in DOMAIN wire' : \E j \in DOMAIN wire : wire'[i] = wire[j]
<1>1. wire \in Seq(DOMAIN msgs) /\ \A i, j \in DOMAIN wire : wire[i] = wire[j] => i = j
  BY DEF TypeOK, Once
<1>2. CASE wire' = wire
  BY <1>1, <1>2
<1>4. CASE wire' = <<>>
  BY <1>4
<1>3. CASE wire # <<>> /\ wire' = Tail(wire)
  <2>1. /\ wire' \in Seq(DOMAIN msgs) /\ Len(wire') = Len(wire) - 1
        /\ \A i \in 1 .. Len(wire) - 1 : wire'[i] = wire[i + 1]
        /\ DOMAIN wire' = 1 .. Len(wire) - 1
    BY <1>1, <1>3, Tailed
  <2>2. ASSUME NEW i \in DOMAIN wire' PROVE i + 1 \in DOMAIN wire /\ wire'[i] = wire[i + 1] /\ i \in Int
    BY <1>1, <2>1
  <2>3. ASSUME NEW i \in DOMAIN wire', NEW j \in DOMAIN wire', wire'[i] = wire'[j] PROVE i = j
    <3>1. i + 1 = j + 1
      BY <1>1, <2>2, <2>3
    <3> QED
      BY <2>2, <3>1
  <2> QED
    BY <2>1, <2>2, <2>3
<1> QED
  BY <1>2, <1>3, <1>4 DEF WireShrinks

\* The head is not in the tail.
LEMMA HeadLeaves ==
    ASSUME TypeOK, Once, wire # <<>>, wire' = Tail(wire)
    PROVE  \A i \in DOMAIN wire' : wire'[i] # Head(wire)
<1>1. wire \in Seq(DOMAIN msgs) /\ \A i, j \in DOMAIN wire : wire[i] = wire[j] => i = j
  BY DEF TypeOK, Once
<1>2. /\ Len(wire) \in Nat \ {0} /\ Head(wire) = wire[1] /\ DOMAIN wire' = 1 .. Len(wire) - 1
      /\ \A i \in 1 .. Len(wire) - 1 : wire'[i] = wire[i + 1]
  BY <1>1, Tailed
<1> QED
  BY <1>1, <1>2

\* No further message is served.
NoneNew ==
    \A k \in DOMAIN stack' : stack'[k].kind # "greeting" =>
        /\ k \in DOMAIN stack
        /\ stack'[k].kind = stack[k].kind /\ stack'[k].id = stack[k].id
        /\ stack[k].kind = "call" => stack'[k] = stack[k]

LEMMA NoneServed ==
    ASSUME TypeOK, Once, Marked, NoneNew, WireShrinks, UNCHANGED <<msgs, answers>>
    PROVE  Once' /\ Marked'
<1>2. \A i \in DOMAIN wire' : ~Served(wire[i])'
  <2> SUFFICES ASSUME NEW i \in DOMAIN wire', Served(wire[i])' PROVE FALSE
    OBVIOUS
  <2>1. PICK j \in DOMAIN wire : wire'[i] = wire[j]
    BY Shrinks
  <2>2. Served(wire[j])
    BY <2>1 DEF Served, Serves, Answered, NoneNew
  <2> QED
    BY <2>2 DEF Once
<1>3. \A k, l \in DOMAIN stack' :
          stack'[k].kind # "greeting" /\ stack'[l].kind # "greeting" /\ stack'[l].id = stack'[k].id
              => k = l
  BY DEF Once, Serves, NoneNew
<1>4. \A k \in DOMAIN stack' : stack'[k].kind # "greeting" => stack'[k].id \in DOMAIN msgs'
  BY DEF Once, NoneNew
<1>5. \A k \in DOMAIN stack' : stack'[k].kind = "call" => ~Answered(stack[k].id)'
  BY DEF Once, NoneNew, Answered
<1>6. \A i, j \in DOMAIN answers' : answers'[j].call = answers'[i].call => i = j
  BY DEF Once
<1>7. Once'
  BY <1>2, <1>3, <1>4, <1>5, <1>6, Shrinks DEF Once, Serves
<1>8. Marked'
  BY DEF Marked, Matched, NoneNew
<1> QED
  BY <1>7, <1>8

\* A message from the head of the wire is served.
LEMMA MoreServed ==
    ASSUME TypeOK, Once, Marked, stack' \in Seq(Frame), Len(stack') = Len(stack) + 1,
           Below(Len(stack)), wire # <<>>, wire' = Tail(wire),
           stack'[Len(stack')].kind # "greeting", stack'[Len(stack')].id = Head(wire),
           stack'[Len(stack')].kind = "call" =>
               Matched(stack'[Len(stack')].id, stack'[Len(stack')].token, stack'[Len(stack')].arg),
           UNCHANGED <<msgs, answers>>
    PROVE  Once' /\ Marked'
<1> DEFINE n == Len(stack)
           id == Head(wire)
<1>1. n \in Nat /\ DOMAIN stack = 1 .. n /\ DOMAIN stack' = 1 .. n + 1 /\ Len(stack') = n + 1
  BY StackOf
<1>2. wire # <<>> /\ id \in DOMAIN msgs /\ \E j \in DOMAIN wire : wire[j] = id
  BY Tailed DEF TypeOK
<1>3. ~Answered(id) /\ \A k \in 1 .. n : stack[k].kind # "greeting" => stack[k].id # id
  BY <1>1, <1>2 DEF Once, Served, Serves
<1>4. /\ stack'[n + 1].kind # "greeting" /\ stack'[n + 1].id = id
      /\ stack'[n + 1].kind = "call" =>
             Matched(id, stack'[n + 1].token, stack'[n + 1].arg)
      /\ \A k \in 1 .. n : /\ stack'[k].kind = stack[k].kind
                           /\ stack[k].kind # "greeting" => stack'[k] = stack[k]
  BY <1>1 DEF Below
<1> HIDE DEF n, id
<1>5. \A i \in DOMAIN wire' : ~Served(wire[i])'
  <2> SUFFICES ASSUME NEW i \in DOMAIN wire', Served(wire[i])' PROVE FALSE
    OBVIOUS
  <2>1. PICK j \in DOMAIN wire : wire'[i] = wire[j]
    BY Shrinks DEF WireShrinks
  <2>2. wire'[i] # id
    BY HeadLeaves DEF id
  <2>3. Served(wire[j])
    BY SMTT(30), <1>1, <1>4, <2>1, <2>2 DEF Served, Serves, Answered
  <2> QED
    BY <2>3 DEF Once
<1>6. \A k, l \in DOMAIN stack' :
          stack'[k].kind # "greeting" /\ stack'[l].kind # "greeting" /\ stack'[l].id = stack'[k].id
              => k = l
  BY <1>1, <1>3, <1>4 DEF Once, Serves
<1>7. \A k \in DOMAIN stack' : stack'[k].kind # "greeting" => stack'[k].id \in DOMAIN msgs'
  BY <1>1, <1>2, <1>4 DEF Once
<1>8. \A k \in DOMAIN stack' : stack'[k].kind = "call" => ~Answered(stack[k].id)'
  BY <1>1, <1>3, <1>4 DEF Once, Answered
<1>9. \A i, j \in DOMAIN answers' : answers'[j].call = answers'[i].call => i = j
  BY DEF Once
<1>10. Once'
  BY <1>5, <1>6, <1>7, <1>8, <1>9, Shrinks DEF Once, Serves, WireShrinks
<1>11. Marked'
  BY <1>1, <1>4 DEF Marked, Matched
<1> QED
  BY <1>10, <1>11

\* The innermost call is over; its result may go out.
LEMMA OneOver ==
    ASSUME TypeOK, Once, Marked, stack # <<>>, NoneNew, Len(stack) \notin DOMAIN stack',
           Top.kind = "call", UNCHANGED <<wire, msgs>>, Top.arg \in 0 .. Len(msgs),
           answers' = Append(answers, [call |-> Top.id, token |-> Top.token, arg |-> Top.arg])
    PROVE  Once' /\ Marked' /\ answers' \in Seq([call : DOMAIN msgs, token : 0 .. Tokens - 1, arg : 0 .. Len(msgs)])
<1> DEFINE n == Len(stack)
           answer == [call |-> Top.id, token |-> Top.token, arg |-> Top.arg]
           m == Len(answers)
<1>1. n \in DOMAIN stack /\ Top = stack[n] /\ Top \in Frame
  BY StackOf
<1>2. Top \in CallFrame /\ Top.id \in DOMAIN msgs /\ ~Answered(Top.id)
      /\ Matched(Top.id, Top.token, Top.arg)
  BY <1>1, Kinds DEF Once, Marked
<1>3. answer \in [call : DOMAIN msgs, token : 0 .. Tokens - 1, arg : 0 .. Len(msgs)]
  BY <1>2 DEF CallFrame
<1>4. /\ answers' \in Seq([call : DOMAIN msgs, token : 0 .. Tokens - 1, arg : 0 .. Len(msgs)])
      /\ m \in Nat /\ DOMAIN answers = 1 .. m /\ DOMAIN answers' = 1 .. m + 1
      /\ \A i \in 1 .. m : answers'[i] = answers[i]
      /\ answers'[m + 1] = answer
  BY <1>3, Appended DEF TypeOK
<1>5. /\ answer.call = Top.id /\ answer.token = Top.token /\ answer.arg = Top.arg
  OBVIOUS
<1>6. \A i \in 1 .. m : answers[i].call # Top.id
  BY <1>2, <1>4 DEF Answered
<1>7. \A k \in DOMAIN stack : stack[k].kind # "greeting" /\ stack[k].id = Top.id => k = n
  BY <1>1 DEF Once, Serves
<1>8. stack[n].kind = "call" /\ n \notin DOMAIN stack'
  BY <1>1
<1> HIDE DEF n, answer, m
<1>9. ASSUME NEW id PROVE Answered(id)' <=> Answered(id) \/ id = Top.id
  BY SMTT(30), <1>4, <1>5 DEF Answered
<1>10. \A i \in DOMAIN wire' : ~Served(wire[i])'
  <2> SUFFICES ASSUME NEW i \in DOMAIN wire', Served(wire[i])' PROVE FALSE
    OBVIOUS
  <2>1. wire'[i] = wire[i] /\ i \in DOMAIN wire
    OBVIOUS
  <2>2. Served(wire[i])
    BY <1>1, <1>4, <1>5, <1>8, <2>1 DEF Served, Serves, Answered, NoneNew
  <2> QED
    BY <2>1, <2>2 DEF Once
<1>11. \A k, l \in DOMAIN stack' :
          stack'[k].kind # "greeting" /\ stack'[l].kind # "greeting" /\ stack'[l].id = stack'[k].id
              => k = l
  BY DEF Once, Serves, NoneNew
<1>12. \A k \in DOMAIN stack' : stack'[k].kind # "greeting" => stack'[k].id \in DOMAIN msgs'
  BY DEF Once, NoneNew
<1>13. \A k \in DOMAIN stack' : stack'[k].kind = "call" => ~Answered(stack[k].id)'
  <2> SUFFICES ASSUME NEW k \in DOMAIN stack', stack'[k].kind = "call", Answered(stack[k].id)' PROVE FALSE
    OBVIOUS
  <2>1. k \in DOMAIN stack /\ k # n /\ stack[k].kind = "call" /\ stack'[k].id = stack[k].id
    BY <1>8 DEF NoneNew
  <2>2. stack[k].id # Top.id /\ ~Answered(stack[k].id)
    BY <1>7, <2>1 DEF Once
  <2> QED
    BY <1>4, <1>5, <2>1, <2>2 DEF Answered
<1>14. \A i, j \in DOMAIN answers' : answers'[j].call = answers'[i].call => i = j
  BY SMTT(30), <1>4, <1>5, <1>6 DEF Once
<1>15. Once'
  BY <1>10, <1>11, <1>12, <1>13, <1>14 DEF Once, Serves
<1>16. Marked'
  <2>1. \A k \in DOMAIN stack' : stack'[k].kind = "call" =>
            Matched(stack'[k].id, stack'[k].token, stack'[k].arg)
    BY DEF Marked, NoneNew
  <2>2. \A i \in DOMAIN answers' :
           Matched(answers'[i].call, answers'[i].token, answers'[i].arg)
    BY <1>2, <1>4, <1>5 DEF Marked
  <2> QED
    BY <2>1, <2>2 DEF Marked, Matched
<1> QED
  BY <1>4, <1>15, <1>16

\* A message is sent.
LEMMA OneSent ==
    ASSUME TypeOK, Once, Marked, NEW m \in Event \cup Call,
           msgs' = Append(msgs, m), wire' = Append(wire, Len(msgs')),
           UNCHANGED <<stack, answers>>
    PROVE  Once' /\ Marked' /\ wire' \in Seq(DOMAIN msgs')
<1> DEFINE n == Len(msgs)
           w == Len(wire)
<1>1. /\ n \in Nat /\ DOMAIN msgs = 1 .. n /\ DOMAIN msgs' = 1 .. n + 1 /\ Len(msgs') = n + 1
      /\ \A id \in DOMAIN msgs : msgs'[id] = msgs[id]
  BY Appended DEF TypeOK
<1>2. wire \in Seq(1 .. n + 1)
  BY <1>1 DEF TypeOK
<1>3. /\ w \in Nat /\ DOMAIN wire = 1 .. w /\ DOMAIN wire' = 1 .. w + 1
      /\ wire' \in Seq(1 .. n + 1)
      /\ \A i \in 1 .. w : wire'[i] = wire[i]
      /\ wire'[w + 1] = n + 1
  BY <1>1, <1>2, Appended
<1>4. \A i \in 1 .. w : wire[i] \in 1 .. n
  BY <1>1, <1>3 DEF TypeOK
<1>5. \A i \in DOMAIN answers : answers[i].call \in 1 .. n
  <2> DEFINE Answer == [call : DOMAIN msgs, token : 0 .. Tokens - 1, arg : 0 .. Len(msgs)]
  <2>1. \A a \in Answer : a.call \in DOMAIN msgs
    OBVIOUS
  <2>2. answers \in Seq(Answer)
    BY DEF TypeOK
  <2> HIDE DEF Answer
  <2>3. \A i \in DOMAIN answers : answers[i] \in Answer
    BY <2>2
  <2> QED
    BY <1>1, <2>1, <2>3
<1>6. \A k \in DOMAIN stack : stack[k].kind # "greeting" => stack[k].id \in 1 .. n
  BY <1>1 DEF Once
<1> HIDE DEF n, w
<1>7. ~Served(n + 1)
  BY <1>1, <1>5, <1>6 DEF Served, Serves, Answered
<1>8. \A i, j \in DOMAIN wire' : wire'[i] = wire'[j] => i = j
  BY <1>1, <1>3, <1>4 DEF Once
<1>9. \A i \in DOMAIN wire' : ~Served(wire'[i])
  BY <1>3, <1>7 DEF Once
<1>10. \A i \in DOMAIN wire' : ~Served(wire[i])'
  BY <1>9 DEF Served, Serves, Answered
<1>11. Once'
  BY <1>1, <1>8, <1>10 DEF Once, Serves, Answered
<1>12. Marked'
  BY <1>1 DEF Marked, Matched
<1> QED
  BY <1>1, <1>3, <1>11, <1>12

-----------------------------------------------------------------------------
(* Heard, for each way the handlers, the buffer and a frame can change.      *)

\* Another name in the buffer, or the same one.
LEMMA HearsOn ==
    ASSUME NEW f, NEW hs, NEW b, NEW ms, NEW b2, NEW ms2, Hears(f, hs, b, ms),
           f.id = b2 => b2 = b /\ ms2[b].name = ms[b].name
    PROVE  Hears(f, hs, b2, ms2)
  BY DEF Hears

LEMMA HearsLater ==
    ASSUME NEW f \in EventFrame, NEW hs \in Seq(Handler), NEW h \in Handler, NEW b, NEW ms,
           Hears(f, hs, b, ms)
    PROVE  Hears(f, Append(hs, h), b, ms)
<1> DEFINE n == Len(hs)
           hs2 == Append(hs, h)
<1>1. /\ n \in Nat /\ DOMAIN hs = 1 .. n /\ DOMAIN hs2 = 1 .. n + 1 /\ Len(hs2) = n + 1
      /\ \A i \in 1 .. n : hs2[i] = hs[i]
  BY Appended
<1>2. f.at \in Nat /\ f.running \in BOOLEAN
  BY BoundAssumption DEF EventFrame
<1> HIDE DEF n, hs2
<1>3. \A key \in f.due : \E i \in DOMAIN hs2 : KeyOf(hs2[i]) = key
  <2> SUFFICES ASSUME NEW key \in f.due PROVE \E i \in DOMAIN hs2 : KeyOf(hs2[i]) = key
    OBVIOUS
  <2>1. PICK i \in DOMAIN hs : KeyOf(hs[i]) = key
    BY DEF Hears
  <2>2. i \in DOMAIN hs2 /\ hs2[i] = hs[i]
    BY <1>1
  <2> QED
    BY <2>1, <2>2
<1>4. f.due # {} => f.at <= n + 1 /\ (f.running => f.at <= n)
  BY DEF Hears, n
<1>5. f.due # {} => f.at <= n + 2 /\ (f.running => f.at <= n + 1)
  BY <1>1, <1>2, <1>4
<1>6. ASSUME f.id = b, NEW i \in DOMAIN hs2, Passed(f, i), KeyOf(hs2[i]) \in f.due,
             IsPrefix(hs2[i].filter, ms[b].name)
      PROVE  KeyOf(hs2[i]) \in f.told
  <2>1. f.due # {}
    BY <1>6
  <2>2. i # n + 1
    BY <1>1, <1>2, <1>4, <1>6, <2>1 DEF Passed
  <2>3. i \in DOMAIN hs /\ hs2[i] = hs[i]
    BY <1>1, <2>2
  <2> QED
    BY <1>6, <2>3 DEF Hears
<1>7. Hears(f, hs2, b, ms)
  <2>1. f.due # {} => f.at <= Len(hs2) + 1 /\ (f.running => f.at <= Len(hs2))
    BY <1>1, <1>5
  <2> QED
    BY <1>3, <1>6, <2>1 DEF Hears
<1> QED
  BY <1>7 DEF hs2

\* Only what is not part of the key has changed.
LEMMA HearsSame ==
    ASSUME NEW f, NEW hs, NEW hs2, NEW b, NEW ms, Hears(f, hs, b, ms),
           DOMAIN hs2 = DOMAIN hs, Len(hs2) = Len(hs),
           \A i \in DOMAIN hs : hs2[i].filter = hs[i].filter /\ KeyOf(hs2[i]) = KeyOf(hs[i])
    PROVE  Hears(f, hs2, b, ms)
  BY DEF Hears

LEMMA HearsNone ==
    ASSUME NEW f, f.due = {}, NEW hs, NEW b, NEW ms
    PROVE  Hears(f, hs, b, ms)
  BY DEF Hears

LEMMA HearsNew ==
    ASSUME NEW hs \in Seq(Handler), NEW id, NEW ms
    PROVE  Hears([kind |-> "event", running |-> FALSE, id |-> id, at |-> 1,
                  due |-> {KeyOf(h) : h \in ToSet(hs)}, told |-> {}], hs, id, ms)
<1> DEFINE f == [kind |-> "event", running |-> FALSE, id |-> id, at |-> 1,
                 due |-> {KeyOf(h) : h \in ToSet(hs)}, told |-> {}]
<1>1. Len(hs) \in Nat /\ DOMAIN hs = 1 .. Len(hs)
  OBVIOUS
<1>2. f.due = {KeyOf(h) : h \in ToSet(hs)} /\ f.at = 1 /\ f.running = FALSE
  OBVIOUS
<1> HIDE DEF f
<1>3. \A key \in f.due : \E i \in DOMAIN hs : KeyOf(hs[i]) = key
  BY <1>2 DEF ToSet
<1>4. f.at <= Len(hs) + 1
  BY <1>1, <1>2
<1>5. \A i \in DOMAIN hs : ~Passed(f, i)
  BY <1>1, <1>2 DEF Passed
<1>6. Hears(f, hs, id, ms)
  BY <1>2, <1>3, <1>4, <1>5 DEF Hears
<1> QED
  BY <1>6 DEF f

LEMMA HearsCalled ==
    ASSUME NEW f \in EventFrame, ~f.running, NEW hs \in Seq(Handler), f.at <= Len(hs),
           NEW b, NEW ms, Hears(f, hs, b, ms)
    PROVE  Hears([f EXCEPT !.running = TRUE, !.told = @ \cup {KeyOf(hs[f.at])}], hs, b, ms)
<1> DEFINE g == [f EXCEPT !.running = TRUE, !.told = @ \cup {KeyOf(hs[f.at])}]
<1>1. /\ g.due = f.due /\ g.at = f.at /\ g.id = f.id /\ g.running = TRUE
      /\ g.told = f.told \cup {KeyOf(hs[f.at])}
  BY DEF EventFrame
<1> HIDE DEF g
<1>2. \A i \in DOMAIN hs : Passed(g, i) => Passed(f, i) \/ i = f.at
  BY <1>1 DEF Passed
<1>3. Hears(g, hs, b, ms)
  BY <1>1, <1>2 DEF Hears
<1> QED
  BY <1>3 DEF g

LEMMA HearsSkipped ==
    ASSUME NEW f \in EventFrame, ~f.running, NEW hs \in Seq(Handler), f.at <= Len(hs),
           NEW b, NEW ms, Hears(f, hs, b, ms),
           f.id = b => ~IsPrefix(hs[f.at].filter, ms[b].name)
    PROVE  Hears([f EXCEPT !.at = @ + 1], hs, b, ms)
<1> DEFINE g == [f EXCEPT !.at = @ + 1]
<1>1. /\ g.due = f.due /\ g.at = f.at + 1 /\ g.id = f.id /\ g.running = f.running
      /\ g.told = f.told /\ f.at \in Nat /\ Len(hs) \in Nat /\ DOMAIN hs = 1 .. Len(hs)
  BY BoundAssumption DEF EventFrame
<1> HIDE DEF g
<1>2. \A i \in DOMAIN hs : Passed(g, i) => Passed(f, i) \/ i = f.at
  BY <1>1 DEF Passed
<1>3. g.at <= Len(hs) + 1 /\ ~g.running
  BY <1>1
<1>4. Hears(g, hs, b, ms)
  BY <1>1, <1>2, <1>3 DEF Hears
<1> QED
  BY <1>4 DEF g

LEMMA HearsReturned ==
    ASSUME NEW f \in EventFrame, f.running, NEW hs \in Seq(Handler),
           NEW b, NEW ms, Hears(f, hs, b, ms)
    PROVE  Hears([f EXCEPT !.running = FALSE, !.at = @ + 1], hs, b, ms)
<1> DEFINE g == [f EXCEPT !.running = FALSE, !.at = @ + 1]
<1>1. /\ g.due = f.due /\ g.at = f.at + 1 /\ g.id = f.id /\ g.running = FALSE
      /\ g.told = f.told /\ f.at \in Nat /\ Len(hs) \in Nat /\ DOMAIN hs = 1 .. Len(hs)
  BY BoundAssumption DEF EventFrame
<1> HIDE DEF g
<1>2. \A i \in DOMAIN hs : Passed(g, i) => Passed(f, i)
  BY <1>1 DEF Passed
<1>3. g.due # {} => g.at <= Len(hs) + 1
  BY <1>1 DEF Hears
<1>4. Hears(g, hs, b, ms)
  BY <1>1, <1>2, <1>3 DEF Hears
<1> QED
  BY <1>4 DEF g

-----------------------------------------------------------------------------
(* The stack as a whole.                                                    *)

\* What a frame has to be, besides the one that serves its message.
Fine(f, hs, b, ms) ==
    /\ f.kind = "event" => (f.running => f.at <= Slots) /\ Hears(f, hs, b, ms)
    /\ f.kind = "call" => f.arg \in 0 .. Len(ms)

AllFine(s, hs, b, ms) == s \in Seq(Frame) /\ \A k \in DOMAIN s : Fine(s[k], hs, b, ms)

LEMMA StackFine == ASSUME IInv PROVE AllFine(stack, handlers, buffer, msgs)
  BY StackOf DEF IInv, AllFine, Fine, Bounded, Heard

LEMMA FineAppended ==
    ASSUME NEW s, NEW hs, NEW b, NEW ms, AllFine(s, hs, b, ms),
           NEW f \in Frame, Fine(f, hs, b, ms)
    PROVE  AllFine(Append(s, f), hs, b, ms)
<1>1. /\ s \in Seq(Frame) /\ Append(s, f) \in Seq(Frame) /\ Len(s) \in Nat
      /\ DOMAIN s = 1 .. Len(s) /\ DOMAIN Append(s, f) = 1 .. Len(s) + 1
      /\ \A k \in 1 .. Len(s) : Append(s, f)[k] = s[k]
      /\ Append(s, f)[Len(s) + 1] = f
  BY Appended DEF AllFine
<1>2. \A k \in 1 .. Len(s) + 1 : Fine(Append(s, f)[k], hs, b, ms)
  BY <1>1 DEF AllFine
<1> QED
  BY <1>1, <1>2 DEF AllFine

LEMMA FineFront ==
    ASSUME NEW s, NEW hs, NEW b, NEW ms, AllFine(s, hs, b, ms), s # <<>>
    PROVE  AllFine(Front(s), hs, b, ms)
<1>1. /\ s \in Seq(Frame) /\ Front(s) \in Seq(Frame) /\ Len(s) \in Nat \ {0}
      /\ DOMAIN s = 1 .. Len(s) /\ DOMAIN Front(s) = 1 .. Len(s) - 1
      /\ \A k \in 1 .. Len(s) - 1 : Front(s)[k] = s[k]
  BY Popped DEF AllFine
<1>2. \A k \in 1 .. Len(s) - 1 : Fine(Front(s)[k], hs, b, ms)
  BY <1>1 DEF AllFine
<1> QED
  BY <1>1, <1>2 DEF AllFine

LEMMA FineOn ==
    ASSUME NEW s, NEW hs, NEW b, NEW ms, AllFine(s, hs, b, ms), NEW b2, NEW ms2,
           Len(ms) \in Nat, Len(ms2) \in Nat, Len(ms) <= Len(ms2),
           \/ b2 = b /\ ms2[b] = ms[b]
           \/ \A k \in DOMAIN s : s[k].kind = "event" => s[k].id # b2
    PROVE  AllFine(s, hs, b2, ms2)
<1> SUFFICES ASSUME NEW k \in DOMAIN s PROVE Fine(s[k], hs, b2, ms2)
  BY DEF AllFine
<1>1. Fine(s[k], hs, b, ms)
  BY DEF AllFine
<1>2. s[k].kind = "call" => s[k].arg \in 0 .. Len(ms2)
  BY <1>1 DEF Fine
<1>3. ASSUME s[k].kind = "event" PROVE Hears(s[k], hs, b2, ms2)
  <2>1. s[k].id = b2 => b2 = b /\ ms2[b].name = ms[b].name
    BY <1>3
  <2>2. Hears(s[k], hs, b, ms)
    BY <1>1, <1>3 DEF Fine
  <2> QED
    BY <2>1, <2>2, HearsOn
<1> QED
  BY <1>1, <1>2, <1>3 DEF Fine

LEMMA FineOverwritten ==
    ASSUME IInv, NEW b \in {0, buffer}
    PROVE  AllFine(stack, handlers, b, msgs)
<1>1. \A k \in DOMAIN stack : stack[k].kind = "event" => stack[k].id # 0
  BY StackOf, Kinds DEF IInv, EventFrame, Ids
<1>2. AllFine(stack, handlers, buffer, msgs) /\ Len(msgs) \in Nat
  BY StackFine DEF IInv, TypeOK
<1> QED
  BY <1>1, <1>2, FineOn

LEMMA FineCaller ==
    ASSUME IInv PROVE AllFine(Caller, handlers, buffer, msgs)
<1>1. TypeOK /\ AllFine(stack, handlers, buffer, msgs)
  BY StackFine DEF IInv
<1>2. /\ Caller \in Seq(Frame) /\ DOMAIN Caller = 1 .. Len(stack)
      /\ DOMAIN stack = 1 .. Len(stack)
  BY <1>1, CallerIs, StackOf
<1>3. ASSUME NEW k \in DOMAIN Caller PROVE Fine(Caller[k], handlers, buffer, msgs)
  <2>1. /\ Caller[k].kind = stack[k].kind
        /\ stack[k].kind # "greeting" => Caller[k] = stack[k]
    BY <1>1, <1>2, CallerIs
  <2>2. Fine(stack[k], handlers, buffer, msgs)
    BY <1>1, <1>2 DEF AllFine
  <2>3. CASE stack[k].kind = "greeting"
    BY <2>1, <2>3 DEF Fine
  <2>4. CASE stack[k].kind # "greeting"
    BY <2>1, <2>2, <2>4
  <2> QED
    BY <2>3, <2>4
<1> QED
  BY <1>2, <1>3 DEF AllFine

LEMMA CallerOld == ASSUME TypeOK, stack' = Caller PROVE NoneNew
<1>1. /\ DOMAIN stack' = 1 .. Len(stack) /\ DOMAIN stack = 1 .. Len(stack)
      /\ \A k \in 1 .. Len(stack) :
             /\ stack'[k].kind = stack[k].kind
             /\ stack[k].kind # "greeting" => stack'[k] = stack[k]
  BY CallerIs, StackOf
<1> QED
  BY <1>1 DEF NoneNew

LEMMA FrontOld ==
    ASSUME TypeOK, stack # <<>>, stack' = Front(stack)
    PROVE  NoneNew /\ Len(stack) \notin DOMAIN stack' /\ Len(stack') = Len(stack) - 1
<1>1. /\ Len(stack) \in Nat \ {0} /\ DOMAIN stack' = 1 .. Len(stack) - 1
      /\ Len(stack') = Len(stack) - 1 /\ DOMAIN stack = 1 .. Len(stack)
      /\ \A k \in 1 .. Len(stack) - 1 : stack'[k] = stack[k]
  <2>1. stack \in Seq(Frame) /\ stack # <<>> /\ DOMAIN stack = 1 .. Len(stack)
    BY StackOf
  <2>2. DOMAIN Front(stack) = 1 .. Len(Front(stack))
    BY <2>1, Popped
  <2> QED
    BY <2>1, <2>2, Popped
<1> QED
  BY <1>1 DEF NoneNew

LEMMA SwapOld ==
    ASSUME TypeOK, stack # <<>>, NEW f \in Frame, stack' = WithTop(f),
           Top.kind = "event", f.kind = "event", f.id = Top.id
    PROVE  NoneNew /\ Len(stack') = Len(stack)
<1>1. /\ Len(stack) \in Nat \ {0} /\ DOMAIN stack' = 1 .. Len(stack)
      /\ Len(stack') = Len(stack) /\ DOMAIN stack = 1 .. Len(stack)
      /\ \A k \in 1 .. Len(stack) - 1 : stack'[k] = stack[k]
      /\ stack'[Len(stack)] = f /\ Top = stack[Len(stack)]
  <2>1. /\ stack \in Seq(Frame) /\ stack # <<>> /\ DOMAIN stack = 1 .. Len(stack)
        /\ Top = stack[Len(stack)] /\ Len(stack) \in Nat \ {0}
    BY StackOf, Popped
  <2>2. /\ stack' \in Seq(Frame) /\ Len(stack') = Len(stack)
        /\ \A k \in 1 .. Len(stack) - 1 : stack'[k] = stack[k]
        /\ stack'[Len(stack)] = f
    <3>1. stack' = Append(Front(stack), f)
      BY DEF WithTop
    <3>2. stack \in Seq(Frame) /\ f \in Frame /\ stack # <<>>
      BY <2>1
    <3> QED
      BY <3>1, <3>2, Swapped
  <2> QED
    BY <2>1, <2>2
<1>2. ASSUME NEW n \in Nat \ {0} PROVE \A k \in 1 .. n : k \in 1 .. n - 1 \/ k = n
  OBVIOUS
<1> QED
  BY <1>1, <1>2 DEF NoneNew

LEMMA GreetingOld == ASSUME TypeOK, stack' = Append(stack, Greeting) PROVE NoneNew
<1>1. Greeting \in Frame /\ Greeting.kind = "greeting"
  BY DEF Greeting, Frame, GreetingFrame
<1>2. /\ Len(stack) \in Nat /\ DOMAIN stack' = 1 .. Len(stack) + 1
      /\ DOMAIN stack = 1 .. Len(stack)
      /\ \A k \in 1 .. Len(stack) : stack'[k] = stack[k]
      /\ stack'[Len(stack) + 1] = Greeting
  BY <1>1, StackOf, Appended
<1> QED
  BY <1>1, <1>2 DEF NoneNew

\* All but the kinds of step that send a message, serve one, or answer.
LEMMA Quiet ==
    ASSUME IInv, UNCHANGED <<msgs, answers>>, WireShrinks, NoneNew,
           handlers' \in Seq(Handler), Len(handlers') <= Slots,
           conn' \in [socketed : BOOLEAN, connected : BOOLEAN, shaken : BOOLEAN,
                      up : BOOLEAN, session : 0 .. MaxSessions],
           conn'.socketed => conn'.session \in 1 .. MaxSessions,
           known' \subseteq Names, Known', buffer' \in {0, buffer}, arg' \in 0 .. Len(msgs),
           AllFine(stack', handlers', buffer', msgs)
    PROVE  IInv'
<1> USE DEF IInv
<1>1. Once' /\ Marked'
  BY NoneServed
<1>2. TypeOK'
  <2>1. wire' \in Seq(DOMAIN msgs)
    BY Shrinks
  <2>2. stack' \in Seq(EventFrame \cup CallFrame \cup GreetingFrame)
    BY DEF AllFine, Frame
  <2>3. buffer' \in 0 .. Len(msgs) /\ (buffer' > 0 => msgs[buffer'] \in Event)
    BY SMTT(30) DEF TypeOK
  <2> QED
    BY <2>1, <2>2, <2>3 DEF TypeOK
<1>3. Bounded'
  BY DEF Bounded, AllFine, Fine
<1>4. Heard'
  BY DEF Heard, AllFine, Fine
<1> QED
  BY <1>1, <1>2, <1>3, <1>4

-----------------------------------------------------------------------------
(* The connection.                                                          *)

ConnType == [socketed : BOOLEAN, connected : BOOLEAN, shaken : BOOLEAN,
             up : BOOLEAN, session : 0 .. MaxSessions]

LEMMA Typed ==
    ASSUME IInv
    PROVE  /\ handlers \in Seq(Handler) /\ Len(handlers) <= Slots /\ Len(handlers) \in Nat
           /\ conn \in ConnType /\ conn.session \in Nat
           /\ conn.socketed => conn.session \in 1 .. MaxSessions
           /\ known \subseteq Names
           /\ arg \in 0 .. Len(msgs) /\ Len(msgs) \in Nat /\ DOMAIN msgs = 1 .. Len(msgs)
           /\ Filters \subseteq Names
<1>1. handlers \in Seq(Handler) /\ Len(handlers) <= Slots /\ Len(handlers) \in Nat
  BY DEF IInv, TypeOK
<1>2. conn \in ConnType /\ conn.session \in Nat
  BY BoundAssumption DEF IInv, TypeOK, ConnType
<1>3. conn.socketed => conn.session \in 1 .. MaxSessions
  BY DEF IInv, Bounded
<1>4. known \subseteq Names /\ arg \in 0 .. Len(msgs) /\ Len(msgs) \in Nat
      /\ DOMAIN msgs = 1 .. Len(msgs)
  BY DEF IInv, TypeOK
<1>5. \A i \in DOMAIN handlers : handlers[i].filter \in Names
  <2>1. \A h \in Handler : h.filter \in Names
    BY DEF Handler
  <2> QED
    BY <1>1, <2>1
<1>6. Filters \subseteq Names
  BY <1>5 DEF Filters, ToSet
<1> QED
  BY <1>1, <1>2, <1>3, <1>4, <1>6

\* The mark of a handler that was subscribed while a greeting went on is taken away.
LEMMA Unmarked ==
    ASSUME NEW hs \in Seq(Handler)
    PROVE  LET hs2 == [i \in DOMAIN hs |-> [hs[i] EXCEPT !.late = FALSE]] IN
           /\ hs2 \in Seq(Handler) /\ Len(hs2) = Len(hs) /\ DOMAIN hs2 = DOMAIN hs
           /\ \A i \in DOMAIN hs : /\ hs2[i].filter = hs[i].filter
                                   /\ KeyOf(hs2[i]) = KeyOf(hs[i])
<1> DEFINE hs2 == [i \in DOMAIN hs |-> [hs[i] EXCEPT !.late = FALSE]]
<1>1. Len(hs) \in Nat /\ DOMAIN hs = 1 .. Len(hs) /\ \A i \in DOMAIN hs : hs[i] \in Handler
  OBVIOUS
<1>2. \A h \in Handler : /\ [h EXCEPT !.late = FALSE] \in Handler
                         /\ [h EXCEPT !.late = FALSE].filter = h.filter
                         /\ [h EXCEPT !.late = FALSE].by = h.by
  BY DEF Handler
<1>3. \A i \in 1 .. Len(hs) : [hs[i] EXCEPT !.late = FALSE] \in Handler
  BY <1>1, <1>2
<1>4. hs2 \in [1 .. Len(hs) -> Handler]
  BY <1>1, <1>3
<1>5. hs2 \in Seq(Handler) /\ DOMAIN hs2 = 1 .. Len(hs) /\ Len(hs2) = Len(hs)
  BY <1>1, <1>4
<1>6. ASSUME NEW i \in DOMAIN hs
      PROVE  hs2[i].filter = hs[i].filter /\ KeyOf(hs2[i]) = KeyOf(hs[i])
  <2>1. hs2[i] = [hs[i] EXCEPT !.late = FALSE]
    OBVIOUS
  <2> QED
    BY <1>1, <1>2, <2>1 DEF KeyOf
<1> QED
  BY <1>1, <1>5, <1>6

LEMMA FineUnmarked ==
    ASSUME NEW s, NEW hs, NEW hs2, NEW b, NEW ms, AllFine(s, hs, b, ms),
           DOMAIN hs2 = DOMAIN hs, Len(hs2) = Len(hs),
           \A i \in DOMAIN hs : hs2[i].filter = hs[i].filter /\ KeyOf(hs2[i]) = KeyOf(hs[i])
    PROVE  AllFine(s, hs2, b, ms)
<1> SUFFICES ASSUME NEW k \in DOMAIN s PROVE Fine(s[k], hs2, b, ms)
  BY DEF AllFine
<1>1. Fine(s[k], hs, b, ms)
  BY DEF AllFine
<1>2. ASSUME s[k].kind = "event" PROVE Hears(s[k], hs2, b, ms)
  <2>1. Hears(s[k], hs, b, ms)
    BY <1>1, <1>2 DEF Fine
  <2> QED
    BY <2>1, HearsSame
<1> QED
  BY <1>1, <1>2 DEF Fine

LEMMA LinkBreaksKeeps == ASSUME IInv, LinkBreaks PROVE IInv'
<1> USE DEF LinkBreaks
<1>1. conn' \in ConnType /\ (conn'.socketed => conn'.session \in 1 .. MaxSessions)
      /\ conn'.up = FALSE
  BY Typed DEF ConnType
<1>2. Known'
  BY <1>1 DEF Known, Reaches
<1>3. AllFine(stack', handlers', buffer', msgs) /\ NoneNew /\ WireShrinks
  BY StackFine DEF NoneNew, WireShrinks
<1> QED
  BY <1>1, <1>2, <1>3, Typed, Quiet DEF ConnType

LEMMA ConnectKeeps == ASSUME IInv, Connect PROVE IInv'
<1> USE DEF Connect
<1>1. conn' \in ConnType /\ conn'.socketed /\ conn'.session \in 1 .. MaxSessions
      /\ conn'.shaken = ~conn.connected
  <2>1. (~conn.connected) \in BOOLEAN
    OBVIOUS
  <2>2. conn \in ConnType /\ conn.session + 1 \in 0 .. MaxSessions
    BY Typed, BoundAssumption
  <2> HIDE DEF Connect
  <2>3. conn' = [conn EXCEPT !.socketed = TRUE, !.shaken = ~conn.connected,
                             !.up = TRUE, !.session = @ + 1]
    BY DEF Connect
  <2>4. conn'.session = conn.session + 1 /\ conn'.socketed
    BY <2>2, <2>3 DEF ConnType
  <2>5. conn' \in ConnType
    BY <2>1, <2>2, <2>3 DEF ConnType
  <2>6. conn'.shaken = ~conn.connected
    BY <2>2, <2>3 DEF ConnType
  <2> QED
    BY <2>2, <2>4, <2>5, <2>6, Typed
<1>2. WireShrinks
  BY DEF WireShrinks
<1>3. CASE conn.connected
  <2>1. Known' /\ known' \subseteq Names
    BY <1>1, <1>3 DEF Known, Reaches
  <2>2. AllFine(stack', handlers', buffer', msgs) /\ NoneNew
    BY <1>3, StackFine DEF NoneNew
  <2> QED
    BY <1>1, <1>2, <1>3, <2>1, <2>2, Typed, Quiet DEF ConnType
<1>4. CASE ~conn.connected
  <2>1. /\ handlers' \in Seq(Handler) /\ Len(handlers') = Len(handlers)
        /\ DOMAIN handlers' = DOMAIN handlers
        /\ \A i \in DOMAIN handlers : /\ handlers'[i].filter = handlers[i].filter
                                      /\ KeyOf(handlers'[i]) = KeyOf(handlers[i])
    BY <1>4, Typed, Unmarked
  <2>2. known' \subseteq Names /\ Known'
    <3>1. known' = Filters
      BY <1>4
    <3>2. \A i \in DOMAIN handlers' : handlers'[i].filter \in Filters
      BY <2>1 DEF Filters, ToSet
    <3> QED
      BY <3>1, <3>2, Typed DEF Known, ToSet
  <2>3. NoneNew /\ buffer' = 0
    BY <1>4, GreetingOld DEF IInv
  <2>4. AllFine(stack', handlers', buffer', msgs)
    <3>1. AllFine(stack, handlers, 0, msgs)
      BY FineOverwritten
    <3>2. AllFine(stack, handlers', 0, msgs)
      BY <2>1, <3>1, FineUnmarked
    <3>3. Greeting \in Frame /\ Fine(Greeting, handlers', 0, msgs)
      BY DEF Greeting, Frame, GreetingFrame, Fine
    <3>4. AllFine(Append(stack, Greeting), handlers', 0, msgs)
      BY <3>2, <3>3, FineAppended
    <3>5. stack' = Append(stack, Greeting) /\ buffer' = 0
      BY <1>4
    <3> QED
      BY <3>4, <3>5
  <2> QED
    BY <1>1, <1>2, <2>1, <2>2, <2>3, <2>4, Typed, Quiet DEF ConnType
<1> QED
  BY <1>3, <1>4

LEMMA HandshakeAgainKeeps == ASSUME IInv, HandshakeAgain PROVE IInv'
<1> USE DEF HandshakeAgain
<1>1. conn' \in ConnType /\ conn'.socketed = FALSE
  BY Typed DEF ConnType
<1>2. Known' /\ known' \subseteq Names
  BY <1>1 DEF Known, Reaches
<1>3. AllFine(stack', handlers', buffer', msgs) /\ NoneNew /\ WireShrinks
  BY FineOverwritten DEF NoneNew, WireShrinks
<1> QED
  BY <1>1, <1>2, <1>3, Typed, Quiet DEF ConnType

LEMMA ReceiveFailsKeeps == ASSUME IInv, ReceiveFails PROVE IInv'
<1> USE DEF ReceiveFails
<1>1. conn' \in ConnType /\ conn'.socketed = FALSE
  BY Typed DEF ConnType
<1>2. Known' /\ known' \subseteq Names
  BY <1>1, Typed DEF Known, Reaches
<1>3. AllFine(stack', handlers', buffer', msgs) /\ NoneNew /\ WireShrinks
  BY FineCaller, CallerOld DEF WireShrinks, IInv
<1> QED
  BY <1>1, <1>2, <1>3, Typed, Quiet DEF ConnType

LEMMA ReceiveNothingKeeps == ASSUME IInv, ReceiveNothing PROVE IInv'
<1> USE DEF ReceiveNothing
<1>1. Known'
  BY DEF Known, Reaches, IInv
<1>2. AllFine(stack', handlers', buffer', msgs) /\ NoneNew /\ WireShrinks
  BY FineCaller, CallerOld DEF WireShrinks, IInv
<1> QED
  BY <1>1, <1>2, Typed, Quiet DEF ConnType

-----------------------------------------------------------------------------
(* The server.                                                              *)

LEMMA SendKeeps == ASSUME IInv, NEW m \in Event \cup Call, Send(m) PROVE IInv'
<1> USE DEF Send
<1> DEFINE n == Len(msgs)
<1>1. /\ n \in Nat /\ DOMAIN msgs = 1 .. n /\ Len(msgs') = n + 1 /\ DOMAIN msgs' = 1 .. n + 1
      /\ n + 1 <= MaxMessages /\ msgs' \in Seq(Event \cup Call)
      /\ \A id \in 1 .. n : msgs'[id] = msgs[id]
  BY Appended, BoundAssumption DEF IInv, TypeOK
<1>2. Once' /\ Marked' /\ wire' \in Seq(DOMAIN msgs')
  BY OneSent DEF IInv
<1>3. AllFine(stack', handlers', buffer', msgs')
  <2>1. buffer \in 0 .. n /\ \A k \in DOMAIN stack : stack[k].kind = "event" => stack[k].id # 0
    BY StackOf, Kinds DEF IInv, TypeOK, EventFrame, Ids
  <2>2. \/ buffer = buffer /\ msgs'[buffer] = msgs[buffer]
        \/ \A k \in DOMAIN stack : stack[k].kind = "event" => stack[k].id # buffer
    BY <1>1, <2>1
  <2>3. AllFine(stack, handlers, buffer, msgs)
    BY StackFine
  <2> HIDE DEF Send
  <2>4. AllFine(stack, handlers, buffer, msgs')
    BY <1>1, <2>2, <2>3, FineOn
  <2> QED
    BY <2>4 DEF Send
<1>4. answers' \in Seq([call : DOMAIN msgs', token : 0 .. Tokens - 1, arg : 0 .. Len(msgs')])
  <2>1. [call : 1 .. n, token : 0 .. Tokens - 1, arg : 0 .. n]
            \subseteq [call : 1 .. n + 1, token : 0 .. Tokens - 1, arg : 0 .. n + 1]
    BY <1>1
  <2>2. answers \in Seq([call : 1 .. n, token : 0 .. Tokens - 1, arg : 0 .. n])
    BY <1>1 DEF IInv, TypeOK
  <2>3. ASSUME NEW S, NEW T, S \subseteq T, NEW s \in Seq(S) PROVE s \in Seq(T)
    BY <2>3
  <2>4. answers \in Seq([call : 1 .. n + 1, token : 0 .. Tokens - 1, arg : 0 .. n + 1])
    BY <2>1, <2>2, <2>3
  <2> QED
    BY <1>1, <2>4
<1>5. TypeOK'
  <2>1. buffer' \in 0 .. Len(msgs') /\ arg' \in 0 .. Len(msgs')
    BY <1>1 DEF IInv, TypeOK
  <2>2. buffer' > 0 => msgs'[buffer'] \in Event
    BY <1>1 DEF IInv, TypeOK
  <2> QED
    BY <1>1, <1>2, <1>4, <2>1, <2>2 DEF IInv, TypeOK
<1>6. Bounded'
  BY <1>3 DEF IInv, Bounded, AllFine, Fine
<1>7. Heard'
  BY <1>3 DEF Heard, AllFine, Fine
<1>8. Known'
  BY DEF IInv, Known
<1> QED
  BY <1>2, <1>5, <1>6, <1>7, <1>8 DEF IInv

LEMMA SendEventKeeps == ASSUME IInv, NEW name \in Names, SendEvent(name) PROVE IInv'
<1>1. [kind |-> "event", name |-> name] \in Event
  BY DEF Event
<1> QED
  BY <1>1, SendKeeps DEF SendEvent

LEMMA SendCallKeeps ==
    ASSUME IInv, NEW exists \in BOOLEAN, NEW long \in BOOLEAN, SendCall(exists, long)
    PROVE  IInv'
<1>1. ASSUME NEW n \in Nat, NEW t \in Nat \ {0} PROVE n % t \in 0 .. t - 1
  OBVIOUS
<1>2. Len(msgs) % Tokens \in 0 .. Tokens - 1
  BY <1>1, Typed, BoundAssumption
<1>3. conn.session \in 1 .. MaxSessions
  BY Typed DEF SendCall, Send, Reaches
<1>4. [kind |-> "call", token |-> Len(msgs) % Tokens, exists |-> exists,
       long |-> long, session |-> conn.session] \in Call
  BY <1>2, <1>3 DEF Call
<1> QED
  BY <1>4, SendKeeps DEF SendCall

-----------------------------------------------------------------------------
(* A message is received.                                                   *)

LEMMA CallerAppended ==
    ASSUME TypeOK, NEW f \in Frame, stack' = Append(Caller, f)
    PROVE  /\ stack' \in Seq(Frame) /\ Len(stack') = Len(stack) + 1 /\ Below(Len(stack))
           /\ stack'[Len(stack')] = f
<1>1. /\ Caller \in Seq(Frame) /\ Len(Caller) = Len(stack)
      /\ \A k \in 1 .. Len(stack) :
             /\ Caller[k].kind = stack[k].kind
             /\ stack[k].kind # "greeting" => Caller[k] = stack[k]
  BY CallerIs
<1>2. /\ stack' \in Seq(Frame) /\ Len(stack') = Len(Caller) + 1
      /\ \A k \in 1 .. Len(Caller) : stack'[k] = Caller[k]
      /\ stack'[Len(Caller) + 1] = f
  BY <1>1, Appended
<1> QED
  BY <1>1, <1>2 DEF Below

LEMMA Received ==
    ASSUME IInv, NEW kind, Receiving(kind)
    PROVE  /\ wire # <<>> /\ Head(wire) \in DOMAIN msgs /\ Head(wire) \in Ids
           /\ msgs[Head(wire)] \in Event \cup Call
           /\ msgs[Head(wire)].kind = kind /\ ~Served(Head(wire))
           /\ wire' = Tail(wire) /\ WireShrinks
<1>1. wire # <<>> /\ wire' = Tail(wire) /\ msgs[Head(wire)].kind = kind
  BY DEF Receiving
<1>2. Head(wire) \in DOMAIN msgs /\ \E i \in DOMAIN wire : wire[i] = Head(wire)
  BY <1>1, Tailed DEF IInv, TypeOK
<1>3. Head(wire) \in Ids /\ msgs[Head(wire)] \in Event \cup Call
  <2>1. msgs \in Seq(Event \cup Call) /\ Len(msgs) <= MaxMessages
    BY DEF IInv, TypeOK
  <2>2. Head(wire) \in 1 .. Len(msgs) /\ Len(msgs) \in Nat
    BY <1>2, <2>1
  <2> QED
    BY <2>1, <2>2, BoundAssumption DEF Ids
<1>4. ~Served(Head(wire))
  BY <1>2 DEF IInv, Once
<1> QED
  BY <1>1, <1>2, <1>3, <1>4 DEF WireShrinks

\* With what is the same for both kinds of message.
LEMMA ReceivedKeeps ==
    ASSUME IInv, NEW kind, Receiving(kind), Once', Marked',
           buffer' \in 0 .. Len(msgs), buffer' > 0 => msgs[buffer'] \in Event,
           arg' \in 0 .. Len(msgs), AllFine(stack', handlers, buffer', msgs)
    PROVE  IInv'
<1>1. UNCHANGED <<handlers, conn, known, msgs, answers>>
  BY DEF Receiving
<1>2. TypeOK'
  <2>1. wire' \in Seq(DOMAIN msgs)
    BY Received, Shrinks DEF IInv
  <2>2. stack' \in Seq(EventFrame \cup CallFrame \cup GreetingFrame)
    BY DEF AllFine, Frame
  <2> QED
    BY <1>1, <2>1, <2>2 DEF IInv, TypeOK
<1>3. Bounded'
  BY <1>1 DEF IInv, Bounded, AllFine, Fine
<1>4. Heard'
  BY <1>1 DEF Heard, AllFine, Fine
<1>5. Known'
  BY <1>1 DEF IInv, Known
<1> QED
  BY <1>2, <1>3, <1>4, <1>5 DEF IInv

LEMMA ReceiveEventKeeps == ASSUME IInv, ReceiveEvent PROVE IInv'
<1> DEFINE id == Head(wire)
           f == [kind |-> "event", running |-> FALSE, id |-> id, at |-> 1,
                 due |-> {KeyOf(h) : h \in ToSet(handlers)}, told |-> {}]
<1>1. Receiving("event") /\ buffer' = id /\ stack' = Append(Caller, f) /\ arg' = arg
  BY DEF ReceiveEvent
<1>2. /\ wire # <<>> /\ id \in 1 .. Len(msgs) /\ id \in Ids /\ msgs[id] \in Event \cup Call
      /\ msgs[id].kind = "event" /\ ~Served(id) /\ wire' = Tail(wire)
      /\ UNCHANGED <<msgs, answers>>
  BY <1>1, Received, Typed DEF Receiving
<1>3. msgs[id] \in Event
  BY <1>2 DEF Event, Call
<1>4. f.due \subseteq Key
  <2>1. \A h \in Handler : KeyOf(h) \in Key
    BY DEF Handler, KeyOf, Key
  <2> QED
    BY <2>1, Typed DEF ToSet
<1>5. f \in EventFrame /\ f.kind = "event" /\ f.id = id /\ f.running = FALSE
  BY <1>2, <1>4, BoundAssumption DEF EventFrame
<1>6. Hears(f, handlers, id, msgs)
  BY Typed, HearsNew
<1> HIDE DEF f
<1>7. Fine(f, handlers, id, msgs) /\ f \in Frame
  BY <1>5, <1>6 DEF Fine, Frame
<1>8. \A k \in DOMAIN Caller : Caller[k].kind = "event" => Caller[k].id # id
  <2>1. /\ DOMAIN Caller = 1 .. Len(stack) /\ DOMAIN stack = 1 .. Len(stack)
        /\ \A k \in 1 .. Len(stack) :
               /\ Caller[k].kind = stack[k].kind
               /\ stack[k].kind # "greeting" => Caller[k] = stack[k]
    BY CallerIs, StackOf DEF IInv
  <2> QED
    BY <1>2, <2>1 DEF Served, Serves
<1>9. AllFine(Caller, handlers, id, msgs)
  BY <1>8, FineCaller, FineOn, Typed
<1>10. AllFine(stack', handlers, buffer', msgs)
  BY <1>1, <1>7, <1>9, FineAppended
<1>11. /\ stack' \in Seq(Frame) /\ Len(stack') = Len(stack) + 1 /\ Below(Len(stack))
       /\ stack'[Len(stack')] = f
  BY <1>1, <1>7, CallerAppended DEF IInv
<1>12. Once' /\ Marked'
  BY <1>2, <1>5, <1>11, MoreServed DEF IInv
<1>13. arg' \in 0 .. Len(msgs) /\ buffer' \in 0 .. Len(msgs) /\ msgs[buffer'] \in Event
  BY <1>1, <1>2, <1>3, Typed
<1> QED
  BY <1>1, <1>10, <1>12, <1>13, ReceivedKeeps

LEMMA ReceiveCallKeeps == ASSUME IInv, ReceiveCall PROVE IInv'
<1> DEFINE id == Head(wire)
           f == [kind |-> "call", running |-> TRUE, id |-> id,
                 token |-> msgs[id].token, arg |-> arg']
<1>1. /\ Receiving("call") /\ buffer' = 0
      /\ arg' = IF msgs[id].long THEN arg ELSE id
      /\ stack' = IF msgs[id].exists THEN Append(Caller, f) ELSE Caller
  BY DEF ReceiveCall
<1>2. /\ wire # <<>> /\ id \in 1 .. Len(msgs) /\ id \in Ids /\ msgs[id] \in Event \cup Call
      /\ msgs[id].kind = "call" /\ ~Served(id) /\ wire' = Tail(wire) /\ WireShrinks
      /\ UNCHANGED <<msgs, answers>>
  BY <1>1, Received, Typed DEF Receiving
<1>3. msgs[id] \in Call
  BY <1>2 DEF Event, Call
<1>4. arg' \in 0 .. Len(msgs)
  BY <1>1, <1>2, Typed
<1>5. Len(msgs) <= MaxMessages
  BY DEF IInv, TypeOK
<1>6. f \in CallFrame
  <2>1. arg' \in 0 .. MaxMessages
    BY <1>4, <1>5, Typed, BoundAssumption
  <2>2. msgs[id].token \in 0 .. Tokens - 1
    BY <1>3 DEF Call
  <2> QED
    BY <1>2, <2>1, <2>2 DEF CallFrame
<1>7. f.kind = "call" /\ f.id = id /\ f.token = msgs[id].token /\ f.arg = arg'
  OBVIOUS
<1>8. Matched(f.id, f.token, f.arg)
  BY <1>1, <1>2, <1>7, Typed DEF Matched
<1> HIDE DEF f
<1>9. Fine(f, handlers, 0, msgs) /\ f \in Frame
  BY <1>4, <1>6, <1>7 DEF Fine, Frame
<1>10. AllFine(Caller, handlers, 0, msgs)
  <2>1. /\ Caller \in Seq(Frame) /\ DOMAIN Caller = 1 .. Len(Caller)
        /\ \A k \in DOMAIN Caller : Caller[k] \in Frame
    BY CallerIs DEF IInv
  <2>2. \A k \in DOMAIN Caller : Caller[k].kind = "event" => Caller[k].id # 0
    BY <2>1, Kinds DEF EventFrame, Ids
  <2> QED
    BY <2>2, FineCaller, FineOn, Typed
<1>11. CASE msgs[id].exists
  <2>1. stack' = Append(Caller, f)
    BY <1>1, <1>11
  <2>2. AllFine(stack', handlers, 0, msgs)
    BY <1>9, <1>10, <2>1, FineAppended
  <2>3. /\ stack' \in Seq(Frame) /\ Len(stack') = Len(stack) + 1 /\ Below(Len(stack))
        /\ stack'[Len(stack')] = f
    BY <1>9, <2>1, CallerAppended DEF IInv
  <2>4. Once' /\ Marked'
    BY <1>2, <1>7, <1>8, <2>3, MoreServed DEF IInv
  <2> QED
    BY <1>1, <1>4, <2>2, <2>4, Typed, ReceivedKeeps
<1>12. CASE ~msgs[id].exists
  <2>1. stack' = Caller
    BY <1>1, <1>12
  <2>2. Once' /\ Marked'
    BY <1>2, <2>1, CallerOld, NoneServed DEF IInv
  <2> QED
    BY <1>1, <1>4, <1>10, <2>1, <2>2, Typed, ReceivedKeeps
<1> QED
  BY <1>11, <1>12

-----------------------------------------------------------------------------
(* The loop of handle_event, and the ends of the calls.                      *)

LEMMA TopIs ==
    ASSUME IInv, stack # <<>>
    PROVE  /\ Top \in Frame /\ Fine(Top, handlers, buffer, msgs)
           /\ Top.kind = "event" => Top \in EventFrame /\ Top.id # 0 /\ Top.at \in Nat \ {0}
           /\ AllFine(Front(stack), handlers, buffer, msgs)
<1>1. Top \in Frame /\ Top = stack[Len(stack)] /\ Len(stack) \in DOMAIN stack
  BY StackOf DEF IInv
<1>2. AllFine(stack, handlers, buffer, msgs)
  BY StackFine
<1>3. Fine(Top, handlers, buffer, msgs)
  BY <1>1, <1>2 DEF AllFine
<1>4. Top.kind = "event" => Top \in EventFrame
  BY <1>1, Kinds
<1>5. Top \in EventFrame => Top.id # 0 /\ Top.at \in Nat \ {0}
  BY BoundAssumption DEF EventFrame, Ids
<1> QED
  BY <1>1, <1>2, <1>3, <1>4, <1>5, FineFront

\* A step of the loop in the innermost frame.
LEMMA LoopKeeps ==
    ASSUME IInv, stack # <<>>, Top.kind = "event", NEW f \in EventFrame, f.id = Top.id,
           f.running => f.at <= Slots, Hears(f, handlers, buffer, msgs),
           stack' = WithTop(f),
           UNCHANGED <<handlers, conn, known, wire, msgs, buffer, arg, answers>>
    PROVE  IInv'
<1>1. f \in Frame /\ f.kind = "event" /\ Fine(f, handlers, buffer, msgs)
  BY DEF Frame, EventFrame, Fine
<1>2. NoneNew /\ WireShrinks
  BY <1>1, SwapOld DEF WireShrinks, IInv
<1>3. AllFine(stack', handlers', buffer', msgs)
  BY <1>1, TopIs, FineAppended DEF WithTop
<1>4. Known'
  BY DEF IInv, Known
<1> QED
  BY <1>2, <1>3, <1>4, Typed, Quiet DEF ConnType

LEMMA NextHandlerKeeps == ASSUME IInv, NextHandler PROVE IInv'
<1> DEFINE h == handlers[Top.at]
           called  == [Top EXCEPT !.running = TRUE, !.told = @ \cup {KeyOf(h)}]
           skipped == [Top EXCEPT !.at = @ + 1]
<1>1. /\ stack # <<>> /\ Top.kind = "event" /\ ~Top.running /\ Top.at <= Len(handlers)
      /\ stack' = WithTop(IF Matches(h) THEN called ELSE skipped)
      /\ UNCHANGED <<handlers, conn, known, wire, msgs, buffer, arg, answers>>
  BY DEF NextHandler, InEvent
<1>2. /\ Top \in EventFrame /\ Top.id # 0 /\ Top.at \in Nat \ {0}
      /\ Hears(Top, handlers, buffer, msgs)
  BY <1>1, TopIs DEF Fine
<1>3. handlers \in Seq(Handler) /\ Len(handlers) <= Slots /\ Len(handlers) \in Nat
  BY Typed
<1>4. h \in Handler
  BY <1>1, <1>2, <1>3
<1>5. CASE Matches(h)
  <2>1. KeyOf(h) \in Key
    BY <1>4 DEF Handler, KeyOf, Key
  <2>2. called \in EventFrame /\ called.id = Top.id /\ called.at = Top.at
    BY <1>2, <2>1 DEF EventFrame
  <2>3. Hears(called, handlers, buffer, msgs)
    BY <1>1, <1>2, <1>3, HearsCalled
  <2>4. stack' = WithTop(called) /\ called.at <= Slots
    BY <1>1, <1>2, <1>3, <1>5, <2>2, BoundAssumption
  <2> HIDE DEF called
  <2> QED
    BY <1>1, <2>2, <2>3, <2>4, LoopKeeps
<1>6. CASE ~Matches(h)
  <2>1. Top.at + 1 \in 1 .. Slots + 1
    BY <1>1, <1>2, <1>3, BoundAssumption
  <2>2. skipped \in EventFrame /\ skipped.id = Top.id /\ ~skipped.running
    BY <1>1, <1>2, <2>1 DEF EventFrame
  <2>3. Top.id = buffer => ~IsPrefix(h.filter, msgs[buffer].name)
    BY <1>2, <1>6 DEF Matches
  <2>4. Hears(skipped, handlers, buffer, msgs)
    BY <1>1, <1>2, <1>3, <2>3, HearsSkipped
  <2>5. stack' = WithTop(skipped)
    BY <1>1, <1>6
  <2> HIDE DEF skipped
  <2> QED
    BY <1>1, <2>2, <2>4, <2>5, LoopKeeps
<1> QED
  BY <1>5, <1>6

LEMMA HandlerReturnsKeeps == ASSUME IInv, HandlerReturns PROVE IInv'
<1> DEFINE f == [Top EXCEPT !.running = FALSE, !.at = @ + 1]
<1>1. /\ stack # <<>> /\ Top.kind = "event" /\ Top.running /\ stack' = WithTop(f)
      /\ UNCHANGED <<handlers, conn, known, wire, msgs, buffer, arg, answers>>
  BY DEF HandlerReturns
<1>2. /\ Top \in EventFrame /\ Top.at \in Nat \ {0} /\ Top.at <= Slots
      /\ Hears(Top, handlers, buffer, msgs)
  BY <1>1, TopIs DEF Fine
<1>3. Top.at + 1 \in 1 .. Slots + 1
  BY <1>2, BoundAssumption
<1>4. f \in EventFrame /\ f.id = Top.id /\ ~f.running
  BY <1>2, <1>3 DEF EventFrame
<1>5. Hears(f, handlers, buffer, msgs)
  BY <1>1, <1>2, Typed, HearsReturned
<1> HIDE DEF f
<1> QED
  BY <1>1, <1>4, <1>5, LoopKeeps

LEMMA EventOverKeeps == ASSUME IInv, EventOver PROVE IInv'
<1>1. /\ stack # <<>> /\ stack' = Front(stack)
      /\ UNCHANGED <<handlers, conn, known, wire, msgs, buffer, arg, answers>>
  BY DEF EventOver, InEvent
<1>2. NoneNew /\ WireShrinks /\ AllFine(stack', handlers', buffer', msgs)
  BY <1>1, FrontOld, TopIs DEF WireShrinks, IInv
<1>3. Known'
  BY <1>1 DEF IInv, Known
<1> QED
  BY <1>1, <1>2, <1>3, Typed, Quiet DEF ConnType

\* What sending does to the connection.
LEMMA OwnSent ==
    ASSUME IInv, SendOwn
    PROVE  /\ conn' \in ConnType /\ (conn'.socketed => conn'.session \in 1 .. MaxSessions)
           /\ Reaches(conn') => Reaches(conn)
           /\ conn'.socketed = conn.socketed /\ conn'.connected = conn.connected
           /\ buffer' = 0
<1> DEFINE up == conn.up /\ (conn.socketed => conn.shaken)
<1>1. up \in BOOLEAN /\ conn \in ConnType
  BY Typed
<1>2. conn' = [conn EXCEPT !.up = up] /\ buffer' = 0
  <2>1. conn' = [conn EXCEPT !.up = @ /\ (conn.socketed => conn.shaken)] /\ buffer' = 0
    BY DEF SendOwn
  <2> QED
    BY <1>1, <2>1 DEF ConnType
<1>3. up => conn.up
  OBVIOUS
<1> HIDE DEF up
<1>4. /\ conn' \in ConnType /\ conn'.up = up /\ conn'.socketed = conn.socketed
      /\ conn'.shaken = conn.shaken /\ conn'.session = conn.session
      /\ conn'.connected = conn.connected
  BY <1>1, <1>2 DEF ConnType
<1> QED
  BY <1>2, <1>3, <1>4, Typed DEF Reaches

LEMMA FunctionReturnsKeeps == ASSUME IInv, FunctionReturns PROVE IInv'
<1>1. /\ stack # <<>> /\ Top.kind = "call" /\ stack' = Front(stack) /\ SendOwn
      /\ UNCHANGED <<handlers, known, wire, msgs, arg>>
  BY DEF FunctionReturns
<1>2. /\ conn' \in ConnType /\ (conn'.socketed => conn'.session \in 1 .. MaxSessions)
      /\ Reaches(conn') => Reaches(conn)
      /\ buffer' = 0
  BY <1>1, OwnSent
<1>3. Known'
  BY <1>1, <1>2 DEF IInv, Known
<1>4. NoneNew /\ Len(stack) \notin DOMAIN stack' /\ WireShrinks
  BY <1>1, FrontOld DEF WireShrinks, IInv
<1>5. AllFine(stack', handlers', buffer', msgs)
  BY <1>1, <1>2, FineOverwritten, FineFront
<1>6. CASE ~Reaches(conn)
  <2>1. answers' = answers
    BY <1>6 DEF FunctionReturns
  <2> QED
    BY <1>1, <1>2, <1>3, <1>4, <1>5, <2>1, Typed, Quiet DEF ConnType
<1>7. CASE Reaches(conn)
  <2>1. answers' = Append(answers, [call |-> Top.id, token |-> Top.token, arg |-> Top.arg])
    BY <1>7 DEF FunctionReturns
  <2>2. Top.arg \in 0 .. Len(msgs)
    BY <1>1, TopIs DEF Fine
  <2>3. Once' /\ Marked'
        /\ answers' \in Seq([call : DOMAIN msgs, token : 0 .. Tokens - 1, arg : 0 .. Len(msgs)])
    BY <1>1, <1>4, <2>1, <2>2, OneOver DEF IInv
  <2>4. TypeOK'
    <3>1. stack' \in Seq(EventFrame \cup CallFrame \cup GreetingFrame)
      BY <1>5 DEF AllFine, Frame
    <3>2. buffer' \in 0 .. Len(msgs) /\ ~(buffer' > 0)
      BY <1>2, Typed
    <3> QED
      BY <1>1, <1>2, <2>3, <3>1, <3>2 DEF IInv, TypeOK, ConnType
  <2>5. Bounded'
    BY <1>1, <1>2, <1>5 DEF Bounded, AllFine, Fine
  <2>6. Heard'
    BY <1>1, <1>5 DEF Heard, AllFine, Fine
  <2> QED
    BY <1>3, <2>3, <2>4, <2>5, <2>6 DEF IInv
<1> QED
  BY <1>6, <1>7

LEMMA GreetingOverKeeps == ASSUME IInv, GreetingOver PROVE IInv'
<1>1. /\ stack # <<>> /\ stack' = Front(stack) /\ conn' = [conn EXCEPT !.connected = TRUE]
      /\ UNCHANGED <<handlers, known, wire, msgs, buffer, arg, answers>>
  BY DEF GreetingOver
<1>2. /\ conn' \in ConnType /\ (conn'.socketed => conn'.session \in 1 .. MaxSessions)
      /\ Reaches(conn') => Reaches(conn)
  BY <1>1, Typed DEF ConnType, Reaches
<1>3. Known'
  BY <1>1, <1>2 DEF IInv, Known
<1>4. NoneNew /\ WireShrinks /\ AllFine(stack', handlers', buffer', msgs)
  BY <1>1, FrontOld, TopIs DEF WireShrinks, IInv
<1> QED
  BY <1>1, <1>2, <1>3, <1>4, Typed, Quiet DEF ConnType

-----------------------------------------------------------------------------
(* The application.                                                         *)

LEMMA PublishKeeps == ASSUME IInv, Publish PROVE IInv'
<1>1. SendOwn /\ UNCHANGED <<handlers, known, wire, msgs, arg, stack, answers>>
  BY DEF Publish
<1>2. Known'
  BY <1>1, OwnSent DEF IInv, Known
<1>3. NoneNew /\ WireShrinks
  BY <1>1 DEF WireShrinks, NoneNew
<1>4. AllFine(stack', handlers', buffer', msgs)
  BY <1>1, OwnSent, FineOverwritten
<1> QED
  BY <1>1, <1>2, <1>3, <1>4, Typed, OwnSent, Quiet DEF ConnType

LEMMA SubscribeKeeps ==
    ASSUME IInv, NEW name \in Names, NEW by \in Apps, Subscribe(name, by)
    PROVE  IInv'
<1> DEFINE exists  == HandlerExists(name, by)
           success == exists \/ Len(handlers) < Slots
           h == [filter |-> name, by |-> by, late |-> conn.socketed /\ ~conn.connected]
           tells == success /\ conn.socketed /\ conn.connected
<1>1. /\ handlers' = IF success /\ ~exists THEN Append(handlers, h) ELSE handlers
      /\ IF tells
         THEN known' = (IF Reaches(conn) THEN known \cup {name} ELSE known) /\ SendOwn
         ELSE UNCHANGED <<known, conn, buffer>>
      /\ UNCHANGED <<wire, msgs, arg, stack, answers>>
  BY DEF Subscribe
<1>2. (conn.socketed /\ ~conn.connected) \in BOOLEAN
  OBVIOUS
<1>3. h \in Handler /\ h.filter = name /\ h.late = (conn.socketed /\ ~conn.connected)
  BY <1>2 DEF Handler
<1>4. success /\ ~exists => Len(handlers) < Slots
  OBVIOUS
<1>5. tells <=> success /\ conn.socketed /\ conn.connected
  OBVIOUS
<1> HIDE DEF exists, success, h, tells
<1>6. /\ conn' \in ConnType /\ (conn'.socketed => conn'.session \in 1 .. MaxSessions)
      /\ Reaches(conn') => Reaches(conn)
      /\ buffer' \in {0, buffer} /\ known \subseteq known' /\ known' \subseteq Names
  <2>1. CASE tells
    BY <1>1, <2>1, OwnSent, Typed
  <2>2. CASE ~tells
    BY <1>1, <2>2, Typed
  <2> QED
    BY <2>1, <2>2
<1>7. AllFine(stack, handlers, buffer', msgs) /\ NoneNew /\ WireShrinks
  BY <1>1, <1>6, FineOverwritten DEF NoneNew, WireShrinks
<1>8. CASE success /\ ~exists
  <2>1. handlers' = Append(handlers, h)
    BY <1>1, <1>8
  <2>2. /\ handlers' \in Seq(Handler) /\ Len(handlers') = Len(handlers) + 1
        /\ Len(handlers') <= Slots
    BY <1>3, <1>4, <1>8, <2>1, Typed, Appended, BoundAssumption
  <2>3. \A g \in ToSet(handlers') : g \in ToSet(handlers) \/ g = h
    BY <1>3, <2>1, Typed, Appended DEF ToSet
  <2>4. Reaches(conn) => h.late \/ name \in known'
    BY <1>1, <1>3, <1>5, <1>8 DEF Reaches
  <2>5. Known'
    BY <1>3, <1>6, <2>3, <2>4 DEF IInv, Known
  <2>6. AllFine(stack', handlers', buffer', msgs)
    <3>1. stack \in Seq(Frame) /\ \A k \in DOMAIN stack : Fine(stack[k], handlers, buffer', msgs)
      BY <1>7 DEF AllFine
    <3>2. ASSUME NEW k \in DOMAIN stack PROVE Fine(stack[k], handlers', buffer', msgs)
      <4>1. Fine(stack[k], handlers, buffer', msgs)
        BY <3>1
      <4>2. ASSUME stack[k].kind = "event" PROVE Hears(stack[k], handlers', buffer', msgs)
        <5>1. stack[k] \in EventFrame
          BY <3>1, <4>2, Kinds
        <5>2. Hears(stack[k], handlers, buffer', msgs)
          BY <4>1, <4>2 DEF Fine
        <5>3. Hears(stack[k], Append(handlers, h), buffer', msgs)
          BY <1>3, <5>1, <5>2, Typed, HearsLater
        <5> QED
          BY <2>1, <5>3
      <4> QED
        BY <4>1, <4>2 DEF Fine
    <3>3. stack' = stack
      BY <1>1
    <3> QED
      BY <3>1, <3>2, <3>3 DEF AllFine
  <2> QED
    BY <1>1, <1>6, <1>7, <2>2, <2>5, <2>6, Typed, Quiet DEF ConnType
<1>9. CASE ~(success /\ ~exists)
  <2>1. handlers' = handlers /\ stack' = stack
    BY <1>1, <1>9
  <2>2. Known'
    BY <1>6, <2>1 DEF IInv, Known
  <2>3. AllFine(stack', handlers', buffer', msgs)
    BY <1>7, <2>1
  <2> QED
    BY <1>1, <1>6, <1>7, <2>1, <2>2, <2>3, Typed, Quiet DEF ConnType
<1> QED
  BY <1>8, <1>9

LEMMA UnsubscribeKeeps == ASSUME IInv, Unsubscribe PROVE IInv'
<1>1. /\ handlers' = <<>>
      /\ stack' = [k \in DOMAIN stack |->
                     IF stack[k].kind = "event" THEN [stack[k] EXCEPT !.due = {}]
                                                ELSE stack[k]]
      /\ UNCHANGED <<conn, known, wire, msgs, buffer, arg, answers>>
  BY DEF Unsubscribe
<1>2. /\ stack \in Seq(Frame) /\ Len(stack) \in Nat /\ DOMAIN stack = 1 .. Len(stack)
      /\ \A k \in DOMAIN stack : stack[k] \in Frame /\ Fine(stack[k], handlers, buffer, msgs)
  BY StackOf, StackFine DEF IInv, AllFine
<1>3. ASSUME NEW k \in DOMAIN stack
      PROVE  /\ stack'[k] \in Frame /\ stack'[k].kind = stack[k].kind
             /\ stack[k].kind # "greeting" => stack'[k].id = stack[k].id
             /\ stack[k].kind # "event" => stack'[k] = stack[k]
             /\ Fine(stack'[k], <<>>, buffer, msgs)
  <2>1. CASE stack[k].kind = "event"
    <3> DEFINE f == [stack[k] EXCEPT !.due = {}]
    <3>1. stack'[k] = f
      BY <1>1, <2>1
    <3>2. stack[k] \in EventFrame
      BY <1>2, <2>1, Kinds
    <3>3. /\ f \in EventFrame /\ f.kind = "event" /\ f.id = stack[k].id /\ f.due = {}
          /\ f.running = stack[k].running /\ f.at = stack[k].at
      BY <3>2 DEF EventFrame
    <3> HIDE DEF f
    <3>4. Hears(f, <<>>, buffer, msgs)
      BY <3>3, HearsNone
    <3>5. Fine(f, <<>>, buffer, msgs)
      BY <1>2, <2>1, <3>3, <3>4 DEF Fine
    <3> QED
      BY <2>1, <3>1, <3>3, <3>5 DEF Frame
  <2>2. CASE stack[k].kind # "event"
    <3>1. stack'[k] = stack[k]
      BY <1>1, <2>2
    <3>2. Fine(stack[k], <<>>, buffer, msgs)
      BY <1>2, <2>2 DEF Fine
    <3> QED
      BY <1>2, <2>2, <3>1, <3>2
  <2> QED
    BY <2>1, <2>2
<1>4. DOMAIN stack' = DOMAIN stack
  BY <1>1
<1>5. stack' \in Seq(Frame)
  <2>1. stack' \in [1 .. Len(stack) -> Frame]
    BY <1>1, <1>2, <1>3
  <2> QED
    BY <1>2, <2>1
<1>6. AllFine(stack', handlers', buffer', msgs)
  BY <1>1, <1>3, <1>4, <1>5 DEF AllFine
<1>7. NoneNew /\ WireShrinks
  BY <1>1, <1>3, <1>4 DEF NoneNew, WireShrinks
<1>8. Known' /\ handlers' \in Seq(Handler) /\ Len(handlers') = 0
  BY <1>1 DEF Known, ToSet
<1> QED
  BY <1>1, <1>6, <1>7, <1>8, Typed, BoundAssumption, Quiet DEF ConnType

-----------------------------------------------------------------------------
(* The theorems.                                                            *)

LEMMA InitKeeps == ASSUME Init PROVE IInv
<1> USE DEF Init
<1>1. handlers \in Seq(Handler) /\ Len(handlers) <= Slots
  BY NamesAssumption, BoundAssumption DEF Handler
<1>2. conn \in ConnType /\ ~conn.socketed
  BY BoundAssumption DEF ConnType
<1>3. TypeOK
  <2>1. Len(msgs) = 0 /\ msgs \in Seq(Event \cup Call) /\ Len(msgs) <= MaxMessages
    BY BoundAssumption
  <2>2. wire \in Seq(DOMAIN msgs) /\ known \subseteq Names
        /\ stack \in Seq(EventFrame \cup CallFrame \cup GreetingFrame)
        /\ answers \in Seq([call : DOMAIN msgs, token : 0 .. Tokens - 1, arg : 0 .. Len(msgs)])
    OBVIOUS
  <2>3. buffer \in 0 .. Len(msgs) /\ ~(buffer > 0) /\ arg \in 0 .. Len(msgs)
    BY <2>1
  <2> HIDE DEF Init
  <2> QED
    BY <1>1, <1>2, <2>1, <2>2, <2>3 DEF TypeOK, ConnType
<1>4. Bounded
  BY <1>2 DEF Bounded
<1>5. Known
  BY <1>2 DEF Known, Reaches
<1>6. Once
  BY DEF Once
<1>7. Marked /\ Heard
  BY DEF Marked, Heard
<1> QED
  BY <1>3, <1>4, <1>5, <1>6, <1>7 DEF IInv

LEMMA Step == ASSUME IInv, [Next]_vars PROVE IInv'
<1>1. CASE Server
  BY <1>1, SendEventKeeps, SendCallKeeps DEF Server
<1>2. CASE LinkBreaks
  BY <1>2, LinkBreaksKeeps
<1>3. CASE Pass
  BY <1>3, ConnectKeeps, HandshakeAgainKeeps, ReceiveFailsKeeps, ReceiveNothingKeeps,
     ReceiveEventKeeps, ReceiveCallKeeps DEF Pass
<1>4. CASE Return
  BY <1>4, NextHandlerKeeps, HandlerReturnsKeeps, EventOverKeeps, FunctionReturnsKeeps,
     GreetingOverKeeps DEF Return
<1>5. CASE Application
  BY <1>5, PublishKeeps, SubscribeKeeps, UnsubscribeKeeps DEF Application
<1>6. CASE UNCHANGED vars
  <2>1. NoneNew /\ WireShrinks
    BY <1>6 DEF vars, NoneNew, WireShrinks
  <2>2. AllFine(stack', handlers', buffer', msgs) /\ Known'
    BY <1>6, StackFine DEF vars, IInv, Known
  <2> QED
    BY <1>6, <2>1, <2>2, Typed, Quiet DEF vars, ConnType
<1> QED
  BY <1>1, <1>2, <1>3, <1>4, <1>5, <1>6 DEF Next

LEMMA Always == Spec => []IInv
<1>1. Init => IInv
  BY InitKeeps
<1>2. IInv /\ [Next]_vars => IInv'
  BY Step
<1> QED
  BY <1>1, <1>2, PTL DEF Spec

\* No loop of handle_event leaves the table of handlers, no frame or answer is of a
\* call that was never made.
THEOREM TypeCorrect == Spec => []TypeOK
<1>1. IInv => TypeOK
  BY DEF IInv
<1> QED
  BY <1>1, Always, PTL

\* While the device is online, the server knows the filter of every handler, whatever
\* connections broke and were made under which callbacks; but for those subscribed
\* while the greeting of this connection was going on (send_subscriptions is over, and
\* spark_subscribe does not send before the flag is up).
THEOREM HandlersAreKnown == Spec => []KnownToServer
<1>1. IInv => KnownToServer
  BY DEF IInv, Known, KnownToServer
<1> QED
  BY <1>1, Always, PTL

\* However many calls are served within calls, function_result sends the token and the
\* result of its own call, and of each call once at most.
THEOREM ResultsMatchTheirCalls == Spec => []ResultMatchesCall
<1>1. IInv => ResultMatchesCall
  BY DEF IInv, Once, Marked, Matched, ResultMatchesCall
<1> QED
  BY <1>1, Always, PTL

\* A pass of handle_event over the table reaches every handler that was in it at the
\* beginning and whose filter fits, if nothing has been sent or received in the
\* meantime and nothing unsubscribed; those that callbacks subscribe only come after.
THEOREM EveryListenerIsCalled == Spec => EveryListenerHears
<1> DEFINE A == InEvent /\ stack' = Front(stack) /\ buffer = Top.id =>
                    \A k \in Top.due : IsPrefix(k.filter, msgs[Top.id].name) => k \in Top.told
<1>1. ASSUME IInv, Next, InEvent, stack' = Front(stack), buffer = Top.id,
             NEW k \in Top.due, IsPrefix(k.filter, msgs[Top.id].name)
      PROVE  k \in Top.told
  <2>1. stack # <<>> /\ Top.kind = "event" /\ ~Top.running
    BY <1>1 DEF InEvent
  <2>2. /\ Top \in EventFrame /\ Top.at \in Nat \ {0} /\ Hears(Top, handlers, buffer, msgs)
    BY <1>1, <2>1, TopIs DEF Fine
  <2>3. Len(stack') = Len(stack) - 1 /\ Len(stack) \in Nat \ {0}
    BY <1>1, <2>1, FrontOld, StackOf DEF IInv
  <2>4. ~InApplication /\ ~GreetingReceives /\ ~ProcessEvents
    BY <2>1 DEF InApplication, GreetingReceives, ProcessEvents
  <2>5. ~NextHandler
    <3> SUFFICES ASSUME NextHandler PROVE FALSE
      OBVIOUS
    <3>1. \E f : stack' = Append(Front(stack), f)
      BY DEF NextHandler, WithTop
    <3> QED
      BY <1>1, <3>1
  <2>6. EventOver
    <3>1. stack' # stack
      BY <2>3
    <3>2. ~Server /\ ~LinkBreaks
      BY <3>1 DEF Server, SendEvent, SendCall, Send, LinkBreaks
    <3>3. ~Pass
      BY <2>4 DEF Pass, Connect, HandshakeAgain, ReceiveFails, ReceiveNothing, ReceiveEvent,
         ReceiveCall, Receiving
    <3>4. ~Application
      BY <2>4 DEF Application, Publish, Subscribe, Unsubscribe
    <3>5. ~HandlerReturns /\ ~FunctionReturns /\ ~GreetingOver
      BY <2>1 DEF HandlerReturns, FunctionReturns, GreetingOver
    <3> QED
      BY <1>1, <2>5, <3>2, <3>3, <3>4, <3>5 DEF Next, Return
  <2>7. Top.at > Len(handlers) /\ Len(handlers) \in Nat /\ DOMAIN handlers = 1 .. Len(handlers)
    BY <1>1, <2>6, Typed DEF EventOver
  <2>8. PICK i \in DOMAIN handlers : KeyOf(handlers[i]) = k
    BY <1>1, <2>2 DEF Hears
  <2>9. Passed(Top, i) /\ handlers[i].filter = k.filter
    BY <2>2, <2>7, <2>8 DEF Passed, KeyOf
  <2> QED
    BY <1>1, <2>2, <2>8, <2>9 DEF Hears
<1>2. IInv /\ [Next]_vars => [A]_vars
  BY <1>1
<1>3. [][A]_vars <=> EveryListenerHears
  BY DEF EveryListenerHears
<1> HIDE DEF A
<1> QED
  BY <1>2, <1>3, Always, PTL DEF Spec

=============================================================================
