------------------------------ MODULE HttpClient ------------------------------
(***************************************************************************)
(* HttpClient::request of the sensor (HttpClient.cpp) over TCPClient of the *)
(* firmware (spark_wiring_tcpclient.cpp), and the server at the other end.  *)
(*                                                                         *)
(* An answer is a header and a body, counted in units; what is read of it  *)
(* goes into one buffer.  The loop that reads waits 200 ms between two      *)
(* looks, so that the answer may come in pieces or stop at any moment: a    *)
(* server that closes or breaks down, and a network that fails, just bring  *)
(* no more of it.                                                          *)
(***************************************************************************)
EXTENDS Integers

CONSTANTS Header,    \* units of an answer's header, the blank line included
          Lengths,   \* units of a whole answer
          Capacity,  \* units of the buffer
          Bodies     \* what an answer may say

ASSUME HttpAssumption ==
    /\ Header \in Nat \ {0} /\ Capacity \in Nat \ {0}
    /\ Lengths \subseteq Nat /\ \A n \in Lengths : n > Header

VARIABLES http,  \* the request that is running
          body   \* response.body, and is it all of the body the server sent

httpVars == <<http, body>>

HttpTypeOK ==
    /\ http \in [receiving : BOOLEAN,
                 answer : Bodies \cup {""},
                 length : Lengths \cup {0},
                 sent : Nat,           \* what has come of the answer
                 from : Nat,           \* where in it the buffer begins
                 read : 0 .. Capacity, \* bufferPosition
                 error : BOOLEAN]
    /\ body \in [text : Bodies \cup {""}, whole : BOOLEAN]

NoBody == [text |-> "", whole |-> TRUE]

HttpIdle == [receiving |-> FALSE, answer |-> "", length |-> 0,
             sent |-> 0, from |-> 0, read |-> 0, error |-> FALSE]

End == http.from + http.read

-----------------------------------------------------------------------------
\* The request has been sent.  client.flush() throws away what has come of the
\* answer by then.
RequestSent(answer) ==
    /\ ~http.receiving
    /\ \E length \in Lengths : \E early \in 0 .. length :
          http' = [receiving |-> TRUE, answer |-> answer, length |-> length,
                   sent |-> early, from |-> early, read |-> 0, error |-> FALSE]
    /\ UNCHANGED body

\* connect() fails, or succeeds without a socket (the name is not resolved): the
\* body of the request before stays.
NotConnected == ~http.receiving /\ UNCHANGED httpVars

ServerSends ==
    /\ http.receiving
    /\ \E n \in http.sent + 1 .. http.length : http' = [http EXCEPT !.sent = n]
    /\ UNCHANGED body

\* The inner loop reads all there is; too much is an error.
Read ==
    /\ http.receiving /\ ~http.error /\ End < http.sent
    /\ LET room == Capacity - http.read
           some == http.sent - End
       IN  http' = [http EXCEPT !.read = @ + (IF some > room THEN room ELSE some),
                                !.error = some > room]
    /\ UNCHANGED body

\* After the loop: with no blank line in the buffer the body stays as it was.
Parse ==
    body' = IF http.from < Header /\ End >= Header
            THEN IF End = Header THEN [text |-> "", whole |-> FALSE]
                 ELSE [text |-> http.answer, whole |-> End = http.length]
            ELSE body

\* Mutant: the loop ends with the connection, though not all has been read.
RequestEndsUnread ==
    /\ http.receiving
    /\ Parse
    /\ http' = HttpIdle

\* The loop ends with an error, with the connection when all is read
\* (TCPClient::connected), or when nothing has come for five seconds.
RequestEnds ==
    /\ http.receiving
    /\ http.error \/ End = http.sent
    /\ Parse
    /\ http' = HttpIdle

=============================================================================
