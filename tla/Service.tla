-------------------------------- MODULE Service --------------------------------
(***************************************************************************)
(* The HTTP service (src/service/server.py), its binding (cmpr.py) and the *)
(* C API below it (src/src/capi.cpp).  Each connection has a thread, which *)
(* takes one request after the other from it.  The interpreter's lock is   *)
(* released in a foreign call, so every step of a thread may fall between  *)
(* two steps of another.                                                   *)
(*                                                                         *)
(* A connection carries heads and bodies of requests, each known by the    *)
(* number of its request.  A client sends the next request when it has an  *)
(* answer to every one before and has sent the body it declared, or it     *)
(* stops sending: in the middle of a body, or for good.  While the server   *)
(* sends it an answer, it may stop reading, and the server waits.           *)
(***************************************************************************)
EXTENDS Integers, Sequences

CONSTANTS
    Connections,
    Requests,       \* the requests each may carry, of these kinds
    MaxRequests     \* bound: how many requests each connection carries

Routes  == {"compress", "decompress", "get", "other"}
Lengths == {"none", "fits", "tooLarge", "notANumber"}
Queries == {"good", "bad"}
Kinds   == [route : Routes, length : Lengths, query : Queries]

ASSUME ServiceAssumption ==
    /\ Connections # {}
    /\ Requests \in [Connections -> SUBSET Kinds]
    /\ MaxRequests \in [Connections -> Nat]

VARIABLES
    requests,   \* what each client has sent
    owed,       \* whether the body of the last one is still to come
    hungUp,     \* whether the client has closed the connection
    stalled,    \* whether the client, still there, leaves what is sent to it unread
    wire,       \* what has arrived and the server has not read
    replies,    \* what the server answers, the last perhaps still on its way
    pc,         \* where each connection's thread is
    serving,    \* the number of the request it serves
    body,       \* how much of the body it has: "none", "whole" or "short"
    status,     \* the cmpr_status of its call, 0 again once it is reported
    lastError,  \* g_lastError: whose message each thread's storage holds
    buffers     \* the buffers allocated and not freed, by the call they were made for

client == <<requests, owed, hungUp, stalled>>
local  == <<serving, body, status>>
vars   == <<client, wire, replies, pc, local, lastError, buffers>>

Call(c)    == [connection |-> c, number |-> serving[c]]
NoMessage  == [connection |-> "none", number |-> 0]
Request(c) == requests[c][serving[c]]

\* An answer is being sent, after which there may be another request, or not.
Sending == {"answering", "parting"}

PCs == Sending \cup
    {"idle", "read", "handle", "inside", "returned", "copied", "raised", "closed"}

TypeOK ==
    /\ \A c \in Connections :
          /\ requests[c] \in Seq(Kinds) /\ Len(requests[c]) <= MaxRequests[c]
          /\ serving[c] \in 0 .. Len(requests[c])
    /\ owed \in [Connections -> BOOLEAN]
    /\ hungUp \in [Connections -> BOOLEAN]
    /\ stalled \in [Connections -> BOOLEAN]
    /\ pc \in [Connections -> PCs]
    /\ body \in [Connections -> {"none", "whole", "short"}]
    /\ status \in [Connections -> 0 .. 4]

Init ==
    /\ requests  = [c \in Connections |-> << >>]
    /\ owed      = [c \in Connections |-> FALSE]
    /\ hungUp    = [c \in Connections |-> FALSE]
    /\ stalled   = [c \in Connections |-> FALSE]
    /\ wire      = [c \in Connections |-> << >>]
    /\ replies   = [c \in Connections |-> << >>]
    /\ pc        = [c \in Connections |-> "idle"]
    /\ serving   = [c \in Connections |-> 0]
    /\ body      = [c \in Connections |-> "none"]
    /\ status    = [c \in Connections |-> 0]
    /\ lastError = [c \in Connections |-> NoMessage]
    /\ buffers   = {}

Go(c, place) == pc' = [pc EXCEPT ![c] = place]

Arrives(c, part, n) == wire' = [wire EXCEPT ![c] = Append(@, [part |-> part, of |-> n])]

Speaks(c) == pc[c] # "closed" /\ ~hungUp[c]

\* How many answers the client has got.
Received(c) == Len(replies[c]) - (IF pc[c] \in Sending THEN 1 ELSE 0)

SendHead(c, request) ==
    LET n == Len(requests[c]) + 1
    IN  /\ Speaks(c)
        /\ ~owed[c]
        /\ n <= MaxRequests[c]
        /\ Received(c) >= Len(requests[c])
        /\ requests' = [requests EXCEPT ![c] = Append(@, request)]
        /\ owed' = [owed EXCEPT ![c] = request.length # "none"]
        /\ Arrives(c, "head", n)
        /\ UNCHANGED <<hungUp, stalled, replies, pc, local, lastError, buffers>>

SendBody(c) ==
    /\ Speaks(c)
    /\ owed[c]
    /\ owed' = [owed EXCEPT ![c] = FALSE]
    /\ Arrives(c, "body", Len(requests[c]))
    /\ UNCHANGED <<requests, hungUp, stalled, replies, pc, local, lastError, buffers>>

\* Of the body that is owed, a part may have arrived.
HangUp(c) ==
    /\ Speaks(c)
    /\ hungUp' = [hungUp EXCEPT ![c] = TRUE]
    /\ stalled' = [stalled EXCEPT ![c] = FALSE]
    /\ \/ UNCHANGED wire
       \/ owed[c] /\ Arrives(c, "short", Len(requests[c]))
    /\ UNCHANGED <<requests, owed, replies, pc, local, lastError, buffers>>

\* It stops taking what is sent to it, or goes on.
PauseOrResume(c) ==
    /\ Speaks(c)
    /\ pc[c] \in Sending
    /\ stalled' = [stalled EXCEPT ![c] = ~@]
    /\ UNCHANGED <<requests, owed, hungUp, wire, replies, pc, local, lastError, buffers>>

------------------------------------------------------------------------------
\* server.py: Handler

\* What is next on the connection.
Arrived(c) == IF wire[c] = << >> THEN "nothing" ELSE Head(wire[c]).part

\* The answer to a request, which is then on its way; "message" is whose error
\* it reports.
Reply(c, number, code, message, next) ==
    /\ replies' = [replies EXCEPT ![c] = Append(@,
            [to |-> number, code |-> code, message |-> message, body |-> body[c]])]
    /\ Go(c, next)

Answer(c, code) == Reply(c, serving[c], code, NoMessage, "answering")

\* wfile.write has no timeout: it waits until the client has taken all of the
\* answer, or is gone.  Then it may raise, which nothing catches: the connection
\* is closed.
Transmit(c) ==
    /\ pc[c] \in Sending
    /\ ~stalled[c]
    /\ \/ Go(c, IF pc[c] = "answering" THEN "idle" ELSE "closed")
       \/ hungUp[c] /\ Go(c, "closed")
    /\ UNCHANGED <<client, wire, replies, local, lastError, buffers>>

\* The head of a request.
ReadHead(c) ==
    /\ pc[c] = "idle"
    /\ Arrived(c) = "head"
    /\ serving' = [serving EXCEPT ![c] = Head(wire[c]).of]
    /\ body' = [body EXCEPT ![c] = "none"]
    /\ wire' = [wire EXCEPT ![c] = Tail(@)]
    /\ Go(c, "read")
    /\ UNCHANGED <<client, replies, status, lastError, buffers>>

\* A body that was not read is taken for a request.  It seldom is one: the base
\* class answers that it is bad, or nothing at all, and closes the connection.
\* If it is one, of those that need no body, it is served like any other; 200
\* stands for all the codes there are, which no property tells apart.
ReadLeftover(c) ==
    /\ pc[c] = "idle"
    /\ Arrived(c) \in {"body", "short"}
    /\ wire' = [wire EXCEPT ![c] = Tail(@)]
    /\ \/ Reply(c, 0, 400, NoMessage, "parting")
       \/ Go(c, "closed") /\ UNCHANGED replies
       \/ Reply(c, 0, 200, NoMessage, "answering")
    /\ UNCHANGED <<client, local, lastError, buffers>>

\* There is nothing more to come.
EndOfRequests(c) ==
    /\ pc[c] = "idle"
    /\ Arrived(c) = "nothing"
    /\ hungUp[c]
    /\ Go(c, "closed")
    /\ UNCHANGED <<client, wire, replies, local, lastError, buffers>>

\* do_GET of a path there is, which has no use for a body.
Get(c) ==
    /\ pc[c] = "read"
    /\ Request(c).route = "get"
    /\ Answer(c, 200)
    /\ UNCHANGED <<client, wire, local, lastError, buffers>>

\* A request for nothing the server has, of either method.
NotFound(c) ==
    /\ pc[c] = "read"
    /\ Request(c).route = "other"
    /\ Answer(c, 404)
    /\ UNCHANGED <<client, wire, local, lastError, buffers>>

Posted(c) == pc[c] = "read" /\ Request(c).route \in {"compress", "decompress"}

\* _read_body: the length decides whether the body is read at all.
RefuseLength(c) ==
    /\ Posted(c)
    /\ \/ Request(c).length = "none" /\ Answer(c, 400)
       \/ Request(c).length = "tooLarge" /\ Answer(c, 413)
    /\ UNCHANGED <<client, wire, local, lastError, buffers>>

\* int() raises, nothing catches it, and the connection is closed.
LengthRaises(c) ==
    /\ Posted(c)
    /\ Request(c).length = "notANumber"
    /\ Go(c, "closed")
    /\ UNCHANGED <<client, wire, replies, local, lastError, buffers>>

Awaited(c) == Posted(c) /\ Request(c).length = "fits"

Took(c, howMuch) ==
    /\ wire' = [wire EXCEPT ![c] = IF @ = << >> THEN @ ELSE Tail(@)]
    /\ body' = [body EXCEPT ![c] = howMuch]
    /\ Go(c, "handle")
    /\ UNCHANGED <<client, replies, serving, status, lastError, buffers>>

\* rfile.read(length) waits for all of the body, as long as it takes.
ReadBody(c) ==
    /\ Awaited(c)
    /\ Arrived(c) = "body"
    /\ Took(c, "whole")

\* Mutant: what has arrived is taken for the body.
ReadShort_Eager(c) ==
    /\ Awaited(c)
    /\ Arrived(c) \in {"nothing", "short"}
    /\ Took(c, "short")

\* Mutant: it asks again until it has the whole length.
ReadShort_TriesAgain(c) ==
    /\ Awaited(c)
    /\ hungUp[c]
    /\ Arrived(c) \in {"nothing", "short"}
    /\ UNCHANGED vars

\* At the end of the connection it returns what there is, or raises.
ReadShort(c) ==
    /\ Awaited(c)
    /\ hungUp[c]
    /\ Arrived(c) \in {"nothing", "short"}
    /\ \/ Took(c, "short")
       \/ /\ Go(c, "closed")
          /\ UNCHANGED <<client, wire, replies, local, lastError, buffers>>

\* Mutant: the query is looked at before the body is read.
RefuseQuery_Early(c) ==
    /\ Posted(c) /\ Request(c).length = "fits"
    /\ Request(c).query = "bad"
    /\ Answer(c, 400)
    /\ UNCHANGED <<client, wire, local, lastError, buffers>>

\* Mutant: the client is not told.
RefuseQuery_Silent(c) ==
    /\ pc[c] = "handle"
    /\ Request(c).query = "bad"
    /\ Go(c, "idle")
    /\ UNCHANGED <<client, wire, replies, local, lastError, buffers>>

RefuseQuery(c) ==
    /\ pc[c] = "handle"
    /\ Request(c).query = "bad"
    /\ Answer(c, 400)
    /\ UNCHANGED <<client, wire, local, lastError, buffers>>

------------------------------------------------------------------------------
\* capi.cpp: cmpr_compress and cmpr_decompress, called by Compressor._call

\* Mutant: one storage for all threads.
ErrorOf_Shared(c) == CHOOSE d \in Connections : TRUE

\* thread_local
ErrorOf(c) == c

SetError(c, message) == lastError' = [lastError EXCEPT ![ErrorOf(c)] = message]

\* clearError
EnterCall(c) ==
    /\ pc[c] = "handle"
    /\ Request(c).query = "good"
    /\ SetError(c, NoMessage)
    /\ Go(c, "inside")
    /\ UNCHANGED <<client, wire, replies, local, buffers>>

\* _as_buffer copies the body: a MemoryError, which nothing catches.
CallRaises(c) ==
    /\ pc[c] = "handle"
    /\ Request(c).query = "good"
    /\ Go(c, "closed")
    /\ UNCHANGED <<client, wire, replies, local, lastError, buffers>>

\* handOff: the result is copied to a buffer, never of size 0.
CallSucceeds(c) ==
    /\ pc[c] = "inside"
    /\ buffers' = buffers \cup {Call(c)}
    /\ status' = [status EXCEPT ![c] = 0]
    /\ Go(c, "returned")
    /\ UNCHANGED <<client, wire, replies, serving, body, lastError>>

\* What the handlers make of CorruptInput, bad_alloc, any other standard
\* exception, and anything else.
Statuses(route) == IF route = "compress" THEN {3, 1, 4} ELSE {2, 3, 4}

CallFails(c) ==
    /\ pc[c] = "inside"
    /\ \E s \in Statuses(Request(c).route) : status' = [status EXCEPT ![c] = s]
    /\ SetError(c, Call(c))
    /\ Go(c, "returned")
    /\ UNCHANGED <<client, wire, replies, serving, body, buffers>>

\* CompressionError, with the message read by a second call.
Report(c) ==
    /\ pc[c] = "returned"
    /\ status[c] # 0
    /\ Reply(c, serving[c], IF status[c] = 2 THEN 400 ELSE 500, lastError[ErrorOf(c)], "answering")
    /\ status' = [status EXCEPT ![c] = 0]
    /\ UNCHANGED <<client, wire, serving, body, lastError, buffers>>

\* The slice of the buffer becomes bytes, or there is no memory for them.
Copy(c) ==
    /\ pc[c] = "returned"
    /\ status[c] = 0
    /\ Go(c, "copied") \/ Go(c, "raised")
    /\ UNCHANGED <<client, wire, replies, local, lastError, buffers>>

\* cmpr_free, and the answer.
Release(c) ==
    /\ pc[c] = "copied"
    /\ buffers' = buffers \ {Call(c)}
    /\ Answer(c, 200)
    /\ UNCHANGED <<client, wire, local, lastError>>

\* Mutant: the buffer is freed only after it was copied.
ReleaseRaised_Leaks(c) ==
    /\ pc[c] = "raised"
    /\ Go(c, "closed")
    /\ UNCHANGED <<client, wire, replies, local, lastError, buffers>>

\* cmpr_free in the finally; nothing catches a MemoryError, and the connection
\* is closed.
ReleaseRaised(c) ==
    /\ pc[c] = "raised"
    /\ buffers' = buffers \ {Call(c)}
    /\ Go(c, "closed")
    /\ UNCHANGED <<client, wire, replies, local, lastError>>

Thread(c) ==
    \/ Transmit(c)
    \/ ReadHead(c)
    \/ ReadLeftover(c)
    \/ EndOfRequests(c)
    \/ Get(c)
    \/ NotFound(c)
    \/ RefuseLength(c)
    \/ LengthRaises(c)
    \/ ReadBody(c)
    \/ ReadShort(c)
    \/ RefuseQuery(c)
    \/ EnterCall(c)
    \/ CallRaises(c)
    \/ CallSucceeds(c)
    \/ CallFails(c)
    \/ Report(c)
    \/ Copy(c)
    \/ Release(c)
    \/ ReleaseRaised(c)

\* Every thread waits for a request that no client may send any more.
Quiet ==
    /\ \A c \in Connections :
          \/ pc[c] = "closed"
          \/ pc[c] = "idle" /\ Arrived(c) = "nothing" /\ ~hungUp[c] /\ Len(requests[c]) = MaxRequests[c]
    /\ UNCHANGED vars

Next ==
    \/ \E c \in Connections : \E request \in Requests[c] : SendHead(c, request)
    \/ \E c \in Connections : SendBody(c) \/ HangUp(c) \/ PauseOrResume(c) \/ Thread(c)
    \/ Quiet

Spec == Init /\ [][Next]_vars

\* A thread that can take a step takes one; a call into the library returns.
\* Of clients nothing is assumed, neither that they send nor that they read.
FairSpec == Spec /\ \A c \in Connections : WF_vars(Thread(c))

------------------------------------------------------------------------------
\* Properties

\* A request answered without its body being read, though there is one.
LeavesBody(request) ==
    /\ request.length # "none"
    /\ request.route \notin {"compress", "decompress"} \/ request.length = "tooLarge"

Intact(c, n) == \A k \in 1 .. n - 1 : ~LeavesBody(requests[c][k])

\* The codes a request may be answered with.
Codes(request) ==
    LET posted  == request.route \in {"compress", "decompress"}
        handled == posted /\ request.length = "fits"
    IN  {code \in {200, 400, 404, 413, 500} :
            \/ code = 200 /\ request.route = "get"
            \/ code = 404 /\ request.route = "other"
            \/ code = 400 /\ posted /\ request.length = "none"
            \/ code = 413 /\ posted /\ request.length = "tooLarge"
            \/ code = 400 /\ handled /\ request.query = "bad"
            \/ code \in {200, 500} /\ handled /\ request.query = "good"
            \/ code = 400 /\ handled /\ request.route = "decompress"}

(***************************************************************************)
(* The answers on a connection are to its requests, in order, each with a  *)
(* code that fits its request, as long as no earlier body was left unread: *)
(* after that the connection is out of step (server.py:88-149).  A result  *)
(* is one of the whole body, however slowly it comes, unless the client    *)
(* hangs up in the middle of it, which the server takes for its end        *)
(* (server.py:97).                                                         *)
(***************************************************************************)
AnswersOwn ==
    \A c \in Connections : \A n \in DOMAIN replies[c] :
        LET reply == replies[c][n]
        IN  Intact(c, n) =>
                /\ reply.to = n
                /\ reply.code \in Codes(requests[c][n])
                /\ reply.body = "short" => hungUp[c]

(***************************************************************************)
(* An error is reported in the words of the request's own call, whatever   *)
(* other requests fail between its two calls (capi.cpp:13-19,              *)
(* cmpr.py:79-80).                                                         *)
(***************************************************************************)
MessageOwn ==
    \A c \in Connections : \A n \in DOMAIN replies[c] :
        LET reply == replies[c][n]
        IN  /\ reply.message # NoMessage => reply.message = [connection |-> c, number |-> reply.to]
            /\ reply.code = 500 => reply.message # NoMessage

(***************************************************************************)
(* A buffer is alive exactly from the call that hands it off until the     *)
(* thread that called has freed it, which it does once on every path       *)
(* (capi.h:15-16, cmpr.py:75-86); and the variables have their types.      *)
(***************************************************************************)
BuffersOwned ==
    /\ TypeOK
    /\ buffers = {Call(c) : c \in {d \in Connections :
                    \/ pc[d] = "returned" /\ status[d] = 0
                    \/ pc[d] \in {"copied", "raised"}}}

(***************************************************************************)
(* Every request is answered, to the last byte, or its connection is       *)
(* closed, unless the thread waits for its client: for the body of the     *)
(* request (server.py:97), or for it to read the answer (server.py:83,     *)
(* 161).  Neither wait has a timeout, and only the client can end it.      *)
(***************************************************************************)
EachAnswered ==
    \A c \in Connections :
        LET answered == \/ requests[c] = << >>
                        \/ \E n \in DOMAIN replies[c] : replies[c][n].to = Len(requests[c])
            waits    == ~hungUp[c] /\ \/ pc[c] = "read" /\ owed[c]
                                      \/ stalled[c]
        IN  []<>(\/ answered /\ pc[c] \notin Sending
                 \/ pc[c] = "closed"
                 \/ waits)

(***************************************************************************)
(* No thread outlives its client: once a client has hung up, the thread of *)
(* its connection ends and none of its buffers is left (server.py:97-161,  *)
(* cmpr.py:81-86).                                                         *)
(***************************************************************************)
ThreadEnds ==
    \A c \in Connections :
        hungUp[c] ~> (pc[c] = "closed" /\ \A b \in buffers : b.connection # c)
==============================================================================
