----------------------------- MODULE ServiceProofs -----------------------------
(***************************************************************************)
(* Whose message an error is reported with, whose the buffers are, and     *)
(* that the answers on a connection are to its own requests and in their   *)
(* order, until one leaves its body unread: for every number of            *)
(* connections and of requests on them.                                    *)
(***************************************************************************)
EXTENDS Service, TLAPS

Messages == {NoMessage} \cup [connection : Connections, number : Nat]

Answers == [to : Nat, code : Nat, message : Messages, body : {"none", "whole", "short"}]

Pieces == [part : {"head", "body", "short"}, of : Nat]

\* The inductive invariant.

Typed ==
    /\ requests  \in [Connections -> Seq(Kinds)]
    /\ owed      \in [Connections -> BOOLEAN]
    /\ hungUp    \in [Connections -> BOOLEAN]
    /\ stalled   \in [Connections -> BOOLEAN]
    /\ wire      \in [Connections -> Seq(Pieces)]
    /\ replies   \in [Connections -> Seq(Answers)]
    /\ pc        \in [Connections -> PCs]
    /\ serving   \in [Connections -> Nat]
    /\ body      \in [Connections -> {"none", "whole", "short"}]
    /\ status    \in [Connections -> 0 .. 4]
    /\ lastError \in [Connections -> Messages]

\* Nothing is on its way or served but what a client has sent.
CountedOf(c) ==
    /\ Len(requests[c]) <= MaxRequests[c]
    /\ serving[c] <= Len(requests[c])
    /\ pc[c] \notin Sending \cup {"idle", "closed"} => serving[c] >= 1
    /\ owed[c] => Len(requests[c]) >= 1
    /\ \A n \in 1 .. Len(wire[c]) : wire[c][n].of \in 1 .. Len(requests[c])

Counted == \A c \in Connections : CountedOf(c)

Holding(c) == (pc[c] = "returned" /\ status[c] = 0) \/ pc[c] \in {"copied", "raised"}

Owned == buffers = {Call(c) : c \in {d \in Connections : Holding(d)}}

\* Between the two calls of a failed request, the message is its own.
Reported ==
    \A c \in Connections : pc[c] = "returned" /\ status[c] # 0 => lastError[c] = Call(c)

IInv == Typed /\ Counted /\ Owned /\ Reported /\ MessageOwn

------------------------------------------------------------------------------
\* Lemmas about the state.

\* A step of one connection that neither makes nor frees a buffer and does not
\* come back from the library.
LEMMA OthersKeep ==
    ASSUME Owned, Reported, NEW c \in Connections,
           buffers' = buffers, ~Holding(c), ~Holding(c)', pc'[c] # "returned",
           \A d \in Connections \ {c} :
              /\ pc'[d] = pc[d] /\ status'[d] = status[d]
              /\ serving'[d] = serving[d] /\ lastError'[d] = lastError[d]
    PROVE  Owned' /\ Reported'
<1>1. {d \in Connections : Holding(d)'} = {d \in Connections : Holding(d)}
  BY DEF Holding
<1>2. \A d \in {e \in Connections : Holding(e)} : Call(d)' = Call(d)
  BY DEF Call
<1>3. {Call(d)' : d \in {e \in Connections : Holding(e)'}}
        = {Call(d) : d \in {e \in Connections : Holding(e)}}
  BY <1>1, <1>2
<1>4. Owned'
  BY <1>3 DEF Owned
<1>5. Reported'
  BY DEF Reported, Call
<1> QED
  BY <1>4, <1>5

\* A step of one connection leaves the counts of the others alone.
LEMMA OthersCounted ==
    ASSUME Counted, NEW c \in Connections, CountedOf(c)',
           \A d \in Connections \ {c} :
              /\ requests'[d] = requests[d] /\ owed'[d] = owed[d] /\ wire'[d] = wire[d]
              /\ serving'[d] = serving[d] /\ pc'[d] = pc[d]
    PROVE  Counted'
<1>1. ASSUME NEW d \in Connections \ {c} PROVE CountedOf(d)'
  <2>1. CountedOf(d)
    BY DEF Counted
  <2> QED
    BY <2>1 DEF CountedOf
<1> QED
  BY <1>1 DEF Counted

\* What is appended to the answers of one connection.
LEMMA ReplyKeeps ==
    ASSUME Typed, MessageOwn, NEW c \in Connections,
           NEW number \in Nat, NEW code \in Nat, NEW message \in Messages, NEW next \in PCs,
           Reply(c, number, code, message, next),
           message # NoMessage => message = [connection |-> c, number |-> number],
           code = 500 => message # NoMessage
    PROVE  /\ replies' \in [Connections -> Seq(Answers)]
           /\ pc' \in [Connections -> PCs]
           /\ pc'[c] = next
           /\ \A d \in Connections \ {c} : pc'[d] = pc[d]
           /\ MessageOwn'
<1> DEFINE reply == [to |-> number, code |-> code, message |-> message, body |-> body[c]]
<1>1. reply \in Answers
  BY DEF Typed, Answers
<1>2. replies'[c] = Append(replies[c], reply) /\ replies[c] \in Seq(Answers)
  BY DEF Reply, Typed
<1>3. replies' \in [Connections -> Seq(Answers)]
  BY <1>1, <1>2 DEF Reply, Typed
<1>4. \A n \in 1 .. Len(replies[c]) : replies'[c][n] = replies[c][n]
  BY <1>1, <1>2
<1>5. Len(replies'[c]) = Len(replies[c]) + 1 /\ replies'[c][Len(replies[c]) + 1] = reply
  BY <1>1, <1>2
<1>6. \A d \in Connections \ {c} : replies'[d] = replies[d]
  BY DEF Reply, Typed
<1>7. ASSUME NEW d \in Connections, NEW n \in DOMAIN replies'[d]
      PROVE  /\ replies'[d][n].message # NoMessage =>
                  replies'[d][n].message = [connection |-> d, number |-> replies'[d][n].to]
             /\ replies'[d][n].code = 500 => replies'[d][n].message # NoMessage
  <2>1. CASE d # c
    BY <1>6, <2>1 DEF MessageOwn
  <2>2. CASE d = c /\ n \in 1 .. Len(replies[c])
    <3>1. n \in DOMAIN replies[c]
      BY <1>2, <2>2
    <3> QED
      BY <1>4, <2>2, <3>1, SMTT(30) DEF MessageOwn
  <2>3. CASE d = c /\ n = Len(replies[c]) + 1
    BY <1>5, <2>3
  <2>4. d = c => n \in 1 .. Len(replies[c]) + 1
    BY <1>2, <1>3, <1>5
  <2> QED
    BY <2>1, <2>2, <2>3, <2>4, <1>2
<1>8. MessageOwn'
  BY <1>7 DEF MessageOwn, NoMessage
<1> QED
  BY <1>3, <1>8 DEF Reply, Go, Typed

------------------------------------------------------------------------------
\* The inductive invariant, one lemma for each kind of step.

\* Init establishes it.
LEMMA InitIInv == Init => IInv
<1> SUFFICES ASSUME Init PROVE IInv
  OBVIOUS
<1>1. Typed
  <2>1. /\ << >> \in Seq(Kinds) /\ << >> \in Seq(Pieces) /\ << >> \in Seq(Answers)
        /\ "idle" \in PCs /\ NoMessage \in Messages /\ 0 \in 0 .. 4
    BY DEF PCs, Messages
  <2> QED
    BY <2>1 DEF Init, Typed
<1>2. Counted
  <2>1. ASSUME NEW c \in Connections PROVE CountedOf(c)
    <3>1. MaxRequests[c] \in Nat /\ Len(requests[c]) = 0 /\ Len(wire[c]) = 0 /\ serving[c] = 0
      BY ServiceAssumption DEF Init
    <3>2. pc[c] = "idle" /\ ~owed[c]
      BY DEF Init
    <3> QED
      BY <3>1, <3>2 DEF CountedOf
  <2> QED
    BY <2>1 DEF Counted
<1>3. Owned
  BY DEF Init, Owned, Holding
<1>4. Reported /\ MessageOwn
  BY DEF Init, Reported, MessageOwn
<1> QED
  BY <1>1, <1>2, <1>3, <1>4 DEF IInv

\* The clients: a head, a body, or the end of either, or of their patience.
LEMMA ClientKeeps ==
    ASSUME IInv, NEW c \in Connections,
           (\E request \in Kinds : SendHead(c, request)) \/ SendBody(c) \/ HangUp(c) \/ PauseOrResume(c)
    PROVE  IInv'
<1> USE DEF IInv
<1>1. /\ UNCHANGED <<replies, pc, local, lastError, buffers>>
      /\ \A d \in Connections \ {c} : requests'[d] = requests[d] /\ owed'[d] = owed[d] /\ wire'[d] = wire[d]
  BY DEF SendHead, SendBody, HangUp, PauseOrResume, Arrives, Typed, client
<1>2. /\ requests' \in [Connections -> Seq(Kinds)]
      /\ owed' \in [Connections -> BOOLEAN]
      /\ hungUp' \in [Connections -> BOOLEAN]
      /\ stalled' \in [Connections -> BOOLEAN]
      /\ Len(requests'[c]) <= MaxRequests[c]
      /\ Len(requests'[c]) >= Len(requests[c])
      /\ owed'[c] => Len(requests'[c]) >= 1
  <2>1. CountedOf(c) /\ requests[c] \in Seq(Kinds) /\ MaxRequests[c] \in Nat
    BY ServiceAssumption DEF Counted, Typed
  <2>2. ASSUME NEW request \in Kinds, SendHead(c, request)
        PROVE  <1>2!:
    <3>1. requests'[c] = Append(requests[c], request) /\ requests' \in [Connections -> Seq(Kinds)]
      BY <2>1, <2>2 DEF SendHead, Typed
    <3>2. Len(requests'[c]) = Len(requests[c]) + 1 /\ Len(requests[c]) \in Nat
      BY <2>1, <3>1
    <3> QED
      BY <2>1, <2>2, <3>1, <3>2 DEF SendHead, Typed
  <2>3. CASE SendBody(c) \/ HangUp(c) \/ PauseOrResume(c)
    <3>1. /\ requests' = requests
          /\ hungUp' \in [Connections -> BOOLEAN]
          /\ stalled' \in [Connections -> BOOLEAN]
          /\ owed' \in [Connections -> BOOLEAN]
          /\ owed'[c] => owed[c]
      BY <2>3 DEF SendBody, HangUp, PauseOrResume, Typed
    <3>2. Len(requests[c]) \in Nat
      BY <2>1
    <3> QED
      BY <2>1, <3>1, <3>2 DEF Typed, CountedOf
  <2> QED
    BY <2>2, <2>3
<1>3. \/ wire' = wire
      \/ \E part \in {"head", "body", "short"}, n \in 1 .. Len(requests'[c]) :
            wire' = [wire EXCEPT ![c] = Append(@, [part |-> part, of |-> n])]
  <2>1. CountedOf(c) /\ requests[c] \in Seq(Kinds)
    BY DEF Counted, Typed
  <2>2. ASSUME NEW request \in Kinds, SendHead(c, request)
        PROVE  Len(requests[c]) + 1 \in 1 .. Len(requests'[c])
    BY <2>1, <2>2 DEF SendHead, Typed
  <2>3. ASSUME owed[c], requests' = requests
        PROVE  Len(requests[c]) \in 1 .. Len(requests'[c])
    <3>1. Len(requests[c]) \in Nat
      BY <2>1
    <3> QED
      BY <2>1, <2>3, <3>1 DEF CountedOf
  <2>4. ASSUME NEW request \in Kinds, SendHead(c, request)
        PROVE  \E part \in {"head", "body", "short"}, n \in 1 .. Len(requests'[c]) :
                    wire' = [wire EXCEPT ![c] = Append(@, [part |-> part, of |-> n])]
    <3>1. wire' = [wire EXCEPT ![c] = Append(@, [part |-> "head", of |-> Len(requests[c]) + 1])]
      BY <2>4 DEF SendHead, Arrives
    <3> QED
      BY <2>2, <2>4, <3>1
  <2>5. ASSUME SendBody(c)
        PROVE  \E part \in {"head", "body", "short"}, n \in 1 .. Len(requests'[c]) :
                    wire' = [wire EXCEPT ![c] = Append(@, [part |-> part, of |-> n])]
    <3>1. wire' = [wire EXCEPT ![c] = Append(@, [part |-> "body", of |-> Len(requests[c])])]
      BY <2>5 DEF SendBody, Arrives
    <3>2. Len(requests[c]) \in 1 .. Len(requests'[c])
      BY <2>3, <2>5 DEF SendBody
    <3> QED
      BY <3>1, <3>2
  <2>6. ASSUME HangUp(c), wire' # wire
        PROVE  \E part \in {"head", "body", "short"}, n \in 1 .. Len(requests'[c]) :
                    wire' = [wire EXCEPT ![c] = Append(@, [part |-> part, of |-> n])]
    <3>1. owed[c] /\ wire' = [wire EXCEPT ![c] = Append(@, [part |-> "short", of |-> Len(requests[c])])]
      BY <2>6 DEF HangUp, Arrives
    <3>2. Len(requests[c]) \in 1 .. Len(requests'[c])
      BY <2>3, <2>6, <3>1 DEF HangUp
    <3> QED
      BY <3>1, <3>2
  <2> QED
    BY <2>4, <2>5, <2>6 DEF PauseOrResume
<1>4. /\ wire' \in [Connections -> Seq(Pieces)]
      /\ \A n \in 1 .. Len(wire'[c]) : wire'[c][n].of \in 1 .. Len(requests'[c])
  <2>1. CASE wire' = wire
    <3>1. Len(requests[c]) \in Nat /\ Len(requests'[c]) \in Nat /\ CountedOf(c)
      BY <1>2 DEF Typed, Counted
    <3>2. \A n \in 1 .. Len(wire[c]) : wire[c][n].of \in 1 .. Len(requests[c])
      BY <3>1 DEF CountedOf
    <3>3. 1 .. Len(requests[c]) \subseteq 1 .. Len(requests'[c])
      BY <1>2, <3>1
    <3> QED
      BY <2>1, <3>2, <3>3 DEF Typed
  <2>2. ASSUME NEW part \in {"head", "body", "short"}, NEW k \in 1 .. Len(requests'[c]),
               wire' = [wire EXCEPT ![c] = Append(@, [part |-> part, of |-> k])]
        PROVE  <1>4!:
    <3> DEFINE piece == [part |-> part, of |-> k]
    <3>1. piece \in Pieces /\ wire[c] \in Seq(Pieces)
      BY <1>2 DEF Pieces, Typed
    <3>2. wire'[c] = Append(wire[c], piece) /\ wire' \in [Connections -> Seq(Pieces)]
      BY <2>2, <3>1 DEF Typed
    <3>3. \A n \in 1 .. Len(wire[c]) : wire'[c][n] = wire[c][n]
      BY <3>1, <3>2
    <3>4. Len(wire'[c]) = Len(wire[c]) + 1 /\ wire'[c][Len(wire[c]) + 1] = piece
      BY <3>1, <3>2
    <3>5. \A n \in 1 .. Len(wire[c]) : wire[c][n].of \in 1 .. Len(requests[c])
      BY DEF Counted, CountedOf
    <3>6. Len(requests[c]) \in Nat /\ Len(requests'[c]) \in Nat
      BY <1>2 DEF Typed
    <3> QED
      BY <1>2, <3>1, <3>2, <3>3, <3>4, <3>5, <3>6
  <2> QED
    BY <1>3, <2>1, <2>2
<1>5. Typed'
  BY <1>1, <1>2, <1>4 DEF Typed, local
<1>6. Counted'
  <2>1. CountedOf(c) /\ serving[c] \in Nat /\ Len(requests[c]) \in Nat /\ Len(requests'[c]) \in Nat
    BY <1>2 DEF Counted, Typed
  <2>2. CountedOf(c)'
    BY <1>1, <1>2, <1>4, <2>1 DEF CountedOf, local
  <2> QED
    BY <1>1, <2>2, OthersCounted DEF local
<1>7. Owned' /\ Reported' /\ MessageOwn'
  BY <1>1 DEF Owned, Holding, Call, Reported, MessageOwn, NoMessage, local
<1> QED
  BY <1>5, <1>6, <1>7

\* A thread is done with a request or with its connection, and has no buffer.
LEMMA EndingKeeps ==
    ASSUME IInv, NEW c \in Connections, ~Holding(c), pc[c] # "returned",
           NEW next \in {"idle", "closed"}, Go(c, next),
           UNCHANGED <<client, wire, replies, local, lastError, buffers>>
    PROVE  IInv'
<1> USE DEF IInv
<1>1. Typed'
  BY DEF Typed, Go, PCs, client, local
<1>2. Counted'
  <2>1. CountedOf(c)'
    BY DEF Counted, CountedOf, Typed, Go, client, local
  <2> QED
    BY <2>1, OthersCounted DEF Typed, Go, client, local
<1>3. pc'[c] = next /\ ~Holding(c)'
  BY DEF Typed, Go, Holding
<1>4. Owned' /\ Reported'
  BY <1>3, OthersKeep DEF Typed, Go, local
<1> QED
  BY <1>1, <1>2, <1>4 DEF MessageOwn, NoMessage

\* A thread answers without having called the library.
LEMMA AnsweringKeeps ==
    ASSUME IInv, NEW c \in Connections, ~Holding(c), pc[c] # "returned",
           NEW number \in Nat, NEW code \in Nat \ {500}, NEW next \in Sending,
           Reply(c, number, code, NoMessage, next),
           wire' \in [Connections -> Seq(Pieces)],
           \A n \in 1 .. Len(wire'[c]) : wire'[c][n].of \in 1 .. Len(requests[c]),
           \A d \in Connections \ {c} : wire'[d] = wire[d],
           UNCHANGED <<client, local, lastError, buffers>>
    PROVE  IInv'
<1> USE DEF IInv
<1>1. /\ replies' \in [Connections -> Seq(Answers)]
      /\ pc' \in [Connections -> PCs]
      /\ pc'[c] = next
      /\ \A d \in Connections \ {c} : pc'[d] = pc[d]
      /\ MessageOwn'
  BY ReplyKeeps DEF Messages, PCs
<1>2. Typed' /\ Counted'
  <2>1. CountedOf(c)'
    BY <1>1 DEF Counted, CountedOf, client, local
  <2> QED
    BY <1>1, <2>1, OthersCounted DEF Typed, client, local
<1>3. ~Holding(c)'
  BY <1>1 DEF Holding, Sending
<1>4. Owned' /\ Reported'
  BY <1>1, <1>3, OthersKeep DEF Sending, local
<1> QED
  BY <1>1, <1>2, <1>4

\* What is left when a piece is taken was there before.
LEMMA Shorter ==
    ASSUME IInv, NEW c \in Connections, wire[c] # << >>
    PROVE  /\ Tail(wire[c]) \in Seq(Pieces)
           /\ \A n \in 1 .. Len(Tail(wire[c])) : Tail(wire[c])[n].of \in 1 .. Len(requests[c])
<1>1. wire[c] \in Seq(Pieces)
  BY DEF IInv, Typed
<1>2. /\ Tail(wire[c]) \in Seq(Pieces)
      /\ Len(Tail(wire[c])) = Len(wire[c]) - 1
      /\ \A n \in 1 .. Len(Tail(wire[c])) : Tail(wire[c])[n] = wire[c][n + 1]
  BY <1>1
<1>3. ASSUME NEW n \in 1 .. Len(Tail(wire[c])) PROVE n + 1 \in 1 .. Len(wire[c])
  BY <1>1, <1>2
<1> QED
  BY <1>2, <1>3 DEF IInv, Counted, CountedOf

\* A body that was left is answered, or ends the connection.
LEMMA LeftoverKeeps ==
    ASSUME IInv, NEW c \in Connections, ReadLeftover(c)
    PROVE  IInv'
<1>1. /\ pc[c] = "idle" /\ wire[c] # << >>
      /\ wire' = [wire EXCEPT ![c] = Tail(@)]
      /\ UNCHANGED <<client, local, lastError, buffers>>
  BY DEF ReadLeftover, Arrived
<1>2. /\ wire' \in [Connections -> Seq(Pieces)]
      /\ \A n \in 1 .. Len(wire'[c]) : wire'[c][n].of \in 1 .. Len(requests[c])
      /\ \A d \in Connections \ {c} : wire'[d] = wire[d]
  BY <1>1, Shorter DEF IInv, Typed
<1>3. ASSUME NEW number \in Nat, NEW code \in Nat \ {500}, NEW next \in Sending,
             Reply(c, number, code, NoMessage, next)
      PROVE  IInv'
  <2>1. ~Holding(c) /\ pc[c] # "returned"
    BY <1>1 DEF Holding
  <2> QED
    BY <1>1, <1>2, <1>3, <2>1, AnsweringKeeps
<1>4. CASE Reply(c, 0, 400, NoMessage, "parting") \/ Reply(c, 0, 200, NoMessage, "answering")
  <2>1. 0 \in Nat /\ 400 \in Nat \ {500} /\ 200 \in Nat \ {500}
    OBVIOUS
  <2>2. "parting" \in Sending /\ "answering" \in Sending
    BY DEF Sending
  <2> QED
    BY <1>3, <1>4, <2>1, <2>2
<1>5. CASE Go(c, "closed") /\ UNCHANGED replies
  <2> USE DEF IInv
  <2>1. Typed'
    BY <1>1, <1>2, <1>5 DEF Typed, Go, PCs, client, local
  <2>2. CountedOf(c)'
    BY <1>1, <1>2, <1>5 DEF Counted, CountedOf, Typed, Go, client, local
  <2>3. Counted'
    BY <1>1, <1>2, <1>5, <2>2, OthersCounted DEF Typed, Go, client, local
  <2>4. pc'[c] = "closed" /\ ~Holding(c) /\ ~Holding(c)'
    BY <1>1, <1>5 DEF Typed, Go, Holding
  <2>5. Owned' /\ Reported'
    BY <1>1, <1>5, <2>4, OthersKeep DEF Typed, Go, local
  <2> QED
    BY <1>5, <2>1, <2>3, <2>5 DEF MessageOwn, NoMessage
<1> QED
  BY <1>3, <1>4, <1>5 DEF ReadLeftover

\* A thread takes a head or a body from its connection.
LEMMA ReadingKeeps ==
    ASSUME IInv, NEW c \in Connections,
           ReadHead(c) \/ ReadBody(c) \/ ReadShort(c)
    PROVE  IInv'
<1> USE DEF IInv
<1>1. CASE ReadShort(c) /\ Go(c, "closed") /\ UNCHANGED <<client, wire, replies, local, lastError, buffers>>
  BY <1>1, EndingKeeps DEF ReadShort, Awaited, Posted, Holding
<1>2. CASE ReadHead(c)
  <2>1. wire[c] \in Seq(Pieces) /\ wire[c] # << >>
    BY <1>2 DEF ReadHead, Arrived, Typed
  <2>2. /\ Tail(wire[c]) \in Seq(Pieces)
        /\ Len(Tail(wire[c])) = Len(wire[c]) - 1
        /\ \A n \in 1 .. Len(Tail(wire[c])) : Tail(wire[c])[n] = wire[c][n + 1]
        /\ Len(wire[c]) >= 1 /\ Head(wire[c]) = wire[c][1]
    BY <2>1
  <2>3. Head(wire[c]).of \in 1 .. Len(requests[c])
    BY <2>2 DEF Counted, CountedOf
  <2>4. Typed'
    BY <1>2, <2>2, <2>3 DEF ReadHead, Typed, Go, PCs, client
  <2>5. /\ wire'[c] = Tail(wire[c]) /\ serving'[c] = Head(wire[c]).of
        /\ \A d \in Connections \ {c} : wire'[d] = wire[d] /\ serving'[d] = serving[d] /\ pc'[d] = pc[d]
        /\ UNCHANGED <<requests, owed>>
    BY <1>2 DEF ReadHead, Typed, Go, client
  <2>6. Counted'
    <3>1. CountedOf(c) /\ Len(wire[c]) \in Nat /\ Len(requests[c]) \in Nat
      BY DEF Counted, Typed
    <3>2. ASSUME NEW n \in 1 .. Len(wire'[c])
          PROVE  wire'[c][n].of \in 1 .. Len(requests[c])
      <4>1. n \in 1 .. Len(Tail(wire[c])) /\ n + 1 \in 1 .. Len(wire[c])
        BY <2>2, <2>5, <3>1
      <4> QED
        BY <4>1, <2>2, <2>5, <3>1 DEF CountedOf
    <3>3. CountedOf(c)'
      BY <2>3, <2>5, <3>1, <3>2 DEF CountedOf
    <3> QED
      BY <2>5, <3>3, OthersCounted
  <2>7. pc[c] = "idle" /\ pc'[c] = "read" /\ UNCHANGED <<replies, status, lastError, buffers>>
    BY <1>2 DEF ReadHead, Typed, Go
  <2>8. Owned' /\ Reported'
    BY <2>5, <2>7, OthersKeep DEF Holding
  <2> QED
    BY <2>4, <2>6, <2>7, <2>8 DEF MessageOwn, NoMessage
<1>3. ASSUME NEW howMuch \in {"whole", "short"}, pc[c] = "read", Took(c, howMuch), serving[c] >= 1
      PROVE  IInv'
  <2>1. wire[c] \in Seq(Pieces)
    BY DEF Typed
  <2>2. wire[c] # << >> =>
            /\ Tail(wire[c]) \in Seq(Pieces)
            /\ Len(Tail(wire[c])) = Len(wire[c]) - 1
            /\ \A n \in 1 .. Len(Tail(wire[c])) : Tail(wire[c])[n] = wire[c][n + 1]
    BY <2>1
  <2>3. Typed'
    BY <1>3, <2>1, <2>2 DEF Took, Typed, Go, PCs, client
  <2>4. /\ wire'[c] = wire[c] \/ (wire[c] # << >> /\ wire'[c] = Tail(wire[c]))
        /\ \A d \in Connections \ {c} : wire'[d] = wire[d] /\ pc'[d] = pc[d]
        /\ pc'[c] = "handle"
        /\ UNCHANGED <<requests, owed, replies, serving, status, lastError, buffers>>
    BY <1>3 DEF Took, Typed, Go, client
  <2>5. Counted'
    <3>1. CountedOf(c) /\ Len(wire[c]) \in Nat /\ Len(requests[c]) \in Nat
      BY DEF Counted, Typed
    <3>2. ASSUME NEW n \in 1 .. Len(wire'[c])
          PROVE  wire'[c][n].of \in 1 .. Len(requests[c])
      <4>1. CASE wire'[c] = wire[c]
        BY <4>1, <3>1 DEF CountedOf
      <4>2. CASE wire[c] # << >> /\ wire'[c] = Tail(wire[c])
        <5>1. n \in 1 .. Len(Tail(wire[c])) /\ n + 1 \in 1 .. Len(wire[c])
          BY <4>2, <2>2, <3>1
        <5> QED
          BY <4>2, <5>1, <2>2, <3>1 DEF CountedOf
      <4> QED
        BY <4>1, <4>2, <2>4
    <3>3. CountedOf(c)'
      BY <1>3, <2>4, <3>1, <3>2 DEF CountedOf
    <3> QED
      BY <2>4, <3>3, OthersCounted
  <2>6. Owned' /\ Reported'
    BY <1>3, <2>4, OthersKeep DEF Holding
  <2> QED
    BY <2>3, <2>4, <2>5, <2>6 DEF MessageOwn, NoMessage
<1>4. pc[c] = "read" => serving[c] >= 1
  BY DEF Counted, CountedOf, Sending
<1> QED
  BY <1>1, <1>2, <1>3, <1>4 DEF ReadBody, ReadShort, Awaited, Posted

\* A thread enters the library.
LEMMA EnteringKeeps ==
    ASSUME IInv, NEW c \in Connections, EnterCall(c)
    PROVE  IInv'
<1> USE DEF IInv
<1>1. /\ UNCHANGED <<client, wire, replies, local, buffers>>
      /\ pc[c] = "handle" /\ pc' = [pc EXCEPT ![c] = "inside"]
      /\ lastError' = [lastError EXCEPT ![c] = NoMessage]
  BY DEF EnterCall, Go, SetError, ErrorOf
<1>2. Typed'
  BY <1>1 DEF Typed, PCs, Messages, client, local
<1>3. CountedOf(c)'
  BY <1>1 DEF Counted, CountedOf, Sending, Typed, client, local
<1>4. Counted'
  BY <1>1, <1>3, OthersCounted DEF Typed, client, local
<1>5. Owned' /\ Reported'
  BY <1>1, OthersKeep DEF Holding, Typed, local
<1> QED
  BY <1>1, <1>2, <1>4, <1>5 DEF MessageOwn, NoMessage

\* It comes back with a buffer, or with an error whose message is its own.
LEMMA ReturningKeeps ==
    ASSUME IInv, NEW c \in Connections, CallSucceeds(c) \/ CallFails(c)
    PROVE  IInv'
<1> USE DEF IInv
<1>1. /\ UNCHANGED <<client, wire, replies, serving, body>>
      /\ pc[c] = "inside" /\ pc' = [pc EXCEPT ![c] = "returned"]
      /\ \E s \in 0 .. 4 : status' = [status EXCEPT ![c] = s]
      /\ \/ /\ status'[c] = 0 /\ buffers' = buffers \cup {Call(c)} /\ UNCHANGED lastError
         \/ /\ status'[c] # 0 /\ UNCHANGED buffers
            /\ lastError' = [lastError EXCEPT ![c] = Call(c)]
  <2>1. CASE CallSucceeds(c)
    BY <2>1 DEF CallSucceeds, Go, Typed
  <2>2. CASE CallFails(c)
    <3>1. PICK s \in Statuses(Request(c).route) : status' = [status EXCEPT ![c] = s]
      BY <2>2 DEF CallFails
    <3>2. s \in 1 .. 4
      BY DEF Statuses
    <3>3. s \in 0 .. 4 /\ status'[c] # 0
      BY <3>1, <3>2 DEF Typed
    <3>4. \E t \in 0 .. 4 : status' = [status EXCEPT ![c] = t]
      BY <3>1, <3>3
    <3> QED
      BY <2>2, <3>3, <3>4 DEF CallFails, Go, SetError, ErrorOf
  <2> QED
    BY <2>1, <2>2
<1>2. Call(c) \in Messages
  BY DEF Call, Messages, Typed
<1>3. Typed'
  <2>1. PICK s \in 0 .. 4 : status' = [status EXCEPT ![c] = s]
    BY <1>1
  <2>2. pc' \in [Connections -> PCs] /\ status' \in [Connections -> 0 .. 4]
    BY <1>1, <2>1 DEF Typed, PCs
  <2>3. lastError' \in [Connections -> Messages]
    BY <1>1, <1>2 DEF Typed
  <2> QED
    BY <1>1, <2>2, <2>3 DEF Typed, client
<1>4. CountedOf(c)'
  BY <1>1 DEF Counted, CountedOf, Sending, Typed, client
<1>5. Counted'
  BY <1>1, <1>4, OthersCounted DEF Typed, client
<1>6. \A d \in Connections \ {c} : pc'[d] = pc[d] /\ status'[d] = status[d] /\ lastError'[d] = lastError[d]
  BY <1>1 DEF Typed
<1>7. \A d \in Connections : Call(d)' = Call(d)
  BY <1>1 DEF Call
<1>8. pc'[c] = "returned" /\ ~Holding(c) /\ (status'[c] # 0 => lastError'[c] = Call(c))
  BY <1>1 DEF Typed, Holding
<1>9. Reported'
  BY <1>6, <1>7, <1>8 DEF Reported
<1>10. \A d \in Connections \ {c} : Holding(d)' <=> Holding(d)
  BY <1>6 DEF Holding
<1>11. Holding(c)' <=> status'[c] = 0
  BY <1>8 DEF Holding
<1>12. Owned'
  <2>1. CASE status'[c] = 0
    <3>1. {d \in Connections : Holding(d)'} = {d \in Connections : Holding(d)} \cup {c}
      BY <1>8, <1>10, <1>11, <2>1
    <3> QED
      BY <1>1, <1>7, <2>1, <3>1 DEF Owned
  <2>2. CASE status'[c] # 0
    <3>1. {d \in Connections : Holding(d)'} = {d \in Connections : Holding(d)}
      BY <1>8, <1>10, <1>11, <2>2
    <3> QED
      BY <1>1, <1>7, <2>2, <3>1 DEF Owned
  <2> QED
    BY <2>1, <2>2
<1> QED
  BY <1>1, <1>3, <1>5, <1>9, <1>12 DEF MessageOwn, NoMessage

\* An error is reported in the words found in the thread's storage.
LEMMA ReportingKeeps ==
    ASSUME IInv, NEW c \in Connections, Report(c)
    PROVE  IInv'
<1> USE DEF IInv
<1> DEFINE code == IF status[c] = 2 THEN 400 ELSE 500
<1>1. /\ UNCHANGED <<client, wire, serving, body, lastError, buffers>>
      /\ pc[c] = "returned" /\ status[c] # 0
      /\ status' = [status EXCEPT ![c] = 0]
      /\ Reply(c, serving[c], code, lastError[c], "answering")
  BY DEF Report, ErrorOf
<1>2. lastError[c] = [connection |-> c, number |-> serving[c]]
  BY <1>1 DEF Reported, Call
<1>3. serving[c] \in Nat /\ serving[c] # 0
  <2>1. serving[c] \in Nat /\ CountedOf(c)
    BY DEF Typed, Counted
  <2>2. serving[c] >= 1
    BY <1>1, <2>1 DEF CountedOf, Sending
  <2> QED
    BY <2>1, <2>2
<1>4. lastError[c] # NoMessage /\ lastError[c] \in Messages /\ code \in Nat
  BY <1>2, <1>3 DEF NoMessage, Typed
<1>5. /\ replies' \in [Connections -> Seq(Answers)]
      /\ pc' \in [Connections -> PCs]
      /\ pc'[c] = "answering"
      /\ \A d \in Connections \ {c} : pc'[d] = pc[d]
      /\ MessageOwn'
  BY <1>1, <1>2, <1>3, <1>4, ReplyKeeps DEF PCs, Sending
<1>6. Typed'
  <2>1. status' \in [Connections -> 0 .. 4]
    BY <1>1 DEF Typed
  <2> QED
    BY <1>1, <1>5, <2>1 DEF Typed, client
<1>7. CountedOf(c)'
  BY <1>1, <1>5 DEF Counted, CountedOf, Sending, client
<1>8. Counted'
  BY <1>1, <1>5, <1>7, OthersCounted DEF client
<1>9. ~Holding(c) /\ ~Holding(c)' /\ pc'[c] # "returned"
  BY <1>1, <1>5 DEF Holding
<1>10. Owned' /\ Reported'
  BY <1>1, <1>5, <1>9, OthersKeep DEF Typed
<1> QED
  BY <1>5, <1>6, <1>8, <1>10

\* The buffer is copied, or cannot be.
LEMMA CopyingKeeps ==
    ASSUME IInv, NEW c \in Connections, Copy(c)
    PROVE  IInv'
<1> USE DEF IInv
<1>1. /\ UNCHANGED <<client, wire, replies, local, lastError, buffers>>
      /\ pc[c] = "returned" /\ status[c] = 0
      /\ pc' = [pc EXCEPT ![c] = "copied"] \/ pc' = [pc EXCEPT ![c] = "raised"]
  BY DEF Copy, Go
<1>2. Typed'
  BY <1>1 DEF Typed, PCs, client, local
<1>3. CountedOf(c)'
  BY <1>1 DEF Counted, CountedOf, Sending, Typed, client, local
<1>4. Counted'
  BY <1>1, <1>3, OthersCounted DEF Typed, client, local
<1>5. \A d \in Connections : (Holding(d)' <=> Holding(d)) /\ Call(d)' = Call(d)
  BY <1>1 DEF Holding, Call, Typed, local
<1>6. {d \in Connections : Holding(d)'} = {d \in Connections : Holding(d)}
  BY <1>5
<1>7. Owned'
  BY <1>1, <1>5, <1>6 DEF Owned
<1>8. Reported'
  BY <1>1 DEF Reported, Call, Typed, local
<1> QED
  BY <1>1, <1>2, <1>4, <1>7, <1>8 DEF MessageOwn, NoMessage

\* A thread that gives up its buffer leaves those of the others.
LEMMA Released ==
    ASSUME Owned, Reported, NEW c \in Connections, Holding(c),
           buffers' = buffers \ {Call(c)}, ~Holding(c)', pc'[c] # "returned",
           UNCHANGED <<serving, status, lastError>>,
           \A d \in Connections \ {c} : pc'[d] = pc[d]
    PROVE  Owned' /\ Reported'
<1>1. {d \in Connections : Holding(d)'} = {d \in Connections : Holding(d)} \ {c}
  BY DEF Holding
<1>2. \A d \in Connections : Call(d)' = Call(d) /\ (d # c => Call(d) # Call(c))
  BY DEF Call
<1>3. Owned'
  BY <1>1, <1>2 DEF Owned
<1>4. Reported'
  BY DEF Reported, Call
<1> QED
  BY <1>3, <1>4

\* The buffer of a call is freed, and only that one.
LEMMA ReleasingKeeps ==
    ASSUME IInv, NEW c \in Connections, Release(c) \/ ReleaseRaised(c)
    PROVE  IInv'
<1> USE DEF IInv
<1>1. /\ UNCHANGED <<client, wire, local, lastError>>
      /\ buffers' = buffers \ {Call(c)}
      /\ pc[c] \in {"copied", "raised"}
  BY DEF Release, ReleaseRaised
<1>2. serving[c] \in Nat
  BY DEF Typed
<1>3. /\ replies' \in [Connections -> Seq(Answers)]
      /\ pc' \in [Connections -> PCs]
      /\ pc'[c] \in {"answering", "closed"}
      /\ \A d \in Connections \ {c} : pc'[d] = pc[d]
      /\ MessageOwn'
  <2>1. CASE Release(c)
    BY <1>2, <2>1, ReplyKeeps DEF Release, Answer, PCs, Sending, Messages
  <2>2. CASE ReleaseRaised(c)
    BY <2>2 DEF ReleaseRaised, Go, Typed, PCs, MessageOwn, NoMessage
  <2> QED
    BY <2>1, <2>2
<1>4. Typed'
  BY <1>1, <1>3 DEF Typed, client, local
<1>5. CountedOf(c)'
  BY <1>1, <1>3 DEF Counted, CountedOf, Sending, client, local
<1>6. Counted'
  BY <1>1, <1>3, <1>5, OthersCounted DEF client, local
<1>7. Holding(c) /\ ~Holding(c)' /\ pc'[c] # "returned"
  BY <1>1, <1>3 DEF Holding
<1>8. Owned' /\ Reported'
  BY <1>1, <1>3, <1>7, Released DEF local
<1> QED
  BY <1>3, <1>4, <1>6, <1>8

\* Every step of a thread.
LEMMA ThreadKeeps ==
    ASSUME IInv, NEW c \in Connections, Thread(c)
    PROVE  IInv'
<1>1. serving[c] \in Nat
  BY DEF IInv, Typed
<1>2. CASE ReadHead(c) \/ ReadBody(c) \/ ReadShort(c)
  BY <1>2, ReadingKeeps
<1>3. CASE ReadLeftover(c)
  BY <1>3, LeftoverKeeps
<1>4. CASE EndOfRequests(c) \/ LengthRaises(c) \/ CallRaises(c)
  BY <1>4, EndingKeeps DEF EndOfRequests, LengthRaises, Posted, CallRaises, Holding
<1>5. CASE Get(c) \/ NotFound(c) \/ RefuseLength(c) \/ RefuseQuery(c)
  <2>1. /\ wire' = wire /\ UNCHANGED <<client, local, lastError, buffers>>
        /\ pc[c] \in {"read", "handle"}
        /\ \E code \in {200, 400, 404, 413} : Reply(c, serving[c], code, NoMessage, "answering")
    BY <1>5 DEF Get, NotFound, RefuseLength, Posted, RefuseQuery, Answer
  <2>2. /\ wire' \in [Connections -> Seq(Pieces)]
        /\ \A n \in 1 .. Len(wire'[c]) : wire'[c][n].of \in 1 .. Len(requests[c])
    BY <2>1 DEF IInv, Typed, Counted, CountedOf
  <2> QED
    BY <1>1, <2>1, <2>2, AnsweringKeeps DEF Holding, Sending
<1>6. CASE EnterCall(c)
  BY <1>6, EnteringKeeps
<1>7. CASE CallSucceeds(c) \/ CallFails(c)
  BY <1>7, ReturningKeeps
<1>8. CASE Report(c)
  BY <1>8, ReportingKeeps
<1>9. CASE Copy(c)
  BY <1>9, CopyingKeeps
<1>10. CASE Release(c) \/ ReleaseRaised(c)
  BY <1>10, ReleasingKeeps
<1>11. CASE Transmit(c)
  <2>1. /\ pc[c] \in Sending /\ UNCHANGED <<client, wire, replies, local, lastError, buffers>>
        /\ Go(c, "idle") \/ Go(c, "closed")
    BY <1>11 DEF Transmit
  <2> QED
    BY <2>1, EndingKeeps DEF Sending, Holding
<1> QED
  BY <1>2, <1>3, <1>4, <1>5, <1>6, <1>7, <1>8, <1>9, <1>10, <1>11 DEF Thread

\* Every step, and every step that changes nothing.
LEMMA NextIInv == IInv /\ [Next]_vars => IInv'
<1> SUFFICES ASSUME IInv, [Next]_vars PROVE IInv'
  OBVIOUS
<1>1. CASE \E c \in Connections : \E request \in Requests[c] : SendHead(c, request)
  <2>1. PICK c \in Connections : \E request \in Requests[c] : SendHead(c, request)
    BY <1>1
  <2>2. Requests[c] \subseteq Kinds
    BY ServiceAssumption
  <2> QED
    BY <2>1, <2>2, ClientKeeps
<1>2. CASE \E c \in Connections : SendBody(c) \/ HangUp(c) \/ PauseOrResume(c)
  BY <1>2, ClientKeeps
<1>3. CASE \E c \in Connections : Thread(c)
  BY <1>3, ThreadKeeps
<1>4. CASE UNCHANGED vars
  <2>1. UNCHANGED <<client, wire, replies, pc, local, lastError, buffers>>
    BY <1>4 DEF vars
  <2>2. Typed' /\ Counted'
    BY <2>1 DEF IInv, Typed, Counted, CountedOf, client, local
  <2>3. Owned' /\ Reported' /\ MessageOwn'
    BY <2>1 DEF IInv, Owned, Holding, Call, Reported, MessageOwn, NoMessage, local
  <2> QED
    BY <2>2, <2>3 DEF IInv
<1> QED
  BY <1>1, <1>2, <1>3, <1>4 DEF Next, Quiet

------------------------------------------------------------------------------
\* Theorems

(***************************************************************************)
(* The inductive invariant of the service holds in every reachable state.  *)
(***************************************************************************)
THEOREM Invariance == Spec => []IInv
<1> QED
  BY InitIInv, NextIInv, PTL DEF Spec

(***************************************************************************)
(* However many requests are served at once and fail, each is told of its  *)
(* own failure (capi.cpp:13-19, cmpr.py:79-80).                            *)
(***************************************************************************)
THEOREM MessagesAreOwn == Spec => []MessageOwn
<1>1. IInv => MessageOwn
  BY DEF IInv
<1> QED
  BY <1>1, Invariance, PTL

(***************************************************************************)
(* Every buffer has exactly one thread that is to free it and has not      *)
(* (capi.h:15-16, cmpr.py:75-86).                                          *)
(***************************************************************************)
THEOREM BuffersAreOwned == Spec => []BuffersOwned
<1>1. IInv => BuffersOwned
  <2> SUFFICES ASSUME IInv PROVE BuffersOwned
    OBVIOUS
  <2>1. TypeOK
    BY DEF IInv, Typed, Counted, CountedOf, TypeOK
  <2>2. {d \in Connections : Holding(d)} =
            {d \in Connections : \/ pc[d] = "returned" /\ status[d] = 0
                                 \/ pc[d] \in {"copied", "raised"}}
    BY DEF Holding
  <2> QED
    BY <2>1, <2>2 DEF IInv, Owned, BuffersOwned
<1> QED
  BY <1>1, Invariance, PTL

------------------------------------------------------------------------------
\* Connections in step.

Sent(c)     == Len(requests[c])
Answered(c) == Len(replies[c])

\* What has arrived behind the first k pieces: at most the one body sent last.
BodyBehind(c, k) ==
    /\ Len(wire[c]) \in {k, k + 1}
    /\ Len(wire[c]) = k + 1 =>
          \/ wire[c][k + 1].part = "body" /\ ~owed[c]
          \/ wire[c][k + 1].part = "short" /\ hungUp[c]
    /\ requests[c][Sent(c)].length = "none" => Len(wire[c]) = k /\ ~owed[c]

\* Nothing more of the requests sent is on the connection or will come.
Settled(c) == Len(wire[c]) = 0 /\ (owed[c] => hungUp[c])

\* The request sent last was answered without its body.
LeftBehind(c) == Sent(c) >= 1 /\ LeavesBody(requests[c][Sent(c)]) /\ BodyBehind(c, 0)

InHand(c) ==
    /\ pc[c] \in {"handle", "inside", "returned", "copied", "raised"}
    /\ Request(c).route \in {"compress", "decompress"} /\ Request(c).length = "fits"
    /\ pc[c] # "handle" => Request(c).query = "good"
    /\ pc[c] = "returned" /\ status[c] # 0 => status[c] \in Statuses(Request(c).route)

\* Whose turn it is on a connection that is in step.
Turn(c) ==
    \/ /\ pc[c] \in Sending \cup {"idle"} /\ Answered(c) = Sent(c)
       /\ Settled(c) \/ LeftBehind(c)
    \/ /\ Sent(c) >= 1 /\ Answered(c) = Sent(c) - 1
       /\ \/ /\ pc[c] = "idle" /\ Len(wire[c]) >= 1
             /\ wire[c][1].part = "head" /\ wire[c][1].of = Sent(c) /\ BodyBehind(c, 1)
          \/ pc[c] = "read" /\ serving[c] = Sent(c) /\ BodyBehind(c, 0)
          \/ serving[c] = Sent(c) /\ Settled(c) /\ InHand(c)

Own(c, n) ==
    /\ replies[c][n].to = n
    /\ replies[c][n].code \in Codes(requests[c][n])
    /\ replies[c][n].body = "short" => hungUp[c]

InStep(c) ==
    /\ Answered(c) >= Sent(c) - 1
    /\ Answered(c) > Sent(c) => ~Intact(c, Sent(c) + 1)
    /\ body[c] = "short" => hungUp[c]
    /\ Intact(c, Sent(c)) /\ Answered(c) <= Sent(c) /\ pc[c] # "closed" => Turn(c)
    /\ \A n \in 1 .. Answered(c) : Intact(c, n) => Own(c, n)

AInv == IInv /\ \A c \in Connections : InStep(c)

------------------------------------------------------------------------------

\* A connection starts in step.
LEMMA InitAInv == Init => AInv
<1> SUFFICES ASSUME Init PROVE AInv
  OBVIOUS
<1>1. ASSUME NEW c \in Connections PROVE InStep(c)
  <2>1. /\ Sent(c) = 0 /\ Answered(c) = 0 /\ Len(wire[c]) = 0
        /\ ~owed[c] /\ pc[c] = "idle" /\ body[c] = "none"
    BY DEF Init, Sent, Answered
  <2> QED
    BY <2>1 DEF InStep, Turn, Settled
<1> QED
  BY <1>1, InitIInv DEF AInv

\* What IInv says of one connection.
LEMMA Shapes ==
    ASSUME IInv, NEW c \in Connections
    PROVE  /\ requests[c] \in Seq(Kinds) /\ Sent(c) \in Nat
           /\ wire[c] \in Seq(Pieces) /\ Len(wire[c]) \in Nat
           /\ replies[c] \in Seq(Answers) /\ Answered(c) \in Nat
           /\ CountedOf(c)
           /\ pc[c] \in PCs
BY DEF IInv, Typed, Counted, Sent, Answered

\* What makes an answer the request's own after a step.
LEMMA OwnAfter ==
    ASSUME NEW c \in Connections, NEW n \in Nat,
           replies'[c][n].to = n, replies'[c][n].code \in Codes(requests'[c][n]),
           replies'[c][n].body = "short" => hungUp'[c]
    PROVE  Own(c, n)'
<1>1. Codes(requests[c][n])' = Codes(requests'[c][n])
  BY DEF Codes
<1> QED
  BY <1>1 DEF Own

\* An answer stays the request's own when neither changes.
LEMMA OwnStays ==
    ASSUME NEW c \in Connections, NEW n \in Nat, Own(c, n),
           replies'[c][n] = replies[c][n], requests'[c][n] = requests[c][n],
           hungUp[c] => hungUp'[c]
    PROVE  Own(c, n)'
<1>1. /\ replies'[c][n].to = n /\ replies'[c][n].code \in Codes(requests'[c][n])
      /\ replies'[c][n].body = "short" => hungUp'[c]
  BY DEF Own
<1> QED
  BY <1>1, OwnAfter

\* A step that is not one of connection d.
Untouched(d) ==
    /\ requests'[d] = requests[d] /\ owed'[d] = owed[d] /\ hungUp'[d] = hungUp[d]
    /\ wire'[d] = wire[d] /\ replies'[d] = replies[d] /\ pc'[d] = pc[d]
    /\ serving'[d] = serving[d] /\ body'[d] = body[d] /\ status'[d] = status[d]

\* A step of one connection leaves the others in step.
LEMMA OthersInStep ==
    ASSUME NEW d \in Connections, InStep(d), Untouched(d)
    PROVE  InStep(d)'
<1> USE DEF Untouched
<1>1. /\ Sent(d)' = Sent(d) /\ Answered(d)' = Answered(d)
      /\ \A n \in Int : Intact(d, n)' <=> Intact(d, n)
  BY DEF Sent, Answered, Intact, LeavesBody
<1>2. Intact(d, Sent(d))' <=> Intact(d, Sent(d))
  BY DEF Sent, Intact, LeavesBody
<1>3. Intact(d, Sent(d) + 1)' <=> Intact(d, Sent(d) + 1)
  BY DEF Sent, Intact, LeavesBody
<1>4. Turn(d) => Turn(d)'
  BY <1>1 DEF Turn, Sending, Settled, LeftBehind, BodyBehind, InHand, Request, Statuses, LeavesBody
<1>5. \A n \in 1 .. Answered(d) : (Intact(d, n) => Own(d, n)) => (Intact(d, n)' => Own(d, n)')
  <2>1. ASSUME NEW n \in 1 .. Answered(d), Intact(d, n) => Own(d, n), Intact(d, n)'
        PROVE  Own(d, n)'
    <3>1. n \in Nat /\ (Intact(d, n)' <=> Intact(d, n))
      BY <1>1
    <3> QED
      BY <2>1, <3>1, OwnStays
  <2> QED
    BY <2>1
<1> QED
  BY <1>1, <1>2, <1>3, <1>4, <1>5 DEF InStep

\* A request is sent only when the connection is idle and settled, or out of step.
LEMMA SendHeadInStep ==
    ASSUME IInv, NEW c \in Connections, InStep(c), NEW request \in Kinds, SendHead(c, request)
    PROVE  InStep(c)'
<1>1. /\ requests'[c] = Append(requests[c], request)
      /\ owed'[c] <=> request.length # "none"
      /\ wire'[c] = Append(wire[c], [part |-> "head", of |-> Sent(c) + 1])
      /\ hungUp' = hungUp /\ replies' = replies /\ pc' = pc
      /\ serving' = serving /\ body' = body /\ status' = status
      /\ pc[c] # "closed" /\ ~hungUp[c] /\ ~owed[c]
      /\ Received(c) >= Sent(c)
  BY DEF SendHead, Arrives, Speaks, IInv, Typed, Sent, local
<1>2. /\ Sent(c)' = Sent(c) + 1 /\ Answered(c)' = Answered(c)
      /\ \A k \in 1 .. Sent(c) : requests'[c][k] = requests[c][k]
      /\ requests'[c][Sent(c) + 1] = request
  BY <1>1, Shapes DEF Sent, Answered
<1>3. /\ Sent(c) \in Nat /\ Answered(c) \in Nat
      /\ Answered(c) >= Sent(c)
      /\ pc[c] \in Sending => Answered(c) > Sent(c)
  <2>1. Sent(c) \in Nat /\ Answered(c) \in Nat
    BY Shapes
  <2>2. Received(c) = IF pc[c] \in Sending THEN Answered(c) - 1 ELSE Answered(c)
    BY <2>1 DEF Received, Answered
  <2> QED
    BY <1>1, <2>1, <2>2
<1>4. \A k \in 1 .. Sent(c) : LeavesBody(requests[c][k])' <=> LeavesBody(requests[c][k])
  BY <1>2 DEF LeavesBody
<1>5. ASSUME NEW n \in Nat PROVE Intact(c, n)' => \A k \in 1 .. Sent(c) : k <= n - 1 => ~LeavesBody(requests[c][k])
  BY <1>2, <1>3, <1>4 DEF Intact
<1>6. Intact(c, Sent(c))' => Intact(c, Sent(c) + 1)
  BY <1>2, <1>3, <1>4 DEF Intact
<1>7. Intact(c, Sent(c) + 1)' => Intact(c, Sent(c))'
  BY <1>2, <1>3, <1>4 DEF Intact
<1>8. \A n \in 1 .. Sent(c) : Intact(c, n)' => Intact(c, n)
  BY <1>5, <1>3 DEF Intact
<1>9. \A n \in Nat : n > Sent(c) /\ Intact(c, n)' => Intact(c, Sent(c) + 1)
  BY <1>5, <1>3 DEF Intact
<1>10. /\ Answered(c)' >= Sent(c)' - 1
       /\ Answered(c)' > Sent(c)' => ~Intact(c, Sent(c) + 1)'
  BY <1>1, <1>2, <1>3, <1>6, <1>7 DEF InStep
<1>11. ASSUME NEW n \in 1 .. Answered(c), Intact(c, n)' PROVE Own(c, n)'
  <2>1. CASE n <= Sent(c)
    <3>1. Own(c, n)
      BY <1>3, <1>8, <1>11, <2>1 DEF InStep
    <3>2. requests'[c][n] = requests[c][n]
      BY <1>2, <1>3, <2>1
    <3>3. n \in Nat /\ replies'[c][n] = replies[c][n] /\ (hungUp[c] => hungUp'[c])
      BY <1>1
    <3> QED
      BY <3>1, <3>2, <3>3, OwnStays
  <2>2. CASE n > Sent(c)
    BY <1>3, <1>9, <1>11, <2>2 DEF InStep
  <2> QED
    BY <1>3, <2>1, <2>2
<1>12. ASSUME Intact(c, Sent(c))' PROVE Turn(c)'
  <2>1. Intact(c, Sent(c) + 1)
    BY <1>6, <1>12
  <2>2. Intact(c, Sent(c)) /\ (Sent(c) >= 1 => ~LeavesBody(requests[c][Sent(c)]))
    BY <1>3, <2>1 DEF Intact
  <2>3. pc[c] = "idle" /\ Answered(c) = Sent(c) /\ Settled(c)
    BY <1>1, <1>3, <2>1, <2>2 DEF InStep, Turn, LeftBehind
  <2>4. Len(wire'[c]) = 1 /\ wire'[c][1] = [part |-> "head", of |-> Sent(c) + 1]
    BY <1>1, <2>3, Shapes DEF Settled
  <2>5. BodyBehind(c, 1)'
    BY <1>1, <1>2, <2>4 DEF BodyBehind
  <2>6. /\ Sent(c)' >= 1 /\ Answered(c)' = Sent(c)' - 1 /\ pc'[c] = "idle"
        /\ Len(wire'[c]) >= 1 /\ wire'[c][1].part = "head" /\ wire'[c][1].of = Sent(c)'
    BY <1>1, <1>2, <1>3, <2>3, <2>4
  <2> QED
    BY <2>5, <2>6 DEF Turn
<1>13. body'[c] = "short" => hungUp'[c]
  BY <1>1 DEF InStep
<1> QED
  BY <1>2, <1>10, <1>11, <1>12, <1>13 DEF InStep

\* A step that neither sends nor answers keeps a connection in step if it
\* keeps its turn.
LEMMA SilentInStep ==
    ASSUME NEW c \in Connections, InStep(c),
           requests'[c] = requests[c], replies'[c] = replies[c], hungUp[c] => hungUp'[c],
           body'[c] = "short" => hungUp'[c],
           Intact(c, Sent(c)) /\ Answered(c) <= Sent(c) /\ pc'[c] # "closed" => Turn(c)'
    PROVE  InStep(c)'
<1>1. Sent(c)' = Sent(c) /\ Answered(c)' = Answered(c)
  BY DEF Sent, Answered
<1>2. Intact(c, Sent(c))' <=> Intact(c, Sent(c))
  BY DEF Sent, Intact, LeavesBody
<1>3. Intact(c, Sent(c) + 1)' <=> Intact(c, Sent(c) + 1)
  BY DEF Sent, Intact, LeavesBody
<1>4. ASSUME NEW n \in 1 .. Answered(c), Intact(c, n)' PROVE Own(c, n)'
  <2>1. Own(c, n)
    BY <1>4 DEF InStep, Intact, LeavesBody
  <2> QED
    BY <2>1, OwnStays
<1> QED
  BY <1>1, <1>2, <1>3, <1>4 DEF InStep

\* What may still be behind the first k pieces may arrive, or never.
LEMMA BodyArrives ==
    ASSUME IInv, NEW c \in Connections, SendBody(c) \/ HangUp(c), NEW k \in 0 .. 1, BodyBehind(c, k)
    PROVE  /\ BodyBehind(c, k)'
           /\ k = 1 => Len(wire'[c]) >= 1 /\ wire'[c][1] = wire[c][1]
<1>1. wire[c] \in Seq(Pieces) /\ requests' = requests /\ ~hungUp[c]
  BY DEF SendBody, HangUp, Speaks, IInv, Typed
<1>2. owed[c] => Len(wire[c]) = k /\ requests[c][Sent(c)].length # "none"
  BY <1>1 DEF BodyBehind
<1>3. Sent(c)' = Sent(c)
  BY <1>1 DEF Sent
<1>4. ASSUME NEW part \in {"body", "short"}, owed[c], wire' = [wire EXCEPT ![c] = Append(@, [part |-> part, of |-> Len(requests[c])])]
      PROVE  /\ Len(wire'[c]) = k + 1 /\ wire'[c][k + 1].part = part
             /\ k = 1 => wire'[c][1] = wire[c][1]
  <2>1. wire'[c] = Append(wire[c], [part |-> part, of |-> Len(requests[c])])
    BY <1>4 DEF IInv, Typed
  <2> QED
    BY <1>1, <1>2, <1>4, <2>1
<1>5. CASE SendBody(c)
  <2>1. owed[c] /\ ~owed'[c] /\ wire' = [wire EXCEPT ![c] = Append(@, [part |-> "body", of |-> Len(requests[c])])]
    BY <1>5 DEF SendBody, Arrives, IInv, Typed
  <2> QED
    BY <1>1, <1>2, <1>3, <1>4, <2>1 DEF BodyBehind
<1>6. CASE HangUp(c) /\ UNCHANGED wire
  <2>1. owed' = owed /\ wire' = wire
    BY <1>6 DEF HangUp
  <2> QED
    BY <1>1, <1>3, <2>1 DEF BodyBehind
<1>7. CASE HangUp(c) /\ owed[c] /\ Arrives(c, "short", Len(requests[c]))
  <2>1. hungUp'[c] /\ owed' = owed
    BY <1>7 DEF HangUp, IInv, Typed
  <2>2. wire' = [wire EXCEPT ![c] = Append(@, [part |-> "short", of |-> Len(requests[c])])]
    BY <1>7 DEF Arrives
  <2> QED
    BY <1>1, <1>2, <1>3, <1>4, <1>7, <2>1, <2>2 DEF BodyBehind
<1> QED
  BY <1>5, <1>6, <1>7 DEF HangUp

\* The rest of a request comes, or its client hangs up, or reads no more.
LEMMA RestInStep ==
    ASSUME IInv, NEW c \in Connections, InStep(c), SendBody(c) \/ HangUp(c) \/ PauseOrResume(c)
    PROVE  InStep(c)'
<1>1. /\ requests' = requests /\ replies' = replies /\ pc' = pc
      /\ serving' = serving /\ body' = body /\ status' = status
      /\ hungUp[c] => hungUp'[c]
      /\ ~hungUp[c] /\ pc[c] # "closed"
      /\ owed'[c] => owed[c]
  BY DEF SendBody, HangUp, PauseOrResume, Speaks, IInv, Typed, local
<1>2. Sent(c)' = Sent(c) /\ Answered(c)' = Answered(c) /\ Request(c)' = Request(c)
  BY <1>1 DEF Sent, Answered, Request
<1>3. CASE PauseOrResume(c)
  <2>1. wire' = wire /\ owed' = owed /\ hungUp' = hungUp
    BY <1>3 DEF PauseOrResume
  <2>2. Turn(c) => Turn(c)'
    BY <1>1, <1>2, <2>1 DEF Turn, Settled, LeftBehind, BodyBehind, InHand, Statuses, LeavesBody, Sending
  <2> QED
    BY <1>1, <2>2, SilentInStep DEF InStep
<1>4. CASE SendBody(c) \/ HangUp(c)
  <2>1. Settled(c) => Settled(c)'
    BY <1>1, <1>4 DEF Settled, SendBody, HangUp
  <2>2. LeftBehind(c) => LeftBehind(c)'
    BY <1>1, <1>2, <1>4, BodyArrives DEF LeftBehind, LeavesBody
  <2>3. InHand(c) => InHand(c)'
    BY <1>1, <1>2 DEF InHand, Statuses
  <2>4. Turn(c) => Turn(c)'
    BY <1>1, <1>2, <2>1, <2>2, <2>3, <1>4, BodyArrives DEF Turn, Sending
  <2> QED
    BY <1>1, <2>4, SilentInStep DEF InStep
<1> QED
  BY <1>3, <1>4

\* The head that is read is that of the request sent last.
LEMMA ReadHeadInStep ==
    ASSUME IInv, NEW c \in Connections, InStep(c), ReadHead(c)
    PROVE  InStep(c)'
<1>1. /\ requests' = requests /\ owed' = owed /\ hungUp' = hungUp /\ replies' = replies
      /\ serving'[c] = Head(wire[c]).of /\ wire'[c] = Tail(wire[c])
      /\ body'[c] = "none" /\ pc'[c] = "read"
      /\ pc[c] = "idle" /\ wire[c] # << >> /\ Head(wire[c]).part = "head"
  BY DEF ReadHead, Arrived, Go, client, IInv, Typed
<1>2. /\ wire[c] \in Seq(Pieces) /\ Len(wire[c]) >= 1 /\ Head(wire[c]) = wire[c][1]
      /\ Len(wire'[c]) = Len(wire[c]) - 1
      /\ Len(wire[c]) = 2 => wire'[c][1] = wire[c][2]
  BY <1>1, Shapes
<1>3. Sent(c)' = Sent(c) /\ Answered(c)' = Answered(c)
  BY <1>1 DEF Sent, Answered
<1>4. ASSUME Turn(c) PROVE Turn(c)'
  <2>1. ~Settled(c) /\ ~LeftBehind(c)
    BY <1>1, <1>2 DEF Settled, LeftBehind, BodyBehind
  <2>2. /\ Sent(c) >= 1 /\ Answered(c) = Sent(c) - 1
        /\ wire[c][1].of = Sent(c) /\ BodyBehind(c, 1)
    BY <1>1, <1>4, <2>1 DEF Turn, InHand
  <2>3. BodyBehind(c, 0)'
    BY <1>1, <1>2, <1>3, <2>2 DEF BodyBehind
  <2> QED
    BY <1>1, <1>2, <1>3, <2>2, <2>3 DEF Turn
<1> QED
  BY <1>1, <1>4, SilentInStep DEF InStep

\* Once the body is read, nothing of the request is left on the connection.
LEMMA ReadBodyInStep ==
    ASSUME IInv, NEW c \in Connections, InStep(c), ReadBody(c) \/ ReadShort(c)
    PROVE  InStep(c)'
<1>1. /\ requests' = requests /\ owed' = owed /\ hungUp' = hungUp /\ replies' = replies
      /\ serving' = serving /\ pc[c] = "read"
      /\ Request(c).route \in {"compress", "decompress"} /\ Request(c).length = "fits"
  BY DEF ReadBody, ReadShort, Awaited, Posted, Took, client, local
<1>2. \/ pc'[c] = "closed" /\ body' = body
      \/ /\ pc'[c] = "handle"
         /\ body'[c] = "short" => hungUp[c]
         /\ wire'[c] = IF wire[c] = << >> THEN << >> ELSE Tail(wire[c])
         /\ wire[c] = << >> => hungUp[c]
  BY DEF ReadBody, ReadShort, Took, Arrived, Go, local, IInv, Typed
<1>3. CASE pc'[c] = "closed" /\ body' = body
  BY <1>1, <1>3, SilentInStep DEF InStep
<1>4. CASE /\ pc'[c] = "handle"
           /\ body'[c] = "short" => hungUp[c]
           /\ wire'[c] = IF wire[c] = << >> THEN << >> ELSE Tail(wire[c])
           /\ wire[c] = << >> => hungUp[c]
  <2>1. ASSUME Turn(c) PROVE Turn(c)'
    <3>1. Sent(c) >= 1 /\ Answered(c) = Sent(c) - 1 /\ serving[c] = Sent(c) /\ BodyBehind(c, 0)
      BY <1>1, <2>1 DEF Turn, InHand, Sending
    <3>2. wire[c] \in Seq(Pieces)
      BY Shapes
    <3>3. Settled(c)'
      BY <1>1, <1>4, <3>1, <3>2 DEF Settled, BodyBehind
    <3>4. Sent(c)' = Sent(c) /\ Answered(c)' = Answered(c) /\ Request(c)' = Request(c)
      BY <1>1 DEF Sent, Answered, Request
    <3>5. InHand(c)'
      BY <1>1, <1>4, <3>4 DEF InHand
    <3> QED
      BY <1>1, <3>1, <3>3, <3>4, <3>5 DEF Turn
  <2> QED
    BY <1>1, <1>4, <2>1, SilentInStep DEF InStep
<1> QED
  BY <1>2, <1>3, <1>4

\* An answer, to the request sent last or to the body it left behind.
LEMMA ReplyInStep ==
    ASSUME IInv, NEW c \in Connections, InStep(c),
           NEW number, NEW code, NEW message, NEW next \in Sending,
           Reply(c, number, code, message, next),
           requests' = requests, owed' = owed, hungUp' = hungUp, body' = body,
           Intact(c, Sent(c)) /\ Answered(c) <= Sent(c) =>
              \/ /\ Sent(c) >= 1 /\ Answered(c) = Sent(c) - 1
                 /\ number = Sent(c) /\ code \in Codes(requests[c][Sent(c)])
                 /\ wire' = wire /\ (Settled(c) \/ LeftBehind(c))
              \/ Answered(c) = Sent(c) /\ LeftBehind(c)
    PROVE  InStep(c)'
<1> DEFINE reply == [to |-> number, code |-> code, message |-> message, body |-> body[c]]
<1>1. /\ pc'[c] = next /\ replies'[c] = Append(replies[c], reply)
  BY DEF Reply, Go, IInv, Typed
<1>2. /\ Sent(c) \in Nat /\ Answered(c) \in Nat /\ replies[c] \in Seq(Answers)
  BY Shapes
<1>3. /\ Answered(c)' = Answered(c) + 1
      /\ replies'[c][Answered(c) + 1] = reply
      /\ \A n \in 1 .. Answered(c) : replies'[c][n] = replies[c][n]
  BY <1>1, <1>2 DEF Answered
<1>4. /\ Sent(c)' = Sent(c)
      /\ wire' = wire => (Settled(c)' <=> Settled(c)) /\ (LeftBehind(c)' <=> LeftBehind(c))
  BY DEF Sent, Settled, LeftBehind, BodyBehind, LeavesBody
<1>5. \A n \in Int : Intact(c, n)' <=> Intact(c, n)
  BY DEF Intact, LeavesBody
<1>6. Intact(c, Sent(c))' <=> Intact(c, Sent(c))
  BY DEF Sent, Intact, LeavesBody
<1>7. Intact(c, Sent(c) + 1)' <=> Intact(c, Sent(c) + 1)
  BY DEF Sent, Intact, LeavesBody
<1>8. Intact(c, Sent(c) + 1) => Intact(c, Sent(c)) /\ ~LeftBehind(c)
  BY <1>2 DEF Intact, LeftBehind
<1>9. Answered(c)' > Sent(c)' => ~Intact(c, Sent(c) + 1)'
  BY <1>2, <1>3, <1>4, <1>7, <1>8 DEF InStep
<1>10. ASSUME Intact(c, Sent(c)), Answered(c)' <= Sent(c)' PROVE Turn(c)'
  <2>1. /\ Answered(c) = Sent(c) - 1 /\ Sent(c) >= 1
        /\ wire' = wire /\ (Settled(c) \/ LeftBehind(c))
    BY <1>2, <1>3, <1>4, <1>10
  <2> QED
    BY <1>1, <1>2, <1>3, <1>4, <2>1 DEF Turn, Sending
<1>11. ASSUME NEW n \in 1 .. Answered(c), Intact(c, n) PROVE Own(c, n)'
  BY <1>3, <1>11, OwnStays DEF InStep
<1>12. ASSUME NEW n \in Nat, n = Answered(c) + 1, Intact(c, n) PROVE Own(c, n)'
  <2>1. /\ Intact(c, Sent(c)) /\ (Answered(c) = Sent(c) => Intact(c, Sent(c) + 1))
        /\ Answered(c) <= Sent(c)
    BY <1>2, <1>12 DEF InStep, Intact
  <2>2. /\ n = Sent(c) /\ number = n /\ code \in Codes(requests[c][n])
    BY <1>2, <1>8, <1>12, <2>1
  <2>3. replies'[c][n] = reply
    BY <1>3, <1>12
  <2> QED
    BY <1>12, <2>2, <2>3, OwnAfter DEF InStep
<1>13. \A n \in 1 .. Answered(c) + 1 : Intact(c, n)' => Own(c, n)'
  <2>1. \A n \in 1 .. Answered(c) + 1 : n \in 1 .. Answered(c) \/ (n \in Nat /\ n = Answered(c) + 1)
    BY <1>2
  <2> QED
    BY <1>5, <1>11, <1>12, <2>1
<1>14. Answered(c)' >= Sent(c)' - 1
  BY <1>2, <1>3, <1>4 DEF InStep
<1> QED
  BY <1>1, <1>3, <1>6, <1>9, <1>10, <1>13, <1>14 DEF InStep

\* What is known of a request that is answered before its body is read.
LEMMA AtRead ==
    ASSUME IInv, NEW c \in Connections, Turn(c), pc[c] = "read"
    PROVE  /\ Sent(c) >= 1 /\ Answered(c) = Sent(c) - 1 /\ serving[c] = Sent(c)
           /\ Request(c) = requests[c][Sent(c)]
           /\ Request(c).length = "none" => Settled(c)
           /\ LeavesBody(Request(c)) => LeftBehind(c)
<1>1. Sent(c) >= 1 /\ Answered(c) = Sent(c) - 1 /\ serving[c] = Sent(c) /\ BodyBehind(c, 0)
  BY DEF Turn, InHand, Sending
<1> QED
  BY <1>1 DEF Request, Settled, LeftBehind, BodyBehind

\* And of one whose body was read.
LEMMA AtHand ==
    ASSUME NEW c \in Connections, Turn(c),
           pc[c] \in {"handle", "inside", "returned", "copied", "raised"}
    PROVE  /\ Sent(c) >= 1 /\ Answered(c) = Sent(c) - 1 /\ serving[c] = Sent(c)
           /\ Request(c) = requests[c][Sent(c)]
           /\ Settled(c) /\ InHand(c)
BY DEF Turn, Request, Sending

\* A body that was not read is answered as a request: out of step from then on.
LEMMA LeftoverInStep ==
    ASSUME IInv, NEW c \in Connections, InStep(c), ReadLeftover(c)
    PROVE  InStep(c)'
<1>1. /\ requests' = requests /\ owed' = owed /\ hungUp' = hungUp /\ body' = body
      /\ pc[c] = "idle" /\ wire[c] # << >> /\ Head(wire[c]).part # "head"
  BY DEF ReadLeftover, Arrived, client, local
<1>2. Len(wire[c]) # 0 /\ wire[c][1].part # "head"
  BY <1>1, Shapes
<1>3. Turn(c) => Answered(c) = Sent(c) /\ LeftBehind(c)
  BY <1>1, <1>2 DEF Turn, Settled, InHand
<1>4. Intact(c, Sent(c)) /\ Answered(c) <= Sent(c) => Answered(c) = Sent(c) /\ LeftBehind(c)
  BY <1>1, <1>3 DEF InStep
<1>5. CASE Reply(c, 0, 400, NoMessage, "parting") \/ Reply(c, 0, 200, NoMessage, "answering")
  BY <1>1, <1>4, <1>5, ReplyInStep DEF Sending
<1>6. CASE Go(c, "closed") /\ UNCHANGED replies
  <2>1. pc'[c] = "closed"
    BY <1>6 DEF Go, IInv, Typed
  <2> QED
    BY <1>1, <1>6, <2>1, SilentInStep DEF InStep
<1> QED
  BY <1>5, <1>6 DEF ReadLeftover

\* An answer has been sent, or cannot be.
LEMMA TransmitInStep ==
    ASSUME IInv, NEW c \in Connections, InStep(c), Transmit(c)
    PROVE  InStep(c)'
<1>1. /\ requests' = requests /\ owed' = owed /\ hungUp' = hungUp /\ wire' = wire
      /\ replies' = replies /\ body' = body
      /\ pc[c] \in Sending /\ pc'[c] \in {"idle", "closed"}
  BY DEF Transmit, Go, client, local, IInv, Typed
<1>2. ASSUME Turn(c), pc'[c] # "closed" PROVE Turn(c)'
  <2>1. Answered(c) = Sent(c) /\ (Settled(c) \/ LeftBehind(c))
    BY <1>1, <1>2 DEF Turn, InHand, Sending
  <2>2. /\ Answered(c)' = Answered(c) /\ Sent(c)' = Sent(c)
        /\ (Settled(c)' <=> Settled(c)) /\ (LeftBehind(c)' <=> LeftBehind(c))
    BY <1>1 DEF Answered, Sent, Settled, LeftBehind, BodyBehind, LeavesBody
  <2> QED
    BY <1>1, <1>2, <2>1, <2>2 DEF Turn
<1> QED
  BY <1>1, <1>2, SilentInStep DEF InStep, Sending

\* Answers that need no body, or refuse it.
LEMMA RefusingInStep ==
    ASSUME IInv, NEW c \in Connections, InStep(c), Get(c) \/ NotFound(c) \/ RefuseLength(c)
    PROVE  InStep(c)'
<1>1. /\ requests' = requests /\ owed' = owed /\ hungUp' = hungUp /\ wire' = wire /\ body' = body
      /\ pc[c] = "read"
  BY DEF Get, NotFound, RefuseLength, Posted, client, local
<1>2. Intact(c, Sent(c)) /\ Answered(c) <= Sent(c) => Turn(c)
  BY <1>1 DEF InStep
<1>3. Request(c).length # "none" /\ Request(c).route \in {"get", "other"} => LeavesBody(Request(c))
  BY DEF LeavesBody
<1>4. Request(c).length = "tooLarge" => LeavesBody(Request(c))
  BY DEF LeavesBody
<1>5. CASE Get(c)
  <2>1. Reply(c, serving[c], 200, NoMessage, "answering") /\ 200 \in Codes(Request(c)) /\ Request(c).route = "get"
    BY <1>5 DEF Get, Answer, Codes
  <2> QED
    BY <1>1, <1>2, <1>3, <2>1, AtRead, ReplyInStep DEF Sending
<1>6. CASE NotFound(c)
  <2>1. Reply(c, serving[c], 404, NoMessage, "answering") /\ 404 \in Codes(Request(c)) /\ Request(c).route = "other"
    BY <1>6 DEF NotFound, Answer, Codes
  <2> QED
    BY <1>1, <1>2, <1>3, <2>1, AtRead, ReplyInStep DEF Sending
<1>7. CASE RefuseLength(c) /\ Request(c).length = "none"
  <2>1. Reply(c, serving[c], 400, NoMessage, "answering") /\ 400 \in Codes(Request(c))
    BY <1>7 DEF RefuseLength, Posted, Answer, Codes
  <2> QED
    BY <1>1, <1>2, <1>7, <2>1, AtRead, ReplyInStep DEF Sending
<1>8. CASE RefuseLength(c) /\ Request(c).length = "tooLarge"
  <2>1. Reply(c, serving[c], 413, NoMessage, "answering") /\ 413 \in Codes(Request(c))
    BY <1>8 DEF RefuseLength, Posted, Answer, Codes
  <2> QED
    BY <1>1, <1>2, <1>4, <1>8, <2>1, AtRead, ReplyInStep DEF Sending
<1> QED
  BY <1>5, <1>6, <1>7, <1>8 DEF RefuseLength

\* Answers to a request whose body was read.
LEMMA HandledInStep ==
    ASSUME IInv, NEW c \in Connections, InStep(c), RefuseQuery(c) \/ Report(c) \/ Release(c)
    PROVE  InStep(c)'
<1>1. /\ requests' = requests /\ owed' = owed /\ hungUp' = hungUp /\ wire' = wire /\ body' = body
      /\ pc[c] \in {"handle", "returned", "copied"}
  BY DEF RefuseQuery, Report, Release, client, local
<1>2. Intact(c, Sent(c)) /\ Answered(c) <= Sent(c) => Turn(c)
  BY <1>1 DEF InStep
<1>3. CASE RefuseQuery(c)
  <2>1. Reply(c, serving[c], 400, NoMessage, "answering") /\ Request(c).query = "bad"
    BY <1>3 DEF RefuseQuery, Answer
  <2>2. InHand(c) => 400 \in Codes(Request(c))
    BY <2>1 DEF InHand, Codes
  <2> QED
    BY <1>1, <1>2, <2>1, <2>2, AtHand, ReplyInStep DEF Sending
<1>4. CASE Report(c)
  <2> DEFINE code == IF status[c] = 2 THEN 400 ELSE 500
  <2>1. Reply(c, serving[c], code, lastError[c], "answering") /\ pc[c] = "returned" /\ status[c] # 0
    BY <1>4 DEF Report, ErrorOf
  <2>2. InHand(c) => code \in Codes(Request(c))
    BY <2>1 DEF InHand, Codes, Statuses
  <2> QED
    BY <1>1, <1>2, <2>1, <2>2, AtHand, ReplyInStep DEF Sending
<1>5. CASE Release(c)
  <2>1. Reply(c, serving[c], 200, NoMessage, "answering") /\ pc[c] = "copied"
    BY <1>5 DEF Release, Answer
  <2>2. InHand(c) => 200 \in Codes(Request(c))
    BY <2>1 DEF InHand, Codes
  <2> QED
    BY <1>1, <1>2, <2>1, <2>2, AtHand, ReplyInStep DEF Sending
<1> QED
  BY <1>3, <1>4, <1>5

\* The steps of a call.
LEMMA CallInStep ==
    ASSUME IInv, NEW c \in Connections, InStep(c),
           EnterCall(c) \/ CallSucceeds(c) \/ CallFails(c) \/ Copy(c)
    PROVE  InStep(c)'
<1>1. /\ requests' = requests /\ owed' = owed /\ hungUp' = hungUp /\ wire' = wire
      /\ replies' = replies /\ serving' = serving /\ body' = body
      /\ pc[c] \in {"handle", "inside", "returned"}
      /\ pc'[c] \in {"inside", "returned", "copied", "raised"}
  BY DEF EnterCall, CallSucceeds, CallFails, Copy, Go, client, local, IInv, Typed
<1>2. Sent(c)' = Sent(c) /\ Answered(c)' = Answered(c) /\ Request(c)' = Request(c) /\ Settled(c)' = Settled(c)
  BY <1>1 DEF Sent, Answered, Request, Settled
<1>3. pc[c] = "handle" => Request(c).query = "good"
  BY DEF EnterCall, CallSucceeds, CallFails, Copy
<1>4. pc'[c] = "returned" /\ status'[c] # 0 => status'[c] \in Statuses(Request(c).route)
  BY DEF EnterCall, CallSucceeds, CallFails, Copy, Go, IInv, Typed
<1>5. InHand(c) => InHand(c)'
  BY <1>1, <1>2, <1>3, <1>4 DEF InHand, Statuses
<1>6. Turn(c) => Turn(c)'
  BY <1>1, <1>2, <1>5, AtHand DEF Turn
<1> QED
  BY <1>1, <1>6, SilentInStep DEF InStep

\* The connection is closed.
LEMMA ClosingInStep ==
    ASSUME IInv, NEW c \in Connections, InStep(c),
           EndOfRequests(c) \/ LengthRaises(c) \/ CallRaises(c) \/ ReleaseRaised(c)
    PROVE  InStep(c)'
<1>1. /\ requests' = requests /\ hungUp' = hungUp /\ replies' = replies /\ body' = body
      /\ pc'[c] = "closed"
  BY DEF EndOfRequests, LengthRaises, CallRaises, ReleaseRaised, Go, client, local, IInv, Typed
<1> QED
  BY <1>1, SilentInStep DEF InStep

\* Every step of a connection.
LEMMA OwnStepInStep ==
    ASSUME IInv, NEW c \in Connections, InStep(c),
           \/ \E request \in Kinds : SendHead(c, request)
           \/ SendBody(c) \/ HangUp(c) \/ PauseOrResume(c) \/ Thread(c)
    PROVE  InStep(c)'
<1>1. CASE \E request \in Kinds : SendHead(c, request)
  BY <1>1, SendHeadInStep
<1>2. CASE SendBody(c) \/ HangUp(c) \/ PauseOrResume(c)
  BY <1>2, RestInStep
<1>3. CASE ReadHead(c)
  BY <1>3, ReadHeadInStep
<1>4. CASE ReadBody(c) \/ ReadShort(c)
  BY <1>4, ReadBodyInStep
<1>5. CASE ReadLeftover(c)
  BY <1>5, LeftoverInStep
<1>6. CASE Get(c) \/ NotFound(c) \/ RefuseLength(c)
  BY <1>6, RefusingInStep
<1>7. CASE RefuseQuery(c) \/ Report(c) \/ Release(c)
  BY <1>7, HandledInStep
<1>8. CASE EnterCall(c) \/ CallSucceeds(c) \/ CallFails(c) \/ Copy(c)
  BY <1>8, CallInStep
<1>9. CASE EndOfRequests(c) \/ LengthRaises(c) \/ CallRaises(c) \/ ReleaseRaised(c)
  BY <1>9, ClosingInStep
<1>10. CASE Transmit(c)
  BY <1>10, TransmitInStep
<1> QED
  BY <1>1, <1>2, <1>3, <1>4, <1>5, <1>6, <1>7, <1>8, <1>9, <1>10 DEF Thread

\* A step of one connection touches no other.
LEMMA OneConnection ==
    ASSUME IInv, NEW c \in Connections, NEW d \in Connections \ {c},
           \/ \E request \in Kinds : SendHead(c, request)
           \/ SendBody(c) \/ HangUp(c) \/ PauseOrResume(c) \/ Thread(c)
    PROVE  Untouched(d)
<1> USE DEF IInv, Typed, Untouched, client, local
<1>1. CASE \E request \in Kinds : SendHead(c, request)
  BY <1>1 DEF SendHead, Arrives
<1>2. CASE SendBody(c) \/ HangUp(c) \/ PauseOrResume(c)
  BY <1>2 DEF SendBody, HangUp, PauseOrResume, Arrives
<1>3. CASE ReadHead(c)
  BY <1>3 DEF ReadHead, Go
<1>4. CASE ReadBody(c) \/ ReadShort(c)
  BY <1>4 DEF ReadBody, ReadShort, Took, Go
<1>5. CASE ReadLeftover(c)
  BY <1>5 DEF ReadLeftover, Reply, Go
<1>6. CASE Get(c) \/ NotFound(c) \/ RefuseLength(c) \/ RefuseQuery(c)
  BY <1>6 DEF Get, NotFound, RefuseLength, RefuseQuery, Answer, Reply, Go
<1>7. CASE Report(c) \/ Release(c)
  BY <1>7 DEF Report, Release, Answer, Reply, Go
<1>8. CASE EnterCall(c) \/ Copy(c)
  BY <1>8 DEF EnterCall, Copy, Go
<1>9. CASE CallSucceeds(c) \/ CallFails(c)
  BY <1>9 DEF CallSucceeds, CallFails, Go
<1>10. CASE \/ EndOfRequests(c) \/ LengthRaises(c) \/ CallRaises(c) \/ ReleaseRaised(c)
            \/ Transmit(c)
  BY <1>10 DEF EndOfRequests, LengthRaises, CallRaises, ReleaseRaised, Transmit, Go
<1> QED
  BY <1>1, <1>2, <1>3, <1>4, <1>5, <1>6, <1>7, <1>8, <1>9, <1>10 DEF Thread

\* Every step keeps every connection in step.
LEMMA NextAInv == AInv /\ [Next]_vars => AInv'
<1> SUFFICES ASSUME AInv, [Next]_vars PROVE AInv'
  OBVIOUS
<1>1. IInv'
  BY NextIInv DEF AInv
<1>2. ASSUME NEW c \in Connections,
             \/ \E request \in Kinds : SendHead(c, request)
             \/ SendBody(c) \/ HangUp(c) \/ PauseOrResume(c) \/ Thread(c)
      PROVE  \A d \in Connections : InStep(d)'
  <2>1. InStep(c)'
    BY <1>2, OwnStepInStep DEF AInv
  <2>2. ASSUME NEW d \in Connections \ {c} PROVE InStep(d)'
    <3>1. Untouched(d)
      BY <1>2, OneConnection DEF AInv
    <3> QED
      BY <3>1, OthersInStep DEF AInv
  <2> QED
    BY <2>1, <2>2
<1>3. ASSUME UNCHANGED vars, NEW d \in Connections PROVE InStep(d)'
  BY <1>3, OthersInStep DEF AInv, Untouched, vars, client, local
<1>4. \A c \in Connections : Requests[c] \subseteq Kinds
  BY ServiceAssumption
<1> QED
  BY <1>1, <1>2, <1>3, <1>4 DEF AInv, Next, Quiet

------------------------------------------------------------------------------
\* Theorem

(***************************************************************************)
(* Every answer is to the request whose place it has, with a code that     *)
(* fits that request, until a body is left unread (server.py:88-161).      *)
(***************************************************************************)
THEOREM AnswersAreOwn == Spec => []AnswersOwn
<1>1. AInv => AnswersOwn
  <2> SUFFICES ASSUME AInv, NEW c \in Connections, NEW n \in DOMAIN replies[c], Intact(c, n)
               PROVE  Own(c, n)
    BY DEF AnswersOwn, Own
  <2>1. IInv /\ InStep(c) /\ n \in 1 .. Answered(c)
    BY Shapes DEF AInv, Answered
  <2> QED
    BY <2>1 DEF InStep
<1> QED
  BY <1>1, InitAInv, NextAInv, PTL DEF Spec
==============================================================================
