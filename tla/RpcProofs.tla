------------------------------ MODULE RpcProofs ------------------------------
(***************************************************************************)
(* Proofs about Rpc, for every set of calls, interfaces and daemons, every *)
(* queue bound and every set of faults, with callers that overlap.         *)
(***************************************************************************)
EXTENDS Rpc, TLAPS

LEMMA InitTypeOK == Init => TypeOK
BY RpcAssumption DEF Init, TypeOK, RpcAssumption, Packet, Frame

PcRange == {"idle", "connected", "lengthSent", "waitSize", "waitPacket", "waitAnything",
            "returned", "oops"}

\* The ways an ioctl ends leave its pc and its result in range.
LEMMA EndTypeOK ==
  ASSUME TypeOK, NEW c \in Calls,
         \/ EndWithoutAnswer(c)
         \/ \E r \in Calls \cup {NULL, Garbage} : EndWithAnswer(c, r)
         \/ EndWithBadSize(c)
         \/ \E end \in {"oops", "waitAnything"} :
              pc' = [pc EXCEPT ![c] = end] /\ UNCHANGED result
  PROVE  /\ pc' \in [Calls -> PcRange]
         /\ result' \in [Calls -> Calls \cup {NULL, Garbage}]
<1> USE DEF TypeOK, PcRange
<1>1. ASSUME NEW r \in Calls \cup {NULL, Garbage}, EndWithAnswer(c, r)
      PROVE  /\ pc' \in [Calls -> PcRange]
             /\ result' \in [Calls -> Calls \cup {NULL, Garbage}]
  BY <1>1 DEF EndWithAnswer
<1>2. ASSUME NEW end \in {"returned", "oops", "waitAnything"}, pc' = [pc EXCEPT ![c] = end], UNCHANGED result
      PROVE  /\ pc' \in [Calls -> PcRange]
             /\ result' \in [Calls -> Calls \cup {NULL, Garbage}]
  BY <1>2
<1>3. CASE EndWithoutAnswer(c)
  BY <1>2, <1>3 DEF EndWithoutAnswer
<1>4. CASE EndWithBadSize(c)
  BY <1>1, <1>2, <1>4 DEF EndWithBadSize
<1>5. QED
  BY <1>1, <1>2, <1>3, <1>4

LEMMA CallerTypeOK ==
  ASSUME TypeOK, NEW c \in Calls,
         \/ Connect(c) \/ ConnectFails(c) \/ SendLength(c) \/ SendPacket(c)
         \/ SendFails(c) \/ RecvSize(c) \/ RecvSizeFails(c)
         \/ RecvPacket(c) \/ RecvPacketFails(c) \/ RecvAnything(c) \/ RecvAnythingFails(c)
  PROVE  TypeOK'
<1> USE RpcAssumption
    DEF RpcAssumption, TypeOK, callerVars, serviceVars, ctrlVars, daemonVars, PcRange
<1>0. disturbed' \in SUBSET Interfaces
  BY DEF Connect, ConnectFails, SendLength, SendPacket, SendFails, RecvSize, RecvSizeFails,
         RecvPacket, RecvPacketFails, RecvAnything, RecvAnythingFails, Disturbs
<1>1. CASE Connect(c)
  BY <1>0, <1>1 DEF Connect
<1>2. CASE ConnectFails(c)
  BY <1>0, <1>2, EndTypeOK DEF ConnectFails
<1>3. CASE SendLength(c)
  BY <1>3 DEF SendLength
<1>4. CASE SendPacket(c)
  BY <1>4 DEF SendPacket
<1>5. CASE SendFails(c)
  BY <1>0, <1>5, EndTypeOK DEF SendFails
<1>6. CASE RecvSize(c)
  <2>1. Head(reply[c]) \in Frame /\ Tail(reply[c]) \in Seq(Frame)
    BY <1>6 DEF RecvSize, TakeReply
  <2>2. Head(reply[c]).of.call \in Calls
    BY <2>1 DEF Frame, Packet
  <2>3. CASE /\ pc' = [pc EXCEPT ![c] = "waitPacket"]
             /\ size' = [size EXCEPT ![c] = Head(reply[c]).of.call]
             /\ UNCHANGED <<result, disturbed>>
    BY <1>6, <2>1, <2>2, <2>3 DEF RecvSize, TakeReply
  <2>4. CASE EndWithBadSize(c) /\ UNCHANGED size
    BY <1>0, <1>6, <2>1, <2>4, EndTypeOK DEF RecvSize, TakeReply
  <2>5. QED
    BY <1>6, <2>3, <2>4 DEF RecvSize, TakeReply
<1>7. CASE RecvSizeFails(c)
  BY <1>0, <1>7, EndTypeOK DEF RecvSizeFails
<1>8. CASE RecvPacket(c)
  <2>1. Head(reply[c]) \in Frame /\ Tail(reply[c]) \in Seq(Frame)
    BY <1>8 DEF RecvPacket, TakeReply
  <2>2. Head(reply[c]).of.call \in Calls
    BY <2>1 DEF Frame, Packet
  <2>3. \E r \in Calls \cup {NULL, Garbage} : EndWithAnswer(c, r)
    BY <1>8, <2>2 DEF RecvPacket, TakeReply
  <2>4. QED
    BY <1>8, <2>1, <2>3, EndTypeOK DEF RecvPacket, TakeReply
<1>9. CASE RecvPacketFails(c)
  BY <1>0, <1>9, EndTypeOK DEF RecvPacketFails
<1>10. CASE RecvAnything(c)
  <2>1. Head(reply[c]) \in Frame /\ Tail(reply[c]) \in Seq(Frame)
    BY <1>10 DEF RecvAnything, TakeReply
  <2>2. Head(reply[c]).of.call \in Calls
    BY <2>1 DEF Frame, Packet
  <2>3. EndWithBadSize(c) \/ \E r \in Calls \cup {NULL, Garbage} : EndWithAnswer(c, r)
    BY <1>10, <2>2 DEF RecvAnything
  <2>4. QED
    BY <1>10, <2>1, <2>3, EndTypeOK DEF RecvAnything, TakeReply
<1>11. CASE RecvAnythingFails(c)
  BY <1>11, EndTypeOK DEF RecvAnythingFails
<1>12. QED
  BY <1>1, <1>2, <1>3, <1>4, <1>5, <1>6, <1>7, <1>8, <1>9, <1>10, <1>11

LEMMA ServiceTypeOK ==
  ASSUME TypeOK, NEW c \in Calls,
         \/ Accept(c) \/ ReadRequest(c) \/ RequestCutShort(c) \/ LocalExecute(c)
         \/ InterfaceNotFound(c) \/ BindSocket(c) \/ Forward(c) \/ AcceptFails
  PROVE  TypeOK'
<1> USE RpcAssumption
    DEF RpcAssumption, TypeOK, callerVars, serviceVars, ctrlVars, daemonVars
<1>1. CASE Accept(c)
  BY <1>1 DEF Accept
<1>2. CASE ReadRequest(c)
  BY <1>2 DEF ReadRequest
<1>3. CASE RequestCutShort(c)
  <2>1. CASE h' = [h EXCEPT ![c] = "end"]
    BY <1>3, <2>1 DEF RequestCutShort
  <2>2. CASE h' = [h EXCEPT ![c] = "oops"]
    BY <1>3, <2>2 DEF RequestCutShort
  <2>3. QED
    BY <1>3, <2>1, <2>2 DEF RequestCutShort
<1>4. CASE LocalExecute(c)
  BY <1>4 DEF LocalExecute, Disturbs
<1>5. CASE InterfaceNotFound(c)
  BY <1>5 DEF InterfaceNotFound
<1>6. CASE BindSocket(c)
  BY <1>6 DEF BindSocket
<1>7. CASE Forward(c)
  <2> DEFINE d == client_portid[Wants[c]]
  <2>1. queue' \in [Daemons -> Seq(Packet)]
    <3>1. CASE UNCHANGED queue
      BY <3>1
    <3>2. CASE \E w \in BOOLEAN :
                 /\ d # NULL
                 /\ queue' = [queue EXCEPT ![d] = Append(@, [call |-> c, whole |-> w])]
      <4>1. PICK w \in BOOLEAN :
              /\ d # NULL
              /\ queue' = [queue EXCEPT ![d] = Append(@, [call |-> c, whole |-> w])]
        BY <3>2
      <4>2. d \in Daemons /\ [call |-> c, whole |-> w] \in Packet
        BY <4>1 DEF Packet
      <4>3. Append(queue[d], [call |-> c, whole |-> w]) \in Seq(Packet)
        BY <4>2
      <4>4. QED
        BY <4>1, <4>2, <4>3
    <3>3. QED
      BY <1>7, <3>1, <3>2 DEF Forward, Reachable
  <2>2. QED
    BY <1>7, <2>1 DEF Forward
<1>8. CASE AcceptFails
  BY <1>8 DEF AcceptFails
<1>9. QED
  BY <1>1, <1>2, <1>3, <1>4, <1>5, <1>6, <1>7, <1>8

\* A daemon in the middle of a call holds its packet; needed to type frames.
Busy(d) == dpc[d] \in {"callback", "sendLength", "sendPacket"}

HoldsPacket == \A d \in Daemons : Busy(d) => current[d] \in Packet

LEMMA HeadPacket ==
  ASSUME TypeOK, NEW d \in Daemons, queue[d] # <<>>
  PROVE  /\ Head(queue[d]) \in Packet /\ Tail(queue[d]) \in Seq(Packet)
         /\ Head(queue[d]).call \in Calls
<1>1. queue[d] \in Seq(Packet)
  BY DEF TypeOK
<1>2. Head(queue[d]) \in Packet /\ Tail(queue[d]) \in Seq(Packet)
  BY <1>1
<1>3. QED
  BY <1>2 DEF Packet

LEMMA SendFrameTypeOK ==
  ASSUME TypeOK, HoldsPacket, NEW d \in Daemons, Busy(d),
         NEW kind \in {"length", "packet"},
         AnswerSocket(d) # NULL, SendFrame(d, kind)
  PROVE  /\ AnswerSocket(d) \in Calls
         /\ [kind |-> kind, of |-> current[d]] \in Frame
         /\ reply' \in [Calls -> Seq(Frame)]
         /\ sigpipe' \in SUBSET Daemons
<1>1. current[d] \in Packet
  BY DEF HoldsPacket
<1>2. Wants[current[d].call] \in Interfaces
  BY <1>1, RpcAssumption DEF RpcAssumption, Packet
<1>3. AnswerSocket(d) \in Calls
  BY <1>2 DEF TypeOK, AnswerSocket
<1>4. [kind |-> kind, of |-> current[d]] \in Frame
  BY <1>1 DEF Frame
<1>5. Append(reply[AnswerSocket(d)], [kind |-> kind, of |-> current[d]]) \in Seq(Frame)
  BY <1>3, <1>4 DEF TypeOK
<1>6. reply' \in [Calls -> Seq(Frame)]
  BY <1>3, <1>5 DEF TypeOK, SendFrame
<1>7. sigpipe' \in SUBSET Daemons
  BY DEF TypeOK, SendFrame
<1>8. QED
  BY <1>3, <1>4, <1>6, <1>7

DpcRange == {"starting", "listening", "callback", "sendLength", "sendPacket", "dead"}

LEMMA DiesTypeOK ==
  ASSUME TypeOK, HoldsPacket, NEW d \in Daemons, Dies(d), UNCHANGED current
  PROVE  /\ dpc' \in [Daemons -> DpcRange]
         /\ queue' \in [Daemons -> Seq(Packet)]
         /\ HoldsPacket'
<1>1. <<>> \in Seq(Packet)
  OBVIOUS
<1>2. queue' \in [Daemons -> Seq(Packet)]
  BY <1>1 DEF TypeOK, Dies
<1>3. dpc' \in [Daemons -> DpcRange]
  BY DEF TypeOK, Dies, DpcRange
<1>4. HoldsPacket'
  BY DEF TypeOK, Dies, HoldsPacket, Busy
<1>5. QED
  BY <1>2, <1>3, <1>4

LEMMA DaemonTypeOK ==
  ASSUME TypeOK, HoldsPacket, NEW d \in Daemons,
         \/ Activate(d) \/ Receive(d) \/ CallbackReturns(d) \/ CallbackFails(d)
         \/ Killed(d) \/ SendResultLength(d) \/ SendResultPacket(d)
  PROVE  TypeOK' /\ HoldsPacket'
<1> USE RpcAssumption
    DEF RpcAssumption, TypeOK, DpcRange, callerVars, serviceVars, ctrlVars
<1>1. CASE Activate(d)
  BY <1>1 DEF Activate, HoldsPacket, Busy,
         handle_activate_interface, Own
<1>2. CASE Receive(d)
  <2> DEFINE p == Head(queue[d])
  <2>1. p \in Packet /\ Tail(queue[d]) \in Seq(Packet) /\ p.call \in Calls
    BY <1>2, HeadPacket DEF Receive, TakePacket
  <2>2. CASE UNCHANGED <<dpc, current, ran, ranAgain>>
    BY <1>2, <2>1, <2>2 DEF Receive, HoldsPacket, Busy, TakePacket
  <2>3. CASE /\ dpc' = [dpc EXCEPT ![d] = "callback"]
             /\ current' = [current EXCEPT ![d] = p]
             /\ Runs(p.call)
    BY <1>2, <2>1, <2>3 DEF Runs, Receive, HoldsPacket, Busy, TakePacket
  <2>4. QED
    BY <1>2, <2>2, <2>3 DEF Receive, TakePacket
<1>3. CASE CallbackReturns(d)
  BY <1>3 DEF CallbackReturns, HoldsPacket, Busy
<1>4. CASE CallbackFails(d)
  BY <1>4 DEF CallbackFails, HoldsPacket, Busy
<1>5. CASE Killed(d)
  BY <1>5, DiesTypeOK DEF Killed
<1>6. CASE SendResultLength(d)
  <2>1. CASE Dies(d) /\ UNCHANGED <<sigpipe, reply>>
    BY <1>6, <2>1, DiesTypeOK DEF SendResultLength
  <2>2. CASE dpc' = [dpc EXCEPT ![d] = "listening"] /\ UNCHANGED <<queue, sigpipe, reply>>
    BY <1>6, <2>2 DEF SendResultLength, HoldsPacket, Busy
  <2>3. CASE /\ AnswerSocket(d) # NULL /\ SendFrame(d, "length")
             /\ dpc' = [dpc EXCEPT ![d] = "sendPacket"]
             /\ UNCHANGED queue
    <3>1. reply' \in [Calls -> Seq(Frame)] /\ sigpipe' \in SUBSET Daemons
      BY <1>6, <2>3, SendFrameTypeOK DEF SendResultLength, Busy
    <3>2. QED
      BY <1>6, <2>3, <3>1 DEF SendResultLength, HoldsPacket, Busy
  <2>4. QED
    BY <1>6, <2>1, <2>2, <2>3 DEF SendResultLength
<1>7. CASE SendResultPacket(d)
  <2>1. CASE Dies(d) /\ UNCHANGED <<sigpipe, reply>>
    BY <1>7, <2>1, DiesTypeOK DEF SendResultPacket
  <2>2. CASE AnswerSocket(d) # NULL /\ SendFrame(d, "packet")
    <3>1. reply' \in [Calls -> Seq(Frame)] /\ sigpipe' \in SUBSET Daemons
      BY <1>7, <2>2, SendFrameTypeOK DEF SendResultPacket, Busy
    <3>2. CASE Dies(d)
      BY <1>7, <3>1, <3>2, DiesTypeOK DEF SendResultPacket
    <3>3. CASE dpc' = [dpc EXCEPT ![d] = "listening"] /\ UNCHANGED queue
      BY <1>7, <3>1, <3>3 DEF SendResultPacket, HoldsPacket, Busy
    <3>4. QED
      BY <1>7, <2>2, <3>2, <3>3 DEF SendResultPacket
  <2>3. QED
    BY <1>7, <2>1, <2>2 DEF SendResultPacket
<1>8. QED
  BY <1>1, <1>2, <1>3, <1>4, <1>5, <1>6, <1>7

Typed == TypeOK /\ HoldsPacket

LEMMA NextTyped == Typed /\ [Next]_vars => Typed'
<1> SUFFICES ASSUME Typed, [Next]_vars PROVE Typed'
  OBVIOUS
<1> USE DEF Typed
<1>1. HoldsPacket' \/ ~UNCHANGED <<dpc, current>>
  BY DEF HoldsPacket, Busy
<1>2. ASSUME NEW c \in Calls,
             \/ Connect(c) \/ ConnectFails(c) \/ SendLength(c) \/ SendPacket(c)
             \/ SendFails(c) \/ RecvSize(c) \/ RecvSizeFails(c)
             \/ RecvPacket(c) \/ RecvPacketFails(c) \/ RecvAnything(c) \/ RecvAnythingFails(c)
      PROVE  Typed'
  <2>1. UNCHANGED <<dpc, current>>
    BY <1>2 DEF daemonVars, Connect, ConnectFails, SendLength, SendPacket, SendFails,
                RecvSize, RecvSizeFails, RecvPacket, RecvPacketFails, RecvAnything, RecvAnythingFails, TakeReply
  <2>2. QED
    BY <1>1, <1>2, <2>1, CallerTypeOK
<1>3. ASSUME NEW c \in Calls,
             \/ Accept(c) \/ ReadRequest(c) \/ RequestCutShort(c) \/ LocalExecute(c)
             \/ InterfaceNotFound(c) \/ BindSocket(c) \/ Forward(c)
      PROVE  Typed'
  <2>1. UNCHANGED <<dpc, current>>
    BY <1>3 DEF daemonVars, Accept, ReadRequest, RequestCutShort, LocalExecute,
                InterfaceNotFound, BindSocket, Forward
  <2>2. QED
    BY <1>1, <1>3, <2>1, ServiceTypeOK
<1>4. CASE AcceptFails
  BY <1>1, <1>4 DEF AcceptFails, TypeOK, callerVars, ctrlVars, daemonVars
<1>5. ASSUME NEW i \in Interfaces, Register(i) PROVE Typed'
  BY <1>1, <1>5 DEF Register, TypeOK, callerVars, serviceVars, daemonVars
<1>6. CASE UNCHANGED vars
  BY <1>1, <1>6 DEF vars, TypeOK, callerVars, serviceVars, ctrlVars, daemonVars
<1>7. QED
  BY <1>2, <1>3, <1>4, <1>5, <1>6, DaemonTypeOK
  DEF Next, CallerStep, ServiceStep, DaemonStep

LEMMA InitTyped == Init => Typed
BY InitTypeOK DEF Typed, Init, HoldsPacket, Busy

LEMMA TypedInvariant == Spec => []Typed
BY InitTyped, NextTyped, PTL DEF Spec

(***************************************************************************)
(* Type correctness of the remote call, with any faults.                   *)
(***************************************************************************)
THEOREM TypeInvariant == Spec => []TypeOK
<1>1. Typed => TypeOK
  BY DEF Typed
<1>2. QED
  BY <1>1, TypedInvariant, PTL
-----------------------------------------------------------------------------
(* At most once.  The thread that runs execute_interface for a call ends   *)
(* with the forwarding of its packet, and no step of any actor starts it   *)
(* again: a call that was queued or run has an ended thread, so no thread  *)
(* is left that could queue it a second time.                              *)

Fresh == \A c \in Calls \ LocalCalls : pc[c] = "idle" => h[c] = "none"

Handled ==
  /\ \A d \in Daemons : \A k \in DOMAIN queue[d] : h[queue[d][k].call] = "end"
  /\ \A c \in ran : h[c] = "end"

OnceInv == Typed /\ Fresh /\ Handled /\ AtMostOnce

LEMMA QueuedCall ==
  ASSUME Typed, NEW d \in Daemons, NEW k \in DOMAIN queue[d]
  PROVE  queue[d][k].call \in Calls
<1>1. queue[d] \in Seq(Packet)
  BY DEF Typed, TypeOK
<1>2. queue[d][k] \in Packet
  BY <1>1
<1>3. QED
  BY <1>2 DEF Packet

\* Steps that leave the queues alone and end no ended thread's rest.
LEMMA QueuesKept ==
  ASSUME OnceInv, UNCHANGED <<queue, ran, ranAgain>>,
         \A c \in Calls : h[c] = "end" => h'[c] = "end"
  PROVE  Handled' /\ AtMostOnce'
<1> USE DEF OnceInv
<1>1. AtMostOnce'
  BY DEF AtMostOnce
<1>2. \A d \in Daemons : \A k \in DOMAIN queue[d] : queue[d][k].call \in Calls
  BY QueuedCall
<1>3. Handled'
  BY <1>2 DEF Handled, Typed, TypeOK
<1>4. QED
  BY <1>1, <1>3

LEMMA ForwardOnce ==
  ASSUME OnceInv, NEW c \in Calls, Forward(c)
  PROVE  Handled' /\ AtMostOnce'
<1> DEFINE d == client_portid[Wants[c]]
<1> USE DEF OnceInv
<1>1. /\ h[c] = "bound" /\ h' = [h EXCEPT ![c] = "end"]
      /\ UNCHANGED <<ran, ranAgain>>
  BY DEF Forward
<1>2. \A e \in Daemons : \A k \in DOMAIN queue[e] :
        queue[e][k].call \in Calls /\ queue[e][k].call # c
  BY <1>1, QueuedCall DEF Handled
<1>3. c \notin ran
  BY <1>1 DEF Handled
<1>4. \A x \in Calls : h[x] = "end" => h'[x] = "end"
  BY <1>1 DEF Typed, TypeOK
<1>5. CASE UNCHANGED queue
  BY <1>1, <1>4, <1>5, QueuesKept
<1>6. CASE \E w \in BOOLEAN :
             /\ d # NULL
             /\ queue' = [queue EXCEPT ![d] = Append(@, [call |-> c, whole |-> w])]
  <2>1. PICK w \in BOOLEAN :
          /\ d # NULL
          /\ queue' = [queue EXCEPT ![d] = Append(@, [call |-> c, whole |-> w])]
    BY <1>6
  <2>2. d \in Daemons
    BY <2>1, RpcAssumption DEF RpcAssumption, Typed, TypeOK
  <2> DEFINE n == Len(queue[d])
  <2>3. /\ n \in Nat /\ DOMAIN queue[d] = 1 .. n
        /\ DOMAIN queue'[d] = 1 .. n + 1
        /\ \A k \in 1 .. n : queue'[d][k] = queue[d][k]
        /\ queue'[d][n + 1].call = c
    BY <2>1, <2>2 DEF Typed, TypeOK
  <2>4. \A e \in Daemons : e # d => queue'[e] = queue[e]
    BY <2>1, <2>2 DEF Typed, TypeOK
  <2>5. \A e \in Daemons : \A k \in DOMAIN queue'[e] :
          \/ k \in DOMAIN queue[e] /\ queue'[e][k] = queue[e][k]
          \/ e = d /\ k = n + 1 /\ queue'[e][k].call = c
    BY <2>2, <2>3, <2>4
  <2>6. Handled'
    <3>1. \A e \in Daemons : \A k \in DOMAIN queue'[e] : h'[queue'[e][k].call] = "end"
      <4> SUFFICES ASSUME NEW e \in Daemons, NEW k \in DOMAIN queue'[e]
                   PROVE  h'[queue'[e][k].call] = "end"
        OBVIOUS
      <4>1. CASE k \in DOMAIN queue[e] /\ queue'[e][k] = queue[e][k]
        BY <1>2, <1>4, <4>1 DEF Handled
      <4>2. CASE queue'[e][k].call = c
        BY <1>1, <4>2 DEF Typed, TypeOK
      <4>3. QED
        BY <2>5, <4>1, <4>2
    <3>2. QED
      BY <1>1, <1>4, <3>1 DEF Handled, Typed, TypeOK
  <2>7. \A e \in Daemons : \A k, l \in DOMAIN queue'[e] :
          k # l => queue'[e][k].call # queue'[e][l].call
    BY <1>2, <2>5 DEF AtMostOnce
  <2>8. \A e, f \in Daemons : \A k \in DOMAIN queue'[e], l \in DOMAIN queue'[f] :
          e # f => queue'[e][k].call # queue'[f][l].call
    BY <1>2, <2>5 DEF AtMostOnce
  <2>9. \A e \in Daemons : \A k \in DOMAIN queue'[e] : queue'[e][k].call \notin ran'
    BY <1>1, <1>3, <2>5 DEF AtMostOnce
  <2>10. QED
    BY <1>1, <2>6, <2>7, <2>8, <2>9 DEF AtMostOnce
<1>7. QED
  BY <1>5, <1>6 DEF Forward, Reachable

\* A queue that loses its head, or everything.
LEMMA ShrinkOnce ==
  ASSUME OnceInv, NEW d \in Daemons, NEW q,
         queue' = [queue EXCEPT ![d] = q],
         q = <<>> \/ (queue[d] # <<>> /\ q = Tail(queue[d])),
         UNCHANGED h,
         \/ UNCHANGED <<ran, ranAgain>>
         \/ queue[d] # <<>> /\ q = Tail(queue[d]) /\ Runs(Head(queue[d]).call)
  PROVE  Handled' /\ AtMostOnce'
<1> USE DEF OnceInv
<1>0. \/ UNCHANGED ran
      \/ queue[d] # <<>> /\ q = Tail(queue[d]) /\ ran' = ran \cup {Head(queue[d]).call}
  BY DEF Runs
<1>1. queue[d] \in Seq(Packet) /\ \A e \in Daemons \ {d} : queue'[e] = queue[e]
  BY DEF Typed, TypeOK
<1>2. queue'[d] = q
  BY DEF Typed, TypeOK
<1>3. \A k \in DOMAIN q : k + 1 \in DOMAIN queue[d] /\ k + 1 # 1 /\ q[k] = queue[d][k + 1]
  BY <1>1
<1>4. \A k, l \in DOMAIN q : k \in Nat /\ l \in Nat
  BY <1>1
<1>5. \A e \in Daemons : \A k \in DOMAIN queue'[e] :
        \E j \in DOMAIN queue[e] : queue'[e][k] = queue[e][j] /\ j = (IF e = d THEN k + 1 ELSE k)
  BY <1>1, <1>2, <1>3
<1>6. \A e \in Daemons : \A k, l \in DOMAIN queue'[e] :
        k # l => queue'[e][k].call # queue'[e][l].call
  <2> SUFFICES ASSUME NEW e \in Daemons, NEW k \in DOMAIN queue'[e], NEW l \in DOMAIN queue'[e],
                      k # l
               PROVE  queue'[e][k].call # queue'[e][l].call
    OBVIOUS
  <2>1. CASE e = d
    <3>1. k + 1 # l + 1
      BY <1>2, <1>4, <2>1
    <3>2. QED
      BY <1>2, <1>3, <2>1, <3>1 DEF AtMostOnce
  <2>2. CASE e # d
    BY <1>1, <2>2 DEF AtMostOnce
  <2>3. QED
    BY <2>1, <2>2
<1>7. \A e, f \in Daemons : \A k \in DOMAIN queue'[e], l \in DOMAIN queue'[f] :
        e # f => queue'[e][k].call # queue'[f][l].call
  BY <1>5 DEF AtMostOnce
<1>8. \A e \in Daemons : \A k \in DOMAIN queue'[e] : queue'[e][k].call \notin ran'
  <2> SUFFICES ASSUME NEW e \in Daemons, NEW k \in DOMAIN queue'[e]
               PROVE  queue'[e][k].call \notin ran'
    OBVIOUS
  <2>1. queue'[e][k].call \notin ran
    BY <1>5 DEF AtMostOnce
  <2>2. CASE UNCHANGED ran
    BY <2>1, <2>2
  <2>3. CASE queue[d] # <<>> /\ q = Tail(queue[d]) /\ ran' = ran \cup {Head(queue[d]).call}
    <3>1. 1 \in DOMAIN queue[d] /\ Head(queue[d]) = queue[d][1]
      BY <1>1, <2>3
    <3>2. CASE e = d
      <4>1. queue'[e][k] = queue[d][k + 1] /\ k + 1 \in DOMAIN queue[d] /\ k + 1 # 1
        BY <1>2, <1>3, <3>2
      <4>2. QED
        BY <2>1, <2>3, <3>1, <4>1 DEF AtMostOnce
    <3>3. CASE e # d
      BY <1>1, <2>1, <2>3, <3>1, <3>3 DEF AtMostOnce
    <3>4. QED
      BY <3>2, <3>3
  <2>4. QED
    BY <1>0, <2>2, <2>3
<1>9. Handled'
  <2>1. \A c \in ran' : h[c] = "end"
    <3>1. CASE UNCHANGED ran
      BY <3>1 DEF Handled
    <3>2. CASE queue[d] # <<>> /\ ran' = ran \cup {Head(queue[d]).call}
      <4>1. 1 \in DOMAIN queue[d] /\ Head(queue[d]) = queue[d][1]
        BY <1>1, <3>2
      <4>2. QED
        BY <3>2, <4>1 DEF Handled
    <3>3. QED
      BY <1>0, <3>1, <3>2
  <2>2. QED
    BY <1>5, <2>1 DEF Handled
<1>10. ranAgain' = {}
  <2>1. CASE UNCHANGED ranAgain
    BY <2>1 DEF AtMostOnce
  <2>2. CASE queue[d] # <<>> /\ Runs(Head(queue[d]).call)
    <3>1. 1 \in DOMAIN queue[d] /\ Head(queue[d]) = queue[d][1]
      BY <1>1, <2>2
    <3>2. Head(queue[d]).call \notin ran
      BY <3>1 DEF AtMostOnce
    <3>3. QED
      BY <2>2, <3>2 DEF AtMostOnce, Runs
  <2>3. QED
    BY <2>1, <2>2
<1>11. QED
  BY <1>6, <1>7, <1>8, <1>9, <1>10 DEF AtMostOnce

LEMMA CallerOnce ==
  ASSUME OnceInv, NEW c \in Calls,
         \/ Connect(c) \/ ConnectFails(c) \/ SendLength(c) \/ SendPacket(c)
         \/ SendFails(c) \/ RecvSize(c) \/ RecvSizeFails(c)
         \/ RecvPacket(c) \/ RecvPacketFails(c) \/ RecvAnything(c) \/ RecvAnythingFails(c)
  PROVE  Fresh' /\ Handled' /\ AtMostOnce'
<1> USE DEF OnceInv
<1>1. UNCHANGED <<queue, ran, ranAgain>>
  BY DEF daemonVars, Connect, ConnectFails, SendLength, SendPacket, SendFails,
         RecvSize, RecvSizeFails, RecvPacket, RecvPacketFails, RecvAnything, RecvAnythingFails, TakeReply
<1>2. CASE Connect(c)
  <2>1. c \notin LocalCalls /\ h[c] = "none"
    BY <1>2 DEF Connect, CanCall, Fresh
  <2>2. /\ pc' = [pc EXCEPT ![c] = "connected"]
        /\ h' = [h EXCEPT ![c] = "backlog"]
    BY <1>2 DEF Connect
  <2>3. Fresh'
    BY <2>2 DEF Fresh, Typed, TypeOK
  <2>4. \A x \in Calls : h[x] = "end" => h'[x] = "end"
    BY <2>1, <2>2 DEF Typed, TypeOK
  <2>5. QED
    BY <1>1, <2>3, <2>4, QueuesKept
<1>3. CASE ~Connect(c)
  <2>1. UNCHANGED h
    BY <1>3 DEF serviceVars, ConnectFails, SendLength, SendPacket, SendFails,
                RecvSize, RecvSizeFails, RecvPacket, RecvPacketFails, RecvAnything, RecvAnythingFails, TakeReply
  <2>2. \E s \in {"lengthSent", "waitSize", "waitPacket", "waitAnything", "returned",
               "oops"} :
          pc' = [pc EXCEPT ![c] = s]
    BY <1>3 DEF ConnectFails, SendLength, SendPacket, SendFails,
                RecvSize, RecvSizeFails, RecvPacket, RecvPacketFails, RecvAnything, RecvAnythingFails,
                EndWithoutAnswer, EndWithAnswer, EndWithBadSize, TakeReply
  <2>3. \A x \in Calls : pc'[x] = "idle" => pc[x] = "idle"
    BY <2>2 DEF Typed, TypeOK
  <2>4. Fresh'
    BY <2>1, <2>3 DEF Fresh
  <2>5. QED
    BY <1>1, <2>1, <2>4, QueuesKept
<1>4. QED
  BY <1>2, <1>3

LEMMA ServiceOnce ==
  ASSUME OnceInv, NEW c \in Calls,
         \/ Accept(c) \/ ReadRequest(c) \/ RequestCutShort(c) \/ LocalExecute(c)
         \/ InterfaceNotFound(c) \/ BindSocket(c) \/ Forward(c)
  PROVE  Fresh' /\ Handled' /\ AtMostOnce'
<1> USE DEF OnceInv
<1>1. UNCHANGED <<pc, ran, ranAgain>>
  BY DEF callerVars, daemonVars, Accept, ReadRequest, RequestCutShort, LocalExecute,
         InterfaceNotFound, BindSocket, Forward
<1>2. h[c] = "none" => c \in LocalCalls
  BY DEF Accept, ReadRequest, RequestCutShort, LocalExecute,
         InterfaceNotFound, BindSocket, Forward
<1>3. \E s : h' = [h EXCEPT ![c] = s]
  BY DEF Accept, ReadRequest, RequestCutShort, LocalExecute,
         InterfaceNotFound, BindSocket, Forward
<1>4. h[c] # "end"
  BY DEF Accept, ReadRequest, RequestCutShort, LocalExecute,
         InterfaceNotFound, BindSocket, Forward
<1>5. Fresh'
  BY <1>1, <1>2, <1>3 DEF Fresh, Typed, TypeOK
<1>6. CASE Forward(c)
  BY <1>5, <1>6, ForwardOnce
<1>7. CASE ~Forward(c)
  <2>1. UNCHANGED queue
    BY <1>7 DEF daemonVars, Accept, ReadRequest, RequestCutShort, LocalExecute,
                InterfaceNotFound, BindSocket
  <2>2. \A x \in Calls : h[x] = "end" => h'[x] = "end"
    BY <1>3, <1>4 DEF Typed, TypeOK
  <2>3. QED
    BY <1>1, <1>5, <2>1, <2>2, QueuesKept
<1>8. QED
  BY <1>6, <1>7

LEMMA DaemonOnce ==
  ASSUME OnceInv, NEW d \in Daemons,
         \/ Activate(d) \/ Receive(d) \/ CallbackReturns(d) \/ CallbackFails(d)
         \/ Killed(d) \/ SendResultLength(d) \/ SendResultPacket(d)
  PROVE  Fresh' /\ Handled' /\ AtMostOnce'
<1> USE DEF OnceInv
<1>1. UNCHANGED <<pc, h>>
  BY DEF callerVars, serviceVars, Activate, Receive, CallbackReturns, CallbackFails,
         Killed, SendResultLength, SendResultPacket, TakePacket,
         handle_activate_interface, Own
<1>2. Fresh'
  BY <1>1 DEF Fresh
<1>3. CASE UNCHANGED <<queue, ran, ranAgain>>
  BY <1>1, <1>2, <1>3, QueuesKept
<1>4. CASE Receive(d)
  <2>1. /\ queue[d] # <<>>
        /\ queue' = [queue EXCEPT ![d] = Tail(queue[d])]
        /\ UNCHANGED <<ran, ranAgain>> \/ Runs(Head(queue[d]).call)
    BY <1>4 DEF Receive, TakePacket
  <2>2. QED
    BY <1>1, <1>2, <2>1, ShrinkOnce
<1>5. CASE Dies(d) /\ UNCHANGED <<ran, ranAgain>>
  <2>1. queue' = [queue EXCEPT ![d] = <<>>]
    BY <1>5 DEF Dies
  <2>2. QED
    BY <1>1, <1>2, <1>5, <2>1, ShrinkOnce
<1>6. QED
  BY <1>3, <1>4, <1>5
  DEF Activate, CallbackReturns, CallbackFails, Killed, SendResultLength, SendResultPacket,
         handle_activate_interface, Own

LEMMA NextOnce == OnceInv /\ [Next]_vars => OnceInv'
<1> SUFFICES ASSUME OnceInv, [Next]_vars PROVE Fresh' /\ Handled' /\ AtMostOnce'
  BY NextTyped DEF OnceInv
<1>1. CASE AcceptFails
  BY <1>1, QueuesKept DEF AcceptFails, callerVars, daemonVars, Fresh, OnceInv
<1>2. ASSUME NEW i \in Interfaces, Register(i) PROVE Fresh' /\ Handled' /\ AtMostOnce'
  BY <1>2, QueuesKept DEF Register, callerVars, serviceVars, daemonVars, Fresh, OnceInv
<1>3. CASE UNCHANGED vars
  BY <1>3, QueuesKept DEF vars, callerVars, serviceVars, daemonVars, Fresh, OnceInv
<1>4. QED
  BY <1>1, <1>2, <1>3, CallerOnce, ServiceOnce, DaemonOnce
  DEF Next, CallerStep, ServiceStep, DaemonStep

LEMMA InitOnce == Init => OnceInv
<1> SUFFICES ASSUME Init PROVE Fresh /\ Handled /\ AtMostOnce
  BY InitTyped DEF OnceInv
<1>1. \A d \in Daemons : queue[d] = <<>> /\ DOMAIN queue[d] = {}
  BY DEF Init
<1>2. QED
  BY <1>1 DEF Init, Fresh, Handled, AtMostOnce

(***************************************************************************)
(* At most once, with any faults and any number of calls, interfaces and   *)
(* daemons.                                                                *)
(***************************************************************************)
THEOREM AtMostOnceHolds == Spec => []AtMostOnce
<1>1. OnceInv => AtMostOnce
  BY DEF OnceInv
<1>2. QED
  BY <1>1, InitOnce, NextOnce, PTL DEF Spec
-----------------------------------------------------------------------------
(* Isolation.  The ctrl of an interface only ever holds sockets of its own *)
(* callers, so that an answer, which is written to the socket of its       *)
(* interface, can reach the wrong call but not the wrong interface.  The   *)
(* invariant must know that what a daemon is about to answer was run.      *)

CurrentRan == \A d \in Daemons : Busy(d) => current[d].call \in ran

OwnSocket == \A i \in Interfaces : socket[i] # NULL => Wants[socket[i]] = i

\* What may stand in the answer to call c.
AnswerTo(c, a) == a \in ran /\ Wants[a] = Wants[c]

OwnReplies == \A c \in Calls : \A k \in DOMAIN reply[c] : AnswerTo(c, reply[c][k].of.call)

OwnResults == \A c \in Calls : result[c] \in Calls => AnswerTo(c, result[c])

Isolated == OwnSocket /\ OwnReplies /\ OwnResults

LEMMA IsolatedIsIsolation == Isolated <=> Isolation
BY DEF Isolated, OwnSocket, OwnReplies, OwnResults, AnswerTo, Isolation

IsoInv == Typed /\ CurrentRan /\ Isolated

\* A caller that takes the head of its replies and may keep the call it names.
LEMMA CallerIsolated ==
  ASSUME IsoInv, NEW c \in Calls,
         \/ Connect(c) \/ ConnectFails(c) \/ SendLength(c) \/ SendPacket(c)
         \/ SendFails(c) \/ RecvSize(c) \/ RecvSizeFails(c)
         \/ RecvPacket(c) \/ RecvPacketFails(c) \/ RecvAnything(c) \/ RecvAnythingFails(c)
  PROVE  CurrentRan' /\ Isolated'
<1> USE DEF IsoInv
<1>1. UNCHANGED <<ran, dpc, current, socket>>
  BY DEF daemonVars, serviceVars, Connect, ConnectFails, SendLength, SendPacket,
         SendFails, RecvSize, RecvSizeFails, RecvPacket, RecvPacketFails, RecvAnything, RecvAnythingFails, TakeReply
<1>2. CurrentRan' /\ OwnSocket'
  BY <1>1 DEF CurrentRan, Busy, Isolated, OwnSocket
<1>3. reply[c] \in Seq(Frame)
  BY DEF Typed, TypeOK
<1>4. UNCHANGED reply \/ (reply[c] # <<>> /\ reply' = [reply EXCEPT ![c] = Tail(reply[c])])
  BY DEF Connect, ConnectFails, SendLength, SendPacket, SendFails, RecvSize,
         RecvSizeFails, RecvPacket, RecvPacketFails, RecvAnything, RecvAnythingFails, TakeReply
<1>5. OwnReplies'
  <2>1. CASE UNCHANGED reply
    BY <1>1, <2>1 DEF Isolated, OwnReplies, AnswerTo
  <2>2. CASE reply[c] # <<>> /\ reply' = [reply EXCEPT ![c] = Tail(reply[c])]
    <3>1. \A k \in DOMAIN reply'[c] :
            k + 1 \in DOMAIN reply[c] /\ reply'[c][k] = reply[c][k + 1]
      BY <1>3, <2>2 DEF Typed, TypeOK
    <3>2. \A x \in Calls : x # c => reply'[x] = reply[x]
      BY <2>2 DEF Typed, TypeOK
    <3>3. QED
      BY <1>1, <3>1, <3>2 DEF Isolated, OwnReplies, AnswerTo
  <2>3. QED
    BY <1>4, <2>1, <2>2
<1>6. \/ UNCHANGED result
      \/ \E r \in {NULL, Garbage} : result' = [result EXCEPT ![c] = r]
      \/ /\ reply[c] # <<>>
         /\ result' = [result EXCEPT ![c] = Head(reply[c]).of.call]
  BY DEF callerVars, Connect, ConnectFails, SendLength, SendPacket, SendFails, RecvSize,
         RecvSizeFails, RecvPacket, RecvPacketFails, RecvAnything, RecvAnythingFails,
         EndWithoutAnswer, EndWithAnswer, EndWithBadSize, TakeReply
<1>7. OwnResults'
  <2>1. CASE UNCHANGED result
    BY <1>1, <2>1 DEF Isolated, OwnResults, AnswerTo
  <2>2. ASSUME NEW r \in {NULL, Garbage}, result' = [result EXCEPT ![c] = r]
        PROVE  OwnResults'
    <3>1. r \notin Calls
      BY RpcAssumption DEF RpcAssumption
    <3>2. QED
      BY <1>1, <2>2, <3>1 DEF Isolated, OwnResults, AnswerTo, Typed, TypeOK
  <2>3. CASE reply[c] # <<>> /\ result' = [result EXCEPT ![c] = Head(reply[c]).of.call]
    <3>1. 1 \in DOMAIN reply[c] /\ Head(reply[c]) = reply[c][1]
      BY <1>3, <2>3
    <3>2. AnswerTo(c, Head(reply[c]).of.call)
      BY <3>1 DEF Isolated, OwnReplies
    <3>3. \A x \in Calls : result'[x] = result[x] \/ AnswerTo(x, result'[x])
      BY <2>3, <3>2 DEF Typed, TypeOK
    <3>4. QED
      BY <1>1, <3>3 DEF Isolated, OwnResults, AnswerTo
  <2>4. QED
    BY <1>6, <2>1, <2>2, <2>3
<1>8. QED
  BY <1>2, <1>5, <1>7 DEF Isolated

LEMMA ServiceIsolated ==
  ASSUME IsoInv, NEW c \in Calls,
         \/ Accept(c) \/ ReadRequest(c) \/ RequestCutShort(c) \/ LocalExecute(c)
         \/ InterfaceNotFound(c) \/ BindSocket(c) \/ Forward(c)
  PROVE  CurrentRan' /\ Isolated'
<1> USE DEF IsoInv
<1>1. UNCHANGED <<ran, dpc, current, reply, result>>
  BY DEF callerVars, daemonVars, Accept, ReadRequest, RequestCutShort, LocalExecute,
         InterfaceNotFound, BindSocket, Forward
<1>2. CurrentRan' /\ OwnReplies' /\ OwnResults'
  BY <1>1 DEF CurrentRan, Busy, Isolated, OwnReplies, OwnResults, AnswerTo
<1>3. CASE BindSocket(c)
  <2>1. \/ socket' = [socket EXCEPT ![Wants[c]] = NULL]
        \/ socket' = [socket EXCEPT ![Wants[c]] = c]
    BY <1>3 DEF BindSocket
  <2>2. Wants[c] \in Interfaces
    BY RpcAssumption DEF RpcAssumption
  <2>3. /\ socket'[Wants[c]] \in {NULL, c}
        /\ \A i \in Interfaces : i # Wants[c] => socket'[i] = socket[i]
    BY <2>1, <2>2 DEF Typed, TypeOK
  <2>4. OwnSocket'
    BY <2>3 DEF Isolated, OwnSocket
  <2>5. QED
    BY <1>2, <2>4 DEF Isolated
<1>4. CASE ~BindSocket(c)
  <2>1. UNCHANGED socket
    BY <1>4 DEF serviceVars, Accept, ReadRequest, RequestCutShort, LocalExecute,
                InterfaceNotFound, Forward
  <2>2. QED
    BY <1>2, <2>1 DEF Isolated, OwnSocket
<1>5. QED
  BY <1>3, <1>4

LEMMA DaemonIsolated ==
  ASSUME IsoInv, NEW d \in Daemons,
         \/ Activate(d) \/ Receive(d) \/ CallbackReturns(d) \/ CallbackFails(d)
         \/ Killed(d) \/ SendResultLength(d) \/ SendResultPacket(d)
  PROVE  CurrentRan' /\ Isolated'
<1> USE DEF IsoInv
<1>1. UNCHANGED <<result, socket>>
  BY DEF callerVars, serviceVars, Activate, Receive, CallbackReturns, CallbackFails,
         Killed, SendResultLength, SendResultPacket, TakePacket,
         handle_activate_interface, Own
<1>2. ran \subseteq ran'
  BY DEF Runs, Activate, Receive, CallbackReturns, CallbackFails,
         Killed, SendResultLength, SendResultPacket, TakePacket,
         handle_activate_interface, Own
<1>3. OwnSocket' /\ OwnResults'
  BY <1>1, <1>2 DEF Isolated, OwnSocket, OwnResults, AnswerTo
<1>4. \A e \in Daemons : e # d => dpc'[e] = dpc[e] /\ current'[e] = current[e]
  BY DEF Typed, TypeOK, Activate, Receive, CallbackReturns, CallbackFails,
         Killed, SendResultLength, SendResultPacket, Dies, TakePacket,
         handle_activate_interface, Own
<1>5. CurrentRan'
  <2>1. Busy(d)' => current'[d].call \in ran'
    <3>1. CASE Receive(d)
      <4>1. CASE UNCHANGED <<dpc, current, ran, ranAgain>>
        BY <4>1 DEF CurrentRan, Busy
      <4>2. CASE /\ current' = [current EXCEPT ![d] = Head(queue[d])]
                 /\ Runs(Head(queue[d]).call)
        BY <4>2 DEF Typed, TypeOK, Runs
      <4>3. QED
        BY <3>1, <4>1, <4>2 DEF Receive, TakePacket
    <3>2. CASE ~Receive(d)
      <4>1. UNCHANGED <<current, ran>>
        BY <3>2 DEF Activate, CallbackReturns, CallbackFails, Killed,
                    SendResultLength, SendResultPacket,
         handle_activate_interface, Own
      <4>2. Busy(d)' => Busy(d)
        BY <3>2 DEF Busy, Typed, TypeOK, Activate, CallbackReturns, CallbackFails, Killed,
                    SendResultLength, SendResultPacket, Dies,
         handle_activate_interface, Own
      <4>3. QED
        BY <4>1, <4>2 DEF CurrentRan
    <3>3. QED
      BY <3>1, <3>2
  <2>2. QED
    BY <1>2, <1>4, <2>1 DEF CurrentRan, Busy
<1>6. OwnReplies'
  <2>1. CASE UNCHANGED reply
    BY <1>2, <2>1 DEF Isolated, OwnReplies, AnswerTo
  <2>2. ASSUME NEW kind \in {"length", "packet"}, Busy(d), AnswerSocket(d) # NULL,
               SendFrame(d, kind)
        PROVE  OwnReplies'
    <3> DEFINE s == AnswerSocket(d)
               f == [kind |-> kind, of |-> current[d]]
    <3>1. current[d] \in Packet
      BY <2>2 DEF Typed, HoldsPacket
    <3>2. current[d].call \in Calls /\ Wants[current[d].call] \in Interfaces
      BY <3>1, RpcAssumption DEF Packet, RpcAssumption
    <3>3. s \in Calls /\ Wants[s] = Wants[current[d].call]
      BY <2>2, <3>2 DEF AnswerSocket, Isolated, OwnSocket, Typed, TypeOK
    <3>4. reply' = [reply EXCEPT ![s] = Append(reply[s], f)]
      BY <2>2 DEF SendFrame
    <3>5. f.of.call \in ran
      BY <2>2 DEF CurrentRan
    <3>6. reply[s] \in Seq(Frame)
      BY <3>3 DEF Typed, TypeOK
    <3>7. \A k \in DOMAIN reply'[s] :
            (k \in DOMAIN reply[s] /\ reply'[s][k] = reply[s][k]) \/ reply'[s][k] = f
      <4>1. reply'[s] = Append(reply[s], f)
        BY <3>3, <3>4 DEF Typed, TypeOK
      <4> HIDE DEF s, f
      <4>2. QED
        BY <3>6, <4>1
    <3>8. \A x \in Calls : x # s => reply'[x] = reply[x]
      BY <3>3, <3>4 DEF Typed, TypeOK
    <3>9. AnswerTo(s, f.of.call)
      BY <3>3, <3>5 DEF AnswerTo
    <3> HIDE DEF s, f
    <3>10. QED
      BY <1>2, <3>7, <3>8, <3>9 DEF Isolated, OwnReplies, AnswerTo
  <2>3. QED
    BY <2>1, <2>2 DEF Busy, Activate, Receive, CallbackReturns, CallbackFails,
                      Killed, SendResultLength, SendResultPacket, TakePacket,
         handle_activate_interface, Own
<1>7. QED
  BY <1>3, <1>5, <1>6 DEF Isolated

LEMMA NextIsolated == IsoInv /\ [Next]_vars => IsoInv'
<1> SUFFICES ASSUME IsoInv, [Next]_vars PROVE CurrentRan' /\ Isolated'
  BY NextTyped DEF IsoInv
<1> USE DEF IsoInv, CurrentRan, Busy, Isolated, OwnSocket, OwnReplies, OwnResults, AnswerTo
<1>1. CASE AcceptFails
  BY <1>1 DEF AcceptFails, callerVars, daemonVars
<1>2. ASSUME NEW i \in Interfaces, Register(i) PROVE CurrentRan' /\ Isolated'
  BY <1>2 DEF Register, callerVars, serviceVars, daemonVars
<1>3. CASE UNCHANGED vars
  BY <1>3 DEF vars, callerVars, serviceVars, daemonVars
<1>4. QED
  BY <1>1, <1>2, <1>3, CallerIsolated, ServiceIsolated, DaemonIsolated
  DEF Next, CallerStep, ServiceStep, DaemonStep

LEMMA InitIsolated == Init => IsoInv
<1> SUFFICES ASSUME Init PROVE CurrentRan /\ Isolated
  BY InitTyped DEF IsoInv
<1>1. \A c \in Calls : reply[c] = <<>>
  BY DEF Init
<1>2. \A c \in Calls : result[c] = NULL /\ NULL \notin Calls
  BY RpcAssumption DEF Init, RpcAssumption
<1>3. CurrentRan
  BY DEF Init, CurrentRan, Busy
<1>4. OwnSocket
  <2>1. \A i \in Interfaces : socket[i] = NULL
    BY DEF Init
  <2>2. QED
    BY <2>1 DEF OwnSocket
<1>5. OwnReplies
  <2> SUFFICES ASSUME NEW c \in Calls, NEW k \in DOMAIN reply[c]
               PROVE  AnswerTo(c, reply[c][k].of.call)
    BY DEF OwnReplies
  <2>1. reply[c] = <<>>
    BY <1>1
  <2>2. DOMAIN <<>> = {}
    OBVIOUS
  <2>3. QED
    BY <2>1, <2>2
<1>6. OwnResults
  BY <1>2 DEF OwnResults
<1>7. QED
  BY <1>3, <1>4, <1>5, <1>6 DEF Isolated

(***************************************************************************)
(* Isolation of interfaces, whatever happens between the two places where  *)
(* ctrl->socket is written and read.                                       *)
(***************************************************************************)
THEOREM IsolationHolds == Spec => []Isolation
<1>1. IsoInv => Isolation
  BY IsolatedIsIsolation DEF IsoInv
<1>2. QED
  BY <1>1, InitIsolated, NextIsolated, PTL DEF Spec
=============================================================================
