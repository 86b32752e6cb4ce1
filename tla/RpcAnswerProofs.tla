---------------------------- MODULE RpcAnswerProofs ----------------------------
(***************************************************************************)
(* Proofs about the answers of Rpc, for every set of calls, interfaces and *)
(* daemons, every queue bound and every set of faults, with callers that   *)
(* overlap: how the two writes of an answer stand on the connections, and  *)
(* where the answer of one execution can end up.                           *)
(***************************************************************************)
EXTENDS RpcProofs

-----------------------------------------------------------------------------
(* A connection is written to by one daemon only, the one that serves the  *)
(* interface of its caller, and not before its thread has bound it to the  *)
(* ctrl.  Nothing binds it again.                                          *)

Server(c) == ServedBy[Wants[c]]

Served ==
  /\ \A i \in Interfaces : client_portid[i] # NULL => client_portid[i] = ServedBy[i]
  /\ \A d \in Daemons : \A k \in DOMAIN queue[d] : Server(queue[d][k].call) = d
  /\ \A d \in Daemons : Busy(d) => Server(current[d].call) = d

WasBound(c) == h[c] \in {"bound", "end"}

Bound ==
  /\ \A i \in Interfaces : socket[i] # NULL => WasBound(socket[i])
  /\ \A c \in Calls : reply[c] # <<>> \/ pc[c] = "waitPacket" => WasBound(c)

-----------------------------------------------------------------------------
(* The length that was written or read last on a connection.               *)

LastFrame(c) == reply[c][Len(reply[c])]

\* Its packet has not been written.
Open(c) ==
  IF reply[c] = <<>> THEN pc[c] = "waitPacket" ELSE LastFrame(c).kind = "length"

\* It is the length of p.
Announces(c, p) ==
  IF reply[c] = <<>> THEN size[c] = p.call ELSE LastFrame(c).of = p

\* The daemon is about to write the packet, or never writes to c again.
OpenHeld ==
  \A c \in Calls : Open(c) =>
    \/ dpc[Server(c)] = "dead"
    \/ socket[Wants[c]] # c
    \/ /\ dpc[Server(c)] = "sendPacket"
       /\ Wants[current[Server(c)].call] = Wants[c]
       /\ Announces(c, current[Server(c)])

\* The two parts of FrameIntact.
InPairs(c) ==
  \A k \in 1 .. Len(reply[c]) - 1 :
    reply[c][k].kind = "length" =>
      reply[c][k + 1].kind = "packet" /\ reply[c][k + 1].of = reply[c][k].of

PacketNext(c) ==
  pc[c] = "waitPacket" /\ reply[c] # <<>> =>
    Head(reply[c]).kind = "packet" /\ Head(reply[c]).of.call = size[c]

LEMMA FrameIntactParts ==
  ASSUME TypeOK, \A c \in Calls : InPairs(c) /\ PacketNext(c)
  PROVE  FrameIntact
<1> SUFFICES ASSUME NEW c \in Calls, NEW k \in 1 .. Len(reply[c]) - 1,
                    reply[c][k].kind = "length"
             PROVE  reply[c][k + 1] = [reply[c][k] EXCEPT !.kind = "packet"]
  BY DEF FrameIntact, PacketNext
<1>1. reply[c] \in Seq(Frame)
  BY DEF TypeOK
<1>2. reply[c][k] \in Frame /\ reply[c][k + 1] \in Frame
  BY <1>1
<1>3. reply[c][k + 1].kind = "packet" /\ reply[c][k + 1].of = reply[c][k].of
  BY DEF InPairs
<1> DEFINE f == reply[c][k]
           g == reply[c][k + 1]
<1> HIDE DEF f, g
<1>4. ASSUME f \in Frame, g \in Frame, g.kind = "packet", g.of = f.of
      PROVE  g = [f EXCEPT !.kind = "packet"]
  BY <1>4 DEF Frame
<1>5. QED
  BY <1>2, <1>3, <1>4 DEF f, g

FrameInv ==
  /\ OnceInv /\ IsoInv
  /\ Served /\ Bound /\ OpenHeld
  /\ \A c \in Calls : InPairs(c) /\ PacketNext(c)

-----------------------------------------------------------------------------
(* Connections as sequences.                                               *)

LEMMA TailOfReply ==
  ASSUME NEW s \in Seq(Frame), s # <<>>
  PROVE  /\ Head(s) = s[1] /\ Tail(s) \in Seq(Frame) /\ Len(Tail(s)) = Len(s) - 1
         /\ Len(s) \in Nat \ {0}
         /\ \A k \in 1 .. Len(s) - 1 : Tail(s)[k] = s[k + 1]
         /\ Tail(s) = <<>> => Len(s) = 1
         /\ Tail(s) # <<>> => Len(s) > 1 /\ Tail(s)[Len(Tail(s))] = s[Len(s)]
<1>1. /\ Head(s) = s[1] /\ Tail(s) \in Seq(Frame) /\ Len(Tail(s)) = Len(s) - 1
      /\ Len(s) \in Nat \ {0}
  OBVIOUS
<1>2. \A k \in 1 .. Len(s) - 1 : Tail(s)[k] = s[k + 1]
  OBVIOUS
<1>3. Tail(s) = <<>> => Len(Tail(s)) = 0
  <2>1. Len(<<>>) = 0
    OBVIOUS
  <2>2. QED
    BY <2>1, Zenon
<1>4. Tail(s) # <<>> => Len(Tail(s)) > 0
  BY <1>1
<1>5. QED
  BY <1>1, <1>2, <1>3, <1>4

LEMMA AppendToReply ==
  ASSUME NEW s \in Seq(Frame), NEW f \in Frame
  PROVE  /\ Append(s, f) \in Seq(Frame) /\ Append(s, f) # <<>>
         /\ Len(Append(s, f)) = Len(s) + 1
         /\ \A k \in 1 .. Len(s) : Append(s, f)[k] = s[k]
         /\ Append(s, f)[Len(s) + 1] = f
         /\ Head(Append(s, f)) = IF s = <<>> THEN f ELSE Head(s)
OBVIOUS

-----------------------------------------------------------------------------
(* What the steps of a caller do to its connection.                        *)

CallerAction(c) ==
  \/ Connect(c) \/ ConnectFails(c) \/ SendLength(c) \/ SendPacket(c)
  \/ SendFails(c) \/ RecvSize(c) \/ RecvSizeFails(c)
  \/ RecvPacket(c) \/ RecvPacketFails(c) \/ RecvAnything(c) \/ RecvAnythingFails(c)

\* It leaves the connection alone.
Looks(c) ==
  /\ reply' = reply /\ size' = size
  /\ pc'[c] # "waitPacket"
  /\ \/ result' = result
     \/ result'[c] \in {NULL, Garbage}

TakesLength(c) ==
  /\ reply[c] # <<>> /\ reply' = [reply EXCEPT ![c] = Tail(reply[c])]
  /\ Head(reply[c]).kind = "length"
  /\ pc'[c] = "waitPacket"
  /\ size' = [size EXCEPT ![c] = Head(reply[c]).of.call]
  /\ result' = result

TakesPacket(c) ==
  /\ reply[c] # <<>> /\ reply' = [reply EXCEPT ![c] = Tail(reply[c])]
  /\ size' = size
  /\ pc'[c] # "waitPacket"
  /\ \/ result' = result
     \/ result'[c] \in {NULL, Garbage}
     \/ /\ pc[c] = "waitPacket" \/ Head(reply[c]).kind = "packet"
        /\ result'[c] = Head(reply[c]).of.call

LEMMA CallerEffect ==
  ASSUME TypeOK, NEW c \in Calls, CallerAction(c)
  PROVE  /\ UNCHANGED <<socket, client_portid, queue, dpc, current, ran>>
         /\ \A x \in Calls : x # c => pc'[x] = pc[x] /\ result'[x] = result[x]
         /\ Looks(c) \/ TakesLength(c) \/ TakesPacket(c)
<1> USE DEF TypeOK, Looks, EndWithoutAnswer, EndWithAnswer, EndWithBadSize,
            callerVars, serviceVars, ctrlVars, daemonVars
<1>1. CASE Connect(c)
  BY <1>1 DEF Connect
<1>2. CASE ConnectFails(c)
  BY <1>2 DEF ConnectFails
<1>3. CASE SendLength(c)
  BY <1>3 DEF SendLength
<1>4. CASE SendPacket(c)
  BY <1>4 DEF SendPacket
<1>5. CASE SendFails(c)
  BY <1>5 DEF SendFails
<1>6. CASE RecvSize(c)
  BY <1>6 DEF RecvSize, TakeReply, TakesLength, TakesPacket
<1>7. CASE RecvSizeFails(c)
  BY <1>7 DEF RecvSizeFails
<1>8. CASE RecvPacket(c)
  BY <1>8 DEF RecvPacket, TakeReply, TakesPacket
<1>9. CASE RecvPacketFails(c)
  BY <1>9 DEF RecvPacketFails
<1>10. CASE RecvAnything(c)
  BY <1>10 DEF RecvAnything, TakeReply, TakesPacket
<1>11. CASE RecvAnythingFails(c)
  BY <1>11 DEF RecvAnythingFails
<1>12. QED
  BY <1>1, <1>2, <1>3, <1>4, <1>5, <1>6, <1>7, <1>8, <1>9, <1>10, <1>11 DEF CallerAction

FrameParts == Served /\ Bound /\ OpenHeld /\ \A x \in Calls : InPairs(x) /\ PacketNext(x)

LEMMA BoundForGood ==
  ASSUME OnceInv, NEW c \in Calls, CallerAction(c)
  PROVE  \A x \in Calls : WasBound(x) => WasBound(x)'
<1>1. CASE Connect(c)
  <2>1. h[c] = "none"
    BY <1>1 DEF OnceInv, Fresh, Connect, CanCall
  <2>2. \A x \in Calls : x # c => h'[x] = h[x]
    BY <1>1 DEF Connect, OnceInv, Typed, TypeOK
  <2>3. QED
    BY <2>1, <2>2 DEF WasBound
<1>2. CASE ~Connect(c)
  BY <1>2 DEF CallerAction, WasBound, serviceVars, ConnectFails, SendLength, SendPacket,
              SendFails, RecvSize, RecvSizeFails, RecvPacket, RecvPacketFails, RecvAnything, RecvAnythingFails
<1>3. QED
  BY <1>1, <1>2

LEMMA CallerFrames ==
  ASSUME FrameInv, NEW c \in Calls, CallerAction(c)
  PROVE  FrameParts'
<1> USE DEF FrameInv
<1>1. TypeOK /\ OnceInv
  BY DEF OnceInv, Typed
<1>2. /\ UNCHANGED <<socket, client_portid, queue, dpc, current, ran>>
      /\ \A x \in Calls : x # c => pc'[x] = pc[x]
      /\ Looks(c) \/ TakesLength(c) \/ TakesPacket(c)
  BY <1>1, CallerEffect
<1>3. \A x \in Calls : WasBound(x) => WasBound(x)'
  BY <1>1, BoundForGood
<1>4. Served'
  BY <1>2 DEF Served, Busy, Server
<1>5. /\ \A x \in Calls : x # c => reply'[x] = reply[x] /\ size'[x] = size[x]
      /\ reply[c] \in Seq(Frame) /\ reply'[c] \in {reply[c], Tail(reply[c])}
      /\ reply'[c] # <<>> => reply[c] # <<>>
  <2>1. reply \in [Calls -> Seq(Frame)] /\ size \in [Calls -> Calls \cup {NULL}]
    BY <1>1 DEF TypeOK
  <2>2. QED
    BY <1>2, <2>1 DEF Looks, TakesLength, TakesPacket
<1>6. Bound'
  <2>1. \A i \in Interfaces : socket'[i] # NULL => socket[i] \in Calls
    BY <1>1, <1>2 DEF TypeOK
  <2>2. \A i \in Interfaces : socket'[i] # NULL => WasBound(socket[i])'
    BY <1>2, <1>3, <2>1 DEF Bound, WasBound
  <2>3. pc'[c] = "waitPacket" => reply[c] # <<>>
    BY <1>2 DEF Looks, TakesLength, TakesPacket
  <2>4. \A x \in Calls : reply'[x] # <<>> \/ pc'[x] = "waitPacket" => WasBound(x)'
    BY <1>2, <1>3, <1>5, <2>3 DEF Bound
  <2>5. QED
    BY <2>2, <2>4 DEF Bound, WasBound
<1>7. \A x \in Calls : x # c =>
        /\ InPairs(x)' /\ PacketNext(x)'
        /\ Open(x)' => Open(x)
        /\ \A p : Announces(x, p) => Announces(x, p)'
  BY <1>2, <1>5 DEF InPairs, PacketNext, Open, Announces, LastFrame
<1>8. /\ InPairs(c)' /\ PacketNext(c)'
      /\ Open(c)' => Open(c)
      /\ Open(c)' => \A p : Announces(c, p) => Announces(c, p)'
  <2>1. CASE Looks(c)
    BY <1>5, <2>1 DEF Looks, InPairs, PacketNext, Open, Announces, LastFrame
  <2>2. CASE TakesLength(c) \/ TakesPacket(c)
    <3> DEFINE s == reply[c]
               t == Tail(s)
    <3>1. /\ s \in Seq(Frame) /\ s # <<>> /\ reply'[c] = t
          /\ InPairs(c) /\ PacketNext(c)
      BY <1>1, <1>5, <2>2 DEF TakesLength, TakesPacket, TypeOK
    <3>2. /\ Head(s) = s[1] /\ t \in Seq(Frame) /\ Len(t) = Len(s) - 1
          /\ Len(s) \in Nat \ {0}
          /\ \A k \in 1 .. Len(s) - 1 : t[k] = s[k + 1]
          /\ t = <<>> => Len(s) = 1
          /\ t # <<>> => Len(s) > 1 /\ t[Len(t)] = s[Len(s)] /\ Head(t) = t[1]
      BY <3>1, TailOfReply
    <3> HIDE DEF s, t
    <3>3. \A k \in 1 .. Len(s) - 1 :
            s[k].kind = "length" => s[k + 1].kind = "packet" /\ s[k + 1].of = s[k].of
      BY <3>1 DEF InPairs, s
    <3>4. \A k \in 1 .. Len(t) - 1 :
            t[k].kind = "length" => t[k + 1].kind = "packet" /\ t[k + 1].of = t[k].of
      <4> SUFFICES ASSUME NEW k \in 1 .. Len(t) - 1, t[k].kind = "length"
                   PROVE  t[k + 1].kind = "packet" /\ t[k + 1].of = t[k].of
        OBVIOUS
      <4>1. k \in 1 .. Len(s) - 1 /\ k + 1 \in 1 .. Len(s) - 1
        BY <3>2
      <4>2. t[k] = s[k + 1] /\ t[k + 1] = s[(k + 1) + 1]
        BY <3>2, <4>1
      <4>3. QED
        BY <3>3, <4>1, <4>2
    <3>5. InPairs(c)'
      BY <3>1, <3>4 DEF InPairs
    <3>6. CASE TakesLength(c)
      <4>1. s[1].kind = "length" /\ pc'[c] = "waitPacket" /\ size'[c] = s[1].of.call
        BY <1>1, <3>2, <3>6 DEF TakesLength, TypeOK, s
      <4>2. PacketNext(c)'
        BY <3>1, <3>2, <3>3, <4>1 DEF PacketNext
      <4>3. Open(c)' => Open(c)
        BY <3>1, <3>2, <4>1 DEF Open, LastFrame, s
      <4>4. \A p : Announces(c, p) => Announces(c, p)'
        BY <3>1, <3>2, <4>1 DEF Announces, LastFrame, s
      <4>5. QED
        BY <3>5, <4>2, <4>3, <4>4
    <3>7. CASE TakesPacket(c)
      <4>1. pc'[c] # "waitPacket"
        BY <3>7 DEF TakesPacket
      <4>2. QED
        BY <3>1, <3>2, <3>5, <4>1 DEF PacketNext, Open, Announces, LastFrame, s
    <3>8. QED
      BY <2>2, <3>6, <3>7
  <2>3. QED
    BY <1>2, <2>1, <2>2
<1>9. OpenHeld'
  <2> SUFFICES ASSUME NEW x \in Calls, Open(x)'
               PROVE  \/ dpc[Server(x)] = "dead"
                      \/ socket[Wants[x]] # x
                      \/ /\ dpc[Server(x)] = "sendPacket"
                         /\ Wants[current[Server(x)].call] = Wants[x]
                         /\ Announces(x, current[Server(x)])'
    BY <1>2 DEF OpenHeld, Announces, LastFrame, Server
  <2>1. Open(x) /\ \A p : Announces(x, p) => Announces(x, p)'
    BY <1>7, <1>8
  <2>2. current'[Server(x)] = current[Server(x)]
    BY <1>2 DEF Server
  <2>3. QED
    BY <2>1, <2>2 DEF OpenHeld, Announces, LastFrame
<1>10. QED
  BY <1>4, <1>6, <1>7, <1>8, <1>9 DEF FrameParts

LEMMA ServiceFrames ==
  ASSUME FrameInv, NEW c \in Calls,
         \/ Accept(c) \/ ReadRequest(c) \/ RequestCutShort(c) \/ LocalExecute(c)
         \/ InterfaceNotFound(c) \/ BindSocket(c) \/ Forward(c)
  PROVE  FrameParts'
<1> USE DEF FrameInv
<1>1. TypeOK /\ Typed
  BY DEF OnceInv, Typed
<1>2. UNCHANGED <<pc, size, reply, client_portid, dpc, current>>
  BY DEF callerVars, ctrlVars, daemonVars, Accept, ReadRequest, RequestCutShort, LocalExecute,
         InterfaceNotFound, BindSocket, Forward
<1>3. \A x \in Calls : WasBound(x) => WasBound(x)'
  <2>1. \A x \in Calls : x # c => h'[x] = h[x]
    BY <1>1 DEF TypeOK, Accept, ReadRequest, RequestCutShort, LocalExecute, InterfaceNotFound,
                BindSocket, Forward
  <2>2. WasBound(c) => WasBound(c)'
    BY <1>1 DEF TypeOK, WasBound, Accept, ReadRequest, RequestCutShort, LocalExecute,
                InterfaceNotFound, BindSocket, Forward
  <2>3. QED
    BY <2>1, <2>2 DEF WasBound
<1>4. \A x \in Calls : InPairs(x)' /\ PacketNext(x)' /\ (Open(x)' <=> Open(x))
  BY <1>2 DEF InPairs, PacketNext, Open, LastFrame
<1>5. CASE BindSocket(c)
  <2>1. UNCHANGED queue
    BY <1>5 DEF BindSocket, daemonVars
  <2>2. Served'
    BY <1>2, <2>1 DEF Served, Busy, Server
  <2>3. /\ Wants[c] \in Interfaces /\ socket'[Wants[c]] \in {NULL, c}
        /\ \A i \in Interfaces : i # Wants[c] => socket'[i] = socket[i]
        /\ \A x \in Calls : Wants[x] \in Interfaces
    BY <1>1, <1>5, RpcAssumption DEF TypeOK, BindSocket, RpcAssumption
  <2>4. h[c] = "execute" /\ h'[c] = "bound"
    BY <1>1, <1>5 DEF TypeOK, BindSocket
  <2>5. Bound'
    <3>1. \A i \in Interfaces : socket[i] # NULL => socket[i] \in Calls
      BY <1>1 DEF TypeOK
    <3>2. \A i \in Interfaces : socket'[i] # NULL => WasBound(socket[i])'
      BY <1>3, <2>3, <2>4, <3>1 DEF Bound, WasBound
    <3>3. QED
      BY <1>2, <1>3, <3>2 DEF Bound, WasBound
  <2>6. ~Open(c)
    BY <2>4 DEF Open, Bound, WasBound
  <2>7. \A x \in Calls : Open(x) /\ socket[Wants[x]] # x => socket'[Wants[x]] # x
    BY <2>3, <2>6, RpcAssumption DEF RpcAssumption
  <2>8. OpenHeld'
    BY <1>2, <1>4, <2>7 DEF OpenHeld, Announces, LastFrame, Server
  <2>9. QED
    BY <1>4, <2>2, <2>5, <2>8 DEF FrameParts
<1>6. CASE ~BindSocket(c)
  <2>1. UNCHANGED socket
    BY <1>6 DEF serviceVars, Accept, ReadRequest, RequestCutShort, LocalExecute,
                InterfaceNotFound, Forward
  <2>2. OpenHeld'
    BY <1>2, <1>4, <2>1 DEF OpenHeld, Announces, LastFrame, Server
  <2>3. Bound'
    <3>1. \A i \in Interfaces : socket[i] # NULL => socket[i] \in Calls
      BY <1>1 DEF TypeOK
    <3>2. QED
      BY <1>2, <1>3, <2>1, <3>1 DEF Bound, WasBound
  <2>4. Served'
    <3>1. CASE UNCHANGED queue
      BY <1>2, <3>1 DEF Served, Busy, Server
    <3>2. CASE ~UNCHANGED queue
      <4> DEFINE d == client_portid[Wants[c]]
      <4>1. PICK w \in BOOLEAN :
              /\ d # NULL
              /\ queue' = [queue EXCEPT ![d] = Append(@, [call |-> c, whole |-> w])]
        BY <1>6, <3>2 DEF Forward, Reachable, daemonVars, Accept, ReadRequest, RequestCutShort,
                          LocalExecute, InterfaceNotFound
      <4>2. Wants[c] \in Interfaces
        BY RpcAssumption DEF RpcAssumption
      <4>3. d = Server(c) /\ d \in Daemons
        BY <1>1, <4>1, <4>2 DEF Served, Server, TypeOK
      <4> HIDE DEF d
      <4>4. [call |-> c, whole |-> w] \in Packet
        BY DEF Packet
      <4>5. \A e \in Daemons : \A k \in DOMAIN queue'[e] :
              \/ k \in DOMAIN queue[e] /\ queue'[e][k] = queue[e][k]
              \/ e = d /\ queue'[e][k].call = c
        <5>1. \A e \in Daemons : e # d => queue'[e] = queue[e]
          BY <1>1, <4>1, <4>3 DEF TypeOK
        <5>2. queue[d] \in Seq(Packet) /\ queue'[d] = Append(queue[d], [call |-> c, whole |-> w])
          BY <1>1, <4>1, <4>3 DEF TypeOK
        <5>3. \A k \in DOMAIN queue'[d] :
                \/ k \in DOMAIN queue[d] /\ queue'[d][k] = queue[d][k]
                \/ queue'[d][k] = [call |-> c, whole |-> w]
          BY <4>4, <5>2
        <5>4. QED
          BY <5>1, <5>3
      <4>6. \A e \in Daemons : \A k \in DOMAIN queue'[e] : Server(queue[e][k].call)' = e
        BY <4>3, <4>5 DEF Served, Server
      <4>7. QED
        BY <1>2, <4>6 DEF Served, Busy, Server
    <3>3. QED
      BY <3>1, <3>2
  <2>5. QED
    BY <1>4, <2>2, <2>3, <2>4 DEF FrameParts
<1>7. QED
  BY <1>5, <1>6

-----------------------------------------------------------------------------
(* What the steps of a daemon do.                                          *)

DaemonAction(d) ==
  \/ Activate(d) \/ Receive(d) \/ CallbackReturns(d) \/ CallbackFails(d)
  \/ Killed(d) \/ SendResultLength(d) \/ SendResultPacket(d)

\* It writes to no connection.
Silent(d) == reply' = reply

Writes(d, kind) ==
  /\ AnswerSocket(d) # NULL
  /\ reply' = [reply EXCEPT ![AnswerSocket(d)] =
                 Append(@, [kind |-> kind, of |-> current[d]])]
  /\ current' = current

LEMMA DaemonEffect ==
  ASSUME TypeOK, NEW d \in Daemons, DaemonAction(d)
  PROVE  /\ UNCHANGED <<pc, size, result, h, socket>>
         /\ dpc[d] # "dead"
         /\ \A e \in Daemons : e # d =>
              dpc'[e] = dpc[e] /\ current'[e] = current[e] /\ queue'[e] = queue[e]
         /\ \/ Silent(d) /\ dpc[d] # "sendPacket"
            \/ Silent(d) /\ dpc[d] = "sendPacket" /\ dpc'[d] = "dead"
            \/ Writes(d, "length") /\ dpc[d] = "sendLength" /\ dpc'[d] = "sendPacket"
            \/ Writes(d, "packet") /\ dpc[d] = "sendPacket" /\ dpc'[d] \in {"dead", "listening"}
<1> USE DEF TypeOK, Silent, Writes, Dies, callerVars, serviceVars, ctrlVars
<1>1. CASE Activate(d)
  BY <1>1 DEF Activate
<1>2. CASE Receive(d)
  BY <1>2 DEF Receive, TakePacket
<1>3. CASE CallbackReturns(d)
  BY <1>3 DEF CallbackReturns
<1>4. CASE CallbackFails(d)
  BY <1>4 DEF CallbackFails
<1>5. CASE Killed(d)
  BY <1>5 DEF Killed
<1>6. CASE SendResultLength(d)
  BY <1>6 DEF SendResultLength, SendFrame
<1>7. CASE SendResultPacket(d)
  BY <1>7 DEF SendResultPacket, SendFrame
<1>8. QED
  BY <1>1, <1>2, <1>3, <1>4, <1>5, <1>6, <1>7 DEF DaemonAction

LEMMA DaemonServed ==
  ASSUME TypeOK, Served, NEW d \in Daemons, DaemonAction(d)
  PROVE  Served'
<1>1. \A i \in Interfaces : client_portid'[i] # NULL => client_portid'[i] = ServedBy[i]
  <2>1. CASE Activate(d)
    BY <2>1 DEF TypeOK, Served, Activate, handle_activate_interface, Own
  <2>2. CASE ~Activate(d)
    BY <2>2 DEF DaemonAction, Served, ctrlVars, Receive, CallbackReturns, CallbackFails, Killed,
                SendResultLength, SendResultPacket
  <2>3. QED
    BY <2>1, <2>2
<1>2. \A e \in Daemons : e # d =>
        dpc'[e] = dpc[e] /\ current'[e] = current[e] /\ queue'[e] = queue[e]
  BY DaemonEffect
<1>3. CASE Receive(d)
  <2>1. queue[d] \in Seq(Packet) /\ queue[d] # <<>> /\ queue'[d] = Tail(queue[d])
    BY <1>3 DEF TypeOK, Receive, TakePacket
  <2>2. /\ Head(queue[d]) = queue[d][1] /\ 1 \in DOMAIN queue[d]
        /\ \A k \in DOMAIN queue'[d] : k + 1 \in DOMAIN queue[d] /\ queue'[d][k] = queue[d][k + 1]
    BY <2>1
  <2>3. Server(Head(queue[d]).call) = d
    BY <2>2 DEF Served
  <2>4. \A k \in DOMAIN queue'[d] : Server(queue'[d][k].call) = d
    BY <2>2 DEF Served
  <2>5. Busy(d)' => Server(current'[d].call) = d
    BY <1>3, <2>3 DEF TypeOK, Served, Receive, TakePacket, Busy
  <2>6. QED
    BY <1>1, <1>2, <2>4, <2>5 DEF Served, Busy, Server
<1>4. CASE ~Receive(d)
  <2>1. current' = current
    BY <1>4 DEF DaemonAction, Activate, CallbackReturns, CallbackFails, Killed,
                SendResultLength, SendResultPacket
  <2>2. queue'[d] \in {queue[d], <<>>}
    BY <1>4 DEF DaemonAction, TypeOK, Dies, Activate, CallbackReturns, CallbackFails, Killed,
                SendResultLength, SendResultPacket
  <2>3. Busy(d)' => Busy(d)
    BY <1>4 DEF DaemonAction, TypeOK, Busy, Dies, Activate, CallbackReturns, CallbackFails,
                Killed, SendResultLength, SendResultPacket
  <2>4. \A k \in DOMAIN queue'[d] : Server(queue'[d][k].call) = d
    <3>1. DOMAIN <<>> = {}
      OBVIOUS
    <3>2. CASE queue'[d] = <<>>
      BY <3>1, <3>2, Zenon
    <3>3. CASE queue'[d] = queue[d]
      BY <3>3 DEF Served
    <3>4. QED
      BY <2>2, <3>2, <3>3
  <2>5. QED
    BY <1>1, <1>2, <2>1, <2>3, <2>4 DEF Served, Busy, Server
<1>5. QED
  BY <1>3, <1>4

\* The connection that a busy daemon writes to.
LEMMA AnswerSocketFacts ==
  ASSUME FrameInv, NEW d \in Daemons, Busy(d), AnswerSocket(d) # NULL
  PROVE  /\ current[d] \in Packet /\ current[d].call \in Calls
         /\ AnswerSocket(d) \in Calls
         /\ Wants[AnswerSocket(d)] = Wants[current[d].call]
         /\ Server(AnswerSocket(d)) = d
         /\ socket[Wants[AnswerSocket(d)]] = AnswerSocket(d)
<1>1. current[d] \in Packet
  BY DEF FrameInv, OnceInv, Typed, HoldsPacket
<1>2. current[d].call \in Calls /\ Wants[current[d].call] \in Interfaces
  BY <1>1, RpcAssumption DEF Packet, RpcAssumption
<1>3. AnswerSocket(d) \in Calls
  BY <1>2 DEF FrameInv, OnceInv, Typed, TypeOK, AnswerSocket
<1>4. Wants[AnswerSocket(d)] = Wants[current[d].call]
  BY <1>2 DEF FrameInv, IsoInv, Isolated, OwnSocket, AnswerSocket
<1>5. Server(AnswerSocket(d)) = d
  BY <1>4 DEF FrameInv, Served, Server
<1>6. QED
  BY <1>1, <1>2, <1>3, <1>4, <1>5 DEF AnswerSocket

\* A frame f at the end of a connection s.
LEMMA WriteFrame ==
  ASSUME FrameInv, UNCHANGED <<pc, size>>, NEW s \in Calls, NEW f \in Frame,
         reply' = [reply EXCEPT ![s] = Append(@, f)],
         Open(s) => f.kind = "packet" /\ Announces(s, f.of)
  PROVE  /\ \A x \in Calls : InPairs(x)' /\ PacketNext(x)'
         /\ \A x \in Calls : x # s =>
              reply'[x] = reply[x] /\ (Open(x)' <=> Open(x))
         /\ reply'[s] # <<>> /\ LastFrame(s)' = f
         /\ Open(s)' <=> f.kind = "length"
<1> DEFINE r == reply[s]
           q == Append(r, f)
<1>1. r \in Seq(Frame) /\ reply'[s] = q /\ \A x \in Calls : x # s => reply'[x] = reply[x]
  BY DEF FrameInv, OnceInv, Typed, TypeOK
<1>2. /\ q \in Seq(Frame) /\ q # <<>>
      /\ Len(q) = Len(r) + 1
      /\ \A k \in 1 .. Len(r) : q[k] = r[k]
      /\ q[Len(r) + 1] = f
      /\ Head(q) = IF r = <<>> THEN f ELSE Head(r)
  BY <1>1, AppendToReply
<1>3. /\ r = <<>> => Len(r) = 0
      /\ Len(r) \in Nat
  <2>1. Len(<<>>) = 0
    OBVIOUS
  <2>2. r = <<>> => Len(r) = 0
    BY <2>1, Zenon
  <2>3. QED
    BY <1>1, <2>2
<1>4. InPairs(s) /\ PacketNext(s)
  BY DEF FrameInv
<1>5. \A x \in Calls : x # s =>
        /\ InPairs(x)' /\ PacketNext(x)'
        /\ reply'[x] = reply[x] /\ (Open(x)' <=> Open(x))
  BY <1>1 DEF FrameInv, InPairs, PacketNext, Open, LastFrame
<1>6. Open(s) <=> IF r = <<>> THEN pc[s] = "waitPacket" ELSE r[Len(r)].kind = "length"
  BY DEF Open, LastFrame
<1>7. Announces(s, f.of) <=> IF r = <<>> THEN size[s] = f.of.call ELSE r[Len(r)].of = f.of
  BY DEF Announces, LastFrame
<1>8. \A k \in 1 .. Len(r) - 1 :
        r[k].kind = "length" => r[k + 1].kind = "packet" /\ r[k + 1].of = r[k].of
  BY <1>4 DEF InPairs
<1>9. pc[s] = "waitPacket" /\ r # <<>> =>
        Head(r).kind = "packet" /\ Head(r).of.call = size[s]
  BY <1>4 DEF PacketNext
<1>10. LastFrame(s)' = f /\ reply'[s] # <<>>
  BY <1>1, <1>2 DEF LastFrame
<1>11. Open(s)' <=> f.kind = "length"
  BY <1>10 DEF Open
<1> HIDE DEF r, q
<1>12. \A k \in 1 .. Len(q) - 1 :
        q[k].kind = "length" => q[k + 1].kind = "packet" /\ q[k + 1].of = q[k].of
  <2> SUFFICES ASSUME NEW k \in 1 .. Len(q) - 1, q[k].kind = "length"
               PROVE  q[k + 1].kind = "packet" /\ q[k + 1].of = q[k].of
    OBVIOUS
  <2>1. CASE k < Len(r)
    BY <1>2, <1>3, <1>8, <2>1
  <2>2. CASE k = Len(r)
    <3>1. r # <<>> /\ r[Len(r)].kind = "length" /\ q[k + 1] = f /\ q[k] = r[Len(r)]
      BY <1>2, <1>3, <2>2
    <3>2. f.kind = "packet" /\ r[Len(r)].of = f.of
      BY <1>6, <1>7, <3>1
    <3>3. QED
      BY <3>1, <3>2
  <2>3. QED
    BY <1>2, <1>3, <2>1, <2>2
<1>13. InPairs(s)'
  BY <1>1, <1>12 DEF InPairs
<1>14. PacketNext(s)'
  BY <1>1, <1>2, <1>6, <1>7, <1>9 DEF PacketNext
<1>15. QED
  BY <1>1, <1>5, <1>10, <1>11, <1>13, <1>14

LEMMA DaemonFrames ==
  ASSUME FrameInv, NEW d \in Daemons, DaemonAction(d)
  PROVE  FrameParts'
<1> USE DEF FrameInv
<1>1. TypeOK /\ OnceInv
  BY DEF OnceInv, Typed
<1>2. /\ UNCHANGED <<pc, size, result, h, socket>>
      /\ dpc[d] # "dead"
      /\ \A e \in Daemons : e # d => dpc'[e] = dpc[e] /\ current'[e] = current[e]
      /\ \/ Silent(d) /\ dpc[d] # "sendPacket"
         \/ Silent(d) /\ dpc[d] = "sendPacket" /\ dpc'[d] = "dead"
         \/ Writes(d, "length") /\ dpc[d] = "sendLength" /\ dpc'[d] = "sendPacket"
         \/ Writes(d, "packet") /\ dpc[d] = "sendPacket" /\ dpc'[d] \in {"dead", "listening"}
  BY <1>1, DaemonEffect
<1>3. Served'
  BY <1>1, DaemonServed
<1>4. \A x \in Calls : Server(x) \in Daemons
  BY RpcAssumption DEF RpcAssumption, Server
<1>5. ASSUME NEW x \in Calls, Server(x) # d, Open(x), reply'[x] = reply[x]
      PROVE  \/ dpc'[Server(x)] = "dead"
             \/ socket'[Wants[x]] # x
             \/ /\ dpc'[Server(x)] = "sendPacket"
                /\ Wants[current'[Server(x)].call] = Wants[x]
                /\ Announces(x, current[Server(x)])'
  <2>1. dpc'[Server(x)] = dpc[Server(x)] /\ current'[Server(x)] = current[Server(x)]
    BY <1>2, <1>4, <1>5
  <2>2. Announces(x, current[Server(x)]) => Announces(x, current[Server(x)])'
    BY <1>2, <1>5, <2>1 DEF Announces, LastFrame
  <2>3. QED
    BY <1>2, <1>5, <2>1, <2>2 DEF OpenHeld
<1>6. CASE Silent(d) /\ (dpc[d] # "sendPacket" \/ dpc'[d] = "dead")
  <2>1. \A x \in Calls : InPairs(x)' /\ PacketNext(x)' /\ (Open(x)' <=> Open(x))
    BY <1>2, <1>6 DEF Silent, InPairs, PacketNext, Open, LastFrame
  <2>2. \A x \in Calls : reply'[x] = reply[x]
    BY <1>6 DEF Silent
  <2>3. Bound'
    BY <1>2, <1>6 DEF Silent, Bound, WasBound
  <2>4. ASSUME NEW x \in Calls, Open(x), Server(x) = d
        PROVE  dpc'[Server(x)] = "dead" \/ socket'[Wants[x]] # x
    BY <1>2, <1>6, <2>4 DEF OpenHeld
  <2>5. OpenHeld'
    <3> SUFFICES ASSUME NEW x \in Calls, Open(x)'
                 PROVE  \/ dpc'[Server(x)] = "dead"
                        \/ socket'[Wants[x]] # x
                        \/ /\ dpc'[Server(x)] = "sendPacket"
                           /\ Wants[current'[Server(x)].call] = Wants[x]
                           /\ Announces(x, current[Server(x)])'
      BY DEF OpenHeld, Server
    <3>1. QED
      BY <1>5, <2>1, <2>2, <2>4
  <2>6. QED
    BY <1>3, <2>1, <2>3, <2>5 DEF FrameParts
<1>7. ASSUME NEW kind \in {"length", "packet"}, Writes(d, kind),
             \/ kind = "length" /\ dpc[d] = "sendLength" /\ dpc'[d] = "sendPacket"
             \/ kind = "packet" /\ dpc[d] = "sendPacket" /\ dpc'[d] \in {"dead", "listening"}
      PROVE  FrameParts'
  <2>1. PICK s \in Calls :
          /\ s = AnswerSocket(d) /\ current[d] \in Packet
          /\ Wants[s] = Wants[current[d].call]
          /\ Server(s) = d /\ socket[Wants[s]] = s
    BY <1>7, AnswerSocketFacts DEF Writes, Busy
  <2>2. PICK f \in Frame :
          /\ f.kind = kind /\ f.of = current[d]
          /\ reply' = [reply EXCEPT ![s] = Append(@, f)] /\ current' = current
    <3>1. [kind |-> kind, of |-> current[d]] \in Frame
      BY <2>1 DEF Frame
    <3>2. QED
      BY <1>7, <2>1, <3>1 DEF Writes
  <2>3. f \in Frame /\ f.kind = kind /\ f.of = current[d]
    BY <2>2
  <2>4. Open(s) => dpc[d] = "sendPacket" /\ Announces(s, current[d])
    BY <1>2, <2>1 DEF OpenHeld
  <2>5. Open(s) => f.kind = "packet" /\ Announces(s, f.of)
    BY <1>7, <2>3, <2>4
  <2>6. /\ \A x \in Calls : InPairs(x)' /\ PacketNext(x)'
        /\ \A x \in Calls : x # s =>
             reply'[x] = reply[x] /\ (Open(x)' <=> Open(x))
        /\ reply'[s] # <<>> /\ LastFrame(s)' = f
        /\ Open(s)' <=> f.kind = "length"
    BY <1>2, <2>1, <2>2, <2>3, <2>5, WriteFrame
  <2>7. Bound'
    <3>1. WasBound(s)
      <4>1. Wants[s] \in Interfaces /\ s # NULL
        BY <2>1, RpcAssumption DEF RpcAssumption
      <4>2. QED
        BY <2>1, <4>1 DEF Bound
    <3>2. QED
      BY <1>2, <2>6, <3>1 DEF Bound, WasBound
  <2>8. OpenHeld'
    <3> SUFFICES ASSUME NEW x \in Calls, Open(x)'
                 PROVE  \/ dpc'[Server(x)] = "dead"
                        \/ socket'[Wants[x]] # x
                        \/ /\ dpc'[Server(x)] = "sendPacket"
                           /\ Wants[current'[Server(x)].call] = Wants[x]
                           /\ Announces(x, current[Server(x)])'
      BY DEF OpenHeld, Server
    <3>1. CASE x = s
      <4>1. kind = "length"
        BY <2>3, <2>6, <3>1
      <4>2. dpc'[Server(s)] = "sendPacket" /\ current'[Server(s)] = current[d]
        BY <1>7, <2>1, <2>2, <4>1
      <4>3. Announces(s, current[Server(s)])'
        BY <2>3, <2>6, <4>2 DEF Announces
      <4>4. QED
        BY <2>1, <3>1, <4>2, <4>3
    <3>2. CASE x # s /\ Server(x) # d
      BY <1>5, <2>6, <3>2
    <3>3. CASE x # s /\ Server(x) = d
      <4>1. Open(x)
        BY <2>6, <3>3
      <4>2. socket[Wants[x]] # x
        <5>1. CASE Wants[x] = Wants[current[d].call]
          BY <2>1, <3>3, <5>1
        <5>2. CASE Wants[x] # Wants[current[d].call]
          BY <1>2, <3>3, <4>1, <5>2 DEF OpenHeld
        <5>3. QED
          BY <5>1, <5>2
      <4>3. QED
        BY <1>2, <4>2
    <3>4. QED
      BY <3>1, <3>2, <3>3
  <2>9. QED
    BY <1>3, <2>6, <2>7, <2>8 DEF FrameParts
<1>8. QED
  BY <1>2, <1>6, <1>7

LEMMA NextFrames == FrameInv /\ [Next]_vars => FrameInv'
<1> SUFFICES ASSUME FrameInv, [Next]_vars PROVE FrameParts'
  BY NextOnce, NextIsolated DEF FrameInv, FrameParts
<1>1. FrameParts
  BY DEF FrameInv, FrameParts
<1> USE DEF FrameParts, Served, Bound, OpenHeld, Open, Announces, InPairs, PacketNext,
            LastFrame, WasBound, Busy, Server
<1>2. CASE AcceptFails
  BY <1>1, <1>2 DEF AcceptFails, callerVars, ctrlVars, daemonVars
<1>3. ASSUME NEW i \in Interfaces, Register(i) PROVE FrameParts'
  BY <1>1, <1>3 DEF Register, callerVars, serviceVars, daemonVars
<1>4. CASE UNCHANGED vars
  BY <1>1, <1>4 DEF vars, callerVars, serviceVars, ctrlVars, daemonVars
<1> USE DEF FrameInv
<1>5. QED
  BY <1>2, <1>3, <1>4, CallerFrames, ServiceFrames, DaemonFrames
  DEF Next, CallerStep, ServiceStep, DaemonStep, CallerAction, DaemonAction

LEMMA InitFrames == Init => FrameInv
<1> SUFFICES ASSUME Init PROVE FrameParts
  BY InitOnce, InitIsolated DEF FrameInv, FrameParts
<1>1. \A c \in Calls : reply[c] = <<>> /\ pc[c] = "idle"
  BY DEF Init
<1>2. Served
  <2>1. \A d \in Daemons : queue[d] = <<>> /\ ~Busy(d)
    BY DEF Init, Busy
  <2>2. DOMAIN <<>> = {}
    OBVIOUS
  <2>3. \A i \in Interfaces : client_portid[i] = NULL
    BY DEF Init
  <2>4. \A d \in Daemons : DOMAIN queue[d] = {}
    BY <2>1, <2>2
  <2>5. QED
    BY <2>1, <2>3, <2>4 DEF Served
<1>3. Bound
  BY <1>1 DEF Init, Bound
<1>4. OpenHeld
  BY <1>1 DEF OpenHeld, Open
<1>5. ASSUME NEW c \in Calls PROVE InPairs(c) /\ PacketNext(c)
  <2>1. Len(<<>>) = 0
    OBVIOUS
  <2>2. reply[c] = <<>> /\ Len(reply[c]) = 0
    BY <1>1, <2>1, Zenon
  <2>3. QED
    BY <2>2 DEF InPairs, PacketNext
<1>6. QED
  BY <1>2, <1>3, <1>4, <1>5 DEF FrameParts

LEMMA FramesInvariant == Spec => []FrameInv
BY InitFrames, NextFrames, PTL DEF Spec

(***************************************************************************)
(* The two writes of handle_interface_result: whatever happens to the ctrl *)
(* between them, no connection gets a length followed by anything but its  *)
(* packet (FrameIntact).                                                   *)
(***************************************************************************)
THEOREM FrameIntactHolds == Spec => []FrameIntact
<1>1. FrameInv => FrameIntact
  BY FrameIntactParts DEF FrameInv, OnceInv, Typed
<1>2. QED
  BY <1>1, FramesInvariant, PTL

-----------------------------------------------------------------------------
(* The packet that answers an execution is written once, and then is on    *)
(* one connection or with one caller.                                      *)

OnWire(x, c, k) ==
  k \in DOMAIN reply[c] /\ reply[c][k].kind = "packet" /\ reply[c][k].of.call = x

WrittenOnce ==
  \A x, c, e \in Calls : \A k, l \in Nat : OnWire(x, c, k) /\ OnWire(x, e, l) => c = e /\ k = l

WireOrCaller == \A x, c, a \in Calls : \A k \in Nat : OnWire(x, c, k) => result[a] # x

NotYetAnswered ==
  \A d \in Daemons : Busy(d) =>
    /\ \A c \in Calls : \A k \in Nat : ~OnWire(current[d].call, c, k)
    /\ \A a \in Calls : result[a] # current[d].call

AnswerParts == WrittenOnce /\ WireOrCaller /\ NotYetAnswered /\ AnswerNotShared

AnswerInv == FrameInv /\ AnswerParts

LEMMA CallerAnswers ==
  ASSUME AnswerInv, NEW c \in Calls, CallerAction(c)
  PROVE  AnswerParts'
<1> USE DEF AnswerInv, FrameInv
<1>1. TypeOK /\ Typed
  BY DEF OnceInv, Typed
<1>2. /\ UNCHANGED <<dpc, current>>
      /\ \A x \in Calls : x # c => result'[x] = result[x]
      /\ Looks(c) \/ TakesLength(c) \/ TakesPacket(c)
  BY <1>1, CallerEffect
<1>3. \A d \in Daemons : Busy(d) => current[d].call \in Calls
  BY <1>1 DEF Typed, HoldsPacket, Packet
<1>4. NULL \notin Calls /\ Garbage \notin Calls
  BY RpcAssumption DEF RpcAssumption
<1>5. CASE Looks(c)
  <2>1. reply' = reply /\ (result'[c] = result[c] \/ result'[c] \notin Calls)
    BY <1>4, <1>5 DEF Looks
  <2>2. \A x, e \in Calls : \A k \in Nat : OnWire(x, e, k)' <=> OnWire(x, e, k)
    BY <2>1 DEF OnWire
  <2>3. \A a \in Calls : result'[a] = result[a] \/ result'[a] \notin Calls
    BY <1>2, <2>1
  <2>4. WrittenOnce' /\ WireOrCaller'
    BY <2>2, <2>3 DEF AnswerParts, WrittenOnce, WireOrCaller
  <2>5. NotYetAnswered'
    BY <1>2, <1>3, <2>1, <2>3 DEF AnswerParts, NotYetAnswered, OnWire, Busy
  <2>6. AnswerNotShared'
    BY <2>3 DEF AnswerParts, AnswerNotShared
  <2>7. QED
    BY <2>4, <2>5, <2>6 DEF AnswerParts
<1>6. CASE TakesLength(c) \/ TakesPacket(c)
  <2>1. /\ reply[c] \in Seq(Frame) /\ reply[c] # <<>>
        /\ reply'[c] = Tail(reply[c])
        /\ \A e \in Calls : e # c => reply'[e] = reply[e]
    BY <1>1, <1>6 DEF TypeOK, TakesLength, TakesPacket
  <2>2. Head(reply[c]) = reply[c][1] /\ 1 \in DOMAIN reply[c] /\ reply[c][1] \in Frame
    BY <2>1
  <2>3. \A k \in DOMAIN reply'[c] :
          k \in Nat \ {0} /\ k + 1 \in DOMAIN reply[c] /\ reply'[c][k] = reply[c][k + 1]
    BY <2>1
  <2>4. \A x \in Calls : \A k \in Nat : OnWire(x, c, k)' => k \in Nat \ {0} /\ OnWire(x, c, k + 1)
    BY <2>3 DEF OnWire
  <2>5. \A x, e \in Calls : \A k \in Nat : e # c => (OnWire(x, e, k)' <=> OnWire(x, e, k))
    BY <2>1 DEF OnWire
  <2>6. WrittenOnce'
    <3> SUFFICES ASSUME NEW x \in Calls, NEW e \in Calls, NEW g \in Calls,
                        NEW k \in Nat, NEW l \in Nat, OnWire(x, e, k)', OnWire(x, g, l)'
                 PROVE  e = g /\ k = l
      BY DEF WrittenOnce
    <3>1. OnWire(x, e, IF e = c THEN k + 1 ELSE k) /\ OnWire(x, g, IF g = c THEN l + 1 ELSE l)
      BY <2>4, <2>5
    <3>2. e = g /\ (IF e = c THEN k + 1 ELSE k) = (IF g = c THEN l + 1 ELSE l)
      BY <3>1 DEF AnswerParts, WrittenOnce
    <3>3. QED
      BY <3>2
  <2>7. \A x, e \in Calls : \A k \in Nat :
          OnWire(x, e, k)' => \E l \in Nat : OnWire(x, e, l) /\ (e = c => l # 1)
    <3> SUFFICES ASSUME NEW x \in Calls, NEW e \in Calls, NEW k \in Nat, OnWire(x, e, k)'
                 PROVE  \E l \in Nat : OnWire(x, e, l) /\ (e = c => l # 1)
      OBVIOUS
    <3>1. CASE e = c
      <4>1. k + 1 \in Nat /\ k + 1 # 1 /\ OnWire(x, c, k + 1)
        BY <2>4, <3>1
      <4>2. QED
        BY <3>1, <4>1
    <3>2. CASE e # c
      BY <2>5, <3>2
    <3>3. QED
      BY <3>1, <3>2
  <2>8. CASE result'[c] = result[c] \/ result'[c] \notin Calls
    <3>1. \A a \in Calls : result'[a] = result[a] \/ result'[a] \notin Calls
      BY <1>2, <2>8
    <3>2. WireOrCaller' /\ AnswerNotShared'
      BY <2>7, <3>1 DEF AnswerParts, WireOrCaller, AnswerNotShared
    <3>3. \A d \in Daemons : Busy(d) =>
            /\ \A e \in Calls : \A k \in Nat : ~OnWire(current[d].call, e, k)'
            /\ \A a \in Calls : result'[a] # current[d].call
      <4> SUFFICES ASSUME NEW d \in Daemons, Busy(d), NEW x \in Calls, x = current[d].call
                   PROVE  /\ \A e \in Calls : \A k \in Nat : ~OnWire(x, e, k)'
                          /\ \A a \in Calls : result'[a] # x
        BY <1>2, <1>3 DEF OnWire
      <4>1. /\ \A e \in Calls : \A k \in Nat : ~OnWire(x, e, k)
            /\ \A a \in Calls : result[a] # x
        BY DEF AnswerParts, NotYetAnswered
      <4>2. QED
        BY <2>7, <3>1, <4>1
    <3>4. NotYetAnswered'
      BY <1>2, <3>3 DEF NotYetAnswered, Busy
    <3>5. QED
      BY <2>6, <3>2, <3>4 DEF AnswerParts
  <2>9. CASE /\ pc[c] = "waitPacket" \/ Head(reply[c]).kind = "packet"
             /\ result'[c] = Head(reply[c]).of.call
    <3>1. PICK y \in Calls : y = reply[c][1].of.call
      BY <2>2 DEF Frame, Packet
    <3>2. OnWire(y, c, 1) /\ result'[c] = y
      BY <2>1, <2>2, <2>9, <3>1 DEF OnWire, PacketNext
    <3>3. \A a \in Calls : result[a] # y
      BY <3>2 DEF AnswerParts, WireOrCaller
    <3>4. \A e \in Calls : \A k \in Nat : ~OnWire(y, e, k)'
      BY <2>7, <3>2 DEF AnswerParts, WrittenOnce
    <3>5. WireOrCaller'
      <4> SUFFICES ASSUME NEW x \in Calls, NEW e \in Calls, NEW a \in Calls, NEW k \in Nat,
                          OnWire(x, e, k)'
                   PROVE  result'[a] # x
        BY DEF WireOrCaller
      <4>1. result[a] # x /\ x # y
        BY <2>7, <3>4 DEF AnswerParts, WireOrCaller
      <4>2. QED
        BY <1>2, <3>2, <4>1
    <3>6. AnswerNotShared'
      BY <1>2, <3>2, <3>3 DEF AnswerParts, AnswerNotShared
    <3>7. \A d \in Daemons : Busy(d) =>
            /\ \A e \in Calls : \A k \in Nat : ~OnWire(current[d].call, e, k)'
            /\ \A a \in Calls : result'[a] # current[d].call
      <4> SUFFICES ASSUME NEW d \in Daemons, Busy(d), NEW x \in Calls, x = current[d].call
                   PROVE  /\ \A e \in Calls : \A k \in Nat : ~OnWire(x, e, k)'
                          /\ \A a \in Calls : result'[a] # x
        BY <1>2, <1>3 DEF OnWire
      <4>1. /\ \A e \in Calls : \A k \in Nat : ~OnWire(x, e, k)
            /\ \A a \in Calls : result[a] # x
        BY DEF AnswerParts, NotYetAnswered
      <4>2. x # y
        BY <3>2, <4>1
      <4>3. QED
        BY <1>2, <2>7, <3>2, <4>1, <4>2
    <3>8. NotYetAnswered'
      BY <1>2, <3>7 DEF NotYetAnswered, Busy
    <3>9. QED
      BY <2>6, <3>5, <3>6, <3>8 DEF AnswerParts
  <2>10. QED
    BY <1>4, <1>6, <2>8, <2>9 DEF TakesLength, TakesPacket
<1>7. QED
  BY <1>2, <1>5, <1>6

LEMMA DaemonAnswers ==
  ASSUME AnswerInv, NEW d \in Daemons, DaemonAction(d)
  PROVE  AnswerParts'
<1> USE DEF AnswerInv, FrameInv
<1>1. TypeOK /\ Typed /\ FrameInv
  BY DEF OnceInv, Typed
<1>2. /\ UNCHANGED result
      /\ \A e \in Daemons : e # d => dpc'[e] = dpc[e] /\ current'[e] = current[e]
      /\ \/ Silent(d)
         \/ Writes(d, "length") /\ dpc[d] = "sendLength" /\ dpc'[d] = "sendPacket"
         \/ Writes(d, "packet") /\ dpc[d] = "sendPacket" /\ dpc'[d] \in {"dead", "listening"}
  BY <1>1, DaemonEffect
<1>3. AnswerNotShared'
  BY <1>2 DEF AnswerParts, AnswerNotShared
<1>4. \A e \in Daemons : Busy(e) => current[e].call \in Calls /\ Server(current[e].call) = e
  BY <1>1 DEF Typed, HoldsPacket, Packet, Served
<1>5. CASE Receive(d)
  <2>1. reply' = reply
    BY <1>5 DEF Receive
  <2>2. \A x, c \in Calls : \A k \in Nat : OnWire(x, c, k)' <=> OnWire(x, c, k)
    BY <2>1 DEF OnWire
  <2>3. WrittenOnce' /\ WireOrCaller'
    BY <1>2, <2>2 DEF AnswerParts, WrittenOnce, WireOrCaller
  <2>4. queue[d] \in Seq(Packet) /\ queue[d] # <<>>
    BY <1>1, <1>5 DEF Receive, TakePacket, TypeOK
  <2>5. 1 \in DOMAIN queue[d] /\ Head(queue[d]) = queue[d][1] /\ queue[d][1] \in Packet
    BY <2>4
  <2>6. PICK y \in Calls : y = Head(queue[d]).call /\ y \notin ran
    BY <2>5 DEF Packet, OnceInv, AtMostOnce
  <2>7. \A c \in Calls : \A k \in Nat : ~OnWire(y, c, k)
    BY <2>6 DEF OnWire, IsoInv, Isolated, OwnReplies, AnswerTo
  <2>8. \A a \in Calls : result[a] # y
    BY <2>6 DEF IsoInv, Isolated, OwnResults, AnswerTo
  <2>9. (UNCHANGED <<dpc, current>>) \/ current'[d].call = y
    BY <1>1, <1>5, <2>6 DEF Receive, TypeOK
  <2>10. \A e \in Daemons : Busy(e)' =>
           /\ \A c \in Calls : \A k \in Nat : ~OnWire(current'[e].call, c, k)
           /\ \A a \in Calls : result[a] # current'[e].call
    BY <1>2, <2>7, <2>8, <2>9 DEF AnswerParts, NotYetAnswered, Busy
  <2>11. NotYetAnswered'
    BY <1>2, <2>1, <2>10 DEF NotYetAnswered, OnWire
  <2>12. QED
    BY <1>3, <2>3, <2>11 DEF AnswerParts
<1>6. ASSUME ~Receive(d)
      PROVE  /\ current' = current
             /\ \A e \in Daemons : Busy(e)' => Busy(e)
  <2>1. current' = current
    BY <1>6 DEF DaemonAction, Activate, CallbackReturns, CallbackFails, Killed,
                SendResultLength, SendResultPacket
  <2>2. Busy(d)' => Busy(d)
    BY <1>1, <1>6 DEF DaemonAction, TypeOK, Busy, Dies, Activate, CallbackReturns,
                CallbackFails, Killed, SendResultLength, SendResultPacket
  <2>3. QED
    BY <1>2, <2>1, <2>2 DEF Busy
<1>7. CASE ~Receive(d) /\ Silent(d)
  <2>1. \A x, c \in Calls : \A k \in Nat : OnWire(x, c, k)' <=> OnWire(x, c, k)
    BY <1>7 DEF OnWire, Silent
  <2>2. WrittenOnce' /\ WireOrCaller'
    BY <1>2, <2>1 DEF AnswerParts, WrittenOnce, WireOrCaller
  <2>3. NotYetAnswered'
    BY <1>2, <1>6, <1>7 DEF AnswerParts, NotYetAnswered, OnWire, Silent
  <2>4. QED
    BY <1>3, <2>2, <2>3 DEF AnswerParts
<1>8. ASSUME ~Receive(d), NEW kind \in {"length", "packet"}, Writes(d, kind), Busy(d),
             kind = "packet" => ~Busy(d)'
      PROVE  AnswerParts'
  <2>1. PICK s \in Calls, p \in Packet :
          s = AnswerSocket(d) /\ p = current[d] /\ p.call \in Calls
    BY <1>1, <1>8, AnswerSocketFacts DEF Writes
  <2>2. PICK f \in Frame :
          f.kind = kind /\ f.of = p /\ reply' = [reply EXCEPT ![s] = Append(@, f)]
    <3>1. [kind |-> kind, of |-> p] \in Frame
      BY DEF Frame
    <3>2. QED
      BY <1>8, <2>1, <3>1 DEF Writes
  <2>3. /\ reply[s] \in Seq(Frame) /\ reply'[s] = Append(reply[s], f)
        /\ \A c \in Calls : c # s => reply'[c] = reply[c]
    BY <1>1, <2>2 DEF TypeOK
  <2>4. \A k \in DOMAIN reply'[s] :
          \/ k \in DOMAIN reply[s] /\ reply'[s][k] = reply[s][k]
          \/ k = Len(reply[s]) + 1 /\ reply'[s][k] = f
    BY <2>3
  <2>5. \A x, c \in Calls : \A k \in Nat : OnWire(x, c, k)' =>
          \/ OnWire(x, c, k)
          \/ kind = "packet" /\ x = p.call /\ c = s /\ k = Len(reply[s]) + 1
    BY <2>2, <2>3, <2>4 DEF OnWire
  <2>6. /\ \A c \in Calls : \A k \in Nat : ~OnWire(p.call, c, k)
        /\ \A a \in Calls : result[a] # p.call
    BY <1>8, <2>1 DEF AnswerParts, NotYetAnswered
  <2>7. WrittenOnce'
    <3> SUFFICES ASSUME NEW x \in Calls, NEW c \in Calls, NEW e \in Calls,
                        NEW k \in Nat, NEW l \in Nat, OnWire(x, c, k)', OnWire(x, e, l)'
                 PROVE  c = e /\ k = l
      BY DEF WrittenOnce
    <3>1. CASE x = p.call
      BY <2>5, <2>6, <3>1
    <3>2. CASE x # p.call
      BY <2>5, <3>2 DEF AnswerParts, WrittenOnce
    <3>3. QED
      BY <3>1, <3>2
  <2>8. WireOrCaller'
    <3> SUFFICES ASSUME NEW x \in Calls, NEW c \in Calls, NEW a \in Calls, NEW k \in Nat,
                        OnWire(x, c, k)'
                 PROVE  result[a] # x
      BY <1>2 DEF WireOrCaller
    <3>1. QED
      BY <2>5, <2>6 DEF AnswerParts, WireOrCaller
  <2>9. NotYetAnswered'
    <3> SUFFICES ASSUME NEW e \in Daemons, Busy(e)', NEW y \in Calls, y = current[e].call
                 PROVE  /\ \A c \in Calls : \A k \in Nat : ~OnWire(y, c, k)'
                        /\ \A a \in Calls : result[a] # y
      <4>1. \A e \in Daemons : Busy(e)' => current[e].call \in Calls
        BY <1>4, <1>6, <1>8
      <4>2. QED
        BY <1>2, <1>6, <1>8, <4>1 DEF NotYetAnswered, OnWire
    <3>1. Busy(e)
      BY <1>6, <1>8
    <3>2. kind = "packet" => y # p.call
      BY <1>4, <1>8, <2>1, <3>1
    <3>3. QED
      BY <2>5, <3>1, <3>2 DEF AnswerParts, NotYetAnswered
  <2>10. QED
    BY <1>3, <2>7, <2>8, <2>9 DEF AnswerParts
<1>9. QED
  BY <1>2, <1>5, <1>7, <1>8 DEF Busy

LEMMA NextAnswers == AnswerInv /\ [Next]_vars => AnswerInv'
<1> SUFFICES ASSUME AnswerInv, [Next]_vars PROVE AnswerParts'
  BY NextFrames DEF AnswerInv
<1>1. CASE UNCHANGED <<reply, result, dpc, current>>
  BY <1>1 DEF AnswerInv, AnswerParts, WrittenOnce, WireOrCaller, NotYetAnswered, OnWire, Busy,
              AnswerNotShared
<1>2. ASSUME NEW c \in Calls,
             \/ Accept(c) \/ ReadRequest(c) \/ RequestCutShort(c) \/ LocalExecute(c)
             \/ InterfaceNotFound(c) \/ BindSocket(c) \/ Forward(c)
      PROVE  AnswerParts'
  <2>1. UNCHANGED <<reply, result, dpc, current>>
    BY <1>2 DEF callerVars, daemonVars, Accept, ReadRequest, RequestCutShort, LocalExecute,
                InterfaceNotFound, BindSocket, Forward
  <2>2. QED
    BY <1>1, <2>1
<1>3. CASE AcceptFails
  BY <1>1, <1>3 DEF AcceptFails, callerVars, daemonVars
<1>4. ASSUME NEW i \in Interfaces, Register(i) PROVE AnswerParts'
  BY <1>1, <1>4 DEF Register, callerVars, daemonVars
<1>5. CASE UNCHANGED vars
  BY <1>1, <1>5 DEF vars, callerVars, daemonVars
<1>6. QED
  BY <1>2, <1>3, <1>4, <1>5, CallerAnswers, DaemonAnswers
  DEF Next, CallerStep, ServiceStep, DaemonStep, CallerAction, DaemonAction

LEMMA InitAnswers == Init => AnswerInv
<1> SUFFICES ASSUME Init PROVE AnswerParts
  BY InitFrames DEF AnswerInv
<1>1. NULL \notin Calls
  BY RpcAssumption DEF RpcAssumption
<1>2. \A c \in Calls : result[c] = NULL
  BY DEF Init
<1>3. \A x, c \in Calls : \A k \in Nat : ~OnWire(x, c, k)
  <2>1. DOMAIN <<>> = {}
    OBVIOUS
  <2>2. \A c \in Calls : reply[c] = <<>>
    BY DEF Init
  <2>3. \A c \in Calls : DOMAIN reply[c] = {}
    BY <2>1, <2>2
  <2>4. QED
    BY <2>3 DEF OnWire
<1>4. \A d \in Daemons : ~Busy(d)
  BY DEF Init, Busy
<1>5. QED
  BY <1>1, <1>2, <1>3, <1>4
  DEF AnswerParts, WrittenOnce, WireOrCaller, NotYetAnswered, AnswerNotShared

(***************************************************************************)
(* execute_remote_interface on overlapping callers: an execution answers   *)
(* at most one of them (AnswerNotShared), with any faults.                 *)
(***************************************************************************)
THEOREM AnswerNotSharedHolds == Spec => []AnswerNotShared
<1>1. AnswerInv => AnswerNotShared
  BY DEF AnswerInv, AnswerParts
<1>2. QED
  BY <1>1, InitAnswers, NextAnswers, PTL DEF Spec
=============================================================================
