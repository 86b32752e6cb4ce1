---------------------------- MODULE RpcPromiseProofs ----------------------------
(***************************************************************************)
(* Proofs about Rpc, for every set of calls, interfaces and daemons and    *)
(* every set of faults, of what is promised to the callers of an interface *)
(* whose calls have not met: every call gets its own answer, whatever      *)
(* happens on other interfaces and fails on this one.  The promise of      *)
(* RemoteCall, which says what is left when they have met, is kept.        *)
(***************************************************************************)
EXTENDS RpcAnswerProofs

-----------------------------------------------------------------------------
(* Calls of an interface that is not disturbed.                            *)

Calm(c) == Wants[c] \notin disturbed

OneByOne ==
  \A c, o \in Calls :
    Calm(c) /\ Wants[c] = Wants[o] /\ Ongoing(c) /\ Ongoing(o) => c = o

\* Its thread does not outlive it, and finds the interface.
Accompanied ==
  \A c \in Calls : Calm(c) =>
    /\ h[c] \in {"backlog", "reading", "execute", "bound"} => Ongoing(c)
    /\ h[c] # "none" => c \notin LocalCalls /\ pc[c] # "idle" /\ Wants[c] \in registered
    /\ h[c] \in {"execute", "bound", "end"} => sent[c] = 2
    /\ pc[c] \in {"idle", "connected", "lengthSent"} => sent[c] # 2
    /\ pc[c] # "waitAnything"

\* No other call of the interface has bound its socket since.
SocketKept ==
  \A c \in Calls : Calm(c) /\ Ongoing(c) /\ WasBound(c) => socket[Wants[c]] = c

\* Nothing is on its connection before it is executed.
Silence(c) == pc[c] = "waitSize" /\ reply[c] = <<>>

InFlight ==
  /\ \A c \in Calls : Calm(c) /\ h[c] \in {"execute", "bound"} => Silence(c)
  /\ \A d \in Daemons : \A k \in DOMAIN queue[d] :
       Calm(queue[d][k].call) => Silence(queue[d][k].call)

LengthWritten(c) ==
  \/ pc[c] = "waitSize" /\ reply[c] # <<>> /\ Tail(reply[c]) = <<>>
  \/ pc[c] = "waitPacket" /\ reply[c] = <<>>

Working ==
  \A d \in Daemons : Busy(d) /\ Calm(current[d].call) =>
    /\ dpc[d] \in {"callback", "sendLength"} => Silence(current[d].call)
    /\ dpc[d] = "sendPacket" => LengthWritten(current[d].call)

OwnAnswer ==
  \A c \in Calls : Calm(c) =>
    /\ \A k \in DOMAIN reply[c] : reply[c][k].of.call = c
    /\ pc[c] = "waitSize" /\ reply[c] # <<>> => Head(reply[c]).kind = "length"

\* Packets are cut short by the connection of their call only.
Intact(p) == p.call \in Broken \/ p.whole

Whole ==
  /\ \A d \in Daemons : \A k \in DOMAIN queue[d] : Intact(queue[d][k])
  /\ \A d \in Daemons : Busy(d) => Intact(current[d])
  /\ \A c \in Calls : \A k \in DOMAIN reply[c] : Intact(reply[c][k].of)

CalmParts ==
  /\ OneByOne /\ Accompanied /\ SocketKept /\ InFlight /\ Working /\ OwnAnswer
  /\ OwnResultUndisturbed /\ ConnectedCallSurvives

TurnParts == CalmParts /\ Whole

TurnInv == FrameInv /\ TurnParts

-----------------------------------------------------------------------------
(* A step on a disturbed interface leaves the others alone.                *)

LEMMA Elsewhere ==
  ASSUME Typed', CalmParts, NEW i \in Interfaces, i \in disturbed', disturbed \subseteq disturbed',
         registered \subseteq registered',
         \A x \in Calls : Wants[x] # i =>
           /\ pc'[x] = pc[x] /\ sent'[x] = sent[x] /\ h'[x] = h[x]
           /\ reply'[x] = reply[x] /\ result'[x] = result[x],
         \A j \in Interfaces : j # i => socket'[j] = socket[j],
         \A d \in Daemons : \A k \in DOMAIN queue'[d] :
           \/ Wants[queue'[d][k].call] = i
           \/ \E l \in DOMAIN queue[d] : queue'[d][k] = queue[d][l],
         \A d \in Daemons : Busy(d)' /\ Wants[current'[d].call] # i =>
           dpc'[d] = dpc[d] /\ current'[d] = current[d]
  PROVE  CalmParts'
<1>1. \A x \in Calls : Calm(x)' => Calm(x) /\ Wants[x] # i
  BY DEF Calm
<1>2. \A x \in Calls : Calm(x)' =>
        /\ Ongoing(x)' <=> Ongoing(x)
        /\ WasBound(x)' <=> WasBound(x)
        /\ Silence(x)' <=> Silence(x)
        /\ LengthWritten(x)' <=> LengthWritten(x)
  BY <1>1 DEF Ongoing, WasBound, Silence, LengthWritten
<1>3. \A x \in Calls : Wants[x] \in Interfaces
  BY RpcAssumption DEF RpcAssumption
<1>4. OneByOne'
  <2> SUFFICES ASSUME NEW c \in Calls, NEW o \in Calls, Calm(c)', Wants[c] = Wants[o],
                      Ongoing(c)', Ongoing(o)'
               PROVE  c = o
    BY DEF OneByOne
  <2>1. Calm(o)'
    BY DEF Calm
  <2>2. QED
    BY <1>1, <1>2, <2>1 DEF CalmParts, OneByOne
<1>5. Accompanied'
  BY <1>1, <1>2 DEF CalmParts, Accompanied
<1>6. SocketKept'
  BY <1>1, <1>2, <1>3 DEF CalmParts, SocketKept
<1>7. InFlight'
  <2>1. \A c \in Calls : Calm(c)' /\ h'[c] \in {"execute", "bound"} => Silence(c)'
    BY <1>1, <1>2 DEF CalmParts, InFlight
  <2>2. ASSUME NEW d \in Daemons, NEW k \in DOMAIN queue'[d], Calm(queue[d][k].call)'
        PROVE  Silence(queue[d][k].call)'
    <3>1. PICK x \in Calls : x = queue'[d][k].call
      <4>1. queue'[d][k] \in Packet
        BY DEF Typed, TypeOK
      <4>2. QED
        BY <4>1 DEF Packet
    <3>2. Calm(x)'
      BY <2>2, <3>1 DEF Calm
    <3>3. Silence(x)
      BY <1>1, <3>1, <3>2 DEF CalmParts, InFlight
    <3>4. Silence(x)'
      BY <1>2, <3>2, <3>3
    <3>5. QED
      BY <3>1, <3>4 DEF Silence
  <2>3. QED
    BY <2>1, <2>2 DEF InFlight
<1>8. Working'
  <2> SUFFICES ASSUME NEW d \in Daemons, Busy(d)', Calm(current[d].call)'
               PROVE  /\ dpc'[d] \in {"callback", "sendLength"} => Silence(current[d].call)'
                      /\ dpc'[d] = "sendPacket" => LengthWritten(current[d].call)'
    BY DEF Working
  <2>1. PICK x \in Calls : x = current'[d].call
    BY DEF Typed, HoldsPacket, Packet
  <2>2. Calm(x)'
    BY <2>1 DEF Calm
  <2>3. dpc'[d] = dpc[d] /\ current'[d] = current[d] /\ Busy(d)
    BY <1>1, <2>1, <2>2 DEF Busy
  <2>4. /\ dpc[d] \in {"callback", "sendLength"} => Silence(x)
        /\ dpc[d] = "sendPacket" => LengthWritten(x)
    BY <1>1, <2>1, <2>2, <2>3 DEF CalmParts, Working
  <2>5. /\ dpc'[d] \in {"callback", "sendLength"} => Silence(x)'
        /\ dpc'[d] = "sendPacket" => LengthWritten(x)'
    BY <1>2, <2>2, <2>3, <2>4
  <2>6. QED
    BY <2>1, <2>5 DEF Silence, LengthWritten
<1>9. OwnAnswer' /\ OwnResultUndisturbed' /\ ConnectedCallSurvives'
  BY <1>1 DEF CalmParts, OwnAnswer, OwnResultUndisturbed, ConnectedCallSurvives, Calm
<1>10. QED
  BY <1>4, <1>5, <1>6, <1>7, <1>8, <1>9 DEF CalmParts

-----------------------------------------------------------------------------
(* The steps of a caller that do not disturb its interface.                *)

Gone(c) == pc'[c] \in {"returned", "oops"} /\ sent' = sent

CallerStage(c) ==
  \/ /\ Connect(c) /\ pc[c] = "idle" /\ pc'[c] = "connected" /\ h'[c] = "backlog"
     /\ reply' = reply /\ sent' = sent /\ result' = result
     /\ Wants[c] \in registered /\ c \notin LocalCalls /\ Alone(c)
  \/ /\ pc[c] = "idle" /\ c \notin LocalCalls /\ Gone(c) /\ h' = h
     /\ reply' = reply /\ result' = result
  \/ /\ pc[c] = "connected" /\ pc'[c] = "lengthSent" /\ sent'[c] = 1 /\ h' = h
     /\ reply' = reply /\ result' = result
  \/ /\ pc[c] = "lengthSent" /\ pc'[c] = "waitSize" /\ sent'[c] = 2 /\ h' = h
     /\ reply' = reply /\ result' = result
  \/ /\ pc[c] = "waitSize" /\ pc'[c] = "waitPacket" /\ sent' = sent /\ h' = h
     /\ reply[c] # <<>> /\ reply'[c] = Tail(reply[c]) /\ result' = result
  \/ /\ pc[c] = "waitPacket" /\ pc'[c] = "returned" /\ sent' = sent /\ h' = h
     /\ reply[c] # <<>> /\ reply'[c] = Tail(reply[c])
     /\ \/ c \in Broken /\ result' = [result EXCEPT ![c] = NULL]
        \/ /\ c \in Broken \/ ~Head(reply[c]).of.whole
           /\ result' = [result EXCEPT ![c] = Garbage]
        \/ result' = [result EXCEPT ![c] = Head(reply[c]).of.call]

LEMMA CallerStages ==
  ASSUME TurnInv, NEW c \in Calls, CallerAction(c)
  PROVE  /\ UNCHANGED <<socket, registered, queue, dpc, current, ran, ranAgain>>
         /\ \A x \in Calls : x # c =>
              /\ pc'[x] = pc[x] /\ sent'[x] = sent[x] /\ h'[x] = h[x]
              /\ reply'[x] = reply[x] /\ result'[x] = result[x]
         /\ reply'[c] = reply[c] \/ (reply[c] # <<>> /\ reply'[c] = Tail(reply[c]))
         /\ disturbed' \in {disturbed, disturbed \cup {Wants[c]}}
         /\ Calm(c)' => disturbed' = disturbed /\ CallerStage(c)
<1> USE DEF CallerStage, Gone, callerVars, serviceVars, ctrlVars, daemonVars
<1>1. TypeOK /\ TurnParts
  BY DEF TurnInv, FrameInv, OnceInv, Typed
<1>2. UNCHANGED <<socket, registered, queue, dpc, current, ran, ranAgain>>
  BY DEF CallerAction, Connect, ConnectFails, SendLength, SendPacket, SendFails, RecvSize,
         RecvSizeFails, RecvPacket, RecvPacketFails, RecvAnything, RecvAnythingFails
<1>3. /\ \A x \in Calls : x # c =>
           /\ pc'[x] = pc[x] /\ sent'[x] = sent[x] /\ h'[x] = h[x]
           /\ reply'[x] = reply[x] /\ result'[x] = result[x]
      /\ reply'[c] = reply[c] \/ (reply[c] # <<>> /\ reply'[c] = Tail(reply[c]))
  BY <1>1 DEF TypeOK, CallerAction, Connect, ConnectFails, SendLength, SendPacket, SendFails,
              RecvSize, RecvSizeFails, RecvPacket, RecvPacketFails, RecvAnything,
              RecvAnythingFails, TakeReply, EndWithoutAnswer, EndWithAnswer, EndWithBadSize
<1>4. disturbed' \in {disturbed, disturbed \cup {Wants[c]}}
  BY DEF CallerAction, Disturbs, Connect, ConnectFails, SendLength, SendPacket, SendFails,
         RecvSize, RecvSizeFails, RecvPacket, RecvPacketFails, RecvAnything, RecvAnythingFails
<1>5. SUFFICES ASSUME Calm(c)' PROVE CallerStage(c)
  BY <1>2, <1>3, <1>4 DEF Calm
<1>6. ~Disturbs(c) /\ Calm(c)
  BY <1>4, <1>5 DEF Disturbs, Calm
<1>7. CASE Connect(c)
  BY <1>1, <1>6, <1>7 DEF TypeOK, Connect, CanCall
<1>8. CASE ConnectFails(c)
  BY <1>1, <1>8 DEF TypeOK, ConnectFails, CanCall, EndWithoutAnswer
<1>9. CASE SendLength(c)
  BY <1>1, <1>9 DEF TypeOK, SendLength
<1>10. CASE SendPacket(c)
  BY <1>1, <1>10 DEF TypeOK, SendPacket
<1>11. CASE RecvSize(c)
  <2>1. Head(reply[c]).kind = "length"
    BY <1>1, <1>6, <1>11 DEF RecvSize, TakeReply, TurnParts, CalmParts, OwnAnswer
  <2>2. QED
    BY <1>1, <1>11, <2>1 DEF TypeOK, RecvSize, TakeReply
<1>12. CASE RecvPacket(c)
  <2>1. /\ pc[c] = "waitPacket" /\ reply[c] # <<>> /\ sent' = sent /\ h' = h
        /\ reply'[c] = Tail(reply[c]) /\ pc'[c] = "returned"
    BY <1>1, <1>12 DEF TypeOK, RecvPacket, TakeReply, EndWithAnswer
  <2>2. \/ c \in Broken /\ result' = [result EXCEPT ![c] = NULL]
        \/ /\ c \in Broken \/ ~Head(reply[c]).of.whole
           /\ result' = [result EXCEPT ![c] = Garbage]
        \/ result' = [result EXCEPT ![c] = Head(reply[c]).of.call]
    BY <1>12 DEF RecvPacket, EndWithAnswer
  <2>3. QED
    BY <2>1, <2>2
<1>13. ~RecvAnything(c) /\ ~RecvAnythingFails(c)
  BY <1>1, <1>6 DEF TurnParts, CalmParts, Accompanied, RecvAnything, RecvAnythingFails
<1>14. QED
  BY <1>6, <1>7, <1>8, <1>9, <1>10, <1>11, <1>12, <1>13
  DEF CallerAction, SendFails, RecvSizeFails, RecvPacketFails

\* A call that was answered was run, and its thread has ended.
LEMMA AnsweredCall ==
  ASSUME TurnInv, NEW c \in Calls, Calm(c), reply[c] # <<>>
  PROVE  /\ reply[c] \in Seq(Frame) /\ 1 \in DOMAIN reply[c] /\ Head(reply[c]) = reply[c][1]
         /\ Head(reply[c]).of.call = c
         /\ c \in ran /\ h[c] = "end"
<1>1. reply[c] \in Seq(Frame)
  BY DEF TurnInv, FrameInv, OnceInv, Typed, TypeOK
<1>2. 1 \in DOMAIN reply[c] /\ Head(reply[c]) = reply[c][1]
  BY <1>1
<1>3. reply[c][1].of.call = c
  BY <1>2 DEF TurnInv, TurnParts, CalmParts, OwnAnswer
<1>4. c \in ran
  BY <1>2, <1>3 DEF TurnInv, FrameInv, IsoInv, Isolated, OwnReplies, AnswerTo
<1>5. h[c] = "end"
  BY <1>4 DEF TurnInv, FrameInv, OnceInv, Handled
<1>6. QED
  BY <1>1, <1>2, <1>3, <1>4, <1>5

LEMMA TurnCaller ==
  ASSUME TurnInv, NEW c \in Calls, CallerAction(c), Typed'
  PROVE  TurnParts'
<1>1. TypeOK /\ TurnParts /\ CalmParts /\ Typed /\ FrameInv
  BY DEF TurnInv, TurnParts, FrameInv, OnceInv, Typed
<1>2. /\ UNCHANGED <<socket, registered, queue, dpc, current, ran>>
      /\ \A x \in Calls : x # c =>
           /\ pc'[x] = pc[x] /\ sent'[x] = sent[x] /\ h'[x] = h[x]
           /\ reply'[x] = reply[x] /\ result'[x] = result[x]
      /\ reply'[c] = reply[c] \/ (reply[c] # <<>> /\ reply'[c] = Tail(reply[c]))
      /\ disturbed' \in {disturbed, disturbed \cup {Wants[c]}}
      /\ Calm(c)' => disturbed' = disturbed /\ CallerStage(c)
  BY CallerStages
<1>3. \A x \in Calls : \A k \in DOMAIN reply'[x] :
        \E l \in DOMAIN reply[x] : reply'[x][k] = reply[x][l]
  <2>1. CASE reply'[c] = reply[c]
    BY <1>2, <2>1
  <2>2. CASE reply[c] # <<>> /\ reply'[c] = Tail(reply[c])
    <3>1. reply[c] \in Seq(Frame)
      BY <1>1 DEF TypeOK
    <3>2. \A k \in DOMAIN reply'[c] : k + 1 \in DOMAIN reply[c] /\ reply'[c][k] = reply[c][k + 1]
      BY <2>2, <3>1
    <3>3. QED
      BY <1>2, <3>2
  <2>3. QED
    BY <1>2, <2>1, <2>2
<1>4. Whole'
  BY <1>1, <1>2, <1>3 DEF TurnParts, Whole, Busy
<1>5. CASE ~Calm(c)'
  <2>1. Wants[c] \in Interfaces /\ Wants[c] \in disturbed'
    BY <1>5, RpcAssumption DEF Calm, RpcAssumption
  <2>2. CalmParts'
    BY <1>1, <1>2, <2>1, Elsewhere
  <2>3. QED
    BY <1>4, <2>2 DEF TurnParts
<1>6. CASE Calm(c)'
  <2>1. disturbed' = disturbed /\ CallerStage(c) /\ Calm(c)
    BY <1>2, <1>6 DEF Calm
  <2>2. \A x : Calm(x)' <=> Calm(x)
    BY <2>1 DEF Calm
  <2>3. pc[c] = "idle" /\ c \notin LocalCalls => h[c] = "none"
    BY <1>1 DEF FrameInv, OnceInv, Fresh
  <2>4. reply[c] # <<>> =>
          /\ reply[c] \in Seq(Frame) /\ 1 \in DOMAIN reply[c] /\ Head(reply[c]) = reply[c][1]
          /\ Head(reply[c]).of.call = c
          /\ c \in ran /\ h[c] = "end"
    BY <2>1, AnsweredCall
  <2>5. \A x \in Calls : Silence(x) => x # c /\ Silence(x)'
    BY <1>2, <2>1 DEF Silence, CallerStage
  <2>6. \A d \in Daemons : \A k \in DOMAIN queue[d] : queue[d][k].call \in Calls
    BY <1>1, QueuedCall
  <2>7. \A d \in Daemons : Busy(d) => current[d].call \in Calls
    BY <1>1 DEF Typed, HoldsPacket, Packet
  <2>8. OneByOne'
    <3>1. CASE Connect(c)
      <4>1. Alone(c)
        BY <2>1, <3>1 DEF CallerStage, Connect, CanCall, Gone
      <4>2. \A o \in Calls : Wants[o] = Wants[c] => ~Ongoing(o)
        BY <4>1 DEF Alone
      <4>3. \A x \in Calls : x # c => (Ongoing(x)' <=> Ongoing(x))
        BY <1>2 DEF Ongoing
      <4>4. QED
        BY <1>1, <2>2, <4>2, <4>3 DEF CalmParts, OneByOne
    <3>2. CASE ~Connect(c)
      <4>1. \A x \in Calls : Ongoing(x)' => Ongoing(x)
        BY <1>2, <2>1, <3>2 DEF CallerStage, Gone, Ongoing
      <4>2. QED
        BY <1>1, <2>2, <4>1 DEF CalmParts, OneByOne
    <3>3. QED
      BY <3>1, <3>2
  <2>9. Accompanied'
    <3>1. \A x \in Calls : x # c /\ Calm(x) =>
            /\ h'[x] \in {"backlog", "reading", "execute", "bound"} => Ongoing(x)'
            /\ h'[x] # "none" => x \notin LocalCalls /\ pc'[x] # "idle" /\ Wants[x] \in registered'
            /\ h'[x] \in {"execute", "bound", "end"} => sent'[x] = 2
            /\ pc'[x] \in {"idle", "connected", "lengthSent"} => sent'[x] # 2
            /\ pc'[x] # "waitAnything"
      BY <1>1, <1>2 DEF CalmParts, Accompanied, Ongoing
    <3>2. /\ h'[c] \in {"backlog", "reading", "execute", "bound"} => Ongoing(c)'
          /\ h'[c] # "none" => c \notin LocalCalls /\ pc'[c] # "idle" /\ Wants[c] \in registered'
          /\ h'[c] \in {"execute", "bound", "end"} => sent'[c] = 2
          /\ pc'[c] \in {"idle", "connected", "lengthSent"} => sent'[c] # 2
          /\ pc'[c] # "waitAnything"
      BY <1>1, <1>2, <2>1, <2>3, <2>4 DEF CalmParts, Accompanied, Ongoing, CallerStage, Gone
    <3>3. QED
      BY <2>2, <3>1, <3>2 DEF Accompanied
  <2>10. SocketKept'
    <3>1. \A x \in Calls : Ongoing(x)' /\ WasBound(x)' => Ongoing(x) /\ WasBound(x)
      BY <1>2, <2>1, <2>3 DEF Ongoing, WasBound, CallerStage, Gone
    <3>2. QED
      BY <1>1, <1>2, <2>2, <3>1 DEF CalmParts, SocketKept
  <2>11. InFlight'
    <3>1. \A x \in Calls : h'[x] \in {"execute", "bound"} => h[x] \in {"execute", "bound"}
      BY <1>2, <2>1 DEF CallerStage
    <3>2. \A x \in Calls : Calm(x) /\ h'[x] \in {"execute", "bound"} => Silence(x)'
      BY <1>1, <2>5, <3>1 DEF CalmParts, InFlight
    <3>3. \A d \in Daemons : \A k \in DOMAIN queue[d] :
            Calm(queue[d][k].call) => Silence(queue[d][k].call)'
      BY <1>1, <1>2, <2>5, <2>6 DEF CalmParts, InFlight, Silence
    <3>4. QED
      BY <1>2, <2>1, <2>2, <3>2, <3>3 DEF InFlight, Silence, Calm
  <2>12. \A x \in Calls : LengthWritten(x) => LengthWritten(x)'
    BY <1>2, <2>1 DEF LengthWritten, CallerStage
  <2>13. Working'
    <3> SUFFICES ASSUME NEW d \in Daemons, Busy(d), NEW x \in Calls, x = current[d].call, Calm(x)
                 PROVE  /\ dpc[d] \in {"callback", "sendLength"} => Silence(x)'
                        /\ dpc[d] = "sendPacket" => LengthWritten(x)'
      BY <1>2, <2>1, <2>7 DEF Working, Busy, Silence, LengthWritten, Calm
    <3>1. QED
      BY <1>1, <2>5, <2>12 DEF CalmParts, Working
  <2>14. OwnAnswer'
    <3>1. \A x \in Calls : Calm(x) => \A k \in DOMAIN reply'[x] : reply'[x][k].of.call = x
      BY <1>1, <1>3 DEF CalmParts, OwnAnswer
    <3>2. \A x \in Calls : x # c /\ Calm(x) =>
            (pc'[x] = "waitSize" /\ reply'[x] # <<>> => Head(reply'[x]).kind = "length")
      BY <1>1, <1>2 DEF CalmParts, OwnAnswer
    <3>3. pc'[c] = "waitSize" => reply'[c] = <<>>
      BY <1>1, <1>2, <2>1, <2>4 DEF CallerStage, Gone, CalmParts, Accompanied
    <3>4. QED
      BY <2>2, <3>1, <3>2, <3>3 DEF OwnAnswer
  <2>15. OwnResultUndisturbed'
    <3>1. NULL \notin Calls /\ Garbage \notin Calls
      BY RpcAssumption DEF RpcAssumption
    <3>2. result' = result \/ result'[c] \in {c, NULL, Garbage}
      BY <1>1, <2>1, <2>4 DEF CallerStage, TypeOK
    <3>3. QED
      BY <1>1, <1>2, <2>1, <3>1, <3>2 DEF CalmParts, OwnResultUndisturbed
  <2>16. ConnectedCallSurvives'
    BY <1>1, <1>2, <2>1, <2>3 DEF CalmParts, ConnectedCallSurvives, CallerStage, Gone
  <2>17. QED
    BY <1>4, <2>8, <2>9, <2>10, <2>11, <2>13, <2>14, <2>15, <2>16 DEF TurnParts, CalmParts
<1>7. QED
  BY <1>5, <1>6

-----------------------------------------------------------------------------
(* The service.                                                            *)

LEMMA TurnService ==
  ASSUME TurnInv, NEW c \in Calls, Typed',
         \/ Accept(c) \/ ReadRequest(c) \/ RequestCutShort(c) \/ LocalExecute(c)
         \/ InterfaceNotFound(c) \/ BindSocket(c) \/ Forward(c)
  PROVE  TurnParts'
<1>1. TypeOK /\ TurnParts /\ CalmParts /\ Typed /\ FrameInv
  BY DEF TurnInv, TurnParts, FrameInv, OnceInv, Typed
<1>2. /\ UNCHANGED <<pc, sent, result, registered, dpc, current, reply>>
      /\ \A x \in Calls : x # c => h'[x] = h[x]
  BY <1>1 DEF TypeOK, callerVars, ctrlVars, daemonVars, Accept, ReadRequest, RequestCutShort,
              LocalExecute, InterfaceNotFound, BindSocket, Forward
<1>3. \A j \in Interfaces : j # Wants[c] => socket'[j] = socket[j]
  BY <1>1 DEF TypeOK, serviceVars, Accept, ReadRequest, RequestCutShort, LocalExecute,
              InterfaceNotFound, BindSocket, Forward
<1>4. \A d \in Daemons : \A k \in DOMAIN queue'[d] :
        \/ \E l \in DOMAIN queue[d] : queue'[d][k] = queue[d][l]
        \/ /\ h[c] = "bound" /\ queue'[d][k].call = c
           /\ Intact(queue'[d][k])
  <2>1. CASE UNCHANGED queue
    BY <2>1
  <2>2. CASE ~UNCHANGED queue
    <3> DEFINE d == client_portid[Wants[c]]
    <3>1. PICK w \in BOOLEAN :
            /\ h[c] = "bound" /\ d # NULL
            /\ ~w => c \in Broken
            /\ queue' = [queue EXCEPT ![d] = Append(@, [call |-> c, whole |-> w])]
      BY <2>2 DEF Forward, Reachable, daemonVars, Accept, ReadRequest, RequestCutShort,
                  LocalExecute, InterfaceNotFound, BindSocket
    <3>2. Wants[c] \in Interfaces
      BY RpcAssumption DEF RpcAssumption
    <3>3. d \in Daemons
      BY <1>1, <3>1, <3>2 DEF TypeOK
    <3> HIDE DEF d
    <3>4. PICK p \in Packet : p = [call |-> c, whole |-> w]
      BY DEF Packet
    <3>5. p.call = c /\ p.whole = w
      BY <3>4
    <3>6. /\ queue[d] \in Seq(Packet) /\ queue'[d] = Append(queue[d], p)
          /\ \A e \in Daemons : e # d => queue'[e] = queue[e]
      BY <1>1, <3>1, <3>3, <3>4 DEF TypeOK
    <3>7. \A k \in DOMAIN queue'[d] :
            (k \in DOMAIN queue[d] /\ queue'[d][k] = queue[d][k]) \/ queue'[d][k] = p
      BY <3>6
    <3>8. QED
      BY <3>1, <3>5, <3>6, <3>7 DEF Intact
  <2>3. QED
    BY <2>1, <2>2
<1>5. Whole'
  BY <1>1, <1>2, <1>4 DEF TurnParts, Whole, Busy
<1>6. \/ disturbed' = disturbed /\ ~LocalExecute(c)
      \/ disturbed' = disturbed \cup {Wants[c]}
  BY DEF callerVars, Disturbs, LocalExecute, Accept, ReadRequest, RequestCutShort,
         InterfaceNotFound, BindSocket, Forward
<1>7. CASE ~Calm(c)'
  <2>1. Wants[c] \in Interfaces /\ Wants[c] \in disturbed' /\ disturbed \subseteq disturbed'
    BY <1>6, <1>7, RpcAssumption DEF Calm, RpcAssumption
  <2>2. /\ \A x \in Calls : Wants[x] # Wants[c] =>
             /\ pc'[x] = pc[x] /\ sent'[x] = sent[x] /\ h'[x] = h[x]
             /\ reply'[x] = reply[x] /\ result'[x] = result[x]
        /\ \A d \in Daemons : dpc'[d] = dpc[d] /\ current'[d] = current[d]
    BY <1>2
  <2>3. CalmParts'
    BY <1>1, <1>2, <1>3, <1>4, <2>1, <2>2, Elsewhere
  <2>4. QED
    BY <1>5, <2>3 DEF TurnParts
<1>8. CASE Calm(c)'
  <2>1. disturbed' = disturbed /\ ~LocalExecute(c) /\ Calm(c)
    BY <1>6, <1>8 DEF Calm
  <2>2. \A x : Calm(x)' <=> Calm(x)
    BY <2>1 DEF Calm
  <2>3. ~RequestCutShort(c) /\ ~InterfaceNotFound(c)
    BY <1>1, <2>1 DEF RequestCutShort, InterfaceNotFound, Over, CalmParts, Accompanied, Ongoing
  <2>4. \/ h[c] = "backlog" /\ h'[c] = "reading"
        \/ h[c] = "reading" /\ h'[c] = "execute" /\ sent[c] = 2
        \/ h[c] = "execute" /\ h'[c] = "bound"
        \/ h[c] = "bound" /\ h'[c] = "end"
    BY <1>1, <2>1, <2>3 DEF TypeOK, Accept, ReadRequest, BindSocket, Forward
  <2>5. \A x \in Calls : /\ Ongoing(x)' <=> Ongoing(x)
                         /\ Silence(x)' <=> Silence(x)
                         /\ LengthWritten(x)' <=> LengthWritten(x)
    BY <1>2 DEF Ongoing, Silence, LengthWritten
  <2>6. OneByOne' /\ OwnAnswer' /\ OwnResultUndisturbed'
    BY <1>1, <1>2, <2>1, <2>2, <2>5 DEF CalmParts, OneByOne, OwnAnswer, OwnResultUndisturbed
  <2>7. ConnectedCallSurvives'
    BY <1>1, <1>2, <2>1, <2>4 DEF CalmParts, ConnectedCallSurvives
  <2>8. Accompanied'
    BY <1>1, <1>2, <2>2, <2>4, <2>5 DEF CalmParts, Accompanied
  <2>9. SocketKept'
    <3>1. CASE BindSocket(c)
      <4>1. h[c] = "execute" /\ h'[c] = "bound" /\ c \notin LocalCalls
        BY <1>1, <2>1, <2>4, <3>1 DEF BindSocket, CalmParts, Accompanied
      <4>2. socket' = [socket EXCEPT ![Wants[c]] = c]
        BY <3>1, <4>1 DEF BindSocket
      <4>3. /\ \A x \in Calls : Wants[x] \in Interfaces
            /\ \A i \in Interfaces : socket'[i] = IF i = Wants[c] THEN c ELSE socket[i]
        BY <1>1, <4>2, RpcAssumption DEF TypeOK, RpcAssumption
      <4>4. Ongoing(c)
        BY <1>1, <2>1, <4>1 DEF CalmParts, Accompanied
      <4>5. \A x \in Calls : Ongoing(x) /\ Wants[x] = Wants[c] => x = c
        BY <1>1, <2>1, <4>4 DEF CalmParts, OneByOne
      <4>6. \A x \in Calls : x # c => (WasBound(x)' <=> WasBound(x))
        BY <1>2 DEF WasBound
      <4>7. QED
        BY <1>1, <2>2, <2>5, <4>3, <4>5, <4>6 DEF CalmParts, SocketKept
    <3>2. CASE ~BindSocket(c)
      <4>1. UNCHANGED socket /\ h[c] # "execute"
        BY <2>1, <2>3, <3>2 DEF serviceVars, Accept, ReadRequest, Forward
      <4>2. \A x \in Calls : WasBound(x)' => WasBound(x)
        BY <1>2, <2>4, <4>1 DEF WasBound
      <4>3. QED
        BY <1>1, <2>2, <2>5, <4>1, <4>2 DEF CalmParts, SocketKept
    <3>3. QED
      BY <3>1, <3>2
  <2>10. h'[c] \in {"execute", "bound"} => Silence(c)
    <3>1. CASE h[c] = "reading" /\ sent[c] = 2
      <4>1. pc[c] \in {"waitSize", "waitPacket"}
        BY <1>1, <2>1, <3>1 DEF TypeOK, CalmParts, Accompanied, Ongoing
      <4>2. reply[c] = <<>> /\ pc[c] # "waitPacket"
        BY <1>1, <3>1 DEF FrameInv, Bound, WasBound
      <4>3. QED
        BY <4>1, <4>2 DEF Silence
    <3>2. QED
      BY <1>1, <2>1, <2>4, <3>1 DEF CalmParts, InFlight
  <2>11. \A x \in Calls : Calm(x) /\ h'[x] \in {"execute", "bound"} => Silence(x)
    BY <1>1, <1>2, <2>10 DEF CalmParts, InFlight
  <2>12. InFlight'
    <3>1. \A d \in Daemons : \A k \in DOMAIN queue'[d] :
            Calm(queue'[d][k].call) => Silence(queue'[d][k].call)
      BY <1>1, <1>4, <2>1 DEF CalmParts, InFlight
    <3>2. QED
      BY <1>2, <2>1, <2>11, <3>1 DEF InFlight, Silence, Calm
  <2>13. Working'
    BY <1>1, <1>2, <2>1 DEF CalmParts, Working, Silence, LengthWritten, Calm, Busy
  <2>14. QED
    BY <1>5, <2>6, <2>7, <2>8, <2>9, <2>12, <2>13 DEF TurnParts, CalmParts
<1>9. QED
  BY <1>7, <1>8

-----------------------------------------------------------------------------
(* The daemons.                                                            *)

\* An answer goes to the call that was executed.
LEMMA AnswersCurrent ==
  ASSUME TurnInv, NEW d \in Daemons, dpc[d] \in {"sendLength", "sendPacket"},
         Calm(current[d].call)
  PROVE  /\ AnswerSocket(d) = current[d].call
         /\ current[d] \in Packet /\ current[d].call \in Calls /\ current[d].call \in ran
         /\ Server(current[d].call) = d
<1>1. CalmParts /\ Typed /\ FrameInv
  BY DEF TurnInv, TurnParts, FrameInv, OnceInv, Typed
<1>2. /\ current[d] \in Packet /\ current[d].call \in Calls
      /\ current[d].call \in ran /\ h[current[d].call] = "end"
      /\ Server(current[d].call) = d
  BY <1>1 DEF Typed, HoldsPacket, Packet, Busy, FrameInv, IsoInv, CurrentRan, OnceInv, Handled,
              Served
<1>3. Ongoing(current[d].call)
  BY <1>1 DEF CalmParts, Working, Busy, Silence, LengthWritten, Ongoing
<1>4. QED
  BY <1>1, <1>2, <1>3 DEF CalmParts, SocketKept, WasBound, AnswerSocket

\* What is still to be executed is not what a daemon answers.
LEMMA NotCurrent ==
  ASSUME TurnInv, NEW d \in Daemons, Busy(d)
  PROVE  /\ \A x \in Calls : h[x] \in {"execute", "bound"} => x # current[d].call
         /\ \A e \in Daemons : \A k \in DOMAIN queue[e] : queue[e][k].call # current[d].call
         /\ \A e \in Daemons : e # d /\ Busy(e) => current[e].call # current[d].call
<1>1. Served /\ CurrentRan /\ Handled /\ AtMostOnce
  BY DEF TurnInv, FrameInv, OnceInv, IsoInv
<1>2. QED
  BY <1>1 DEF Served, CurrentRan, Handled, AtMostOnce

LEMMA TurnReceive ==
  ASSUME TurnInv, NEW d \in Daemons, Receive(d)
  PROVE  TurnParts'
<1>1. TypeOK /\ TurnParts /\ CalmParts /\ Typed
  BY DEF TurnInv, TurnParts, FrameInv, OnceInv, Typed
<1>2. UNCHANGED <<pc, sent, result, h, socket, registered, reply, disturbed>>
  BY DEF Receive, callerVars, serviceVars, ctrlVars
<1>3. /\ queue[d] \in Seq(Packet) /\ queue[d] # <<>> /\ queue'[d] = Tail(queue[d])
      /\ \A e \in Daemons : e # d =>
           queue'[e] = queue[e] /\ dpc'[e] = dpc[e] /\ current'[e] = current[e]
  BY <1>1 DEF TypeOK, Receive, TakePacket
<1>4. \/ dpc' = dpc /\ current' = current
      \/ dpc'[d] = "callback" /\ current'[d] = Head(queue[d])
  BY <1>1 DEF TypeOK, Receive
<1>5. /\ 1 \in DOMAIN queue[d] /\ Head(queue[d]) = queue[d][1]
      /\ \A k \in DOMAIN queue'[d] : k + 1 \in DOMAIN queue[d] /\ queue'[d][k] = queue[d][k + 1]
  BY <1>3
<1>6. \A e \in Daemons : \A k \in DOMAIN queue'[e] :
        \E l \in DOMAIN queue[e] : queue'[e][k] = queue[e][l]
  <2>1. \A k \in DOMAIN queue'[d] : \E l \in DOMAIN queue[d] : queue'[d][k] = queue[d][l]
    BY <1>5
  <2>2. QED
    BY <1>3, <2>1
<1>7. OneByOne' /\ Accompanied' /\ SocketKept' /\ OwnAnswer' /\ OwnResultUndisturbed'
      /\ ConnectedCallSurvives'
  BY <1>1, <1>2 DEF CalmParts, OneByOne, Accompanied, SocketKept, OwnAnswer, OwnResultUndisturbed,
                    ConnectedCallSurvives, Ongoing, WasBound, Calm
<1>8. InFlight'
  BY <1>1, <1>2, <1>6 DEF CalmParts, InFlight, Silence, Calm
<1>9. Calm(Head(queue[d]).call) => Silence(Head(queue[d]).call)
  BY <1>1, <1>5 DEF CalmParts, InFlight
<1>10. Working'
  <2> SUFFICES ASSUME NEW e \in Daemons, Busy(e)', Calm(current'[e].call)
               PROVE  /\ dpc'[e] \in {"callback", "sendLength"} => Silence(current'[e].call)
                      /\ dpc'[e] = "sendPacket" => LengthWritten(current'[e].call)
    BY <1>2 DEF Working, Silence, LengthWritten, Calm
  <2>1. CASE dpc'[e] = dpc[e] /\ current'[e] = current[e]
    BY <1>1, <2>1 DEF CalmParts, Working, Busy
  <2>2. QED
    BY <1>3, <1>4, <1>9, <2>1
<1>11. Whole'
  BY <1>1, <1>2, <1>3, <1>4, <1>5, <1>6 DEF TurnParts, Whole, Busy
<1>12. QED
  BY <1>7, <1>8, <1>10, <1>11 DEF TurnParts, CalmParts

\* Steps of a daemon that write nothing and take no packet.
LEMMA TurnSilent ==
  ASSUME TurnInv, NEW d \in Daemons, DaemonAction(d), ~Receive(d),
         Silent(d), dpc'[d] # "sendPacket"
  PROVE  TurnParts'
<1>1. TypeOK /\ TurnParts /\ CalmParts /\ Typed
  BY DEF TurnInv, TurnParts, FrameInv, OnceInv, Typed
<1>2. UNCHANGED <<pc, sent, result, h, socket, registered, reply, current, disturbed>>
  BY DEF DaemonAction, Silent, callerVars, serviceVars, ctrlVars, Activate, CallbackReturns,
         CallbackFails, Killed, SendResultLength, SendResultPacket
<1>3. \A e \in Daemons : e # d => queue'[e] = queue[e] /\ dpc'[e] = dpc[e]
  BY <1>1, DaemonEffect
<1>4. queue'[d] \in {queue[d], <<>>}
  BY <1>1 DEF TypeOK, DaemonAction, Dies, Activate, CallbackReturns, CallbackFails, Killed,
              SendResultLength, SendResultPacket
<1>5. /\ Busy(d)' => Busy(d)
      /\ dpc'[d] \in {"callback", "sendLength"} => dpc[d] = "callback"
  BY <1>1 DEF TypeOK, DaemonAction, Busy, Dies, Activate, CallbackReturns, CallbackFails, Killed,
              SendResultLength, SendResultPacket
<1>6. \A e \in Daemons : \A k \in DOMAIN queue'[e] :
        k \in DOMAIN queue[e] /\ queue'[e][k] = queue[e][k]
  <2>1. DOMAIN <<>> = {}
    OBVIOUS
  <2>2. CASE queue'[d] = <<>>
    BY <1>3, <2>1, <2>2, Zenon
  <2>3. CASE queue'[d] = queue[d]
    BY <1>3, <2>3
  <2>4. QED
    BY <1>4, <2>2, <2>3
<1>7. OneByOne' /\ Accompanied' /\ SocketKept' /\ OwnAnswer' /\ OwnResultUndisturbed'
      /\ ConnectedCallSurvives'
  BY <1>1, <1>2 DEF CalmParts, OneByOne, Accompanied, SocketKept, OwnAnswer, OwnResultUndisturbed,
                    ConnectedCallSurvives, Ongoing, WasBound, Calm
<1>8. InFlight'
  BY <1>1, <1>2, <1>6 DEF CalmParts, InFlight, Silence, Calm
<1>9. Working'
  BY <1>1, <1>2, <1>3, <1>5 DEF CalmParts, Working, Silence, LengthWritten, Busy, Calm
<1>10. Whole'
  BY <1>1, <1>2, <1>3, <1>5, <1>6 DEF TurnParts, Whole, Busy
<1>11. QED
  BY <1>7, <1>8, <1>9, <1>10 DEF TurnParts, CalmParts

LEMMA AppendedFrame ==
  ASSUME NEW s \in Seq(Frame), NEW f \in Frame
  PROVE  /\ Append(s, f) # <<>>
         /\ Head(Append(s, f)) = IF s = <<>> THEN f ELSE Head(s)
         /\ \A k \in DOMAIN Append(s, f) :
              (k \in DOMAIN s /\ Append(s, f)[k] = s[k]) \/ Append(s, f)[k] = f
         /\ s = <<>> => Tail(Append(s, f)) = <<>>
<1>1. s = <<>> => Tail(Append(s, f)) = <<>>
  <2> DEFINE t == Tail(Append(s, f))
  <2>1. s = <<>> => t \in Seq(Frame) /\ Len(t) = 0
    OBVIOUS
  <2> HIDE DEF t
  <2>2. t \in Seq(Frame) /\ Len(t) = 0 => t = <<>>
    OBVIOUS
  <2>3. QED
    BY <2>1, <2>2 DEF t
<1>2. QED
  BY <1>1, AppendToReply

\* The two steps of an answer.
LEMMA TurnWrites ==
  ASSUME TurnInv, NEW d \in Daemons, DaemonAction(d), ~Receive(d),
         NEW kind \in {"length", "packet"}, Writes(d, kind),
         \/ kind = "length" /\ dpc[d] = "sendLength" /\ dpc'[d] = "sendPacket"
         \/ kind = "packet" /\ dpc[d] = "sendPacket" /\ dpc'[d] \in {"dead", "listening"},
         Typed'
  PROVE  TurnParts'
<1>1. TypeOK /\ TurnParts /\ CalmParts /\ Typed /\ FrameInv
  BY DEF TurnInv, TurnParts, FrameInv, OnceInv, Typed
<1>2. UNCHANGED <<pc, sent, result, h, socket, registered, current, disturbed>>
  BY DEF DaemonAction, Writes, callerVars, serviceVars, ctrlVars, Activate, CallbackReturns,
         CallbackFails, Killed, SendResultLength, SendResultPacket
<1>3. \A e \in Daemons : e # d => queue'[e] = queue[e] /\ dpc'[e] = dpc[e]
  BY <1>1, DaemonEffect
<1>4. \A e \in Daemons : \A k \in DOMAIN queue'[e] :
        k \in DOMAIN queue[e] /\ queue'[e][k] = queue[e][k]
  <2>1. queue'[d] \in {queue[d], <<>>}
    BY <1>1 DEF TypeOK, DaemonAction, Dies, Activate, CallbackReturns, CallbackFails, Killed,
                SendResultLength, SendResultPacket
  <2>2. DOMAIN <<>> = {}
    OBVIOUS
  <2>3. CASE queue'[d] = <<>>
    BY <1>3, <2>2, <2>3, Zenon
  <2>4. CASE queue'[d] = queue[d]
    BY <1>3, <2>4
  <2>5. QED
    BY <2>1, <2>3, <2>4
<1>5. PICK x \in Calls, p \in Packet :
        /\ AnswerSocket(d) = x /\ current[d] = p /\ p.call \in Calls
        /\ Wants[x] = Wants[p.call]
  BY AnswerSocketFacts, <1>1 DEF Busy, Writes
<1>6. PICK f \in Frame :
        f.kind = kind /\ f.of = p /\ reply' = [reply EXCEPT ![x] = Append(@, f)]
  <2>1. [kind |-> kind, of |-> p] \in Frame
    BY DEF Frame
  <2>2. QED
    BY <1>5, <2>1 DEF Writes
<1>7. /\ reply[x] \in Seq(Frame) /\ reply'[x] = Append(reply[x], f)
      /\ \A y \in Calls : y # x => reply'[y] = reply[y]
  BY <1>1, <1>6 DEF TypeOK
<1>8. /\ reply'[x] # <<>>
      /\ Head(reply'[x]) = IF reply[x] = <<>> THEN f ELSE Head(reply[x])
      /\ \A k \in DOMAIN reply'[x] :
           \/ k \in DOMAIN reply[x] /\ reply'[x][k] = reply[x][k]
           \/ reply'[x][k] = f
      /\ reply[x] = <<>> => Tail(reply'[x]) = <<>>
  BY <1>7, AppendedFrame
<1>9. Whole'
  <2>1. \A e \in Daemons : Busy(e)' => Busy(e)
    BY <1>3 DEF Busy
  <2>2. Intact(f.of)
    BY <1>1, <1>5, <1>6 DEF TurnParts, Whole, Busy
  <2>3. \A y \in Calls : \A k \in DOMAIN reply'[y] : Intact(reply'[y][k].of)
    BY <1>1, <1>7, <1>8, <2>2 DEF TurnParts, Whole
  <2>4. QED
    BY <1>1, <1>2, <1>4, <2>1, <2>3 DEF TurnParts, Whole
<1>10. CASE ~Calm(p.call)
  <2>1. Wants[x] \in Interfaces /\ Wants[x] \in disturbed'
    BY <1>2, <1>5, <1>10, RpcAssumption DEF Calm, RpcAssumption
  <2>2. \A y \in Calls : Wants[y] # Wants[x] => reply'[y] = reply[y]
    BY <1>7
  <2>3. \A e \in Daemons : Busy(e)' /\ Wants[current'[e].call] # Wants[x] =>
          dpc'[e] = dpc[e] /\ current'[e] = current[e]
    BY <1>2, <1>3, <1>5
  <2>4. \A e \in Daemons : \A k \in DOMAIN queue'[e] :
          \E l \in DOMAIN queue[e] : queue'[e][k] = queue[e][l]
    BY <1>4
  <2>5. CalmParts'
    BY <1>1, <1>2, <2>1, <2>2, <2>3, <2>4, Elsewhere
  <2>6. QED
    BY <1>9, <2>5 DEF TurnParts
<1>11. CASE Calm(p.call)
  <2>1. x = p.call /\ Calm(x)
    BY <1>5, <1>11, AnswersCurrent
  <2>2. \A y : Calm(y)' <=> Calm(y)
    BY <1>2 DEF Calm
  <2>3. /\ \A y \in Calls : h[y] \in {"execute", "bound"} => y # x
        /\ \A e \in Daemons : \A k \in DOMAIN queue[e] : queue[e][k].call # x
        /\ \A e \in Daemons : e # d /\ Busy(e) => current[e].call # x
    BY <1>5, <2>1, NotCurrent DEF Busy
  <2>4. /\ \A e \in Daemons : \A k \in DOMAIN queue[e] : queue[e][k].call \in Calls
        /\ \A e \in Daemons : Busy(e) => current[e].call \in Calls
    BY <1>1, QueuedCall DEF Typed, HoldsPacket, Packet
  <2>5. /\ dpc[d] = "sendLength" => Silence(x)
        /\ dpc[d] = "sendPacket" => LengthWritten(x)
    BY <1>1, <1>5, <2>1 DEF CalmParts, Working, Busy
  <2>6. /\ OneByOne' /\ Accompanied' /\ SocketKept' /\ OwnResultUndisturbed'
        /\ ConnectedCallSurvives'
    BY <1>1, <1>2 DEF CalmParts, OneByOne, Accompanied, SocketKept, OwnResultUndisturbed,
                      ConnectedCallSurvives, Ongoing, WasBound, Calm
  <2>7. \A y \in Calls : y # x =>
          (Silence(y) => Silence(y)') /\ (LengthWritten(y) => LengthWritten(y)')
    BY <1>2, <1>7 DEF Silence, LengthWritten
  <2>8. InFlight'
    <3>1. \A e \in Daemons : \A k \in DOMAIN queue[e] :
            \A y \in Calls : y = queue[e][k].call /\ Calm(y) => Silence(y)'
      BY <1>1, <2>3, <2>7 DEF CalmParts, InFlight
    <3>2. \A e \in Daemons : \A k \in DOMAIN queue'[e] :
            Calm(queue'[e][k].call) => Silence(queue[e][k].call)'
      BY <1>4, <2>4, <3>1 DEF Silence
    <3>3. \A y \in Calls : Calm(y) /\ h'[y] \in {"execute", "bound"} => Silence(y)'
      BY <1>1, <1>2, <2>3, <2>7 DEF CalmParts, InFlight
    <3>4. QED
      BY <1>2, <3>2, <3>3 DEF InFlight, Silence, Calm
  <2>9. Working'
    <3> SUFFICES ASSUME NEW e \in Daemons, dpc'[e] \in {"callback", "sendLength", "sendPacket"},
                        Calm(current[e].call)
                 PROVE  /\ dpc'[e] \in {"callback", "sendLength"} => Silence(current[e].call)'
                        /\ dpc'[e] = "sendPacket" => LengthWritten(current[e].call)'
      BY <1>2 DEF Working, Silence, LengthWritten, Busy, Calm
    <3>1. CASE e = d
      <4>1. dpc'[e] = "sendPacket" /\ kind = "length" /\ Silence(x)
        BY <2>5, <3>1
      <4>2. LengthWritten(x)'
        BY <1>2, <1>8, <4>1 DEF Silence, LengthWritten
      <4>3. QED
        BY <1>2, <1>5, <2>1, <3>1, <4>1, <4>2 DEF LengthWritten
    <3>2. CASE e # d
      <4>1. dpc'[e] = dpc[e] /\ Busy(e)
        BY <1>3, <3>2 DEF Busy
      <4>2. PICK y \in Calls : y = current[e].call
        BY <2>4, <4>1
      <4>3. /\ dpc[e] \in {"callback", "sendLength"} => Silence(y)'
            /\ dpc[e] = "sendPacket" => LengthWritten(y)'
        BY <1>1, <2>3, <2>7, <3>2, <4>1, <4>2 DEF CalmParts, Working
      <4>4. QED
        BY <1>2, <4>1, <4>2, <4>3 DEF Silence, LengthWritten
    <3>3. QED
      BY <3>1, <3>2
  <2>10. OwnAnswer'
    <3>1. reply[x] = <<>> /\ pc[x] = "waitSize" => f.kind = "length"
      BY <1>6, <2>5 DEF LengthWritten
    <3>2. f.of.call = x
      BY <1>6, <2>1
    <3>3. /\ \A k \in DOMAIN reply'[x] : reply'[x][k].of.call = x
          /\ pc'[x] = "waitSize" => Head(reply'[x]).kind = "length"
      BY <1>1, <1>2, <1>8, <2>1, <3>1, <3>2 DEF CalmParts, OwnAnswer
    <3>4. \A y \in Calls : y # x /\ Calm(y) =>
            /\ \A k \in DOMAIN reply'[y] : reply'[y][k].of.call = y
            /\ pc'[y] = "waitSize" /\ reply'[y] # <<>> => Head(reply'[y]).kind = "length"
      BY <1>1, <1>2, <1>7 DEF CalmParts, OwnAnswer
    <3>5. QED
      BY <2>2, <3>3, <3>4 DEF OwnAnswer
  <2>11. QED
    BY <1>9, <2>6, <2>8, <2>9, <2>10 DEF TurnParts, CalmParts
<1>12. QED
  BY <1>10, <1>11

LEMMA TurnDaemon ==
  ASSUME TurnInv, NEW d \in Daemons, DaemonAction(d), Typed'
  PROVE  TurnParts'
<1>1. TypeOK
  BY DEF TurnInv, FrameInv, OnceInv, Typed
<1>2. CASE Receive(d)
  BY <1>2, TurnReceive
<1>3. ASSUME ~Receive(d)
      PROVE  \/ Silent(d) /\ dpc'[d] # "sendPacket"
             \/ Writes(d, "length") /\ dpc[d] = "sendLength" /\ dpc'[d] = "sendPacket"
             \/ Writes(d, "packet") /\ dpc[d] = "sendPacket" /\ dpc'[d] \in {"dead", "listening"}
  BY <1>1, <1>3 DEF TypeOK, DaemonAction, Silent, Writes, Dies, SendFrame, Activate,
       CallbackReturns, CallbackFails, Killed, SendResultLength, SendResultPacket
<1>4. QED
  BY <1>2, <1>3, TurnSilent, TurnWrites

LEMMA NextTurns == TurnInv /\ [Next]_vars => TurnInv'
<1> SUFFICES ASSUME TurnInv, [Next]_vars PROVE TurnParts'
  BY NextFrames DEF TurnInv
<1>1. TurnParts /\ CalmParts /\ Typed'
  BY NextTyped DEF TurnInv, TurnParts, FrameInv, OnceInv
<1>2. ASSUME UNCHANGED <<callerVars, h, socket, daemonVars, reply>>, registered \subseteq registered'
      PROVE  TurnParts'
  <2>1. UNCHANGED <<pc, sent, result, h, socket, queue, dpc, current, reply, disturbed>>
    BY <1>2 DEF callerVars, daemonVars
  <2>2. OneByOne' /\ SocketKept' /\ OwnAnswer' /\ OwnResultUndisturbed' /\ ConnectedCallSurvives'
    BY <1>1, <2>1 DEF CalmParts, OneByOne, SocketKept, OwnAnswer, OwnResultUndisturbed,
                      ConnectedCallSurvives, Ongoing, WasBound, Calm
  <2>3. Accompanied'
    BY <1>1, <1>2, <2>1 DEF CalmParts, Accompanied, Ongoing, Calm
  <2>4. InFlight' /\ Working' /\ Whole'
    BY <1>1, <2>1 DEF TurnParts, CalmParts, InFlight, Working, Whole, Silence, LengthWritten,
                      Busy, Calm
  <2>5. QED
    BY <2>2, <2>3, <2>4 DEF TurnParts, CalmParts
<1>3. CASE AcceptFails
  BY <1>2, <1>3 DEF AcceptFails, ctrlVars
<1>4. ASSUME NEW i \in Interfaces, Register(i) PROVE TurnParts'
  BY <1>2, <1>4 DEF Register, serviceVars
<1>5. CASE UNCHANGED vars
  BY <1>2, <1>5 DEF vars, serviceVars, ctrlVars
<1>6. QED
  BY <1>1, <1>3, <1>4, <1>5, TurnCaller, TurnService, TurnDaemon
  DEF Next, CallerStep, ServiceStep, DaemonStep, CallerAction, DaemonAction

LEMMA InitTurns == Init => TurnInv
<1> SUFFICES ASSUME Init PROVE TurnParts
  BY InitFrames DEF TurnInv
<1>1. NULL \notin Calls
  BY RpcAssumption DEF RpcAssumption
<1>2. DOMAIN <<>> = {}
  OBVIOUS
<1>3. /\ \A c \in Calls : DOMAIN reply[c] = {}
      /\ \A d \in Daemons : DOMAIN queue[d] = {}
  <2>1. /\ \A c \in Calls : reply[c] = <<>>
        /\ \A d \in Daemons : queue[d] = <<>>
    BY DEF Init
  <2>2. QED
    BY <1>2, <2>1, Zenon
<1>4. /\ \A c \in Calls : pc[c] = "idle" /\ h[c] = "none" /\ sent[c] = 0 /\ result[c] = NULL
      /\ \A d \in Daemons : dpc[d] = "starting"
  BY DEF Init
<1>5. OneByOne /\ Accompanied /\ SocketKept /\ OwnResultUndisturbed /\ ConnectedCallSurvives
  BY <1>1, <1>4 DEF OneByOne, Accompanied, SocketKept, OwnResultUndisturbed,
                    ConnectedCallSurvives, Ongoing
<1>6. InFlight /\ Working /\ OwnAnswer /\ Whole
  BY <1>3, <1>4 DEF InFlight, Working, OwnAnswer, Whole, Busy
<1>7. QED
  BY <1>5, <1>6 DEF TurnParts, CalmParts

LEMMA TurnsInvariant == Spec => []TurnInv
BY InitTurns, NextTurns, PTL DEF Spec

(***************************************************************************)
(* interface.h:101: no ioctl gives its caller the answer to another call   *)
(* of an interface whose calls have not met, whatever fails and whatever   *)
(* happens on the other interfaces.                                        *)
(***************************************************************************)
THEOREM OwnResultUndisturbedHolds == Spec => []OwnResultUndisturbed
<1>1. TurnInv => OwnResultUndisturbed
  BY DEF TurnInv, TurnParts, CalmParts
<1>2. QED
  BY <1>1, TurnsInvariant, PTL

(***************************************************************************)
(* peer_ioctl: on an interface whose calls have not met, only a call that  *)
(* got no connection is brought down.                                      *)
(***************************************************************************)
THEOREM ConnectedCallSurvivesHolds == Spec => []ConnectedCallSurvives
<1>1. TurnInv => ConnectedCallSurvives
  BY DEF TurnInv, TurnParts, CalmParts
<1>2. QED
  BY <1>1, TurnsInvariant, PTL

-----------------------------------------------------------------------------
(* The answer of a call whose callback has run is written or being written. *)

\* What is left to read, of the length and the packet.
ToRead(c) ==
  \/ pc[c] = "waitSize" /\ Len(reply[c]) > 1
  \/ pc[c] = "waitPacket" /\ Len(reply[c]) > 0

AtWork(c) == Busy(Server(c)) /\ current[Server(c)].call = c

Answers(c) == ToRead(c) \/ AtWork(c) \/ dpc[Server(c)] = "dead"

Kept == \A c \in ran \ Failing : Calm(c) /\ Ongoing(c) => Answers(c)

KeptInv == TurnInv /\ Kept

\* Steps that change nothing on the way of an answer.
LEMMA KeptAside ==
  ASSUME Kept, disturbed \subseteq disturbed', UNCHANGED <<pc, reply, dpc, current, ran>>
  PROVE  Kept'
BY DEF Kept, Calm, Ongoing, Answers, ToRead, AtWork, Busy, Server

\* A call that was run has sent its request.
LEMMA RanStage ==
  ASSUME TurnInv, NEW c \in ran, Calm(c)
  PROVE  c \in Calls /\ pc[c] \notin {"idle", "connected", "lengthSent"}
<1>1. c \in Calls /\ h[c] = "end"
  BY DEF TurnInv, FrameInv, OnceInv, Typed, TypeOK, Handled
<1>2. QED
  BY <1>1 DEF TurnInv, TurnParts, CalmParts, Accompanied

LEMMA KeptCaller ==
  ASSUME KeptInv, NEW x \in Calls, CallerAction(x)
  PROVE  Kept'
<1>1. TurnInv /\ Kept /\ TypeOK
  BY DEF KeptInv, TurnInv, FrameInv, OnceInv, Typed
<1>2. /\ UNCHANGED <<dpc, current, ran>>
      /\ \A y \in Calls : y # x => pc'[y] = pc[y] /\ reply'[y] = reply[y]
      /\ disturbed \subseteq disturbed'
      /\ Calm(x)' => disturbed' = disturbed /\ CallerStage(x)
  BY <1>1, CallerStages
<1> SUFFICES ASSUME NEW c \in ran \ Failing, Calm(c)', Ongoing(c)' PROVE Answers(c)'
  BY <1>2 DEF Kept
<1>3. Calm(c) /\ c \in Calls /\ pc[c] \notin {"idle", "connected", "lengthSent"}
  BY <1>1, <1>2, RanStage DEF Calm
<1>4. CASE c # x
  BY <1>1, <1>2, <1>3, <1>4 DEF Kept, Ongoing, Answers, ToRead, AtWork, Busy, Server
<1>5. CASE c = x
  <2>1. /\ pc[c] = "waitSize" /\ pc'[c] = "waitPacket"
        /\ reply[c] # <<>> /\ reply'[c] = Tail(reply[c])
    BY <1>2, <1>3, <1>5 DEF CallerStage, Gone, Ongoing
  <2>2. Len(reply'[c]) = Len(reply[c]) - 1 /\ Len(reply[c]) \in Nat
    <3>1. reply[c] \in Seq(Frame)
      BY <1>1, <1>3 DEF TypeOK
    <3>2. QED
      BY <2>1, <3>1
  <2>3. Answers(c)
    BY <1>1, <1>3, <2>1 DEF Kept, Ongoing
  <2>4. QED
    BY <1>2, <2>1, <2>2, <2>3 DEF Answers, ToRead, AtWork, Busy, Server
<1>6. QED
  BY <1>4, <1>5

LEMMA KeptReceive ==
  ASSUME KeptInv, NEW d \in Daemons, Receive(d)
  PROVE  Kept'
<1>1. TurnInv /\ Kept /\ TypeOK /\ Served
  BY DEF KeptInv, TurnInv, FrameInv, OnceInv, Typed
<1>2. UNCHANGED <<pc, reply, disturbed>> /\ dpc[d] = "listening"
      /\ \A e \in Daemons : e # d => dpc'[e] = dpc[e] /\ current'[e] = current[e]
  BY <1>1 DEF TypeOK, Receive, callerVars
<1>3. queue[d] \in Seq(Packet) /\ queue[d] # <<>>
  BY <1>1 DEF TypeOK, Receive, TakePacket
<1>4. 1 \in DOMAIN queue[d] /\ Head(queue[d]) = queue[d][1]
  BY <1>3
<1>5. PICK x \in Calls : x = Head(queue[d]).call
  BY <1>1, <1>3, HeadPacket
<1>6. Server(x) = d
  BY <1>1, <1>4, <1>5 DEF Served
<1>7. CASE UNCHANGED <<dpc, current, ran>>
  BY <1>1, <1>2, <1>7, KeptAside
<1>8. CASE /\ dpc' = [dpc EXCEPT ![d] = "callback"]
           /\ current' = [current EXCEPT ![d] = Head(queue[d])] /\ ran' = ran \cup {x}
  <2>1. dpc'[d] = "callback" /\ current'[d].call = x
    BY <1>1, <1>5, <1>8 DEF TypeOK
  <2>2. AtWork(x)'
    BY <1>6, <2>1 DEF AtWork, Busy, Server
  <2> SUFFICES ASSUME NEW c \in ran \ Failing, Calm(c), Ongoing(c), c # x PROVE Answers(c)'
    BY <1>2, <1>8, <2>2 DEF Kept, Calm, Ongoing, Answers
  <2>3. Answers(c) /\ Server(c) \in Daemons
    BY <1>1, RpcAssumption DEF Kept, Server, TypeOK, RpcAssumption
  <2>4. CASE Server(c) = d
    BY <1>2, <2>3, <2>4 DEF Answers, ToRead, AtWork, Busy
  <2>5. CASE Server(c) # d
    BY <1>2, <2>3, <2>5 DEF Answers, ToRead, AtWork, Busy, Server
  <2>6. QED
    BY <2>4, <2>5
<1>9. QED
  BY <1>5, <1>7, <1>8 DEF Receive, Runs

\* A daemon that writes nothing and takes no packet stays at work, gives up a
\* call that may fail, or dies.
LEMMA KeptSilent ==
  ASSUME KeptInv, NEW d \in Daemons, DaemonAction(d), ~Receive(d), Silent(d),
         dpc'[d] # "sendPacket"
  PROVE  Kept'
<1>1. TurnInv /\ Kept /\ TypeOK /\ CalmParts
  BY DEF KeptInv, TurnInv, TurnParts, FrameInv, OnceInv, Typed
<1>2. UNCHANGED <<pc, reply, current, ran, disturbed>>
  BY DEF DaemonAction, Silent, callerVars, Activate, CallbackReturns, CallbackFails, Killed,
         SendResultLength, SendResultPacket
<1>3. \A e \in Daemons : e # d => dpc'[e] = dpc[e]
  BY <1>1, DaemonEffect
<1>4. ASSUME Busy(d), Calm(current[d].call), current[d].call \notin Failing
      PROVE  Busy(d)' \/ dpc'[d] = "dead"
  <2>1. dpc[d] \in {"sendLength", "sendPacket"} => AnswerSocket(d) # NULL
    <3> SUFFICES ASSUME dpc[d] \in {"sendLength", "sendPacket"} PROVE AnswerSocket(d) # NULL
      OBVIOUS
    <3>1. AnswerSocket(d) \in Calls
      BY <1>1, <1>4, AnswersCurrent
    <3>2. QED
      BY <3>1, RpcAssumption DEF RpcAssumption
  <2>2. ~Activate(d) /\ ~CallbackFails(d)
    BY <1>4 DEF Busy, Activate, CallbackFails
  <2>3. CASE CallbackReturns(d) \/ Killed(d)
    BY <1>1, <2>3 DEF TypeOK, Busy, Dies, CallbackReturns, Killed
  <2>4. CASE SendResultLength(d)
    BY <1>1, <2>1, <2>4 DEF TypeOK, Busy, Dies, SendResultLength
  <2>5. CASE SendResultPacket(d)
    <3>1. dpc[d] = "sendPacket" /\ SendFrame(d, "packet")
      BY <2>1, <2>5 DEF SendResultPacket
    <3>2. AnswerSocket(d) \in Calls
      BY <1>1, <1>4, <3>1, AnswersCurrent
    <3>3. \A f : reply' # [reply EXCEPT ![AnswerSocket(d)] = Append(@, f)]
      BY <1>1, <3>2 DEF Silent, TypeOK
    <3>4. QED
      BY <3>1, <3>3 DEF SendFrame
  <2>6. QED
    BY <2>2, <2>3, <2>4, <2>5 DEF DaemonAction
<1> SUFFICES ASSUME NEW c \in ran \ Failing, Calm(c), Ongoing(c) PROVE Answers(c)'
  BY <1>2 DEF Kept, Calm, Ongoing
<1>5. Answers(c)
  BY <1>1 DEF Kept
<1>6. dpc[d] # "dead"
  BY <1>1, DaemonEffect
<1>7. Server(c) \in Daemons
  BY <1>1, RpcAssumption DEF Server, TypeOK, RpcAssumption
<1>8. CASE Server(c) # d
  BY <1>2, <1>3, <1>5, <1>7, <1>8 DEF Answers, ToRead, AtWork, Busy, Server
<1>9. CASE Server(c) = d
  BY <1>2, <1>4, <1>5, <1>6, <1>9 DEF Answers, ToRead, AtWork, Server, Calm
<1>10. QED
  BY <1>8, <1>9

LEMMA KeptWrites ==
  ASSUME KeptInv, NEW d \in Daemons, DaemonAction(d), ~Receive(d),
         NEW kind \in {"length", "packet"}, Writes(d, kind),
         \/ kind = "length" /\ dpc[d] = "sendLength" /\ dpc'[d] = "sendPacket"
         \/ kind = "packet" /\ dpc[d] = "sendPacket" /\ dpc'[d] \in {"dead", "listening"}
  PROVE  Kept'
<1>1. TurnInv /\ Kept /\ TypeOK /\ CalmParts /\ FrameInv /\ Served
  BY DEF KeptInv, TurnInv, TurnParts, FrameInv, OnceInv, Typed
<1>2. UNCHANGED <<pc, current, ran, disturbed>>
  BY DEF DaemonAction, callerVars, Writes, Activate, CallbackReturns, CallbackFails, Killed,
         SendResultLength, SendResultPacket
<1>3. \A e \in Daemons : e # d => dpc'[e] = dpc[e]
  BY <1>1, DaemonEffect
<1>4. PICK s \in Calls : s = AnswerSocket(d)
  BY <1>1, AnswerSocketFacts DEF Busy, Writes
<1>5. /\ Len(reply'[s]) = Len(reply[s]) + 1
      /\ \A y \in Calls : Len(reply[y]) \in Nat /\ (y # s => reply'[y] = reply[y])
      /\ \A y \in Calls : reply[y] \in Seq(Frame)
  <2>1. \A y \in Calls : reply[y] \in Seq(Frame)
    BY <1>1 DEF TypeOK
  <2>2. PICK f : reply' = [reply EXCEPT ![s] = Append(@, f)]
    BY <1>4 DEF Writes
  <2>3. reply'[s] = Append(reply[s], f) /\ \A y \in Calls : y # s => reply'[y] = reply[y]
    BY <1>1, <2>2 DEF TypeOK
  <2>4. QED
    BY <2>1, <2>3
<1> SUFFICES ASSUME NEW c \in ran \ Failing, Calm(c), Ongoing(c) PROVE Answers(c)'
  BY <1>2 DEF Kept, Calm, Ongoing
<1>6. c \in Calls /\ Server(c) \in Daemons
  BY <1>1, RpcAssumption DEF Server, TypeOK, RpcAssumption
<1>7. Answers(c)
  BY <1>1 DEF Kept
<1>8. CASE ToRead(c)
  <2>1. Len(reply'[c]) \in Nat /\ Len(reply'[c]) >= Len(reply[c])
    BY <1>5, <1>6
  <2>2. QED
    BY <1>2, <1>5, <1>6, <1>8, <2>1 DEF Answers, ToRead
<1>9. CASE Server(c) # d
  BY <1>2, <1>3, <1>6, <1>7, <1>8, <1>9 DEF Answers, AtWork, Busy, Server
<1>10. CASE Server(c) = d /\ AtWork(c)
  <2>1. CASE kind = "length"
    BY <1>2, <1>10, <2>1 DEF Answers, AtWork, Busy, Server
  <2>2. CASE kind = "packet"
    <3>1. dpc[d] = "sendPacket" /\ current[d].call = c
      BY <1>10, <2>2 DEF AtWork
    <3>2. LengthWritten(c) /\ s = c
      BY <1>1, <1>4, <3>1, AnswersCurrent DEF CalmParts, Working, Busy
    <3>3. CASE pc[c] = "waitSize" /\ reply[c] # <<>>
      <4>1. Len(reply[c]) > 0
        BY <1>5, <1>6, <3>3
      <4>2. QED
        BY <1>2, <1>5, <1>6, <3>2, <3>3, <4>1 DEF Answers, ToRead
    <3>4. CASE pc[c] = "waitPacket"
      BY <1>2, <1>5, <1>6, <3>2, <3>4 DEF Answers, ToRead
    <3>5. QED
      BY <3>2, <3>3, <3>4 DEF LengthWritten
  <2>3. QED
    BY <2>1, <2>2
<1>11. QED
  BY <1>7, <1>8, <1>9, <1>10 DEF Answers

LEMMA KeptDaemon ==
  ASSUME KeptInv, NEW d \in Daemons, DaemonAction(d)
  PROVE  Kept'
<1>1. TypeOK
  BY DEF KeptInv, TurnInv, FrameInv, OnceInv, Typed
<1>2. ASSUME ~Receive(d)
      PROVE  \/ Silent(d) /\ dpc'[d] # "sendPacket"
             \/ Writes(d, "length") /\ dpc[d] = "sendLength" /\ dpc'[d] = "sendPacket"
             \/ Writes(d, "packet") /\ dpc[d] = "sendPacket" /\ dpc'[d] \in {"dead", "listening"}
  BY <1>1, <1>2 DEF TypeOK, DaemonAction, Silent, Writes, Dies, SendFrame, Activate,
       CallbackReturns, CallbackFails, Killed, SendResultLength, SendResultPacket
<1>3. QED
  BY <1>2, KeptReceive, KeptSilent, KeptWrites

LEMMA NextKept == KeptInv /\ [Next]_vars => KeptInv'
<1> SUFFICES ASSUME KeptInv, [Next]_vars PROVE Kept'
  BY NextTurns DEF KeptInv
<1>1. ASSUME disturbed \subseteq disturbed', UNCHANGED <<pc, reply, dpc, current, ran>>
      PROVE  Kept'
  BY <1>1, KeptAside DEF KeptInv
<1>2. CASE AcceptFails
  BY <1>1, <1>2 DEF AcceptFails, callerVars, daemonVars
<1>3. ASSUME NEW i \in Interfaces, Register(i) PROVE Kept'
  BY <1>1, <1>3 DEF Register, callerVars, daemonVars
<1>4. ASSUME NEW c \in Calls,
             \/ Accept(c) \/ ReadRequest(c) \/ RequestCutShort(c) \/ LocalExecute(c)
             \/ InterfaceNotFound(c) \/ BindSocket(c) \/ Forward(c)
      PROVE  Kept'
  BY <1>1, <1>4 DEF Accept, ReadRequest, RequestCutShort, LocalExecute, InterfaceNotFound,
                    BindSocket, Forward, callerVars, daemonVars, Disturbs
<1>5. CASE UNCHANGED vars
  BY <1>1, <1>5 DEF vars, callerVars, daemonVars
<1>6. QED
  BY <1>2, <1>3, <1>4, <1>5, KeptCaller, KeptDaemon
  DEF Next, CallerStep, ServiceStep, DaemonStep, CallerAction, DaemonAction

(***************************************************************************)
(* The answer of a call that was run is on its connection or on its way,   *)
(* whatever happens on other interfaces, unless its callback failed or the *)
(* daemon is dead.                                                         *)
(***************************************************************************)
THEOREM AnswerNotLostHolds == Spec => []AnswerNotLost
<1>1. Init => KeptInv
  BY InitTurns DEF Init, KeptInv, Kept
<1>2. KeptInv => AnswerNotLost
  <2> SUFFICES ASSUME KeptInv, NEW c \in ran \ Failing, Ongoing(c), Calm(c)
               PROVE  \/ reply[c] # <<>>
                      \/ /\ Busy(Server(c)) /\ current[Server(c)].call = c
                         /\ AnswerSocket(Server(c)) = c
                      \/ dpc[Server(c)] = "dead"
    BY DEF AnswerNotLost, Server, Busy, Calm
  <2>1. Answers(c) /\ c \in Calls /\ h[c] = "end" /\ SocketKept
    BY DEF KeptInv, Kept, TurnInv, TurnParts, CalmParts, FrameInv, OnceInv, Typed, TypeOK, Handled
  <2>2. ToRead(c) => reply[c] # <<>>
    <3>1. Len(<<>>) = 0
      OBVIOUS
    <3>2. QED
      BY <3>1 DEF ToRead
  <2>3. socket[Wants[c]] = c
    BY <2>1 DEF SocketKept, WasBound
  <2>4. QED
    BY <2>1, <2>2, <2>3 DEF Answers, AtWork, AnswerSocket
<1>3. QED
  BY <1>1, <1>2, NextKept, PTL DEF Spec

-----------------------------------------------------------------------------
(* The promise of RemoteCall.                                              *)

called == {c \in Calls : h[c] # "none"}

done == {c \in Calls : Over(c)}

executed == [c \in Calls |-> Executions(c)]

\* What an open call has reached; the manager's calls have no ioctl of a peer.
Reached ==
  /\ \A c \in Calls : Ongoing(c) => h[c] # "none"
  /\ \A c \in LocalCalls : pc[c] = "idle"

PromiseInv == TurnInv /\ AnswerInv /\ Reached

LEMMA CallerReached ==
  ASSUME PromiseInv, NEW c \in Calls, CallerAction(c)
  PROVE  Reached'
<1>1. TypeOK /\ Reached
  BY DEF PromiseInv, TurnInv, FrameInv, OnceInv, Typed
<1>2. \A x \in Calls : x # c => pc'[x] = pc[x] /\ h'[x] = h[x]
  BY CallerStages DEF PromiseInv
<1>3. c \notin LocalCalls
  BY <1>1 DEF Reached, CallerAction, Connect, CanCall, ConnectFails, SendLength, SendPacket,
              SendFails, RecvSize, RecvSizeFails, RecvPacket, RecvPacketFails, RecvAnything,
              RecvAnythingFails
<1>4. CASE Connect(c)
  <2>1. h'[c] = "backlog"
    BY <1>1, <1>4 DEF TypeOK, Connect
  <2>2. QED
    BY <1>1, <1>2, <1>3, <2>1, RpcAssumption DEF Reached, Ongoing, RpcAssumption
<1>5. CASE ConnectFails(c)
  <2>1. pc'[c] \in {"returned", "oops"}
    BY <1>1, <1>5 DEF TypeOK, ConnectFails, EndWithoutAnswer
  <2>2. QED
    BY <1>1, <1>2, <1>3, <2>1, RpcAssumption DEF Reached, Ongoing, RpcAssumption
<1>6. CASE ~Connect(c) /\ ~ConnectFails(c)
  <2>1. h' = h /\ Ongoing(c)
    BY <1>6 DEF CallerAction, serviceVars, Ongoing, SendLength, SendPacket, SendFails, RecvSize,
                RecvSizeFails, RecvPacket, RecvPacketFails, RecvAnything, RecvAnythingFails
  <2>2. QED
    BY <1>1, <1>2, <1>3, <2>1, RpcAssumption DEF Reached, Ongoing, RpcAssumption
<1>7. QED
  BY <1>4, <1>5, <1>6

LEMMA ServiceReached ==
  ASSUME PromiseInv, NEW c \in Calls,
         \/ Accept(c) \/ ReadRequest(c) \/ RequestCutShort(c) \/ LocalExecute(c)
         \/ InterfaceNotFound(c) \/ BindSocket(c) \/ Forward(c)
  PROVE  Reached'
<1>1. TypeOK /\ Reached
  BY DEF PromiseInv, TurnInv, FrameInv, OnceInv, Typed
<1>2. pc' = pc /\ \A x \in Calls : h[x] # "none" => h'[x] # "none"
  BY <1>1 DEF TypeOK, callerVars, Accept, ReadRequest, RequestCutShort, LocalExecute,
              InterfaceNotFound, BindSocket, Forward
<1>3. QED
  BY <1>1, <1>2 DEF Reached, Ongoing

LEMMA NextPromise == PromiseInv /\ [Next]_vars => PromiseInv'
<1> SUFFICES ASSUME PromiseInv, [Next]_vars PROVE Reached'
  BY NextTurns, NextAnswers DEF PromiseInv
<1>1. ASSUME UNCHANGED <<pc, h>> PROVE Reached'
  BY <1>1 DEF PromiseInv, Reached, Ongoing
<1>2. CASE AcceptFails
  BY <1>1, <1>2 DEF AcceptFails, callerVars
<1>3. ASSUME NEW i \in Interfaces, Register(i) PROVE Reached'
  BY <1>1, <1>3 DEF Register, callerVars, serviceVars
<1>4. ASSUME NEW d \in Daemons, DaemonAction(d) PROVE Reached'
  BY <1>1, <1>4, DaemonEffect DEF PromiseInv, TurnInv, FrameInv, OnceInv, Typed
<1>5. CASE UNCHANGED vars
  BY <1>1, <1>5 DEF vars, callerVars, serviceVars
<1>6. QED
  BY <1>2, <1>3, <1>4, <1>5, CallerReached, ServiceReached
  DEF Next, CallerStep, ServiceStep, DaemonStep, CallerAction, DaemonAction

LEMMA InitPromise == Init => PromiseInv
<1> SUFFICES ASSUME Init PROVE Reached
  BY InitTurns, InitAnswers DEF PromiseInv
<1>1. QED
  BY RpcAssumption DEF Init, Reached, Ongoing, RpcAssumption

\* The steps of RemoteCall in this representation.
LEMMA Promise ==
  /\ UNCHANGED <<called, executed, done, result, disturbed>> => UNCHANGED RC!vars
  /\ \A c \in Calls :
       /\ /\ c \notin called \cup done
          /\ called' = called \cup {c}
          /\ \/ Disturbs(c)
             \/ /\ \A o \in called \ done : Wants[o] # Wants[c]
                /\ UNCHANGED disturbed
          /\ UNCHANGED <<executed, done, result>>
          => RC!Call(c)
       /\ /\ c \notin called \cup done
          /\ done' = done \cup {c}
          /\ UNCHANGED <<called, executed, result, disturbed>>
          => RC!Reject(c)
       /\ /\ c \in called /\ executed[c] = 0
          /\ c \in done => ~Calm(c)
          /\ executed' = [executed EXCEPT ![c] = 1]
          /\ UNCHANGED <<called, done, result, disturbed>>
          => RC!Execute(c)
       /\ /\ c \in called \ done
          /\ \E a \in RC!Answers(c) : result' = [result EXCEPT ![c] = a]
          /\ done' = done \cup {c}
          /\ UNCHANGED <<called, executed, disturbed>>
          => RC!Answer(c)
       /\ /\ c \in called \ done
          /\ Disturbs(c)
          /\ \/ UNCHANGED <<done, result>>
             \/ /\ done' = done \cup {c}
                /\ \/ UNCHANGED result
                   \/ \E a \in {NULL, Garbage} : result' = [result EXCEPT ![c] = a]
          /\ UNCHANGED <<called, executed>>
          => RC!Interrupt(c)
BY DEF RC!vars, RC!Call, RC!Reject, RC!Execute, RC!Answer, RC!Interrupt, RC!Disturb,
       RC!Disturbed, RC!Alone, Disturbs, Calm, called, done, executed

\* What a disturbed call may read as its answer.
LEMMA StrayAnswer ==
  ASSUME PromiseInv, NEW c \in Calls, ~Calm(c), reply[c] # <<>>, Head(reply[c]).kind = "packet"
  PROVE  Head(reply[c]).of.call \in RC!Answers(c)
<1>1. /\ TypeOK /\ FrameInv /\ AnswerParts
  BY DEF PromiseInv, TurnInv, AnswerInv, FrameInv, OnceInv, Typed
<1>2. reply[c] \in Seq(Frame) /\ 1 \in DOMAIN reply[c] /\ Head(reply[c]) = reply[c][1]
  <2>1. reply[c] \in Seq(Frame)
    BY <1>1 DEF TypeOK
  <2>2. QED
    BY <2>1
<1>3. PICK a \in Calls : a = reply[c][1].of.call
  <2>1. reply[c][1] \in Frame
    BY <1>2
  <2>2. QED
    BY <2>1 DEF Frame, Packet
<1>4. a \in ran /\ Wants[a] = Wants[c]
  BY <1>1, <1>2, <1>3 DEF FrameInv, IsoInv, Isolated, OwnReplies, AnswerTo
<1>5. Executions(a) > 0
  BY <1>4 DEF Executions
<1>6. \A o \in Calls : result[o] # a
  <2>1. OnWire(a, c, 1)
    BY <1>2, <1>3 DEF OnWire
  <2>2. QED
    BY <1>1, <2>1 DEF AnswerParts, WireOrCaller
<1>7. QED
  BY <1>2, <1>3, <1>4, <1>5, <1>6 DEF RC!Answers, RC!Stray, RC!Disturbed, Calm

LEMMA CallerPromise ==
  ASSUME PromiseInv, PromiseInv', NEW c \in Calls, CallerAction(c)
  PROVE  [RC!Next]_(RC!vars)
<1>1. /\ TypeOK /\ TurnInv /\ TurnParts /\ CalmParts /\ FrameInv /\ Reached
      /\ Fresh
  BY DEF PromiseInv, TurnInv, TurnParts, FrameInv, OnceInv, Typed
<1>2. /\ UNCHANGED <<ran, ranAgain>>
      /\ \A x \in Calls : x # c => pc'[x] = pc[x] /\ h'[x] = h[x] /\ result'[x] = result[x]
  BY <1>1, CallerStages
<1>3. executed' = executed
  BY <1>2 DEF executed, Executions
<1>4. /\ \A x \in Calls : x # c => (x \in done' <=> x \in done) /\ (x \in called' <=> x \in called)
      /\ c \in done <=> Over(c)
      /\ c \in done' <=> Over(c)'
      /\ c \in called <=> h[c] # "none"
      /\ c \in called' <=> h'[c] # "none"
      /\ done \subseteq Calls /\ called \subseteq Calls
      /\ done' \subseteq Calls /\ called' \subseteq Calls
  BY <1>2 DEF done, called, Over
<1>5. \A r : EndWithAnswer(c, r) => Over(c)' /\ result' = [result EXCEPT ![c] = r]
  BY <1>1 DEF TypeOK, EndWithAnswer, Over
<1>6. EndWithoutAnswer(c) => Over(c)' /\ result' = result
  BY <1>1 DEF TypeOK, EndWithoutAnswer, Over
<1>7. EndWithBadSize(c) =>
        /\ Over(c)'
        /\ \/ UNCHANGED result
           \/ \E a \in {NULL, Garbage} : result' = [result EXCEPT ![c] = a]
  BY <1>1, <1>5 DEF TypeOK, EndWithBadSize, Over
<1>8. CASE Connect(c)
  <2>1. /\ pc[c] = "idle" /\ h[c] = "none" /\ h'[c] = "backlog" /\ pc'[c] = "connected"
        /\ result' = result
    BY <1>1, <1>8 DEF TypeOK, Connect, CanCall, Fresh
  <2>2. c \notin called \cup done /\ called' = called \cup {c} /\ done' = done
    BY <1>4, <2>1 DEF Over
  <2>3. CASE Disturbs(c)
    <3>1. RC!Call(c)
      BY <1>3, <2>1, <2>2, <2>3, Promise
    <3>2. QED
      BY <3>1 DEF RC!Next
  <2>4. CASE Alone(c) /\ UNCHANGED disturbed /\ ~Disturbs(c)
    <3>1. Calm(c)
      BY <2>4 DEF Disturbs, Calm
    <3>2. \A o \in called \ done : Wants[o] # Wants[c]
      <4> SUFFICES ASSUME NEW o \in Calls, h[o] # "none", ~Over(o), Wants[o] = Wants[c]
                   PROVE  FALSE
        BY DEF called, done
      <4>1. pc[o] # "idle"
        BY <1>1, <3>1 DEF CalmParts, Accompanied, Calm
      <4>2. QED
        BY <2>4, <4>1 DEF Alone, Ongoing, Over
    <3>3. RC!Call(c)
      BY <1>3, <2>1, <2>2, <2>4, <3>2, Promise
    <3>4. QED
      BY <3>3 DEF RC!Next
  <2>5. QED
    BY <1>8, <2>3, <2>4 DEF Connect
<1>9. CASE ConnectFails(c)
  <2>1. pc[c] = "idle" /\ h[c] = "none" /\ h'[c] = "none" /\ UNCHANGED disturbed
    BY <1>1, <1>9 DEF ConnectFails, CanCall, Fresh, serviceVars
  <2>2. c \notin called \cup done /\ called' = called /\ done' = done \cup {c}
    BY <1>4, <1>6, <1>9, <2>1 DEF Over, ConnectFails
  <2>3. RC!Reject(c)
    BY <1>3, <1>6, <1>9, <2>1, <2>2, Promise DEF ConnectFails
  <2>4. QED
    BY <2>3 DEF RC!Next
<1>10. CASE ~Connect(c) /\ ~ConnectFails(c)
  <2>1. h' = h /\ Ongoing(c)
    BY <1>10 DEF CallerAction, serviceVars, Ongoing, SendLength, SendPacket, SendFails, RecvSize,
                 RecvSizeFails, RecvPacket, RecvPacketFails, RecvAnything, RecvAnythingFails
  <2>2. called' = called /\ c \in called \ done
    BY <1>1, <1>4, <2>1 DEF Reached, Ongoing, Over
  <2>3. Over(c)' => done' = done \cup {c}
    BY <1>4
  <2>4. ~Over(c)' => done' = done
    BY <1>4, <2>2
  <2>5. ASSUME UNCHANGED <<result, disturbed>>, ~Over(c)' PROVE UNCHANGED RC!vars
    BY <1>3, <2>2, <2>4, <2>5, Promise
  <2>6. ASSUME Disturbs(c),
               \/ ~Over(c)' /\ UNCHANGED result
               \/ /\ Over(c)'
                  /\ \/ UNCHANGED result
                     \/ \E a \in {NULL, Garbage} : result' = [result EXCEPT ![c] = a]
        PROVE  [RC!Next]_(RC!vars)
    <3>1. RC!Interrupt(c)
      BY <1>3, <2>2, <2>3, <2>4, <2>6, Promise
    <3>2. QED
      BY <3>1 DEF RC!Next
  <2>7. ASSUME NEW a \in RC!Answers(c), EndWithAnswer(c, a), UNCHANGED disturbed
        PROVE  [RC!Next]_(RC!vars)
    <3>1. RC!Answer(c)
      BY <1>3, <1>5, <2>2, <2>3, <2>7, Promise
    <3>2. QED
      BY <3>1 DEF RC!Next
  <2>8. CASE SendLength(c) \/ SendPacket(c)
    <3>1. UNCHANGED <<result, disturbed>> /\ ~Over(c)'
      BY <1>1, <2>8 DEF TypeOK, SendLength, SendPacket, Over
    <3>2. QED
      BY <2>5, <3>1
  <2>9. CASE SendFails(c)
    <3>1. Disturbs(c) /\ Over(c)' /\ UNCHANGED result
      BY <1>1, <1>6, <2>9 DEF TypeOK, SendFails, Over
    <3>2. QED
      BY <2>6, <3>1
  <2>10. CASE RecvSize(c)
    <3>1. CASE /\ Head(reply[c]).kind = "packet"
               /\ EndWithBadSize(c) /\ UNCHANGED disturbed
      <4>1. Disturbs(c)
        BY <1>1, <2>10, <3>1 DEF RecvSize, TakeReply, CalmParts, OwnAnswer, Calm, Disturbs
      <4>2. QED
        BY <1>7, <2>6, <3>1, <4>1
    <3>2. CASE pc' = [pc EXCEPT ![c] = "waitPacket"] /\ UNCHANGED <<result, disturbed>>
      <4>1. ~Over(c)'
        BY <1>1, <3>2 DEF TypeOK, Over
      <4>2. QED
        BY <2>5, <3>2, <4>1
    <3>3. QED
      BY <2>10, <3>1, <3>2 DEF RecvSize
  <2>11. CASE RecvSizeFails(c)
    <3>1. Disturbs(c) /\ UNCHANGED result
      BY <2>11 DEF RecvSizeFails, EndWithoutAnswer
    <3>2. QED
      BY <2>6, <3>1
  <2>12. CASE RecvPacket(c)
    <3>1. pc[c] = "waitPacket" /\ reply[c] # <<>> /\ UNCHANGED disturbed
      BY <2>12 DEF RecvPacket, TakeReply
    <3>2. PICK r :
            /\ EndWithAnswer(c, r)
            /\ \/ r = Head(reply[c]).of.call
               \/ r = Garbage /\ ~Head(reply[c]).of.whole
               \/ r \in {NULL, Garbage} /\ c \in Broken
      BY <2>12 DEF RecvPacket
    <3>3. CASE Calm(c)
      <4>1. /\ 1 \in DOMAIN reply[c] /\ Head(reply[c]) = reply[c][1]
            /\ Head(reply[c]).of.call = c /\ c \in ran
        BY <1>1, <3>1, <3>3, AnsweredCall
      <4>2. c \in Broken \/ Head(reply[c]).of.whole
        BY <1>1, <4>1 DEF TurnParts, Whole, Intact
      <4>3. Executions(c) > 0
        BY <4>1 DEF Executions
      <4>4. r \in RC!Answers(c)
        BY <3>2, <3>3, <4>1, <4>2, <4>3 DEF RC!Answers, RC!Disturbed, Calm
      <4>5. QED
        BY <2>7, <3>1, <3>2, <4>4
    <3>4. CASE ~Calm(c)
      <4>1. Head(reply[c]).kind = "packet"
        BY <1>1, <3>1 DEF FrameInv, PacketNext
      <4>2. r \in RC!Answers(c)
        BY <3>1, <3>2, <3>4, <4>1, StrayAnswer DEF RC!Answers, RC!Stray, RC!Disturbed, Calm
      <4>3. QED
        BY <2>7, <3>1, <3>2, <4>2
    <3>5. QED
      BY <3>3, <3>4
  <2>13. CASE RecvPacketFails(c)
    <3>1. Disturbs(c) /\ Over(c)' /\ result' = [result EXCEPT ![c] = NULL]
      BY <1>5, <2>13 DEF RecvPacketFails
    <3>2. QED
      BY <2>6, <3>1
  <2>14. ASSUME pc[c] = "waitAnything", UNCHANGED disturbed PROVE Disturbs(c) /\ ~Calm(c)
    BY <1>1, <2>14 DEF CalmParts, Accompanied, Disturbs, Calm
  <2>15. CASE RecvAnything(c)
    <3>1. Disturbs(c) /\ ~Calm(c) /\ UNCHANGED disturbed /\ reply[c] # <<>>
      BY <2>14, <2>15 DEF RecvAnything, TakeReply
    <3>2. CASE EndWithBadSize(c)
      BY <1>7, <2>6, <3>1, <3>2
    <3>3. CASE Head(reply[c]).kind = "packet" /\ EndWithAnswer(c, Head(reply[c]).of.call)
      BY <2>7, <3>1, <3>3, StrayAnswer
    <3>4. QED
      BY <2>15, <3>2, <3>3 DEF RecvAnything
  <2>16. CASE RecvAnythingFails(c)
    BY <1>7, <2>6, <2>14, <2>16 DEF RecvAnythingFails
  <2>17. QED
    BY <1>10, <2>8, <2>9, <2>10, <2>11, <2>12, <2>13, <2>15, <2>16 DEF CallerAction
<1>11. QED
  BY <1>8, <1>9, <1>10

LEMMA ServicePromise ==
  ASSUME PromiseInv, NEW c \in Calls,
         \/ Accept(c) \/ ReadRequest(c) \/ RequestCutShort(c) \/ LocalExecute(c)
         \/ InterfaceNotFound(c) \/ BindSocket(c) \/ Forward(c)
  PROVE  [RC!Next]_(RC!vars)
<1>1. TypeOK /\ Reached
  BY DEF PromiseInv, TurnInv, FrameInv, OnceInv, Typed
<1>2. UNCHANGED <<pc, result, ran, ranAgain>>
  BY DEF callerVars, daemonVars, Accept, ReadRequest, RequestCutShort, LocalExecute,
         InterfaceNotFound, BindSocket, Forward
<1>3. executed' = executed /\ done' = done
  BY <1>2 DEF executed, Executions, done, Over
<1>4. CASE LocalExecute(c)
  <2>1. h[c] = "none" /\ h' = [h EXCEPT ![c] = "execute"] /\ c \in LocalCalls /\ Disturbs(c)
    BY <1>4 DEF LocalExecute
  <2>2. \A x \in Calls : h'[x] = IF x = c THEN "execute" ELSE h[x]
    BY <1>1, <2>1 DEF TypeOK
  <2>3. called' = called \cup {c} /\ c \notin called
    BY <2>1, <2>2 DEF called
  <2>4. c \notin done
    BY <1>1, <2>1 DEF Reached, done, Over
  <2>5. RC!Call(c)
    BY <1>2, <1>3, <2>1, <2>3, <2>4, Promise
  <2>6. QED
    BY <2>5 DEF RC!Next
<1>5. CASE ~LocalExecute(c)
  <2>1. disturbed' = disturbed
    BY <1>5 DEF callerVars, Accept, ReadRequest, RequestCutShort, InterfaceNotFound, BindSocket,
                Forward
  <2>2. \A x \in Calls : h'[x] # "none" <=> h[x] # "none"
    BY <1>1, <1>5 DEF TypeOK, Accept, ReadRequest, RequestCutShort, InterfaceNotFound, BindSocket,
                      Forward
  <2>3. called' = called
    BY <2>2 DEF called
  <2>4. QED
    BY <1>2, <1>3, <2>1, <2>3, Promise
<1>6. QED
  BY <1>4, <1>5

LEMMA DaemonPromise ==
  ASSUME PromiseInv, PromiseInv', NEW d \in Daemons, DaemonAction(d)
  PROVE  [RC!Next]_(RC!vars)
<1>1. TypeOK /\ TurnInv /\ TurnParts /\ CalmParts /\ Typed /\ FrameInv
  BY DEF PromiseInv, TurnInv, TurnParts, FrameInv, OnceInv, Typed
<1>2. UNCHANGED <<pc, h, result, disturbed>>
  BY <1>1 DEF DaemonAction, callerVars, serviceVars, Activate, Receive, CallbackReturns,
              CallbackFails, Killed, SendResultLength, SendResultPacket
<1>3. called' = called /\ done' = done
  BY <1>2 DEF called, done, Over
<1>4. CASE UNCHANGED <<ran, ranAgain>>
  <2>1. executed' = executed
    BY <1>4 DEF executed, Executions
  <2>2. QED
    BY <1>2, <1>3, <2>1, Promise
<1>5. CASE Receive(d) /\ Runs(Head(queue[d]).call)
  <2>1. queue[d] \in Seq(Packet) /\ queue[d] # <<>>
    BY <1>1, <1>5 DEF TypeOK, Receive, TakePacket
  <2>2. 1 \in DOMAIN queue[d] /\ Head(queue[d]) = queue[d][1]
    BY <2>1
  <2>3. PICK x \in Calls : x = Head(queue[d]).call
    BY <1>1, <2>1, HeadPacket
  <2>4. h[x] = "end" /\ x \notin ran /\ ranAgain = {} /\ ranAgain' = {}
    BY <1>1, <2>2, <2>3 DEF FrameInv, OnceInv, Handled, AtMostOnce, PromiseInv, TurnInv
  <2>5. ran' = ran \cup {x}
    BY <1>5, <2>3 DEF Runs
  <2>6. executed[x] = 0 /\ executed' = [executed EXCEPT ![x] = 1]
    BY <2>4, <2>5 DEF executed, Executions
  <2>7. x \in called
    BY <2>4 DEF called
  <2>8. x \in done => ~Calm(x)
    BY <1>1, <2>2, <2>3 DEF CalmParts, InFlight, Silence, done, Over
  <2>9. RC!Execute(x)
    BY <1>2, <1>3, <2>6, <2>7, <2>8, Promise
  <2>10. QED
    BY <2>9 DEF RC!Next
<1>6. QED
  BY <1>4, <1>5 DEF DaemonAction, Activate, Receive, CallbackReturns, CallbackFails, Killed,
                    SendResultLength, SendResultPacket

(***************************************************************************)
(* The threads, connections and daemons behind execute_remote_interface    *)
(* are a remote call that is executed at most once and, on an interface    *)
(* whose calls have not met, answered by its own execution; once they have *)
(* met, by an execution of the interface that answers nobody else, or by   *)
(* none.                                                                   *)
(***************************************************************************)
THEOREM ImplementsRemoteCallHolds == Spec => ImplementsRemoteCall
<1>1. Init => RC!Init
  BY RpcAssumption DEF Init, RC!Init, Over, Executions
<1>2. PromiseInv /\ PromiseInv' /\ [Next]_vars => [RC!Next]_(RC!vars)
  <2> SUFFICES ASSUME PromiseInv, PromiseInv', [Next]_vars PROVE [RC!Next]_(RC!vars)
    OBVIOUS
  <2>1. ASSUME UNCHANGED <<pc, h, result, ran, ranAgain, disturbed>> PROVE UNCHANGED RC!vars
    <3>1. called' = called /\ done' = done /\ executed' = executed
      BY <2>1 DEF called, done, Over, executed, Executions
    <3>2. QED
      BY <2>1, <3>1, Promise
  <2>2. CASE AcceptFails
    BY <2>1, <2>2 DEF AcceptFails, callerVars, daemonVars
  <2>3. ASSUME NEW i \in Interfaces, Register(i) PROVE UNCHANGED RC!vars
    BY <2>1, <2>3 DEF Register, callerVars, serviceVars, daemonVars
  <2>4. CASE UNCHANGED vars
    BY <2>1, <2>4 DEF vars, callerVars, serviceVars, daemonVars
  <2>5. QED
    BY <2>2, <2>3, <2>4, CallerPromise, ServicePromise, DaemonPromise
    DEF Next, CallerStep, ServiceStep, DaemonStep, CallerAction, DaemonAction
<1>3. QED
  BY <1>1, <1>2, InitPromise, NextPromise, PTL DEF Spec, ImplementsRemoteCall, RC!Spec
=============================================================================
