--------------------------------- MODULE Rpc ---------------------------------
(***************************************************************************)
(* Remote execution of an interface, from the ioctl of a caller on one     *)
(* host to the callback of a daemon on another and back:                   *)
(*                                                                         *)
(*   caller   peer_ioctl, execute_remote_interface: one TCP connection per *)
(*            call, a length and a packet each way                         *)
(*   service  service_server_loop accepts, one handle_connection thread    *)
(*            per connection runs execute_interface, which leaves its      *)
(*            socket in the ctrl of the interface and forwards the packet  *)
(*            over netlink                                                 *)
(*   daemon   handle_rpc: one packet at a time; the result is written to   *)
(*            the socket that the ctrl holds by then, on the daemon's own  *)
(*            thread, by handle_interface_result                           *)
(*                                                                         *)
(* The manager's TEST_EXECUTE_REMOTE_CMD enters execute_interface with a   *)
(* NULL socket (LocalCalls).  No step takes a lock; a step here is what    *)
(* runs between two points where the threads can affect each other.        *)
(*                                                                         *)
(* A packet is represented by the call it belongs to and whether the TCP   *)
(* read that took it in got all of it.  A length or a first segment is not *)
(* split.  Interfaces are not removed.                                     *)
(***************************************************************************)
EXTENDS Naturals, Sequences

CONSTANTS
  Calls, LocalCalls,      \* remote and, among them, local executions
  Interfaces, Wants,      \* the interface each call executes
  Daemons, ServedBy,      \* the process that registers each interface
  Void,                   \* interfaces without return value (retc = 0)
  Refused,                \* calls the daemon skips: too large, or bad argc
  Failing,                \* calls whose callback may return an error
  Broken,                 \* calls whose connection may be refused, reset,
                          \* interrupted by a signal, or read in parts
  QueueCap,               \* packets a netlink socket buffers
  Faults,                 \* what may go wrong
  NULL, Garbage

FaultKinds ==
  {"accept",  \* the accept loop hits an error
   "early",   \* an interface is called before its daemon activates it
   "daemon"}  \* a daemon is killed

ASSUME RpcAssumption ==
  /\ LocalCalls \subseteq Calls /\ Refused \subseteq Calls
  /\ Failing \subseteq Calls /\ Broken \subseteq Calls
  /\ Void \subseteq Interfaces
  /\ Wants \in [Calls -> Interfaces]
  /\ ServedBy \in [Interfaces -> Daemons]
  /\ QueueCap \in Nat \ {0}
  /\ Faults \subseteq FaultKinds
  /\ NULL \notin Calls \cup Daemons \cup {Garbage} /\ Garbage \notin Calls

VARIABLES
  pc,             \* where each caller is in execute_remote_interface
  sent,           \* what it has written: nothing, the length, both (0 .. 2)
  size,           \* the call whose answer length it read
  result,         \* what the ioctl copied to the user
  serviceUp,      \* service_server_loop is running
  h,              \* the thread that runs execute_interface for each call
  socket,         \* ctrl->socket of each interface
  registered,     \* interfaces in INTERFACE_LIST
  client_portid,  \* ctrl->client_portid: the daemon to forward to
  queue,          \* packets waiting in each daemon's netlink socket
  dpc,            \* where each daemon is
  current,        \* the packet it is working on
  sigpipe,        \* daemons that wrote to a closed connection
  ran,            \* calls whose callback was run
  ranAgain,       \* calls whose callback was run more than once
  reply,          \* what was written to each connection and not yet read
  disturbed       \* history: interfaces with calls that met, see Disturbs

callerVars  == <<pc, sent, size, result, disturbed>>
serviceVars == <<serviceUp, h, socket>>
ctrlVars    == <<registered, client_portid>>
daemonVars  == <<queue, dpc, current, sigpipe, ran, ranAgain>>

vars == <<callerVars, serviceVars, ctrlVars, daemonVars, reply>>

Packet == [call : Calls, whole : BOOLEAN]
Frame  == [kind : {"length", "packet"}, of : Packet]

Init ==
  /\ pc = [c \in Calls |-> "idle"]
  /\ sent = [c \in Calls |-> 0]
  /\ size = [c \in Calls |-> NULL]
  /\ result = [c \in Calls |-> NULL]
  /\ serviceUp = TRUE
  /\ h = [c \in Calls |-> "none"]
  /\ socket = [i \in Interfaces |-> NULL]
  /\ registered = {}
  /\ client_portid = [i \in Interfaces |-> NULL]
  /\ queue = [d \in Daemons |-> <<>>]
  /\ dpc = [d \in Daemons |-> "starting"]
  /\ current = [d \in Daemons |-> NULL]
  /\ sigpipe = {}
  /\ ran = {}
  /\ ranAgain = {}
  /\ reply = [c \in Calls |-> <<>>]
  /\ disturbed = {}

-----------------------------------------------------------------------------
(* The caller: peer_ioctl and execute_remote_interface.                    *)

Over(c) == pc[c] \in {"returned", "oops"}

Ongoing(c) == pc[c] \notin {"idle", "returned", "oops"}

\* A peer knows an interface from a broadcast sent after its registration.
CanCall(c) ==
  /\ c \in Calls \ LocalCalls
  /\ pc[c] = "idle"
  /\ Wants[c] \in registered
  /\ "early" \in Faults \/ client_portid[Wants[c]] # NULL

(***************************************************************************)
(* Two executions of one interface share its ctrl->socket.  They can meet  *)
(* there when a call is made while another one is under way, when the      *)
(* manager makes it, or when an earlier one gave up before its answer;     *)
(* disturbed remembers the interfaces where that has happened.             *)
(***************************************************************************)
Disturbs(c) == disturbed' = disturbed \cup {Wants[c]}

Alone(c) == \A o \in Calls : Wants[o] = Wants[c] => ~Ongoing(o)

(***************************************************************************)
(* How the ioctl ends.  peer_ioctl ignores the error it is given and       *)
(* copies retc return values from retv, which is NULL unless an answer was *)
(* unserialized; unserializing sets retc too.                              *)
(***************************************************************************)
EndWithoutAnswer(c) ==
  /\ pc' = [pc EXCEPT ![c] = IF Wants[c] \in Void THEN "returned" ELSE "oops"]
  /\ UNCHANGED result

EndWithAnswer(c, r) ==
  /\ pc' = [pc EXCEPT ![c] = "returned"]
  /\ result' = [result EXCEPT ![c] = r]

\* An uninitialised size, or one that was not one, sizes the buffer.
EndWithBadSize(c) ==
  \/ EndWithAnswer(c, NULL)
  \/ EndWithAnswer(c, Garbage)
  \/ pc' = [pc EXCEPT ![c] = "oops"] /\ UNCHANGED result

Connect(c) ==
  /\ CanCall(c)
  /\ pc' = [pc EXCEPT ![c] = "connected"]
  /\ h' = [h EXCEPT ![c] = "backlog"]
  /\ IF Alone(c) THEN UNCHANGED disturbed ELSE Disturbs(c)
  /\ UNCHANGED <<sent, size, result, serviceUp, socket, ctrlVars, daemonVars, reply>>

ConnectFails(c) ==
  /\ c \in Broken
  /\ CanCall(c)
  /\ EndWithoutAnswer(c)
  /\ UNCHANGED <<sent, size, disturbed, serviceVars, ctrlVars, daemonVars, reply>>

SendLength(c) ==
  /\ pc[c] = "connected"
  /\ pc' = [pc EXCEPT ![c] = "lengthSent"]
  /\ sent' = [sent EXCEPT ![c] = 1]
  /\ UNCHANGED <<size, result, disturbed, serviceVars, ctrlVars, daemonVars, reply>>

\* Mutant: the packet is sent again after an error.
SendPacketAgain(c) ==
  /\ pc[c] = "lengthSent"
  /\ \/ UNCHANGED pc
     \/ pc' = [pc EXCEPT ![c] = "waitSize"]
  /\ sent' = [sent EXCEPT ![c] = @ + 1]
  /\ UNCHANGED <<size, result, disturbed, serviceVars, ctrlVars, daemonVars, reply>>

SendPacket(c) ==
  /\ pc[c] = "lengthSent"
  /\ pc' = [pc EXCEPT ![c] = "waitSize"]
  /\ sent' = [sent EXCEPT ![c] = 2]
  /\ UNCHANGED <<size, result, disturbed, serviceVars, ctrlVars, daemonVars, reply>>

\* The exit path frees a buffer pointer that was never set.
SendFails(c) ==
  /\ c \in Broken
  /\ pc[c] \in {"connected", "lengthSent"}
  /\ \/ EndWithoutAnswer(c)
     \/ pc' = [pc EXCEPT ![c] = "oops"] /\ UNCHANGED result
  /\ Disturbs(c)
  /\ UNCHANGED <<sent, size, serviceVars, ctrlVars, daemonVars, reply>>

\* sock_recvfrom blocks until there is something.
TakeReply(c) ==
  /\ reply[c] # <<>>
  /\ reply' = [reply EXCEPT ![c] = Tail(@)]

\* The first four bytes of a packet are its interface's id, taken as a size.
RecvSize(c) ==
  /\ pc[c] = "waitSize" /\ TakeReply(c)
  /\ \/ /\ Head(reply[c]).kind = "length"
        /\ pc' = [pc EXCEPT ![c] = "waitPacket"]
        /\ size' = [size EXCEPT ![c] = Head(reply[c]).of.call]
        /\ UNCHANGED <<result, disturbed>>
     \/ /\ Head(reply[c]).kind = "packet"
        /\ EndWithBadSize(c)
        /\ UNCHANGED <<size, disturbed>>
  /\ UNCHANGED <<sent, serviceVars, ctrlVars, daemonVars>>

\* The size that is not received is never initialised: it ends the call, and
\* frees a buffer pointer that was never set, or sizes a second receive.
RecvSizeFails(c) ==
  /\ c \in Broken
  /\ pc[c] = "waitSize"
  /\ \/ EndWithoutAnswer(c)
     \/ \E next \in {"oops", "waitAnything"} :
          pc' = [pc EXCEPT ![c] = next] /\ UNCHANGED result
  /\ Disturbs(c)
  /\ UNCHANGED <<sent, size, serviceVars, ctrlVars, daemonVars, reply>>

RecvPacket(c) ==
  /\ pc[c] = "waitPacket" /\ TakeReply(c)
  /\ \/ EndWithAnswer(c, IF Head(reply[c]).of.whole THEN Head(reply[c]).of.call
                                                    ELSE Garbage)
     \/ c \in Broken /\ \E r \in {NULL, Garbage} : EndWithAnswer(c, r)
  /\ UNCHANGED <<sent, size, disturbed, serviceVars, ctrlVars, daemonVars>>

\* A zeroed buffer is unserialized: no return value.
RecvPacketFails(c) ==
  /\ c \in Broken
  /\ pc[c] = "waitPacket"
  /\ EndWithAnswer(c, NULL)
  /\ Disturbs(c)
  /\ UNCHANGED <<sent, size, serviceVars, ctrlVars, daemonVars, reply>>

\* The second receive, into a buffer of any size: the length it was to follow
\* is unserialized, or all or part of a packet.
RecvAnything(c) ==
  /\ pc[c] = "waitAnything" /\ TakeReply(c)
  /\ \/ EndWithBadSize(c)
     \/ /\ Head(reply[c]).kind = "packet" /\ Head(reply[c]).of.whole
        /\ EndWithAnswer(c, Head(reply[c]).of.call)
  /\ UNCHANGED <<sent, size, disturbed, serviceVars, ctrlVars, daemonVars>>

RecvAnythingFails(c) ==
  /\ c \in Broken
  /\ pc[c] = "waitAnything"
  /\ EndWithBadSize(c)
  /\ UNCHANGED <<sent, size, disturbed, serviceVars, ctrlVars, daemonVars, reply>>

-----------------------------------------------------------------------------
(* The service: service_server_loop, handle_connection, execute_interface. *)

Accept(c) ==
  /\ serviceUp /\ h[c] = "backlog"
  /\ h' = [h EXCEPT ![c] = "reading"]
  /\ UNCHANGED <<callerVars, serviceUp, socket, ctrlVars, daemonVars, reply>>

\* The loop ends and nothing starts it again.
AcceptFails ==
  /\ "accept" \in Faults
  /\ serviceUp
  /\ serviceUp' = FALSE
  /\ UNCHANGED <<callerVars, h, socket, ctrlVars, daemonVars, reply>>

ReadRequest(c) ==
  /\ h[c] = "reading" /\ sent[c] = 2
  /\ h' = [h EXCEPT ![c] = "execute"]
  /\ UNCHANGED <<callerVars, serviceUp, socket, ctrlVars, daemonVars, reply>>

\* A length without its packet leaves a zeroed buffer: interface id 0, whose
\* missing argument fetch_interface_info dereferences.
RequestCutShort(c) ==
  /\ h[c] = "reading" /\ sent[c] # 2 /\ Over(c)
  /\ \/ h' = [h EXCEPT ![c] = "end"]
     \/ sent[c] = 1 /\ h' = [h EXCEPT ![c] = "oops"]
  /\ UNCHANGED <<callerVars, serviceUp, socket, ctrlVars, daemonVars, reply>>

\* manager_ioctl(TEST_EXECUTE_REMOTE_CMD), for any id.
LocalExecute(c) ==
  /\ c \in LocalCalls /\ h[c] = "none"
  /\ h' = [h EXCEPT ![c] = "execute"]
  /\ Disturbs(c)
  /\ UNCHANGED <<pc, sent, size, result, serviceUp, socket, ctrlVars, daemonVars, reply>>

\* The connection is neither answered nor closed.
InterfaceNotFound(c) ==
  /\ h[c] = "execute" /\ Wants[c] \notin registered
  /\ h' = [h EXCEPT ![c] = "end"]
  /\ UNCHANGED <<callerVars, serviceUp, socket, ctrlVars, daemonVars, reply>>

\* Mutant: one socket for all interfaces.
BindSocketOfAll(c) ==
  /\ h[c] = "execute" /\ Wants[c] \in registered
  /\ h' = [h EXCEPT ![c] = "bound"]
  /\ socket' = [i \in Interfaces |-> IF c \in LocalCalls THEN NULL ELSE c]
  /\ UNCHANGED <<callerVars, serviceUp, ctrlVars, daemonVars, reply>>

BindSocket(c) ==
  /\ h[c] = "execute" /\ Wants[c] \in registered
  /\ h' = [h EXCEPT ![c] = "bound"]
  /\ socket' = [socket EXCEPT ![Wants[c]] = IF c \in LocalCalls THEN NULL ELSE c]
  /\ UNCHANGED <<callerVars, serviceUp, ctrlVars, daemonVars, reply>>

\* Port 0 is the kernel's own socket, which makes nothing of the packet.
Reachable(d) ==
  /\ d # NULL
  /\ dpc[d] # "dead"
  /\ Len(queue[d]) < QueueCap

\* Mutant: the packet is forwarded again.
ForwardAgain(c) ==
  LET d == client_portid[Wants[c]] IN
  /\ h[c] = "bound" /\ Reachable(d)
  /\ queue' = [queue EXCEPT ![d] = Append(@, [call |-> c, whole |-> TRUE])]
  /\ UNCHANGED <<callerVars, serviceVars, ctrlVars, dpc, current, sigpipe, ran, ranAgain,
                 reply>>

\* An error of send_msg_to_user is logged; the connection stays open.
Forward(c) ==
  LET d == client_portid[Wants[c]] IN
  /\ h[c] = "bound"
  /\ h' = [h EXCEPT ![c] = "end"]
  /\ \/ ~Reachable(d) /\ UNCHANGED queue
     \/ /\ Reachable(d)
        /\ \E w \in BOOLEAN :
             /\ ~w => c \in Broken \ LocalCalls
             /\ queue' = [queue EXCEPT ![d] = Append(@, [call |-> c, whole |-> w])]
  /\ UNCHANGED <<callerVars, serviceUp, socket, ctrlVars, dpc, current, sigpipe,
                 ran, ranAgain, reply>>

-----------------------------------------------------------------------------
(* The daemon: a process that registers, then runs activate_and_listen.    *)

Register(i) ==
  /\ dpc[ServedBy[i]] = "starting" /\ i \notin registered
  /\ registered' = registered \cup {i}
  /\ UNCHANGED <<callerVars, serviceVars, client_portid, daemonVars, reply>>

Own(d) == {i \in Interfaces : ServedBy[i] = d}

handle_activate_interface(d) ==
  client_portid' = [i \in Interfaces |-> IF i \in Own(d) THEN d ELSE client_portid[i]]

\* One handshake names all the interfaces of the daemon.
Activate(d) ==
  /\ dpc[d] = "starting" /\ Own(d) \subseteq registered
  /\ dpc' = [dpc EXCEPT ![d] = "listening"]
  /\ handle_activate_interface(d)
  /\ UNCHANGED <<callerVars, serviceVars, registered, queue, current, sigpipe, ran, ranAgain,
                 reply>>

\* The callback of the interface is run for c.
Runs(c) ==
  /\ ran' = ran \cup {c}
  /\ ranAgain' = ranAgain \cup ({c} \cap ran)

\* Mutant: the next packet is taken before the answer is complete.
ReceiveEarly(d) ==
  LET p == Head(queue[d]) IN
  /\ dpc[d] \in {"listening", "sendPacket"} /\ queue[d] # <<>>
  /\ queue' = [queue EXCEPT ![d] = Tail(@)]
  /\ dpc' = [dpc EXCEPT ![d] = "callback"]
  /\ current' = [current EXCEPT ![d] = p]
  /\ Runs(p.call)
  /\ UNCHANGED <<callerVars, serviceVars, ctrlVars, sigpipe, reply>>

\* Mutant: the buffer of the first packet is answered again.
ReceiveStale(d) ==
  LET p == Head(queue[d]) IN
  /\ dpc[d] = "listening" /\ queue[d] # <<>>
  /\ queue' = [queue EXCEPT ![d] = Tail(@)]
  /\ dpc' = [dpc EXCEPT ![d] = "callback"]
  /\ current' = [current EXCEPT ![d] = IF @ = NULL THEN p ELSE @]
  /\ Runs(p.call)
  /\ UNCHANGED <<callerVars, serviceVars, ctrlVars, sigpipe, reply>>

\* netlink_recvfrom_kern.
TakePacket(d) ==
  /\ queue[d] # <<>>
  /\ queue' = [queue EXCEPT ![d] = Tail(@)]

\* handle_rpc drops what it refuses, and may refuse what is not whole.
Receive(d) ==
  LET p == Head(queue[d]) IN
  /\ dpc[d] = "listening" /\ TakePacket(d)
  /\ \/ /\ p.call \in Refused \/ ~p.whole
        /\ UNCHANGED <<dpc, current, ran, ranAgain>>
     \/ /\ p.call \notin Refused
        /\ dpc' = [dpc EXCEPT ![d] = "callback"]
        /\ current' = [current EXCEPT ![d] = p]
        /\ Runs(p.call)
  /\ UNCHANGED <<callerVars, serviceVars, ctrlVars, sigpipe, reply>>

CallbackReturns(d) ==
  /\ dpc[d] = "callback"
  /\ dpc' = [dpc EXCEPT ![d] = "sendLength"]
  /\ UNCHANGED <<callerVars, serviceVars, ctrlVars, queue, current, sigpipe, ran, ranAgain,
                 reply>>

\* Nothing is sent back.
CallbackFails(d) ==
  /\ dpc[d] = "callback" /\ current[d].call \in Failing
  /\ dpc' = [dpc EXCEPT ![d] = "listening"]
  /\ UNCHANGED <<callerVars, serviceVars, ctrlVars, queue, current, sigpipe, ran, ranAgain,
                 reply>>

\* The kernel learns nothing of it: client_portid keeps the dead port.
Dies(d) ==
  /\ dpc' = [dpc EXCEPT ![d] = "dead"]
  /\ queue' = [queue EXCEPT ![d] = <<>>]

Killed(d) ==
  /\ "daemon" \in Faults
  /\ dpc[d] \in {"starting", "listening", "callback"}
  /\ Dies(d)
  /\ UNCHANGED <<callerVars, serviceVars, ctrlVars, current, sigpipe, ran, ranAgain,
                 reply>>

\* The socket that the answer to the current packet goes to, as of now.
AnswerSocket(d) == socket[Wants[current[d].call]]

\* Mutant: length and packet are swapped.
SendFrameSwapped(d, kind) ==
  LET s == AnswerSocket(d)
      k == IF kind = "length" THEN "packet" ELSE "length" IN
  /\ reply' = [reply EXCEPT ![s] = Append(@, [kind |-> k, of |-> current[d]])]
  /\ \/ UNCHANGED sigpipe
     \/ Over(s) /\ sigpipe' = sigpipe \cup {d}

\* sock_sendto on the daemon's thread.  On a connection that its caller has
\* closed it may raise SIGPIPE.
SendFrame(d, kind) ==
  LET s == AnswerSocket(d) IN
  /\ reply' = [reply EXCEPT ![s] = Append(@, [kind |-> kind, of |-> current[d]])]
  /\ \/ UNCHANGED sigpipe
     \/ Over(s) /\ sigpipe' = sigpipe \cup {d}

\* handle_interface_result looks at retv[0] first, even if there is none.
SendResultLength(d) ==
  /\ dpc[d] = "sendLength"
  /\ \/ /\ Wants[current[d].call] \in Void
        /\ Dies(d)
        /\ UNCHANGED <<sigpipe, reply>>
     \/ /\ Wants[current[d].call] \notin Void /\ AnswerSocket(d) = NULL
        /\ dpc' = [dpc EXCEPT ![d] = "listening"]
        /\ UNCHANGED <<queue, sigpipe, reply>>
     \/ /\ Wants[current[d].call] \notin Void /\ AnswerSocket(d) # NULL
        /\ SendFrame(d, "length")
        /\ dpc' = [dpc EXCEPT ![d] = "sendPacket"]
        /\ UNCHANGED queue
  /\ UNCHANGED <<callerVars, serviceVars, ctrlVars, current, ran, ranAgain>>

\* Mutant: the answer is sent once more.
SendResultAgain(d) ==
  /\ dpc[d] = "sendPacket" /\ AnswerSocket(d) # NULL
  /\ SendFrame(d, "packet")
  /\ dpc' = [dpc EXCEPT ![d] = "sendLength"]
  /\ UNCHANGED <<callerVars, serviceVars, ctrlVars, queue, current, ran, ranAgain>>

\* ctrl->socket is read again.  A pending SIGPIPE kills the daemon on return.
SendResultPacket(d) ==
  /\ dpc[d] = "sendPacket"
  /\ \/ /\ AnswerSocket(d) = NULL
        /\ Dies(d)
        /\ UNCHANGED <<sigpipe, reply>>
     \/ /\ AnswerSocket(d) # NULL
        /\ SendFrame(d, "packet")
        /\ \/ d \in sigpipe' /\ Dies(d)
           \/ /\ d \notin sigpipe'
              /\ dpc' = [dpc EXCEPT ![d] = "listening"]
              /\ UNCHANGED queue
  /\ UNCHANGED <<callerVars, serviceVars, ctrlVars, current, ran, ranAgain>>

-----------------------------------------------------------------------------
CallerStep(c) ==
  SendLength(c) \/ SendPacket(c) \/ RecvSize(c) \/ RecvPacket(c) \/ RecvAnything(c)

ServiceStep(c) ==
  Accept(c) \/ ReadRequest(c) \/ InterfaceNotFound(c) \/ BindSocket(c) \/ Forward(c)

DaemonStep(d) ==
  Receive(d) \/ CallbackReturns(d) \/ SendResultLength(d) \/ SendResultPacket(d)

Next ==
  \/ \E c \in Calls :
       \/ Connect(c) \/ LocalExecute(c)
       \/ CallerStep(c) \/ ServiceStep(c)
       \/ ConnectFails(c) \/ SendFails(c) \/ RecvSizeFails(c) \/ RecvPacketFails(c)
       \/ RecvAnythingFails(c) \/ RequestCutShort(c)
  \/ AcceptFails
  \/ \E i \in Interfaces : Register(i)
  \/ \E d \in Daemons :
       Activate(d) \/ DaemonStep(d) \/ CallbackFails(d) \/ Killed(d)

Spec == Init /\ [][Next]_vars

\* The scheduler runs every thread that can run; a callback terminates.  No
\* one has to make a call, to start a daemon or to fail.
Fairness ==
  /\ \A c \in Calls : WF_vars(CallerStep(c)) /\ WF_vars(ServiceStep(c))
  /\ \A d \in Daemons : WF_vars(DaemonStep(d))

FairSpec == Spec /\ Fairness

-----------------------------------------------------------------------------
\* Every variable stays in its range.
TypeOK ==
  /\ pc \in [Calls -> {"idle", "connected", "lengthSent", "waitSize", "waitPacket",
                       "waitAnything", "returned", "oops"}]
  /\ sent \in [Calls -> 0 .. 2]
  /\ size \in [Calls -> Calls \cup {NULL}]
  /\ result \in [Calls -> Calls \cup {NULL, Garbage}]
  /\ serviceUp \in BOOLEAN
  /\ h \in [Calls -> {"none", "backlog", "reading", "execute", "bound", "end", "oops"}]
  /\ socket \in [Interfaces -> Calls \cup {NULL}]
  /\ registered \in SUBSET Interfaces
  /\ client_portid \in [Interfaces -> Daemons \cup {NULL}]
  /\ queue \in [Daemons -> Seq(Packet)]
  /\ dpc \in [Daemons -> {"starting", "listening", "callback", "sendLength",
                          "sendPacket", "dead"}]
  /\ current \in [Daemons -> Packet \cup {NULL}]
  /\ sigpipe \in SUBSET Daemons
  /\ ran \in SUBSET Calls /\ ranAgain \in SUBSET Calls
  /\ reply \in [Calls -> Seq(Frame)]
  /\ disturbed \in SUBSET Interfaces

(***************************************************************************)
(* However the threads interleave on ctrl->socket, what is written to a    *)
(* connection or copied to its caller was produced by a callback that ran, *)
(* for the interface that the caller asked for.                            *)
(***************************************************************************)
Isolation ==
  /\ \A i \in Interfaces : socket[i] # NULL => Wants[socket[i]] = i
  /\ \A c \in Calls :
       /\ \A k \in DOMAIN reply[c] :
            LET a == reply[c][k].of.call IN a \in ran /\ Wants[a] = Wants[c]
       /\ result[c] \in Calls => result[c] \in ran /\ Wants[result[c]] = Wants[c]

(***************************************************************************)
(* handle_rpc never runs a call twice: none was, no packet waits twice,    *)
(* and none waits whose callback was already run, whatever is interrupted, *)
(* truncated or refused on the way.                                        *)
(***************************************************************************)
AtMostOnce ==
  /\ ranAgain = {}
  /\ \A d \in Daemons : \A k, l \in DOMAIN queue[d] :
       k # l => queue[d][k].call # queue[d][l].call
  /\ \A d, e \in Daemons : \A k \in DOMAIN queue[d], l \in DOMAIN queue[e] :
       d # e => queue[d][k].call # queue[e][l].call
  /\ \A d \in Daemons : \A k \in DOMAIN queue[d] : queue[d][k].call \notin ran

(***************************************************************************)
(* The length and the packet of an answer are written in two steps, each   *)
(* to the socket that the ctrl holds at that moment.  A connection may get *)
(* one without the other, but never the length of one answer followed by   *)
(* something else: a caller that has read a length reads its packet next.  *)
(***************************************************************************)
FrameIntact ==
  \A c \in Calls :
    /\ \A k \in 1 .. Len(reply[c]) - 1 :
         reply[c][k].kind = "length" =>
           reply[c][k + 1] = [reply[c][k] EXCEPT !.kind = "packet"]
    /\ pc[c] = "waitPacket" /\ reply[c] # <<>> =>
         Head(reply[c]).kind = "packet" /\ Head(reply[c]).of.call = size[c]

\* One execution never answers two callers, even when it answers the wrong one.
AnswerNotShared ==
  \A a, b \in Calls : a # b /\ result[a] \in Calls => result[a] # result[b]

(***************************************************************************)
(* interface.h:101, "Execute the interface and send return data through    *)
(* socket": an ioctl never gives its caller the answer to another call.     *)
(***************************************************************************)
OwnResult == \A c \in Calls : result[c] \in Calls => result[c] = c

(***************************************************************************)
(* It never does on an interface whose calls have not met, whatever is     *)
(* refused, dropped, cut short or killed there, and whatever happens to    *)
(* the other interfaces, those of the same daemon included.                *)
(***************************************************************************)
OwnResultUndisturbed ==
  \A c \in Calls :
    result[c] \in Calls /\ Wants[c] \notin disturbed => result[c] = c

(***************************************************************************)
(* peer_ioctl copies results even when execute_remote_interface failed to  *)
(* connect.  That is the only thing that brings a caller down on an        *)
(* interface whose calls have not met: dead daemons, an accept loop that   *)
(* ended, dropped requests and partial reads leave it waiting or give it   *)
(* garbage, and never make it take a packet for a size or free a pointer   *)
(* that was not set.                                                       *)
(***************************************************************************)
ConnectedCallSurvives ==
  \A c \in Calls : pc[c] = "oops" /\ h[c] # "none" => Wants[c] \in disturbed

(***************************************************************************)
(* The ioctl of every call that got a connection returns.                  *)
(***************************************************************************)
EveryCallReturns == \A c \in Calls : (pc[c] = "connected") ~> (pc[c] = "returned")

(***************************************************************************)
(* Once the callback of an open call has run, its answer is not lost on an *)
(* interface whose calls have not met: it is on the connection, or the     *)
(* daemon is at work on it and the ctrl still holds the caller's socket,   *)
(* whatever the daemon's other interfaces do, unless the callback failed   *)
(* or the daemon is dead.                                                  *)
(***************************************************************************)
AnswerNotLost ==
  \A c \in ran \ Failing :
    Ongoing(c) /\ Wants[c] \notin disturbed =>
      LET d == ServedBy[Wants[c]] IN
      \/ reply[c] # <<>>
      \/ /\ dpc[d] \in {"callback", "sendLength", "sendPacket"}
         /\ current[d].call = c /\ AnswerSocket(d) = c
      \/ dpc[d] = "dead"

\* The promise to the callers, kept in this representation.
Executions(c) == IF c \in ranAgain THEN 2 ELSE IF c \in ran THEN 1 ELSE 0

RC == INSTANCE RemoteCall WITH
  MayCut   <- Broken,
  called   <- {c \in Calls : h[c] # "none"},
  executed <- [c \in Calls |-> Executions(c)],
  done     <- {c \in Calls : Over(c)},
  answer   <- result

\* Every call is executed at most once and answered, if at all, by an execution
\* of its interface, which is its own unless calls of the interface have met.
ImplementsRemoteCall == RC!Spec

=============================================================================
