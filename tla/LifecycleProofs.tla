---------------------------- MODULE LifecycleProofs ----------------------------
(***************************************************************************)
(* Theorems about Lifecycle, for any connections and tasks.                *)
(***************************************************************************)
EXTENDS Lifecycle, TLAPS

-----------------------------------------------------------------------------
(* The actions of Next, with the parameters of their helpers filled in.    *)

LEMMA NextCases ==
  ASSUME Next
  PROVE  \/ Load
         \/ init_peer_major_device \/ start_discovery_server \/ start_broadcast
         \/ start_service_server \/ init_interface_socket \/ register_manager_device
         \/ init_procfs
         \/ CreateFails
         \/ \E t \in Threads : Runs(t)
         \/ \E t \in Threads : RunsUnmapped(t)
         \/ \E t \in Threads : Ends(t)
         \/ \E c \in Connections : Accept(c)
         \/ AddPeer
         \/ \E p \in Tasks : Register(p)
         \/ UseUnmapped
         \/ Unload
         \/ stop_discovery_server \/ stop_broadcast \/ stop_service_server \/ Unregister
BY DEF Next, InitStep, CleanupStep

\* Its two calls.
LEMMA BroadcastCases ==
  ASSUME start_broadcast
  PROVE  /\ crash = NULL
         /\ UNCHANGED <<names, registered, interfaces, crash, failed, cleaned>>
         /\ \/ /\ pc = "first broadcast" /\ pc' = "service"
               /\ thread' = [thread EXCEPT !["first broadcast"] = "created"]
               /\ broadcast_loop_task' = "first broadcast"
            \/ /\ pc = "second broadcast" /\ pc' = "manager"
               /\ thread' = [thread EXCEPT !["second broadcast"] = "created"]
               /\ broadcast_loop_task' = "second broadcast"
<1>1. PICK step \in {<<"first broadcast", "service">>, <<"second broadcast", "manager">>} :
        /\ At(step[1])
        /\ Starts(step[1]) /\ broadcast_loop_task' = step[1]
        /\ pc' = step[2]
        /\ UNCHANGED <<names, registered, interfaces, crash, failed, cleaned>>
  BY DEF start_broadcast
<1>2. CASE step = <<"first broadcast", "service">>
  BY <1>1, <1>2 DEF At, Starts
<1>3. CASE step = <<"second broadcast", "manager">>
  BY <1>1, <1>3 DEF At, Starts
<1>4. QED
  BY <1>1, <1>2, <1>3

-----------------------------------------------------------------------------
(* Types.                                                                  *)

LEMMA NoInterfaces == [p \in Tasks |-> 0] \in [Tasks -> 0 .. InterfaceBound]
BY DEF InterfaceBound

LEMMA OneMore ==
  ASSUME NEW f \in [Tasks -> 0 .. InterfaceBound], NEW p \in Tasks, f[p] < InterfaceBound
  PROVE  [f EXCEPT ![p] = @ + 1] \in [Tasks -> 0 .. InterfaceBound]
BY DEF InterfaceBound

LEMMA InitTypeOK == Init => TypeOK
<1> SUFFICES ASSUME Init PROVE TypeOK
  OBVIOUS
<1>1. interfaces \in [Tasks -> 0 .. InterfaceBound]
  BY NoInterfaces DEF Init
<1>2. QED
  BY <1>1 DEF Init, TypeOK

LEMMA LoadingTypeOK ==
  ASSUME TypeOK,
         \/ Load \/ init_peer_major_device \/ start_discovery_server \/ start_broadcast
         \/ start_service_server \/ init_interface_socket \/ register_manager_device
         \/ init_procfs \/ CreateFails
  PROVE  TypeOK'
<1> USE DEF EntryPoints, TypeOK, At, Take, Fails, Starts, Registers, Crashes, InitSteps, Threads, Servers
<1>1. CASE Load
  <2>1. interfaces' \in [Tasks -> 0 .. InterfaceBound]
    BY <1>1, NoInterfaces DEF Load
  <2>2. QED
    BY <1>1, <2>1 DEF Load
<1>2. CASE init_peer_major_device
  BY <1>2 DEF init_peer_major_device
<1>3. CASE start_discovery_server
  BY <1>3 DEF start_discovery_server
<1>4. CASE start_broadcast
  BY <1>4, BroadcastCases
<1>5. CASE start_service_server
  BY <1>5 DEF start_service_server
<1>6. CASE init_interface_socket
  BY <1>6 DEF init_interface_socket
<1>7. CASE register_manager_device
  BY <1>7 DEF register_manager_device
<1>8. CASE init_procfs
  BY <1>8 DEF init_procfs
<1>9. CASE CreateFails
  BY <1>9 DEF CreateFails
<1>10. QED
  BY <1>1, <1>2, <1>3, <1>4, <1>5, <1>6, <1>7, <1>8, <1>9

LEMMA UseTypeOK ==
  ASSUME TypeOK,
         \/ \E t \in Threads : Runs(t) \/ RunsUnmapped(t) \/ Ends(t)
         \/ \E c \in Connections : Accept(c)
         \/ AddPeer
         \/ \E p \in Tasks : Register(p)
         \/ UseUnmapped
  PROVE  TypeOK'
<1> USE DEF EntryPoints, TypeOK, Crashes, threadVars
<1>1. CASE \E t \in Threads : Runs(t)
  BY <1>1 DEF Runs
<1>2. CASE \E t \in Threads : RunsUnmapped(t)
  BY <1>2 DEF RunsUnmapped
<1>3. CASE \E t \in Threads : Ends(t)
  BY <1>3 DEF Ends
<1>4. CASE \E c \in Connections : Accept(c)
  BY <1>4 DEF Accept, Starts, Threads
<1>5. CASE AddPeer
  BY <1>5 DEF AddPeer
<1>6. ASSUME NEW p \in Tasks, Register(p) PROVE TypeOK'
  <2>1. interfaces' \in [Tasks -> 0 .. InterfaceBound]
    BY <1>6, OneMore DEF Register
  <2>2. QED
    BY <1>6, <2>1 DEF Register
<1>7. CASE UseUnmapped
  BY <1>7 DEF UseUnmapped
<1>8. QED
  BY <1>1, <1>2, <1>3, <1>4, <1>5, <1>6, <1>7

LEMMA UnloadingTypeOK ==
  ASSUME TypeOK,
         \/ Unload \/ stop_discovery_server \/ stop_broadcast \/ stop_service_server
         \/ Unregister
  PROVE  TypeOK'
<1> USE DEF EntryPoints, TypeOK, At, Stop, Crashes
<1>1. CASE Unload
  BY <1>1 DEF Unload
<1>2. CASE stop_discovery_server
  BY <1>2 DEF stop_discovery_server
<1>3. CASE stop_broadcast
  BY <1>3 DEF stop_broadcast
<1>4. CASE stop_service_server
  BY <1>4 DEF stop_service_server
<1>5. CASE Unregister
  BY <1>5 DEF Unregister
<1>6. QED
  BY <1>1, <1>2, <1>3, <1>4, <1>5

LEMMA NextTypeOK == TypeOK /\ [Next]_vars => TypeOK'
<1> SUFFICES ASSUME TypeOK, [Next]_vars PROVE TypeOK'
  OBVIOUS
<1>1. CASE UNCHANGED vars
  BY <1>1 DEF vars, TypeOK
<1>2. CASE Next
  BY <1>2, NextCases, LoadingTypeOK, UseTypeOK, UnloadingTypeOK
<1>3. QED
  BY <1>1, <1>2

(***************************************************************************)
(* Every variable stays in its range, for any connections and tasks.       *)
(***************************************************************************)
THEOREM TypeInvariant == Spec => []TypeOK
<1>1. Init => TypeOK
  BY InitTypeOK
<1>2. TypeOK /\ [Next]_vars => TypeOK'
  BY NextTypeOK
<1>3. QED
  BY <1>1, <1>2, PTL DEF Spec

-----------------------------------------------------------------------------
(* A module that is gone after it took the class is not loaded again.      *)

Spent == pc \in {"absent", "peer class"} /\ "class" \in names

LEMMA SpentForGood == Spent /\ [Next]_vars => Spent'
<1> SUFFICES ASSUME Spent, [Next]_vars PROVE Spent'
  OBVIOUS
<1> USE DEF Spent, At, Take, Fails, Starts, Registers, Crashes, threadVars, Stop
<1>1. CASE UNCHANGED vars
  BY <1>1 DEF vars
<1>2. CASE Load
  BY <1>2 DEF Load
<1>3. CASE \/ init_peer_major_device \/ start_discovery_server \/ start_broadcast
           \/ start_service_server \/ init_interface_socket \/ register_manager_device
           \/ init_procfs \/ CreateFails
  BY <1>3, BroadcastCases
     DEF init_peer_major_device, start_discovery_server, start_service_server,
         init_interface_socket, register_manager_device, init_procfs, CreateFails
<1>4. CASE \/ \E t \in Threads : Runs(t) \/ RunsUnmapped(t) \/ Ends(t)
           \/ \E c \in Connections : Accept(c)
           \/ AddPeer
           \/ \E p \in Tasks : Register(p)
           \/ UseUnmapped
  BY <1>4 DEF Runs, RunsUnmapped, Ends, Accept, AddPeer, Register, UseUnmapped
<1>5. CASE \/ Unload \/ stop_discovery_server \/ stop_broadcast \/ stop_service_server
           \/ Unregister
  BY <1>5 DEF Unload, stop_discovery_server, stop_broadcast, stop_service_server, Unregister
<1>6. QED
  BY <1>1, <1>2, <1>3, <1>4, <1>5, NextCases

(***************************************************************************)
(* A module that took the class does not get past the first step of        *)
(* init_module again once it is gone (LoadsOnce).                          *)
(***************************************************************************)
THEOREM LoadsOnceHolds == Spec => LoadsOnce
<1>1. pc = "absent" /\ "class" \in names => Spent
  BY DEF Spent
<1>2. Spent /\ [Next]_vars => Spent'
  BY SpentForGood
<1>3. Spent => pc \in {"absent", "peer class"}
  BY DEF Spent
<1>4. QED
  BY <1>1, <1>2, <1>3, PTL DEF Spec, LoadsOnce

-----------------------------------------------------------------------------
(* What init_module and cleanup_module have done at each of their steps.   *)

\* Nothing happens before the class is taken.
Fresh ==
  "class" \notin names =>
    /\ pc \in {"absent", "peer class"} /\ registered = {} /\ ~cleaned
    /\ \A t \in Threads : thread[t] = "none"

Gone == Spent => failed \/ cleaned

\* Only a discovery thread that runs, and so cannot be stopped, adds a peer.
PeerServed == "peer device" \in registered => thread["discovery"] = "running"

Up == {"live", "stop discovery", "stop broadcast", "stop service", "unregister"}

Registered ==
  /\ pc \notin {"absent", "peer class"} => "peer cdev" \in registered
  /\ pc \in {"second broadcast", "manager", "procfs"} \cup Up => "netlink" \in registered
  /\ pc \in {"procfs"} \cup Up => "device" \in registered
  /\ pc \in Up => "procfs" \in registered

Stopped ==
  /\ pc = "discovery" => thread["discovery"] = "none"
  /\ pc \in {"manager", "procfs", "live", "stop discovery", "stop broadcast"} =>
       broadcast_loop_task = "second broadcast"
  /\ pc \in {"stop broadcast", "stop service", "unregister"} => thread["discovery"] = "stopped"
  /\ pc \in {"stop service", "unregister"} => thread["second broadcast"] = "stopped"
  /\ pc = "unregister" => thread["service"] = "stopped"

Cleaned == cleaned => Spent

IInv ==
  /\ TypeOK
  /\ Fresh /\ Gone /\ PeerServed /\ Registered /\ Stopped /\ Cleaned
  /\ CleanExceptForgotten /\ CrashesOfLiveModule

LEMMA InitIInv == Init => IInv
BY InitTypeOK
   DEF Init, IInv, Fresh, Gone, Spent, PeerServed, Registered, Stopped, Cleaned, Up,
       CleanExceptForgotten, CrashesOfLiveModule, Threads, Servers

LEMMA LoadingIInv ==
  ASSUME IInv, TypeOK',
         \/ Load \/ init_peer_major_device \/ start_discovery_server \/ start_broadcast
         \/ start_service_server \/ init_interface_socket \/ register_manager_device
         \/ init_procfs \/ CreateFails
  PROVE  IInv'
<1> USE LifecycleAssumption
    DEF LifecycleAssumption, EntryPoints, IInv, TypeOK, Fresh, Gone, Spent, PeerServed, Registered, Stopped,
        Cleaned, Up, CleanExceptForgotten, CrashesOfLiveModule, Threads, Servers, InitSteps,
        At, Take, Fails, Starts, Registers, Crashes
<1>1. CASE Load
  BY <1>1 DEF Load
<1>2. CASE init_peer_major_device
  BY <1>2 DEF init_peer_major_device
<1>3. CASE start_discovery_server
  BY <1>3 DEF start_discovery_server
<1>4. CASE start_broadcast
  BY <1>4, BroadcastCases
<1>5. CASE start_service_server
  BY <1>5 DEF start_service_server
<1>6. CASE init_interface_socket
  BY <1>6 DEF init_interface_socket
<1>7. CASE register_manager_device
  BY <1>7 DEF register_manager_device
<1>8. CASE init_procfs
  BY <1>8 DEF init_procfs
<1>9. CASE CreateFails
  BY <1>9 DEF CreateFails
<1>10. QED
  BY <1>1, <1>2, <1>3, <1>4, <1>5, <1>6, <1>7, <1>8, <1>9

LEMMA UseIInv ==
  ASSUME IInv, TypeOK',
         \/ \E t \in Threads : Runs(t) \/ RunsUnmapped(t) \/ Ends(t)
         \/ \E c \in Connections : Accept(c)
         \/ AddPeer
         \/ \E p \in Tasks : Register(p)
         \/ UseUnmapped
  PROVE  IInv'
<1> USE LifecycleAssumption
    DEF LifecycleAssumption, EntryPoints, IInv, TypeOK, Fresh, Gone, Spent, PeerServed, Registered, Stopped,
        Cleaned, Up, CleanExceptForgotten, CrashesOfLiveModule, Threads, Servers, InitSteps,
        Mapped, Crashes, Starts, threadVars
<1>1. ASSUME NEW t \in Threads, Runs(t) PROVE IInv'
  BY <1>1 DEF Runs
<1>2. ASSUME NEW t \in Threads, RunsUnmapped(t) PROVE IInv'
  BY <1>2 DEF RunsUnmapped
<1>3. ASSUME NEW t \in Threads, Ends(t) PROVE IInv'
  BY <1>3 DEF Ends
<1>4. ASSUME NEW c \in Connections, Accept(c) PROVE IInv'
  BY <1>4 DEF Accept
<1>5. CASE AddPeer
  BY <1>5 DEF AddPeer
<1>6. ASSUME NEW p \in Tasks, Register(p) PROVE IInv'
  BY <1>6 DEF Register
<1>7. CASE UseUnmapped
  <2>1. PICK what \in registered \ {"procfs"} : Crashes(what) /\ ~Mapped
    BY <1>7 DEF UseUnmapped
  <2>2. failed \/ (cleaned /\ what = "peer cdev")
    BY <2>1
  <2>3. crash' = what /\ UNCHANGED <<pc, thread, broadcast_loop_task, names, registered,
                                     interfaces, failed, cleaned>>
    BY <2>1
  <2>4. QED
    BY <2>2, <2>3
<1>8. QED
  BY <1>1, <1>2, <1>3, <1>4, <1>5, <1>6, <1>7

LEMMA UnloadingIInv ==
  ASSUME IInv, TypeOK',
         \/ Unload \/ stop_discovery_server \/ stop_broadcast \/ stop_service_server
         \/ Unregister
  PROVE  IInv'
<1> USE LifecycleAssumption
    DEF LifecycleAssumption, EntryPoints, IInv, TypeOK, Fresh, Gone, Spent, PeerServed, Registered, Stopped,
        Cleaned, Up, CleanExceptForgotten, CrashesOfLiveModule, Threads, Servers, InitSteps,
        At, Stop, Crashes
<1>1. CASE Unload
  BY <1>1 DEF Unload
<1>2. CASE stop_discovery_server
  BY <1>2 DEF stop_discovery_server
<1>3. CASE stop_broadcast
  BY <1>3 DEF stop_broadcast
<1>4. CASE stop_service_server
  BY <1>4 DEF stop_service_server
<1>5. CASE Unregister
  <2>1. CASE /\ \E p \in Tasks : interfaces[p] > 1
             /\ Crashes("procfs")
    <3>1. \E p \in Tasks : interfaces'[p] > 1
      BY <2>1
    <3>2. CrashesOfLiveModule'
      BY <2>1, <3>1
    <3>3. QED
      BY <2>1, <3>2
  <2>2. CASE /\ registered' = registered \ {"device", "netlink", "procfs"}
             /\ pc' = "absent" /\ cleaned' = TRUE
             /\ UNCHANGED <<thread, broadcast_loop_task, names, interfaces, crash, failed>>
    <3>1. pc = "unregister"
      BY <1>5 DEF Unregister
    <3>2. registered' = {"peer cdev"}
      BY <2>2, <3>1
    <3>3. \A t \in Servers \ {"first broadcast"} : thread'[t] = "stopped"
      BY <2>2, <3>1
    <3>4. QED
      BY <1>5, <2>2, <3>1, <3>2, <3>3 DEF Unregister
  <2>3. QED
    BY <1>5, <2>1, <2>2 DEF Unregister
<1>6. QED
  BY <1>1, <1>2, <1>3, <1>4, <1>5

LEMMA IInvNext == IInv /\ [Next]_vars => IInv'
<1> SUFFICES ASSUME IInv, [Next]_vars PROVE IInv'
  OBVIOUS
<1>1. TypeOK'
  BY NextTypeOK DEF IInv
<1>2. CASE UNCHANGED vars
  BY <1>1, <1>2
     DEF vars, IInv, Fresh, Gone, Spent, PeerServed, Registered, Stopped, Cleaned,
         CleanExceptForgotten, CrashesOfLiveModule
<1>3. CASE Next
  BY <1>1, <1>3, NextCases, LoadingIInv, UseIInv, UnloadingIInv
<1>4. QED
  BY <1>2, <1>3

LEMMA Invariance == Spec => []IInv
BY InitIInv, IInvNext, PTL DEF Spec

(***************************************************************************)
(* cleanup_module returns only if the threads that it stops never ran, and *)
(* leaves no entry point behind but the cdev of the peer devices           *)
(* (CleanExceptForgotten).                                                 *)
(***************************************************************************)
THEOREM CleanExceptForgottenHolds == Spec => []CleanExceptForgotten
<1>1. IInv => CleanExceptForgotten
  BY DEF IInv
<1>2. QED
  BY <1>1, Invariance, PTL

(***************************************************************************)
(* The only ways in which a module that init_module has not failed to load *)
(* is brought down (CrashesOfLiveModule).                                  *)
(***************************************************************************)
THEOREM CrashesOfLiveModuleHolds == Spec => []CrashesOfLiveModule
<1>1. IInv => CrashesOfLiveModule
  BY DEF IInv
<1>2. QED
  BY <1>1, Invariance, PTL

-----------------------------------------------------------------------------
(* rmmod waits for the discovery thread.                                   *)

Hanging ==
  pc = "stop discovery" /\ Ran("discovery") /\ {"device", "netlink", "procfs"} \subseteq registered

LEMMA HangsForGood == Hanging /\ IInv /\ [Next]_vars => Hanging'
<1> SUFFICES ASSUME Hanging, IInv, [Next]_vars PROVE Hanging'
  OBVIOUS
<1> USE LifecycleAssumption
    DEF LifecycleAssumption, EntryPoints, Hanging, Ran, IInv, TypeOK, Threads, Servers, At, Take, Fails,
        Starts, Registers, Crashes, threadVars, Stop
<1>1. CASE UNCHANGED vars
  BY <1>1 DEF vars
<1>2. CASE Load
  BY <1>2 DEF Load
<1>3. CASE \/ init_peer_major_device \/ start_discovery_server \/ start_broadcast
           \/ start_service_server \/ init_interface_socket \/ register_manager_device
           \/ init_procfs \/ CreateFails
  BY <1>3, BroadcastCases
     DEF init_peer_major_device, start_discovery_server, start_service_server,
         init_interface_socket, register_manager_device, init_procfs, CreateFails
<1>4. ASSUME NEW t \in Threads, Runs(t) \/ RunsUnmapped(t) \/ Ends(t) PROVE Hanging'
  BY <1>4 DEF Runs, RunsUnmapped, Ends
<1>5. CASE \/ \E c \in Connections : Accept(c)
           \/ AddPeer
           \/ \E p \in Tasks : Register(p)
           \/ UseUnmapped
  BY <1>5 DEF Accept, AddPeer, Register, UseUnmapped
<1>6. CASE \/ Unload \/ stop_discovery_server \/ stop_broadcast \/ stop_service_server
           \/ Unregister
  BY <1>6 DEF Unload, stop_discovery_server, stop_broadcast, stop_service_server, Unregister
<1>7. QED
  BY <1>1, <1>2, <1>3, <1>4, <1>5, <1>6, NextCases

(***************************************************************************)
(* Once the discovery thread has run, rmmod stays in stop_discovery_server *)
(* for ever, with everything still registered (RmmodHangs).                *)
(***************************************************************************)
THEOREM RmmodHangsHolds == Spec => RmmodHangs
<1>1. IInv /\ pc = "stop discovery" /\ Ran("discovery") => Hanging
  BY DEF IInv, Registered, Up, Hanging
<1>2. Hanging /\ IInv /\ [Next]_vars => Hanging'
  BY HangsForGood
<1>3. RmmodHangs <=> [](pc = "stop discovery" /\ Ran("discovery") => []Hanging)
  BY DEF RmmodHangs, Hanging
<1>4. QED
  BY <1>1, <1>2, <1>3, Invariance, PTL DEF Spec
=============================================================================
