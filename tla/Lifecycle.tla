------------------------------- MODULE Lifecycle -------------------------------
(***************************************************************************)
(* Loading and unloading of the module on one boot of the machine:         *)
(* init_module, the threads it starts, cleanup_module, and those who use   *)
(* what is registered meanwhile or afterwards.                             *)
(*                                                                         *)
(* Modelled from how the code uses it: the kernel runs cleanup_module only *)
(* after init_module has returned 0, and frees the module's code when      *)
(* either cleanup_module returns or init_module fails; kthread_stop waits  *)
(* for the thread to end, and a thread that has not run yet ends at once;  *)
(* a name (class, port) can be taken once.                                 *)
(***************************************************************************)
EXTENDS Naturals

CONSTANTS
  Connections,   \* to the service
  Tasks,         \* processes that register interfaces
  Faults,        \* what may go wrong, beside a name that is taken
  NULL

Servers == {"discovery", "first broadcast", "second broadcast", "service"}
Threads == Servers \cup Connections
InterfaceBound == 2

EntryPoints == {"peer cdev", "peer device", "netlink", "device", "procfs"}

\* "init": a step of init_module fails; "create": a thread cannot be created.
ASSUME LifecycleAssumption ==
  /\ Connections \cap (Servers \cup EntryPoints \cup {"stop", "create"}) = {}
  /\ Faults \subseteq {"init", "create"}

VARIABLES
  pc,                   \* the next step of init_module or cleanup_module
  thread,               \* the threads: "stopped" ones never ran
  broadcast_loop_task,  \* the thread that stop_broadcast stops
  names,                \* taken: "class", "port" (UDP), "service port"
  registered,           \* entry points the kernel has been given
  interfaces,           \* interfaces of each task
  crash,                \* what used memory that is gone
  \* History:
  failed,               \* init_module has failed
  cleaned               \* cleanup_module has returned

vars == <<pc, thread, broadcast_loop_task, names, registered, interfaces, crash,
          failed, cleaned>>

Init ==
  /\ pc = "absent"
  /\ thread = [t \in Threads |-> "none"]
  /\ broadcast_loop_task = NULL
  /\ names = {} /\ registered = {}
  /\ interfaces = [p \in Tasks |-> 0]
  /\ crash = NULL
  /\ failed = FALSE /\ cleaned = FALSE

\* The code that has started the threads and registered what there is: a
\* second load gets memory of its own.
Mapped == pc # "absent" /\ ~(pc = "peer class" /\ "class" \in names)

Crashes(what) ==
  /\ crash' = what
  /\ UNCHANGED <<pc, thread, broadcast_loop_task, names, registered, interfaces,
                 failed, cleaned>>

-----------------------------------------------------------------------------
(* init_module.                                                            *)

\* The module's variables are initialised anew.
Load ==
  /\ crash = NULL /\ pc = "absent"
  /\ pc' = "peer class"
  /\ broadcast_loop_task' = NULL
  /\ interfaces' = [p \in Tasks |-> 0]
  /\ UNCHANGED <<thread, names, registered, crash, failed, cleaned>>

At(step) == crash = NULL /\ pc = step

\* Nothing that was done is undone.
Fails(step, taken) ==
  /\ At(step) /\ (taken \/ "init" \in Faults)
  /\ pc' = "absent" /\ failed' = TRUE
  /\ UNCHANGED <<thread, broadcast_loop_task, names, registered, interfaces, crash, cleaned>>

\* Mutant: the class exists already, and is used.
TakeIfFree(step, name, to) ==
  /\ At(step)
  /\ names' = names \cup {name} /\ pc' = to

Take(step, name, to) ==
  /\ At(step) /\ name \notin names
  /\ names' = names \cup {name} /\ pc' = to

\* kthread_create and wake_up_process; an error of the first is dereferenced.
Starts(t) == thread' = [thread EXCEPT ![t] = "created"]

\* The cdev of all peer devices is in the module's memory.  The class stays
\* when cdev_add fails.
init_peer_major_device ==
  \/ /\ Take("peer class", "class", "discovery")
     /\ registered' = registered \cup {"peer cdev"}
     /\ UNCHANGED <<thread, broadcast_loop_task, interfaces, crash, failed, cleaned>>
  \/ /\ "init" \in Faults
     /\ Take("peer class", "class", "absent")
     /\ failed' = TRUE
     /\ UNCHANGED <<thread, broadcast_loop_task, registered, interfaces, crash, cleaned>>
  \/ Fails("peer class", "class" \in names)

start_discovery_server ==
  \/ /\ Take("discovery", "port", "first broadcast")
     /\ Starts("discovery")
     /\ UNCHANGED <<broadcast_loop_task, registered, interfaces, crash, failed, cleaned>>
  \/ Fails("discovery", "port" \in names)

\* Called once before and once after the service is started; one variable
\* keeps the thread.
start_broadcast ==
  \E step \in {<<"first broadcast", "service">>, <<"second broadcast", "manager">>} :
    /\ At(step[1])
    /\ Starts(step[1]) /\ broadcast_loop_task' = step[1]
    /\ pc' = step[2]
    /\ UNCHANGED <<names, registered, interfaces, crash, failed, cleaned>>

CreateFails ==
  /\ "create" \in Faults
  /\ \E step \in {"discovery", "first broadcast", "service", "second broadcast"} : At(step)
  /\ Crashes("create")

\* Mutant: its thread is kept in the variable of the broadcast.
start_service_mixed_up ==
  /\ Take("service", "service port", "netlink")
  /\ Starts("service") /\ broadcast_loop_task' = "service"
  /\ UNCHANGED <<registered, interfaces, crash, failed, cleaned>>

start_service_server ==
  \/ /\ Take("service", "service port", "netlink")
     /\ Starts("service")
     /\ UNCHANGED <<broadcast_loop_task, registered, interfaces, crash, failed, cleaned>>
  \/ Fails("service", "service port" \in names)

Registers(step, what, to) ==
  /\ At(step)
  /\ registered' = registered \cup {what} /\ pc' = to
  /\ UNCHANGED <<thread, broadcast_loop_task, names, interfaces, crash, failed, cleaned>>

init_interface_socket ==
  Registers("netlink", "netlink", "second broadcast") \/ Fails("netlink", FALSE)

\* What it has registered is undone when a part of it fails.
register_manager_device ==
  Registers("manager", "device", "procfs") \/ Fails("manager", FALSE)

init_procfs ==
  Registers("procfs", "procfs", "live") \/ Fails("procfs", FALSE)

-----------------------------------------------------------------------------
(* The threads and the users.                                              *)

threadVars == <<pc, broadcast_loop_task, names, interfaces, crash, failed, cleaned>>

\* None of the loops looks at kthread_should_stop.
Runs(t) ==
  /\ crash = NULL /\ thread[t] = "created" /\ Mapped
  /\ thread' = [thread EXCEPT ![t] = "running"]
  /\ UNCHANGED <<threadVars, registered>>

RunsUnmapped(t) ==
  /\ crash = NULL /\ thread[t] \in {"created", "running"} /\ ~Mapped
  /\ Crashes(t)

\* The service loop ends on an error, a connection thread in the end.
Ends(t) ==
  /\ crash = NULL /\ t \in {"service"} \cup Connections
  /\ thread[t] = "running" /\ Mapped
  /\ thread' = [thread EXCEPT ![t] = "ended"]
  /\ UNCHANGED <<threadVars, registered>>

\* service_server_loop accepts a connection.
Accept(c) ==
  /\ crash = NULL /\ Mapped
  /\ thread["service"] = "running" /\ thread[c] = "none"
  /\ Starts(c)
  /\ UNCHANGED <<threadVars, registered>>

\* The first peer gets a device, which is never deleted.
AddPeer ==
  /\ crash = NULL /\ Mapped /\ thread["discovery"] = "running"
  /\ "peer device" \notin registered
  /\ registered' = registered \cup {"peer device"}
  /\ UNCHANGED <<threadVars, thread>>

\* A task registers an interface, as soon as there is a device.
Register(p) ==
  /\ crash = NULL /\ "device" \in registered /\ pc \in {"procfs", "live"}
  /\ interfaces[p] < InterfaceBound
  /\ interfaces' = [interfaces EXCEPT ![p] = @ + 1]
  /\ UNCHANGED <<pc, thread, broadcast_loop_task, names, registered, crash, failed, cleaned>>

\* An entry point that leads nowhere is used.
UseUnmapped ==
  /\ crash = NULL /\ ~Mapped
  /\ \E what \in registered \ {"procfs"} : Crashes(what)

-----------------------------------------------------------------------------
(* cleanup_module.                                                         *)

\* No device is open.
Unload ==
  /\ At("live")
  /\ pc' = "stop discovery"
  /\ UNCHANGED <<thread, broadcast_loop_task, names, registered, interfaces, crash,
                 failed, cleaned>>

\* Mutant: the thread is told to stop, and not waited for.
StopWithoutWaiting(step, t, to) ==
  /\ At(step)
  /\ pc' = to
  /\ UNCHANGED <<thread, broadcast_loop_task, names, registered, interfaces, crash,
                 failed, cleaned>>

\* kthread_stop: no end of a thread that has run is ever seen.
Stop(step, t, to) ==
  /\ At(step) /\ thread[t] = "created"
  /\ thread' = [thread EXCEPT ![t] = "stopped"] /\ pc' = to
  /\ UNCHANGED <<broadcast_loop_task, names, registered, interfaces, crash, failed, cleaned>>

stop_discovery_server == Stop("stop discovery", "discovery", "stop broadcast")

stop_broadcast == Stop("stop broadcast", broadcast_loop_task, "stop service")

\* A service thread that has ended by itself may be gone altogether.
stop_service_server ==
  \/ Stop("stop service", "service", "unregister")
  \/ At("stop service") /\ thread["service"] = "ended" /\ Crashes("stop")

\* Mutant: the netlink socket is not released.
UnregisterButNetlink ==
  /\ At("unregister")
  /\ registered' = registered \ {"device", "procfs"}
  /\ pc' = "absent" /\ cleaned' = TRUE
  /\ UNCHANGED <<thread, broadcast_loop_task, names, interfaces, crash, failed>>

\* unregister_manager_device, netlink_kernel_release, fint_procfs: an entry
\* of procfs is removed once for each interface that shares it.
Unregister ==
  /\ At("unregister")
  /\ \/ /\ \E p \in Tasks : interfaces[p] > 1
        /\ Crashes("procfs")
     \/ /\ \A p \in Tasks : interfaces[p] <= 1
        /\ registered' = registered \ {"device", "netlink", "procfs"}
        /\ pc' = "absent" /\ cleaned' = TRUE
        /\ UNCHANGED <<thread, broadcast_loop_task, names, interfaces, crash, failed>>

-----------------------------------------------------------------------------
InitStep ==
  \/ init_peer_major_device \/ start_discovery_server \/ start_broadcast
  \/ start_service_server \/ init_interface_socket \/ register_manager_device
  \/ init_procfs

CleanupStep ==
  stop_discovery_server \/ stop_broadcast \/ stop_service_server \/ Unregister

Next ==
  \/ Load \/ InitStep \/ CreateFails
  \/ \E t \in Threads : Runs(t) \/ RunsUnmapped(t) \/ Ends(t)
  \/ \E c \in Connections : Accept(c)
  \/ AddPeer
  \/ \E p \in Tasks : Register(p)
  \/ UseUnmapped
  \/ Unload \/ CleanupStep

Spec == Init /\ [][Next]_vars

\* The kernel runs every thread that can run, and those that load and unload.
FairSpec ==
  /\ Spec
  /\ WF_vars(InitStep) /\ WF_vars(CleanupStep)
  /\ \A t \in Threads : WF_vars(Runs(t))

\* The insmod of "reload" follows the rmmod.
ReloadSpec == FairSpec /\ WF_vars(Load)

-----------------------------------------------------------------------------
InitSteps ==
  {"peer class", "discovery", "first broadcast", "service", "netlink", "second broadcast",
   "manager", "procfs"}

\* Every variable stays in its range.
TypeOK ==
  /\ pc \in {"absent", "live"} \cup InitSteps
            \cup {"stop discovery", "stop broadcast", "stop service", "unregister"}
  /\ thread \in [Threads -> {"none", "created", "running", "ended", "stopped"}]
  /\ broadcast_loop_task \in {NULL, "first broadcast", "second broadcast"}
  /\ names \subseteq {"class", "port", "service port"}
  /\ registered \subseteq EntryPoints
  /\ interfaces \in [Tasks -> 0 .. InterfaceBound]
  /\ crash \in {NULL, "stop", "create"} \cup EntryPoints \cup Threads
  /\ failed \in BOOLEAN /\ cleaned \in BOOLEAN

Ran(t) == thread[t] \in {"running", "ended"}

(***************************************************************************)
(* Once the discovery thread has run, rmmod does not return: it stays in   *)
(* stop_discovery_server, before anything is unregistered.  Meanwhile the  *)
(* module goes on serving peers and daemons.                               *)
(***************************************************************************)
RmmodHangs ==
  LET Stuck == pc = "stop discovery" /\ Ran("discovery")
                 /\ {"device", "netlink", "procfs"} \subseteq registered
  IN
  [](pc = "stop discovery" /\ Ran("discovery") => []Stuck)

(***************************************************************************)
(* cleanup_module returns only if none of the threads it stops has run.    *)
(* Then all that is left behind and leads into the freed code is the cdev  *)
(* of the peer devices, which no function deletes, the first broadcast     *)
(* thread and connection threads.                                          *)
(***************************************************************************)
CleanExceptForgotten ==
  cleaned =>
    /\ registered = {"peer cdev"}
    /\ \A t \in Servers \ {"first broadcast"} : thread[t] = "stopped"

(***************************************************************************)
(* A module whose init_module has not failed is brought down only by a     *)
(* thread that could not be created, a service that ended before it was    *)
(* stopped, a proc entry removed twice, or, after rmmod, by what           *)
(* cleanup_module does not know of: the first broadcast thread, connection *)
(* threads and the cdev of the peer devices.                               *)
(***************************************************************************)
CrashesOfLiveModule ==
  crash # NULL /\ ~failed =>
    \/ crash = "create" /\ pc \in InitSteps
    \/ crash = "stop" /\ thread["service"] = "ended"
    \/ crash = "procfs" /\ \E p \in Tasks : interfaces[p] > 1
    \/ crash \in {"first broadcast", "peer cdev"} \cup Connections /\ cleaned

(***************************************************************************)
(* The class of the peer devices and the two ports are never given up: a   *)
(* module that is gone after it took the class, by rmmod or by a failed    *)
(* init_module, does not get past the first step again on this boot.       *)
(***************************************************************************)
LoadsOnce ==
  [](pc = "absent" /\ "class" \in names => [](pc \in {"absent", "peer class"}))

(***************************************************************************)
(* module/Makefile:38, "reload: make unload, make load", and               *)
(* reload-module.sh: rmmod returns and the insmod that follows it brings   *)
(* the module up again, unless the kernel goes down.  Neither half is so:  *)
(* rmmod hangs (RmmodHangs) or, if it returns, the load fails (LoadsOnce). *)
(***************************************************************************)
ReloadSucceeds == (pc = "stop discovery") ~> (pc = "live" \/ crash # NULL)

=============================================================================
