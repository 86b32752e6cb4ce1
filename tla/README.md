# A specification of dist_comm

`dist_comm` lets a process register *interfaces* (functions) with a Linux kernel
module and execute interfaces that processes on other hosts registered. This
directory holds TLA+ models of the module (`src/module`) and of its client
library (`src/lib`), the TLC configurations that check them and proofs for TLAPS.

    tlc -workers 2 -config rpc_race.cfg MCRpc.tla
    tlapm RpcProofs.tla

## 1. The system

| part | code | state | operations |
|---|---|---|---|
| interface registry | `module/interface.c`, `module/device/manager.c` | `INTERFACE_LIST`, `INTERFACE_COUNT`, `INTERFACE_CAPACITY`, `ALLOCATED_ID`; per interface a `ctrl_t` (portid, socket, pid, proc entry) | register, remove, find |
| procfs entries | `module/proc.c` | one entry per registering pid, shared by its interfaces | add at registration, read, remove at unload |
| remote call, calling side | `module/device/peer.c`, `module/network/peer.c` | one TCP connection and one copy of the interface per call | `peer_ioctl`, `execute_remote_interface` |
| remote call, service | `module/network/service.c`, `module/interface.c` | accept loop; one thread per connection; `ctrl->socket` | accept, `handle_connection`, `execute_interface`, `handle_interface_result` |
| daemon | `lib/src/interface.c`, `lib/src/netlink.c` | netlink socket with its queue, the packet being worked on | handshake, `handle_rpc` |
| peer table | `module/network/peer.c`, `module/device/peer.c` | `peers`, `peer_count`, the interface list of each peer | get, add, update, read, device creation |
| discovery and broadcast | `module/network/discovery.c`, `broadcast.c` | two kernel threads, UDP sockets | broadcast the registry every second; add or update a peer |
| packet formats | `module/packet.c`, `lib/src/packet.c` | none | serialise and unserialise |
| life cycle | `module/init.c`, `module/exit.c` | the threads and devices started | init, exit |

How they interact:

    caller --ioctl--> peer_ioctl --TCP: length, packet--> handle_connection
                                                              | ctrl->socket = connection
                                                              v
                          daemon (handle_rpc) <--netlink-- execute_interface
                              | callback
                              v
      handle_interface_result (kernel, on the daemon's own thread)
                              |--TCP to ctrl->socket: length, packet--> caller

    broadcast_loop --UDP: registry--> discovery_server_loop --> peers, /dev/dcpN

There is no lock anywhere. What is hard here follows from it: ioctls, one thread
per connection, the broadcast and discovery threads and the netlink handler
share the registry, the peer table and the single `ctrl->socket` of each
interface; a call crosses four queues (backlog, TCP, netlink, TCP) in which it
can be cut short, refused or lost; and hardly any failure is reported back.
`PROJECT.json` lists the main hazards, each at its line.

What makes each part correct:

- registry: ids are unique; the array is not overrun; no freed interface can be
  reached; removing one keeps the others; the proc entry of an interface is that
  of its pid;
- remote call: executed at most once; the answer is that of the call's own
  execution and never of another interface; the two halves of an answer belong
  together; a failing call is reported; every call returns; a failing daemon
  harms only its own interfaces;
- peer table and discovery: one peer per address; a peer's list and count
  belong together; the list converges to the peer's registry;
- packets: unserialising what was serialised gives it back, inside the buffer;
- life cycle: what was started is stopped, once, and unloading ends.

## 2. The modules

| module | models | checked by |
|---|---|---|
| `Registry` | the registry and its proc entries, one step per ioctl | `registry_serial`, `registry_remove` |
| `RegistryThreads` | the same ioctls access by access, and the threads that scan the list; implements `Registry` when ioctls take turns | `registry_threads`, `registry_ids` |
| `RemoteCall` | the abstract promise of a remote call | as a property of `rpc_race` |
| `Rpc` | a remote call from ioctl to callback and back | `rpc_*` |
| `PeerTable` | the abstract promise of the peer table | as a property of `peers_table` |
| `Peers` | discovery, broadcast, the peer table and its readers | `peers_*` |
| `Packets` | the packets of `packet.c` and of the library, from writer to reader | `packets` |
| `Lifecycle` | loading and unloading of the module | `lifecycle`, `lifecycle_reload` |
| `RegistryProofs`, `RegistryThreadsProofs` | theorems about the registry, and that the split ioctls implement it | TLAPS |
| `RpcProofs`, `RpcAnswerProofs`, `RpcPromiseProofs` | theorems about remote calls: what holds of every execution, of every answer, and of what a caller is promised | TLAPS |
| `PeersProofs`, `LifecycleProofs` | theorems about the peer table and the life cycle | TLAPS |
| `PacketsProofs` | theorems about the packets: what is read of any of them, and from where | TLAPS |

`MCRegistry`, `MCRegistryThreads`, `MCRpc`, `MCPeers`, `MCPackets` and `MCLifecycle`
give the instances for TLC.

Operators marked `Mutant:` are faulty versions of the definition after them,
named in `PROJECT.json`; no specification uses them. They show that each
property can fail.

### Registry

Each ioctl is one step: what callers that take turns get. An interface is named
by its id, which is also the order of allocation. `INTERFACE_LIST` is the part of
the array below `INTERFACE_COUNT`, so the count is its length.

- `register_interface(p)`: allocation, proc entry, id, growth by `GRADIENT`,
  store. The proc entry is looked up before the new interface is in the list,
  and its creation may fail without the caller noticing.
- `remove_interface(id)`: first slot with that id, the shift, `free_interface`.
  The shift is the code's own: slot `i` gets the pointer of slot `i - 1`, so all
  later slots get the pointer before the removed one. If the first slot is
  removed, that is memory before the array: the slot is `Wild`.
- `WildRead`: a scan that reaches such a slot may find nothing there it wants and
  go on, or follow it and crash (`oops`, which ends the behaviour).
- `RegisterOutOfMemory`: `alloc_interface` and `krealloc` use what the allocator
  returned before it is checked.

`RemoveTruncates`, `NeverRelisted` and `FreedNeverListed` state what the faulty
shift does and does not do: it hides every later interface, it never brings one
back, and, although it duplicates pointers, it leaves no pointer to what it frees.

### RegistryThreads

No lock protects the registry, so here an ioctl is a sequence of accesses
(`task`): `alloc_interface`, `add_interface_to_proc`, the read and the write of
`ALLOCATED_ID++`, the test of the capacity and its increment, `krealloc` and the store of
its result, and slot and count of `INTERFACE_LIST[INTERFACE_COUNT++]` in either order, since
the compiler may choose; a removal is `Locate`, one `Shift` for each slot, `CountDown` (from
the count as it is, or as the loop's test loaded it) and `free_interface`. Arrays are blocks
that `krealloc` moves and frees, and interfaces are numbered by allocation (`ids` is
what `interface->id` holds). A task's own scans in `add_interface_to_proc` and `Locate` are
one step. `INTERFACE_COUNT` wraps at `MaxCount`, which a second removal of one interface
reaches from below, and `find_interface` takes it as an `int` (`AsInt`). Where two
ioctls damage each other's memory (a store outside the array, `krealloc` of an array that is
gone, a second `free_interface` of one interface, a task's scan that follows freed memory) nothing is known afterwards: `oops`.

`scan` is a thread that looks at the list: a *finder* (`find_interface`, then the use of
what it found), a *broadcast* (which allocates the array when it is NULL) or a *reader*
of procfs (which loads pointer and count again for every slot). It follows the
pointer that it loaded. Memory that was freed can still be read, and holds anything: a scan
that comes upon it may crash (`ScanCrashes`), find an interface there (`Found`, with any of
`MayRead`), or go on (`NextSlot`) and so pass over an interface that is listed.

`Overlaps` names what is allowed to overlap an ioctl beside the scans: another ioctl
(`"callers"`), and the allocation of the array by a broadcast (`"init"`). The code
excludes neither. Without them, `ImplementsRegistry` shows that the atomic ioctls of
`Registry` are what the callers get, although scans run at any moment; the list that
`Registry` sees is `ListView`, as it is when the ioctl under way is done with it.

Four variables are history: `overlapped`, the scans that an ioctl has overlapped; `steady`,
the interfaces that were in the list all the time since a scan began; `astray`, the scans that
have read freed memory or behind the end of an array; `raced`, whether two ioctls have overlapped
(or a broadcast that allocates the array has overlapped one, both `"ioctls"`), and whether two
tasks were inside `ALLOCATED_ID++` at once (`"ids"`). A removal takes its interface and all
later ones out of `steady` as soon as it has found the slot, for from then on each turn of the
shift may hide another of them.

`StrayNeedsOverlap`, `SteadyIsFound` and `IdsUnique` hold for all values of `Overlaps`. The
properties name what the code lets go wrong:

- `StrayNeedsOverlap`: as long as no two ioctls have overlapped, a scan that no ioctl overlaps
  reads no freed memory. After two have, it may: a registration that loads the count before
  a removal frees the last interface lists the freed one again.
- `SteadyIsFound`: as long as no two ioctls have overlapped, a lookup that fails was not asked for
  an interface listed all the time, unless it read freed memory. If it did, it may be:
  `krealloc` frees the array under it, and what it reads there need not be the interface any more.
  So a call can be refused because another process registers an interface.
- `IdLeadsToInterface`: what a registration returned leads to its interface. True of one task
  (`registry_threads`), and proved as long as no ioctls have overlapped (`IdLeadsHolds`); false
  with two tasks (`registry_ids`).
- `IdsUnique`: two interfaces have one id only if two tasks were inside `ALLOCATED_ID++`. It is
  proved for any overlap; no run checks it.

### Rpc

A call is a member of `Calls`; its arguments and its result are represented by
the call itself, so that it can be told who was given whose answer. Every call has its
own connection, named by the call, with the calling end `pc`, `sent` (what was
written) and the service end `h` (the thread that runs `execute_interface`) and
`reply` (written by the service, not yet read). `LocalCalls` come from
`TEST_EXECUTE_REMOTE_CMD`, which enters `execute_interface` with a NULL socket.

A step is what a thread does between two points where others can affect it:

- caller: `Connect`, `SendLength`, `SendPacket`, `RecvSize`, `RecvPacket`, and a
  failing form of each. `peer_ioctl` ignores the error and reads the return
  values: `EndWithoutAnswer` is an oops unless the interface has none (`Void`).
  After a failed receive of the size, the uninitialised one may end the call or size a
  second receive, which takes whatever comes next (`RecvAnything`).
- service: `Accept`, `ReadRequest`, `BindSocket` (the write of `ctrl->socket`),
  `Forward` (netlink to `client_portid`). Binding and forwarding are separate
  steps: between them another thread can bind.
- daemon: `Register`, `Activate` (handshake), `Receive` with the start of the
  callback, `CallbackReturns`, `SendResultLength`, `SendResultPacket`. The last
  two are `handle_interface_result`, which the kernel runs inside the daemon's
  `sendmsg`; each reads `ctrl->socket` anew.

`Broken` are the calls whose connection may be refused, may fail (a socket call of the caller
returns an error: a signal or a reset) and may be read in parts, in both directions; `Failing` are
those whose callback may return an error. `Faults` selects what else may go wrong: `accept`,
`early` (an interface is called before its daemon's handshake) and `daemon` (killed). Three
failures need no fault, they are the code's: a full netlink queue drops the packet; an interface
without return value kills its daemon (`retv[0]` of an empty array); a daemon that answers a
connection its caller has closed may get SIGPIPE.

Calls of one interface share its `ctrl->socket`. They *meet* when one is made while another is
under way, when the manager makes one, or when a caller gave up before its answer
(a signal, a reset, a packet taken for a length), for the answer goes to whoever has bound the socket
by then. `disturbed` is history: the interfaces where that has happened. What a caller is promised
depends on it, and on nothing that happens elsewhere: `OwnResultUndisturbed`,
`ConnectedCallSurvives` and `AnswerNotLost` except the disturbed interfaces and hold for
the others, with every fault and with any overlap between interfaces. The same is false
where calls have met (`rpc_overlap`); there, `Isolation`, `AtMostOnce`, `AnswerNotShared` and
`FrameIntact` are what is left.

What `Rpc` leaves out: a length of four bytes and the first segment of a packet
are not split; interfaces are not removed while the service runs; a daemon that
died does not come back (a new process registers new interfaces); the port of a
dead daemon is not bound by somebody else; the content of packets.

A caller that waits is not told why. Many things keep it waiting for ever: the accept loop ended
before its turn; its request was dropped (no handshake yet, a queue that the daemon's other
interfaces filled, a request that `handle_rpc` refuses); its callback failed
(`rpc_callback_fails`); its daemon is dead, of a signal or of an interface without return values;
calls have met. `AnswerNotLost` is the other side: once the callback of a call has run and did not
fail, on an interface whose calls have not met, the answer is on the call's connection, or the
daemon is at work on it and `ctrl->socket` still holds that connection, or the daemon is dead.
Nothing that happens on other interfaces, of this daemon or of others, comes between.

`RemoteCall` has five actions: `Call`, `Reject`, `Execute`, `Answer` and `Interrupt` (the caller
gives up, and may meet the next). It counts executions, and allows one. Its answer is that of the
call's own execution, or of any other execution of the interface that answered nobody else where
calls have met. Under the mapping at the end of `Rpc`, a call is *called* from its connection on,
executed as often as its callback was started (`ran`, `ranAgain`), and *done* when its ioctl is
over.

### Peers

One host's view. `registry` is what each host has registered (its own broadcast
reaches it too), `network` the UDP packets under way. A packet that is lost is a
`Broadcast` that does not happen; packets are a set, so they are received in any
order, and with the fault `duplicate` more than once.

- discovery thread: `Receive` or `ReceiveFails` (the size is not looked at:
  `from_addr` and the buffer keep the last packet, or the zeros they start with,
  which read as an empty registry of address 0), then `IsPeer`/`IsNew` for
  `get_peer`, and `Accepted` for `unserialize_interfaces_packet`. A new peer is
  `AddPeer` and `CountPeer`, between which its device exists; a known one is
  `FreeList`, `StoreList` and `StoreCount`, the three effects of
  `update_peer_interfaces` that others can see one by one.
- readers: `Open`, `LoadList` and `LoadCount` in either order, `Scan` of as many
  entries as were counted, `Use` of an entry found (the `memcpy` of `peer_ioctl`),
  and back. Following a NULL list or freed memory is an oops.

A list is a block of `Lists` that holds the packet it was made from, so one can
tell whose list an entry points to and whether it was freed. Blocks are used
again. What `Rpc` assumes of a caller, that it knows the interface from a list,
is what this module produces.

A reader may overlap anything. `disturbed` is history: the readers whose own peer was
updated while they were at it. They may follow the list that the thread has freed; the
others go wrong only on the list that `add_peer` dropped while it kept its length
(the first read of a new peer that announces an interface), and otherwise find what
belongs to their peer, whatever happens to the other entries: `ReadsAreOfThePeer`.

`PeerTable` forgets array, blocks, counts and readers: a table from addresses to lists,
whose entries are added without a list, stay, and are replaced by an announcement
of their own host that is *on offer*. On offer is what is under way and what is in
the thread's buffer, since a failed receive takes that once more. The mapping shows an
entry when it is counted, and its new list from the moment the old one is freed.

What `Peers` leaves out: peers come from an empty table (nothing removes one), the
device numbers, the buffer that all reads of all devices share, and the fields of an
interface.

### Packets

A packet is the sequence of the fields that the code copies (`Fields`);
`copy_to_buffer` copies one, and the buffer grows when it has to, once. Memory is a
sequence of cells, of which a number, a flag or a character takes one each: so the
boundary conditions are those of the code with smaller sizes, but a number that is
cut in the middle does not occur.

On the way, a list overwrites the beginning of the discovery thread's one buffer; a
call or a result fills the beginning of a zeroed buffer of the announced length, by
one receive that may bring only a part; a description, too, is taken by one receive, into
a zeroed buffer of `MAX_BUFFER_SIZE` cells, and what is longer stays in the socket; a result is longer than its packet, because
`handle_netlink_income` subtracts the wrong header's size from a padded length. The
reader takes item after item and goes where the lengths lead; a length that leads out of the
buffer is `ReadOutside`. A pointer that was never set (`Unset`: a return value that the
callback left alone, a description past the end) and a field beyond the end of the buffer are
`"overrun"`, which ends the behaviour.

Each property names the condition under which a packet comes back as it was written.
The sender's part of `"list"` covers entries that `serialize_interfaces_packet` skips after it
has counted them. Left out: the format of each number, descriptions without a name
(`return -1` leaves a half-written buffer that nobody sends), and the 64 KB limit that
`service.c` defines and does not use.

### Lifecycle

`pc` is the step of `init_module` or `cleanup_module`. Every step of the first may fail and
undoes nothing, except that `register_manager_device` undoes its own parts. When
`init_module` fails or `cleanup_module` returns, the kernel frees the code: a thread that
runs then, or a registered entry point that is used then, is a crash. `registered` is the entry
points that the kernel was given: the cdev of all peer devices (`init_peer_major_device`, which
no function undoes), the first peer's device node, the netlink socket, the manager's device and procfs. `names` is what can
be taken once and is never given up: the class of the peer devices and the ports.

The threads ignore `kthread_should_stop`, so `kthread_stop` waits for ever for one that has
run, and stops one that has not; the second is the only way for `cleanup_module` to
return, and is needed to see the rest of it. `start_broadcast` is called twice and
remembers the second thread. A second load gets memory of its own, so code of the first stays
unmapped. `fint_procfs` removes a shared entry once for each
interface that shares it. `Faults` selects failures that the names do not explain: a step of
`init_module` (`"init"`) and `kthread_create` (`"create"`).

`ReloadSucceeds` is what `module/Makefile` and `module/reload-module.sh` rely on: `rmmod` returns,
and the `insmod` that follows brings the module up. It is false with no fault at all and every
thread scheduled (`lifecycle_reload`), in both halves; `RmmodHangs` and `LoadsOnce` say exactly what
happens instead.

Left out: interfaces are not removed (`remove_interface` leaves the proc entry alone, which
the removal of the directory takes with it), and what the threads do while they run.

## 3. The runs

| run | states | shows |
|---|---|---|
| `registry_serial` | 110 000 | the registry's invariants and what a removal does |
| `registry_remove` | violation | removing an interface loses the later ones |
| `registry_threads` | 635 000 | the ioctls of one task, access by access, implement `Registry` while scans run; no scan reads freed memory without overlap; a scan that read none finds what stays listed |
| `registry_ids` | violation | two registrations at once: an id does not lead to its interface |
| `rpc_race` | 1 107 000 | two remote calls and a local execution of one interface, and a local one of another, that overlap in every way, with all faults: what holds of every execution and answer, what is promised where calls have not met, and the refinement of `RemoteCall` |
| `rpc_overlap` | violation | overlapping calls get each other's answers |
| `rpc_callback_fails` | violation | a failed callback leaves its caller waiting |
| `peers_table` | 628 000 | one entry per address, which keeps its place; lists of their own peer; undisturbed reads; the refinement of `PeerTable` |
| `peers_converge` | 37 000 | the table comes to show the registries |
| `packets` | 10 400 | what comes back of each packet, and when the writer or the reader leaves its buffer |
| `lifecycle` | 78 900 | what `rmmod` waits for and leaves behind, and that the module can be loaded only once |
| `lifecycle_reload` | violation | after `rmmod`, the module does not come up again |

Bounds. `registry_serial` has two pids and up to five registrations with
`GRADIENT = 2`: the array grows twice, proc entries are shared and separate, and
removals of the first, a middle and the last slot occur in every order, also on lists
that the shift has already damaged. `rpc_race` has two remote
calls and a local one of one interface, and a local one of another interface, which has no return
values, both of one daemon. Two remote calls suffice for every exchange of sockets, since a ctrl
holds one; the local ones put a NULL socket in its place, and fill the daemon's queue of one packet
and bring the daemon down from the other interface. One of the two calls may fail in every way
(`Broken` and `Failing`), the other meets only what the first, the daemon and the service do to it.
`Isolation` between interfaces with several remote callers, and everything for more calls,
interfaces and daemons, is proved. `rpc_overlap` and `rpc_callback_fails` need two calls and one.

`registry_threads` has one task, whose ioctls take turns, three
registrations with `GRADIENT = 1`, so that the array moves or grows at each, and two blocks: one in
use and one to move to. One scanner suffices, since scanners only write when a broadcast
allocates the first array. `MaxCount` is 7, far above what is registered. `registry_ids` has two
tasks and a `GRADIENT` of 2, where no array moves after the first.

`packets` takes every list of up to three of six entries (two of them with flags that could not be
allocated, one NULL, one with flags larger than the step), every call and result with up to two of four values, the largest larger than the
step by which the buffer grows, and every description with up to two arguments and
return values, of an interface whose own description is empty or larger than the step.
`MAX_BUFFER_SIZE` is 20: some lists and descriptions are longer. The buffer starts with four cells, so it grows several times at every
possible place; three entries exceed `MAX_INTERFACES`, and the discovery thread's buffer
keeps nothing or a longer list from before. `lifecycle` has two connections and two tasks with at most
two interfaces each, enough to share a proc entry; loads are as many as the names allow.

The `peers` runs have two hosts, and the address 0 of a failed first receive as a
third, for a table of two: the table fills and refuses. With two interfaces
and `MAX_INTERFACES = 1` an announcement can be refused. Three blocks are one for each
entry and one for the list being made. Two packets are under way and registries
change twice, so that a new announcement and an old one of the same host overtake each
other. `peers_table` is symmetric in blocks, hosts and interfaces and checks safety only;
`peers_converge` is not, and has no readers.

Deadlock is not checked: the calls and registrations are finitely many, and a
behaviour ends when they are over (or when everybody waits for a reply that
nobody will send, which `EveryCallReturns` is about). In the small instances of
`Peers`, everything stops when the thread and the reader are done with an oops; a packet
is read once; a machine that crashed, or hangs in `rmmod`, stays so.

Fairness. In `Rpc`, `FairSpec` has weak fairness for the steps of a thread that can run:
`CallerStep`, `ServiceStep`, `DaemonStep`. The kernel's scheduler justifies it, and
that callbacks terminate is assumed of the user's code. There is no fairness for
making a call, starting a daemon or any failure. Only `rpc_callback_fails` uses it: under it the
answer is still missing, so it is not the scheduler that holds the caller up. In `Lifecycle`,
`FairSpec` has weak fairness of `InitStep`, `CleanupStep` and of every thread that can run
(`Runs`), and `ReloadSpec` also of `Load`, the `insmod` that `make reload` runs after `rmmod`.

In `Peers` the thread's steps are weakly fair. `broadcast_loop` sends for ever and UDP
is assumed not to lose all of what one host sends, nor to deliver for ever only
what others sent: strong fairness of `Broadcast(h)` and of `Receive(p)`. Registries
need not change, and readers need not run. `Converges` is checked without
failed receives and duplicates: a packet that may be delivered again for ever
brings its old list back for ever.

## 4. The proofs

All theorems hold for every value of the constants under `RegistryAssumption`,
`ThreadsAssumption`, `RpcAssumption`, `PeersAssumption`, `LifecycleAssumption` and
`PacketsAssumption` (types, NULL and other marks distinct from what they stand beside, messages
with the content of their kind in `Packets`, and finitely many interfaces in `Peers`). One theorem, `ImplementsRegistryHolds`, also has a hypothesis on the constants, `TakeTurns`
(`Overlaps = {}`): it excludes overlaps that the code does not exclude, and `registry_ids` shows what
becomes of the refinement without it. Where other properties hold only as long as
something has not happened, the property itself says so, through the history `raced` or
`disturbed`.

`RegistryProofs`. `IInv` adds to the invariants that the list is `Ordered`: ids do
not decrease from slot to slot, with `Wild` (0) below every id. A registration
appends the largest id; the shift gives every slot from the removed one on the
pointer before it, which keeps the order. The order is needed because the shift
duplicates pointers: the slots before the first copy of an id hold smaller ids
only, so after the shift no slot holds the removed id, although the interface
may have stood in several. This is why a faulty shift leaves nothing listed that it
frees. `TypeInvariant`,
`FreedNeverListedHolds`, `WithinCapacityHolds` and `ProcEntriesByPidHolds` follow
from `IInv`, and `RemoveTruncatesHolds` and `NeverRelistedHolds` from `IInv` and the
step.

`RegistryThreadsProofs`, with ioctls that overlap in any way and broadcasts that allocate the array.
The invariant is `IInv == IdsInv /\ ("ioctls" \notin raced => ListInv /\ ScanInv)`.

- `IdsInv` holds unconditionally, whatever overlaps: `Typed`; `Downs`, that a removal counts down
  from a count in range (it wraps at `MaxCount`, so a second removal from 0 stays in range);
  `Owned`, that a new interface is in the hands of one task until it has its id; `Counted`, that
  `ALLOCATED_ID` runs ahead of the ids given by one at most; `Unique`, that as long as one task at a
  time is inside `ALLOCATED_ID++` the id it is about to return is new. `TypeOKHolds` and
  `IdsUniqueHolds` follow from it.
- `ListInv` is about the ioctl under way, of which there is one (`OneIoctl`). `Registration` and
  `Storage` say what it has done by each of its steps; `Memory` that the array is the only block
  with slots, and that capacity and count agree with its size, outside `krealloc`; `ListOK`
  that what `ListView` shows is live and not in the hands of the ioctl, including while the shift
  is half done; `Complete` that without removals slot `j` holds interface `j`; `InProc` what
  `add_interface_to_proc` found, which is still so when the slot is stored.
  `IdLeadsHolds` follows from it.
- `ScanInv` is about the scanners. `Undisturbed`: what a scan without overlap has loaded is still
  what the registry holds, so it stays in the array and
  reads no freed memory (`StrayNeedsOverlapHolds`). `Ahead`: an
  interface that is steady is not behind the scan, and lies within the count that the
  scan has loaded. It is inductive because no ioctl moves an interface that stays in the list to
  another slot: growing copies, the store is at the end, and the shift changes only slots that the
  removal has already taken out of `steady`. A scan that has read freed memory (`astray`) is
  excepted, for it may go on past anything. Hence `SteadyIsFoundHolds`.
- `ImplementsRegistryHolds`, under `TakeTurns`, which keeps `raced` empty (`OneAtATime`): a registration takes effect at the later one of its two writes
  (`SlotLast` or `CountLast`), a removal when it has found its slot (`Locate`), the two crashes
  where they are; every other access, and everything a scanner does, is a stutter. The removal is so
  early because the shift destroys slots that nothing restores: `ListView` shows what it
  will leave, and the shift's turns must keep that.

`RpcProofs`, with overlapping callers and any faults:

- `TypeInvariant`, by `Typed`: a daemon that works on a packet holds one.
- `AtMostOnceHolds`, by `OnceInv`: a call that was queued or run has an ended
  thread (`Handled`), and a call whose ioctl has not started has no thread (`Fresh`).
  Only a thread that has not ended forwards, and it ends with that.
- `IsolationHolds`, by `IsoInv`: the ctrl of an interface holds only sockets of
  its own callers, what a daemon is about to answer was run, and so what is
  appended to a connection is of its interface. It needs no assumption about the
  order of `BindSocket` and the two sends, which is why it survives every race.

`RpcAnswerProofs`, with overlapping callers, local executions and any faults:

- `FrameIntactHolds`, by `FrameInv`. The daemon reads `ctrl->socket` once for the length and again
  for the packet, and another call may be bound in between. Each connection is written to
  by one daemon (`Served`) and only after its own thread bound it, once (`Bound`). So if a length
  stands last on a connection (`Open`), then either the daemon is just about to write the packet
  of that very answer, or the connection was replaced for good, or the daemon is dead: nothing
  follows, rather than the packet of another answer (`OpenHeld`).
- `AnswerNotSharedHolds`, by `AnswerInv`: the packet of one execution is on at most one
  connection and at most once (`WrittenOnce`), is not there once a caller has it
  (`WireOrCaller`), and is nowhere before the daemon writes it (`NotYetAnswered`).

`RpcPromiseProofs`, with any overlap and any faults, and no hypothesis on the constants. What is
promised to a caller is promised on interfaces whose calls have not met (`Calm`).

- `OwnResultUndisturbedHolds` and `ConnectedCallSurvivesHolds`, by `TurnInv`: of a calm interface, one call is
  ongoing (`OneByOne`); its thread does not outlive it (`Accompanied`), for the thread ends with
  forwarding and the call only when answered; so nobody replaces its socket (`SocketKept`), and
  what is queued, run or written is its own (`InFlight`, `Working`, `OwnAnswer`). A caller that gives
  up, an overlapping call and a local execution break these facts for their interface, and disturb
  it in the same step; `Elsewhere` is the lemma that such a step leaves every other interface alone,
  so the facts are inductive although anything happens on the others. A packet is incomplete only
  where the call's own connection is `Broken` (`Whole`, `Intact`).
- `AnswerNotLostHolds`, by `KeptInv == TurnInv /\ Kept`: the answer of a callback that ran and did not
  fail is on the way to be read (`ToRead`), or the daemon is at work on it (`AtWork`), or is dead.
  The step to watch is the end of the work: the daemon's two writes go to the socket that
  `SocketKept` says is the caller's.
- `ImplementsRemoteCallHolds`, the refinement of `RemoteCall`, by `PromiseInv`, which joins `TurnInv`,
  `AnswerInv` and `Reached` (an ongoing call has a connection, a local one has no ioctl of
  `peer_ioctl`). Executions are counted, so a second one would be a step that `RemoteCall` does not have;
  where calls have met, the answer is that of some execution that answered nobody else.

`PeersProofs`, with overlapping readers and any faults:

- `TypeInvariant`, `OnePeerPerAddressHolds` and `IdKeepsAddressHolds`, by `TableInv`.
  What is needed beside them is `Counting`: between filling an entry and counting
  it, the thread still has the address that `get_peer` did not find, and room for it.
- `ListFromPeerHolds`, by `ListInv`: the buffer is a packet of `from_addr` also after a
  receive that failed, entries have no list before their first update, and the
  list about to be stored is pointed to by no entry. So the block that
  `free_interfaces` frees is in use by this entry only, and the entry is the only
  one that points to freed memory until it gets the new list.

- `ReadsAreOfThePeerHolds`, by `ReadInv`. Two facts are added to `ListInv`: an entry that has a
  list, outside its own update, has one of as many entries as its count says (`CountMatches`), and a
  reader that was not disturbed has loaded just the list and the count that its entry still
  has (`Consistent`). The second is inductive because the thread writes list and count only in
  an update, which disturbs the readers of that entry and of no other; opening an entry
  in the middle of its update disturbs at once.
- `ImplementsPeerTableHolds`, the refinement of `PeerTable`: `InitRefines`, `AddRefines` (`CountPeer`),
  `UpdateRefines` (`FreeList`), `OfferSteps` (what is sent, received and lost) and
  `StutteringSteps` (the rest), under `TableRefInv`, which adds to `ReadInv` that the packet
  of an entry about to be counted was accepted. The size of the abstract table is `peer_count`
  because the addresses are distinct (`SameCardinality`), and the entry of an address
  is the one that `get_peer` finds.

`LifecycleProofs`, with any failures of the steps. `IInv` says what each step of
`init_module` and `cleanup_module` finds done: what is registered by then
(`Registered`), and which threads have been stopped (`Stopped`). Three facts carry
the rest:

- Nothing runs or is registered before the class is taken (`Fresh`), and a module that
  took it and is gone stays `Spent`: every later load fails at its first step. That is
  `LoadsOnceHolds`, and why what a first load left behind is never overwritten.
- Only a discovery thread that runs adds a peer device (`PeerServed`), and `cleanup_module`
  does not get past a discovery thread that runs. So a cleanup that returns has no peer
  device to forget: nothing but the cdev of the peer devices is registered any more, and of the threads only the first
  broadcast thread and connections may be left (`CleanExceptForgottenHolds`,
  `CrashesOfLiveModuleHolds`).
- `cleanup_module` at `stop discovery` with a thread that has run, and everything still
  registered, is closed under every step (`Hanging`): `RmmodHangsHolds`.

`PacketsProofs`, with any messages, buffer sizes and leftovers. A packet is the concatenation of a
list of fields of any length, `FlattenSeq`, and most facts about it need an induction over
that list. No theorem of the library that takes an operator can be used for it;
`SetInduction` does the same for the set of numbers for which a fact fails,
which would have a least member (`WFMin`). `FlattenPlaces` says
where in the concatenation each part stands, `FlattenNested` that fields may be grouped into
items, and the rest is about places in a buffer:

- `TypeOKHolds` and `OverrunNeedsBigFieldHolds`, by `TypeInv`. Its part `WriteInv` says that what
  has been copied and what is left to copy make up the whole packet; so the buffer
  that is received is that packet, and has the head that each reader takes without looking at the
  length (`KindInv`).
- `RpcRoundTripHolds` and `ShortReadStaysInsideHolds`, by `RpcInv`: as long as all values before it
  have arrived as a whole, the reader is at the place of the next one (`Position`, `RpcPlaces`); the
  first that has not arrived as a whole ends in zeros, or its length is a zero, and from there on
  every length is. The lengths that it follows are never larger than those that were sent: it stays
  inside.
- `ListRoundTripHolds`, by `ListInv`: up to the first entry that was skipped, the reader is exactly
  between two entries (`ListPlaces`), and what stands there can be read in one way only
  (`NextEntry`), whatever stands behind the packet. Behind a skipped entry nothing is claimed.
- `InfoRoundTripHolds`, by `InfoInv` and `CopyInv`. A description is taken in parts: attributes and
  the two counts (`InfoPlaces`). An attribute ends with its second zero and in no other place
  (`StringRead`, `NextAttr`), and a count is a single cell (`NextCount`). `CopyInv`: with no more
  arguments than return values, no pointer behind the descriptions is left to copy.

So each invariant and each safety property of steps that a passing run checks is a theorem
for all values of the constants, `IdLeadsToInterface` as long as no ioctls have overlapped and
`ImplementsRegistry` under `TakeTurns`. Only model-checked is the liveness property `Converges`,
which is out of the prover's reach. `RemoveKeepsOthers`, `OwnResult`, `EveryCallReturns` and
`ReloadSucceeds` are false of the code and have no theorem: the violation runs refute them.

## 5. Plan

The core (`Registry`, `Rpc`, `Peers`), the split ioctls, the packets, the life cycle and the proofs of
their safety properties are there. What is left:

1. Removal during a call: `Registry` and `Rpc` composed, for the interface that
   is freed while a connection thread or a result handler holds it.
   `RegistryThreads` has the finder that uses a freed interface, and not what the call
   makes of it.

## 6. Not modelled

- Formatting for procfs and `/dev/dcpN`: the wording, the sizes of the buffers it is written
  to, and the buffer that all reads of `/dev/dcpN` share.
- The number of minors (100, for up to 256 peers): a device without a cdev cannot be opened.
- Memory management of the library (sequential); allocation failures in the kernel
  outside `register_interface`.
- `fetch_interface_info` and `fetch_remote_interface_info` as operations: no caller sends id 0.
  Their packet is in `Packets`; the zeroed packet that reaches the first is part of
  `RequestCutShort` in `Rpc`.
- Ioctls of two tasks that overlap, in a passing run: they are enabled in `registry_ids`, which stops
  at the first id that leads nowhere. A broadcast that allocates the array beside the first
  registration (`"init"`) is in `RegistryThreads` and enabled by no run. What is left of the
  properties where ioctls overlap is proved.
- That a call returns: `AnswerNotLost` is a safety property, and liveness of remote calls is
  checked only where it fails.
- The enumeration of network devices in `broadcast_loop`, the test programs and the VM image.

The Linux kernel, TCP, UDP and netlink appear through what the code can observe of
them.
