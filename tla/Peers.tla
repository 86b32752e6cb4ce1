-------------------------------- MODULE Peers --------------------------------
(***************************************************************************)
(* The peer table of one host: every host broadcasts its registry over UDP *)
(* (broadcast.c); the discovery thread adds or updates the sender's entry  *)
(* in the array peers (discovery.c, network/peer.c); tasks that opened     *)
(* /dev/dcp<id> read the list of that entry (device/peer.c).               *)
(*                                                                         *)
(* The thread's stores to an entry and the loads of a reader are separate  *)
(* steps: no lock orders them.  A list is a block of memory (Lists) that   *)
(* holds a packet, as received; a freed block may be used again.  Packets  *)
(* stay distinguishable by their sender.                                   *)
(***************************************************************************)
EXTENDS Naturals, FiniteSets

CONSTANTS
  Hosts,            \* addresses that broadcast, this host's included
  Interfaces,       \* interfaces a host may have registered
  MAX_PEERS,        \* entries of the array (network/peer.h)
  MAX_INTERFACES,   \* interfaces accepted in a packet (packet.h)
  Lists,            \* blocks for interface lists
  Readers,          \* tasks in peer_read or peer_ioctl
  Faults,           \* "duplicate" packets, "receive" fails
  MaxInFlight,      \* bound on the packets under way
  MaxChanges,       \* bound on the changes of registries
  NULL, NoAddr      \* NoAddr: the zeroed from_addr

Packet == [from : Hosts \cup {NoAddr}, ids : SUBSET Interfaces]

ASSUME PeersAssumption ==
  /\ MAX_PEERS \in Nat \ {0} /\ MAX_INTERFACES \in Nat
  /\ MaxInFlight \in Nat /\ MaxChanges \in Nat
  /\ IsFiniteSet(Interfaces)
  /\ Faults \subseteq {"duplicate", "receive"}
  /\ NULL \notin Lists \cup Packet /\ NoAddr \notin Hosts

VARIABLES
  registry,         \* what each host has registered
  changes,          \* how often registries have changed
  network,          \* packets under way
  from_addr,        \* the discovery thread's from_addr
  buffer,           \* and the packet in its buffer
  thread,           \* where it is
  list,             \* the list it has unserialized
  addr,             \* peers[id].addr
  interfaces,       \* peers[id].interfaces
  interface_count,  \* peers[id].interface_count
  peer_count,
  heap,             \* the packet in each list; NULL when free
  reader,           \* each reader: where it is and what it has loaded
  \* History:
  disturbed         \* readers whose peer was updated while they read

hostVars   == <<registry, changes>>
threadVars == <<from_addr, buffer, thread, list>>
peerVars   == <<addr, interfaces, interface_count, peer_count>>
readerVars == <<reader, disturbed>>

vars == <<hostVars, network, threadVars, peerVars, heap, readerVars>>

Ids == 0 .. MAX_PEERS - 1

Closed == [pc |-> "closed", id |-> 0, list |-> NULL, count |-> 0]

\* A buffer of zeros reads as a packet without interfaces.
Init ==
  /\ registry = [h \in Hosts |-> {}] /\ changes = 0
  /\ network = {}
  /\ from_addr = NoAddr /\ buffer = [from |-> NoAddr, ids |-> {}]
  /\ thread = "receive" /\ list = NULL
  /\ addr = [i \in Ids |-> NoAddr]
  /\ interfaces = [i \in Ids |-> NULL]
  /\ interface_count = [i \in Ids |-> 0]
  /\ peer_count = 0
  /\ heap = [l \in Lists |-> NULL]
  /\ reader = [r \in Readers |-> Closed] /\ disturbed = {}

-----------------------------------------------------------------------------
(* The hosts and the network.                                              *)

Change(h) ==
  /\ changes < MaxChanges
  /\ \E ids \in SUBSET Interfaces \ {registry[h]} :
       registry' = [registry EXCEPT ![h] = ids]
  /\ changes' = changes + 1
  /\ UNCHANGED <<network, threadVars, peerVars, heap, readerVars>>

\* serialize_interfaces_packet.
Announcement(h) == [from |-> h, ids |-> registry[h]]

\* A broadcast that arrives; one that is lost does not happen.
Broadcast(h) ==
  /\ Cardinality(network) < MaxInFlight
  /\ network' = network \cup {Announcement(h)}
  /\ UNCHANGED <<hostVars, threadVars, peerVars, heap, readerVars>>

-----------------------------------------------------------------------------
(* The discovery thread.                                                   *)

Receive(p) ==
  /\ thread = "receive" /\ p \in network
  /\ \/ network' = network \ {p}
     \/ "duplicate" \in Faults /\ UNCHANGED network
  /\ from_addr' = p.from /\ buffer' = p
  /\ thread' = "lookup"
  /\ UNCHANGED <<hostVars, list, peerVars, heap, readerVars>>

\* Mutant: the address is cleared for every receive.
ReceiveFailsCleared ==
  /\ "receive" \in Faults
  /\ thread = "receive"
  /\ thread' = "lookup"
  /\ from_addr' = NoAddr
  /\ UNCHANGED <<hostVars, network, buffer, list, peerVars, heap, readerVars>>

\* The negative size is not looked at: the last packet is taken once more.
ReceiveFails ==
  /\ "receive" \in Faults
  /\ thread = "receive"
  /\ thread' = "lookup"
  /\ UNCHANGED <<hostVars, network, from_addr, buffer, list, peerVars, heap, readerVars>>

\* get_peer returns i.
IsPeer(i) ==
  /\ i \in 0 .. peer_count - 1 /\ addr[i] = from_addr
  /\ \A j \in 0 .. i - 1 : addr[j] # from_addr

\* Mutant: the scan starts at the second peer.
IsNewButFirst == \A i \in 1 .. peer_count - 1 : addr[i] # from_addr

\* get_peer returns -1.
IsNew == \A i \in 0 .. peer_count - 1 : addr[i] # from_addr

\* unserialize_interfaces_packet returns 0.
Accepted == Cardinality(buffer.ids) <= MAX_INTERFACES

Ignore ==
  /\ thread = "lookup"
  /\ ~Accepted \/ (IsNew /\ peer_count >= MAX_PEERS)
  /\ thread' = "receive"
  /\ UNCHANGED <<hostVars, network, from_addr, buffer, list, peerVars, heap, readerVars>>

\* Mutant: the table has room for one more.
AddPeerTooMany ==
  /\ thread = "lookup" /\ IsNew /\ Accepted
  /\ peer_count <= MAX_PEERS
  /\ addr' = [addr EXCEPT ![peer_count] = from_addr]
  /\ interfaces' = [interfaces EXCEPT ![peer_count] = NULL]
  /\ interface_count' = [interface_count EXCEPT ![peer_count] = Cardinality(buffer.ids)]
  /\ thread' = "count"
  /\ UNCHANGED <<hostVars, network, from_addr, buffer, list, peer_count, heap, readerVars>>

\* Mutant: a full table is filled again from its start.
AddPeerAround ==
  /\ thread = "lookup" /\ IsNew /\ Accepted
  /\ addr' = [addr EXCEPT ![peer_count % MAX_PEERS] = from_addr]
  /\ thread' = IF peer_count = MAX_PEERS THEN "receive" ELSE "count"
  /\ UNCHANGED <<hostVars, network, from_addr, buffer, list, interfaces, interface_count,
                 peer_count, heap, readerVars>>

\* The list is dropped, its length stays.  The device appears.
AddPeer ==
  /\ thread = "lookup" /\ IsNew /\ Accepted
  /\ peer_count < MAX_PEERS
  /\ addr' = [addr EXCEPT ![peer_count] = from_addr]
  /\ interfaces' = [interfaces EXCEPT ![peer_count] = NULL]
  /\ interface_count' = [interface_count EXCEPT ![peer_count] = Cardinality(buffer.ids)]
  /\ thread' = "count"
  /\ UNCHANGED <<hostVars, network, from_addr, buffer, list, peer_count, heap, readerVars>>

CountPeer ==
  /\ thread = "count"
  /\ peer_count' = peer_count + 1
  /\ thread' = "receive"
  /\ UNCHANGED <<hostVars, network, from_addr, buffer, list, addr, interfaces,
                 interface_count, heap, readerVars>>

HasDevice(i) == i \in 0 .. peer_count - 1 \/ (thread = "count" /\ i = peer_count)

Reading(i) ==
  {r \in Readers : reader[r].id = i /\ reader[r].pc \notin {"closed", "oops"}}

\* Mutant: the old list is freed before the packet is looked at.
FreeListFirst(i) ==
  /\ thread = "lookup" /\ IsPeer(i)
  /\ \E l \in Lists :
       /\ heap[l] = NULL
       /\ heap' = [m \in Lists |-> IF m = l /\ Accepted THEN buffer
                                   ELSE IF m = interfaces[i] THEN NULL ELSE heap[m]]
       /\ list' = l
  /\ thread' = IF Accepted THEN "list" ELSE "receive"
  /\ disturbed' = disturbed \cup Reading(i)
  /\ UNCHANGED <<hostVars, network, from_addr, buffer, peerVars, reader>>

\* update_peer_interfaces: unserialize, free_interfaces ...
FreeList(i) ==
  /\ thread = "lookup" /\ IsPeer(i) /\ Accepted
  /\ \E l \in Lists :
       /\ heap[l] = NULL
       /\ heap' = [m \in Lists |-> IF m = l THEN buffer
                                   ELSE IF m = interfaces[i] THEN NULL ELSE heap[m]]
       /\ list' = l
  /\ thread' = "list"
  /\ disturbed' = disturbed \cup Reading(i)
  /\ UNCHANGED <<hostVars, network, from_addr, buffer, peerVars, reader>>

\* Mutant: a list is only replaced.
StoreListAgain(i) ==
  /\ thread = "list" /\ IsPeer(i)
  /\ interfaces' = [interfaces EXCEPT ![i] = IF @ = NULL THEN @ ELSE list]
  /\ thread' = "length"
  /\ UNCHANGED <<hostVars, network, from_addr, buffer, list, addr, interface_count,
                 peer_count, heap, readerVars>>

\* ... and the two assignments.
StoreList(i) ==
  /\ thread = "list" /\ IsPeer(i)
  /\ interfaces' = [interfaces EXCEPT ![i] = list]
  /\ thread' = "length"
  /\ UNCHANGED <<hostVars, network, from_addr, buffer, list, addr, interface_count,
                 peer_count, heap, readerVars>>

StoreCount(i) ==
  /\ thread = "length" /\ IsPeer(i)
  /\ interface_count' = [interface_count EXCEPT ![i] = Cardinality(buffer.ids)]
  /\ thread' = "receive"
  /\ list' = NULL
  /\ UNCHANGED <<hostVars, network, from_addr, buffer, addr, interfaces,
                 peer_count, heap, readerVars>>

-----------------------------------------------------------------------------
(* Readers of a peer's list: peer_read, and find_interface in peer_ioctl.  *)

At(r, pc) == reader[r].pc = pc

Move(r, pc) ==
  /\ reader' = [reader EXCEPT ![r].pc = pc]
  /\ UNCHANGED <<hostVars, network, threadVars, peerVars, heap, disturbed>>

\* Back to user space.
Return(r) ==
  /\ reader' = [reader EXCEPT ![r] = Closed]
  /\ disturbed' = disturbed \ {r}
  /\ UNCHANGED <<hostVars, network, threadVars, peerVars, heap>>

\* The thread is between free_interfaces and the last assignment.
Updating(i) == thread \in {"list", "length"} /\ IsPeer(i)

Open(r, i) ==
  /\ At(r, "closed") /\ HasDevice(i)
  /\ reader' = [reader EXCEPT ![r].pc = "open", ![r].id = i]
  /\ disturbed' = IF Updating(i) THEN disturbed \cup {r} ELSE disturbed
  /\ UNCHANGED <<hostVars, network, threadVars, peerVars, heap>>

\* The pointer and the count are loaded one after the other, in either order.
LoadList(r) ==
  \E step \in {<<"open", "listLoaded">>, <<"countLoaded", "loaded">>} :
    /\ At(r, step[1])
    /\ reader' = [reader EXCEPT ![r].pc = step[2], ![r].list = interfaces[reader[r].id]]
    /\ UNCHANGED <<hostVars, network, threadVars, peerVars, heap, disturbed>>

LoadCount(r) ==
  \E step \in {<<"open", "countLoaded">>, <<"listLoaded", "loaded">>} :
    /\ At(r, step[1])
    /\ reader' = [reader EXCEPT ![r].pc = step[2], ![r].count = interface_count[reader[r].id]]
    /\ UNCHANGED <<hostVars, network, threadVars, peerVars, heap, disturbed>>

Mapped(r) == reader[r].list # NULL /\ heap[reader[r].list] # NULL

\* The loaded count of entries can be followed.
Usable(r) ==
  \/ reader[r].count = 0
  \/ Mapped(r) /\ reader[r].count <= Cardinality(heap[reader[r].list].ids)

Scan(r) ==
  /\ At(r, "loaded")
  /\ \/ Usable(r) /\ Return(r)
     \/ Usable(r) /\ reader[r].count > 0 /\ Move(r, "found")
     \/ ~Usable(r) /\ Move(r, "oops")

\* What was found is used: it may have been freed since.
Use(r) ==
  /\ At(r, "found")
  /\ \/ Mapped(r) /\ Return(r)
     \/ ~Mapped(r) /\ Move(r, "oops")

-----------------------------------------------------------------------------
ThreadStep ==
  \/ Ignore \/ AddPeer \/ CountPeer
  \/ \E i \in Ids : FreeList(i) \/ StoreList(i) \/ StoreCount(i)

Next ==
  \/ \E h \in Hosts : Change(h) \/ Broadcast(h)
  \/ \E p \in network : Receive(p)
  \/ ReceiveFails
  \/ ThreadStep
  \/ \E r \in Readers :
       \/ \E i \in Ids : Open(r, i)
       \/ LoadList(r) \/ LoadCount(r) \/ Scan(r) \/ Use(r)

Spec == Init /\ [][Next]_vars

\* The thread runs, and its socket is served in some order.  broadcast_loop
\* never ends: of what it sends for ever, some is not lost.
Fairness ==
  /\ WF_vars(ThreadStep)
  /\ \A h \in Hosts : SF_vars(Broadcast(h))
  /\ \A p \in Packet : SF_vars(Receive(p))

FairSpec == Spec /\ Fairness

-----------------------------------------------------------------------------
\* Every variable stays in its range; the table is never overrun.
TypeOK ==
  /\ registry \in [Hosts -> SUBSET Interfaces]
  /\ changes \in 0 .. MaxChanges
  /\ network \in SUBSET Packet
  /\ from_addr \in Hosts \cup {NoAddr}
  /\ buffer \in Packet
  /\ thread \in {"receive", "lookup", "count", "list", "length"}
  /\ list \in Lists \cup {NULL}
  /\ addr \in [Ids -> Hosts \cup {NoAddr}]
  /\ interfaces \in [Ids -> Lists \cup {NULL}]
  /\ interface_count \in [Ids -> 0 .. Cardinality(Interfaces)]
  /\ peer_count \in 0 .. MAX_PEERS
  /\ heap \in [Lists -> Packet \cup {NULL}]
  /\ reader \in [Readers -> [pc : {"closed", "open", "listLoaded", "countLoaded",
                                   "loaded", "found", "oops"},
                             id : Ids, list : Lists \cup {NULL},
                             count : 0 .. Cardinality(Interfaces)]]
  /\ disturbed \in SUBSET Readers

(***************************************************************************)
(* get_peer and add_peer keep one entry per address, through packets that  *)
(* are lost, duplicated, reordered, refused or taken twice.                *)
(***************************************************************************)
OnePeerPerAddress ==
  \A i, j \in 0 .. peer_count - 1 : addr[i] = addr[j] => i = j

(***************************************************************************)
(* /dev/dcp<id> always leads to the same host: an entry that was counted   *)
(* keeps its address.                                                      *)
(***************************************************************************)
IdKeepsAddress ==
  [][\A i \in 0 .. peer_count - 1 : i < peer_count' /\ addr'[i] = addr[i]]_vars

(***************************************************************************)
(* The list of a peer came from that peer, and no two peers share one, so  *)
(* that freeing the list of one leaves the others alone.  While the thread *)
(* is between free_interfaces and the store, its peer's list is free.      *)
(***************************************************************************)
ListFromPeer ==
  \A i \in 0 .. peer_count - 1 :
    interfaces[i] # NULL /\ ~(thread = "list" /\ IsPeer(i)) =>
      /\ heap[interfaces[i]] # NULL /\ heap[interfaces[i]].from = addr[i]
      /\ \A j \in 0 .. peer_count - 1 : interfaces[j] = interfaces[i] => j = i

(***************************************************************************)
(* A read of /dev/dcp<id> goes wrong only when this very peer is updated   *)
(* meanwhile, or when its first list was dropped: whatever happens to the  *)
(* other entries, what is found belongs to the peer that was opened.       *)
(***************************************************************************)
ReadsAreOfThePeer ==
  \A r \in Readers \ disturbed :
    /\ At(r, "oops") => reader[r].list = NULL
    /\ At(r, "found") => Mapped(r) /\ heap[reader[r].list].from = addr[reader[r].id]

\* The list of entry i: as soon as the old one is freed, the new one.
ListOf(i) ==
  IF thread = "list" /\ IsPeer(i) THEN buffer.ids
  ELSE IF interfaces[i] = NULL THEN NULL
  ELSE heap[interfaces[i]].ids

EntryOf(a) == CHOOSE i \in 0 .. peer_count - 1 : addr[i] = a

\* The peers that are counted; the packet last received may be taken again.
PT == INSTANCE PeerTable WITH
  offers <- network \cup {buffer},
  table  <- [a \in {addr[i] : i \in 0 .. peer_count - 1} |-> ListOf(EntryOf(a))],
  NoList <- NULL

(***************************************************************************)
(* Although add_peer fills an entry before it counts it and                *)
(* update_peer_interfaces frees, points and counts in separate steps, the  *)
(* entries are a bounded table from addresses to lists, each replaced as a *)
(* whole by an announcement of its host that is still about.               *)
(***************************************************************************)
ImplementsPeerTable == PT!Spec

(***************************************************************************)
(* Once the registries stop changing, the table shows them, and keeps      *)
(* showing them between its updates, although old packets arrive late.     *)
(***************************************************************************)
Shown(h) ==
  \E i \in 0 .. peer_count - 1 :
    /\ addr[i] = h
    /\ \/ thread \in {"list", "length"} /\ IsPeer(i) /\ buffer = Announcement(h)
       \/ /\ interfaces[i] # NULL /\ heap[interfaces[i]] = Announcement(h)
          /\ interface_count[i] = Cardinality(registry[h])

Converges == \A h \in Hosts : <>[]Shown(h)

=============================================================================
