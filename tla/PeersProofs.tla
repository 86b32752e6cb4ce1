----------------------------- MODULE PeersProofs -----------------------------
(***************************************************************************)
(* Proofs about Peers, for every set of hosts, interfaces and readers,     *)
(* every limit and every set of faults, with readers that overlap updates. *)
(***************************************************************************)
EXTENDS Peers, TLAPS, FiniteSetTheorems

LEMMA CountRange ==
  ASSUME NEW ids \in SUBSET Interfaces
  PROVE  Cardinality(ids) \in 0 .. Cardinality(Interfaces)
<1> USE PeersAssumption DEF PeersAssumption
<1>1. IsFiniteSet(ids) /\ Cardinality(ids) <= Cardinality(Interfaces)
  BY FS_Subset
<1>2. Cardinality(ids) \in Nat /\ Cardinality(Interfaces) \in Nat
  BY <1>1, FS_CardinalityType
<1>3. QED
  BY <1>1, <1>2

LEMMA InitTypeOK == Init => TypeOK
<1> SUFFICES ASSUME Init PROVE TypeOK
  OBVIOUS
<1>1. 0 \in 0 .. Cardinality(Interfaces)
  <2>1. Cardinality(Interfaces) \in Nat
    BY PeersAssumption, FS_CardinalityType DEF PeersAssumption
  <2>2. QED
    BY <2>1
<1>2. 0 \in Ids
  BY PeersAssumption DEF PeersAssumption, Ids
<1>3. QED
  BY <1>1, <1>2, PeersAssumption DEF PeersAssumption, Init, TypeOK, Packet, Closed

\* The steps of the hosts, of the network and of receiving.
LEMMA NetworkTypeOK ==
  ASSUME TypeOK,
         \/ \E h \in Hosts : Change(h) \/ Broadcast(h)
         \/ \E p \in network : Receive(p)
         \/ ReceiveFails \/ Ignore
  PROVE  TypeOK'
<1> USE PeersAssumption
    DEF PeersAssumption, TypeOK, hostVars, threadVars, peerVars, readerVars
<1>1. CASE \E h \in Hosts : Change(h)
  BY <1>1 DEF Change
<1>2. CASE \E h \in Hosts : Broadcast(h)
  BY <1>2 DEF Broadcast, Announcement, Packet
<1>3. CASE \E p \in network : Receive(p)
  BY <1>3 DEF Receive, Packet
<1>4. CASE ReceiveFails
  BY <1>4 DEF ReceiveFails
<1>5. CASE Ignore
  BY <1>5 DEF Ignore
<1>6. QED
  BY <1>1, <1>2, <1>3, <1>4, <1>5

\* The thread counts a peer only where there is room for it, and the entry it
\* counts is the one that it has filled.
Counting ==
  thread = "count" => peer_count < MAX_PEERS /\ addr[peer_count] = from_addr /\ IsNew

LEMMA TableTypeOK ==
  ASSUME TypeOK, Counting,
         \/ AddPeer \/ CountPeer
         \/ \E i \in Ids : FreeList(i) \/ StoreList(i) \/ StoreCount(i)
  PROVE  TypeOK'
<1> USE PeersAssumption
    DEF PeersAssumption, TypeOK, hostVars, threadVars, peerVars, readerVars, Ids
<1>1. Cardinality(buffer.ids) \in 0 .. Cardinality(Interfaces)
  BY CountRange DEF Packet
<1>2. CASE AddPeer
  BY <1>1, <1>2 DEF AddPeer
<1>3. CASE CountPeer
  BY <1>3 DEF CountPeer, Counting
<1>4. ASSUME NEW i \in Ids, FreeList(i) PROVE TypeOK'
  BY <1>4 DEF FreeList, Reading
<1>5. ASSUME NEW i \in Ids, StoreList(i) PROVE TypeOK'
  BY <1>5 DEF StoreList
<1>6. ASSUME NEW i \in Ids, StoreCount(i) PROVE TypeOK'
  BY <1>1, <1>6 DEF StoreCount
<1>7. QED
  BY <1>2, <1>3, <1>4, <1>5, <1>6

LEMMA ReaderTypeOK ==
  ASSUME TypeOK, NEW r \in Readers,
         \/ \E i \in Ids : Open(r, i)
         \/ LoadList(r) \/ LoadCount(r) \/ Scan(r) \/ Use(r)
  PROVE  TypeOK'
<1> USE PeersAssumption
    DEF PeersAssumption, TypeOK, hostVars, threadVars, peerVars, readerVars
<1>1. 0 \in Ids /\ 0 \in 0 .. Cardinality(Interfaces)
  <2>1. Cardinality(Interfaces) \in Nat
    BY FS_CardinalityType
  <2>2. QED
    BY <2>1 DEF Ids
<1>2. ASSUME NEW i \in Ids, Open(r, i) PROVE TypeOK'
  <2> DEFINE ReaderType ==
        [pc : {"closed", "open", "listLoaded", "countLoaded", "loaded", "found", "oops"},
         id : Ids, list : Lists \cup {NULL}, count : 0 .. Cardinality(Interfaces)]
  <2>1. /\ reader' = [reader EXCEPT ![r] = [reader[r] EXCEPT !.pc = "open", !.id = i]]
        /\ UNCHANGED <<hostVars, network, threadVars, peerVars, heap>> /\ disturbed' \in SUBSET Readers
    BY <1>2 DEF Open
  <2>2. [reader[r] EXCEPT !.pc = "open", !.id = i] \in ReaderType
    OBVIOUS
  <2>3. reader' \in [Readers -> ReaderType]
    <3>1. reader \in [Readers -> ReaderType]
      OBVIOUS
    <3> HIDE DEF ReaderType
    <3>2. QED
      BY <2>1, <2>2, <3>1
  <2>4. QED
    BY <2>1, <2>3
<1>3. CASE LoadList(r)
  BY <1>3 DEF LoadList
<1>4. CASE LoadCount(r)
  BY <1>4, SMTT(30) DEF LoadCount
<1>5. CASE Return(r)
  BY <1>1, <1>5 DEF Return, Closed
<1>6. CASE Scan(r)
  BY <1>5, <1>6 DEF Scan, Move
<1>7. CASE Use(r)
  BY <1>5, <1>7 DEF Use, Move
<1>8. QED
  BY <1>2, <1>3, <1>4, <1>6, <1>7

LEMMA NextCases ==
  ASSUME [Next]_vars
  PROVE  \/ \E h \in Hosts : Change(h) \/ Broadcast(h)
         \/ \E p \in network : Receive(p)
         \/ ReceiveFails \/ Ignore
         \/ AddPeer \/ CountPeer
         \/ \E i \in Ids : FreeList(i) \/ StoreList(i) \/ StoreCount(i)
         \/ \E r \in Readers :
              \/ \E i \in Ids : Open(r, i)
              \/ LoadList(r) \/ LoadCount(r) \/ Scan(r) \/ Use(r)
         \/ UNCHANGED vars
BY DEF Next, ThreadStep

\* What the steps other than the thread's leave alone.
LEMMA OthersLeaveTable ==
  ASSUME \/ \E h \in Hosts : Change(h) \/ Broadcast(h)
         \/ \E r \in Readers :
              \/ \E i \in Ids : Open(r, i)
              \/ LoadList(r) \/ LoadCount(r) \/ Scan(r) \/ Use(r)
         \/ UNCHANGED vars
  PROVE  UNCHANGED <<threadVars, peerVars, heap>>
<1>1. CASE \E h \in Hosts : Change(h) \/ Broadcast(h)
  BY <1>1 DEF Change, Broadcast
<1>2. ASSUME NEW r \in Readers,
             \/ \E i \in Ids : Open(r, i)
             \/ LoadList(r) \/ LoadCount(r) \/ Scan(r) \/ Use(r)
      PROVE  UNCHANGED <<threadVars, peerVars, heap>>
  BY <1>2 DEF Open, LoadList, LoadCount, Scan, Use, Move, Return
<1>3. QED
  BY <1>1, <1>2 DEF vars

-----------------------------------------------------------------------------
(* The table.                                                              *)

TableInv == TypeOK /\ Counting /\ OnePeerPerAddress

LEMMA TableInvInit == Init => TableInv
<1>1. Init => TypeOK
  BY InitTypeOK
<1>2. Init => Counting /\ OnePeerPerAddress
  BY DEF Init, Counting, OnePeerPerAddress
<1>3. QED
  BY <1>1, <1>2 DEF TableInv

LEMMA TypeOKNext == TypeOK /\ Counting /\ [Next]_vars => TypeOK'
<1> SUFFICES ASSUME TypeOK, Counting, [Next]_vars PROVE TypeOK'
  OBVIOUS
<1>1. CASE UNCHANGED vars
  BY <1>1 DEF vars, hostVars, threadVars, peerVars, readerVars, TypeOK
<1>2. QED
  BY <1>1, NextCases, NetworkTypeOK, TableTypeOK, ReaderTypeOK

\* Between two rounds, the entry under construction is not a peer yet.
LEMMA TableInvNext == TableInv /\ [Next]_vars => TableInv'
<1> SUFFICES ASSUME TableInv, [Next]_vars PROVE TableInv'
  OBVIOUS
<1>1. TypeOK'
  BY TypeOKNext DEF TableInv
<1>2. Counting' /\ OnePeerPerAddress'
  <2> USE PeersAssumption
      DEF PeersAssumption, TableInv, TypeOK, Counting, OnePeerPerAddress, IsNew, Ids,
          threadVars, peerVars
  <2>1. CASE \E p \in network : Receive(p)
    BY <2>1 DEF Receive
  <2>2. CASE ReceiveFails
    BY <2>2 DEF ReceiveFails
  <2>3. CASE Ignore
    BY <2>3 DEF Ignore
  <2>4. CASE AddPeer
    BY <2>4 DEF AddPeer
  <2>5. CASE CountPeer
    BY <2>5 DEF CountPeer
  <2>6. CASE \E i \in Ids : FreeList(i) \/ StoreList(i) \/ StoreCount(i)
    BY <2>6 DEF FreeList, StoreList, StoreCount
  <2>7. CASE UNCHANGED <<threadVars, peerVars, heap>>
    BY <2>7
  <2>8. QED
    BY <2>1, <2>2, <2>3, <2>4, <2>5, <2>6, <2>7, NextCases, OthersLeaveTable
<1>3. QED
  BY <1>1, <1>2 DEF TableInv

THEOREM TableInvariant == Spec => []TableInv
BY TableInvInit, TableInvNext, PTL DEF Spec

(***************************************************************************)
(* The variables stay in range; in particular add_peer never writes past   *)
(* the end of peers, although it counts an entry after filling it.         *)
(***************************************************************************)
THEOREM TypeInvariant == Spec => []TypeOK
BY TableInvariant, PTL DEF TableInv

(***************************************************************************)
(* get_peer and add_peer keep one entry per address, whatever packets are  *)
(* lost, duplicated, reordered, refused or taken twice.                    *)
(***************************************************************************)
THEOREM OnePeerPerAddressHolds == Spec => []OnePeerPerAddress
BY TableInvariant, PTL DEF TableInv

(***************************************************************************)
(* An entry that add_peer has counted stays and keeps its address.         *)
(***************************************************************************)
THEOREM IdKeepsAddressHolds == Spec => IdKeepsAddress
<1> DEFINE Kept == \A i \in 0 .. peer_count - 1 : i < peer_count' /\ addr'[i] = addr[i]
<1>1. TableInv /\ [Next]_vars => [Kept]_vars
  <2> SUFFICES ASSUME TableInv, [Next]_vars PROVE Kept
    OBVIOUS
  <2> USE PeersAssumption
      DEF PeersAssumption, TableInv, TypeOK, Ids, threadVars, peerVars
  <2>1. CASE AddPeer
    BY <2>1 DEF AddPeer
  <2>2. CASE ~AddPeer /\ peer_count' \in {peer_count, peer_count + 1} /\ addr' = addr
    BY <2>2
  <2>3. CASE \/ \E p \in network : Receive(p)
             \/ ReceiveFails \/ Ignore \/ CountPeer
             \/ \E i \in Ids : FreeList(i) \/ StoreList(i) \/ StoreCount(i)
    BY <2>1, <2>2, <2>3
    DEF Receive, ReceiveFails, Ignore, CountPeer, FreeList, StoreList, StoreCount
  <2>4. CASE UNCHANGED <<threadVars, peerVars, heap>>
    BY <2>4
  <2>5. QED
    BY <2>1, <2>3, <2>4, NextCases, OthersLeaveTable
<1>2. QED
  BY <1>1, TableInvariant, PTL DEF Spec, IdKeepsAddress

-----------------------------------------------------------------------------
(* The lists.                                                              *)

\* The buffer holds a packet of from_addr, also after a receive that fails.
BufferFromAddr == buffer.from = from_addr

\* An entry has no list before its first update.
NoListYet == \A i \in Ids : i >= peer_count => interfaces[i] = NULL

\* The list about to be stored is a copy of the packet that nothing points to.
ListReady ==
  thread = "list" =>
    /\ list \in Lists /\ heap[list] = buffer
    /\ \A i \in Ids : interfaces[i] # list

ListInv == TableInv /\ BufferFromAddr /\ NoListYet /\ ListReady /\ ListFromPeer

LEMMA ListInvInit == Init => ListInv
<1>1. Init => TableInv
  BY TableInvInit
<1>2. Init => BufferFromAddr /\ NoListYet /\ ListReady /\ ListFromPeer
  BY DEF Init, BufferFromAddr, NoListYet, ListReady, ListFromPeer
<1>3. QED
  BY <1>1, <1>2 DEF ListInv

\* get_peer finds one entry.
LEMMA IsPeerUnique ==
  ASSUME TypeOK, NEW i \in Ids, IsPeer(i), NEW j \in Ids, IsPeer(j)
  PROVE  i = j
BY PeersAssumption DEF PeersAssumption, TypeOK, IsPeer, Ids

\* Steps that leave the entries and their lists alone, while no list is being
\* replaced.
LEMMA ListsStay ==
  ASSUME ListInv, thread # "list", thread' # "list", peer_count' \in {peer_count, peer_count + 1},
         \A i \in Ids : i < peer_count => addr'[i] = addr[i], UNCHANGED heap,
         \A i \in Ids : interfaces'[i] = interfaces[i] \/ (i >= peer_count /\ interfaces'[i] = NULL),
         TypeOK'
  PROVE  NoListYet' /\ ListReady' /\ ListFromPeer'
<1> USE PeersAssumption
    DEF PeersAssumption, ListInv, TableInv, TypeOK, Ids
<1>1. NoListYet'
  BY DEF NoListYet
<1>2. ListReady'
  BY DEF ListReady
<1>3. ASSUME NEW i \in 0 .. peer_count' - 1, interfaces'[i] # NULL
      PROVE  /\ heap[interfaces'[i]] # NULL /\ heap[interfaces'[i]].from = addr'[i]
             /\ \A j \in 0 .. peer_count' - 1 : interfaces'[j] = interfaces'[i] => j = i
  <2>1. ASSUME NEW k \in 0 .. peer_count' - 1, interfaces'[k] # NULL
        PROVE  /\ k \in Ids /\ k \in 0 .. peer_count - 1
               /\ interfaces'[k] = interfaces[k] /\ addr'[k] = addr[k]
    <3>1. k \in Ids /\ (k \in 0 .. peer_count - 1 \/ k = peer_count)
      <4>1. MAX_PEERS \in Nat /\ peer_count \in Nat /\ peer_count' \in 0 .. MAX_PEERS
        OBVIOUS
      <4>2. CASE peer_count' = peer_count
        BY <2>1, <4>1, <4>2
      <4>3. CASE peer_count' = peer_count + 1
        BY <2>1, <4>1, <4>3
      <4>4. QED
        BY <4>2, <4>3
    <3>2. k # peer_count
      BY <2>1, <3>1 DEF NoListYet
    <3>3. QED
      BY <2>1, <3>1, <3>2
  <2>2. i \in 0 .. peer_count - 1 /\ interfaces'[i] = interfaces[i] /\ addr'[i] = addr[i]
    BY <1>3, <2>1
  <2>3. heap[interfaces[i]] # NULL /\ heap[interfaces[i]].from = addr[i]
    BY <1>3, <2>2 DEF ListFromPeer
  <2>4. ASSUME NEW j \in 0 .. peer_count' - 1, interfaces'[j] = interfaces'[i] PROVE j = i
    <3>1. j \in 0 .. peer_count - 1 /\ interfaces'[j] = interfaces[j]
      BY <1>3, <2>1, <2>4
    <3>2. QED
      BY <1>3, <2>2, <2>4, <3>1 DEF ListFromPeer
  <2>5. QED
    BY <2>2, <2>3, <2>4
<1>4. ListFromPeer'
  BY <1>3 DEF ListFromPeer
<1>5. QED
  BY <1>1, <1>2, <1>4

LEMMA ListInvNext == ListInv /\ [Next]_vars => ListInv'
<1> SUFFICES ASSUME ListInv, [Next]_vars PROVE ListInv'
  OBVIOUS
<1>1. TableInv'
  BY TableInvNext DEF ListInv
<1> USE PeersAssumption
    DEF PeersAssumption, ListInv, TableInv, TypeOK, Ids, threadVars, peerVars
<1>2. BufferFromAddr'
  <2> USE DEF BufferFromAddr
  <2>1. CASE \E p \in network : Receive(p)
    BY <2>1 DEF Receive
  <2>2. CASE \/ ReceiveFails \/ Ignore \/ AddPeer \/ CountPeer
             \/ \E i \in Ids : FreeList(i) \/ StoreList(i) \/ StoreCount(i)
    BY <2>2 DEF ReceiveFails, Ignore, AddPeer, CountPeer, FreeList, StoreList, StoreCount
  <2>3. CASE UNCHANGED <<threadVars, peerVars, heap>>
    BY <2>3
  <2>4. QED
    BY <2>1, <2>2, <2>3, NextCases, OthersLeaveTable
<1>3. NoListYet' /\ ListReady' /\ ListFromPeer'
  <2>1. CASE \/ \E p \in network : Receive(p)
             \/ ReceiveFails \/ Ignore \/ AddPeer \/ CountPeer
    <3>1. thread # "list" /\ thread' # "list" /\ UNCHANGED heap
      BY <2>1 DEF Receive, ReceiveFails, Ignore, AddPeer, CountPeer
    <3>2. /\ peer_count' \in {peer_count, peer_count + 1}
          /\ \A i \in Ids : i < peer_count => addr'[i] = addr[i]
          /\ \A i \in Ids : interfaces'[i] = interfaces[i] \/ (i >= peer_count /\ interfaces'[i] = NULL)
      <4>1. CASE AddPeer
        BY <4>1 DEF AddPeer
      <4>2. CASE CountPeer
        BY <4>2 DEF CountPeer
      <4>3. CASE (\E p \in network : Receive(p)) \/ ReceiveFails \/ Ignore
        BY <4>3 DEF Receive, ReceiveFails, Ignore
      <4>4. QED
        BY <2>1, <4>1, <4>2, <4>3
    <3>3. QED
      BY <1>1, <3>1, <3>2, ListsStay
  <2>2. ASSUME NEW i \in Ids, FreeList(i)
        PROVE  NoListYet' /\ ListReady' /\ ListFromPeer'
    <3> DEFINE l == list'
    <3>1. /\ l \in Lists /\ heap[l] = NULL
          /\ heap' = [m \in Lists |-> IF m = l THEN buffer
                                      ELSE IF m = interfaces[i] THEN NULL ELSE heap[m]]
          /\ thread = "lookup" /\ thread' = "list" /\ UNCHANGED <<buffer, from_addr, peerVars>>
          /\ IsPeer(i)
      BY <2>2 DEF FreeList
    <3>2. IsPeer(i)' /\ i < peer_count
      BY <3>1 DEF IsPeer
    <3>3. \A j \in Ids : interfaces[j] # l
      BY <3>1 DEF NoListYet, ListFromPeer
    <3>4. NoListYet' /\ ListReady'
      BY <3>1, <3>3 DEF NoListYet, ListReady
    <3>5. ASSUME NEW j \in Ids, j < peer_count, j # i, interfaces[j] # NULL
          PROVE  /\ heap'[interfaces[j]] = heap[interfaces[j]]
                 /\ heap[interfaces[j]] # NULL /\ heap[interfaces[j]].from = addr[j]
                 /\ \A k \in 0 .. peer_count - 1 : interfaces[k] = interfaces[j] => k = j
      BY <3>1, <3>2, <3>3, <3>5 DEF ListFromPeer
    <3>6. ASSUME NEW j \in 0 .. peer_count - 1, interfaces[j] # NULL, ~IsPeer(j)'
          PROVE  /\ heap'[interfaces[j]] # NULL /\ heap'[interfaces[j]].from = addr[j]
                 /\ \A k \in 0 .. peer_count - 1 : interfaces[k] = interfaces[j] => k = j
      <4>1. j \in Ids /\ j < peer_count /\ j # i
        BY <3>2, <3>6
      <4>2. QED
        BY <3>5, <3>6, <4>1
    <3>7. ListFromPeer'
      BY <3>1, <3>6 DEF ListFromPeer
    <3>8. QED
      BY <3>4, <3>7
  <2>3. ASSUME NEW i \in Ids, StoreList(i)
        PROVE  NoListYet' /\ ListReady' /\ ListFromPeer'
    <3>1. /\ thread = "list" /\ thread' = "length" /\ IsPeer(i)
          /\ UNCHANGED <<heap, addr, peer_count>>
          /\ interfaces'[i] = list
          /\ \A j \in Ids : j # i => interfaces'[j] = interfaces[j]
      BY <2>3 DEF StoreList
    <3>2. i < peer_count /\ addr[i] = from_addr
      BY <3>1 DEF IsPeer
    <3>3. NoListYet' /\ ListReady'
      <4>1. NoListYet'
        BY <3>1, <3>2 DEF NoListYet
      <4>2. ListReady'
        BY <3>1 DEF ListReady
      <4>3. QED
        BY <4>1, <4>2
    <3>4. heap[list] # NULL /\ heap[list].from = addr[i] /\ \A j \in Ids : interfaces[j] # list
      BY <3>1, <3>2 DEF ListReady, BufferFromAddr, Packet
    <3>5. ASSUME NEW j \in Ids, j < peer_count, j # i, interfaces[j] # NULL
          PROVE  /\ heap[interfaces[j]] # NULL /\ heap[interfaces[j]].from = addr[j]
                 /\ \A k \in 0 .. peer_count - 1 : interfaces[k] = interfaces[j] => k = j
      BY <3>1, <3>5, IsPeerUnique DEF ListFromPeer
    <3>6. ASSUME NEW j \in 0 .. peer_count - 1, interfaces'[j] # NULL
          PROVE  /\ heap[interfaces'[j]] # NULL /\ heap[interfaces'[j]].from = addr[j]
                 /\ \A k \in 0 .. peer_count - 1 : interfaces'[k] = interfaces'[j] => k = j
      <4>1. j \in Ids /\ j < peer_count /\ 0 .. peer_count - 1 \subseteq Ids
        OBVIOUS
      <4>2. CASE j = i
        BY <3>1, <3>4, <4>1, <4>2
      <4>3. CASE j # i
        BY <3>1, <3>4, <3>5, <3>6, <4>1, <4>3
      <4>4. QED
        BY <4>2, <4>3
    <3>7. ListFromPeer'
      BY <3>1, <3>6 DEF ListFromPeer
    <3>8. QED
      BY <3>3, <3>7
  <2>4. ASSUME NEW i \in Ids, StoreCount(i)
        PROVE  NoListYet' /\ ListReady' /\ ListFromPeer'
    <3>1. /\ thread = "length" /\ thread' = "receive"
          /\ UNCHANGED <<heap, addr, interfaces, peer_count>>
      BY <2>4 DEF StoreCount
    <3>2. QED
      BY <1>1, <3>1, ListsStay
  <2>5. CASE UNCHANGED <<threadVars, peerVars, heap>>
    BY <2>5 DEF NoListYet, ListReady, ListFromPeer, IsPeer
  <2>6. QED
    BY <2>1, <2>2, <2>3, <2>4, <2>5, NextCases, OthersLeaveTable
<1>4. QED
  BY <1>1, <1>2, <1>3

(***************************************************************************)
(* Every list in use came from its own peer and is shared with no other:   *)
(* free_interfaces in update_peer_interfaces frees what only this entry    *)
(* points to.                                                              *)
(***************************************************************************)
THEOREM ListFromPeerHolds == Spec => []ListFromPeer
<1>1. ListInv => ListFromPeer
  BY DEF ListInv
<1>2. QED
  BY <1>1, ListInvInit, ListInvNext, PTL DEF Spec

-----------------------------------------------------------------------------
(* The readers.                                                            *)

\* Once it is stored, the new list is the packet that is counted next.
ListStored ==
  thread = "length" =>
    \A i \in Ids : IsPeer(i) => interfaces[i] = list /\ list \in Lists /\ heap[list] = buffer

\* Between updates, a list has as many interfaces as its entry says.
CountMatches ==
  \A i \in Ids :
    i < peer_count /\ interfaces[i] # NULL /\ ~Updating(i) =>
      interface_count[i] = Cardinality(heap[interfaces[i]].ids)

\* What an undisturbed reader has loaded is still what its entry holds.
Consistent(r) ==
  LET x == reader[r] IN
  /\ x.pc # "closed" => HasDevice(x.id)
  /\ x.pc \in {"open", "listLoaded", "countLoaded", "loaded", "found"} => ~Updating(x.id)
  /\ x.pc \in {"listLoaded", "loaded", "found"} => x.list = interfaces[x.id]
  /\ x.pc \in {"countLoaded", "loaded"} => x.count = interface_count[x.id]
  /\ x.pc = "found" => x.list # NULL
  /\ x.pc = "oops" => x.list = NULL

ReadInv ==
  ListInv /\ ListStored /\ CountMatches /\ \A r \in Readers \ disturbed : Consistent(r)

LEMMA ReadInvInit == Init => ReadInv
<1>1. Init => ListInv
  BY ListInvInit
<1>2. Init => ListStored /\ CountMatches /\ \A r \in Readers \ disturbed : Consistent(r)
  BY DEF Init, ListStored, CountMatches, Consistent, Closed
<1>3. QED
  BY <1>1, <1>2 DEF ReadInv

\* The list of an entry that is not being updated can be followed.
LEMMA EntryList ==
  ASSUME ReadInv, NEW i \in Ids, ~Updating(i), interfaces[i] # NULL
  PROVE  /\ i < peer_count
         /\ heap[interfaces[i]] # NULL /\ heap[interfaces[i]].from = addr[i]
         /\ interface_count[i] = Cardinality(heap[interfaces[i]].ids)
<1> USE PeersAssumption
    DEF PeersAssumption, ReadInv, ListInv, TableInv, TypeOK, Ids
<1>1. i \in 0 .. peer_count - 1
  BY DEF NoListYet
<1>2. ~(thread = "list" /\ IsPeer(i))
  BY DEF Updating
<1>3. QED
  BY <1>1, <1>2 DEF ListFromPeer, CountMatches

\* A reader never finds anything wrong but a list that was dropped.
LEMMA ScanOfDropped ==
  ASSUME ReadInv, NEW r \in Readers \ disturbed, reader[r].pc = "loaded"
  PROVE  /\ ~Usable(r) => reader[r].list = NULL
         /\ Usable(r) /\ reader[r].count > 0 => reader[r].list # NULL
<1> DEFINE i == reader[r].id
<1>1. /\ i \in Ids /\ ~Updating(i)
      /\ reader[r].list = interfaces[i] /\ reader[r].count = interface_count[i]
      /\ reader[r].count \in 0 .. Cardinality(Interfaces)
  BY DEF ReadInv, ListInv, TableInv, TypeOK, Consistent
<1>2. ASSUME reader[r].list # NULL PROVE Usable(r)
  <2>1. /\ heap[interfaces[i]] # NULL
        /\ interface_count[i] = Cardinality(heap[interfaces[i]].ids)
    BY <1>1, <1>2, EntryList
  <2>2. reader[r].count \in Int
    BY <1>1
  <2>3. QED
    BY <1>1, <1>2, <2>1, <2>2 DEF Usable, Mapped
<1>3. ASSUME Usable(r), reader[r].count > 0 PROVE reader[r].list # NULL
  BY <1>1, <1>3 DEF Usable, Mapped
<1>4. QED
  BY <1>2, <1>3

\* The steps of the readers.
LEMMA ReaderConsistent ==
  ASSUME ReadInv, TypeOK', NEW r \in Readers,
         \/ \E i \in Ids : Open(r, i)
         \/ LoadList(r) \/ LoadCount(r) \/ Scan(r) \/ Use(r),
         NEW q \in Readers \ disturbed'
  PROVE  Consistent(q)'
<1> USE DEF ReadInv, ListInv, TableInv, TypeOK, threadVars, peerVars, hostVars
<1>1. UNCHANGED <<threadVars, peerVars, heap>>
  BY OthersLeaveTable
<1>2. \A i \in Ids : Updating(i)' = Updating(i) /\ HasDevice(i)' = HasDevice(i)
  BY <1>1 DEF Updating, HasDevice, IsPeer
<1>3. CASE q # r
  <2>1. reader'[q] = reader[q] /\ q \notin disturbed
    BY <1>3 DEF Open, LoadList, LoadCount, Scan, Use, Move, Return
  <2>2. reader[q].id \in Ids /\ Consistent(q)
    BY <2>1
  <2>3. QED
    BY <1>1, <1>2, <2>1, <2>2 DEF Consistent
<1>4. CASE q = r
  <2>1. ASSUME NEW i \in Ids, Open(r, i) PROVE Consistent(q)'
    <3>1. reader'[r].pc = "open" /\ reader'[r].id = i /\ HasDevice(i) /\ ~Updating(i)
      <4>1. reader' = [reader EXCEPT ![r] = [reader[r] EXCEPT !.pc = "open", !.id = i]]
        BY <2>1 DEF Open
      <4>2. reader'[r] = [reader[r] EXCEPT !.pc = "open", !.id = i]
        BY <4>1
      <4>3. HasDevice(i) /\ ~Updating(i)
        BY <1>4, <2>1 DEF Open
      <4>4. QED
        BY <4>2, <4>3
    <3>2. QED
      BY <1>2, <1>4, <3>1 DEF Consistent
  <2>2. CASE Return(r)
    BY <1>4, <2>2 DEF Return, Closed, Consistent
  <2>3. ASSUME r \notin disturbed PROVE reader[r].id \in Ids /\ Consistent(r)
    BY <2>3
  <2>4. CASE LoadList(r)
    <3>1. /\ reader'[r].id = reader[r].id /\ reader'[r].list = interfaces[reader[r].id]
          /\ reader'[r].count = reader[r].count /\ disturbed' = disturbed
          /\ \/ reader[r].pc = "open" /\ reader'[r].pc = "listLoaded"
             \/ reader[r].pc = "countLoaded" /\ reader'[r].pc = "loaded"
      BY <2>4 DEF LoadList, At
    <3>2. QED
      BY <1>1, <1>2, <1>4, <2>3, <3>1 DEF Consistent
  <2>5. CASE LoadCount(r)
    <3>1. /\ reader'[r].id = reader[r].id /\ reader'[r].list = reader[r].list
          /\ reader'[r].count = interface_count[reader[r].id] /\ disturbed' = disturbed
          /\ \/ reader[r].pc = "open" /\ reader'[r].pc = "countLoaded"
             \/ reader[r].pc = "listLoaded" /\ reader'[r].pc = "loaded"
      BY <2>5 DEF LoadCount, At
    <3>2. QED
      BY <1>1, <1>2, <1>4, <2>3, <3>1 DEF Consistent
  <2>6. ASSUME NEW pc \in {"found", "oops"}, Move(r, pc)
        PROVE  /\ reader'[r].id = reader[r].id /\ reader'[r].list = reader[r].list
               /\ reader'[r].pc = pc /\ disturbed' = disturbed
    BY <2>6 DEF Move
  <2>7. CASE Scan(r) /\ ~Return(r)
    <3>1. /\ reader[r].pc = "loaded"
          /\ \/ Move(r, "found") /\ Usable(r) /\ reader[r].count > 0
             \/ Move(r, "oops") /\ ~Usable(r)
      BY <2>7 DEF Scan, At
    <3>2. r \notin disturbed
      BY <1>4, <2>6, <3>1
    <3>3. CASE Move(r, "found") /\ Usable(r) /\ reader[r].count > 0
      <4>1. reader[r].list # NULL
        BY <3>1, <3>2, <3>3, ScanOfDropped
      <4>2. QED
        BY <1>1, <1>2, <1>4, <2>3, <2>6, <3>1, <3>2, <3>3, <4>1 DEF Consistent
    <3>4. CASE Move(r, "oops") /\ ~Usable(r)
      <4>1. reader[r].list = NULL
        BY <3>1, <3>2, <3>4, ScanOfDropped
      <4>2. QED
        BY <1>1, <1>2, <1>4, <2>3, <2>6, <3>1, <3>2, <3>4, <4>1 DEF Consistent
    <3>5. QED
      BY <3>1, <3>3, <3>4
  <2>8. CASE Use(r) /\ ~Return(r)
    <3>1. reader[r].pc = "found" /\ Move(r, "oops") /\ ~Mapped(r)
      BY <2>8 DEF Use, At
    <3>2. r \notin disturbed
      BY <1>4, <2>6, <3>1
    <3>3. Mapped(r)
      <4>1. /\ reader[r].id \in Ids /\ ~Updating(reader[r].id)
            /\ reader[r].list # NULL /\ reader[r].list = interfaces[reader[r].id]
        BY <2>3, <3>1, <3>2 DEF Consistent
      <4>2. QED
        BY <4>1, EntryList DEF Mapped
    <3>4. QED
      BY <3>1, <3>3
  <2>9. QED
    BY <2>1, <2>2, <2>4, <2>5, <2>7, <2>8
<1>5. QED
  BY <1>3, <1>4

\* Steps that touch neither the counted entries nor their lists, while none is
\* being updated.
LEMMA ReadersStay ==
  ASSUME ReadInv, thread \notin {"list", "length"}, thread' \notin {"list", "length"},
         \A i \in Ids : HasDevice(i) =>
           /\ HasDevice(i)'
           /\ interfaces'[i] = interfaces[i] /\ interface_count'[i] = interface_count[i],
         UNCHANGED <<heap, readerVars>>,
         \A i \in Ids : i < peer_count' => HasDevice(i) \/ interfaces'[i] = NULL,
         \A i \in Ids : HasDevice(i) /\ interfaces[i] # NULL => i < peer_count
  PROVE  ListStored' /\ CountMatches' /\ \A r \in Readers \ disturbed' : Consistent(r)'
<1> USE DEF ReadInv, ListInv, TableInv, TypeOK, readerVars
<1>1. ListStored'
  BY DEF ListStored
<1>2. \A i \in Ids : ~Updating(i) /\ ~Updating(i)'
  BY DEF Updating
<1>3. CountMatches'
  BY <1>2 DEF CountMatches
<1>4. ASSUME NEW r \in Readers \ disturbed' PROVE Consistent(r)'
  <2>1. reader[r].id \in Ids /\ Consistent(r) /\ reader'[r] = reader[r]
    BY <1>4
  <2>2. QED
    BY <1>2, <2>1 DEF Consistent
<1>5. QED
  BY <1>1, <1>3, <1>4

LEMMA ReadInvNext == ReadInv /\ [Next]_vars => ReadInv'
<1> SUFFICES ASSUME ReadInv, [Next]_vars PROVE ReadInv'
  OBVIOUS
<1>1. ListInv' /\ TypeOK'
  BY ListInvNext DEF ReadInv, ListInv, TableInv
<1> DEFINE Rest == ListStored /\ CountMatches /\ \A r \in Readers \ disturbed : Consistent(r)
<1> USE PeersAssumption
    DEF PeersAssumption, ReadInv, ListInv, TableInv, TypeOK, Ids, threadVars, peerVars
<1>2. CASE (\E p \in network : Receive(p)) \/ ReceiveFails \/ Ignore
  <2>1. /\ thread \in {"receive", "lookup"} /\ thread' \in {"receive", "lookup"}
        /\ UNCHANGED <<peerVars, heap, readerVars>>
    BY <1>2 DEF Receive, ReceiveFails, Ignore
  <2>2. QED
    BY <1>1, <2>1, ReadersStay DEF HasDevice
<1>3. CASE AddPeer
  <2>1. /\ thread = "lookup" /\ thread' = "count"
        /\ interfaces' = [interfaces EXCEPT ![peer_count] = NULL]
        /\ \A i \in Ids : i # peer_count => interface_count'[i] = interface_count[i]
        /\ UNCHANGED <<peer_count, heap, readerVars>>
    BY <1>3 DEF AddPeer
  <2>2. QED
    BY <1>1, <2>1, ReadersStay DEF HasDevice
<1>4. CASE CountPeer
  <2>1. /\ thread = "count" /\ thread' = "receive" /\ peer_count' = peer_count + 1
        /\ UNCHANGED <<interfaces, interface_count, heap, readerVars>>
    BY <1>4 DEF CountPeer
  <2>2. QED
    BY <1>1, <2>1, ReadersStay DEF HasDevice, NoListYet
<1>5. ASSUME NEW i \in Ids, FreeList(i) PROVE Rest'
  <2> DEFINE l == list'
  <2>1. /\ thread = "lookup" /\ thread' = "list" /\ IsPeer(i)
        /\ l \in Lists /\ heap[l] = NULL
        /\ heap' = [m \in Lists |-> IF m = l THEN buffer
                                    ELSE IF m = interfaces[i] THEN NULL ELSE heap[m]]
        /\ disturbed' = disturbed \cup Reading(i)
        /\ UNCHANGED <<buffer, from_addr, peerVars, reader>>
    BY <1>5 DEF FreeList
  <2>2. \A j \in Ids : IsPeer(j)' = IsPeer(j) /\ HasDevice(j)' = HasDevice(j) /\ ~Updating(j)
    BY <2>1 DEF IsPeer, HasDevice, Updating
  <2>3. \A j \in Ids : Updating(j)' <=> j = i
    BY <2>1, <2>2, IsPeerUnique DEF Updating
  <2>4. ASSUME NEW j \in Ids, j < peer_count, j # i, interfaces[j] # NULL
        PROVE  heap'[interfaces[j]] = heap[interfaces[j]]
    BY <2>1, <2>4, i < peer_count DEF ListFromPeer, IsPeer
  <2>5. ListStored'
    BY <2>1 DEF ListStored
  <2>6. CountMatches'
    BY <2>1, <2>2, <2>3, <2>4 DEF CountMatches
  <2>7. ASSUME NEW r \in Readers \ disturbed' PROVE Consistent(r)'
    <3>1. reader[r].id \in Ids /\ Consistent(r) /\ r \notin Reading(i)
      BY <2>1, <2>7
    <3>2. reader[r].id # i \/ reader[r].pc \in {"closed", "oops"}
      BY <3>1 DEF Reading
    <3>3. QED
      BY <2>1, <2>2, <2>3, <3>1, <3>2 DEF Consistent
  <2>8. QED
    BY <2>5, <2>6, <2>7
<1>6. ASSUME NEW i \in Ids, StoreList(i) PROVE Rest'
  <2>1. /\ thread = "list" /\ thread' = "length" /\ IsPeer(i)
        /\ interfaces' = [interfaces EXCEPT ![i] = list]
        /\ UNCHANGED <<from_addr, buffer, list, addr, interface_count, peer_count, heap, readerVars>>
    BY <1>6 DEF StoreList
  <2>2. \A j \in Ids : /\ IsPeer(j)' = IsPeer(j) /\ HasDevice(j)' = HasDevice(j)
                       /\ Updating(j)' = Updating(j)
    BY <2>1 DEF IsPeer, HasDevice, Updating
  <2>3. \A j \in Ids : (IsPeer(j) <=> j = i) /\ (Updating(j) <=> j = i)
    BY <2>1, IsPeerUnique DEF Updating
  <2>4. ListStored'
    BY <2>1, <2>2, <2>3 DEF ListStored, ListReady
  <2>5. CountMatches'
    BY <2>1, <2>2, <2>3 DEF CountMatches
  <2>6. ASSUME NEW r \in Readers \ disturbed' PROVE Consistent(r)'
    <3>1. reader[r].id \in Ids /\ Consistent(r) /\ reader'[r] = reader[r]
      BY <2>1, <2>6 DEF readerVars
    <3>2. QED
      BY <2>1, <2>2, <2>3, <3>1 DEF Consistent
  <2>7. QED
    BY <2>4, <2>5, <2>6
<1>7. ASSUME NEW i \in Ids, StoreCount(i) PROVE Rest'
  <2>1. /\ thread = "length" /\ thread' = "receive" /\ IsPeer(i)
        /\ interface_count' = [interface_count EXCEPT ![i] = Cardinality(buffer.ids)]
        /\ UNCHANGED <<addr, interfaces, peer_count, heap, readerVars>>
    BY <1>7 DEF StoreCount
  <2>2. \A j \in Ids : HasDevice(j)' = HasDevice(j) /\ ~Updating(j)'
    BY <2>1 DEF HasDevice, Updating
  <2>3. \A j \in Ids : Updating(j) <=> j = i
    BY <2>1, IsPeerUnique DEF Updating
  <2>4. ListStored'
    BY <2>1 DEF ListStored
  <2>5. CountMatches'
    BY <2>1, <2>2, <2>3 DEF CountMatches, ListStored
  <2>6. ASSUME NEW r \in Readers \ disturbed' PROVE Consistent(r)'
    <3>1. reader[r].id \in Ids /\ Consistent(r) /\ reader'[r] = reader[r]
      BY <2>1, <2>6 DEF readerVars
    <3>2. QED
      BY <2>1, <2>2, <2>3, <3>1 DEF Consistent
  <2>7. QED
    BY <2>4, <2>5, <2>6
<1>8. CASE \/ \E h \in Hosts : Change(h) \/ Broadcast(h)
           \/ UNCHANGED vars
  <2>1. UNCHANGED <<threadVars, peerVars, heap, readerVars>>
    BY <1>8 DEF Change, Broadcast, vars
  <2>2. \A j \in Ids : HasDevice(j)' = HasDevice(j) /\ Updating(j)' = Updating(j)
    BY <2>1 DEF HasDevice, Updating, IsPeer
  <2>3. ListStored' /\ CountMatches'
    BY <2>1, <2>2 DEF ListStored, CountMatches, IsPeer
  <2>4. ASSUME NEW r \in Readers \ disturbed' PROVE Consistent(r)'
    <3>1. reader[r].id \in Ids /\ Consistent(r) /\ reader'[r] = reader[r]
      BY <2>1, <2>4 DEF readerVars
    <3>2. QED
      BY <2>1, <2>2, <3>1 DEF Consistent
  <2>5. QED
    BY <1>1, <2>3, <2>4
<1>9. ASSUME NEW r \in Readers,
             \/ \E i \in Ids : Open(r, i)
             \/ LoadList(r) \/ LoadCount(r) \/ Scan(r) \/ Use(r)
      PROVE  Rest'
  <2>1. UNCHANGED <<threadVars, peerVars, heap>>
    BY <1>9, OthersLeaveTable
  <2>2. ListStored' /\ CountMatches'
    BY <2>1 DEF ListStored, CountMatches, Updating, IsPeer
  <2>3. QED
    BY <1>1, <1>9, <2>2, ReaderConsistent
<1>10. Rest'
  BY <1>2, <1>3, <1>4, <1>5, <1>6, <1>7, <1>8, <1>9, NextCases
<1>11. QED
  BY <1>1, <1>10

(***************************************************************************)
(* A read of a peer goes wrong only when that peer is updated meanwhile or *)
(* its first list was dropped; what it finds belongs to the peer.          *)
(***************************************************************************)
THEOREM ReadsAreOfThePeerHolds == Spec => []ReadsAreOfThePeer
<1>1. ReadInv => ReadsAreOfThePeer
  <2> SUFFICES ASSUME ReadInv, NEW r \in Readers \ disturbed
               PROVE  /\ At(r, "oops") => reader[r].list = NULL
                      /\ At(r, "found") =>
                           Mapped(r) /\ heap[reader[r].list].from = addr[reader[r].id]
    BY DEF ReadsAreOfThePeer
  <2>1. Consistent(r) /\ reader[r].id \in Ids
    BY DEF ReadInv, ListInv, TableInv, TypeOK
  <2>2. QED
    BY <2>1, EntryList DEF Consistent, At, Mapped
<1>2. QED
  BY <1>1, ReadInvInit, ReadInvNext, PTL DEF Spec

-----------------------------------------------------------------------------
(* The abstract table.                                                     *)

\* Where f takes every value once, CHOOSE finds where.
LEMMA ChooseEntry ==
  ASSUME NEW n \in Nat, NEW f, \A i, j \in 0 .. n - 1 : f[i] = f[j] => i = j,
         NEW k \in 0 .. n - 1
  PROVE  (CHOOSE i \in 0 .. n - 1 : f[i] = f[k]) = k
OBVIOUS

Addresses == {addr[i] : i \in 0 .. peer_count - 1}
Table == [a \in Addresses |-> ListOf(EntryOf(a))]

\* The array has at most as many addresses as entries.
LEMMA AddressesBound ==
  ASSUME peer_count \in Nat
  PROVE  Cardinality(Addresses) \in Nat /\ Cardinality(Addresses) <= peer_count
<1> DEFINE g == [k \in 1 .. peer_count |-> addr[k - 1]]
<1>1. g \in Surjection(1 .. peer_count, Addresses)
  <2>1. g \in [1 .. peer_count -> Addresses]
    BY DEF Addresses
  <2>2. ASSUME NEW a \in Addresses PROVE \E k \in 1 .. peer_count : g[k] = a
    <3>1. PICK i \in 0 .. peer_count - 1 : a = addr[i]
      BY DEF Addresses
    <3>2. i + 1 \in 1 .. peer_count /\ g[i + 1] = a
      BY <3>1
    <3>3. QED
      BY <3>2
  <2>3. QED
    BY <2>1, <2>2 DEF Surjection
<1>2. IsFiniteSet(1 .. peer_count)
  BY FS_Interval
<1>3. IsFiniteSet(Addresses)
  BY <1>1, <1>2, FS_Surjection
<1>4. Cardinality(Addresses) <= peer_count
  BY <1>1, FS_SurjCardinalityBound DEF ExistsSurjection
<1>5. QED
  BY <1>3, <1>4, FS_CardinalityType

\* add_peer counts only what it has unserialized.
CountAccepted == thread = "count" => Accepted

TableRefInv == ReadInv /\ CountAccepted

LEMMA TableRefInvariant == Spec => []TableRefInv
<1>1. Init => CountAccepted
  BY DEF Init, CountAccepted
<1>2. CountAccepted /\ [Next]_vars => CountAccepted'
  <2> SUFFICES ASSUME CountAccepted, [Next]_vars PROVE CountAccepted'
    OBVIOUS
  <2> USE DEF CountAccepted, Accepted, threadVars
  <2>1. CASE \/ \E p \in network : Receive(p)
             \/ ReceiveFails \/ Ignore \/ AddPeer \/ CountPeer
             \/ \E i \in Ids : FreeList(i) \/ StoreList(i) \/ StoreCount(i)
    BY <2>1 DEF Receive, ReceiveFails, Ignore, AddPeer, CountPeer, FreeList, StoreList,
                StoreCount
  <2>2. CASE UNCHANGED <<threadVars, peerVars, heap>>
    BY <2>2
  <2>3. QED
    BY <2>1, <2>2, NextCases, OthersLeaveTable
<1>3. QED
  BY <1>1, <1>2, ReadInvInit, ReadInvNext, PTL DEF Spec, TableRefInv

\* The table, entry by entry.
LEMMA TableEntries ==
  ASSUME TableInv
  PROVE  \A i \in 0 .. peer_count - 1 : EntryOf(addr[i]) = i /\ Table[addr[i]] = ListOf(i)
<1>1. peer_count \in Nat
  BY PeersAssumption DEF PeersAssumption, TableInv, TypeOK
<1>2. ASSUME NEW i \in 0 .. peer_count - 1 PROVE EntryOf(addr[i]) = i
  BY <1>1, ChooseEntry DEF EntryOf, TableInv, OnePeerPerAddress
<1>3. QED
  BY <1>2 DEF Table, Addresses

LEMMA TableEntriesNext ==
  ASSUME TableInv'
  PROVE  \A i \in 0 .. peer_count' - 1 :
           EntryOf(addr[i])' = i /\ Table'[addr'[i]] = ListOf(i)'
<1>1. peer_count' \in Nat
  BY PeersAssumption DEF PeersAssumption, TableInv, TypeOK
<1>2. ASSUME NEW i \in 0 .. peer_count' - 1 PROVE EntryOf(addr[i])' = i
  BY <1>1, ChooseEntry DEF EntryOf, TableInv, OnePeerPerAddress
<1>3. QED
  BY <1>2 DEF Table, Addresses

\* A step that keeps every counted entry keeps the table.
LEMMA TableStays ==
  ASSUME TableInv, TableInv', peer_count' = peer_count,
         \A i \in 0 .. peer_count - 1 : addr'[i] = addr[i] /\ ListOf(i)' = ListOf(i)
  PROVE  Table' = Table
<1>1. Addresses' = Addresses
  BY DEF Addresses
<1>2. ASSUME NEW a \in Addresses PROVE Table'[a] = Table[a]
  <2>1. PICK i \in 0 .. peer_count - 1 : a = addr[i]
    BY DEF Addresses
  <2>2. Table[a] = ListOf(i)
    BY <2>1, TableEntries
  <2>3. Table'[a] = ListOf(i)'
    BY <2>1, TableEntriesNext
  <2>4. QED
    BY <2>1, <2>2, <2>3
<1>3. QED
  BY <1>1, <1>2 DEF Table

LEMMA InitRefines == Init => PT!Init
<1> SUFFICES ASSUME Init PROVE PT!Init
  OBVIOUS
<1>1. 0 .. peer_count - 1 = {} /\ network \cup {buffer} = {[from |-> NoAddr, ids |-> {}]}
  BY DEF Init
<1>2. Table = [h \in {} |-> NULL]
  BY <1>1 DEF Table, Addresses
<1>3. registry = [h \in Hosts |-> {}]
  BY DEF Init
<1>4. QED
  BY <1>1, <1>2, <1>3 DEF PT!Init, Table, Addresses

\* The steps outside the table.
LEMMA OfferSteps ==
  ASSUME TableRefInv, TableInv',
         \/ \E h \in Hosts : Change(h) \/ Broadcast(h)
         \/ \E p \in network : Receive(p)
  PROVE  [PT!Next]_(PT!vars)
<1> USE PeersAssumption
    DEF PeersAssumption, TableRefInv, ReadInv, ListInv, TableInv, TypeOK, threadVars, peerVars,
        hostVars
<1>1. Table' = Table
  <2>1. CASE \E h \in Hosts : Change(h) \/ Broadcast(h)
    <3>1. UNCHANGED <<threadVars, peerVars, heap>>
      BY <2>1, OthersLeaveTable
    <3>2. \A i \in 0 .. peer_count - 1 : ListOf(i)' = ListOf(i)
      BY <3>1 DEF ListOf, IsPeer
    <3>3. QED
      BY <3>1, <3>2, TableStays
  <2>2. CASE \E p \in network : Receive(p)
    <3>1. /\ thread = "receive" /\ thread' = "lookup"
          /\ UNCHANGED <<peerVars, heap>>
      BY <2>2 DEF Receive
    <3>2. \A i \in 0 .. peer_count - 1 : ListOf(i)' = ListOf(i)
      BY <3>1 DEF ListOf
    <3>3. QED
      BY <3>1, <3>2, TableStays
  <2>3. QED
    BY <2>1, <2>2
<1>2. ASSUME NEW h \in Hosts, Change(h) PROVE PT!Change(h)
  <2>1. /\ \E ids \in SUBSET Interfaces : registry' = [registry EXCEPT ![h] = ids]
        /\ UNCHANGED <<network, buffer>>
    BY <1>2 DEF Change
  <2>2. QED
    BY <1>1, <2>1 DEF PT!Change, Table, Addresses
<1>3. ASSUME NEW h \in Hosts, Broadcast(h) PROVE PT!Announce(h)
  <2>1. network' = network \cup {[from |-> h, ids |-> registry[h]]} /\ UNCHANGED <<registry, buffer>>
    BY <1>3 DEF Broadcast, Announcement
  <2>2. QED
    BY <1>1, <2>1 DEF PT!Announce, Table, Addresses
<1>4. ASSUME NEW p \in network, Receive(p)
      PROVE  PT!Lose(buffer) \/ UNCHANGED PT!vars
  <2>1. /\ network' = network \/ network' = network \ {p}
        /\ buffer' = p /\ registry' = registry
    BY <1>4 DEF Receive
  <2>2. \/ network' \cup {buffer'} = (network \cup {buffer}) \ {buffer}
        \/ network' \cup {buffer'} = network \cup {buffer}
    BY <2>1
  <2>3. QED
    BY <1>1, <2>1, <2>2 DEF PT!Lose, PT!vars, Table, Addresses
<1>5. QED
  BY <1>2, <1>3, <1>4 DEF PT!Next

\* The steps of the thread that change nothing a reader of the table can see.
LEMMA StutteringSteps ==
  ASSUME TableRefInv, TableInv',
         \/ ReceiveFails \/ Ignore \/ AddPeer
         \/ \E i \in Ids : StoreList(i) \/ StoreCount(i)
         \/ UNCHANGED <<hostVars, network, threadVars, peerVars, heap>>
  PROVE  UNCHANGED PT!vars
<1> USE PeersAssumption
    DEF PeersAssumption, TableRefInv, ReadInv, ListInv, TableInv, TypeOK, threadVars, peerVars,
        hostVars, Ids
<1>1. UNCHANGED <<registry, network, buffer, peer_count, heap>>
  BY DEF ReceiveFails, Ignore, AddPeer, StoreList, StoreCount
<1>2. CASE \/ ReceiveFails \/ Ignore \/ AddPeer \/ \E i \in Ids : StoreCount(i)
  <2>1. /\ thread # "list" /\ thread' # "list"
        /\ \A i \in 0 .. peer_count - 1 : addr'[i] = addr[i] /\ interfaces'[i] = interfaces[i]
    <3>1. \A i \in 0 .. peer_count - 1 : i \in Ids /\ i # peer_count
      OBVIOUS
    <3>2. CASE AddPeer
      BY <3>1, <3>2 DEF AddPeer
    <3>3. CASE ReceiveFails \/ Ignore \/ \E i \in Ids : StoreCount(i)
      BY <3>3 DEF ReceiveFails, Ignore, StoreCount
    <3>4. QED
      BY <1>2, <3>2, <3>3
  <2>2. \A i \in 0 .. peer_count - 1 : ListOf(i)' = ListOf(i)
    BY <1>1, <2>1 DEF ListOf
  <2>3. Table' = Table
    BY <1>1, <2>1, <2>2, TableStays
  <2>4. QED
    BY <1>1, <2>3 DEF PT!vars, Table, Addresses
<1>3. ASSUME NEW i \in Ids, StoreList(i) PROVE UNCHANGED PT!vars
  <2>1. /\ thread = "list" /\ thread' = "length" /\ IsPeer(i)
        /\ interfaces' = [interfaces EXCEPT ![i] = list]
        /\ UNCHANGED <<from_addr, addr>>
    BY <1>3 DEF StoreList
  <2>2. list \in Lists /\ heap[list] = buffer /\ list # NULL
    BY <2>1 DEF ListReady
  <2>3. ASSUME NEW j \in 0 .. peer_count - 1 PROVE ListOf(j)' = ListOf(j)
    <3>1. CASE j = i
      <4>1. ListOf(j) = buffer.ids
        BY <2>1, <3>1 DEF ListOf
      <4>2. ListOf(j)' = heap[list].ids
        BY <1>1, <2>1, <2>2, <3>1 DEF ListOf
      <4>3. QED
        BY <2>2, <4>1, <4>2
    <3>2. CASE j # i
      <4>0. j \in Ids
        OBVIOUS
      <4>1. ~IsPeer(j) /\ interfaces'[j] = interfaces[j]
        BY <2>1, <3>2, <4>0, IsPeerUnique
      <4>2. QED
        BY <1>1, <2>1, <4>1 DEF ListOf
    <3>3. QED
      BY <3>1, <3>2
  <2>4. Table' = Table
    BY <1>1, <2>1, <2>3, TableStays
  <2>5. QED
    BY <1>1, <2>4 DEF PT!vars, Table, Addresses
<1>4. CASE UNCHANGED <<hostVars, network, threadVars, peerVars, heap>>
  <2>1. \A i \in 0 .. peer_count - 1 : ListOf(i)' = ListOf(i)
    BY <1>4 DEF ListOf, IsPeer
  <2>2. Table' = Table
    BY <1>4, <2>1, TableStays
  <2>3. QED
    BY <1>1, <2>2 DEF PT!vars, Table, Addresses
<1>5. QED
  BY <1>2, <1>3, <1>4

\* The two modules count alike.
LEMMA SameCardinality ==
  ASSUME NEW S
  PROVE  PT!Cardinality(S) = Cardinality(S)
BY DEF PT!Cardinality, Cardinality

\* What the abstract steps are in terms of Table.
LEMMA AbstractAdd ==
  ASSUME Cardinality(buffer.ids) <= MAX_INTERFACES, buffer.from \notin DOMAIN Table,
         Cardinality(DOMAIN Table) < MAX_PEERS,
         Table' = [a \in DOMAIN Table \cup {buffer.from} |->
                     IF a = buffer.from THEN NULL ELSE Table[a]],
         UNCHANGED <<registry, network, buffer>>
  PROVE  PT!Next
<1>1. PICK p \in network \cup {buffer} : p = buffer
  OBVIOUS
<1>2. PT!Add(p)
  BY <1>1, SameCardinality DEF PT!Add, PT!Acceptable, Table, Addresses
<1>3. QED
  BY <1>2 DEF PT!Next

LEMMA AbstractUpdate ==
  ASSUME Cardinality(buffer.ids) <= MAX_INTERFACES, buffer.from \in DOMAIN Table,
         Table' = [Table EXCEPT ![buffer.from] = buffer.ids],
         UNCHANGED <<registry, network, buffer>>
  PROVE  PT!Next
<1>1. PICK p \in network \cup {buffer} : p = buffer
  OBVIOUS
<1>2. PT!Update(p)
  BY <1>1, SameCardinality DEF PT!Update, PT!Acceptable, Table, Addresses
<1>3. QED
  BY <1>2 DEF PT!Next

LEMMA AddRefines ==
  ASSUME TableRefInv, TableInv', CountPeer
  PROVE  PT!Next
<1> USE PeersAssumption
    DEF PeersAssumption, TableRefInv, ReadInv, ListInv, TableInv, TypeOK, threadVars, peerVars,
        hostVars, Ids
<1>1. /\ thread = "count" /\ thread' = "receive" /\ peer_count' = peer_count + 1
      /\ UNCHANGED <<registry, network, buffer, addr, interfaces, heap>>
  BY DEF CountPeer
<1>2. peer_count < MAX_PEERS /\ addr[peer_count] = buffer.from /\ buffer.from \notin Addresses
  BY <1>1 DEF Counting, BufferFromAddr, IsNew, Addresses
<1>3. Cardinality(buffer.ids) <= MAX_INTERFACES
  BY <1>1 DEF CountAccepted, Accepted
<1>4. Cardinality(Addresses) < MAX_PEERS
  <2>1. Cardinality(Addresses) \in Nat /\ Cardinality(Addresses) <= peer_count
    <3>1. peer_count \in Nat
      OBVIOUS
    <3>2. QED
      BY <3>1, AddressesBound
  <2>2. QED
    BY <1>2, <2>1
<1>5. Addresses' = Addresses \cup {buffer.from}
  <2>1. 0 .. peer_count' - 1 = (0 .. peer_count - 1) \cup {peer_count}
    BY <1>1
  <2>2. Addresses' = {addr[i] : i \in 0 .. peer_count' - 1}
    BY <1>1 DEF Addresses
  <2>3. \A a : a \in Addresses' <=> a \in Addresses \/ a = addr[peer_count]
    BY <2>1, <2>2 DEF Addresses
  <2>4. QED
    BY <1>2, <2>3
<1>6. ASSUME NEW i \in 0 .. peer_count - 1 PROVE Table'[addr[i]] = Table[addr[i]]
  <2>1. Table[addr[i]] = ListOf(i)
    BY TableEntries
  <2>2. i \in 0 .. peer_count' - 1
    BY <1>1
  <2>3. Table'[addr[i]] = ListOf(i)'
    BY <1>1, <2>2, TableEntriesNext
  <2>4. ListOf(i)' = ListOf(i)
    BY <1>1 DEF ListOf
  <2>5. QED
    BY <2>1, <2>3, <2>4
<1>7. Table'[buffer.from] = NULL
  <2>1. PICK n \in Ids : n = peer_count
    BY <1>2
  <2>2. n \in 0 .. peer_count' - 1 /\ addr'[n] = buffer.from
    BY <1>1, <1>2, <2>1
  <2>3. Table'[buffer.from] = ListOf(n)'
    BY <2>2, TableEntriesNext
  <2>4. interfaces'[n] = NULL
    BY <1>1, <2>1 DEF NoListYet
  <2>5. QED
    BY <1>1, <2>3, <2>4 DEF ListOf
<1>8. Table' = [a \in Addresses \cup {buffer.from} |->
                  IF a = buffer.from THEN NULL ELSE Table[a]]
  <2>1. ASSUME NEW a \in Addresses PROVE Table'[a] = Table[a]
    BY <1>6 DEF Addresses
  <2>2. QED
    BY <1>2, <1>5, <1>7, <2>1 DEF Table
<1>9. DOMAIN Table = Addresses
  BY DEF Table
<1>10. UNCHANGED <<registry, network, buffer>>
  BY <1>1
<1>11. QED
  BY <1>2, <1>3, <1>4, <1>8, <1>9, <1>10, AbstractAdd

LEMMA UpdateRefines ==
  ASSUME TableRefInv, TableInv', NEW i \in Ids, FreeList(i)
  PROVE  PT!Next
<1> USE PeersAssumption
    DEF PeersAssumption, TableRefInv, ReadInv, ListInv, TableInv, TypeOK, threadVars, peerVars,
        hostVars, Ids
<1> DEFINE l == list'
<1>1. /\ thread = "lookup" /\ thread' = "list" /\ IsPeer(i) /\ Accepted
      /\ l \in Lists /\ heap[l] = NULL
      /\ heap' = [m \in Lists |-> IF m = l THEN buffer
                                  ELSE IF m = interfaces[i] THEN NULL ELSE heap[m]]
      /\ UNCHANGED <<registry, network, buffer, from_addr, addr, interfaces, peer_count>>
  BY DEF FreeList
<1>2. i \in 0 .. peer_count - 1 /\ addr[i] = buffer.from
  BY <1>1 DEF IsPeer, BufferFromAddr
<1>3. Addresses' = Addresses /\ buffer.from \in Addresses
  BY <1>1, <1>2 DEF Addresses
<1>4. ListOf(i)' = buffer.ids
  BY <1>1 DEF ListOf, IsPeer
<1>5. ASSUME NEW j \in 0 .. peer_count - 1, j # i PROVE ListOf(j)' = ListOf(j)
  <2>1. ~IsPeer(j)' /\ ~IsPeer(j)
    BY <1>1, <1>5, IsPeerUnique DEF IsPeer
  <2>2. ASSUME interfaces[j] # NULL PROVE heap'[interfaces[j]] = heap[interfaces[j]]
    <3>1. heap[interfaces[j]] # NULL /\ interfaces[i] # interfaces[j]
      BY <1>1, <1>2, <1>5, <2>2 DEF ListFromPeer
    <3>2. QED
      BY <1>1, <2>2, <3>1
  <2>3. QED
    BY <1>1, <2>1, <2>2 DEF ListOf
<1>6. ASSUME NEW a \in Addresses
      PROVE  Table'[a] = IF a = buffer.from THEN buffer.ids ELSE Table[a]
  <2>1. PICK j \in 0 .. peer_count - 1 : a = addr[j]
    BY DEF Addresses
  <2>2. Table[a] = ListOf(j) /\ Table'[a] = ListOf(j)'
    BY <1>1, <2>1, TableEntries, TableEntriesNext
  <2>3. a = buffer.from <=> j = i
    BY <1>2, <2>1 DEF OnePeerPerAddress
  <2>4. QED
    BY <1>4, <1>5, <2>2, <2>3
<1>7. Table' = [Table EXCEPT ![buffer.from] = buffer.ids]
  BY <1>3, <1>6 DEF Table
<1>8. DOMAIN Table = Addresses
  BY DEF Table
<1>9. UNCHANGED <<registry, network, buffer>>
  BY <1>1
<1>10. QED
  BY <1>1, <1>3, <1>7, <1>8, <1>9, AbstractUpdate DEF Accepted

(***************************************************************************)
(* The array, its blocks and the steps of its updates are a bounded table  *)
(* whose entries are replaced as a whole by announcements of their hosts.  *)
(***************************************************************************)
THEOREM ImplementsPeerTableHolds == Spec => ImplementsPeerTable
<1>1. TableRefInv /\ TableInv' /\ [Next]_vars => [PT!Next]_(PT!vars)
  <2> SUFFICES ASSUME TableRefInv, TableInv', [Next]_vars PROVE [PT!Next]_(PT!vars)
    OBVIOUS
  <2>1. CASE CountPeer
    BY <2>1, AddRefines
  <2>2. ASSUME NEW i \in Ids, FreeList(i) PROVE [PT!Next]_(PT!vars)
    BY <2>2, UpdateRefines
  <2>3. CASE \/ \E h \in Hosts : Change(h) \/ Broadcast(h)
             \/ \E p \in network : Receive(p)
    BY <2>3, OfferSteps
  <2>4. CASE \/ ReceiveFails \/ Ignore \/ AddPeer
             \/ \E i \in Ids : StoreList(i) \/ StoreCount(i)
    BY <2>4, StutteringSteps
  <2>5. CASE \/ \E r \in Readers :
                  \/ \E i \in Ids : Open(r, i)
                  \/ LoadList(r) \/ LoadCount(r) \/ Scan(r) \/ Use(r)
             \/ UNCHANGED vars
    <3>1. UNCHANGED <<hostVars, network, threadVars, peerVars, heap>>
      BY <2>5 DEF Open, LoadList, LoadCount, Scan, Use, Move, Return, vars
    <3>2. QED
      BY <3>1, StutteringSteps
  <2>6. QED
    BY <2>1, <2>2, <2>3, <2>4, <2>5, NextCases
<1>2. TableRefInv => TableInv
  BY DEF TableRefInv, ReadInv, ListInv
<1>3. QED
  BY <1>1, <1>2, InitRefines, TableRefInvariant, PTL DEF Spec, ImplementsPeerTable, PT!Spec

=============================================================================
