--------------------------- MODULE RegistryProofs ---------------------------
(***************************************************************************)
(* Proofs about Registry, for every set of pids, GRADIENT and number of    *)
(* registrations.  The order of the array (Ordered) carries the argument:  *)
(* remove_interface overwrites everything from the first occurrence of the *)
(* removed id with the pointer before it, which by Ordered is an older     *)
(* interface, so the freed pointer survives in no slot.                    *)
(***************************************************************************)
EXTENDS Registry, TLAPS

LEMMA InitTypeOK == Init => TypeOK
<1> SUFFICES ASSUME Init PROVE TypeOK
  OBVIOUS
<1> USE RegistryAssumption DEF RegistryAssumption, Init, Ids, Wild, NoEntry
<1>1. INTERFACE_LIST \in Seq(Ids \cup {Wild})
  OBVIOUS
<1>2. bind_pid \in [Ids -> Pids]
  <2>1. (CHOOSE p \in Pids : TRUE) \in Pids
    OBVIOUS
  <2>2. QED
    BY <2>1
<1>3. ALLOCATED_ID \in 1 .. MaxRegistrations + 1 /\ INTERFACE_CAPACITY \in Nat
  OBVIOUS
<1>4. proc_entry \in [Ids -> Ids \cup {NoEntry}]
  OBVIOUS
<1>5. /\ live \in SUBSET (1 .. ALLOCATED_ID - 1)
      /\ procfs \in SUBSET (1 .. ALLOCATED_ID - 1)
      /\ oops \in BOOLEAN
  OBVIOUS
<1>6. QED
  BY <1>1, <1>2, <1>3, <1>4, <1>5 DEF TypeOK

LEMMA RegisterTypeOK ==
  ASSUME TypeOK, NEW p \in Pids, register_interface(p)
  PROVE  TypeOK'
<1> USE RegistryAssumption DEF RegistryAssumption, TypeOK, Ids, Wild, NoEntry
<1> DEFINE id == ALLOCATED_ID
<1>1. /\ id \in Ids /\ ALLOCATED_ID' = id + 1
      /\ live' = live \cup {id}
      /\ bind_pid' = [bind_pid EXCEPT ![id] = p]
      /\ INTERFACE_LIST' = Append(INTERFACE_LIST, id)
      /\ INTERFACE_CAPACITY' = GrownCapacity
      /\ UNCHANGED oops
      /\ add_interface_to_proc(id, p)
  BY DEF register_interface, NewId
<1>2. \E e \in Ids \cup {NoEntry} : proc_entry' = [proc_entry EXCEPT ![id] = e]
  <2>1. CASE \E k \in 1 .. INTERFACE_COUNT :
               /\ IsFirstSlot(k, BoundTo(p))
               /\ proc_entry' = [proc_entry EXCEPT ![id] = proc_entry[INTERFACE_LIST[k]]]
    <3>1. PICK k \in 1 .. INTERFACE_COUNT :
            /\ IsFirstSlot(k, BoundTo(p))
            /\ proc_entry' = [proc_entry EXCEPT ![id] = proc_entry[INTERFACE_LIST[k]]]
      BY <2>1
    <3>2. INTERFACE_LIST[k] \in Ids
      BY <3>1 DEF IsFirstSlot, BoundTo
    <3>3. proc_entry[INTERFACE_LIST[k]] \in Ids \cup {NoEntry}
      BY <3>2
    <3>4. QED
      BY <3>1, <3>3
  <2>2. CASE \/ proc_entry' = [proc_entry EXCEPT ![id] = id]
             \/ proc_entry' = [proc_entry EXCEPT ![id] = NoEntry]
    BY <1>1, <2>2
  <2>3. QED
    BY <1>1, <2>1, <2>2 DEF add_interface_to_proc
<1>3. procfs' \subseteq procfs \cup {id}
  BY <1>1 DEF add_interface_to_proc
<1>4. 1 .. id - 1 \subseteq 1 .. ALLOCATED_ID' - 1 /\ id \in 1 .. ALLOCATED_ID' - 1
  BY <1>1
<1>5. live' \in SUBSET (1 .. ALLOCATED_ID' - 1) /\ procfs' \in SUBSET (1 .. ALLOCATED_ID' - 1)
  BY <1>1, <1>3, <1>4
<1>6. proc_entry' \in [Ids -> Ids \cup {NoEntry}] /\ bind_pid' \in [Ids -> Pids]
  BY <1>1, <1>2
<1>7. INTERFACE_LIST' \in Seq(Ids \cup {Wild}) /\ INTERFACE_CAPACITY' \in Nat
  BY <1>1 DEF GrownCapacity
<1>8. QED
  BY <1>1, <1>5, <1>6, <1>7

LEMMA RemoveTypeOK ==
  ASSUME TypeOK, NEW id \in Ids, remove_interface(id)
  PROVE  TypeOK'
BY DEF TypeOK, remove_interface, IsFirstSlot, ShiftedList, BeforeSlot, INTERFACE_COUNT, Ids, Wild

LEMMA NextTypeOK == TypeOK /\ [Next]_vars => TypeOK'
<1> SUFFICES ASSUME TypeOK, [Next]_vars PROVE TypeOK'
  OBVIOUS
<1>1. CASE RegisterOutOfMemory
  BY <1>1 DEF RegisterOutOfMemory, TypeOK
<1>2. CASE WildRead
  BY <1>2 DEF WildRead, TypeOK
<1>3. CASE UNCHANGED vars
  BY <1>3 DEF vars, TypeOK
<1>4. QED
  BY <1>1, <1>2, <1>3, RegisterTypeOK, RemoveTypeOK DEF Next

(***************************************************************************)
(* Type correctness of the registry under every sequence of ioctls.        *)
(***************************************************************************)
THEOREM TypeInvariant == Spec => []TypeOK
BY InitTypeOK, NextTypeOK, PTL DEF Spec

-----------------------------------------------------------------------------
\* The slots are in the order of registration, wild ones first.
Ordered ==
  \A i, j \in 1 .. INTERFACE_COUNT :
    i <= j => INTERFACE_LIST[i] <= INTERFACE_LIST[j]

IInv ==
  /\ TypeOK
  /\ Ordered
  /\ FreedNeverListed
  /\ WithinCapacity
  /\ ProcEntriesByPid

LEMMA ListedUnchanged == INTERFACE_LIST' = INTERFACE_LIST => Listed' = Listed
BY DEF Listed, INTERFACE_COUNT

\* What Append does to the slots.
LEMMA RegisterSlots ==
  ASSUME TypeOK, NEW p \in Pids, register_interface(p)
  PROVE  /\ INTERFACE_COUNT \in Nat /\ INTERFACE_COUNT' = INTERFACE_COUNT + 1
         /\ \A i \in 1 .. INTERFACE_COUNT : INTERFACE_LIST'[i] = INTERFACE_LIST[i]
         /\ INTERFACE_LIST'[INTERFACE_COUNT + 1] = ALLOCATED_ID
         /\ Listed' = Listed \cup {ALLOCATED_ID}
<1> USE RegistryAssumption DEF RegistryAssumption, TypeOK, Ids, Wild
<1>1. /\ INTERFACE_LIST' = Append(INTERFACE_LIST, ALLOCATED_ID)
      /\ ALLOCATED_ID \in Ids
  BY DEF register_interface, NewId
<1>2. /\ INTERFACE_COUNT \in Nat /\ INTERFACE_COUNT' = INTERFACE_COUNT + 1
      /\ \A i \in 1 .. INTERFACE_COUNT : INTERFACE_LIST'[i] = INTERFACE_LIST[i]
      /\ INTERFACE_LIST'[INTERFACE_COUNT + 1] = ALLOCATED_ID
  BY <1>1 DEF INTERFACE_COUNT
<1>3. 1 .. INTERFACE_COUNT' = (1 .. INTERFACE_COUNT) \cup {INTERFACE_COUNT + 1}
  BY <1>2
<1>4. Listed' = Listed \cup {ALLOCATED_ID}
  <2>1. Listed' \subseteq Listed \cup {ALLOCATED_ID}
    <3> SUFFICES ASSUME NEW i \in 1 .. INTERFACE_COUNT', INTERFACE_LIST'[i] # Wild
                 PROVE  INTERFACE_LIST'[i] \in Listed \cup {ALLOCATED_ID}
      BY DEF Listed
    <3>1. CASE i \in 1 .. INTERFACE_COUNT
      BY <1>2, <3>1 DEF Listed
    <3>2. CASE i = INTERFACE_COUNT + 1
      BY <1>2, <3>2
    <3>3. QED
      BY <1>3, <3>1, <3>2
  <2>2. Listed \subseteq Listed'
    <3> SUFFICES ASSUME NEW i \in 1 .. INTERFACE_COUNT, INTERFACE_LIST[i] # Wild
                 PROVE  INTERFACE_LIST[i] \in Listed'
      BY DEF Listed
    <3>1. i \in 1 .. INTERFACE_COUNT' /\ INTERFACE_LIST'[i] = INTERFACE_LIST[i]
      BY <1>2, <1>3
    <3>2. QED
      BY <3>1 DEF Listed
  <2>3. ALLOCATED_ID \in Listed'
    <3>1. INTERFACE_COUNT + 1 \in 1 .. INTERFACE_COUNT' /\ ALLOCATED_ID # Wild
      BY <1>1, <1>3
    <3>2. QED
      BY <1>2, <3>1 DEF Listed
  <2>4. QED
    BY <2>1, <2>2, <2>3
<1>5. QED
  BY <1>2, <1>4

(***************************************************************************)
(* The effect of the shift: in an ordered array exactly the older          *)
(* interfaces survive.                                                     *)
(***************************************************************************)
LEMMA RemoveSlots ==
  ASSUME TypeOK, Ordered, NEW id \in Ids, remove_interface(id)
  PROVE  /\ Ordered'
         /\ Listed' = {x \in Listed : x < id}
         /\ INTERFACE_COUNT \in Nat \ {0} /\ INTERFACE_COUNT' = INTERFACE_COUNT - 1
<1> USE DEF TypeOK, Ids, Wild
<1>1. PICK k \in 1 .. INTERFACE_COUNT :
        IsFirstSlot(k, {id}) /\ INTERFACE_LIST' = ShiftedList(k)
  BY DEF remove_interface
<1> DEFINE n == INTERFACE_COUNT
<1>2. n \in Nat \ {0} /\ k \in 1 .. n
  BY <1>1 DEF INTERFACE_COUNT
<1>3. \A i \in 1 .. n : INTERFACE_LIST[i] \in Nat
  BY DEF INTERFACE_COUNT
<1>4. \A i \in 1 .. n : (i < k => INTERFACE_LIST[i] < id) /\ (k <= i => id <= INTERFACE_LIST[i])
  BY <1>1, <1>2, <1>3 DEF IsFirstSlot, Ordered
<1>5. BeforeSlot(k) \in Nat /\ BeforeSlot(k) < id
  BY <1>2, <1>3, <1>4 DEF BeforeSlot
<1>6. \A i \in 1 .. k - 1 : INTERFACE_LIST[i] <= BeforeSlot(k)
  BY <1>2, <1>3 DEF BeforeSlot, Ordered
<1>7. /\ INTERFACE_COUNT' = n - 1
      /\ \A i \in 1 .. n - 1 : INTERFACE_LIST'[i] = IF i < k THEN INTERFACE_LIST[i] ELSE BeforeSlot(k)
  BY <1>1, <1>2 DEF ShiftedList, INTERFACE_COUNT
<1>8. Ordered'
  <2> SUFFICES ASSUME NEW i \in 1 .. n - 1, NEW j \in 1 .. n - 1, i <= j
               PROVE  INTERFACE_LIST'[i] <= INTERFACE_LIST'[j]
    BY <1>7 DEF Ordered
  <2>1. CASE j < k
    BY <1>2, <1>7, <2>1 DEF Ordered
  <2>2. CASE i < k /\ k <= j
    BY <1>2, <1>6, <1>7, <2>2
  <2>3. CASE k <= i
    BY <1>2, <1>5, <1>7, <2>3
  <2>4. QED
    BY <1>2, <2>1, <2>2, <2>3
<1>9. Listed' \subseteq {x \in Listed : x < id}
  <2> SUFFICES ASSUME NEW i \in 1 .. n - 1, INTERFACE_LIST'[i] # Wild
               PROVE  INTERFACE_LIST'[i] \in Listed /\ INTERFACE_LIST'[i] < id
    BY <1>7 DEF Listed
  <2>1. CASE i < k
    BY <1>2, <1>4, <1>7, <2>1 DEF Listed
  <2>2. CASE k <= i
    <3>1. INTERFACE_LIST'[i] = BeforeSlot(k) /\ k # 1
      BY <1>2, <1>7, <2>2 DEF BeforeSlot
    <3>2. BeforeSlot(k) = INTERFACE_LIST[k - 1] /\ k - 1 \in 1 .. n
      BY <1>2, <3>1 DEF BeforeSlot
    <3>3. QED
      BY <1>5, <3>1, <3>2 DEF Listed
  <2>3. QED
    BY <1>2, <2>1, <2>2
<1>10. {x \in Listed : x < id} \subseteq Listed'
  <2> SUFFICES ASSUME NEW j \in 1 .. n, INTERFACE_LIST[j] # Wild, INTERFACE_LIST[j] < id
               PROVE  INTERFACE_LIST[j] \in Listed'
    BY DEF Listed
  <2>1. j < k
    BY <1>2, <1>3, <1>4
  <2>2. j \in 1 .. n - 1 /\ INTERFACE_LIST'[j] = INTERFACE_LIST[j]
    BY <1>2, <1>7, <2>1
  <2>3. QED
    BY <1>7, <2>2 DEF Listed
<1>11. QED
  BY <1>2, <1>7, <1>8, <1>9, <1>10

LEMMA InitIInv == Init => IInv
<1> SUFFICES ASSUME Init PROVE IInv
  OBVIOUS
<1>1. TypeOK
  BY InitTypeOK
<1>2. INTERFACE_COUNT = 0 /\ INTERFACE_CAPACITY = 0 /\ 1 .. INTERFACE_COUNT = {}
  BY DEF Init, INTERFACE_COUNT
<1>3. Listed = {}
  BY <1>2 DEF Listed
<1>4. QED
  BY <1>1, <1>2, <1>3 DEF IInv, Ordered, FreedNeverListed, WithinCapacity, ProcEntriesByPid

LEMMA RegisterOrdered ==
  ASSUME TypeOK, Ordered, FreedNeverListed, NEW p \in Pids, register_interface(p)
  PROVE  Ordered' /\ FreedNeverListed'
<1> DEFINE n == INTERFACE_COUNT
<1>1. /\ n \in Nat /\ INTERFACE_COUNT' = n + 1
      /\ \A i \in 1 .. n : INTERFACE_LIST'[i] = INTERFACE_LIST[i]
      /\ INTERFACE_LIST'[n + 1] = ALLOCATED_ID
      /\ Listed' = Listed \cup {ALLOCATED_ID}
  BY RegisterSlots
<1>2. \A i \in 1 .. n : INTERFACE_LIST[i] \in Nat /\ INTERFACE_LIST[i] <= ALLOCATED_ID
  <2> SUFFICES ASSUME NEW i \in 1 .. n
               PROVE  INTERFACE_LIST[i] \in Nat /\ INTERFACE_LIST[i] <= ALLOCATED_ID
    OBVIOUS
  <2>1. INTERFACE_LIST[i] \in Nat
    BY DEF TypeOK, Ids, Wild, INTERFACE_COUNT
  <2>2. CASE INTERFACE_LIST[i] = Wild
    BY <2>1, <2>2 DEF TypeOK, Wild
  <2>3. CASE INTERFACE_LIST[i] # Wild
    <3>1. INTERFACE_LIST[i] \in live
      BY <2>3 DEF FreedNeverListed, Listed
    <3>2. QED
      BY <2>1, <3>1 DEF TypeOK
  <2>4. QED
    BY <2>1, <2>2, <2>3
<1>3. Ordered'
  <2> SUFFICES ASSUME NEW i \in 1 .. n + 1, NEW j \in 1 .. n + 1, i <= j
               PROVE  INTERFACE_LIST'[i] <= INTERFACE_LIST'[j]
    BY <1>1 DEF Ordered
  <2>1. CASE j \in 1 .. n
    BY <1>1, <2>1 DEF Ordered
  <2>2. CASE j = n + 1 /\ i \in 1 .. n
    BY <1>1, <1>2, <2>2
  <2>3. CASE j = n + 1 /\ i = n + 1
    BY <1>1, <2>3 DEF TypeOK
  <2>4. QED
    BY <1>1, <2>1, <2>2, <2>3
<1>4. FreedNeverListed'
  BY <1>1 DEF FreedNeverListed, register_interface, NewId
<1>5. QED
  BY <1>3, <1>4

LEMMA RegisterWithinCapacity ==
  ASSUME TypeOK, WithinCapacity, NEW p \in Pids, register_interface(p)
  PROVE  WithinCapacity'
<1>1. INTERFACE_COUNT \in Nat /\ INTERFACE_COUNT' = INTERFACE_COUNT + 1
  BY RegisterSlots
<1>2. QED
  BY <1>1, RegistryAssumption
  DEF RegistryAssumption, TypeOK, WithinCapacity, register_interface, NewId, GrownCapacity

LEMMA RegisterProcEntries ==
  ASSUME TypeOK, FreedNeverListed, ProcEntriesByPid,
         NEW p \in Pids, register_interface(p)
  PROVE  ProcEntriesByPid'
<1> USE RegistryAssumption DEF RegistryAssumption, TypeOK, Ids, NoEntry
<1> DEFINE id == ALLOCATED_ID
<1>1. Listed' = Listed \cup {id}
  BY RegisterSlots
<1>2. /\ id \in Ids
      /\ bind_pid' = [bind_pid EXCEPT ![id] = p]
      /\ add_interface_to_proc(id, p)
  BY DEF register_interface, NewId
<1>3. \A x \in Listed : x \in Ids /\ x # id
  <2> SUFFICES ASSUME NEW x \in Listed PROVE x \in Ids /\ x # id
    OBVIOUS
  <2>1. x \in 1 .. id - 1
    BY DEF FreedNeverListed
  <2>2. QED
    BY <1>2, <2>1
<1>4. PICK e : /\ proc_entry' = [proc_entry EXCEPT ![id] = e]
               /\ procfs \subseteq procfs'
               /\ \/ /\ \E y \in Listed : bind_pid[y] = p /\ e = proc_entry[y]
                     /\ procfs' = procfs
                  \/ /\ \A x \in Listed : bind_pid[x] # p
                     /\ e \in {id, NoEntry} /\ (e = id => id \in procfs')
  <2>1. CASE \E k \in 1 .. INTERFACE_COUNT :
               /\ IsFirstSlot(k, BoundTo(p))
               /\ proc_entry' = [proc_entry EXCEPT ![id] = proc_entry[INTERFACE_LIST[k]]]
               /\ UNCHANGED procfs
    <3>1. PICK k \in 1 .. INTERFACE_COUNT :
            /\ IsFirstSlot(k, BoundTo(p))
            /\ proc_entry' = [proc_entry EXCEPT ![id] = proc_entry[INTERFACE_LIST[k]]]
            /\ UNCHANGED procfs
      BY <2>1
    <3>2. INTERFACE_LIST[k] \in Listed /\ bind_pid[INTERFACE_LIST[k]] = p
      BY <3>1 DEF IsFirstSlot, BoundTo, Listed, Wild
    <3>3. QED
      BY <3>1, <3>2
  <2>2. CASE /\ Listed \cap BoundTo(p) = {}
             /\ proc_entry' = [proc_entry EXCEPT ![id] = id]
             /\ procfs' = procfs \cup {id}
    BY <1>2, <1>3, <2>2 DEF BoundTo
  <2>3. CASE /\ Listed \cap BoundTo(p) = {}
             /\ proc_entry' = [proc_entry EXCEPT ![id] = NoEntry]
             /\ UNCHANGED procfs
    <3>1. /\ procfs \subseteq procfs'
          /\ NoEntry \in {id, NoEntry} /\ NoEntry # id
      BY <1>2, <2>3
    <3>2. \A x \in Listed : bind_pid[x] # p
      BY <1>3, <2>3 DEF BoundTo
    <3>3. QED
      BY <2>3, <3>1, <3>2
  <2>4. QED
    BY <1>2, <2>1, <2>2, <2>3 DEF add_interface_to_proc
<1>5. /\ \A x \in Listed : proc_entry'[x] = proc_entry[x] /\ bind_pid'[x] = bind_pid[x]
      /\ proc_entry'[id] = e /\ bind_pid'[id] = p
      /\ \A f \in procfs : f \in procfs' /\ bind_pid'[f] = bind_pid[f]
  BY <1>2, <1>3, <1>4
<1>6. ASSUME NEW x \in Listed', NEW y \in Listed', bind_pid'[x] = bind_pid'[y]
      PROVE  proc_entry'[x] = proc_entry'[y]
  BY <1>1, <1>4, <1>5, <1>6 DEF ProcEntriesByPid
<1>7. ASSUME NEW x \in Listed', proc_entry'[x] # NoEntry
      PROVE  proc_entry'[x] \in procfs' /\ bind_pid'[proc_entry'[x]] = bind_pid'[x]
  <2>1. CASE x \in Listed
    <3>1. proc_entry'[x] = proc_entry[x] /\ bind_pid'[x] = bind_pid[x]
      BY <1>5, <2>1
    <3>2. proc_entry[x] \in procfs /\ bind_pid[proc_entry[x]] = bind_pid[x]
      BY <1>7, <2>1, <3>1 DEF ProcEntriesByPid
    <3>3. QED
      BY <1>5, <3>1, <3>2
  <2>2. CASE x = id /\ e = id /\ id \in procfs'
    BY <1>5, <2>2
  <2>3. CASE x = id /\ \E y \in Listed : bind_pid[y] = p /\ e = proc_entry[y]
    BY <1>5, <1>7, <2>3 DEF ProcEntriesByPid
  <2>4. QED
    <3>1. x \in Listed \/ (x = id /\ e # NoEntry)
      BY <1>1, <1>5, <1>7
    <3>2. (e = id /\ id \in procfs') \/ e = NoEntry \/ \E y \in Listed : bind_pid[y] = p /\ e = proc_entry[y]
      BY <1>4
    <3>3. QED
      BY <3>1, <3>2, <2>1, <2>2, <2>3
<1>8. QED
  BY <1>6, <1>7 DEF ProcEntriesByPid

LEMMA NextIInv == IInv /\ [Next]_vars => IInv'
<1> SUFFICES ASSUME IInv, [Next]_vars PROVE IInv'
  OBVIOUS
<1>1. TypeOK'
  BY NextTypeOK DEF IInv
<1>2. ASSUME NEW p \in Pids, register_interface(p)
      PROVE  IInv'
  <2>1. Ordered' /\ FreedNeverListed'
    BY <1>2, RegisterOrdered DEF IInv
  <2>2. WithinCapacity'
    BY <1>2, RegisterWithinCapacity DEF IInv
  <2>3. ProcEntriesByPid'
    BY <1>2, RegisterProcEntries DEF IInv
  <2>4. QED
    BY <1>1, <2>1, <2>2, <2>3 DEF IInv
<1>3. ASSUME NEW id \in Ids, remove_interface(id)
      PROVE  IInv'
  <2>1. /\ Ordered'
        /\ Listed' = {x \in Listed : x < id}
        /\ INTERFACE_COUNT \in Nat \ {0} /\ INTERFACE_COUNT' = INTERFACE_COUNT - 1
    BY <1>3, RemoveSlots DEF IInv
  <2>2. /\ live' = live \ {id}
        /\ UNCHANGED <<INTERFACE_CAPACITY, bind_pid, proc_entry, procfs>>
    BY <1>3 DEF remove_interface
  <2>3. FreedNeverListed'
    <3>1. id \notin Listed'
      BY <2>1 DEF Ids
    <3>2. QED
      BY <2>1, <2>2, <3>1 DEF IInv, FreedNeverListed
  <2>4. WithinCapacity'
    BY <2>1, <2>2 DEF IInv, TypeOK, WithinCapacity
  <2>5. ProcEntriesByPid'
    BY <2>1, <2>2 DEF IInv, ProcEntriesByPid
  <2>6. QED
    BY <1>1, <2>1, <2>3, <2>4, <2>5 DEF IInv
<1>4. ASSUME UNCHANGED <<INTERFACE_LIST, INTERFACE_CAPACITY, live, bind_pid, proc_entry, procfs>>
      PROVE  IInv'
  BY <1>1, <1>4, ListedUnchanged
  DEF IInv, Ordered, FreedNeverListed, WithinCapacity, ProcEntriesByPid, INTERFACE_COUNT
<1>5. QED
  BY <1>2, <1>3, <1>4 DEF Next, RegisterOutOfMemory, WildRead, vars

(***************************************************************************)
(* Every invariant of the registry, from the inductive one.                *)
(***************************************************************************)
THEOREM InductiveInvariant == Spec => []IInv
BY InitIInv, NextIInv, PTL DEF Spec

(***************************************************************************)
(* No scan of the array reads a freed interface.                           *)
(***************************************************************************)
THEOREM FreedNeverListedHolds == Spec => []FreedNeverListed
<1>1. IInv => FreedNeverListed
  BY DEF IInv
<1>2. QED
  BY <1>1, InductiveInvariant, PTL

(***************************************************************************)
(* No registration writes past the end of the array.                       *)
(***************************************************************************)
THEOREM WithinCapacityHolds == Spec => []WithinCapacity
<1>1. IInv => WithinCapacity
  BY DEF IInv
<1>2. QED
  BY <1>1, InductiveInvariant, PTL

(***************************************************************************)
(* A file of /proc/dist_comm shows the interfaces of its pid and no other. *)
(***************************************************************************)
THEOREM ProcEntriesByPidHolds == Spec => []ProcEntriesByPid
<1>1. IInv => ProcEntriesByPid
  BY DEF IInv
<1>2. QED
  BY <1>1, InductiveInvariant, PTL

(***************************************************************************)
(* remove_interface hides the removed interface and every later one.       *)
(***************************************************************************)
THEOREM RemoveTruncatesHolds == Spec => RemoveTruncates
<1> DEFINE A == \A id \in live \ live' : Listed' = {x \in Listed : x < id}
<1>1. IInv /\ [Next]_vars => [A]_vars
  <2> SUFFICES ASSUME IInv, [Next]_vars, NEW id \in live \ live'
               PROVE  Listed' = {x \in Listed : x < id}
    OBVIOUS
  <2>1. PICK k \in Ids : remove_interface(k)
    BY DEF Next, register_interface, RegisterOutOfMemory, WildRead, vars
  <2>2. k = id
    BY <2>1 DEF remove_interface
  <2>3. QED
    BY <2>1, <2>2, RemoveSlots DEF IInv
<1>2. QED
  BY <1>1, InductiveInvariant, PTL DEF Spec, RemoveTruncates

(***************************************************************************)
(* An interface that cannot be found is never found again.                 *)
(***************************************************************************)
THEOREM NeverRelistedHolds == Spec => NeverRelisted
<1> DEFINE A == \A id \in 1 .. ALLOCATED_ID - 1 : id \notin Listed => id \notin Listed'
<1>1. IInv /\ [Next]_vars => [A]_vars
  <2> SUFFICES ASSUME IInv, [Next]_vars,
                      NEW id \in 1 .. ALLOCATED_ID - 1, id \notin Listed
               PROVE  id \notin Listed'
    OBVIOUS
  <2>1. CASE \E p \in Pids : register_interface(p)
    BY <2>1, RegisterSlots DEF IInv, TypeOK
  <2>2. CASE \E k \in Ids : remove_interface(k)
    BY <2>2, RemoveSlots DEF IInv
  <2>3. CASE INTERFACE_LIST' = INTERFACE_LIST
    BY <2>3, ListedUnchanged
  <2>4. QED
    BY <2>1, <2>2, <2>3 DEF Next, RegisterOutOfMemory, WildRead, vars
<1>2. QED
  BY <1>1, InductiveInvariant, PTL DEF Spec, NeverRelisted
=============================================================================
