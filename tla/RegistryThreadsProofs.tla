------------------------- MODULE RegistryThreadsProofs -------------------------
(***************************************************************************)
(* Proofs about RegistryThreads, for every number of tasks, registrations, *)
(* blocks of memory and scanners.                                          *)
(*                                                                         *)
(* ListInv and ScanInv say what the list and the scanners are like as long *)
(* as no two ioctls have overlapped; IdsInv holds without a condition.     *)
(* Only the implementation of Registry assumes that the ioctls take turns. *)
(***************************************************************************)
EXTENDS RegistryThreads, FiniteSetTheorems, WellFoundedInduction, TLAPS

TakeTurns == Overlaps = {}

-----------------------------------------------------------------------------
(* The task whose ioctl is under way, at most one.                         *)

OneIoctl == \A p, q \in Pids : InIoctl(p) /\ InIoctl(q) => p = q

\* Where its new interface stands.
Registration(p) ==
  LET o == task[p].obj IN
  /\ o = allocated /\ o \in live
  /\ bind_pid[o] = p
  /\ task[p].pc # "slot" => INTERFACE_COUNT < allocated
  /\ task[p].pc \in {"proc", "id"} => ids[o] = 0
  /\ task[p].pc \notin {"proc", "id"} => ids[o] = o
  /\ ALLOCATED_ID = IF task[p].pc \in {"proc", "id", "increment"} THEN allocated
                                                                ELSE allocated + 1

\* Its use of memory.
Storage(p) ==
  LET t == task[p] IN
  /\ t.pc = "idle" => t.obj = 0
  /\ t.new # NULL => t.pc \in {"point", "store", "slot", "count"}
  /\ t.pc = "point" => t.new # NULL
  /\ t.pc = "krealloc" \/ (t.new # NULL /\ t.pc # "slot") =>
       INTERFACE_CAPACITY = INTERFACE_COUNT + GRADIENT
  /\ t.pc = "slot" /\ t.new # NULL => INTERFACE_CAPACITY = INTERFACE_COUNT - 1 + GRADIENT
  /\ t.pc \in {"point", "store", "count"} => INTERFACE_COUNT < INTERFACE_CAPACITY
  /\ t.pc = "slot" => t.i = INTERFACE_COUNT /\ INTERFACE_COUNT > 0
  /\ t.pc = "count" => t.i = INTERFACE_COUNT + 1 /\ Slot(t.i) = t.obj
  /\ t.pc = "capacity" => INTERFACE_CAPACITY = INTERFACE_COUNT
  /\ t.pc \in {"shift", "down"} => t.i \in 1 .. INTERFACE_COUNT
  /\ t.pc = "down" => t.i = INTERFACE_COUNT

Turn ==
  /\ OneIoctl
  /\ \A p \in Registering : Registration(p)
  /\ \A p \in Removing : task[p].obj \in live
  /\ \A p \in Pids : Storage(p)
  /\ Registering = {} => ALLOCATED_ID = allocated + 1
  /\ INTERFACE_COUNT <= allocated

\* An interface that was not allocated yet.
Unused ==
  \A o \in Ids : o > allocated =>
    ids[o] = 0 /\ bind_pid[o] = (CHOOSE p \in Pids : TRUE) /\ proc_entry[o] = NoEntry
    /\ o \notin procfs

\* ids leads back to the interface.
IdsOK == \A o \in Ids : ids[o] \in {0, o} /\ (o <= allocated /\ o \notin Pending => ids[o] = o)

-----------------------------------------------------------------------------
(* The array is the one block in use; a block that lost a race has no slots. *)

ArraySize == IF Array = NULL THEN 0 ELSE Len(slots[Array])

Memory ==
  /\ \A b \in Blocks : slots[b] # NULL /\ b # Array => slots[b] = <<>>
  /\ Array # NULL => slots[Array] # NULL
  /\ INTERFACE_CAPACITY = ArraySize + (IF AtPc("krealloc") = {} THEN 0 ELSE GRADIENT)
  /\ INTERFACE_COUNT <= INTERFACE_CAPACITY

\* The interfaces in the list are live, and no ioctl works on them.
ListOK ==
  \A j \in DOMAIN ListView :
    ListView[j] # Wild => ListView[j] \in live \ {task[p].obj : p \in Pids}

\* Without removals the list holds every interface at its own index.
Complete ==
  live = 1 .. allocated /\ Removing = {} =>
    /\ Len(ListView) = allocated - (IF Registering = {} THEN 0 ELSE 1)
    /\ \A j \in DOMAIN ListView : ListView[j] = j

-----------------------------------------------------------------------------
(* The scanners.                                                           *)

Scanning(s) == scan[s].pc \in {"null", "load", "listLoaded", "countLoaded", "scan"}

IdleOf(s) ==
  /\ scan[s].i > 0
  /\ scan[s].pc = "idle" => scan[s].i = 1
  /\ scan[s].pc = "null" =>
       (\A p \in Pids : ~InIoctl(p)) /\ INTERFACE_COUNT = 0 /\ INTERFACE_CAPACITY = 0
  /\ scan[s].pc = "found" => scan[s].obj # 0
  /\ scan[s].pc = "idle" => s \notin astray

Idle == \A s \in Scanners : IdleOf(s)

\* What a scan that no ioctl overlaps has loaded is still so.
UndisturbedOf(s) ==
  scan[s].pc # "idle" /\ s \notin overlapped =>
    /\ s \notin astray
    /\ \A p \in Pids : ~InIoctl(p)
    /\ scan[s].pc \in {"listLoaded", "scan"} =>
         scan[s].list = INTERFACE_LIST \/ INTERFACE_COUNT = 0
    /\ scan[s].pc \in {"countLoaded", "scan"} => scan[s].count = INTERFACE_COUNT
    /\ scan[s].pc = "found" => scan[s].obj \in live
    /\ scan[s].pc = "oops" => Wild \in {ListView[j] : j \in DOMAIN ListView}

Undisturbed == \A s \in Scanners : UndisturbedOf(s)

\* What is steady is still ahead of the scan, within the count it has loaded.
Behind(x, i) == \A j \in DOMAIN ListView : j < i => ListView[j] # x
Within(x, c) == \E j \in DOMAIN ListView : j <= c /\ ListView[j] = x

AheadOf(s) ==
  /\ steady[s] \subseteq Listed
  /\ scan[s].want \in steady[s] /\ s \notin astray =>
       /\ Scanning(s) => Behind(scan[s].want, scan[s].i)
       /\ scan[s].pc \in {"countLoaded", "scan"} => Within(scan[s].want, scan[s].count)
       /\ scan[s].pc = "end" => scan[s].obj # 0

Ahead == \A s \in Scanners : AheadOf(s)

\* What add_interface_to_proc did for a registration under way.
InProc ==
  \A p \in Registering : task[p].pc # "proc" =>
    LET o == task[p].obj
        mine == {x \in Ids \ {o} : bind_pid[x] = p}
    IN
    \/ \E k \in DOMAIN ListView :
         /\ ListView[k] \in mine /\ \A j \in 1 .. k - 1 : ListView[j] \notin mine
         /\ proc_entry[o] = proc_entry[ListView[k]] /\ o \notin procfs
    \/ /\ \A k \in DOMAIN ListView : ListView[k] \notin mine
       /\ \/ proc_entry[o] = o /\ o \in procfs
          \/ proc_entry[o] = NoEntry /\ o \notin procfs

ProcNotYet ==
  \A p \in Registering : task[p].pc = "proc" =>
    proc_entry[task[p].obj] = NoEntry /\ task[p].obj \notin procfs

Typed ==
  /\ TypeOK
  /\ slots \in [Blocks -> Seq(Ids \cup {Wild}) \cup {NULL}]
  /\ bind_pid \in [Ids -> Pids] /\ proc_entry \in [Ids -> Ids \cup {NoEntry}]
  /\ procfs \subseteq Ids /\ oops \in BOOLEAN

\* The inductive invariant: the ioctl under way, and the scanners.
ListInv ==
  Typed /\ Turn /\ Unused /\ IdsOK /\ Memory /\ ListOK /\ Complete /\ InProc /\ ProcNotYet

ScanInv == Idle /\ Undisturbed /\ Ahead

-----------------------------------------------------------------------------
(* The list by the place of the one ioctl that is under way.               *)

Old == [j \in 1 .. INTERFACE_COUNT |-> SlotOf(INTERFACE_LIST, j)]

NoIoctl == \A p \in Pids : ~InIoctl(p)

NobodyFacts ==
  /\ AtPc("krealloc") = {} /\ Removing = {} /\ Registering = {} /\ Pending = {}
  /\ Array = INTERFACE_LIST
  /\ ListView = Old

AloneFacts(p) ==
  LET t == task[p] IN
  /\ \A q \in Pids : q # p => task[q].pc = "idle"
  /\ AtPc("krealloc") = IF t.pc = "krealloc" THEN {p} ELSE {}
  /\ Removing = IF t.pc \in {"shift", "down", "free"} THEN {p} ELSE {}
  /\ Registering = IF t.pc \in {"shift", "down", "free"} THEN {} ELSE {p}
  /\ Pending = IF t.pc \in {"shift", "down", "free"} THEN {} ELSE {t.obj}
  /\ Array = IF t.pc = "point" THEN t.new ELSE INTERFACE_LIST
  /\ t.pc \notin {"point", "slot", "shift", "down"} => ListView = Old
  /\ t.pc = "point" => ListView = [j \in 1 .. INTERFACE_COUNT |-> SlotOf(t.new, j)]
  /\ t.pc = "slot" => ListView = [j \in 1 .. INTERFACE_COUNT - 1 |-> SlotOf(INTERFACE_LIST, j)]
  /\ t.pc \in {"shift", "down"} =>
       ListView = [j \in 1 .. INTERFACE_COUNT - 1 |->
                     IF j < t.i THEN SlotOf(INTERFACE_LIST, j)
                     ELSE IF t.i = 1 THEN Wild ELSE SlotOf(INTERFACE_LIST, t.i - 1)]

LEMMA Nobody == Typed /\ NoIoctl => NobodyFacts
<1> SUFFICES ASSUME Typed, NoIoctl PROVE NobodyFacts
  OBVIOUS
<1>1. AtPc("krealloc") = {} /\ AtPc("point") = {} /\ AtPc("slot") = {} /\ Cutting = {}
  BY DEF AtPc, Cutting, NoIoctl, InIoctl
<1>2. Removing = {} /\ Registering = {} /\ Pending = {}
  BY DEF Removing, Registering, Pending, NoIoctl, InIoctl
<1>3. Array = INTERFACE_LIST
  BY <1>1 DEF Array
<1>4. INTERFACE_COUNT - 0 = INTERFACE_COUNT
  BY DEF Typed, TypeOK
<1>5. ListView = Old
  BY <1>1, <1>3, <1>4 DEF ListView, Old
<1>6. QED
  BY <1>1, <1>2, <1>3, <1>5 DEF NobodyFacts

LEMMA Alone == \A p \in Pids : Typed /\ OneIoctl /\ InIoctl(p) => AloneFacts(p)
<1> SUFFICES ASSUME NEW p \in Pids, Typed, OneIoctl, InIoctl(p) PROVE AloneFacts(p)
  OBVIOUS
<1>1. \A q \in Pids : q # p => task[q].pc = "idle"
  BY DEF OneIoctl, InIoctl
<1>2. /\ AtPc("krealloc") = IF task[p].pc = "krealloc" THEN {p} ELSE {}
      /\ AtPc("point") = IF task[p].pc = "point" THEN {p} ELSE {}
      /\ AtPc("slot") = IF task[p].pc = "slot" THEN {p} ELSE {}
      /\ Cutting = IF task[p].pc \in {"shift", "down"} THEN {p} ELSE {}
  BY <1>1 DEF AtPc, Cutting
<1>3. Removing = IF task[p].pc \in {"shift", "down", "free"} THEN {p} ELSE {}
  BY <1>1 DEF Removing
<1>4. Registering = IF task[p].pc \in {"shift", "down", "free"} THEN {} ELSE {p}
  BY <1>1, <1>3 DEF Registering, InIoctl
<1>5. Pending = IF task[p].pc \in {"shift", "down", "free"} THEN {} ELSE {task[p].obj}
  BY <1>4 DEF Pending
<1>6. p = CHOOSE q \in {p} : TRUE
  OBVIOUS
<1>7. Array = IF task[p].pc = "point" THEN task[p].new ELSE INTERFACE_LIST
  BY <1>2, <1>6 DEF Array
<1>8. INTERFACE_COUNT - 0 = INTERFACE_COUNT
  BY DEF Typed, TypeOK
<1>9. task[p].pc \notin {"point", "slot", "shift", "down"} => ListView = Old
  BY <1>2, <1>7, <1>8 DEF ListView, Old
<1>10. task[p].pc = "point" =>
         ListView = [j \in 1 .. INTERFACE_COUNT |-> SlotOf(task[p].new, j)]
  BY <1>2, <1>7, <1>8 DEF ListView
<1>11. task[p].pc = "slot" =>
         ListView = [j \in 1 .. INTERFACE_COUNT - 1 |-> SlotOf(INTERFACE_LIST, j)]
  BY <1>2, <1>7 DEF ListView
<1>12. task[p].pc \in {"shift", "down"} =>
         ListView = [j \in 1 .. INTERFACE_COUNT - 1 |->
                       IF j < task[p].i THEN SlotOf(INTERFACE_LIST, j)
                       ELSE IF task[p].i = 1 THEN Wild ELSE SlotOf(INTERFACE_LIST, task[p].i - 1)]
  BY <1>2, <1>6, <1>7 DEF ListView
<1>13. QED
  BY <1>1, <1>2, <1>3, <1>4, <1>5, <1>7, <1>9, <1>10, <1>11, <1>12 DEF AloneFacts

LEMMA NobodyNext == (Typed /\ NoIoctl => NobodyFacts)'
BY Nobody, PTL

LEMMA AloneNext == (\A p \in Pids : Typed /\ OneIoctl /\ InIoctl(p) => AloneFacts(p))'
BY Alone, PTL

-----------------------------------------------------------------------------
(* Lemmas about what the steps are made of.                                *)

LEMMA LeastNat ==
  ASSUME NEW T \in SUBSET Nat, T # {}
  PROVE  \E x \in T : \A y \in T : x <= y
<1> DEFINE Less == OpToRel(<, Nat)
<1>1. IsWellFoundedOn(Less, Nat)
  BY NatLessThanWellFounded
<1>2. PICK x \in T : \A y \in T : ~ (<<y, x>> \in Less)
  <2> HIDE DEF Less
  <2> QED
    BY <1>1, WFMin
<1>3. \A y \in T : ~ (y < x)
  BY <1>2 DEF OpToRel
<1>4. QED
  BY <1>3

Pcs == {"idle", "proc", "id", "increment", "grow", "capacity", "krealloc", "point", "store",
        "slot", "count", "shift", "down", "free"}

LEMMA SlotTyped ==
  ASSUME Typed, NEW b \in Blocks \cup {NULL}, NEW k
  PROVE  SlotOf(b, k) \in Ids \cup {Wild}
<1>1. CASE ~InArray(b, k)
  BY <1>1 DEF SlotOf
<1>2. CASE InArray(b, k)
  <2>1. slots[b] \in Seq(Ids \cup {Wild}) /\ k \in 1 .. Len(slots[b])
    BY <1>2 DEF Typed, TypeOK, InArray
  <2>2. QED
    BY <1>2, <2>1 DEF SlotOf
<1>3. QED
  BY <1>1, <1>2

LEMMA ArrayTyped ==
  ASSUME Typed
  PROVE  Array \in Blocks \cup {NULL}
BY DEF Typed, TypeOK, Array, AtPc

LEMMA ViewTyped ==
  ASSUME Typed
  PROVE  \E n \in Nat : DOMAIN ListView = 1 .. n /\ n <= INTERFACE_COUNT
           /\ \A j \in 1 .. n : ListView[j] \in Ids \cup {Wild}
<1>1. INTERFACE_COUNT \in Nat
  BY DEF Typed, TypeOK
<1>2. Wild \in Ids \cup {Wild} /\ \A k : SlotOf(Array, k) \in Ids \cup {Wild}
  BY SlotTyped, ArrayTyped
<1>3. CASE Cutting # {}
  <2> DEFINE k == task[CHOOSE p \in Cutting : TRUE].i
  <2>1. ListView = [j \in 1 .. INTERFACE_COUNT - 1 |->
          IF j < k THEN SlotOf(Array, j) ELSE IF k = 1 THEN Wild ELSE SlotOf(Array, k - 1)]
    BY <1>3 DEF ListView
  <2>2. \A j \in 1 .. INTERFACE_COUNT - 1 : ListView[j] \in Ids \cup {Wild}
    BY <2>1, <1>2
  <2>3. CASE INTERFACE_COUNT = 0
    <3>1. 1 .. INTERFACE_COUNT - 1 = 1 .. 0
      BY <2>3
    <3>2. DOMAIN ListView = 1 .. INTERFACE_COUNT - 1
      BY <2>1, Zenon
    <3>3. QED
      BY <2>3, <3>1, <3>2
  <2>4. CASE INTERFACE_COUNT # 0
    <3>1. INTERFACE_COUNT - 1 \in Nat
      BY <1>1, <2>4
    <3>2. DOMAIN ListView = 1 .. INTERFACE_COUNT - 1
      BY <2>1, Zenon
    <3>3. QED
      BY <1>1, <2>2, <3>1, <3>2
  <2>5. QED
    BY <2>3, <2>4
<1>4. CASE Cutting = {}
  <2> DEFINE d == IF AtPc("slot") = {} THEN 0 ELSE 1
  <2>1. ListView = [j \in 1 .. INTERFACE_COUNT - d |-> SlotOf(Array, j)]
    BY <1>4 DEF ListView
  <2>2. \A j \in 1 .. INTERFACE_COUNT - d : ListView[j] \in Ids \cup {Wild}
    BY <2>1, <1>2
  <2>3. DOMAIN ListView = 1 .. INTERFACE_COUNT - d
    BY <2>1, Zenon
  <2>4. CASE INTERFACE_COUNT - d \in Nat
    BY <1>1, <2>2, <2>3, <2>4
  <2>5. CASE INTERFACE_COUNT - d \notin Nat
    <3>1. 1 .. INTERFACE_COUNT - d = 1 .. 0
      BY <1>1, <2>5
    <3>2. QED
      BY <1>1, <2>3, <3>1
  <2>6. QED
    BY <2>4, <2>5
<1>5. QED
  BY <1>3, <1>4

LEMMA ListedTyped ==
  ASSUME Typed
  PROVE  Listed \subseteq Ids
BY ViewTyped DEF Listed

LEMMA SteadyTyped ==
  ASSUME Typed, KeepHistory
  PROVE  /\ steady' \in [Scanners -> SUBSET Ids]
         /\ astray' \subseteq Scanners /\ raced' \subseteq {"ioctls", "ids"}
<1>1. steady \in [Scanners -> SUBSET Ids] /\ raced \subseteq {"ioctls", "ids"}
  BY DEF Typed, TypeOK
<1>2. \A s \in Scanners :
        (IF scan'[s].pc \in {"idle", "oops"} THEN {}
         ELSE IF scan[s].pc = "idle" THEN Listed
         ELSE steady[s] \cap Listed') \in SUBSET Ids
  BY <1>1, ListedTyped
<1>3. steady' \in [Scanners -> SUBSET Ids]
  BY <1>2 DEF KeepHistory, KeepSteady
<1>4. astray' \subseteq Scanners
  BY DEF KeepHistory, KeepAstray
<1>5. raced' \subseteq {"ioctls", "ids"}
  BY <1>1 DEF KeepHistory, KeepRaced
<1>6. QED
  BY <1>3, <1>4, <1>5

\* What a step of a task says of the tasks.
Tasks == [Pids -> [pc : Pcs, obj : Ids \cup {0}, i : Nat, new : Blocks \cup {NULL}]]

MovedFacts(p, from, to) ==
  /\ ~oops /\ task[p].pc = from /\ task'[p].pc = to /\ task'[p].obj = task[p].obj
  /\ \A q \in Pids : q # p => task[q].pc = "idle" /\ task'[q] = task[q]
  /\ task' \in Tasks /\ Typed /\ OneIoctl /\ OneIoctl' /\ InIoctl(p)

LEMMA Moved ==
  ASSUME Typed, OneIoctl, NEW p \in Pids, NEW from, NEW to \in Pcs, from # "idle",
         Step(p, from, to)
  PROVE  /\ MovedFacts(p, from, to) /\ scan' = scan /\ overlapped' = overlapped
         /\ task'[p].i = task[p].i /\ task'[p].new = task[p].new
<1>1. task \in Tasks
  BY DEF Typed, TypeOK, Pcs, Tasks
<1>2. /\ ~oops /\ task[p].pc = from /\ scan' = scan /\ overlapped' = overlapped
      /\ task' = [task EXCEPT ![p].pc = to]
  BY DEF Step
<1>3. /\ task'[p].pc = to /\ task'[p].obj = task[p].obj /\ task'[p].i = task[p].i
      /\ task'[p].new = task[p].new
  BY <1>1, <1>2 DEF Tasks
<1>4. \A q \in Pids : q # p => task[q].pc = "idle" /\ task'[q] = task[q]
  BY <1>1, <1>2 DEF OneIoctl, InIoctl, Tasks
<1>5. task' \in Tasks
  BY <1>1, <1>2 DEF Tasks
<1>6. OneIoctl' /\ InIoctl(p)
  BY <1>2, <1>4 DEF OneIoctl, InIoctl
<1>7. QED
  BY <1>2, <1>3, <1>4, <1>5, <1>6 DEF MovedFacts

\* What an ioctl relies on and keeps.
LEMMA ViewKept ==
  ASSUME NEW p \in Pids, AloneFacts(p), AloneFacts(p)',
         task[p].pc \notin {"point", "slot", "shift", "down"},
         task'[p].pc \notin {"point", "slot", "shift", "down"},
         UNCHANGED <<INTERFACE_LIST, INTERFACE_COUNT, slots>>
  PROVE  ListView' = ListView
<1>1. ListView = Old /\ ListView' = Old'
  BY DEF AloneFacts
<1>2. Old' = Old
  BY DEF Old, SlotOf, InArray
<1>3. QED
  BY <1>1, <1>2

LEMMA ArraySizeNat ==
  ASSUME Typed, Memory
  PROVE  ArraySize \in Nat
<1>1. Array \in Blocks \cup {NULL}
  BY ArrayTyped
<1>2. Array # NULL => slots[Array] \in Seq(Ids \cup {Wild})
  BY <1>1 DEF Memory, Typed
<1>3. QED
  BY <1>2 DEF ArraySize

LEMMA Sizes ==
  ASSUME ListInv
  PROVE  /\ GRADIENT \in Nat \ {0} /\ INTERFACE_COUNT \in Nat /\ INTERFACE_CAPACITY \in Nat
         /\ ArraySize \in Nat /\ INTERFACE_COUNT <= INTERFACE_CAPACITY
<1>1. GRADIENT \in Nat \ {0}
  BY ThreadsAssumption
<1>2. ArraySize \in Nat
  BY ArraySizeNat DEF ListInv
<1>3. QED
  BY <1>1, <1>2 DEF ListInv, Typed, TypeOK, Memory

\* What its ioctl's place says of a task.
LEMMA Owner ==
  ASSUME ListInv, NEW p \in Pids, InIoctl(p)
  PROVE  /\ AloneFacts(p) /\ Storage(p)
         /\ task[p].pc \notin {"shift", "down", "free"} =>
              Registration(p) /\ task[p].obj = allocated /\ allocated \in Ids
         /\ task[p].pc \in {"shift", "down", "free"} => task[p].obj \in live
<1>1. Typed /\ OneIoctl /\ Storage(p)
  BY DEF ListInv, Turn
<1>2. AloneFacts(p)
  BY <1>1, Alone
<1>3. ASSUME task[p].pc \notin {"shift", "down", "free"}
      PROVE  Registration(p) /\ task[p].obj = allocated /\ allocated \in Ids
  <2>1. p \in Registering
    BY <1>3 DEF Registering, Removing
  <2>2. Registration(p)
    BY <2>1 DEF ListInv, Turn
  <2>3. task[p].obj = allocated /\ allocated \in live
    BY <2>2 DEF Registration
  <2>4. QED
    BY <1>1, <2>2, <2>3 DEF Typed, TypeOK, Ids
<1>4. task[p].pc \in {"shift", "down", "free"} => task[p].obj \in live
  BY DEF ListInv, Turn, Removing
<1>5. QED
  BY <1>1, <1>2, <1>3, <1>4

LEMMA ReadIdKeeps ==
  ASSUME ListInv, KeepHistory, NEW p \in Pids, ReadId(p)
  PROVE  ListInv' /\ ListView' = ListView
<1>1. Typed /\ OneIoctl
  BY DEF ListInv, Turn
<1>2. /\ MovedFacts(p, "id", "increment") /\ scan' = scan /\ overlapped' = overlapped
      /\ task'[p].i = task[p].i /\ task'[p].new = task[p].new
  BY <1>1, Moved DEF ReadId, Pcs
<1>3. /\ ids' = [ids EXCEPT ![task[p].obj] = ALLOCATED_ID]
      /\ UNCHANGED <<INTERFACE_LIST, INTERFACE_COUNT, INTERFACE_CAPACITY, slots,
                     ALLOCATED_ID, allocated, live, bind_pid, proc_entry, procfs, oops>>
  BY DEF ReadId, listVars, procVars
<1>4. /\ AloneFacts(p) /\ Storage(p)
      /\ Registration(p) /\ task[p].obj = allocated /\ allocated \in Ids
  BY <1>2, Owner DEF MovedFacts
<1>5. Typed'
  BY <1>1, <1>2, <1>3, <1>4, SteadyTyped DEF MovedFacts, Typed, TypeOK, Tasks, Pcs, Registration
<1>6. AloneFacts(p)'
  BY <1>2, <1>5, AloneNext DEF MovedFacts, InIoctl
<1>7. ListView' = ListView
  BY <1>2, <1>3, <1>4, <1>6, ViewKept DEF MovedFacts
<1>8. Turn'
  BY <1>2, <1>3, <1>4, <1>6 DEF MovedFacts, ListInv, Turn, Registration, Storage,
     AloneFacts, Slot, SlotOf, InArray, Typed, TypeOK
<1>9. Unused' /\ IdsOK'
  BY <1>2, <1>3, <1>4, <1>6 DEF MovedFacts, ListInv, Unused, IdsOK, Registration, AloneFacts,
     Typed, TypeOK
<1>10. Memory'
  <2>1. Array' = Array /\ ArraySize' = ArraySize
    BY <1>2, <1>3, <1>4, <1>6 DEF MovedFacts, ArraySize, AloneFacts
  <2>2. AtPc("krealloc") = {} /\ (AtPc("krealloc") = {})' = TRUE
    BY <1>2, <1>4, <1>6 DEF MovedFacts, AloneFacts
  <2>3. QED
    BY <1>2, <1>3, <2>1, <2>2, Sizes DEF ListInv, Memory
<1>11. ListOK' /\ Complete'
  BY <1>2, <1>3, <1>4, <1>6, <1>7 DEF MovedFacts, ListInv, ListOK, Complete, AloneFacts
<1>12. InProc' /\ ProcNotYet'
  BY <1>2, <1>3, <1>4, <1>6, <1>7 DEF MovedFacts, ListInv, InProc, ProcNotYet, AloneFacts
<1>13. QED
  BY <1>5, <1>7, <1>8, <1>9, <1>10, <1>11, <1>12 DEF ListInv

LEMMA IncrementIdKeeps ==
  ASSUME ListInv, KeepHistory, NEW p \in Pids, IncrementId(p)
  PROVE  ListInv' /\ ListView' = ListView
<1>1. Typed /\ OneIoctl
  BY DEF ListInv, Turn
<1>2. /\ MovedFacts(p, "increment", "grow") /\ scan' = scan /\ overlapped' = overlapped
      /\ task'[p].i = task[p].i /\ task'[p].new = task[p].new
  BY <1>1, Moved DEF IncrementId, Pcs
<1>3. /\ ALLOCATED_ID' = ids[task[p].obj] + 1
      /\ UNCHANGED <<INTERFACE_LIST, INTERFACE_COUNT, INTERFACE_CAPACITY, slots,
                     ids, allocated, live, bind_pid, proc_entry, procfs, oops>>
  BY DEF IncrementId, listVars, procVars
<1>4. /\ AloneFacts(p) /\ Storage(p)
      /\ Registration(p) /\ task[p].obj = allocated /\ allocated \in Ids
  BY <1>2, Owner DEF MovedFacts
<1>5. ALLOCATED_ID' = allocated + 1 /\ ALLOCATED_ID' \in 1 .. MaxRegistrations + 1
  <2>1. ids[task[p].obj] = allocated
    BY <1>2, <1>4 DEF MovedFacts, Registration
  <2>2. QED
    BY <1>3, <1>4, <2>1, ThreadsAssumption DEF Ids
<1>6. Typed'
  BY <1>1, <1>2, <1>3, <1>4, <1>5, SteadyTyped DEF MovedFacts, Typed, TypeOK, Tasks, Pcs
<1>7. AloneFacts(p)'
  BY <1>2, <1>6, AloneNext DEF MovedFacts, InIoctl
<1>8. ListView' = ListView
  BY <1>2, <1>3, <1>4, <1>7, ViewKept DEF MovedFacts
<1>9. Turn'
  BY <1>2, <1>3, <1>4, <1>7, <1>5 DEF MovedFacts, ListInv, Turn, Registration, Storage,
     AloneFacts, Slot, SlotOf, InArray, Typed, TypeOK
<1>10. Unused' /\ IdsOK'
  BY <1>2, <1>3, <1>4, <1>7 DEF MovedFacts, ListInv, Unused, IdsOK, Registration, AloneFacts,
     Typed, TypeOK
<1>11. Memory'
  <2>1. Array' = Array /\ ArraySize' = ArraySize
    BY <1>2, <1>3, <1>4, <1>7 DEF MovedFacts, ArraySize, AloneFacts
  <2>2. AtPc("krealloc") = {} /\ (AtPc("krealloc") = {})' = TRUE
    BY <1>2, <1>4, <1>7 DEF MovedFacts, AloneFacts
  <2>3. QED
    BY <1>2, <1>3, <1>5, <2>1, <2>2, Sizes DEF ListInv, Memory
<1>12. ListOK' /\ Complete'
  BY <1>2, <1>3, <1>4, <1>7, <1>8 DEF MovedFacts, ListInv, ListOK, Complete, AloneFacts
<1>13. InProc' /\ ProcNotYet'
  BY <1>2, <1>3, <1>4, <1>7, <1>8 DEF MovedFacts, ListInv, InProc, ProcNotYet, AloneFacts
<1>14. QED
  BY <1>6, <1>8, <1>9, <1>10, <1>11, <1>12, <1>13 DEF ListInv

\* A registration counts no further than it has allocated.
LEMMA CountFits ==
  ASSUME ListInv, NEW p \in Pids, InIoctl(p),
         task[p].pc \notin {"slot", "shift", "down", "free"}
  PROVE  AsCount(INTERFACE_COUNT + 1) = INTERFACE_COUNT + 1 /\ INTERFACE_COUNT + 1 <= MaxCount
<1>1. INTERFACE_COUNT < allocated /\ allocated \in Ids
  BY Owner DEF Registration
<1>2. INTERFACE_COUNT \in Nat /\ INTERFACE_COUNT + 1 <= MaxRegistrations
  BY <1>1, Sizes, ThreadsAssumption DEF Ids
<1>3. QED
  BY <1>2, ThreadsAssumption DEF AsCount

LEMMA GrowKeeps ==
  ASSUME ListInv, KeepHistory, NEW p \in Pids, Grow(p)
  PROVE  ListInv' /\ ListView' = ListView
<1>1. Typed /\ OneIoctl
  BY DEF ListInv, Turn
<1>2. /\ MovedFacts(p, "capacity", "krealloc") /\ scan' = scan /\ overlapped' = overlapped
      /\ task'[p].i = task[p].i /\ task'[p].new = task[p].new
  BY <1>1, Moved DEF Grow, Pcs
<1>3. /\ task[p].pc = "capacity"
      /\ INTERFACE_CAPACITY' = INTERFACE_CAPACITY + GRADIENT
      /\ UNCHANGED <<INTERFACE_LIST, INTERFACE_COUNT, slots, ALLOCATED_ID,
                     ids, allocated, live, bind_pid, proc_entry, procfs, oops>>
  BY DEF Grow, Step, listVars, procVars
<1>4. /\ AloneFacts(p) /\ Storage(p)
      /\ Registration(p) /\ task[p].obj = allocated /\ allocated \in Ids
  BY <1>2, Owner DEF MovedFacts
<1>5. INTERFACE_CAPACITY' \in Nat /\ INTERFACE_CAPACITY' = INTERFACE_COUNT + GRADIENT /\ INTERFACE_COUNT < INTERFACE_CAPACITY'
  BY <1>3, <1>4, Sizes DEF Storage
<1>6. Typed'
  BY <1>1, <1>2, <1>3, <1>4, <1>5, SteadyTyped DEF MovedFacts, Typed, TypeOK, Tasks, Pcs
<1>7. AloneFacts(p)'
  BY <1>2, <1>6, AloneNext DEF MovedFacts, InIoctl
<1>8. ListView' = ListView
  BY <1>2, <1>3, <1>4, <1>7, ViewKept DEF MovedFacts
<1>9. Turn'
  BY <1>2, <1>3, <1>4, <1>7, <1>5 DEF MovedFacts, ListInv, Turn, Registration, Storage,
     AloneFacts, Slot, SlotOf, InArray, Typed, TypeOK
<1>10. Unused' /\ IdsOK'
  BY <1>2, <1>3, <1>4, <1>7 DEF MovedFacts, ListInv, Unused, IdsOK, Registration, AloneFacts,
     Typed, TypeOK
<1>11. Memory'
  <2>1. Array' = Array /\ ArraySize' = ArraySize
    BY <1>2, <1>3, <1>4, <1>7 DEF MovedFacts, ArraySize, AloneFacts
  <2>2. AtPc("krealloc") = {} /\ (AtPc("krealloc") = {})' = FALSE
    BY <1>2, <1>4, <1>7 DEF MovedFacts, AloneFacts
  <2>3. QED
    BY <1>2, <1>3, <1>5, <2>1, <2>2, Sizes DEF ListInv, Memory
<1>12. ListOK' /\ Complete'
  BY <1>2, <1>3, <1>4, <1>7, <1>8 DEF MovedFacts, ListInv, ListOK, Complete, AloneFacts
<1>13. InProc' /\ ProcNotYet'
  BY <1>2, <1>3, <1>4, <1>7, <1>8 DEF MovedFacts, ListInv, InProc, ProcNotYet, AloneFacts
<1>14. QED
  BY <1>6, <1>8, <1>9, <1>10, <1>11, <1>12, <1>13 DEF ListInv

LEMMA HasRoomKeeps ==
  ASSUME ListInv, KeepHistory, NEW p \in Pids, HasRoom(p)
  PROVE  ListInv' /\ ListView' = ListView
<1>1. Typed /\ OneIoctl
  BY DEF ListInv, Turn
<1>2. /\ MovedFacts(p, "grow", "store") /\ scan' = scan /\ overlapped' = overlapped
      /\ task'[p].i = task[p].i /\ task'[p].new = task[p].new
  BY <1>1, Moved DEF HasRoom, Pcs
<1>3. /\ ~(INTERFACE_CAPACITY < AsCount(INTERFACE_COUNT + 1))
      /\ UNCHANGED <<INTERFACE_LIST, INTERFACE_COUNT, INTERFACE_CAPACITY, slots, ALLOCATED_ID,
                     ids, allocated, live, bind_pid, proc_entry, procfs, oops>>
  BY DEF HasRoom, Full, listVars, procVars
<1>4. /\ AloneFacts(p) /\ Storage(p)
      /\ Registration(p) /\ task[p].obj = allocated /\ allocated \in Ids
  BY <1>2, Owner DEF MovedFacts
<1>5. Typed'
  BY <1>1, <1>2, <1>3, <1>4, SteadyTyped DEF MovedFacts, Typed, TypeOK, Tasks, Pcs
<1>6. AloneFacts(p)'
  BY <1>2, <1>5, AloneNext DEF MovedFacts, InIoctl
<1>7. ListView' = ListView
  BY <1>2, <1>3, <1>4, <1>6, ViewKept DEF MovedFacts
<1>8. Turn'
  <2>1. INTERFACE_COUNT < INTERFACE_CAPACITY
    BY <1>2, <1>3, CountFits, Sizes DEF MovedFacts
  <2>2. QED
    BY <1>2, <1>3, <1>4, <1>6, <2>1 DEF MovedFacts, ListInv, Turn, Registration, Storage,
       AloneFacts, Slot, SlotOf, InArray, Typed, TypeOK
<1>9. Unused' /\ IdsOK'
  BY <1>2, <1>3, <1>4, <1>6 DEF MovedFacts, ListInv, Unused, IdsOK, Registration, AloneFacts,
     Typed, TypeOK
<1>10. Memory'
  <2>1. Array' = Array /\ ArraySize' = ArraySize
    BY <1>2, <1>3, <1>4, <1>6 DEF MovedFacts, ArraySize, AloneFacts
  <2>2. AtPc("krealloc") = {} /\ (AtPc("krealloc") = {})' = TRUE
    BY <1>2, <1>4, <1>6 DEF MovedFacts, AloneFacts
  <2>3. QED
    BY <1>2, <1>3, <2>1, <2>2, Sizes DEF ListInv, Memory
<1>11. ListOK' /\ Complete'
  BY <1>2, <1>3, <1>4, <1>6, <1>7 DEF MovedFacts, ListInv, ListOK, Complete, AloneFacts
<1>12. InProc' /\ ProcNotYet'
  BY <1>2, <1>3, <1>4, <1>6, <1>7 DEF MovedFacts, ListInv, InProc, ProcNotYet, AloneFacts
<1>13. QED
  BY <1>5, <1>7, <1>8, <1>9, <1>10, <1>11, <1>12 DEF ListInv

LEMMA NoRoomKeeps ==
  ASSUME ListInv, KeepHistory, NEW p \in Pids, NoRoom(p)
  PROVE  ListInv' /\ ListView' = ListView
<1>1. Typed /\ OneIoctl
  BY DEF ListInv, Turn
<1>2. /\ MovedFacts(p, "grow", "capacity") /\ scan' = scan /\ overlapped' = overlapped
      /\ task'[p].i = task[p].i /\ task'[p].new = task[p].new
  BY <1>1, Moved DEF NoRoom, Pcs
<1>3. /\ INTERFACE_CAPACITY < AsCount(INTERFACE_COUNT + 1)
      /\ UNCHANGED <<INTERFACE_LIST, INTERFACE_COUNT, INTERFACE_CAPACITY, slots, ALLOCATED_ID,
                     ids, allocated, live, bind_pid, proc_entry, procfs, oops>>
  BY DEF NoRoom, Full, listVars, procVars
<1>4. /\ AloneFacts(p) /\ Storage(p)
      /\ Registration(p) /\ task[p].obj = allocated /\ allocated \in Ids
  BY <1>2, Owner DEF MovedFacts
<1>5. Typed'
  BY <1>1, <1>2, <1>3, <1>4, SteadyTyped DEF MovedFacts, Typed, TypeOK, Tasks, Pcs
<1>6. AloneFacts(p)'
  BY <1>2, <1>5, AloneNext DEF MovedFacts, InIoctl
<1>7. ListView' = ListView
  BY <1>2, <1>3, <1>4, <1>6, ViewKept DEF MovedFacts
<1>8. Turn'
  <2>1. INTERFACE_CAPACITY = INTERFACE_COUNT
    BY <1>2, <1>3, CountFits, Sizes DEF MovedFacts
  <2>2. QED
    BY <1>2, <1>3, <1>4, <1>6, <2>1 DEF MovedFacts, ListInv, Turn, Registration, Storage,
       AloneFacts, Slot, SlotOf, InArray, Typed, TypeOK
<1>9. Unused' /\ IdsOK'
  BY <1>2, <1>3, <1>4, <1>6 DEF MovedFacts, ListInv, Unused, IdsOK, Registration, AloneFacts,
     Typed, TypeOK
<1>10. Memory'
  <2>1. Array' = Array /\ ArraySize' = ArraySize
    BY <1>2, <1>3, <1>4, <1>6 DEF MovedFacts, ArraySize, AloneFacts
  <2>2. AtPc("krealloc") = {} /\ (AtPc("krealloc") = {})' = TRUE
    BY <1>2, <1>4, <1>6 DEF MovedFacts, AloneFacts
  <2>3. QED
    BY <1>2, <1>3, <2>1, <2>2, Sizes DEF ListInv, Memory
<1>11. ListOK' /\ Complete'
  BY <1>2, <1>3, <1>4, <1>6, <1>7 DEF MovedFacts, ListInv, ListOK, Complete, AloneFacts
<1>12. InProc' /\ ProcNotYet'
  BY <1>2, <1>3, <1>4, <1>6, <1>7 DEF MovedFacts, ListInv, InProc, ProcNotYet, AloneFacts
<1>13. QED
  BY <1>5, <1>7, <1>8, <1>9, <1>10, <1>11, <1>12 DEF ListInv

LEMMA AddKeeps ==
  ASSUME ListInv, KeepHistory, NEW p \in Pids, add_interface_to_proc(p)
  PROVE  ListInv' /\ ListView' = ListView
<1> DEFINE o == task[p].obj
           same == {x \in Ids : bind_pid[x] = bind_pid[o]}
           mine == {x \in Ids \ {o} : bind_pid[x] = p}
<1>1. Typed /\ OneIoctl
  BY DEF ListInv, Turn
<1>2. /\ MovedFacts(p, "proc", "id") /\ scan' = scan /\ overlapped' = overlapped
      /\ task'[p].i = task[p].i /\ task'[p].new = task[p].new
  BY <1>1, Moved DEF add_interface_to_proc, Pcs
<1>3. UNCHANGED <<INTERFACE_LIST, INTERFACE_COUNT, INTERFACE_CAPACITY, slots, ALLOCATED_ID,
                  ids, allocated, live, bind_pid, oops>>
  BY DEF add_interface_to_proc, listVars
<1>4. /\ AloneFacts(p) /\ Storage(p)
      /\ Registration(p) /\ o = allocated /\ allocated \in Ids
  BY <1>2, Owner DEF MovedFacts
<1>5. /\ DOMAIN ListView = 1 .. INTERFACE_COUNT
      /\ \A j \in 1 .. INTERFACE_COUNT : ListView[j] = Slot(j)
  BY <1>2, <1>4 DEF MovedFacts, AloneFacts, Old, Slot
<1>6. \A j \in 1 .. INTERFACE_COUNT : Slot(j) # o /\ Slot(j) \in Ids \cup {Wild}
  <2>1. o # Wild
    BY <1>4 DEF Ids, Wild
  <2>2. \A j \in 1 .. INTERFACE_COUNT : Slot(j) # o
    BY <1>5, <2>1 DEF ListInv, ListOK
  <2>3. QED
    BY <1>1, <2>2, SlotTyped DEF Slot, Typed, TypeOK
<1>7. bind_pid[o] = p /\ same \ {o} = mine
  BY <1>4 DEF Registration
<1>8. proc_entry[o] = NoEntry /\ o \notin procfs
  <2>1. p \in Registering
    BY <1>2, <1>4 DEF MovedFacts, AloneFacts
  <2>2. QED
    BY <1>2, <2>1 DEF ListInv, ProcNotYet, MovedFacts
<1>9. \A j \in 1 .. INTERFACE_COUNT : Slot(j) \in same <=> Slot(j) \in mine
  BY <1>6, <1>7
<1>10. \/ \E k \in 1 .. INTERFACE_COUNT :
            /\ Slot(k) \in mine /\ \A j \in 1 .. k - 1 : Slot(j) \notin mine
            /\ proc_entry' = [proc_entry EXCEPT ![o] = proc_entry[Slot(k)]]
            /\ procfs' = procfs
       \/ /\ \A k \in 1 .. INTERFACE_COUNT : Slot(k) \notin mine
          /\ \/ proc_entry' = [proc_entry EXCEPT ![o] = o] /\ procfs' = procfs \cup {o}
             \/ proc_entry' = proc_entry /\ procfs' = procfs
  <2>1. CASE \E k \in 1 .. INTERFACE_COUNT :
               /\ IsFirstSlot(k, same)
               /\ proc_entry' = [proc_entry EXCEPT ![o] = proc_entry[Slot(k)]]
               /\ UNCHANGED procfs
    <3>1. PICK k \in 1 .. INTERFACE_COUNT :
               /\ IsFirstSlot(k, same)
               /\ proc_entry' = [proc_entry EXCEPT ![o] = proc_entry[Slot(k)]]
               /\ UNCHANGED procfs
      BY <2>1
    <3>2. \A j \in 1 .. k - 1 : j \in 1 .. INTERFACE_COUNT
      BY <1>1, <3>1 DEF Typed, TypeOK
    <3>3. Slot(k) \in mine /\ \A j \in 1 .. k - 1 : Slot(j) \notin mine
      BY <1>9, <3>1, <3>2 DEF IsFirstSlot
    <3>4. QED
      BY <3>1, <3>3
  <2>2. CASE \A k \in 1 .. INTERFACE_COUNT : ~IsFirstSlot(k, same)
    <3> DEFINE T == {k \in 1 .. INTERFACE_COUNT : Slot(k) \in same}
    <3>1. T = {}
      <4>1. SUFFICES ASSUME T # {} PROVE FALSE
        OBVIOUS
      <4>2. T \in SUBSET Nat
        BY <1>1 DEF Typed, TypeOK
      <4>3. PICK k \in T : \A j \in T : k <= j
        BY <4>1, <4>2, LeastNat
      <4>4. \A j \in 1 .. k - 1 : j \in 1 .. INTERFACE_COUNT /\ j \notin T
        BY <1>1, <4>2, <4>3 DEF Typed, TypeOK
      <4>5. QED
        BY <2>2, <4>3, <4>4 DEF IsFirstSlot
    <3>2. \A k \in 1 .. INTERFACE_COUNT : Slot(k) \notin mine
      BY <1>9, <3>1
    <3>3. \/ proc_entry' = [proc_entry EXCEPT ![o] = o] /\ procfs' = procfs \cup {o}
          \/ proc_entry' = proc_entry /\ procfs' = procfs
      BY <2>1, <2>2 DEF add_interface_to_proc
    <3>4. QED
      BY <3>2, <3>3
  <2>3. QED
    BY <2>1, <2>2 DEF add_interface_to_proc
<1>11. proc_entry' \in [Ids -> Ids \cup {NoEntry}] /\ procfs' \subseteq Ids
       /\ (\A x \in Ids \ {o} : proc_entry'[x] = proc_entry[x] /\ (x \in procfs' <=> x \in procfs))
  BY <1>1, <1>4, <1>6, <1>10 DEF Typed, NoEntry, Wild
<1>12. Typed'
  BY <1>1, <1>2, <1>3, <1>11, SteadyTyped DEF MovedFacts, Typed, TypeOK, Tasks, Pcs
<1>13. AloneFacts(p)'
  BY <1>2, <1>12, AloneNext DEF MovedFacts, InIoctl
<1>14. ListView' = ListView
  BY <1>2, <1>3, <1>4, <1>13, ViewKept DEF MovedFacts
<1>15. Turn'
  BY <1>2, <1>3, <1>4, <1>13 DEF MovedFacts, ListInv, Turn, Registration, Storage,
     AloneFacts, Slot, SlotOf, InArray, Typed, TypeOK
<1>16. Unused' /\ IdsOK'
  BY <1>1, <1>2, <1>3, <1>4, <1>11, <1>13 DEF MovedFacts, ListInv, Unused, IdsOK, AloneFacts,
     Typed, TypeOK
<1>17. Memory'
  <2>1. Array' = Array /\ ArraySize' = ArraySize
    BY <1>2, <1>3, <1>4, <1>13 DEF MovedFacts, ArraySize, AloneFacts
  <2>2. AtPc("krealloc") = {} /\ (AtPc("krealloc") = {})' = TRUE
    BY <1>2, <1>4, <1>13 DEF MovedFacts, AloneFacts
  <2>3. QED
    BY <1>2, <1>3, <2>1, <2>2 DEF ListInv, Memory
<1>18. ListOK' /\ Complete'
  BY <1>2, <1>3, <1>4, <1>13, <1>14 DEF MovedFacts, ListInv, ListOK, Complete, AloneFacts
<1>19. ProcNotYet'
  BY <1>2, <1>13 DEF MovedFacts, ProcNotYet, AloneFacts
<1>20. InProc'
  <2>1. Registering' = {p} /\ task'[p].obj = o
    BY <1>2, <1>13 DEF MovedFacts, AloneFacts
  <2> DEFINE mine2 == {x \in Ids \ {o} : bind_pid'[x] = p}
  <2>2. mine2 = mine
    BY <1>3
  <2> HIDE DEF mine
  <2>3. /\ DOMAIN ListView' = 1 .. INTERFACE_COUNT
        /\ \A j \in 1 .. INTERFACE_COUNT : ListView'[j] = Slot(j)
    BY <1>5, <1>14
  <2>4. CASE \E k \in 1 .. INTERFACE_COUNT :
            /\ Slot(k) \in mine /\ \A j \in 1 .. k - 1 : Slot(j) \notin mine
            /\ proc_entry' = [proc_entry EXCEPT ![o] = proc_entry[Slot(k)]]
            /\ procfs' = procfs
    <3>1. PICK k \in 1 .. INTERFACE_COUNT :
            /\ Slot(k) \in mine /\ \A j \in 1 .. k - 1 : Slot(j) \notin mine
            /\ proc_entry' = [proc_entry EXCEPT ![o] = proc_entry[Slot(k)]]
            /\ procfs' = procfs
      BY <2>4
    <3>2. \A j \in 1 .. k - 1 : j \in 1 .. INTERFACE_COUNT
      BY <1>1, <3>1 DEF Typed, TypeOK
    <3>3. ListView'[k] \in mine /\ \A j \in 1 .. k - 1 : ListView'[j] \notin mine
      BY <2>3, <3>1, <3>2
    <3>4. Slot(k) \in Ids \ {o}
      BY <3>1 DEF mine
    <3>5. proc_entry'[o] = proc_entry[Slot(k)] /\ proc_entry'[Slot(k)] = proc_entry[Slot(k)]
      BY <1>1, <1>4, <1>11, <3>1, <3>4 DEF Typed
    <3>6. QED
      BY <1>8, <2>1, <2>2, <2>3, <3>1, <3>3, <3>5 DEF InProc
  <2>5. CASE /\ \A k \in 1 .. INTERFACE_COUNT : Slot(k) \notin mine
             /\ \/ proc_entry' = [proc_entry EXCEPT ![o] = o] /\ procfs' = procfs \cup {o}
                \/ proc_entry' = proc_entry /\ procfs' = procfs
    <3>1. \A k \in DOMAIN ListView' : ListView'[k] \notin mine
      BY <2>3, <2>5
    <3>2. \/ proc_entry'[o] = o /\ o \in procfs'
          \/ proc_entry'[o] = NoEntry /\ o \notin procfs'
      BY <1>1, <1>4, <1>8, <2>5 DEF Typed
    <3>3. QED
      BY <2>1, <2>2, <3>1, <3>2 DEF InProc
  <2>6. QED
    BY <1>10, <2>4, <2>5 DEF mine
<1>21. QED
  BY <1>12, <1>14, <1>15, <1>16, <1>17, <1>18, <1>19, <1>20 DEF ListInv

\* Nobody's ioctl is under way where another is entered.
EnteredFacts(p, t) ==
  /\ ~oops /\ NoIoctl /\ (\A s \in Scanners : scan[s].pc # "null")
  /\ task'[p] = t /\ (\A q \in Pids : q # p => task'[q] = task[q])
  /\ task' \in Tasks /\ Typed /\ OneIoctl /\ OneIoctl' /\ InIoctl(p)'

LEMMA Entered ==
  ASSUME "ioctls" \notin raced', KeepHistory, Typed, OneIoctl, NEW p \in Pids, scan' = scan,
         NEW t \in [pc : Pcs, obj : Ids \cup {0}, i : Nat, new : Blocks \cup {NULL}],
         t.pc # "idle", Enter(p, t)
  PROVE  /\ EnteredFacts(p, t) /\ NobodyFacts
         /\ overlapped' = overlapped \cup {s \in Scanners : scan[s].pc # "idle"}
<1>1. task \in Tasks
  BY DEF Typed, TypeOK, Pcs, Tasks
<1>2. /\ ~oops /\ ~InIoctl(p) /\ task' = [task EXCEPT ![p] = t]
      /\ overlapped' = overlapped \cup {s \in Scanners : scan[s].pc # "idle"}
  BY DEF Enter, MayEnter
<1>3. task'[p] = t /\ (\A q \in Pids : q # p => task'[q] = task[q]) /\ task' \in Tasks
  BY <1>1, <1>2 DEF Tasks
<1>4. InIoctl(p)'
  BY <1>3 DEF InIoctl
<1>5. (\A q \in Pids \ {p} : ~InIoctl(q)') /\ \A s \in Scanners : scan'[s].pc # "null"
  BY <1>4 DEF KeepHistory, KeepRaced
<1>6. NoIoctl /\ \A s \in Scanners : scan[s].pc # "null"
  BY <1>2, <1>3, <1>5 DEF NoIoctl, InIoctl
<1>7. OneIoctl'
  BY <1>5 DEF OneIoctl
<1>8. QED
  BY <1>2, <1>3, <1>4, <1>6, <1>7, Nobody DEF EnteredFacts

LEMMA AllocKeeps ==
  ASSUME "ioctls" \notin raced', ListInv, KeepHistory, NEW p \in Pids, alloc_interface(p)
  PROVE  ListInv' /\ ListView' = ListView
<1> DEFINE t == [pc |-> "proc", obj |-> allocated + 1, i |-> 0, new |-> NULL]
           o == allocated + 1
<1>1. Typed /\ OneIoctl
  BY DEF ListInv, Turn
<1>2. /\ o \in Ids /\ live' = live \cup {o} /\ bind_pid' = [bind_pid EXCEPT ![o] = p]
      /\ allocated' = o /\ Enter(p, t) /\ scan' = scan
      /\ UNCHANGED <<INTERFACE_LIST, INTERFACE_COUNT, INTERFACE_CAPACITY, slots, ALLOCATED_ID,
                     ids, proc_entry, procfs, oops>>
  <2>1. At("proc", allocated + 1, 0) = t
    BY DEF At
  <2>2. o \in Ids
    BY <1>1, ThreadsAssumption DEF alloc_interface, Typed, TypeOK, Ids
  <2>3. QED
    BY <2>1, <2>2 DEF alloc_interface, listVars
<1>3. EnteredFacts(p, t) /\ NobodyFacts
  <2>1. \A x \in Ids : [pc |-> "proc", obj |-> x, i |-> 0, new |-> NULL]
           \in [pc : Pcs, obj : Ids \cup {0}, i : Nat, new : Blocks \cup {NULL}]
    BY DEF Pcs
  <2>2. QED
    BY <1>1, <1>2, <2>1, Entered, Zenon
<1>4. task'[p].pc = "proc" /\ task'[p].obj = o /\ task'[p].new = NULL
  BY <1>3 DEF EnteredFacts
<1> HIDE DEF t
<1>5. Typed'
  <2>1. allocated' \in 0 .. MaxRegistrations /\ live' \subseteq 1 .. allocated'
    BY <1>1, <1>2, ThreadsAssumption DEF Typed, TypeOK, Ids
  <2>2. bind_pid' \in [Ids -> Pids]
    BY <1>1, <1>2 DEF Typed
  <2>3. overlapped' \subseteq Scanners
    BY <1>1 DEF alloc_interface, Enter, Typed, TypeOK
  <2>4. QED
    BY <1>1, <1>2, <1>3, <2>1, <2>2, <2>3, SteadyTyped DEF EnteredFacts, Typed, TypeOK, Tasks, Pcs
<1>6. AloneFacts(p)'
  BY <1>3, <1>5, AloneNext DEF EnteredFacts
<1>7. ListView' = ListView
  <2>1. ListView = Old /\ ListView' = Old'
    BY <1>3, <1>4, <1>6 DEF NobodyFacts, AloneFacts
  <2>2. Old' = Old
    BY <1>2 DEF Old, SlotOf, InArray
  <2>3. QED
    BY <2>1, <2>2
<1>8. ids[o] = 0 /\ proc_entry[o] = NoEntry /\ o \notin procfs /\ o \notin live
  BY <1>1, <1>2 DEF ListInv, Unused, Typed, TypeOK
<1>9. ALLOCATED_ID = o /\ INTERFACE_COUNT < o
  BY <1>1, <1>3 DEF ListInv, Turn, NobodyFacts, Typed, TypeOK
<1>10. \A q \in Pids : q # p => task'[q].pc = "idle" /\ task'[q] = task[q]
  BY <1>3 DEF EnteredFacts, NoIoctl, InIoctl
<1>11. Turn'
  <2>1. Registration(p)'
    BY <1>1, <1>2, <1>4, <1>8, <1>9 DEF Registration, Typed
  <2>2. Storage(p)'
    BY <1>4 DEF Storage
  <2>3. \A q \in Pids : q # p => Storage(q)'
    BY <1>2, <1>10 DEF ListInv, Turn, Storage, Slot, SlotOf, InArray
  <2>4. QED
    BY <1>1, <1>2, <1>3, <1>4, <1>6, <1>9, <2>1, <2>2, <2>3
       DEF EnteredFacts, Turn, AloneFacts, Typed, TypeOK
<1>12. Unused'
  BY <1>1, <1>2, <1>8 DEF ListInv, Unused, Typed, TypeOK, Ids
<1>13. IdsOK'
  BY <1>1, <1>2, <1>3, <1>4, <1>6 DEF ListInv, IdsOK, NobodyFacts, AloneFacts, Typed, TypeOK, Ids
<1>14. Memory'
  <2>1. Array' = Array /\ ArraySize' = ArraySize
    BY <1>2, <1>3, <1>4, <1>6 DEF NobodyFacts, ArraySize, AloneFacts
  <2>2. AtPc("krealloc") = {} /\ (AtPc("krealloc") = {})' = TRUE
    BY <1>3, <1>4, <1>6 DEF NobodyFacts, AloneFacts
  <2>3. QED
    BY <1>2, <2>1, <2>2 DEF ListInv, Memory
<1>15. ListOK'
  <2>1. \A j \in DOMAIN ListView : ListView[j] # Wild =>
          ListView[j] \in live /\ \A q \in Pids : ListView[j] # task[q].obj
    BY DEF ListInv, ListOK
  <2>2. \A q \in Pids : task'[q].obj = o \/ task'[q].obj = task[q].obj
    BY <1>4, <1>10
  <2>3. QED
    <3>1. \A j \in DOMAIN ListView : ListView[j] # Wild =>
            ListView[j] \in live' /\ \A q \in Pids : ListView[j] # task'[q].obj
      BY <1>2, <1>8, <2>1, <2>2
    <3>2. QED
      BY <1>7, <3>1 DEF ListOK
<1>16. Complete'
  <2>1. live' = 1 .. allocated' => live = 1 .. allocated
    <3>1. SUFFICES ASSUME live' = 1 .. o PROVE live = 1 .. allocated
      BY <1>2
    <3>2. allocated \in Nat /\ live \subseteq 1 .. allocated
      BY <1>1 DEF Typed, TypeOK
    <3>3. \A x \in 1 .. allocated : x \in 1 .. o /\ x # o
      BY <3>2
    <3>4. \A x \in 1 .. allocated : x \in live
      BY <1>2, <3>1, <3>3
    <3>5. QED
      BY <3>2, <3>4
  <2>2. QED
    BY <1>1, <1>2, <1>3, <1>4, <1>6, <1>7, <2>1
       DEF ListInv, Complete, NobodyFacts, AloneFacts, Typed, TypeOK
<1>17. InProc' /\ ProcNotYet'
  BY <1>2, <1>4, <1>6, <1>8 DEF InProc, ProcNotYet, AloneFacts
<1>18. QED
  BY <1>5, <1>7, <1>11, <1>12, <1>13, <1>14, <1>15, <1>16, <1>17 DEF ListInv

LEMMA ExtendedIs ==
  ASSUME Typed, NEW b \in Blocks \cup {NULL}
  PROVE  LET old == IF b = NULL \/ slots[b] = NULL THEN <<>> ELSE slots[b] IN
         /\ Extended(b) \in Seq(Ids \cup {Wild}) /\ Extended(b) # NULL
         /\ Len(Extended(b)) = INTERFACE_CAPACITY
         /\ \A j \in 1 .. INTERFACE_CAPACITY :
              Extended(b)[j] = IF j <= Len(old) THEN old[j] ELSE Wild
<1> DEFINE old == IF b = NULL \/ slots[b] = NULL THEN <<>> ELSE slots[b]
           new == [j \in 1 .. INTERFACE_CAPACITY |-> IF j <= Len(old) THEN old[j] ELSE Wild]
<1>1. Extended(b) = new
  BY DEF Extended
<1>2. INTERFACE_CAPACITY \in Nat
  BY DEF Typed, TypeOK
<1>3. old \in Seq(Ids \cup {Wild})
  BY DEF Typed
<1> HIDE DEF old
<1>4. \A j \in 1 .. INTERFACE_CAPACITY :
        (IF j <= Len(old) THEN old[j] ELSE Wild) \in Ids \cup {Wild}
  BY <1>2, <1>3
<1>5. new \in Seq(Ids \cup {Wild})
  BY <1>2, <1>4
<1>6. Len(new) = INTERFACE_CAPACITY
  BY <1>2
<1>7. new # NULL
  <2>1. Ids \cup {Wild} \subseteq Nat
    BY DEF Ids, Wild
  <2>2. new \in Seq(Nat)
    BY <1>5, <2>1
  <2>3. QED
    BY <2>2, ThreadsAssumption
<1>8. QED
  BY <1>1, <1>5, <1>6, <1>7 DEF old

LEMMA KreallocKeeps ==
  ASSUME ListInv, KeepHistory, NEW p \in Pids, krealloc(p)
  PROVE  ListInv' /\ ListView' = ListView
<1>1. Typed /\ OneIoctl
  BY DEF ListInv, Turn
<1>2. PICK b \in Blocks :
        /\ ~oops /\ task[p].pc = "krealloc"
        /\ b = INTERFACE_LIST \/ slots[b] = NULL
        /\ slots' = [c \in Blocks |-> IF c = b THEN Extended(INTERFACE_LIST)
                                      ELSE IF c = INTERFACE_LIST THEN NULL ELSE slots[c]]
        /\ task' = [task EXCEPT ![p].pc = "point", ![p].new = b]
        /\ UNCHANGED <<INTERFACE_LIST, INTERFACE_COUNT, INTERFACE_CAPACITY, ALLOCATED_ID,
                 allocated, live, ids, bind_pid, proc_entry, procfs, oops, scan, overlapped>>
  BY DEF krealloc, procVars
<1>3. task \in Tasks
  BY <1>1 DEF Typed, TypeOK, Tasks, Pcs
<1>4. /\ task'[p].pc = "point" /\ task'[p].new = b /\ task'[p].obj = task[p].obj
      /\ task' \in Tasks
      /\ \A q \in Pids : q # p => task'[q] = task[q]
  BY <1>2, <1>3 DEF Tasks, Pcs
<1>5. MovedFacts(p, "krealloc", "point")
  BY <1>1, <1>2, <1>4 DEF MovedFacts, OneIoctl, InIoctl
<1>6. /\ slots' = [c \in Blocks |-> IF c = b THEN Extended(INTERFACE_LIST)
                                    ELSE IF c = INTERFACE_LIST THEN NULL ELSE slots[c]]
      /\ UNCHANGED <<INTERFACE_LIST, INTERFACE_COUNT, INTERFACE_CAPACITY, ALLOCATED_ID,
                     allocated, live, ids, bind_pid, proc_entry, procfs, oops, scan, overlapped>>
      /\ task[p].pc = "krealloc"
  BY <1>2
<1>7. /\ AloneFacts(p) /\ Storage(p)
      /\ Registration(p) /\ task[p].obj = allocated /\ allocated \in Ids
  BY <1>5, Owner DEF MovedFacts
<1>8. /\ Extended(INTERFACE_LIST) \in Seq(Ids \cup {Wild}) /\ Extended(INTERFACE_LIST) # NULL
      /\ Len(Extended(INTERFACE_LIST)) = INTERFACE_CAPACITY
  BY <1>1, ExtendedIs DEF Typed, TypeOK
<1>9. Typed'
  <2>1. slots' \in [Blocks -> Seq(Ids \cup {Wild}) \cup {NULL}]
    BY <1>1, <1>6, <1>8 DEF Typed
  <2>2. QED
    BY <1>1, <1>6, <1>4, <2>1, SteadyTyped DEF Typed, TypeOK, Tasks, Pcs
<1>10. AloneFacts(p)'
  BY <1>5, <1>9, AloneNext DEF MovedFacts, InIoctl
<1>11. Array = INTERFACE_LIST /\ Array' = b /\ slots'[b] = Extended(INTERFACE_LIST)
  BY <1>6, <1>4, <1>7, <1>10 DEF AloneFacts
<1>12. ArraySize = INTERFACE_COUNT /\ INTERFACE_CAPACITY = INTERFACE_COUNT + GRADIENT
  <2>1. INTERFACE_CAPACITY = INTERFACE_COUNT + GRADIENT
    BY <1>6, <1>7 DEF Storage
  <2>2. AtPc("krealloc") # {}
    BY <1>6, <1>7 DEF AloneFacts
  <2>3. INTERFACE_CAPACITY = ArraySize + GRADIENT
    BY <2>2 DEF ListInv, Memory
  <2>4. QED
    BY <2>1, <2>3, Sizes
<1>13. ListView' = ListView
  <2>1. /\ ListView = [j \in 1 .. INTERFACE_COUNT |-> SlotOf(INTERFACE_LIST, j)]
        /\ ListView' = [j \in 1 .. INTERFACE_COUNT |-> SlotOf(b, j)']
    BY <1>6, <1>4, <1>7, <1>10 DEF AloneFacts, Old
  <2>2. ASSUME NEW j \in 1 .. INTERFACE_COUNT PROVE SlotOf(b, j)' = SlotOf(INTERFACE_LIST, j)
    <3>1. INTERFACE_LIST # NULL /\ slots[INTERFACE_LIST] # NULL
      BY <1>11, <1>12, Sizes DEF ArraySize, ListInv, Memory
    <3>2. Len(slots[INTERFACE_LIST]) = INTERFACE_COUNT
      BY <1>11, <1>12, <3>1 DEF ArraySize
    <3>3. SlotOf(INTERFACE_LIST, j) = slots[INTERFACE_LIST][j]
      BY <3>1, <3>2 DEF SlotOf, InArray
    <3>4. j \in 1 .. INTERFACE_CAPACITY /\ j <= Len(slots[INTERFACE_LIST])
      BY <1>12, <3>2, Sizes
    <3>5. Extended(INTERFACE_LIST)[j] = slots[INTERFACE_LIST][j]
      BY <1>1, <3>1, <3>4, ExtendedIs DEF Typed, TypeOK
    <3>6. b # NULL
      BY ThreadsAssumption
    <3>7. SlotOf(b, j)' = slots'[b][j]
      BY <1>8, <1>11, <3>4, <3>6 DEF SlotOf, InArray
    <3>8. QED
      BY <1>11, <3>3, <3>5, <3>7
  <2>3. QED
    BY <2>1, <2>2
<1>14. Turn'
  BY <1>6, <1>4, <1>5, <1>7, <1>10, <1>12, Sizes, ThreadsAssumption
     DEF MovedFacts, ListInv, Turn, Registration, Storage, AloneFacts
<1>15. Unused' /\ IdsOK'
  BY <1>6, <1>4, <1>7, <1>10 DEF ListInv, Unused, IdsOK, AloneFacts
<1>16. Memory'
  <2>1. \A c \in Blocks : slots'[c] # NULL /\ c # b => slots'[c] = <<>>
    BY <1>6, <1>11 DEF ListInv, Memory
  <2>2. ArraySize' = INTERFACE_CAPACITY
    BY <1>8, <1>11, ThreadsAssumption DEF ArraySize
  <2>3. (AtPc("krealloc") = {})'
    BY <1>4, <1>10 DEF AloneFacts
  <2>4. slots'[b] # NULL
    BY <1>8, <1>11
  <2>5. QED
    BY <1>6, <1>11, <2>1, <2>2, <2>3, <2>4, Sizes DEF Memory
<1>17. ListOK' /\ Complete'
  BY <1>6, <1>4, <1>5, <1>7, <1>10, <1>13 DEF MovedFacts, ListInv, ListOK, Complete, AloneFacts
<1>18. InProc' /\ ProcNotYet'
  BY <1>6, <1>4, <1>7, <1>10, <1>13 DEF ListInv, InProc, ProcNotYet, AloneFacts
<1>19. QED
  BY <1>9, <1>13, <1>14, <1>15, <1>16, <1>17, <1>18 DEF ListInv

LEMMA PointKeeps ==
  ASSUME ListInv, KeepHistory, NEW p \in Pids, PointToNew(p)
  PROVE  ListInv' /\ ListView' = ListView
<1>1. Typed /\ OneIoctl
  BY DEF ListInv, Turn
<1>2. /\ MovedFacts(p, "point", "store") /\ scan' = scan /\ overlapped' = overlapped
      /\ task'[p].i = task[p].i /\ task'[p].new = task[p].new
  BY <1>1, Moved DEF PointToNew, Pcs
<1>3. /\ INTERFACE_LIST' = task[p].new
      /\ UNCHANGED <<INTERFACE_COUNT, INTERFACE_CAPACITY, slots, ALLOCATED_ID, allocated,
                     live, ids, bind_pid, proc_entry, procfs, oops>>
  BY DEF PointToNew, procVars
<1>4. /\ AloneFacts(p) /\ Storage(p)
      /\ Registration(p) /\ task[p].obj = allocated /\ allocated \in Ids
  BY <1>2, Owner DEF MovedFacts
<1>5. Typed'
  <2>1. task[p].new \in Blocks \cup {NULL}
    BY <1>1 DEF Typed, TypeOK
  <2>2. QED
    BY <1>1, <1>2, <1>3, <2>1, SteadyTyped DEF MovedFacts, Typed, TypeOK, Tasks, Pcs
<1>6. AloneFacts(p)'
  BY <1>2, <1>5, AloneNext DEF MovedFacts, InIoctl
<1>7. Array' = Array /\ Array = INTERFACE_LIST'
  BY <1>2, <1>3, <1>4, <1>6 DEF MovedFacts, AloneFacts
<1>8. ListView' = ListView
  <2>1. ListView = [j \in 1 .. INTERFACE_COUNT |-> SlotOf(task[p].new, j)]
    BY <1>2, <1>4 DEF MovedFacts, AloneFacts
  <2>2. ListView' = Old'
    BY <1>2, <1>6 DEF MovedFacts, AloneFacts
  <2>3. Old' = [j \in 1 .. INTERFACE_COUNT |-> SlotOf(task[p].new, j)]
    BY <1>3 DEF Old, SlotOf, InArray
  <2>4. QED
    BY <2>1, <2>2, <2>3
<1>9. Turn'
  BY <1>2, <1>3, <1>4, <1>6 DEF MovedFacts, ListInv, Turn, Registration, Storage, AloneFacts
<1>10. Unused' /\ IdsOK'
  BY <1>2, <1>3, <1>4, <1>6 DEF MovedFacts, ListInv, Unused, IdsOK, AloneFacts
<1>11. Memory'
  <2>1. ArraySize' = ArraySize
    BY <1>3, <1>7 DEF ArraySize
  <2>2. AtPc("krealloc") = {} /\ (AtPc("krealloc") = {})'
    BY <1>2, <1>4, <1>6 DEF MovedFacts, AloneFacts
  <2>3. QED
    BY <1>3, <1>7, <2>1, <2>2 DEF ListInv, Memory
<1>12. ListOK' /\ Complete'
  BY <1>2, <1>3, <1>4, <1>6, <1>8 DEF MovedFacts, ListInv, ListOK, Complete, AloneFacts
<1>13. InProc' /\ ProcNotYet'
  BY <1>2, <1>3, <1>4, <1>6, <1>8 DEF MovedFacts, ListInv, InProc, ProcNotYet, AloneFacts
<1>14. QED
  BY <1>5, <1>8, <1>9, <1>10, <1>11, <1>12, <1>13 DEF ListInv

LEMMA CountFirstKeeps ==
  ASSUME ListInv, KeepHistory, NEW p \in Pids, CountFirst(p)
  PROVE  ListInv' /\ ListView' = ListView
<1>1. Typed /\ OneIoctl
  BY DEF ListInv, Turn
<1>2. /\ ~oops /\ task[p].pc = "store"
      /\ task' = [task EXCEPT ![p].pc = "slot", ![p].i = INTERFACE_COUNT + 1]
      /\ INTERFACE_COUNT' = AsCount(INTERFACE_COUNT + 1)
  BY DEF CountFirst
<1>3. UNCHANGED <<INTERFACE_LIST, INTERFACE_CAPACITY, slots, ALLOCATED_ID, allocated, live, ids,
                  bind_pid, proc_entry, procfs, oops, scan, overlapped>>
  BY DEF CountFirst, procVars
<1>4. /\ task \in Tasks /\ INTERFACE_COUNT \in Nat /\ INTERFACE_COUNT + 1 \in Nat
      /\ INTERFACE_COUNT' = INTERFACE_COUNT + 1
  <2>1. InIoctl(p)
    BY <1>2 DEF InIoctl
  <2>2. AsCount(INTERFACE_COUNT + 1) = INTERFACE_COUNT + 1
    BY <1>2, <2>1, CountFits
  <2>3. QED
    BY <1>1, <1>2, <2>2, Sizes DEF Typed, TypeOK, Tasks, Pcs
<1>5. /\ task'[p].pc = "slot" /\ task'[p].i = INTERFACE_COUNT' /\ task'[p].obj = task[p].obj
      /\ task'[p].new = task[p].new /\ task' \in Tasks
      /\ \A q \in Pids : q # p => task'[q] = task[q]
  BY <1>2, <1>4 DEF Tasks, Pcs
<1>6. MovedFacts(p, "store", "slot")
  BY <1>1, <1>2, <1>5 DEF MovedFacts, OneIoctl, InIoctl
<1>7. INTERFACE_COUNT' = INTERFACE_COUNT + 1 /\ task[p].pc = "store"
  BY <1>2, <1>4
<1>8. /\ AloneFacts(p) /\ Storage(p)
      /\ Registration(p) /\ task[p].obj = allocated /\ allocated \in Ids
  BY <1>6, Owner DEF MovedFacts
<1>9. /\ INTERFACE_COUNT < allocated /\ INTERFACE_COUNT < INTERFACE_CAPACITY
      /\ INTERFACE_COUNT' \in 0 .. MaxCount
      /\ task[p].new # NULL => INTERFACE_CAPACITY = INTERFACE_COUNT' - 1 + GRADIENT
  <2>1. /\ INTERFACE_COUNT < allocated /\ INTERFACE_COUNT < INTERFACE_CAPACITY
        /\ task[p].new # NULL => INTERFACE_CAPACITY = INTERFACE_COUNT + GRADIENT
    BY <1>7, <1>8 DEF Registration, Storage
  <2>2. QED
    BY <1>7, <1>8, <2>1, Sizes, ThreadsAssumption DEF Ids
<1>10. Typed'
  BY <1>1, <1>3, <1>5, <1>9, SteadyTyped DEF Typed, TypeOK, Tasks, Pcs
<1>11. AloneFacts(p)'
  BY <1>6, <1>10, AloneNext DEF MovedFacts, InIoctl
<1>12. ListView' = ListView
  <2>1. ListView = Old /\ ListView' = [j \in 1 .. INTERFACE_COUNT' - 1 |-> SlotOf(INTERFACE_LIST, j)']
    BY <1>5, <1>7, <1>8, <1>11 DEF AloneFacts
  <2>2. INTERFACE_COUNT' - 1 = INTERFACE_COUNT /\ \A j : SlotOf(INTERFACE_LIST, j)' = SlotOf(INTERFACE_LIST, j)
    BY <1>3, <1>4, <1>7 DEF SlotOf, InArray
  <2>3. QED
    BY <2>1, <2>2 DEF Old
<1>13. Turn'
  <2>1. Registration(p)'
    BY <1>3, <1>5, <1>7, <1>8 DEF Registration
  <2>2. Storage(p)'
    BY <1>3, <1>4, <1>5, <1>7, <1>8, <1>9 DEF Storage
  <2>3. \A q \in Pids : q # p => task'[q].pc = "idle" /\ task'[q].obj = 0 /\ task'[q].new = NULL
    BY <1>6 DEF MovedFacts, ListInv, Turn, Storage
  <2>4. \A q \in Pids : q # p => Storage(q)'
    BY <2>3 DEF Storage
  <2>5. INTERFACE_COUNT' <= allocated'
    BY <1>3, <1>4, <1>7, <1>8, <1>9, ThreadsAssumption DEF Ids
  <2>6. QED
    BY <1>5, <1>6, <1>11, <2>1, <2>2, <2>4, <2>5 DEF MovedFacts, Turn, AloneFacts
<1>14. Unused' /\ IdsOK'
  BY <1>3, <1>5, <1>7, <1>8, <1>11 DEF ListInv, Unused, IdsOK, AloneFacts
<1>15. Memory'
  <2>1. Array' = Array /\ ArraySize' = ArraySize
    BY <1>3, <1>5, <1>7, <1>8, <1>11 DEF ArraySize, AloneFacts
  <2>2. AtPc("krealloc") = {} /\ (AtPc("krealloc") = {})'
    BY <1>5, <1>7, <1>8, <1>11 DEF AloneFacts
  <2>3. INTERFACE_COUNT' <= INTERFACE_CAPACITY'
    BY <1>3, <1>7, <1>9, Sizes
  <2>4. QED
    BY <1>3, <2>1, <2>2, <2>3 DEF ListInv, Memory
<1>16. ListOK' /\ Complete'
  BY <1>3, <1>5, <1>6, <1>7, <1>8, <1>11, <1>12 DEF MovedFacts, ListInv, ListOK, Complete, AloneFacts
<1>17. InProc' /\ ProcNotYet'
  BY <1>3, <1>5, <1>7, <1>8, <1>11, <1>12 DEF ListInv, InProc, ProcNotYet, AloneFacts
<1>18. QED
  BY <1>10, <1>12, <1>13, <1>14, <1>15, <1>16, <1>17 DEF ListInv

-----------------------------------------------------------------------------
(* Stores into the array.                                                  *)

LEMMA InBounds ==
  ASSUME ListInv, NEW p \in Pids, InIoctl(p), task[p].pc \notin {"krealloc", "point"},
         NEW k \in 1 .. INTERFACE_CAPACITY
  PROVE  INTERFACE_LIST \in Blocks /\ InArray(INTERFACE_LIST, k)
<1>1. AloneFacts(p)
  BY Owner
<1>2. Array = INTERFACE_LIST /\ AtPc("krealloc") = {}
  BY <1>1 DEF AloneFacts
<1>3. INTERFACE_CAPACITY = ArraySize + 0
  BY <1>2 DEF ListInv, Memory
<1>4. k \in 1 .. ArraySize
  BY <1>3, Sizes
<1>5. INTERFACE_LIST # NULL
  BY <1>2, <1>4 DEF ArraySize
<1>6. INTERFACE_LIST \in Blocks
  BY <1>5 DEF ListInv, Typed, TypeOK
<1>7. slots[INTERFACE_LIST] # NULL /\ ArraySize = Len(slots[INTERFACE_LIST])
  BY <1>2, <1>5 DEF ListInv, Memory, ArraySize
<1>8. QED
  BY <1>4, <1>5, <1>6, <1>7 DEF InArray

\* What a store does to the memory.
LEMMA Stored ==
  ASSUME Typed, NEW k \in Nat, NEW o \in Ids \cup {Wild}, INTERFACE_LIST \in Blocks,
         InArray(INTERFACE_LIST, k), StoreAt(k, o), INTERFACE_LIST' = INTERFACE_LIST
  PROVE  /\ oops' = oops
         /\ slots' \in [Blocks -> Seq(Ids \cup {Wild}) \cup {NULL}]
         /\ \A c \in Blocks : c # INTERFACE_LIST => slots'[c] = slots[c]
         /\ slots[INTERFACE_LIST] # NULL /\ slots'[INTERFACE_LIST] # NULL
         /\ Len(slots'[INTERFACE_LIST]) = Len(slots[INTERFACE_LIST])
         /\ \A j : SlotOf(INTERFACE_LIST, j)' = IF j = k THEN o ELSE SlotOf(INTERFACE_LIST, j)
<1> DEFINE b == INTERFACE_LIST
           old == slots[b]
           new == [old EXCEPT ![k] = o]
<1>1. b # NULL /\ old # NULL /\ k \in 1 .. Len(old)
  BY DEF InArray
<1>2. slots' = [slots EXCEPT ![b] = new] /\ oops' = oops
  BY DEF StoreAt
<1>3. old \in Seq(Ids \cup {Wild})
  BY <1>1 DEF Typed
<1> HIDE DEF old
<1>4. new \in Seq(Ids \cup {Wild}) /\ Len(new) = Len(old)
      /\ \A j \in 1 .. Len(old) : new[j] = IF j = k THEN o ELSE old[j]
  BY <1>1, <1>3
<1> HIDE DEF new
<1>5. new # NULL
  <2>1. Ids \cup {Wild} \subseteq Nat
    BY DEF Ids, Wild
  <2>2. new \in Seq(Nat)
    BY <1>4, <2>1
  <2>3. QED
    BY <2>2, ThreadsAssumption
<1>6. slots' \in [Blocks -> Seq(Ids \cup {Wild}) \cup {NULL}]
  BY <1>2, <1>4 DEF Typed
<1>7. slots'[b] = new /\ \A c \in Blocks : c # b => slots'[c] = slots[c]
  BY <1>2 DEF Typed
<1>8. \A j : SlotOf(b, j)' = IF j = k THEN o ELSE SlotOf(b, j)
  <2>1. \A j : InArray(b, j)' <=> InArray(b, j)
    BY <1>1, <1>4, <1>5, <1>7 DEF InArray, old
  <2>2. \A j : InArray(b, j) <=> j \in 1 .. Len(old)
    BY <1>1 DEF InArray, old
  <2>3. \A j : SlotOf(b, j)' = IF InArray(b, j) THEN new[j] ELSE Wild
    BY <1>7, <2>1 DEF SlotOf
  <2>4. \A j : SlotOf(b, j) = IF InArray(b, j) THEN old[j] ELSE Wild
    BY DEF SlotOf, old
  <2>5. QED
    BY <1>1, <1>4, <2>2, <2>3, <2>4
<1>9. QED
  BY <1>1, <1>2, <1>4, <1>5, <1>6, <1>7, <1>8 DEF old

LEMMA SlotFirstKeeps ==
  ASSUME ListInv, KeepHistory, NEW p \in Pids, SlotFirst(p)
  PROVE  ListInv' /\ ListView' = ListView /\ oops' = oops
<1> DEFINE n == INTERFACE_COUNT + 1
           o == task[p].obj
<1>1. Typed /\ OneIoctl
  BY DEF ListInv, Turn
<1>2. /\ ~oops /\ task[p].pc = "store"
      /\ task' = [task EXCEPT ![p].pc = "count", ![p].i = n]
      /\ StoreAt(n, o)
  BY DEF SlotFirst
<1>3. UNCHANGED <<INTERFACE_LIST, INTERFACE_COUNT, INTERFACE_CAPACITY, ALLOCATED_ID, allocated,
                  live, ids, bind_pid, proc_entry, procfs, scan, overlapped>>
  BY DEF SlotFirst, procVars
<1>4. task \in Tasks /\ INTERFACE_COUNT \in Nat /\ n \in Nat
  BY <1>1, Sizes DEF Typed, TypeOK, Tasks, Pcs
<1>5. /\ task'[p].pc = "count" /\ task'[p].i = n /\ task'[p].obj = o
      /\ task'[p].new = task[p].new /\ task' \in Tasks
      /\ \A q \in Pids : q # p => task'[q] = task[q]
  BY <1>2, <1>4 DEF Tasks, Pcs
<1>6. MovedFacts(p, "store", "count")
  BY <1>1, <1>2, <1>5 DEF MovedFacts, OneIoctl, InIoctl
<1>7. StoreAt(n, o) /\ task[p].pc = "store"
  BY <1>2
<1>8. /\ AloneFacts(p) /\ Storage(p)
      /\ Registration(p) /\ o = allocated /\ allocated \in Ids
  BY <1>6, Owner DEF MovedFacts
<1>9. INTERFACE_LIST \in Blocks /\ InArray(INTERFACE_LIST, n)
  <2>1. INTERFACE_COUNT < INTERFACE_CAPACITY
    BY <1>7, <1>8 DEF Storage
  <2>2. n \in 1 .. INTERFACE_CAPACITY
    BY <2>1, Sizes
  <2>3. QED
    BY <1>6, <1>7, <2>2, InBounds DEF MovedFacts
<1>10. /\ oops' = oops
       /\ slots' \in [Blocks -> Seq(Ids \cup {Wild}) \cup {NULL}]
       /\ \A c \in Blocks : c # INTERFACE_LIST => slots'[c] = slots[c]
       /\ slots[INTERFACE_LIST] # NULL /\ slots'[INTERFACE_LIST] # NULL
       /\ Len(slots'[INTERFACE_LIST]) = Len(slots[INTERFACE_LIST])
       /\ \A j : SlotOf(INTERFACE_LIST, j)' = IF j = n THEN o ELSE SlotOf(INTERFACE_LIST, j)
  BY <1>1, <1>3, <1>4, <1>7, <1>8, <1>9, Stored
<1> HIDE DEF n, o
<1>11. Typed'
  <2>1. /\ steady' \in [Scanners -> SUBSET Ids]
        /\ astray' \subseteq Scanners /\ raced' \subseteq {"ioctls", "ids"}
    BY <1>1, SteadyTyped
  <2>2. \A c \in Blocks : slots'[c] = NULL \/ slots'[c] \in Seq(Ids \cup {Wild})
    BY <1>10
  <2>3. TypeOK'
    BY <1>1, <1>3, <1>5, <2>1, <2>2 DEF Typed, TypeOK, Tasks, Pcs
  <2>4. QED
    BY <1>1, <1>3, <1>10, <2>3 DEF Typed
<1>12. AloneFacts(p)'
  BY <1>6, <1>11, AloneNext DEF MovedFacts, InIoctl
<1>13. ListView' = ListView
  <2>1. ListView = Old /\ ListView' = Old'
    BY <1>5, <1>7, <1>8, <1>12 DEF AloneFacts
  <2>2. \A j \in 1 .. INTERFACE_COUNT : j # n
    BY <1>4 DEF n
  <2>3. Old' = Old
    BY <1>3, <1>10, <2>2 DEF Old
  <2>4. QED
    BY <2>1, <2>3
<1>14. Turn'
  <2>1. Registration(p)'
    BY <1>3, <1>5, <1>7, <1>8 DEF Registration, o
  <2>2. \A j : j = n => Slot(j)' = o
    BY <1>3, <1>10 DEF Slot
  <2>3. Storage(p)'
    BY <1>3, <1>5, <1>7, <1>8, <2>2 DEF Storage, n, o
  <2>4. \A q \in Pids : q # p => task'[q].pc = "idle" /\ task'[q].obj = 0 /\ task'[q].new = NULL
    BY <1>6 DEF MovedFacts, ListInv, Turn, Storage
  <2>5. \A q \in Pids : q # p => Storage(q)'
    BY <2>4 DEF Storage
  <2>6. QED
    BY <1>3, <1>5, <1>6, <1>12, <2>1, <2>3, <2>5 DEF MovedFacts, ListInv, Turn, AloneFacts
<1>15. Unused' /\ IdsOK'
  BY <1>3, <1>5, <1>7, <1>8, <1>12 DEF ListInv, Unused, IdsOK, AloneFacts, o
<1>16. Memory'
  <2>1. Array = INTERFACE_LIST /\ Array' = INTERFACE_LIST
    BY <1>3, <1>5, <1>7, <1>8, <1>12 DEF AloneFacts
  <2>2. ArraySize' = ArraySize
    BY <1>10, <2>1 DEF ArraySize
  <2>3. AtPc("krealloc") = {} /\ (AtPc("krealloc") = {})'
    BY <1>5, <1>7, <1>8, <1>12 DEF AloneFacts
  <2>4. \A c \in Blocks : slots'[c] # NULL /\ c # INTERFACE_LIST => slots'[c] = <<>>
    BY <1>10, <2>1 DEF ListInv, Memory
  <2>5. QED
    BY <1>3, <1>10, <2>1, <2>2, <2>3, <2>4 DEF ListInv, Memory
<1>17. ListOK' /\ Complete'
  BY <1>3, <1>5, <1>6, <1>7, <1>8, <1>12, <1>13
     DEF MovedFacts, ListInv, ListOK, Complete, AloneFacts, o
<1>18. InProc' /\ ProcNotYet'
  BY <1>3, <1>5, <1>7, <1>8, <1>12, <1>13 DEF ListInv, InProc, ProcNotYet, AloneFacts, o
<1>19. QED
  BY <1>10, <1>11, <1>13, <1>14, <1>15, <1>16, <1>17, <1>18 DEF ListInv

-----------------------------------------------------------------------------
(* The end of an ioctl.                                                    *)

ReturnedFacts(p, from) ==
  /\ ~oops /\ task[p].pc = from /\ NoIoctl' /\ InIoctl(p)
  /\ \A q \in Pids : task'[q].pc = "idle" /\ task'[q].obj = 0 /\ task'[q].new = NULL
  /\ task' \in Tasks /\ Typed /\ OneIoctl /\ OneIoctl'

LEMMA Returned ==
  ASSUME ListInv, NEW p \in Pids, NEW from, from # "idle", Return(p, from)
  PROVE  ReturnedFacts(p, from) /\ scan' = scan /\ overlapped' = overlapped
<1>1. task \in Tasks /\ Typed /\ OneIoctl
  BY DEF ListInv, Turn, Typed, TypeOK, Pcs, Tasks
<1>2. /\ ~oops /\ task[p].pc = from /\ scan' = scan /\ overlapped' = overlapped
      /\ task' = [task EXCEPT ![p] = IdleTask]
  BY DEF Return
<1>3. /\ IdleTask \in [pc : Pcs, obj : Ids \cup {0}, i : Nat, new : Blocks \cup {NULL}]
      /\ IdleTask.pc = "idle" /\ IdleTask.obj = 0 /\ IdleTask.new = NULL
  BY DEF IdleTask, At, Pcs
<1>4. task' \in Tasks
  BY <1>1, <1>2, <1>3 DEF Tasks
<1>5. InIoctl(p) /\ \A q \in Pids : q # p => task[q].pc = "idle"
  BY <1>1, <1>2 DEF OneIoctl, InIoctl
<1>6. \A q \in Pids : q # p => task[q].obj = 0 /\ task[q].new = NULL
  BY <1>5 DEF ListInv, Turn, Storage
<1>7. \A q \in Pids : task'[q].pc = "idle" /\ task'[q].obj = 0 /\ task'[q].new = NULL
  BY <1>1, <1>2, <1>3, <1>5, <1>6 DEF Tasks
<1>8. NoIoctl' /\ OneIoctl'
  BY <1>7 DEF NoIoctl, OneIoctl, InIoctl
<1>9. QED
  BY <1>1, <1>2, <1>4, <1>5, <1>7, <1>8 DEF ReturnedFacts

\* The list gets a new last interface.
Appended(o) ==
  \E n \in Nat :
    /\ DOMAIN ListView = 1 .. n
    /\ ListView' = [j \in 1 .. n + 1 |-> IF j <= n THEN ListView[j] ELSE o]

LEMMA Registered ==
  ASSUME ListInv, NEW p \in Pids, NEW from \in {"slot", "count"}, ReturnedFacts(p, from),
         Typed', Memory', Appended(task[p].obj), INTERFACE_COUNT' <= allocated',
         UNCHANGED <<ALLOCATED_ID, allocated, live, ids, bind_pid, proc_entry, procfs>>
  PROVE  ListInv'
<1> DEFINE o == task[p].obj
<1>1. /\ AloneFacts(p) /\ Registration(p) /\ o = allocated /\ allocated \in Ids
      /\ task[p].pc = from
  BY Owner DEF ReturnedFacts
<1>2. NobodyFacts'
  BY NobodyNext DEF ReturnedFacts
<1>3. ids[o] = o /\ ALLOCATED_ID = allocated + 1 /\ o \in live
  BY <1>1 DEF Registration
<1>4. \A q \in Pids : task'[q].pc = "idle" /\ task'[q].obj = 0 /\ task'[q].new = NULL
  BY DEF ReturnedFacts
<1>5. Turn'
  <2>1. \A q \in Pids : Storage(q)'
    BY <1>4 DEF Storage
  <2>2. QED
    BY <1>2, <1>3, <2>1 DEF ReturnedFacts, NobodyFacts, Turn
<1>6. Unused'
  BY DEF ListInv, Unused
<1>7. IdsOK'
  BY <1>1, <1>2, <1>3 DEF ListInv, IdsOK, AloneFacts, NobodyFacts
<1>8. PICK n \in Nat :
        /\ DOMAIN ListView = 1 .. n
        /\ ListView' = [j \in 1 .. n + 1 |-> IF j <= n THEN ListView[j] ELSE o]
  BY DEF Appended
<1>9. /\ DOMAIN ListView' = 1 .. n + 1 /\ ListView'[n + 1] = o
      /\ \A j \in 1 .. n + 1 : j # n + 1 => j \in 1 .. n /\ ListView'[j] = ListView[j]
  BY <1>8
<1>10. ListOK'
  <2>1. \A j \in 1 .. n : ListView[j] # Wild => ListView[j] \in live
    BY <1>8 DEF ListInv, ListOK
  <2>2. {task'[q].obj : q \in Pids} \subseteq {Wild}
    BY <1>4 DEF Wild
  <2>3. \A j \in DOMAIN ListView' : ListView'[j] # Wild => ListView'[j] \in live'
    BY <1>3, <1>9, <2>1
  <2>4. QED
    BY <2>2, <2>3 DEF ListOK
<1>11. Complete'
  <2>1. SUFFICES ASSUME live = 1 .. allocated
                 PROVE  Len(ListView') = allocated /\ \A j \in DOMAIN ListView' : ListView'[j] = j
    BY <1>2 DEF Complete, NobodyFacts, Typed, TypeOK
  <2>2. Removing = {} /\ Registering = {p}
    BY <1>1 DEF AloneFacts
  <2>3. Len(ListView) = allocated - 1 /\ \A j \in DOMAIN ListView : ListView[j] = j
    BY <2>1, <2>2 DEF ListInv, Complete
  <2>4. n = allocated - 1
    <3>1. \A V : V = [j \in 1 .. n |-> V[j]] => Len(V) = n
      OBVIOUS
    <3>2. ListView = [j \in 1 .. n |-> ListView[j]]
      BY <1>8 DEF ListView
    <3>3. QED
      BY <2>3, <3>1, <3>2
  <2>5. Len(ListView') = n + 1
    <3>1. \A f : Len([j \in 1 .. n + 1 |-> IF j <= n THEN f[j] ELSE o]) = n + 1
      OBVIOUS
    <3>2. QED
      BY <1>8, <3>1
  <2>6. n + 1 = allocated
    BY <1>1, <2>4 DEF Ids
  <2>7. QED
    BY <1>1, <1>8, <1>9, <2>3, <2>5, <2>6
<1>12. InProc' /\ ProcNotYet'
  BY <1>2 DEF InProc, ProcNotYet, NobodyFacts
<1>13. QED
  BY <1>5, <1>6, <1>7, <1>10, <1>11, <1>12 DEF ListInv

LEMMA SlotLastKeeps ==
  ASSUME ListInv, KeepHistory, NEW p \in Pids, SlotLast(p)
  PROVE  ListInv' /\ ReturnedFacts(p, "slot") /\ Appended(task[p].obj) /\ oops' = oops
<1> DEFINE n == INTERFACE_COUNT
           o == task[p].obj
<1>1. Typed /\ OneIoctl
  BY DEF ListInv, Turn
<1>2. ReturnedFacts(p, "slot") /\ scan' = scan /\ overlapped' = overlapped
  BY Returned DEF SlotLast
<1>3. /\ StoreAt(task[p].i, o)
      /\ UNCHANGED <<INTERFACE_LIST, INTERFACE_COUNT, INTERFACE_CAPACITY, ALLOCATED_ID,
                     allocated, live, ids, bind_pid, proc_entry, procfs>>
  BY DEF SlotLast, procVars
<1>4. /\ AloneFacts(p) /\ Storage(p) /\ task[p].pc = "slot"
      /\ Registration(p) /\ o = allocated /\ allocated \in Ids
  BY <1>2, Owner DEF ReturnedFacts
<1>5. task[p].i = n /\ n \in Nat /\ n > 0
  BY <1>4, Sizes DEF Storage
<1>6. INTERFACE_LIST \in Blocks /\ InArray(INTERFACE_LIST, n)
  <2>1. n \in 1 .. INTERFACE_CAPACITY
    BY <1>5, Sizes
  <2>2. QED
    BY <1>2, <1>4, <2>1, InBounds DEF ReturnedFacts
<1>7. /\ oops' = oops
      /\ slots' \in [Blocks -> Seq(Ids \cup {Wild}) \cup {NULL}]
      /\ \A c \in Blocks : c # INTERFACE_LIST => slots'[c] = slots[c]
      /\ slots[INTERFACE_LIST] # NULL /\ slots'[INTERFACE_LIST] # NULL
      /\ Len(slots'[INTERFACE_LIST]) = Len(slots[INTERFACE_LIST])
      /\ \A j : SlotOf(INTERFACE_LIST, j)' = IF j = n THEN o ELSE SlotOf(INTERFACE_LIST, j)
  BY <1>1, <1>3, <1>4, <1>5, <1>6, Stored
<1> HIDE DEF o
<1>8. Typed'
  BY <1>1, <1>2, <1>3, <1>7, SteadyTyped DEF ReturnedFacts, Typed, TypeOK, Tasks, Pcs
<1>9. NobodyFacts'
  BY <1>2, <1>8, NobodyNext DEF ReturnedFacts
<1>10. Appended(o)
  <2>1. ListView = [j \in 1 .. n - 1 |-> SlotOf(INTERFACE_LIST, j)] /\ ListView' = Old'
    BY <1>4, <1>9 DEF AloneFacts, NobodyFacts
  <2>2. DOMAIN ListView = 1 .. n - 1
    BY <2>1, Zenon
  <2>3. n - 1 \in Nat /\ (n - 1) + 1 = n
    BY <1>5
  <2>4. Old' = [j \in 1 .. n |-> SlotOf(INTERFACE_LIST, j)']
    BY <1>3 DEF Old
  <2>5. \A j \in 1 .. n : SlotOf(INTERFACE_LIST, j)' = IF j <= n - 1 THEN ListView[j] ELSE o
    <3>1. ASSUME NEW j \in 1 .. n, j <= n - 1 PROVE SlotOf(INTERFACE_LIST, j)' = ListView[j]
      BY <1>5, <1>7, <2>1, <3>1
    <3>2. ASSUME NEW j \in 1 .. n, ~(j <= n - 1) PROVE SlotOf(INTERFACE_LIST, j)' = o
      BY <1>5, <1>7, <3>2
    <3>3. QED
      BY <3>1, <3>2
  <2>6. ListView' = [j \in 1 .. n |-> IF j <= n - 1 THEN ListView[j] ELSE o]
    BY <2>1, <2>4, <2>5
  <2>7. QED
    BY <2>2, <2>3, <2>6 DEF Appended
<1>11. Memory'
  <2>1. Array = INTERFACE_LIST /\ Array' = INTERFACE_LIST
    BY <1>3, <1>4, <1>9 DEF AloneFacts, NobodyFacts
  <2>2. ArraySize' = ArraySize
    BY <1>7, <2>1 DEF ArraySize
  <2>3. AtPc("krealloc") = {} /\ (AtPc("krealloc") = {})'
    BY <1>4, <1>9 DEF AloneFacts, NobodyFacts
  <2>4. \A c \in Blocks : slots'[c] # NULL /\ c # INTERFACE_LIST => slots'[c] = <<>>
    BY <1>7, <2>1 DEF ListInv, Memory
  <2>5. QED
    BY <1>3, <1>7, <2>1, <2>2, <2>3, <2>4 DEF ListInv, Memory
<1>12. INTERFACE_COUNT' <= allocated'
  BY <1>3 DEF ListInv, Turn
<1>13. ListInv'
  BY <1>2, <1>3, <1>8, <1>10, <1>11, <1>12, Registered DEF o
<1>14. QED
  BY <1>2, <1>7, <1>10, <1>13 DEF o

LEMMA CountLastKeeps ==
  ASSUME ListInv, KeepHistory, NEW p \in Pids, CountLast(p)
  PROVE  ListInv' /\ ReturnedFacts(p, "count") /\ Appended(task[p].obj)
<1> DEFINE n == INTERFACE_COUNT
           o == task[p].obj
<1>1. Typed /\ OneIoctl
  BY DEF ListInv, Turn
<1>2. ReturnedFacts(p, "count") /\ scan' = scan /\ overlapped' = overlapped
  BY Returned DEF CountLast
<1>3. /\ INTERFACE_COUNT' = AsCount(task[p].i)
      /\ UNCHANGED <<INTERFACE_LIST, INTERFACE_CAPACITY, slots, ALLOCATED_ID,
                     allocated, live, ids, bind_pid, proc_entry, procfs, oops>>
  BY DEF CountLast, procVars
<1>4. /\ AloneFacts(p) /\ Storage(p) /\ task[p].pc = "count"
      /\ Registration(p) /\ o = allocated /\ allocated \in Ids
  BY <1>2, Owner DEF ReturnedFacts
<1>5. /\ task[p].i = n + 1 /\ n \in Nat /\ Slot(n + 1) = o /\ INTERFACE_COUNT' = n + 1
      /\ n < allocated /\ n < INTERFACE_CAPACITY
  <2>1. InIoctl(p)
    BY <1>4 DEF InIoctl
  <2>2. AsCount(n + 1) = n + 1
    BY <1>4, <2>1, CountFits
  <2>3. QED
    BY <1>3, <1>4, <2>2, Sizes DEF Storage, Registration
<1> HIDE DEF o
<1>6. INTERFACE_COUNT' \in 0 .. MaxCount
  BY <1>4, <1>5, ThreadsAssumption DEF Ids
<1>7. Typed'
  BY <1>1, <1>2, <1>3, <1>6, SteadyTyped DEF ReturnedFacts, Typed, TypeOK, Tasks, Pcs
<1>8. NobodyFacts'
  BY <1>2, <1>7, NobodyNext DEF ReturnedFacts
<1>9. Appended(o)
  <2>1. ListView = Old /\ ListView' = Old'
    BY <1>4, <1>8 DEF AloneFacts, NobodyFacts
  <2>2. DOMAIN ListView = 1 .. n /\ \A j \in 1 .. n : ListView[j] = SlotOf(INTERFACE_LIST, j)
    BY <2>1 DEF Old
  <2>3. \A j : SlotOf(INTERFACE_LIST, j)' = SlotOf(INTERFACE_LIST, j)
    BY <1>3 DEF SlotOf, InArray
  <2>4. Old' = [j \in 1 .. n + 1 |-> SlotOf(INTERFACE_LIST, j)]
    BY <1>5, <2>3 DEF Old
  <2>5. \A j \in 1 .. n + 1 : SlotOf(INTERFACE_LIST, j) = IF j <= n THEN ListView[j] ELSE o
    <3>1. ASSUME NEW j \in 1 .. n + 1, j <= n PROVE SlotOf(INTERFACE_LIST, j) = ListView[j]
      BY <1>5, <2>2, <3>1
    <3>2. ASSUME NEW j \in 1 .. n + 1, ~(j <= n) PROVE SlotOf(INTERFACE_LIST, j) = o
      <4>1. j = n + 1
        BY <1>5, <3>2
      <4>2. QED
        BY <1>5, <4>1 DEF Slot
    <3>3. QED
      BY <3>1, <3>2
  <2>6. ListView' = [j \in 1 .. n + 1 |-> IF j <= n THEN ListView[j] ELSE o]
    BY <2>1, <2>4, <2>5
  <2>7. QED
    BY <1>5, <2>2, <2>6 DEF Appended
<1>10. Memory'
  <2>1. Array' = Array /\ ArraySize' = ArraySize
    BY <1>3, <1>4, <1>8 DEF ArraySize, AloneFacts, NobodyFacts
  <2>2. AtPc("krealloc") = {} /\ (AtPc("krealloc") = {})'
    BY <1>4, <1>8 DEF AloneFacts, NobodyFacts
  <2>3. INTERFACE_COUNT' <= INTERFACE_CAPACITY'
    BY <1>3, <1>5, Sizes
  <2>4. QED
    BY <1>3, <2>1, <2>2, <2>3 DEF ListInv, Memory
<1>11. INTERFACE_COUNT' <= allocated'
  BY <1>3, <1>4, <1>5, ThreadsAssumption DEF Ids
<1>12. ListInv'
  BY <1>2, <1>3, <1>7, <1>9, <1>10, <1>11, Registered DEF o
<1>13. QED
  BY <1>2, <1>9, <1>12 DEF o

-----------------------------------------------------------------------------
(* Removals.                                                               *)

\* Every slot from the k-th on gets what is before the k-th.
Cut(k) ==
  \E n \in Nat :
    /\ k \in 1 .. n /\ DOMAIN ListView = 1 .. n
    /\ ListView' = [j \in 1 .. n - 1 |->
                      IF j < k THEN ListView[j] ELSE IF k = 1 THEN Wild ELSE ListView[k - 1]]

LocatedAt(p, id, k) ==
  /\ EnteredFacts(p, At("shift", Slot(k), k)) /\ NobodyFacts
  /\ k \in 1 .. INTERFACE_COUNT /\ IsFirstSlot(k, {o \in Ids : ids[o] = id})
  /\ overlapped' = overlapped \cup {s \in Scanners : scan[s].pc # "idle"}
  /\ UNCHANGED <<INTERFACE_LIST, INTERFACE_COUNT, INTERFACE_CAPACITY, slots, ALLOCATED_ID,
                 allocated, live, ids, bind_pid, proc_entry, procfs, oops, scan>>

LEMMA LocateKeeps ==
  ASSUME "ioctls" \notin raced', ListInv, KeepHistory, NEW p \in Pids, NEW id \in Ids, Locate(p, id)
  PROVE  ListInv' /\ \E k \in 1 .. INTERFACE_COUNT : LocatedAt(p, id, k) /\ Cut(k)
<1>1. Typed /\ OneIoctl
  BY DEF ListInv, Turn
<1>2. PICK k \in 1 .. INTERFACE_COUNT :
        /\ IsFirstSlot(k, {o \in Ids : ids[o] = id})
        /\ Enter(p, At("shift", Slot(k), k))
        /\ UNCHANGED <<INTERFACE_LIST, INTERFACE_COUNT, INTERFACE_CAPACITY, slots, ALLOCATED_ID,
                       allocated, live, ids, bind_pid, proc_entry, procfs, oops, scan>>
  BY DEF Locate, listVars, procVars
<1> DEFINE x == Slot(k)
           t == At("shift", x, k)
           n == INTERFACE_COUNT
<1>3. n \in Nat /\ k \in Nat /\ n - 1 \in Nat
  BY <1>2, Sizes
<1>4. x \in Ids /\ ids[x] = id /\ \A j \in 1 .. k - 1 : Slot(j) # x
  BY <1>2 DEF IsFirstSlot
<1>5. EnteredFacts(p, t) /\ NobodyFacts
      /\ overlapped' = overlapped \cup {s \in Scanners : scan[s].pc # "idle"}
  <2>1. t \in [pc : Pcs, obj : Ids \cup {0}, i : Nat, new : Blocks \cup {NULL}]
    BY <1>3, <1>4 DEF At, Pcs
  <2>2. t.pc # "idle"
    BY DEF At
  <2>3. QED
    BY <1>1, <1>2, <2>1, <2>2, Entered
<1>6. LocatedAt(p, id, k)
  BY <1>2, <1>5 DEF LocatedAt
<1>7. task'[p].pc = "shift" /\ task'[p].obj = x /\ task'[p].i = k /\ task'[p].new = NULL
  BY <1>5 DEF EnteredFacts, At
<1>8. \A q \in Pids : q # p => task'[q].pc = "idle" /\ task'[q].obj = 0 /\ task'[q].new = NULL
  BY <1>5 DEF EnteredFacts, NoIoctl, InIoctl, ListInv, Turn, Storage
<1>9. UNCHANGED <<INTERFACE_LIST, INTERFACE_COUNT, INTERFACE_CAPACITY, slots, ALLOCATED_ID,
                  allocated, live, ids, bind_pid, proc_entry, procfs, oops, scan>>
  BY <1>2
<1> HIDE DEF t, x
<1>10. Typed'
  <2>1. overlapped' \subseteq Scanners
    BY <1>1, <1>5 DEF Typed, TypeOK
  <2>2. task' \in Tasks
    BY <1>5 DEF EnteredFacts
  <2>3. QED
    BY <1>1, <1>9, <2>1, <2>2, SteadyTyped DEF Typed, TypeOK, Tasks, Pcs
<1>11. AloneFacts(p)'
  BY <1>5, <1>10, AloneNext DEF EnteredFacts
<1>12. /\ ListView = [j \in 1 .. n |-> SlotOf(INTERFACE_LIST, j)]
       /\ DOMAIN ListView = 1 .. n /\ \A j \in 1 .. n : ListView[j] = Slot(j)
  BY <1>5 DEF NobodyFacts, Old, Slot
<1>13. ListView' = [j \in 1 .. n - 1 |->
                      IF j < k THEN ListView[j] ELSE IF k = 1 THEN Wild ELSE ListView[k - 1]]
  <2>1. ListView' = [j \in 1 .. INTERFACE_COUNT' - 1 |->
                       IF j < task'[p].i THEN SlotOf(INTERFACE_LIST, j)'
                       ELSE IF task'[p].i = 1 THEN Wild
                            ELSE SlotOf(INTERFACE_LIST, task[p].i - 1)']
    BY <1>7, <1>11 DEF AloneFacts
  <2>2. \A y : SlotOf(INTERFACE_LIST, y)' = SlotOf(INTERFACE_LIST, y)
    BY <1>9 DEF SlotOf, InArray
  <2>3. SlotOf(INTERFACE_LIST, task[p].i - 1)' = SlotOf(INTERFACE_LIST, k - 1)
    BY <1>7, <1>9 DEF SlotOf, InArray
  <2>4. ListView' = [j \in 1 .. n - 1 |->
                       IF j < k THEN SlotOf(INTERFACE_LIST, j)
                       ELSE IF k = 1 THEN Wild ELSE SlotOf(INTERFACE_LIST, k - 1)]
    BY <1>7, <1>9, <2>1, <2>2, <2>3
  <2>5. \A j \in 1 .. n - 1 : ListView[j] = SlotOf(INTERFACE_LIST, j)
    BY <1>3, <1>12
  <2>6. k # 1 => ListView[k - 1] = SlotOf(INTERFACE_LIST, k - 1)
    BY <1>2, <1>3, <1>12
  <2>7. QED
    BY <2>4, <2>5, <2>6
<1>14. Cut(k)
  BY <1>2, <1>3, <1>12, <1>13 DEF Cut
<1>15. ListView[k] = x /\ x # Wild /\ x \in live
  <2>1. ListView[k] = x /\ x # Wild
    BY <1>2, <1>4, <1>12 DEF x, Ids, Wild
  <2>2. QED
    BY <1>2, <1>12, <2>1 DEF ListInv, ListOK
<1>16. Turn'
  <2>1. Storage(p)'
    BY <1>2, <1>7 DEF Storage
  <2>2. \A q \in Pids : q # p => Storage(q)'
    BY <1>8 DEF Storage
  <2>3. QED
    BY <1>9, <1>5, <1>7, <1>11, <1>15, <2>1, <2>2
       DEF EnteredFacts, NobodyFacts, AloneFacts, ListInv, Turn
<1>17. Unused' /\ IdsOK'
  BY <1>9, <1>5, <1>7, <1>11 DEF ListInv, Unused, IdsOK, NobodyFacts, AloneFacts
<1>18. Memory'
  <2>1. Array' = Array /\ ArraySize' = ArraySize
    BY <1>9, <1>5, <1>7, <1>11 DEF NobodyFacts, ArraySize, AloneFacts
  <2>2. AtPc("krealloc") = {} /\ (AtPc("krealloc") = {})'
    BY <1>5, <1>7, <1>11 DEF NobodyFacts, AloneFacts
  <2>3. QED
    BY <1>9, <2>1, <2>2 DEF ListInv, Memory
<1>19. ListOK'
  <2>1. \A j \in 1 .. n : ListView[j] # Wild => ListView[j] \in live
    BY <1>12 DEF ListInv, ListOK
  <2>2. \A j \in 1 .. k - 1 : j \in 1 .. n /\ ListView[j] # x
    BY <1>2, <1>3, <1>4, <1>12 DEF x
  <2>3. ASSUME NEW j \in 1 .. n - 1, ListView'[j] # Wild
        PROVE  ListView'[j] \in live /\ ListView'[j] # x
    <3>1. CASE j < k
      BY <1>2, <1>3, <1>13, <2>1, <2>2, <2>3, <3>1
    <3>2. CASE ~(j < k)
      <4>1. k # 1 /\ ListView'[j] = ListView[k - 1]
        BY <1>13, <2>3, <3>2
      <4>2. k - 1 \in 1 .. k - 1
        BY <1>2, <1>3, <4>1
      <4>3. QED
        BY <2>1, <2>2, <2>3, <4>1, <4>2
    <3>3. QED
      BY <3>1, <3>2
  <2>4. {task'[q].obj : q \in Pids} \subseteq {x, Wild}
    BY <1>7, <1>8 DEF Wild
  <2>5. DOMAIN ListView' = 1 .. n - 1
    BY <1>13
  <2>6. QED
    BY <1>9, <2>3, <2>4, <2>5 DEF ListOK
<1>20. Complete' /\ InProc' /\ ProcNotYet'
  BY <1>7, <1>11 DEF Complete, InProc, ProcNotYet, AloneFacts
<1>21. ListInv'
  BY <1>10, <1>16, <1>17, <1>18, <1>19, <1>20 DEF ListInv
<1>22. QED
  BY <1>6, <1>14, <1>21

LEMMA ShiftKeeps ==
  ASSUME ListInv, KeepHistory, NEW p \in Pids, Shift(p)
  PROVE  ListInv' /\ ListView' = ListView /\ oops' = oops
<1> DEFINE k == task[p].i
           n == INTERFACE_COUNT
           o == IF k = 1 THEN Wild ELSE Slot(k - 1)
<1>1. Typed /\ OneIoctl
  BY DEF ListInv, Turn
<1>2. /\ ~oops /\ task[p].pc = "shift" /\ k < n /\ StoreAt(k, o)
      /\ task' = [task EXCEPT ![p].i = k + 1]
  <2>1. /\ ~oops /\ task[p].pc = "shift" /\ (k < n \/ n = 0) /\ StoreAt(k, o)
        /\ task' = [task EXCEPT ![p].i = k + 1]
    BY DEF Shift
  <2>2. k \in 1 .. n
    BY <2>1, Owner DEF Storage, InIoctl
  <2>3. n # 0
    BY <2>2, Sizes
  <2>4. QED
    BY <2>1, <2>3
<1>3. UNCHANGED <<INTERFACE_LIST, INTERFACE_COUNT, INTERFACE_CAPACITY, ALLOCATED_ID, allocated,
                  live, ids, bind_pid, proc_entry, procfs, scan, overlapped>>
  BY DEF Shift, procVars
<1>4. task \in Tasks /\ k \in Nat /\ k + 1 \in Nat
  <2>1. task \in Tasks
    BY <1>1 DEF Typed, TypeOK, Tasks, Pcs
  <2>2. k \in Nat
    BY <2>1 DEF Tasks
  <2>3. QED
    BY <2>1, <2>2
<1>5. /\ task'[p].pc = "shift" /\ task'[p].i = k + 1 /\ task'[p].obj = task[p].obj
      /\ task'[p].new = task[p].new /\ task' \in Tasks
      /\ \A q \in Pids : q # p => task'[q] = task[q]
  BY <1>2, <1>4 DEF Tasks
<1>6. MovedFacts(p, "shift", "shift")
  BY <1>1, <1>2, <1>5 DEF MovedFacts, OneIoctl, InIoctl
<1>7. task[p].pc = "shift" /\ k < n /\ StoreAt(k, o)
  BY <1>2
<1>8. AloneFacts(p) /\ Storage(p) /\ task[p].obj \in live
  BY <1>6, <1>7, Owner DEF MovedFacts
<1>9. k \in 1 .. n /\ n \in Nat /\ n - 1 \in Nat /\ k \in 1 .. n - 1
  BY <1>4, <1>7, <1>8, Sizes DEF Storage
<1>10. INTERFACE_LIST \in Blocks /\ InArray(INTERFACE_LIST, k)
  <2>1. k \in 1 .. INTERFACE_CAPACITY
    BY <1>9, Sizes
  <2>2. QED
    BY <1>6, <1>7, <2>1, InBounds DEF MovedFacts
<1>11. o \in Ids \cup {Wild}
  <2>1. Slot(k - 1) \in Ids \cup {Wild}
    BY <1>1, <1>10, SlotTyped DEF Slot
  <2>2. QED
    BY <2>1
<1>12. /\ oops' = oops
       /\ slots' \in [Blocks -> Seq(Ids \cup {Wild}) \cup {NULL}]
       /\ \A c \in Blocks : c # INTERFACE_LIST => slots'[c] = slots[c]
       /\ slots[INTERFACE_LIST] # NULL /\ slots'[INTERFACE_LIST] # NULL
       /\ Len(slots'[INTERFACE_LIST]) = Len(slots[INTERFACE_LIST])
       /\ \A j : SlotOf(INTERFACE_LIST, j)' = IF j = k THEN o ELSE SlotOf(INTERFACE_LIST, j)
  <2> HIDE DEF k, o
  <2> QED
    BY <1>1, <1>3, <1>4, <1>7, <1>10, <1>11, Stored
<1>13. Typed'
  <2>1. oops' = oops /\ slots' \in [Blocks -> Seq(Ids \cup {Wild}) \cup {NULL}] /\ task' \in Tasks
    BY <1>5, <1>12
  <2>2. QED
    BY <1>1, <1>3, <2>1, SteadyTyped DEF Typed, TypeOK, Tasks, Pcs
<1>14. AloneFacts(p)'
  BY <1>6, <1>13, AloneNext DEF MovedFacts, InIoctl
<1>15. ListView' = ListView
  <2>1. ListView = [j \in 1 .. n - 1 |-> IF j < k THEN SlotOf(INTERFACE_LIST, j) ELSE o]
    BY <1>7, <1>8 DEF AloneFacts, Slot
  <2>2. ListView' = [j \in 1 .. INTERFACE_COUNT' - 1 |->
                       IF j < task'[p].i THEN SlotOf(INTERFACE_LIST, j)'
                       ELSE IF task'[p].i = 1 THEN Wild
                            ELSE SlotOf(INTERFACE_LIST, task[p].i - 1)']
    BY <1>5, <1>14 DEF AloneFacts
  <2>3. \A y : y = task'[p].i - 1 => SlotOf(INTERFACE_LIST, y)' = SlotOf(INTERFACE_LIST, task[p].i - 1)'
    BY DEF SlotOf, InArray
  <2>4. task'[p].i - 1 = k /\ task'[p].i # 1
    BY <1>4, <1>5, <1>9
  <2>5. SlotOf(INTERFACE_LIST, task[p].i - 1)' = o
    <3>1. \A y : y = k => SlotOf(INTERFACE_LIST, y)' = o
      BY <1>12
    <3>2. QED
      BY <2>3, <2>4, <3>1
  <2>6. ASSUME NEW j \in 1 .. n - 1
        PROVE  (IF j < k + 1 THEN SlotOf(INTERFACE_LIST, j)' ELSE o)
                 = IF j < k THEN SlotOf(INTERFACE_LIST, j) ELSE o
    <3> HIDE DEF k, o
    <3>1. CASE j < k
      BY <1>4, <1>9, <1>12, <3>1
    <3>2. CASE j = k
      BY <1>4, <1>9, <1>12, <3>2
    <3>3. CASE j > k
      BY <1>4, <1>9, <3>3
    <3>4. QED
      BY <1>4, <1>9, <3>1, <3>2, <3>3
  <2>7. ListView' = [j \in 1 .. n - 1 |-> IF j < k + 1 THEN SlotOf(INTERFACE_LIST, j)' ELSE o]
    BY <1>3, <1>5, <2>2, <2>4, <2>5
  <2> HIDE DEF k, o
  <2>8. QED
    BY <2>1, <2>6, <2>7
<1>16. Turn'
  <2>1. Storage(p)'
    BY <1>3, <1>4, <1>5, <1>7, <1>8, <1>9 DEF Storage
  <2>2. \A q \in Pids : q # p => task'[q].pc = "idle" /\ task'[q].obj = 0 /\ task'[q].new = NULL
    BY <1>6 DEF MovedFacts, ListInv, Turn, Storage
  <2>3. \A q \in Pids : q # p => Storage(q)'
    BY <2>2 DEF Storage
  <2>4. QED
    BY <1>3, <1>5, <1>6, <1>7, <1>8, <1>14, <2>1, <2>3 DEF MovedFacts, ListInv, Turn, AloneFacts
<1>17. Unused' /\ IdsOK'
  BY <1>3, <1>5, <1>7, <1>8, <1>14 DEF ListInv, Unused, IdsOK, AloneFacts
<1>18. Memory'
  <2>1. Array = INTERFACE_LIST /\ Array' = INTERFACE_LIST
    BY <1>3, <1>5, <1>7, <1>8, <1>14 DEF AloneFacts
  <2>2. ArraySize' = ArraySize
    BY <1>12, <2>1 DEF ArraySize
  <2>3. AtPc("krealloc") = {} /\ (AtPc("krealloc") = {})'
    BY <1>5, <1>7, <1>8, <1>14 DEF AloneFacts
  <2>4. \A c \in Blocks : slots'[c] # NULL /\ c # INTERFACE_LIST => slots'[c] = <<>>
    BY <1>12, <2>1 DEF ListInv, Memory
  <2>5. QED
    BY <1>3, <1>12, <2>1, <2>2, <2>3, <2>4 DEF ListInv, Memory
<1>19. ListOK'
  BY <1>3, <1>5, <1>6, <1>15 DEF MovedFacts, ListInv, ListOK
<1>20. Complete' /\ InProc' /\ ProcNotYet'
  BY <1>5, <1>14 DEF Complete, InProc, ProcNotYet, AloneFacts
<1>21. QED
  BY <1>12, <1>13, <1>15, <1>16, <1>17, <1>18, <1>19, <1>20 DEF ListInv

LEMMA ShiftedKeeps ==
  ASSUME ListInv, KeepHistory, NEW p \in Pids, Shifted(p)
  PROVE  ListInv' /\ ListView' = ListView
<1> DEFINE n == INTERFACE_COUNT
<1>1. Typed /\ OneIoctl
  BY DEF ListInv, Turn
<1>2. /\ ~oops /\ task[p].pc = "shift" /\ n # 0 /\ task[p].i >= n
      /\ task' = [task EXCEPT ![p].pc = "down", ![p].i = n]
      /\ UNCHANGED <<INTERFACE_LIST, INTERFACE_COUNT, INTERFACE_CAPACITY, slots, ALLOCATED_ID,
                     allocated, live, ids, bind_pid, proc_entry, procfs, oops, scan,
                     overlapped>>
  BY DEF Shifted, listVars, procVars
<1>3. AloneFacts(p) /\ Storage(p) /\ task[p].obj \in live
  BY <1>2, Owner DEF InIoctl
<1>4. task[p].i = n /\ n \in Nat /\ n > 0 /\ task \in Tasks
  BY <1>1, <1>2, <1>3, Sizes DEF Storage, Typed, TypeOK, Tasks, Pcs
<1>5. /\ task'[p].pc = "down" /\ task'[p].i = n /\ task'[p].obj = task[p].obj
      /\ task'[p].new = task[p].new /\ task' \in Tasks
      /\ \A q \in Pids : q # p => task'[q] = task[q]
  BY <1>2, <1>4 DEF Tasks, Pcs
<1>6. MovedFacts(p, "shift", "down")
  BY <1>1, <1>2, <1>5 DEF MovedFacts, OneIoctl, InIoctl
<1>6a. /\ task[p].pc = "shift"
       /\ UNCHANGED <<INTERFACE_LIST, INTERFACE_COUNT, INTERFACE_CAPACITY, slots, ALLOCATED_ID,
                      allocated, live, ids, bind_pid, proc_entry, procfs, oops, scan,
                      overlapped>>
  BY <1>2
<1>7. Typed'
  BY <1>1, <1>6a, <1>5, SteadyTyped DEF Typed, TypeOK, Tasks, Pcs
<1>8. AloneFacts(p)'
  BY <1>6, <1>7, AloneNext DEF MovedFacts, InIoctl
<1>9. ListView' = ListView
  <2>1. ListView = [j \in 1 .. n - 1 |->
                      IF j < n THEN SlotOf(INTERFACE_LIST, j)
                      ELSE IF n = 1 THEN Wild ELSE SlotOf(INTERFACE_LIST, n - 1)]
    BY <1>6a, <1>3, <1>4 DEF AloneFacts
  <2>2. ListView' = [j \in 1 .. n - 1 |->
                      IF j < n THEN SlotOf(INTERFACE_LIST, j)'
                      ELSE IF n = 1 THEN Wild ELSE SlotOf(INTERFACE_LIST, n - 1)']
    <3>1. ListView' = [j \in 1 .. INTERFACE_COUNT' - 1 |->
                       IF j < task'[p].i THEN SlotOf(INTERFACE_LIST, j)'
                       ELSE IF task'[p].i = 1 THEN Wild
                            ELSE SlotOf(INTERFACE_LIST, task[p].i - 1)']
      BY <1>5, <1>8 DEF AloneFacts
    <3>2. \A y : y = task'[p].i - 1 => SlotOf(INTERFACE_LIST, y)' = SlotOf(INTERFACE_LIST, task[p].i - 1)'
      BY DEF SlotOf, InArray
    <3>3. SlotOf(INTERFACE_LIST, task[p].i - 1)' = SlotOf(INTERFACE_LIST, n - 1)'
      BY <1>6a, <1>5, <3>2 DEF SlotOf, InArray
    <3>4. QED
      BY <1>6a, <1>5, <3>1, <3>3
  <2>3. \A j : SlotOf(INTERFACE_LIST, j)' = SlotOf(INTERFACE_LIST, j)
    BY <1>6a DEF SlotOf, InArray
  <2>4. SlotOf(INTERFACE_LIST, n - 1)' = SlotOf(INTERFACE_LIST, n - 1)
    BY <1>6a DEF SlotOf, InArray
  <2>5. QED
    BY <2>1, <2>2, <2>3, <2>4
<1>10. Turn'
  <2>1. \A q \in Pids : q # p => task'[q].pc = "idle" /\ task'[q].obj = 0 /\ task'[q].new = NULL
    BY <1>6 DEF MovedFacts, ListInv, Turn, Storage
  <2>2. Storage(p)'
    BY <1>6a, <1>3, <1>4, <1>5 DEF Storage
  <2>3. \A q \in Pids : q # p => Storage(q)'
    BY <2>1 DEF Storage
  <2>4. INTERFACE_COUNT' <= allocated' /\ ALLOCATED_ID' = allocated' + 1
    BY <1>6a, <1>3 DEF ListInv, Turn, AloneFacts
  <2>5. QED
    BY <1>6a, <1>3, <1>5, <1>6, <1>8, <2>2, <2>3, <2>4 DEF MovedFacts, ListInv, Turn, AloneFacts
<1>11. Unused' /\ IdsOK'
  BY <1>6a, <1>3, <1>5, <1>8 DEF ListInv, Unused, IdsOK, AloneFacts
<1>12. Memory'
  <2>1. Array' = Array /\ ArraySize' = ArraySize
    BY <1>6a, <1>3, <1>5, <1>8 DEF ArraySize, AloneFacts
  <2>2. AtPc("krealloc") = {} /\ (AtPc("krealloc") = {})'
    BY <1>6a, <1>3, <1>5, <1>8 DEF AloneFacts
  <2>3. QED
    BY <1>6a, <2>1, <2>2 DEF ListInv, Memory
<1>13. ListOK'
  BY <1>6a, <1>5, <1>6, <1>9 DEF MovedFacts, ListInv, ListOK
<1>14. Complete' /\ InProc' /\ ProcNotYet'
  BY <1>5, <1>8 DEF Complete, InProc, ProcNotYet, AloneFacts
<1>15. QED
  BY <1>7, <1>9, <1>10, <1>11, <1>12, <1>13, <1>14 DEF ListInv

LEMMA CountDownKeeps ==
  ASSUME ListInv, KeepHistory, NEW p \in Pids, CountDown(p)
  PROVE  ListInv' /\ ListView' = ListView
<1> DEFINE n == INTERFACE_COUNT
<1>1. Typed /\ OneIoctl
  BY DEF ListInv, Turn
<1>2. /\ MovedFacts(p, "down", "free") /\ scan' = scan /\ overlapped' = overlapped
      /\ task'[p].i = task[p].i /\ task'[p].new = task[p].new
  BY <1>1, Moved DEF CountDown, Pcs
<1>3. /\ \E m \in {n, task[p].i} : INTERFACE_COUNT' = IF m = 0 THEN MaxCount ELSE m - 1
      /\ UNCHANGED <<INTERFACE_LIST, INTERFACE_CAPACITY, slots, ALLOCATED_ID, allocated,
                     live, ids, bind_pid, proc_entry, procfs, oops>>
  BY DEF CountDown, procVars
<1>4. AloneFacts(p) /\ Storage(p) /\ task[p].obj \in live /\ task[p].pc = "down"
  BY <1>2, Owner DEF MovedFacts
<1>5. task[p].i = n /\ n \in Nat /\ n > 0 /\ INTERFACE_COUNT' = n - 1
  BY <1>3, <1>4, Sizes DEF Storage
<1>6. INTERFACE_COUNT' \in 0 .. MaxCount
  BY <1>1, <1>5, ThreadsAssumption DEF Typed, TypeOK
<1>7. Typed'
  BY <1>1, <1>2, <1>3, <1>6, SteadyTyped DEF MovedFacts, Typed, TypeOK, Tasks, Pcs
<1>8. AloneFacts(p)'
  BY <1>2, <1>7, AloneNext DEF MovedFacts, InIoctl
<1>9. ListView' = ListView
  <2>1. ListView = [j \in 1 .. n - 1 |->
                      IF j < n THEN SlotOf(INTERFACE_LIST, j)
                      ELSE IF n = 1 THEN Wild ELSE SlotOf(INTERFACE_LIST, n - 1)]
    BY <1>4, <1>5 DEF AloneFacts
  <2>2. \A j \in 1 .. n - 1 : j < n
    BY <1>5
  <2>3. ListView = [j \in 1 .. n - 1 |-> SlotOf(INTERFACE_LIST, j)]
    BY <2>1, <2>2
  <2>4. ListView' = Old'
    BY <1>2, <1>8 DEF MovedFacts, AloneFacts
  <2>5. Old' = [j \in 1 .. n - 1 |-> SlotOf(INTERFACE_LIST, j)]
    BY <1>3, <1>5 DEF Old, SlotOf, InArray
  <2>6. QED
    BY <2>3, <2>4, <2>5
<1>10. Turn'
  <2>1. \A q \in Pids : q # p => task'[q].pc = "idle" /\ task'[q].obj = 0 /\ task'[q].new = NULL
    BY <1>2 DEF MovedFacts, ListInv, Turn, Storage
  <2>2. Storage(p)'
    BY <1>2, <1>4 DEF Storage, MovedFacts
  <2>3. \A q \in Pids : q # p => Storage(q)'
    BY <2>1 DEF Storage
  <2>4. INTERFACE_COUNT' <= allocated'
    BY <1>1, <1>3, <1>5 DEF ListInv, Turn, Typed, TypeOK
  <2>5. QED
    BY <1>2, <1>3, <1>4, <1>8, <2>2, <2>3, <2>4 DEF MovedFacts, ListInv, Turn, AloneFacts
<1>11. Unused' /\ IdsOK'
  BY <1>2, <1>3, <1>4, <1>8 DEF MovedFacts, ListInv, Unused, IdsOK, AloneFacts
<1>12. Memory'
  <2>1. Array' = Array /\ ArraySize' = ArraySize
    BY <1>2, <1>3, <1>4, <1>8 DEF MovedFacts, ArraySize, AloneFacts
  <2>2. AtPc("krealloc") = {} /\ (AtPc("krealloc") = {})'
    BY <1>2, <1>4, <1>8 DEF MovedFacts, AloneFacts
  <2>3. INTERFACE_COUNT' <= INTERFACE_CAPACITY'
    BY <1>3, <1>5, Sizes
  <2>4. QED
    BY <1>3, <2>1, <2>2, <2>3 DEF ListInv, Memory
<1>13. ListOK'
  BY <1>2, <1>3, <1>9 DEF MovedFacts, ListInv, ListOK
<1>14. Complete' /\ InProc' /\ ProcNotYet'
  BY <1>2, <1>8 DEF MovedFacts, Complete, InProc, ProcNotYet, AloneFacts
<1>15. QED
  BY <1>7, <1>9, <1>10, <1>11, <1>12, <1>13, <1>14 DEF ListInv

LEMMA FreeKeeps ==
  ASSUME ListInv, KeepHistory, NEW p \in Pids, Free(p)
  PROVE  ListInv' /\ ListView' = ListView /\ ReturnedFacts(p, "free")
<1>1. Typed /\ OneIoctl
  BY DEF ListInv, Turn
<1>2. ReturnedFacts(p, "free") /\ scan' = scan /\ overlapped' = overlapped
  BY Returned DEF Free
<1>3. /\ live' = live \ {task[p].obj}
      /\ UNCHANGED <<INTERFACE_LIST, INTERFACE_COUNT, INTERFACE_CAPACITY, slots, ALLOCATED_ID,
                     allocated, ids, bind_pid, proc_entry, procfs, oops>>
  BY DEF Free, listVars, procVars
<1>4. AloneFacts(p) /\ task[p].obj \in live /\ task[p].pc = "free"
  BY <1>2, Owner DEF ReturnedFacts
<1>5. Typed'
  BY <1>1, <1>2, <1>3, SteadyTyped DEF ReturnedFacts, Typed, TypeOK, Tasks, Pcs
<1>6. NobodyFacts'
  BY <1>2, <1>5, NobodyNext DEF ReturnedFacts
<1>7. ListView' = ListView
  <2>1. ListView = Old /\ ListView' = Old'
    BY <1>4, <1>6 DEF AloneFacts, NobodyFacts
  <2>2. Old' = Old
    BY <1>3 DEF Old, SlotOf, InArray
  <2>3. QED
    BY <2>1, <2>2
<1>8. \A q \in Pids : task'[q].pc = "idle" /\ task'[q].obj = 0 /\ task'[q].new = NULL
  BY <1>2 DEF ReturnedFacts
<1>9. Turn'
  <2>1. \A q \in Pids : Storage(q)'
    BY <1>8 DEF Storage
  <2>2. QED
    BY <1>2, <1>3, <1>4, <1>6, <2>1 DEF ReturnedFacts, NobodyFacts, AloneFacts, ListInv, Turn
<1>10. Unused' /\ IdsOK'
  BY <1>3, <1>4, <1>6 DEF ListInv, Unused, IdsOK, AloneFacts, NobodyFacts
<1>11. Memory'
  <2>1. Array' = Array /\ ArraySize' = ArraySize
    BY <1>3, <1>4, <1>6 DEF ArraySize, AloneFacts, NobodyFacts
  <2>2. AtPc("krealloc") = {} /\ (AtPc("krealloc") = {})'
    BY <1>4, <1>6 DEF AloneFacts, NobodyFacts
  <2>3. QED
    BY <1>3, <2>1, <2>2 DEF ListInv, Memory
<1>12. ListOK'
  <2>1. \A j \in DOMAIN ListView : ListView[j] # Wild =>
          ListView[j] \in live /\ ListView[j] # task[p].obj
    BY DEF ListInv, ListOK
  <2>2. {task'[q].obj : q \in Pids} \subseteq {Wild}
    BY <1>8 DEF Wild
  <2>3. QED
    BY <1>3, <1>7, <2>1, <2>2 DEF ListOK
<1>13. Complete'
  <2>1. task[p].obj \in 1 .. allocated /\ task[p].obj \notin live'
    BY <1>1, <1>3, <1>4 DEF Typed, TypeOK
  <2>2. QED
    BY <1>3, <2>1 DEF Complete
<1>14. InProc' /\ ProcNotYet'
  BY <1>6 DEF InProc, ProcNotYet, NobodyFacts
<1>15. QED
  BY <1>2, <1>5, <1>7, <1>9, <1>10, <1>11, <1>12, <1>13, <1>14 DEF ListInv

-----------------------------------------------------------------------------
(* What the scanners do, seen from the list.                               *)

LEMMA ListUntouched ==
  ASSUME ListInv, Typed',
         UNCHANGED <<INTERFACE_LIST, INTERFACE_COUNT, INTERFACE_CAPACITY, slots, ALLOCATED_ID,
                     allocated, live, ids, bind_pid, proc_entry, procfs, task>>
  PROVE  ListInv' /\ ListView' = ListView
<1>1. Array' = Array /\ Registering' = Registering /\ Removing' = Removing /\ Pending' = Pending
  BY DEF Array, AtPc, Registering, Removing, Pending, InIoctl
<1>2. AtPc("krealloc")' = AtPc("krealloc") /\ ArraySize' = ArraySize
  BY <1>1 DEF AtPc, ArraySize
<1>3. ListView' = ListView
  BY <1>1 DEF ListView, AtPc, Cutting, SlotOf, InArray
<1>4. Turn'
  BY <1>1 DEF ListInv, Turn, OneIoctl, InIoctl, Registration, Storage, Slot, SlotOf, InArray
<1>5. Unused' /\ IdsOK'
  BY <1>1 DEF ListInv, Unused, IdsOK
<1>6. Memory'
  BY <1>1, <1>2 DEF ListInv, Memory
<1>7. ListOK' /\ Complete'
  BY <1>1, <1>3 DEF ListInv, ListOK, Complete
<1>8. InProc' /\ ProcNotYet'
  BY <1>1, <1>3 DEF ListInv, InProc, ProcNotYet
<1>9. QED
  BY <1>3, <1>4, <1>5, <1>6, <1>7, <1>8 DEF ListInv

\* What a scanner is like.
ScanRecord == [pc : {"idle", "null", "load", "listLoaded", "countLoaded", "scan",
                     "found", "end", "oops"},
               kind : Kinds, list : Blocks \cup {NULL}, count : Nat, i : Nat,
               want : Ids \cup {All}, obj : Ids \cup {0}]

Scans == [Scanners -> [pc : {"idle", "null", "load", "listLoaded", "countLoaded", "scan",
                             "found", "end", "oops"},
                       kind : Kinds, list : Blocks \cup {NULL}, count : Nat, i : Nat,
                       want : Ids \cup {All}, obj : Ids \cup {0}]]

ListUnchanged ==
  UNCHANGED <<INTERFACE_LIST, INTERFACE_COUNT, INTERFACE_CAPACITY, slots, ALLOCATED_ID,
              allocated, live, ids, bind_pid, proc_entry, procfs, task>>

LEMMA ScannedKeeps ==
  ASSUME ListInv, KeepHistory, ListUnchanged, oops' \in BOOLEAN, scan' \in Scans,
         overlapped' \subseteq Scanners
  PROVE  ListInv' /\ ListView' = ListView
<1>1. Typed /\ OneIoctl
  BY DEF ListInv, Turn
<1>2. Typed'
  BY <1>1, SteadyTyped DEF ListUnchanged, Typed, TypeOK, Scans
<1>3. QED
  BY <1>2, ListUntouched DEF ListUnchanged

LEMMA InitKeeps ==
  ASSUME ListInv, Idle, KeepHistory, NEW s \in Scanners, init_interfaces(s)
  PROVE  ListInv' /\ ListView' = ListView
<1>1. Typed /\ OneIoctl
  BY DEF ListInv, Turn
<1>2. PICK b \in Blocks :
        /\ slots[b] = NULL
        /\ slots' = [slots EXCEPT ![b] = [j \in 1 .. INTERFACE_CAPACITY |-> Wild]]
        /\ INTERFACE_LIST' = b
  BY DEF init_interfaces
<1>3. /\ scan[s].pc = "null" /\ scan' = [scan EXCEPT ![s].pc = "load"] /\ overlapped' = overlapped
      /\ UNCHANGED <<INTERFACE_COUNT, INTERFACE_CAPACITY, ALLOCATED_ID, allocated, live, ids,
                     bind_pid, proc_entry, procfs, task, oops>>
  BY DEF init_interfaces, registryVars, procVars
<1>4. NoIoctl /\ INTERFACE_COUNT = 0 /\ INTERFACE_CAPACITY = 0
  BY <1>3 DEF Idle, IdleOf, NoIoctl
<1>5. [j \in 1 .. INTERFACE_CAPACITY |-> Wild] = <<>>
  BY <1>4
<1>6. slots' = [slots EXCEPT ![b] = <<>>]
  BY <1>2, <1>5
<1>7. slots'[b] = <<>> /\ \A c \in Blocks : c # b => slots'[c] = slots[c]
  BY <1>1, <1>6 DEF Typed
<1>8. Len(<<>>) = 0 /\ <<>> \in Seq(Ids \cup {Wild}) /\ <<>> \in Seq(Nat)
  OBVIOUS
<1>9. <<>> # NULL /\ b # NULL
  BY <1>8, ThreadsAssumption
<1>10. slots' \in [Blocks -> Seq(Ids \cup {Wild}) \cup {NULL}]
  BY <1>1, <1>6, <1>8 DEF Typed
<1>11. scan' \in Scans
  <2>1. scan \in Scans
    BY <1>1 DEF Typed, TypeOK, Scans
  <2>2. QED
    BY <1>3, <2>1 DEF Scans
<1>12. Typed'
  <2>1. UNCHANGED <<INTERFACE_COUNT, INTERFACE_CAPACITY, ALLOCATED_ID, allocated, live, ids,
                    bind_pid, proc_entry, procfs, task, oops>> /\ overlapped' = overlapped
    BY <1>3
  <2>2. INTERFACE_LIST' \in Blocks \cup {NULL}
    BY <1>2
  <2>3. QED
    BY <1>1, <1>10, <1>11, <2>1, <2>2, SteadyTyped DEF Typed, TypeOK, Scans
<1>13. NobodyFacts /\ NobodyFacts' /\ NoIoctl'
  BY <1>1, <1>3, <1>4, <1>12, Nobody, NobodyNext DEF NoIoctl, InIoctl
<1>14. ListView' = ListView
  <2>1. 1 .. INTERFACE_COUNT = {} /\ 1 .. INTERFACE_COUNT' = {}
    BY <1>3, <1>4
  <2>2. QED
    BY <1>13, <2>1 DEF NobodyFacts, Old
<1>15. UNCHANGED <<INTERFACE_COUNT, INTERFACE_CAPACITY, ALLOCATED_ID, allocated, live, ids,
                     bind_pid, proc_entry, procfs, task>>
  BY <1>3
<1>16. Turn'
  <2>1. \A q \in Pids : Storage(q)'
    <3>1. \A q \in Pids : task'[q].pc = "idle" /\ task'[q].obj = 0 /\ task'[q].new = NULL
      BY <1>15, <1>4 DEF NoIoctl, InIoctl, ListInv, Turn, Storage
    <3>2. QED
      BY <3>1 DEF Storage
  <2>2. OneIoctl'
    BY <1>13 DEF OneIoctl, NoIoctl
  <2>3. QED
    BY <1>15, <1>13, <2>1, <2>2 DEF NobodyFacts, ListInv, Turn
<1>17. Unused' /\ IdsOK'
  BY <1>15, <1>13 DEF ListInv, Unused, IdsOK, NobodyFacts
<1>18. Memory'
  <2>1. Array = INTERFACE_LIST /\ Array' = b /\ AtPc("krealloc") = {} /\ (AtPc("krealloc") = {})'
    BY <1>2, <1>13 DEF NobodyFacts
  <2>2. ArraySize = 0
    BY <1>4, <2>1, Sizes DEF ListInv, Memory
  <2>3. INTERFACE_LIST # NULL => slots[INTERFACE_LIST] = <<>>
    <3>1. SUFFICES ASSUME INTERFACE_LIST # NULL PROVE slots[INTERFACE_LIST] = <<>>
      OBVIOUS
    <3>2. slots[INTERFACE_LIST] \in Seq(Ids \cup {Wild}) /\ Len(slots[INTERFACE_LIST]) = 0
      BY <1>1, <2>1, <2>2, <3>1 DEF ListInv, Memory, ArraySize, Typed, TypeOK
    <3>3. QED
      BY <3>2
  <2>4. \A c \in Blocks : slots'[c] # NULL /\ c # b => slots'[c] = <<>>
    <3>1. ASSUME NEW c \in Blocks, slots'[c] # NULL, c # b PROVE slots'[c] = <<>>
      <4>1. slots'[c] = slots[c] /\ c # NULL
        BY <1>7, <3>1, ThreadsAssumption
      <4>2. CASE c = INTERFACE_LIST
        BY <2>3, <4>1, <4>2
      <4>3. CASE c # INTERFACE_LIST
        BY <2>1, <3>1, <4>1, <4>3 DEF ListInv, Memory
      <4>4. QED
        BY <4>2, <4>3
    <3>2. QED
      BY <3>1
  <2>5. ArraySize' = 0
    BY <1>7, <1>8, <1>9, <2>1 DEF ArraySize
  <2>6. QED
    BY <1>15, <1>4, <1>7, <1>9, <2>1, <2>4, <2>5 DEF Memory
<1>19. ListOK' /\ Complete'
  BY <1>15, <1>13, <1>14 DEF ListInv, ListOK, Complete, NobodyFacts
<1>20. InProc' /\ ProcNotYet'
  BY <1>13 DEF InProc, ProcNotYet, NobodyFacts
<1>21. QED
  BY <1>12, <1>14, <1>16, <1>17, <1>18, <1>19, <1>20 DEF ListInv

-----------------------------------------------------------------------------
(* What the tasks do, seen by the scanners.                                *)

ViewStep ==
  \/ ListView' = ListView
  \/ \E o : o \notin Listed /\ Appended(o)
  \/ \E k : Cut(k)

\* What stays in the list stays ahead of a scan, and within what it counted.
LEMMA StaysAhead ==
  ASSUME Typed, OneIoctl, ViewStep, NEW x \in Listed, x \in Listed',
         NEW i \in Nat, NEW c \in Nat
  PROVE  /\ Behind(x, i) => \A j \in DOMAIN ListView' : j < i => ListView'[j] # x
         /\ Within(x, c) => \E j \in DOMAIN ListView' : j <= c /\ ListView'[j] = x
<1>1. PICK n \in Nat : DOMAIN ListView = 1 .. n
  BY ViewTyped
<1>2. CASE ListView' = ListView
  BY <1>2 DEF Behind, Within
<1>3. CASE \E o : o \notin Listed /\ Appended(o)
  <2>1. PICK o : o \notin Listed /\ Appended(o)
    BY <1>3
  <2>2. PICK m \in Nat :
          /\ DOMAIN ListView = 1 .. m
          /\ ListView' = [j \in 1 .. m + 1 |-> IF j <= m THEN ListView[j] ELSE o]
    BY <2>1 DEF Appended
  <2>3. /\ DOMAIN ListView' = 1 .. m + 1
        /\ \A j \in 1 .. m : j \in 1 .. m + 1 /\ ListView'[j] = ListView[j]
        /\ \A j \in 1 .. m + 1 : j \in 1 .. m \/ ListView'[j] = o
    BY <2>2
  <2>4. x # o
    BY <2>1
  <2>5. QED
    BY <2>2, <2>3, <2>4 DEF Behind, Within
<1>4. CASE \E k : Cut(k)
  <2>1. PICK k : Cut(k)
    BY <1>4
  <2>2. PICK m \in Nat :
          /\ k \in 1 .. m /\ DOMAIN ListView = 1 .. m
          /\ ListView' = [j \in 1 .. m - 1 |->
                           IF j < k THEN ListView[j] ELSE IF k = 1 THEN Wild ELSE ListView[k - 1]]
    BY <2>1 DEF Cut
  <2>3. DOMAIN ListView' = 1 .. m - 1 /\ k \in Nat
    BY <2>2
  <2>4. PICK h \in 1 .. m - 1 : ListView'[h] = x /\ x # Wild
    BY <2>3 DEF Listed
  <2>5. k # 1
    BY <2>2, <2>4
  <2>6. \A j \in 1 .. k - 1 : j \in 1 .. m /\ j \in 1 .. m - 1 /\ ListView'[j] = ListView[j]
    BY <2>2
  <2>7. \A j \in 1 .. m - 1 : ~(j < k) => ListView'[j] = ListView[k - 1]
    BY <2>2, <2>5
  <2>8. k - 1 \in 1 .. k - 1
    BY <2>2, <2>5
  <2>9. PICK g \in 1 .. k - 1 : ListView[g] = x
    <3>1. CASE h < k
      <4>1. h \in 1 .. k - 1
        BY <2>2, <3>1
      <4>2. QED
        BY <2>4, <2>6, <4>1
    <3>2. CASE ~(h < k)
      BY <2>4, <2>7, <2>8, <3>2
    <3>3. QED
      BY <3>1, <3>2
  <2>10. ASSUME Behind(x, i), NEW j \in DOMAIN ListView', j < i PROVE ListView'[j] # x
    <3>1. CASE j < k
      <4>1. j \in 1 .. k - 1
        BY <2>2, <2>3, <2>10, <3>1
      <4>2. QED
        BY <2>2, <2>6, <2>10, <4>1 DEF Behind
    <3>2. CASE ~(j < k)
      <4>1. k - 1 < i /\ k - 1 \in 1 .. m
        BY <2>2, <2>3, <2>5, <2>10, <3>2
      <4>2. ListView[k - 1] # x
        BY <2>2, <2>10, <4>1 DEF Behind
      <4>3. QED
        BY <2>3, <2>7, <2>10, <3>2, <4>2
    <3>3. QED
      BY <3>1, <3>2
  <2>11. ASSUME Within(x, c) PROVE \E j \in DOMAIN ListView' : j <= c /\ ListView'[j] = x
    <3>1. PICK j \in 1 .. m : j <= c /\ ListView[j] = x
      BY <2>2, <2>11 DEF Within
    <3>2. CASE j < k
      <4>1. j \in 1 .. k - 1
        BY <2>2, <3>1, <3>2
      <4>2. QED
        BY <2>3, <2>6, <3>1, <4>1
    <3>3. CASE ~(j < k)
      <4>1. g <= c
        BY <2>2, <2>9, <3>1, <3>3
      <4>2. QED
        BY <2>3, <2>6, <2>9, <4>1
    <3>4. QED
      BY <3>2, <3>3
  <2>12. QED
    BY <2>10, <2>11
<1>5. QED
  BY <1>2, <1>3, <1>4 DEF ViewStep

LEMMA SteadyIs ==
  ASSUME KeepHistory, NEW s \in Scanners
  PROVE  /\ scan'[s].pc \in {"idle", "oops"} => steady'[s] = {}
         /\ scan'[s].pc \notin {"idle", "oops"} /\ scan[s].pc = "idle" => steady'[s] = Listed
         /\ scan'[s].pc \notin {"idle", "oops"} /\ scan[s].pc # "idle" =>
              steady'[s] = steady[s] \cap Listed'
BY DEF KeepHistory, KeepSteady

LEMMA AstrayIs ==
  ASSUME KeepHistory, NEW s \in Scanners
  PROVE  /\ scan'[s].pc = "idle" => s \notin astray'
         /\ s \in astray /\ scan'[s].pc # "idle" => s \in astray'
         /\ Stray(s) /\ scan'[s] # scan[s] /\ scan'[s].pc # "idle" => s \in astray'
         /\ s \notin astray /\ (scan'[s] = scan[s] \/ ~Stray(s)) => s \notin astray'
BY DEF KeepHistory, KeepAstray

LEMMA TaskScans ==
  ASSUME ListInv, ScanInv, KeepHistory, ViewStep, scan' = scan,
         \A s \in Scanners : scan[s].pc # "null",
         \A s \in Scanners : scan[s].pc # "idle" => s \in overlapped'
  PROVE  ScanInv'
<1>1. Idle'
  BY AstrayIs DEF ScanInv, Idle, IdleOf
<1>2. Undisturbed'
  BY DEF Undisturbed, UndisturbedOf
<1>3. Ahead'
  <2> SUFFICES ASSUME NEW s \in Scanners PROVE AheadOf(s)'
    BY DEF Ahead
  <2>1. steady'[s] = {} \/ steady'[s] = steady[s] \cap Listed'
    BY SteadyIs
  <2>2. Typed /\ OneIoctl /\ scan[s].i \in Nat /\ scan[s].count \in Nat
    BY DEF ListInv, Turn, Typed, TypeOK
  <2> DEFINE x == scan[s].want
  <2>3. CASE x \notin steady'[s] \/ s \in astray'
    BY <2>1, <2>3 DEF ScanInv, Ahead, AheadOf
  <2>4. CASE x \in steady'[s] /\ s \notin astray'
    <3>0. scan[s].pc # "idle" /\ s \notin astray
      BY <2>4, SteadyIs, AstrayIs
    <3>1. x \in steady[s] /\ x \in Listed' /\ x \in Listed /\ steady'[s] \subseteq Listed'
      BY <2>1, <2>4 DEF ScanInv, Ahead, AheadOf
    <3>2. /\ Scanning(s) => Behind(x, scan[s].i)
          /\ scan[s].pc \in {"countLoaded", "scan"} => Within(x, scan[s].count)
          /\ scan[s].pc = "end" => scan[s].obj # 0
      BY <3>0, <3>1 DEF ScanInv, Ahead, AheadOf
    <3> HIDE DEF x
    <3>3. /\ Scanning(s) => \A j \in DOMAIN ListView' : j < scan[s].i => ListView'[j] # x
          /\ scan[s].pc \in {"countLoaded", "scan"} =>
               \E j \in DOMAIN ListView' : j <= scan[s].count /\ ListView'[j] = x
      BY <2>2, <3>1, <3>2, StaysAhead
    <3>4. scan'[s] = scan[s] /\ (Scanning(s)' <=> Scanning(s)) /\ scan'[s].want = x
      BY DEF Scanning, x
    <3>5. /\ Scanning(s)' => Behind(scan[s].want, scan[s].i)'
          /\ scan'[s].pc \in {"countLoaded", "scan"} => Within(scan[s].want, scan[s].count)'
      BY <3>3, <3>4 DEF Behind, Within
    <3>6. QED
      BY <3>1, <3>2, <3>4, <3>5 DEF AheadOf
  <2>5. QED
    BY <2>3, <2>4
<1>4. QED
  BY <1>1, <1>2, <1>3 DEF ScanInv

-----------------------------------------------------------------------------
(* The steps of a scanner.                                                 *)

\* Nothing but what the scanner itself has loaded is touched.
ScanOnly(s) ==
  /\ ListInv /\ ListInv' /\ ScanInv /\ KeepHistory /\ ListView' = ListView
  /\ UNCHANGED <<INTERFACE_COUNT, INTERFACE_CAPACITY, live, task>>
  /\ INTERFACE_LIST' = INTERFACE_LIST \/ INTERFACE_COUNT = 0
  /\ \A r \in Scanners : r # s => scan'[r] = scan[r] /\ (r \in overlapped' <=> r \in overlapped)

LEMMA OthersGoOn ==
  ASSUME NEW s \in Scanners, ScanOnly(s), IdleOf(s)', UndisturbedOf(s)', AheadOf(s)'
  PROVE  ScanInv'
<1>1. ASSUME NEW r \in Scanners, r # s PROVE IdleOf(r)' /\ UndisturbedOf(r)' /\ AheadOf(r)'
  <2>1. scan'[r] = scan[r] /\ (r \in overlapped' <=> r \in overlapped)
    BY <1>1 DEF ScanOnly
  <2>2. IdleOf(r) /\ UndisturbedOf(r) /\ AheadOf(r)
    BY DEF ScanOnly, ScanInv, Idle, Undisturbed, Ahead
  <2>0. r \in astray' <=> r \in astray
    BY <2>1, <2>2, AstrayIs DEF ScanOnly, IdleOf
  <2>3. IdleOf(r)'
    BY <2>0, <2>1, <2>2 DEF ScanOnly, IdleOf, InIoctl
  <2>4. UndisturbedOf(r)'
    BY <2>0, <2>1, <2>2 DEF ScanOnly, UndisturbedOf, InIoctl
  <2>5. Listed' = Listed
    BY DEF ScanOnly, Listed
  <2>6. steady'[r] = {} \/ steady'[r] = steady[r]
    BY <2>1, <2>2, <2>5, SteadyIs DEF ScanOnly, AheadOf
  <2>7. AheadOf(r)'
    BY <2>0, <2>1, <2>2, <2>5, <2>6 DEF ScanOnly, AheadOf, Scanning, Behind, Within
  <2>8. QED
    BY <2>3, <2>4, <2>7
<1>2. QED
  BY <1>1 DEF ScanInv, Idle, Undisturbed, Ahead

\* What is steady of a scan under way stays so.
LEMMA SteadyKept ==
  ASSUME NEW s \in Scanners, ScanOnly(s), scan[s].pc # "idle"
  PROVE  /\ steady'[s] = {} \/ steady'[s] = steady[s]
         /\ scan'[s].pc \in {"idle", "oops"} => steady'[s] = {}
         /\ steady'[s] \subseteq Listed' /\ Listed' = Listed
<1>1. Listed' = Listed
  BY DEF ScanOnly, Listed
<1>2. steady[s] \subseteq Listed
  BY DEF ScanOnly, ScanInv, Ahead, AheadOf
<1>3. QED
  BY <1>1, <1>2, SteadyIs DEF ScanOnly

\* A slot that can be read is in the array, and holds what the list has there
\* or what it has before.
LEMMA ViewSlot ==
  ASSUME ListInv, NEW b \in Blocks \cup {NULL}, NEW i \in DOMAIN ListView, InArray(b, i)
  PROVE  \/ ListView[i] = Wild \/ ListView[i] = slots[b][i]
         \/ \E j \in DOMAIN ListView : j < i /\ ListView[i] = ListView[j]
<1>1. Typed /\ OneIoctl
  BY DEF ListInv, Turn
<1>2. b \in Blocks /\ b # NULL /\ slots[b] # NULL /\ i \in 1 .. Len(slots[b])
  BY DEF InArray
<1>3. b = Array
  <2>1. SUFFICES ASSUME b # Array PROVE FALSE
    OBVIOUS
  <2>2. slots[b] = <<>>
    BY <1>2, <2>1 DEF ListInv, Memory
  <2>3. Len(<<>>) = 0
    OBVIOUS
  <2>4. QED
    BY <1>2, <2>2, <2>3
<1>4. SlotOf(Array, i) = slots[b][i]
  BY <1>3 DEF SlotOf
<1>5. CASE NoIoctl
  <2>1. ListView = Old /\ Array = INTERFACE_LIST
    BY <1>1, <1>5, Nobody DEF NobodyFacts
  <2>2. QED
    BY <1>4, <2>1 DEF Old
<1>6. CASE ~NoIoctl
  <2>1. PICK p \in Pids : InIoctl(p)
    BY <1>6 DEF NoIoctl
  <2>2. AloneFacts(p) /\ Storage(p)
    BY <2>1, Owner
  <2>3. CASE task[p].pc \in {"shift", "down"}
    <3>1. /\ Array = INTERFACE_LIST
          /\ ListView = [j \in 1 .. INTERFACE_COUNT - 1 |->
                           IF j < task[p].i THEN SlotOf(INTERFACE_LIST, j)
                           ELSE IF task[p].i = 1 THEN Wild
                                ELSE SlotOf(INTERFACE_LIST, task[p].i - 1)]
          /\ task[p].i \in 1 .. INTERFACE_COUNT
      BY <2>2, <2>3 DEF AloneFacts, Storage
    <3> DEFINE k == task[p].i
    <3>2. i \in 1 .. INTERFACE_COUNT - 1 /\ DOMAIN ListView = 1 .. INTERFACE_COUNT - 1
      BY <3>1
    <3>3. CASE i < k
      BY <1>4, <3>1, <3>2, <3>3
    <3>4. CASE ~(i < k) /\ k = 1
      BY <3>1, <3>2, <3>4
    <3>5. CASE ~(i < k) /\ k # 1
      <4>1. k - 1 \in 1 .. INTERFACE_COUNT - 1 /\ k - 1 < i /\ k - 1 < k
        BY <3>1, <3>2, <3>5, Sizes
      <4>2. ListView[i] = SlotOf(INTERFACE_LIST, k - 1)
        BY <3>1, <3>2, <3>5
      <4>3. ListView[k - 1] = SlotOf(INTERFACE_LIST, k - 1)
        BY <3>1, <4>1
      <4>4. QED
        BY <3>2, <4>1, <4>2, <4>3
    <3>6. QED
      BY <3>3, <3>4, <3>5
  <2>4. CASE task[p].pc = "slot"
    BY <1>4, <2>2, <2>4 DEF AloneFacts
  <2>5. CASE task[p].pc = "point"
    BY <1>4, <2>2, <2>5 DEF AloneFacts
  <2>6. CASE task[p].pc \notin {"shift", "down", "slot", "point"}
    BY <1>4, <2>2, <2>6 DEF AloneFacts, Old
  <2>7. QED
    BY <2>3, <2>4, <2>5, <2>6
<1>7. QED
  BY <1>5, <1>6

\* The id of an interface in the list is its own.
LEMMA ListedId ==
  ASSUME ListInv, NEW x \in Listed
  PROVE  x \in live /\ x \in Ids /\ ids[x] = x
<1>1. PICK j \in DOMAIN ListView : x = ListView[j] /\ x # Wild
  BY DEF Listed
<1>2. x \in live /\ \A p \in Pids : x # task[p].obj
  BY <1>1 DEF ListInv, ListOK
<1>3. x \notin Pending
  BY <1>2 DEF Pending, Registering
<1>4. x \in Ids /\ x <= allocated
  BY <1>2, ThreadsAssumption DEF ListInv, Typed, TypeOK, Ids
<1>5. QED
  BY <1>2, <1>3, <1>4 DEF ListInv, IdsOK

\* A scan that no ioctl overlaps sees the list.
LEMMA SeesList ==
  ASSUME ListInv, ScanInv, NEW s \in Scanners, More(s), s \notin overlapped
  PROVE  /\ Readable(s) /\ scan[s].i \in DOMAIN ListView /\ ListView[scan[s].i] = InSlot(s)
         /\ InSlot(s) \in live \cup {Wild}
<1>1. IdleOf(s) /\ UndisturbedOf(s) /\ scan[s].pc = "scan"
  BY DEF ScanInv, Idle, Undisturbed, More
<1>2. /\ NoIoctl /\ scan[s].count = INTERFACE_COUNT
      /\ scan[s].list = INTERFACE_LIST \/ INTERFACE_COUNT = 0
  BY <1>1 DEF UndisturbedOf, NoIoctl
<1>3. scan[s].i \in Nat /\ scan[s].i > 0 /\ scan[s].i <= scan[s].count
  BY <1>1 DEF ListInv, Typed, TypeOK, IdleOf, More
<1> DEFINE i == scan[s].i
<1>4. i \in 1 .. INTERFACE_COUNT /\ scan[s].list = INTERFACE_LIST
  BY <1>2, <1>3, Sizes
<1>5. Array = INTERFACE_LIST /\ ListView = Old /\ AtPc("krealloc") = {}
  BY <1>2, Nobody DEF NobodyFacts, ListInv
<1>6. INTERFACE_COUNT <= ArraySize
  BY <1>5, Sizes DEF ListInv, Memory
<1>7. Array # NULL /\ i <= ArraySize
  <2>1. i <= ArraySize
    BY <1>4, <1>6, Sizes
  <2>2. QED
    BY <1>4, <2>1 DEF ArraySize
<1>8. Readable(s)
  <2>1. slots[Array] # NULL /\ ArraySize = Len(slots[Array])
    BY <1>7 DEF ListInv, Memory, ArraySize
  <2>2. i \in 1 .. Len(slots[Array])
    BY <1>4, <1>7, <2>1, Sizes
  <2>3. QED
    BY <1>4, <1>5, <1>7, <2>1, <2>2 DEF Readable, InArray
<1>9. ListView[i] = InSlot(s) /\ i \in DOMAIN ListView
  BY <1>4, <1>5, <1>8 DEF Old, SlotOf, Readable, InSlot
<1>10. InSlot(s) \in live \cup {Wild}
  BY <1>9 DEF ListInv, ListOK
<1>11. QED
  BY <1>8, <1>9, <1>10

\* It does not go astray.
LEMMA StrayIs ==
  ASSUME ListInv, ScanInv, KeepHistory, NEW s \in Scanners, scan[s].pc # "idle",
         s \notin overlapped
  PROVE  s \notin astray'
<1>1. s \notin astray
  BY DEF ScanInv, Undisturbed, UndisturbedOf
<1>2. ~Stray(s)
  BY SeesList DEF Stray
<1>3. QED
  BY <1>1, <1>2, AstrayIs

\* A step that only moves scanner s on.
Scanned(s) ==
  /\ scan' \in Scans /\ overlapped' \subseteq Scanners /\ oops' = oops /\ ListUnchanged
  /\ \A r \in Scanners : r # s => scan'[r] = scan[r] /\ (r \in overlapped' <=> r \in overlapped)

LEMMA ScannedOnly ==
  ASSUME ListInv, ScanInv, KeepHistory, NEW s \in Scanners, Scanned(s)
  PROVE  ScanOnly(s) /\ INTERFACE_LIST' = INTERFACE_LIST
<1>1. oops' \in BOOLEAN
  BY DEF Scanned, ListInv, Typed
<1>2. ListInv' /\ ListView' = ListView
  BY <1>1, ScannedKeeps DEF Scanned
<1>3. QED
  BY <1>2 DEF ScanOnly, Scanned, ListUnchanged

LEMMA BeginScans ==
  ASSUME "ioctls" \notin raced', ListInv, ScanInv, KeepHistory, NEW s \in Scanners,
         NEW kind \in Kinds, NEW want \in Ids \cup {All}, BeginScan(s, kind, want)
  PROVE  Scanned(s) /\ ScanInv'
<1> DEFINE pc == IF kind = "broadcast" /\ INTERFACE_LIST = NULL THEN "null" ELSE "load"
<1>1. scan \in Scans /\ overlapped \subseteq Scanners
  BY DEF ListInv, Typed, TypeOK, Scans
<1>2. /\ scan[s].pc = "idle"
      /\ scan' = [scan EXCEPT ![s].kind = kind, ![s].want = want, ![s].pc = pc]
      /\ overlapped' = IF \E p \in Pids : InIoctl(p) THEN overlapped \cup {s}
                                                     ELSE overlapped \ {s}
      /\ ListUnchanged /\ oops' = oops
  BY DEF BeginScan, listVars, registryVars, procVars, ListUnchanged
<1>3. /\ scan'[s].pc = pc /\ scan'[s].i = scan[s].i /\ scan' \in Scans
      /\ \A r \in Scanners : r # s => scan'[r] = scan[r]
  BY <1>1, <1>2 DEF Scans
<1>a. scan'[s].pc = "null" => \A p \in Pids : ~InIoctl(p)
  <2>1. scan'[s].pc = "null" => \A p \in Pids : ~InIoctl(p)'
    BY DEF KeepHistory, KeepRaced
  <2>2. QED
    BY <1>2, <2>1 DEF InIoctl, ListUnchanged
<1>b. s \notin astray'
  BY <1>2, AstrayIs DEF ScanInv, Idle, IdleOf, Stray, More
<1>4. Scanned(s)
  <2>1. /\ overlapped' \subseteq Scanners
        /\ \A r \in Scanners : r # s => (r \in overlapped' <=> r \in overlapped)
    BY <1>1, <1>2
  <2>2. ListUnchanged /\ oops' = oops
    BY <1>2
  <2>3. QED
    BY <1>3, <2>1, <2>2 DEF Scanned
<1>5. ScanOnly(s) /\ INTERFACE_LIST' = INTERFACE_LIST
  BY <1>4, ScannedOnly
<1>6. scan[s].i = 1
  BY <1>2 DEF ScanInv, Idle, IdleOf
<1>7. IdleOf(s)'
  <2>1. CASE pc = "null"
    <3>1. NoIoctl /\ INTERFACE_LIST = NULL
      BY <1>2, <1>3, <1>a, <2>1 DEF NoIoctl
    <3>2. Array = NULL /\ AtPc("krealloc") = {}
      BY <3>1, Nobody DEF NobodyFacts, ListInv
    <3>3. ArraySize = 0
      BY <3>2 DEF ArraySize
    <3>4. INTERFACE_CAPACITY = 0 /\ INTERFACE_COUNT = 0
      BY <3>2, <3>3, Sizes DEF ListInv, Memory
    <3>5. \A p \in Pids : ~InIoctl(p)'
      BY <1>2, <3>1 DEF NoIoctl, InIoctl, ListUnchanged
    <3>6. QED
      BY <1>3, <1>5, <1>6, <2>1, <3>4, <3>5 DEF IdleOf, ScanOnly
  <2>2. CASE pc # "null"
    BY <1>3, <1>6, <2>2 DEF IdleOf
  <2>3. QED
    BY <2>1, <2>2
<1>8. UndisturbedOf(s)'
  <2>1. s \notin overlapped' => \A p \in Pids : ~InIoctl(p)
    BY <1>2
  <2>2. s \notin overlapped' => \A p \in Pids : ~InIoctl(p)'
    BY <1>2, <2>1 DEF InIoctl, ListUnchanged
  <2>3. QED
    BY <1>3, <1>b, <2>2 DEF UndisturbedOf
<1>9. AheadOf(s)'
  <2>1. steady'[s] = Listed /\ Listed' = Listed
    <3>1. scan[s].pc = "idle" /\ scan'[s].pc \notin {"idle", "oops"}
      BY <1>2, <1>3
    <3>2. Listed' = Listed
      BY <1>5 DEF Listed, ScanOnly
    <3>3. QED
      BY <3>1, <3>2, SteadyIs
  <2>2. \A j \in DOMAIN ListView' : ~(j < 1)
    <3>1. Typed /\ OneIoctl
      BY DEF ListInv, Turn
    <3>2. PICK n \in Nat : DOMAIN ListView = 1 .. n
      BY <3>1, ViewTyped
    <3>3. QED
      BY <1>5, <3>2 DEF ScanOnly
  <2>3. QED
    BY <1>3, <1>6, <2>1, <2>2 DEF AheadOf, Scanning, Behind
<1>10. QED
  BY <1>4, <1>5, <1>7, <1>8, <1>9, OthersGoOn

LEMMA InitScans ==
  ASSUME ListInv, ScanInv, KeepHistory, NEW s \in Scanners, init_interfaces(s)
  PROVE  ListInv' /\ ListView' = ListView /\ ScanInv'
<1>1. ListInv' /\ ListView' = ListView
  BY InitKeeps DEF ScanInv
<1>2. /\ scan[s].pc = "null" /\ scan' = [scan EXCEPT ![s].pc = "load"] /\ overlapped' = overlapped
      /\ UNCHANGED <<INTERFACE_COUNT, INTERFACE_CAPACITY, live, task>>
  BY DEF init_interfaces, registryVars
<1>3. scan \in Scans
  BY DEF ListInv, Typed, TypeOK, Scans
<1>4. /\ scan'[s].pc = "load" /\ scan'[s].i = scan[s].i /\ scan'[s].want = scan[s].want
      /\ \A r \in Scanners : r # s => scan'[r] = scan[r]
  BY <1>2, <1>3 DEF Scans
<1>5. IdleOf(s) /\ UndisturbedOf(s) /\ AheadOf(s)
  BY DEF ScanInv, Idle, Undisturbed, Ahead
<1>6. ScanOnly(s)
  BY <1>1, <1>2, <1>4, <1>5 DEF ScanOnly, IdleOf
<1>7. IdleOf(s)' /\ UndisturbedOf(s)'
  BY <1>2, <1>4, <1>5, StrayIs DEF IdleOf, UndisturbedOf, InIoctl
<1>8. AheadOf(s)'
  BY <1>1, <1>2, <1>4, <1>5, <1>6, SteadyKept, AstrayIs DEF AheadOf, Scanning, Behind
<1>9. QED
  BY <1>1, <1>6, <1>7, <1>8, OthersGoOn

LEMMA LoadListScans ==
  ASSUME ListInv, ScanInv, KeepHistory, NEW s \in Scanners, LoadList(s)
  PROVE  Scanned(s) /\ ScanInv'
<1>1. scan \in Scans /\ overlapped \subseteq Scanners /\ INTERFACE_LIST \in Blocks \cup {NULL}
  BY DEF ListInv, Typed, TypeOK, Scans
<1>2. PICK step \in {<<"load", "listLoaded">>, <<"countLoaded", "scan">>} :
        /\ scan[s].pc = step[1]
        /\ scan' = [scan EXCEPT ![s].pc = step[2], ![s].list = INTERFACE_LIST]
        /\ UNCHANGED <<listVars, registryVars, overlapped>>
  BY DEF LoadList
<1> DEFINE from == step[1]
           to == step[2]
<1>3. /\ scan[s].pc = from
      /\ scan' = [scan EXCEPT ![s].pc = to, ![s].list = INTERFACE_LIST]
  BY <1>2, Zenon
<1>4. /\ \/ from = "load" /\ to = "listLoaded"
         \/ from = "countLoaded" /\ to = "scan"
      /\ ListUnchanged /\ oops' = oops /\ overlapped' = overlapped
  BY <1>2 DEF listVars, registryVars, procVars, ListUnchanged
<1> HIDE DEF from, to
<1>5. /\ scan[s].pc = from /\ scan'[s].pc = to /\ scan'[s].list = INTERFACE_LIST
      /\ scan'[s].count = scan[s].count
      /\ scan'[s].i = scan[s].i /\ scan'[s].want = scan[s].want
      /\ scan' \in Scans /\ \A r \in Scanners : r # s => scan'[r] = scan[r]
  <2>1. to \in {"listLoaded", "scan"}
    BY <1>4
  <2>2. PICK b \in Blocks \cup {NULL} : b = INTERFACE_LIST
    BY <1>1
  <2>3. scan' = [scan EXCEPT ![s].pc = to, ![s].list = b]
    BY <1>3, <2>2
  <2>4. scan' \in Scans
    <3>1. PICK r : r = scan[s]
      OBVIOUS
    <3>2. PICK u : u = [r EXCEPT !.pc = to, !.list = b]
      OBVIOUS
    <3>3. u \in ScanRecord
      BY <1>1, <2>1, <2>2, <3>1, <3>2 DEF Scans, ScanRecord
    <3>4. scan' = [scan EXCEPT ![s] = u]
      BY <2>3, <3>1, <3>2, Zenon
    <3>5. scan \in [Scanners -> ScanRecord]
      BY <1>1 DEF Scans, ScanRecord
    <3>6. scan' \in [Scanners -> ScanRecord]
      BY <3>3, <3>4, <3>5
    <3>7. QED
      BY <3>6 DEF Scans, ScanRecord
  <2>5. /\ scan'[s].pc = to /\ scan'[s].list = b /\ scan'[s].count = scan[s].count
        /\ scan'[s].i = scan[s].i /\ scan'[s].want = scan[s].want
        /\ \A r \in Scanners : r # s => scan'[r] = scan[r]
    BY <1>1, <2>3 DEF Scans
  <2>6. QED
    BY <1>3, <2>2, <2>4, <2>5
<1>6. \/ scan[s].pc = "load" /\ scan'[s].pc = "listLoaded"
      \/ scan[s].pc = "countLoaded" /\ scan'[s].pc = "scan"
  BY <1>4, <1>5
<1>7. Scanned(s)
  BY <1>4, <1>1, <1>5 DEF Scanned
<1>8. ScanOnly(s) /\ INTERFACE_LIST' = INTERFACE_LIST
  BY <1>7, ScannedOnly
<1>9. IdleOf(s) /\ UndisturbedOf(s) /\ AheadOf(s)
  BY DEF ScanInv, Idle, Undisturbed, Ahead
<1>10. IdleOf(s)'
  BY <1>5, <1>6, <1>9 DEF IdleOf
<1>11. UndisturbedOf(s)'
  <2>1. s \notin overlapped' => s \notin overlapped
    BY <1>4
  <2>2. QED
    BY <1>5, <1>6, <1>8, <1>9, <2>1, StrayIs DEF UndisturbedOf, ScanOnly, InIoctl
<1>12. AheadOf(s)'
  <2>1. /\ steady'[s] = {} \/ steady'[s] = steady[s]
        /\ steady'[s] \subseteq Listed' /\ ListView' = ListView
    BY <1>6, <1>8, SteadyKept DEF ScanOnly
  <2>2. QED
    BY <1>5, <1>6, <1>9, <2>1, AstrayIs DEF AheadOf, Scanning, Behind, Within
<1>13. QED
  BY <1>7, <1>8, <1>10, <1>11, <1>12, OthersGoOn

LEMMA LoadCountScans ==
  ASSUME ListInv, ScanInv, KeepHistory, NEW s \in Scanners, LoadCount(s)
  PROVE  Scanned(s) /\ ScanInv'
<1>1. scan \in Scans /\ overlapped \subseteq Scanners /\ INTERFACE_COUNT \in Nat
  BY DEF ListInv, Typed, TypeOK, Scans
<1>a. AsInt(INTERFACE_COUNT) = INTERFACE_COUNT
  <2>1. INTERFACE_COUNT <= allocated /\ allocated \in 0 .. MaxRegistrations
    BY DEF ListInv, Turn, Typed, TypeOK
  <2>2. 2 * INTERFACE_COUNT <= MaxCount
    BY <1>1, <2>1, ThreadsAssumption
  <2>3. QED
    BY <1>1, <2>2, ThreadsAssumption DEF AsInt
<1>2. PICK step \in {<<"load", "countLoaded">>, <<"listLoaded", "scan">>} :
        /\ scan[s].pc = step[1]
        /\ scan' = [scan EXCEPT ![s].pc = step[2], ![s].count = INTERFACE_COUNT]
        /\ UNCHANGED <<listVars, registryVars, overlapped>>
  <2>1. (IF scan[s].kind = "find" THEN AsInt(INTERFACE_COUNT) ELSE INTERFACE_COUNT)
          = INTERFACE_COUNT
    BY <1>a
  <2>2. QED
    BY <2>1 DEF LoadCount
<1> DEFINE from == step[1]
           to == step[2]
<1>3. /\ scan[s].pc = from
      /\ scan' = [scan EXCEPT ![s].pc = to, ![s].count = INTERFACE_COUNT]
  BY <1>2, Zenon
<1>4. /\ \/ from = "load" /\ to = "countLoaded"
         \/ from = "listLoaded" /\ to = "scan"
      /\ ListUnchanged /\ oops' = oops /\ overlapped' = overlapped
  BY <1>2 DEF listVars, registryVars, procVars, ListUnchanged
<1> HIDE DEF from, to
<1>5. /\ scan[s].pc = from /\ scan'[s].pc = to /\ scan'[s].count = INTERFACE_COUNT
      /\ scan'[s].list = scan[s].list
      /\ scan'[s].i = scan[s].i /\ scan'[s].want = scan[s].want
      /\ scan' \in Scans /\ \A r \in Scanners : r # s => scan'[r] = scan[r]
  BY <1>1, <1>3, <1>4 DEF Scans
<1>6. \/ scan[s].pc = "load" /\ scan'[s].pc = "countLoaded"
      \/ scan[s].pc = "listLoaded" /\ scan'[s].pc = "scan"
  BY <1>4, <1>5
<1>7. Scanned(s)
  BY <1>4, <1>1, <1>5 DEF Scanned
<1>8. ScanOnly(s) /\ INTERFACE_LIST' = INTERFACE_LIST
  BY <1>7, ScannedOnly
<1>9. IdleOf(s) /\ UndisturbedOf(s) /\ AheadOf(s)
  BY DEF ScanInv, Idle, Undisturbed, Ahead
<1>10. IdleOf(s)'
  BY <1>5, <1>6, <1>9 DEF IdleOf
<1>11. UndisturbedOf(s)'
  <2>1. s \notin overlapped' => s \notin overlapped
    BY <1>4
  <2>2. QED
    BY <1>5, <1>6, <1>8, <1>9, <2>1, StrayIs DEF UndisturbedOf, ScanOnly, InIoctl
<1>12. AheadOf(s)'
  <2>1. /\ steady'[s] = {} \/ steady'[s] = steady[s]
        /\ steady'[s] \subseteq Listed' /\ ListView' = ListView
    BY <1>6, <1>8, SteadyKept DEF ScanOnly
  <2>2. \A x \in Listed : Within(x, INTERFACE_COUNT)
    <3>1. Typed /\ OneIoctl
      BY DEF ListInv, Turn
    <3>2. PICK n \in Nat : DOMAIN ListView = 1 .. n /\ n <= INTERFACE_COUNT
      BY <3>1, ViewTyped
    <3>3. \A j \in 1 .. n : j <= INTERFACE_COUNT
      BY <1>1, <3>2
    <3>4. QED
      BY <3>2, <3>3 DEF Listed, Within
  <2>3. ASSUME scan[s].want \in steady[s] PROVE Within(scan[s].want, INTERFACE_COUNT)
    BY <1>9, <2>2, <2>3 DEF AheadOf
  <2>4. QED
    BY <1>5, <1>6, <1>9, <2>1, <2>3, AstrayIs DEF AheadOf, Scanning, Behind, Within
<1>13. QED
  BY <1>7, <1>8, <1>10, <1>11, <1>12, OthersGoOn

\* Scanner s goes from one place to another.
MovedScan(s, from, to) ==
  /\ scan[s].pc = from /\ scan'[s].pc = to /\ scan'[s].list = scan[s].list
  /\ scan'[s].count = scan[s].count /\ scan'[s].i = scan[s].i /\ scan'[s].want = scan[s].want
  /\ scan'[s].obj = scan[s].obj /\ overlapped' = overlapped

LEMMA MovedScans ==
  ASSUME ListInv, ScanInv, KeepHistory, NEW s \in Scanners,
         NEW from \in {"scan", "found"}, NEW to \in {"found", "end", "oops"}, Move(s, from, to)
  PROVE  /\ MovedScan(s, from, to) /\ Scanned(s) /\ ScanOnly(s)
         /\ IdleOf(s) /\ UndisturbedOf(s) /\ AheadOf(s)
         /\ s \notin overlapped => s \notin astray'
         /\ s \notin astray' => s \notin astray
<1>1. scan \in Scans /\ overlapped \subseteq Scanners
  BY DEF ListInv, Typed, TypeOK, Scans
<1>2. /\ scan[s].pc = from /\ scan' = [scan EXCEPT ![s].pc = to]
      /\ ListUnchanged /\ oops' = oops /\ overlapped' = overlapped
  BY DEF Move, listVars, registryVars, procVars, ListUnchanged
<1>3. /\ scan'[s].pc = to /\ scan'[s].count = scan[s].count /\ scan'[s].list = scan[s].list
      /\ scan'[s].i = scan[s].i /\ scan'[s].want = scan[s].want /\ scan'[s].obj = scan[s].obj
      /\ \A r \in Scanners : r # s => scan'[r] = scan[r]
  BY <1>1, <1>2 DEF Scans
<1>4. scan' \in Scans
  BY <1>1, <1>2 DEF Scans
<1>5. Scanned(s)
  BY <1>1, <1>2, <1>3, <1>4 DEF Scanned
<1>6. ScanOnly(s)
  BY <1>5, ScannedOnly
<1>7. IdleOf(s) /\ UndisturbedOf(s) /\ AheadOf(s)
  BY DEF ScanInv, Idle, Undisturbed, Ahead
<1>8. (s \notin overlapped => s \notin astray') /\ (s \notin astray' => s \notin astray)
  BY <1>2, <1>3, StrayIs, AstrayIs
<1>9. QED
  BY <1>2, <1>3, <1>5, <1>6, <1>7, <1>8 DEF MovedScan

LEMMA ScanCrashesScans ==
  ASSUME ListInv, ScanInv, KeepHistory, NEW s \in Scanners, ScanCrashes(s)
  PROVE  Scanned(s) /\ ScanInv'
<1>1. /\ MovedScan(s, "scan", "oops") /\ Scanned(s) /\ ScanOnly(s)
      /\ IdleOf(s) /\ UndisturbedOf(s) /\ AheadOf(s)
      /\ s \notin overlapped => s \notin astray'
  BY MovedScans DEF ScanCrashes
<1>2. IdleOf(s)'
  BY <1>1 DEF IdleOf, MovedScan
<1>3. UndisturbedOf(s)'
  <2> SUFFICES ASSUME s \notin overlapped
               PROVE  NoIoctl /\ Wild \in {ListView[j] : j \in DOMAIN ListView}
    BY <1>1 DEF UndisturbedOf, MovedScan, ScanOnly, NoIoctl, InIoctl
  <2>1. NoIoctl /\ More(s)
    BY <1>1 DEF UndisturbedOf, MovedScan, NoIoctl, ScanCrashes
  <2>2. /\ scan[s].i \in DOMAIN ListView /\ ListView[scan[s].i] = InSlot(s)
        /\ Readable(s) /\ InSlot(s) \in live \cup {Wild}
    BY <2>1, SeesList
  <2>3. InSlot(s) = Wild
    BY <2>2 DEF ScanCrashes, Sound
  <2>4. QED
    BY <2>1, <2>2, <2>3
<1>4. AheadOf(s)'
  <2>1. steady'[s] = {}
    BY <1>1, SteadyIs DEF MovedScan, ScanOnly
  <2>2. QED
    BY <2>1 DEF AheadOf
<1>5. QED
  BY <1>1, <1>2, <1>3, <1>4, OthersGoOn

LEMMA NextSlotScans ==
  ASSUME ListInv, ScanInv, KeepHistory, NEW s \in Scanners, NextSlot(s)
  PROVE  Scanned(s) /\ ScanInv'
<1> DEFINE to == IF scan[s].kind = "read" THEN "load" ELSE "scan"
<1>1. scan \in Scans /\ overlapped \subseteq Scanners
  BY DEF ListInv, Typed, TypeOK, Scans
<1>2. /\ scan[s].pc = "scan" /\ to \in {"load", "scan"}
      /\ scan' = [scan EXCEPT ![s].i = @ + 1, ![s].pc = to]
  BY DEF NextSlot, More
<1>3. ListUnchanged /\ oops' = oops /\ overlapped' = overlapped
  BY DEF NextSlot, listVars, registryVars, procVars, ListUnchanged
<1> HIDE DEF to
<1>4. scan[s].i \in Nat /\ scan[s].list \in Blocks \cup {NULL}
  BY <1>1 DEF Scans
<1>5. /\ scan'[s].pc = to /\ scan'[s].list = scan[s].list /\ scan'[s].count = scan[s].count
      /\ scan'[s].i = scan[s].i + 1 /\ scan'[s].want = scan[s].want
      /\ \A r \in Scanners : r # s => scan'[r] = scan[r]
  BY <1>1, <1>2 DEF Scans
<1>6. scan' \in Scans
  <2>1. PICK n \in Nat : n = scan[s].i + 1
    BY <1>4
  <2>2. scan' = [scan EXCEPT ![s].i = n, ![s].pc = to]
    BY <1>2, <2>1
  <2>3. to \in {"load", "scan"}
    BY <1>2
  <2>4. PICK r : r = scan[s]
    OBVIOUS
  <2>5. PICK u : u = [r EXCEPT !.i = n, !.pc = to]
    OBVIOUS
  <2>6. u \in ScanRecord
    BY <1>1, <2>3, <2>4, <2>5 DEF Scans, ScanRecord
  <2>7. scan' = [scan EXCEPT ![s] = u]
    BY <2>2, <2>4, <2>5, Zenon
  <2>8. scan \in [Scanners -> ScanRecord]
    BY <1>1 DEF Scans, ScanRecord
  <2>9. scan' \in [Scanners -> ScanRecord]
    BY <2>6, <2>7, <2>8
  <2>10. QED
    BY <2>9 DEF Scans, ScanRecord
<1>7. Scanned(s)
  BY <1>1, <1>3, <1>5, <1>6 DEF Scanned
<1>8. ScanOnly(s) /\ INTERFACE_LIST' = INTERFACE_LIST
  BY <1>7, ScannedOnly
<1>9. IdleOf(s) /\ UndisturbedOf(s) /\ AheadOf(s)
  BY DEF ScanInv, Idle, Undisturbed, Ahead
<1>10. IdleOf(s)'
  BY <1>2, <1>4, <1>5 DEF IdleOf
<1>11. UndisturbedOf(s)'
  <2>1. s \notin overlapped' => s \notin overlapped
    BY <1>3
  <2>2. QED
    BY <1>2, <1>5, <1>8, <1>9, <2>1, StrayIs DEF UndisturbedOf, ScanOnly, InIoctl
<1>12. AheadOf(s)'
  <2> DEFINE x == scan[s].want
             i == scan[s].i
  <2>1. /\ steady'[s] = {} \/ steady'[s] = steady[s]
        /\ steady'[s] \subseteq Listed' /\ ListView' = ListView
    BY <1>2, <1>8, SteadyKept DEF ScanOnly
  <2>0. ASSUME s \notin astray'
        PROVE  /\ s \notin astray /\ Readable(s) /\ InSlot(s) \in live \cup {Wild}
               /\ InSlot(s) = Wild \/ ids[InSlot(s)] # x
    <3>1. scan'[s] # scan[s] /\ scan'[s].pc # "idle"
      <4>1. scan'[s].i # scan[s].i
        BY <1>4, <1>5
      <4>2. scan'[s].pc # "idle"
        BY <1>2, <1>5
      <4>3. QED
        BY <4>1, <4>2
    <3>2. s \notin astray /\ ~Stray(s)
      BY <2>0, <3>1, AstrayIs
    <3>3. Readable(s) /\ InSlot(s) \in live \cup {Wild}
      BY <3>2 DEF Stray, NextSlot
    <3>4. InSlot(s) \in live => ids[InSlot(s)] # x
      BY <3>3 DEF NextSlot, MayRead
    <3>5. QED
      BY <3>2, <3>3, <3>4
  <2>2. ASSUME x \in steady[s], s \notin astray' PROVE Behind(x, i + 1)
    <3>1. Behind(x, i) /\ x \in Listed
      BY <1>2, <1>9, <2>0, <2>2 DEF AheadOf, Scanning
    <3>2. x # Wild /\ ids[x] = x
      BY <3>1, ListedId DEF Listed
    <3>3. InSlot(s) # x /\ Readable(s)
      BY <2>0, <2>2, <3>2
    <3>4. ASSUME i \in DOMAIN ListView PROVE ListView[i] # x
      <4>1. slots[scan[s].list][i] # x /\ InArray(scan[s].list, i)
        BY <3>3 DEF InSlot, Readable
      <4>2. \/ ListView[i] = Wild \/ ListView[i] = slots[scan[s].list][i]
            \/ \E j \in DOMAIN ListView : j < i /\ ListView[i] = ListView[j]
        BY <1>4, <3>4, <4>1, ViewSlot
      <4>3. QED
        BY <3>1, <3>2, <4>1, <4>2 DEF Behind
    <3>5. PICK n \in Nat : DOMAIN ListView = 1 .. n
      BY ViewTyped DEF ListInv, Turn
    <3>6. \A j \in 1 .. n : j < i + 1 => j < i \/ j = i
      BY <1>4
    <3>7. QED
      BY <3>1, <3>4, <3>5, <3>6 DEF Behind
  <2>3. x \in steady[s] /\ s \notin astray' => Within(x, scan[s].count)
    BY <1>2, <1>9, <2>0 DEF AheadOf
  <2>4. QED
    BY <1>2, <1>5, <2>1, <2>2, <2>3 DEF AheadOf, Scanning, Behind, Within
<1>13. QED
  BY <1>7, <1>8, <1>10, <1>11, <1>12, OthersGoOn

LEMMA FoundScans ==
  ASSUME ListInv, ScanInv, KeepHistory, NEW s \in Scanners, Found(s)
  PROVE  Scanned(s) /\ ScanInv'
<1>1. scan \in Scans /\ overlapped \subseteq Scanners
  BY DEF ListInv, Typed, TypeOK, Scans
<1>2. PICK x \in MayRead(s) \ {Wild} :
        /\ scan[s].pc = "scan" /\ More(s)
        /\ scan' = [scan EXCEPT ![s].pc = "found", ![s].obj = x]
  BY DEF Found, More
<1>3. ListUnchanged /\ oops' = oops /\ overlapped' = overlapped
  BY DEF Found, listVars, registryVars, procVars, ListUnchanged
<1>4. x \in Ids
  <2>1. live \subseteq Ids /\ 1 .. allocated \subseteq Ids
    BY ThreadsAssumption DEF ListInv, Typed, TypeOK, Ids
  <2>2. QED
    BY <1>2, <2>1 DEF MayRead
<1>5. /\ scan'[s].pc = "found" /\ scan'[s].obj = x
      /\ scan'[s].i = scan[s].i /\ scan'[s].want = scan[s].want
      /\ \A r \in Scanners : r # s => scan'[r] = scan[r]
  BY <1>1, <1>2 DEF Scans
<1>6. scan' \in Scans
  <2>1. PICK o \in Ids \cup {0} : o = x
    BY <1>4
  <2>2. scan' = [scan EXCEPT ![s].pc = "found", ![s].obj = o]
    BY <1>2, <2>1, Zenon
  <2>4. PICK r : r = scan[s]
    OBVIOUS
  <2>5. PICK u : u = [r EXCEPT !.pc = "found", !.obj = o]
    OBVIOUS
  <2>6. u \in ScanRecord
    BY <1>1, <2>4, <2>5 DEF Scans, ScanRecord
  <2>7. scan' = [scan EXCEPT ![s] = u]
    BY <2>2, <2>4, <2>5, Zenon
  <2>8. scan \in [Scanners -> ScanRecord]
    BY <1>1 DEF Scans, ScanRecord
  <2>9. scan' \in [Scanners -> ScanRecord]
    BY <2>6, <2>7, <2>8
  <2>10. QED
    BY <2>9 DEF Scans, ScanRecord
<1>7. Scanned(s)
  BY <1>1, <1>3, <1>5, <1>6 DEF Scanned
<1>8. ScanOnly(s) /\ INTERFACE_LIST' = INTERFACE_LIST
  BY <1>7, ScannedOnly
<1>9. IdleOf(s) /\ UndisturbedOf(s) /\ AheadOf(s)
  BY DEF ScanInv, Idle, Undisturbed, Ahead
<1>10. IdleOf(s)'
  BY <1>4, <1>5, <1>9 DEF IdleOf, Ids
<1>11. UndisturbedOf(s)'
  <2>1. s \notin overlapped' => s \notin overlapped
    BY <1>3
  <2>2. s \notin overlapped => x \in live'
    BY <1>2, <1>8, SeesList DEF ScanOnly, MayRead
  <2>3. s \notin overlapped => \A p \in Pids : ~InIoctl(p)'
    BY <1>2, <1>8, <1>9 DEF UndisturbedOf, ScanOnly, InIoctl
  <2>4. QED
    BY <1>2, <1>5, <2>1, <2>2, <2>3, StrayIs DEF UndisturbedOf
<1>12. AheadOf(s)'
  <2>1. steady'[s] \subseteq Listed'
    BY <1>2, <1>8, SteadyKept
  <2>2. QED
    BY <1>5, <2>1 DEF AheadOf, Scanning
<1>13. QED
  BY <1>7, <1>8, <1>10, <1>11, <1>12, OthersGoOn

LEMMA EndScans ==
  ASSUME ListInv, ScanInv, KeepHistory, NEW s \in Scanners, EndOfList(s)
  PROVE  Scanned(s) /\ ScanInv'
<1>1. /\ MovedScan(s, "scan", "end") /\ Scanned(s) /\ ScanOnly(s)
      /\ IdleOf(s) /\ UndisturbedOf(s) /\ AheadOf(s)
      /\ s \notin overlapped => s \notin astray'
      /\ s \notin astray' => s \notin astray
  BY MovedScans DEF EndOfList
<1>2. IdleOf(s)'
  BY <1>1 DEF IdleOf, MovedScan
<1>3. UndisturbedOf(s)'
  BY <1>1 DEF UndisturbedOf, MovedScan, ScanOnly, InIoctl
<1>4. AheadOf(s)'
  <2>1. steady'[s] \subseteq Listed' /\ (steady'[s] = {} \/ steady'[s] = steady[s])
    BY <1>1, SteadyKept DEF MovedScan
  <2>2. s \notin astray' => scan[s].want \notin steady[s]
    <3> SUFFICES ASSUME scan[s].want \in steady[s], s \notin astray' PROVE FALSE
      OBVIOUS
    <3>1. Behind(scan[s].want, scan[s].i) /\ Within(scan[s].want, scan[s].count)
      BY <1>1 DEF AheadOf, MovedScan, Scanning
    <3>2. scan[s].i \in Nat /\ scan[s].count \in Nat /\ scan[s].i > scan[s].count
      BY DEF ListInv, Typed, TypeOK, EndOfList
    <3>3. PICK n \in Nat : DOMAIN ListView = 1 .. n
      BY ViewTyped DEF ListInv, Turn
    <3>4. \A j \in 1 .. n : j <= scan[s].count => j < scan[s].i
      BY <3>2
    <3>5. QED
      BY <3>1, <3>3, <3>4 DEF Behind, Within
  <2>3. QED
    BY <1>1, <2>1, <2>2 DEF AheadOf, MovedScan
<1>5. QED
  BY <1>1, <1>2, <1>3, <1>4, OthersGoOn

LEMMA UseFoundScans ==
  ASSUME ListInv, ScanInv, KeepHistory, NEW s \in Scanners, UseFound(s)
  PROVE  Scanned(s) /\ ScanInv'
<1>1. PICK to \in {"found", "end"} : Move(s, "found", to)
  BY DEF UseFound
<1>2. /\ MovedScan(s, "found", to) /\ Scanned(s) /\ ScanOnly(s)
      /\ IdleOf(s) /\ UndisturbedOf(s) /\ AheadOf(s)
      /\ s \notin overlapped => s \notin astray'
  BY <1>1, MovedScans
<1>3. IdleOf(s)'
  BY <1>2 DEF IdleOf, MovedScan
<1>4. UndisturbedOf(s)'
  BY <1>2 DEF UndisturbedOf, MovedScan, ScanOnly, InIoctl
<1>5. AheadOf(s)'
  <2>1. steady'[s] \subseteq Listed'
    BY <1>2, SteadyKept DEF MovedScan
  <2>2. QED
    BY <1>2, <2>1 DEF AheadOf, IdleOf, MovedScan, Scanning
<1>6. QED
  BY <1>2, <1>3, <1>4, <1>5, OthersGoOn

LEMMA UseFreedScans ==
  ASSUME ListInv, ScanInv, KeepHistory, NEW s \in Scanners, UseFreed(s)
  PROVE  Scanned(s) /\ ScanInv'
<1>1. /\ MovedScan(s, "found", "oops") /\ Scanned(s) /\ ScanOnly(s)
      /\ IdleOf(s) /\ UndisturbedOf(s) /\ AheadOf(s)
  BY MovedScans DEF UseFreed
<1>2. s \in overlapped
  BY <1>1 DEF UndisturbedOf, MovedScan, UseFreed
<1>3. IdleOf(s)' /\ UndisturbedOf(s)'
  BY <1>1, <1>2 DEF IdleOf, UndisturbedOf, MovedScan
<1>4. AheadOf(s)'
  <2>1. steady'[s] = {}
    BY <1>1, SteadyIs DEF MovedScan, ScanOnly
  <2>2. QED
    BY <2>1 DEF AheadOf
<1>5. QED
  BY <1>1, <1>3, <1>4, OthersGoOn

LEMMA FinishScans ==
  ASSUME ListInv, ScanInv, KeepHistory, NEW s \in Scanners, Finish(s)
  PROVE  Scanned(s) /\ ScanInv'
<1>1. scan \in Scans /\ overlapped \subseteq Scanners
  BY DEF ListInv, Typed, TypeOK, Scans
<1>2. scan' = [scan EXCEPT ![s] = IdleScan] /\ overlapped' = overlapped \ {s}
  BY DEF Finish
<1>3. ListUnchanged /\ oops' = oops
  BY DEF Finish, listVars, registryVars, procVars, ListUnchanged
<1>4. /\ IdleScan.pc = "idle" /\ IdleScan.i = 1
      /\ IdleScan \in [pc : {"idle", "null", "load", "listLoaded", "countLoaded", "scan",
                             "found", "end", "oops"},
                       kind : Kinds, list : Blocks \cup {NULL}, count : Nat, i : Nat,
                       want : Ids \cup {All}, obj : Ids \cup {0}]
  BY DEF IdleScan, Kinds, All
<1>5. /\ scan'[s].pc = "idle" /\ scan'[s].i = 1
      /\ \A r \in Scanners : r # s => scan'[r] = scan[r]
  BY <1>1, <1>2, <1>4 DEF Scans
<1>6. scan' \in Scans
  BY <1>1, <1>2, <1>4 DEF Scans
<1>7. Scanned(s)
  BY <1>1, <1>2, <1>3, <1>5, <1>6 DEF Scanned
<1>8. ScanOnly(s)
  BY <1>7, ScannedOnly
<1>9. IdleOf(s)' /\ UndisturbedOf(s)'
  BY <1>5, AstrayIs DEF IdleOf, UndisturbedOf
<1>10. AheadOf(s)'
  <2>1. steady'[s] = {}
    BY <1>5, <1>8, SteadyIs DEF ScanOnly
  <2>2. QED
    BY <2>1 DEF AheadOf
<1>11. QED
  BY <1>7, <1>8, <1>9, <1>10, OthersGoOn

-----------------------------------------------------------------------------
(* The steps of the tasks, and those that touch nothing.                   *)

\* The scans under way when an ioctl is: all of them overlapped.
LEMMA Busy ==
  ASSUME ScanInv, NEW p \in Pids, InIoctl(p)
  PROVE  \A s \in Scanners : scan[s].pc # "null" /\ (scan[s].pc # "idle" => s \in overlapped)
BY DEF ScanInv, Idle, IdleOf, Undisturbed, UndisturbedOf

LEMMA InsideScans ==
  ASSUME ListInv, ScanInv, KeepHistory, ViewStep, NEW p \in Pids, InIoctl(p),
         scan' = scan, overlapped' = overlapped
  PROVE  ScanInv'
BY Busy, TaskScans

\* Where an ioctl is entered.
LEMMA EnterScans ==
  ASSUME "ioctls" \notin raced', ListInv, ScanInv, KeepHistory, ViewStep, NEW p \in Pids,
         NEW t, t.pc # "idle", Enter(p, t), scan' = scan
  PROVE  ScanInv'
<1>1. \A s \in Scanners : scan[s].pc # "null" /\ (scan[s].pc # "idle" => s \in overlapped')
  <2>1. \A s \in Scanners : scan[s].pc # "idle" => s \in overlapped'
    BY DEF Enter
  <2>2. InIoctl(p)'
    BY DEF ListInv, Typed, TypeOK, Enter, InIoctl
  <2>3. \A s \in Scanners : scan'[s].pc # "null"
    BY <2>2 DEF KeepHistory, KeepRaced
  <2>4. QED
    BY <2>1, <2>3
<1>2. QED
  BY <1>1, TaskScans

LEMMA StillScans ==
  ASSUME ListInv, ScanInv, ListInv', ListView' = ListView, ListUnchanged, scan' = scan,
         overlapped' = overlapped, \A s \in Scanners : s \in astray' <=> s \in astray,
         \A s \in Scanners : steady'[s] = {} \/ steady'[s] = steady[s]
  PROVE  ScanInv'
<1>1. Listed' = Listed
  BY DEF Listed
<1>2. Idle'
  BY DEF ScanInv, Idle, IdleOf, InIoctl, ListUnchanged
<1>3. Undisturbed'
  BY DEF ScanInv, Undisturbed, UndisturbedOf, InIoctl, ListUnchanged
<1>4. Ahead'
  BY <1>1 DEF ScanInv, Ahead, AheadOf, Scanning, Behind, Within
<1>5. QED
  BY <1>2, <1>3, <1>4 DEF ScanInv

LEMMA OopsKeeps ==
  ASSUME ListInv, ScanInv, KeepHistory, ListUnchanged, scan' = scan, overlapped' = overlapped,
         oops' = TRUE
  PROVE  ListInv' /\ ListView' = ListView /\ ScanInv'
<1>1. scan \in Scans /\ overlapped \subseteq Scanners
  BY DEF ListInv, Typed, TypeOK, Scans
<1>2. ListInv' /\ ListView' = ListView
  BY <1>1, ScannedKeeps
<1>3. Listed' = Listed
  BY <1>2 DEF Listed
<1>4. \A s \in Scanners : steady[s] \subseteq Listed
  BY DEF ScanInv, Ahead, AheadOf
<1>5. \A s \in Scanners : steady'[s] = {} \/ steady'[s] = steady[s]
  BY <1>3, <1>4, SteadyIs
<1>6. \A s \in Scanners : s \in astray' <=> s \in astray
  BY AstrayIs DEF ScanInv, Idle, IdleOf
<1>7. QED
  BY <1>2, <1>5, <1>6, StillScans

\* A step that runs inside the ioctl of p and leaves the list as it is.
LEMMA SameList ==
  ASSUME ListInv, ScanInv, KeepHistory, NEW p \in Pids,
         \/ add_interface_to_proc(p) \/ ReadId(p) \/ IncrementId(p) \/ NoRoom(p) \/ Grow(p)
         \/ HasRoom(p) \/ krealloc(p) \/ PointToNew(p) \/ CountFirst(p) \/ SlotFirst(p)
         \/ Shift(p) \/ Shifted(p) \/ CountDown(p) \/ Free(p)
  PROVE  ListInv' /\ ListView' = ListView /\ InIoctl(p) /\ ScanInv'
<1>1. ListInv' /\ ListView' = ListView
  BY AddKeeps, ReadIdKeeps, IncrementIdKeeps, NoRoomKeeps, GrowKeeps, HasRoomKeeps, KreallocKeeps,
     PointKeeps, CountFirstKeeps, SlotFirstKeeps, ShiftKeeps, ShiftedKeeps, CountDownKeeps, FreeKeeps
<1>2. InIoctl(p)
  BY DEF add_interface_to_proc, ReadId, IncrementId, NoRoom, Grow, HasRoom, krealloc,
     PointToNew, CountFirst, SlotFirst, Shift, Shifted, CountDown, Free, Step, Return, InIoctl
<1>3. scan' = scan /\ overlapped' = overlapped
  BY DEF add_interface_to_proc, ReadId, IncrementId, NoRoom, Grow, HasRoom, krealloc,
     PointToNew, CountFirst, SlotFirst, Shift, Shifted, CountDown, Free, Step, Return
<1>4. ScanInv'
  BY <1>1, <1>2, <1>3, InsideScans DEF ViewStep
<1>5. QED
  BY <1>1, <1>2, <1>4

LEMMA AllocScans ==
  ASSUME "ioctls" \notin raced', ListInv, ScanInv, KeepHistory, NEW p \in Pids, alloc_interface(p)
  PROVE  ScanInv'
<1>1. ListView' = ListView
  BY AllocKeeps
<1>2. Enter(p, At("proc", allocated + 1, 0)) /\ scan' = scan
  BY DEF alloc_interface
<1>3. QED
  BY <1>1, <1>2, EnterScans DEF ViewStep, At

LEMMA LocateScans ==
  ASSUME "ioctls" \notin raced', ListInv, ScanInv, KeepHistory, NEW p \in Pids, NEW id \in Ids, Locate(p, id)
  PROVE  ScanInv'
<1>1. PICK k \in 1 .. INTERFACE_COUNT : Enter(p, At("shift", Slot(k), k)) /\ scan' = scan
  BY DEF Locate
<1>2. \E j : Cut(j)
  BY LocateKeeps
<1>3. QED
  BY <1>1, <1>2, EnterScans DEF ViewStep, At

LEMMA EndOfRegistrationScans ==
  ASSUME ListInv, ScanInv, KeepHistory, NEW p \in Pids, SlotLast(p) \/ CountLast(p)
  PROVE  ListInv' /\ ScanInv'
<1>1. ListInv' /\ InIoctl(p) /\ Appended(task[p].obj)
  BY SlotLastKeeps, CountLastKeeps DEF ReturnedFacts
<1>2. scan' = scan /\ overlapped' = overlapped
  BY DEF SlotLast, CountLast, Return
<1>3. task[p].obj \notin Listed
  BY DEF ListInv, ListOK, Listed
<1>4. QED
  BY <1>1, <1>2, <1>3, InsideScans DEF ViewStep

-----------------------------------------------------------------------------
(* What holds of the steps whatever overlaps.                              *)

\* A step of a task touches that task only, and enters an ioctl where it may.
TaskFacts(p) ==
  /\ task' \in Tasks /\ (\A q \in Pids : q # p => task'[q] = task[q])
  /\ scan' = scan /\ overlapped' \subseteq Scanners
  /\ InIoctl(p)' => InIoctl(p) \/ MayEnter

LEMMA TaskOnlyFacts ==
  ASSUME Typed, NEW p \in Pids,
         NEW t \in [pc : Pcs, obj : Ids \cup {0}, i : Nat, new : Blocks \cup {NULL}],
         task' = [task EXCEPT ![p] = t]
  PROVE  task' \in Tasks /\ task'[p] = t /\ \A q \in Pids : q # p => task'[q] = task[q]
BY DEF Typed, TypeOK, Tasks, Pcs

LEMMA TaskRecord ==
  ASSUME Typed, NEW p \in Pids
  PROVE  task[p] \in [pc : Pcs, obj : Ids \cup {0}, i : Nat, new : Blocks \cup {NULL}]
BY DEF Typed, TypeOK, Pcs

\* What a task does between entering an ioctl and leaving it.
Moves(p, from, to) ==
  /\ task[p].pc = from /\ task'[p].pc = to /\ task'[p].obj = task[p].obj
  /\ TaskFacts(p)

LEMMA StepMoves ==
  ASSUME Typed, NEW p \in Pids, NEW from \in Pcs \ {"idle"}, NEW to \in Pcs, Step(p, from, to)
  PROVE  Moves(p, from, to) /\ task'[p].i = task[p].i
<1> DEFINE t == [task[p] EXCEPT !.pc = to]
<1>1. /\ task' = [task EXCEPT ![p] = t] /\ task[p].pc = from
      /\ scan' = scan /\ overlapped' = overlapped
  BY DEF Step
<1>2. task[p] \in [pc : Pcs, obj : Ids \cup {0}, i : Nat, new : Blocks \cup {NULL}]
  BY TaskRecord
<1>3. /\ t \in [pc : Pcs, obj : Ids \cup {0}, i : Nat, new : Blocks \cup {NULL}]
      /\ t.pc = to /\ t.obj = task[p].obj /\ t.i = task[p].i
  BY <1>2
<1> HIDE DEF t
<1>4. task' \in Tasks /\ task'[p] = t /\ \A q \in Pids : q # p => task'[q] = task[q]
  BY <1>1, <1>3, TaskOnlyFacts
<1>5. InIoctl(p) /\ overlapped \subseteq Scanners
  BY <1>1 DEF InIoctl, Typed, TypeOK
<1>6. QED
  BY <1>1, <1>3, <1>4, <1>5 DEF Moves, TaskFacts

\* A step that also moves on in the list, or keeps a new array.
LEMMA MoveMoves ==
  ASSUME Typed, NEW p \in Pids, NEW from \in Pcs \ {"idle"}, NEW to \in Pcs,
         NEW t \in [pc : Pcs, obj : Ids \cup {0}, i : Nat, new : Blocks \cup {NULL}],
         task[p].pc = from, t.pc = to, t.obj = task[p].obj, UNCHANGED <<scan, overlapped>>,
         task' = [task EXCEPT ![p] = t]
  PROVE  Moves(p, from, to) /\ task'[p] = t
<1>1. task' \in Tasks /\ task'[p] = t /\ \A q \in Pids : q # p => task'[q] = task[q]
  BY TaskOnlyFacts
<1>2. InIoctl(p) /\ overlapped \subseteq Scanners
  BY DEF InIoctl, Typed, TypeOK
<1>3. QED
  BY <1>1, <1>2 DEF Moves, TaskFacts

LEMMA ReturnMoves ==
  ASSUME Typed, NEW p \in Pids, NEW from \in Pcs \ {"idle"}, Return(p, from)
  PROVE  TaskFacts(p) /\ task[p].pc = from /\ task'[p].pc = "idle"
<1>1. /\ IdleTask \in [pc : Pcs, obj : Ids \cup {0}, i : Nat, new : Blocks \cup {NULL}]
      /\ IdleTask.pc = "idle"
  BY DEF IdleTask, At, Pcs
<1>2. task' \in Tasks /\ task'[p] = IdleTask /\ \A q \in Pids : q # p => task'[q] = task[q]
  BY <1>1, TaskOnlyFacts DEF Return
<1>3. QED
  BY <1>1, <1>2 DEF TaskFacts, InIoctl, Return, Typed, TypeOK

LEMMA EnterMoves ==
  ASSUME Typed, NEW p \in Pids, NEW t, Enter(p, t), scan' = scan,
         t \in [pc : Pcs, obj : Ids \cup {0}, i : Nat, new : Blocks \cup {NULL}]
  PROVE  TaskFacts(p) /\ task[p].pc = "idle" /\ task'[p] = t
<1>1. /\ task' = [task EXCEPT ![p] = t] /\ MayEnter /\ ~InIoctl(p)
      /\ overlapped' = overlapped \cup {s \in Scanners : scan[s].pc # "idle"}
  BY DEF Enter
<1>2. task' \in Tasks /\ task'[p] = t /\ \A q \in Pids : q # p => task'[q] = task[q]
  BY <1>1, TaskOnlyFacts
<1>3. QED
  BY <1>1, <1>2 DEF TaskFacts, InIoctl, Typed, TypeOK

LEMMA StoreTyped ==
  ASSUME Typed, NEW k \in Nat, NEW o \in Ids \cup {Wild}, StoreAt(k, o),
         INTERFACE_LIST' = INTERFACE_LIST
  PROVE  slots' \in [Blocks -> Seq(Ids \cup {Wild}) \cup {NULL}] /\ oops' \in BOOLEAN
<1>1. CASE InArray(INTERFACE_LIST, k)
  <2>1. INTERFACE_LIST \in Blocks \/ INTERFACE_LIST = NULL
    BY DEF Typed, TypeOK
  <2>2. INTERFACE_LIST # NULL
    BY <1>1 DEF InArray
  <2>3. QED
    BY <1>1, <2>1, <2>2, Stored DEF Typed
<1>2. CASE ~InArray(INTERFACE_LIST, k)
  BY <1>2 DEF StoreAt, Typed
<1>3. QED
  BY <1>1, <1>2

\* A task that has not got its id, or has not counted it yet.
Early(p) == task[p].pc \in {"proc", "id", "increment"}

\* The interfaces whose id has been counted.
Done == {o \in 1 .. allocated : \A p \in Pids : Early(p) => task[p].obj # o}

\* Nothing happens to the ids.
Quiet ==
  /\ UNCHANGED <<ids, ALLOCATED_ID, allocated>>
  /\ \A q \in Pids : /\ Early(q)' <=> Early(q)
                     /\ Early(q) => task'[q].obj = task[q].obj
                     /\ task'[q].pc = "increment" <=> task[q].pc = "increment"

\* They have their interfaces to themselves.
Owned ==
  /\ \A p \in Pids : Early(p) => task[p].obj \in 1 .. allocated
  /\ \A p, q \in Pids : Early(p) /\ Early(q) /\ task[p].obj = task[q].obj => p = q

\* A removal counts down from no more than the count it has loaded.
Downs == \A p \in Pids : task[p].pc = "down" => task[p].i \in 0 .. MaxCount

LEMMA MovesQuiet ==
  ASSUME NEW p \in Pids, NEW from, NEW to, Moves(p, from, to), Downs,
         UNCHANGED <<ids, ALLOCATED_ID, allocated>>,
         from \in {"proc", "id"} <=> to \in {"proc", "id"},
         from # "increment", to # "increment",
         to = "down" => task'[p].i \in 0 .. MaxCount
  PROVE  Quiet /\ Downs' /\ TaskFacts(p)
BY DEF Moves, TaskFacts, Quiet, Early, Downs

LEMMA ReturnQuiet ==
  ASSUME Typed, NEW p \in Pids, NEW from \in {"slot", "count", "free"}, Return(p, from), Downs,
         UNCHANGED <<ids, ALLOCATED_ID, allocated>>
  PROVE  Quiet /\ Downs' /\ TaskFacts(p)
<1>1. TaskFacts(p) /\ task[p].pc = from /\ task'[p].pc = "idle"
  BY ReturnMoves DEF Pcs
<1>2. QED
  BY <1>1 DEF TaskFacts, Quiet, Early, Downs

LEMMA StillQuiet ==
  ASSUME Typed, Downs, NEW p \in Pids, UNCHANGED <<ids, ALLOCATED_ID, allocated, task, scan, overlapped>>
  PROVE  Quiet /\ Downs' /\ TaskFacts(p)
BY DEF Typed, TypeOK, Quiet, Early, Downs, TaskFacts, Tasks, Pcs, InIoctl

\* What the types of the next state follow from.
LEMMA TypedNext ==
  ASSUME Typed, KeepHistory, task' \in Tasks, scan' \in Scans, overlapped' \subseteq Scanners,
         INTERFACE_LIST' \in Blocks \cup {NULL}, INTERFACE_COUNT' \in 0 .. MaxCount,
         INTERFACE_CAPACITY' \in Nat, ALLOCATED_ID' \in 1 .. MaxRegistrations + 1,
         slots' \in [Blocks -> Seq(Ids \cup {Wild}) \cup {NULL}],
         allocated' \in 0 .. MaxRegistrations, live' \subseteq 1 .. allocated',
         ids' \in [Ids -> Ids \cup {0}],
         bind_pid' \in [Ids -> Pids], proc_entry' \in [Ids -> Ids \cup {NoEntry}],
         procfs' \subseteq Ids, oops' \in BOOLEAN
  PROVE  Typed'
<1>1. \A b \in Blocks : slots'[b] = NULL \/ slots'[b] \in Seq(Ids \cup {Wild})
  OBVIOUS
<1>2. QED
  BY <1>1, SteadyTyped DEF Typed, TypeOK, Tasks, Pcs, Scans

\* The registry but for the list and its tasks.
LEMMA TaskTyped ==
  ASSUME Typed, KeepHistory, NEW p \in Pids, TaskFacts(p),
         UNCHANGED <<ALLOCATED_ID, allocated, ids, bind_pid>>,
         live' \subseteq live, procfs' \subseteq Ids, proc_entry' \in [Ids -> Ids \cup {NoEntry}],
         INTERFACE_LIST' \in Blocks \cup {NULL}, INTERFACE_COUNT' \in 0 .. MaxCount,
         INTERFACE_CAPACITY' \in Nat,
         slots' \in [Blocks -> Seq(Ids \cup {Wild}) \cup {NULL}], oops' \in BOOLEAN
  PROVE  Typed'
<1>1. /\ scan' \in Scans /\ task' \in Tasks /\ overlapped' \subseteq Scanners
      /\ ALLOCATED_ID' \in 1 .. MaxRegistrations + 1
      /\ allocated' \in 0 .. MaxRegistrations /\ live' \subseteq 1 .. allocated'
      /\ ids' \in [Ids -> Ids \cup {0}] /\ bind_pid' \in [Ids -> Pids]
  BY DEF Typed, TypeOK, TaskFacts, Scans
<1>2. QED
  BY <1>1, TypedNext

QuietRegister(p) ==
  \/ add_interface_to_proc(p) \/ NoRoom(p) \/ Grow(p) \/ HasRoom(p) \/ krealloc(p)
  \/ PointToNew(p) \/ CountFirst(p) \/ SlotFirst(p) \/ SlotLast(p) \/ CountLast(p)
  \/ OutOfMemory(p)

LEMMA CountTyped == \A n \in Nat : AsCount(n) \in 0 .. MaxCount
BY ThreadsAssumption DEF AsCount

LEMMA QuietRegisterKeeps ==
  ASSUME Typed, KeepHistory, Downs, Owned, NEW p \in Pids, QuietRegister(p)
  PROVE  Typed' /\ Downs' /\ Quiet /\ TaskFacts(p)
<1>0. /\ INTERFACE_LIST \in Blocks \cup {NULL} /\ INTERFACE_COUNT \in 0 .. MaxCount
      /\ INTERFACE_COUNT \in Nat /\ MaxCount \in Nat
      /\ INTERFACE_CAPACITY \in Nat /\ procfs \subseteq Ids
      /\ slots \in [Blocks -> Seq(Ids \cup {Wild}) \cup {NULL}] /\ oops \in BOOLEAN
      /\ proc_entry \in [Ids -> Ids \cup {NoEntry}] /\ GRADIENT \in Nat
      /\ task[p] \in [pc : Pcs, obj : Ids \cup {0}, i : Nat, new : Blocks \cup {NULL}]
  BY ThreadsAssumption, TaskRecord DEF Typed, TypeOK
<1>1. CASE add_interface_to_proc(p)
  <2>1. /\ Step(p, "proc", "id") /\ UNCHANGED <<INTERFACE_LIST, INTERFACE_COUNT,
             INTERFACE_CAPACITY, slots, ALLOCATED_ID, allocated, live, ids, bind_pid, oops>>
    BY <1>1 DEF add_interface_to_proc, listVars
  <2>2. Quiet /\ Downs' /\ TaskFacts(p)
    BY <2>1, StepMoves, MovesQuiet DEF Pcs
  <2>3. proc_entry' \in [Ids -> Ids \cup {NoEntry}] /\ procfs' \subseteq Ids
    <3> DEFINE o == task[p].obj
               same == {x \in Ids : bind_pid[x] = bind_pid[o]}
    <3>1. \/ \E k \in 1 .. INTERFACE_COUNT :
               Slot(k) \in same /\ proc_entry' = [proc_entry EXCEPT ![o] = proc_entry[Slot(k)]]
               /\ procfs' = procfs
          \/ proc_entry' = [proc_entry EXCEPT ![o] = o] /\ procfs' = procfs \cup {o}
          \/ proc_entry' = proc_entry /\ procfs' = procfs
      BY <1>1 DEF add_interface_to_proc, IsFirstSlot
    <3>2. \A x \in same : x \in Ids
      OBVIOUS
    <3> HIDE DEF same
    <3>3. CASE \E k \in 1 .. INTERFACE_COUNT :
                 Slot(k) \in same /\ proc_entry' = [proc_entry EXCEPT ![o] = proc_entry[Slot(k)]]
                 /\ procfs' = procfs
      <4>1. PICK x \in Ids : proc_entry' = [proc_entry EXCEPT ![o] = proc_entry[x]]
        BY <3>2, <3>3
      <4>2. proc_entry[x] \in Ids \cup {NoEntry}
        BY <1>0, <4>1
      <4>3. QED
        BY <1>0, <3>3, <4>1, <4>2
    <3>4. CASE proc_entry' = [proc_entry EXCEPT ![o] = o] /\ procfs' = procfs \cup {o}
      <4>1. o \in Ids
        BY <2>1, ThreadsAssumption DEF Owned, Early, Step, Ids, Typed, TypeOK
      <4>2. QED
        BY <1>0, <3>4, <4>1
    <3>5. QED
      BY <1>0, <3>1, <3>3, <3>4
  <2>4. QED
    BY <1>0, <2>1, <2>2, <2>3, TaskTyped
<1>2. CASE NoRoom(p) \/ HasRoom(p)
  <2>1. /\ Step(p, "grow", "capacity") \/ Step(p, "grow", "store")
        /\ UNCHANGED <<listVars, ALLOCATED_ID, allocated, live, ids, procVars, oops>>
    BY <1>2 DEF NoRoom, HasRoom
  <2>2. Quiet /\ Downs' /\ TaskFacts(p)
    BY <2>1, StepMoves, MovesQuiet DEF Pcs
  <2>3. QED
    BY <1>0, <2>1, <2>2, TaskTyped DEF listVars, procVars
<1>3. CASE Grow(p)
  <2>1. Quiet /\ Downs' /\ TaskFacts(p)
    BY <1>3, StepMoves, MovesQuiet DEF Grow, Pcs
  <2>2. INTERFACE_CAPACITY' \in Nat
    BY <1>0, <1>3 DEF Grow
  <2>3. QED
    BY <1>0, <1>3, <2>1, <2>2, TaskTyped DEF Grow, procVars
<1>4. CASE krealloc(p)
  <2>1. PICK b \in Blocks :
          /\ task[p].pc = "krealloc"
          /\ slots' = [c \in Blocks |-> IF c = b THEN Extended(INTERFACE_LIST)
                                        ELSE IF c = INTERFACE_LIST THEN NULL ELSE slots[c]]
          /\ task' = [task EXCEPT ![p].pc = "point", ![p].new = b]
          /\ UNCHANGED <<INTERFACE_LIST, INTERFACE_COUNT, INTERFACE_CAPACITY, ALLOCATED_ID,
                 allocated, live, ids, bind_pid, proc_entry, procfs, oops, scan, overlapped>>
    BY <1>4 DEF krealloc, procVars
  <2> DEFINE t == [task[p] EXCEPT !.pc = "point", !.new = b]
  <2>2. /\ t \in [pc : Pcs, obj : Ids \cup {0}, i : Nat, new : Blocks \cup {NULL}]
        /\ t.pc = "point" /\ t.obj = task[p].obj
    BY <1>0, <2>1 DEF Pcs
  <2>3. task' = [task EXCEPT ![p] = t]
    BY <2>1
  <2> HIDE DEF t
  <2>4. Moves(p, "krealloc", "point")
    BY <2>1, <2>2, <2>3, MoveMoves DEF Pcs
  <2>5. Quiet /\ Downs' /\ TaskFacts(p)
    BY <2>1, <2>4, MovesQuiet
  <2>6. slots' \in [Blocks -> Seq(Ids \cup {Wild}) \cup {NULL}]
    BY <1>0, <2>1, ExtendedIs
  <2>7. QED
    BY <1>0, <2>1, <2>5, <2>6, TaskTyped
<1>5. CASE PointToNew(p)
  <2>1. Quiet /\ Downs' /\ TaskFacts(p)
    BY <1>5, StepMoves, MovesQuiet DEF PointToNew, Pcs
  <2>2. INTERFACE_LIST' \in Blocks \cup {NULL}
    BY <1>0, <1>5 DEF PointToNew
  <2>3. QED
    BY <1>0, <1>5, <2>1, <2>2, TaskTyped DEF PointToNew, procVars
<1>6. CASE CountFirst(p)
  <2>1. /\ task[p].pc = "store" /\ INTERFACE_COUNT' = AsCount(INTERFACE_COUNT + 1)
        /\ task' = [task EXCEPT ![p].pc = "slot", ![p].i = INTERFACE_COUNT + 1]
        /\ UNCHANGED <<INTERFACE_LIST, INTERFACE_CAPACITY, slots, ALLOCATED_ID,
                 allocated, live, ids, bind_pid, proc_entry, procfs, oops, scan, overlapped>>
    BY <1>6 DEF CountFirst, procVars
  <2>2. PICK n \in Nat : n = INTERFACE_COUNT + 1
    BY <1>0
  <2> DEFINE t == [task[p] EXCEPT !.pc = "slot", !.i = n]
  <2>3. /\ t \in [pc : Pcs, obj : Ids \cup {0}, i : Nat, new : Blocks \cup {NULL}]
        /\ t.pc = "slot" /\ t.obj = task[p].obj
    BY <1>0, <2>1, <2>2 DEF Pcs
  <2>4. task' = [task EXCEPT ![p] = t]
    BY <2>1, <2>2
  <2> HIDE DEF t
  <2>5. Quiet /\ Downs' /\ TaskFacts(p)
    <3>1. Moves(p, "store", "slot")
      BY <2>1, <2>3, <2>4, MoveMoves DEF Pcs
    <3>2. QED
      BY <2>1, <3>1, MovesQuiet
  <2>6. INTERFACE_COUNT' \in 0 .. MaxCount
    BY <2>1, <2>2, CountTyped
  <2>7. QED
    BY <1>0, <2>1, <2>5, <2>6, TaskTyped
<1>7. CASE SlotFirst(p)
  <2>1. /\ task[p].pc = "store" /\ StoreAt(INTERFACE_COUNT + 1, task[p].obj)
        /\ task' = [task EXCEPT ![p].pc = "count", ![p].i = INTERFACE_COUNT + 1]
        /\ UNCHANGED <<INTERFACE_LIST, INTERFACE_COUNT, INTERFACE_CAPACITY, ALLOCATED_ID,
                 allocated, live, ids, bind_pid, proc_entry, procfs, scan, overlapped>>
    BY <1>7 DEF SlotFirst, procVars
  <2>2. PICK n \in Nat : n = INTERFACE_COUNT + 1
    BY <1>0
  <2> DEFINE t == [task[p] EXCEPT !.pc = "count", !.i = n]
  <2>3. /\ t \in [pc : Pcs, obj : Ids \cup {0}, i : Nat, new : Blocks \cup {NULL}]
        /\ t.pc = "count" /\ t.obj = task[p].obj
    BY <1>0, <2>1, <2>2 DEF Pcs
  <2>4. task' = [task EXCEPT ![p] = t]
    BY <2>1, <2>2
  <2> HIDE DEF t
  <2>5. Quiet /\ Downs' /\ TaskFacts(p)
    <3>1. Moves(p, "store", "count")
      BY <2>1, <2>3, <2>4, MoveMoves DEF Pcs
    <3>2. QED
      BY <2>1, <3>1, MovesQuiet
  <2>6. slots' \in [Blocks -> Seq(Ids \cup {Wild}) \cup {NULL}] /\ oops' \in BOOLEAN
    BY <1>0, <2>1, <2>2, StoreTyped DEF Wild
  <2>7. QED
    BY <1>0, <2>1, <2>5, <2>6, TaskTyped
<1>8. CASE SlotLast(p)
  <2>1. Quiet /\ Downs' /\ TaskFacts(p)
    BY <1>8, ReturnQuiet DEF SlotLast, procVars
  <2>2. slots' \in [Blocks -> Seq(Ids \cup {Wild}) \cup {NULL}] /\ oops' \in BOOLEAN
    BY <1>0, <1>8, StoreTyped DEF SlotLast, Wild
  <2>3. QED
    BY <1>0, <1>8, <2>1, <2>2, TaskTyped DEF SlotLast, procVars
<1>9. CASE CountLast(p)
  <2>1. Quiet /\ Downs' /\ TaskFacts(p)
    BY <1>9, ReturnQuiet DEF CountLast, procVars
  <2>2. INTERFACE_COUNT' \in 0 .. MaxCount
    BY <1>0, <1>9, CountTyped DEF CountLast
  <2>3. QED
    BY <1>0, <1>9, <2>1, <2>2, TaskTyped DEF CountLast, procVars
<1>10. CASE OutOfMemory(p)
  <2>1. Quiet /\ Downs' /\ TaskFacts(p)
    BY <1>10, StillQuiet DEF OutOfMemory
  <2>2. QED
    BY <1>0, <1>10, <2>1, TaskTyped DEF OutOfMemory, listVars, procVars
<1>11. QED
  BY <1>1, <1>2, <1>3, <1>4, <1>5, <1>6, <1>7, <1>8, <1>9, <1>10 DEF QuietRegister

QuietRemove(p) == RemoveStep(p) \/ FollowsWild(p)

LEMMA QuietRemoveKeeps ==
  ASSUME Typed, KeepHistory, Downs, NEW p \in Pids, QuietRemove(p)
  PROVE  Typed' /\ Downs' /\ Quiet /\ TaskFacts(p)
<1>0. /\ INTERFACE_LIST \in Blocks \cup {NULL} /\ INTERFACE_COUNT \in 0 .. MaxCount
      /\ INTERFACE_COUNT \in Nat /\ MaxCount \in Nat
      /\ INTERFACE_CAPACITY \in Nat /\ procfs \subseteq Ids /\ live \subseteq live
      /\ slots \in [Blocks -> Seq(Ids \cup {Wild}) \cup {NULL}] /\ oops \in BOOLEAN
      /\ proc_entry \in [Ids -> Ids \cup {NoEntry}]
      /\ task[p] \in [pc : Pcs, obj : Ids \cup {0}, i : Nat, new : Blocks \cup {NULL}]
  BY ThreadsAssumption, TaskRecord DEF Typed, TypeOK
<1>1. ASSUME NEW id \in Ids, Locate(p, id) PROVE Typed' /\ Downs' /\ Quiet /\ TaskFacts(p)
  <2>1. PICK k \in 1 .. INTERFACE_COUNT :
          /\ Enter(p, At("shift", Slot(k), k))
          /\ UNCHANGED <<listVars, ALLOCATED_ID, allocated, live, ids, procVars, oops, scan>>
    BY <1>1 DEF Locate
  <2>2. k \in Nat /\ Slot(k) \in Ids \cup {Wild}
    BY <1>0, <2>1, SlotTyped DEF Slot
  <2> DEFINE t == At("shift", Slot(k), k)
  <2>3. /\ t \in [pc : Pcs, obj : Ids \cup {0}, i : Nat, new : Blocks \cup {NULL}]
        /\ t.pc = "shift"
    BY <2>2 DEF At, Pcs, Wild
  <2> HIDE DEF t
  <2>4. TaskFacts(p) /\ task[p].pc = "idle" /\ task'[p].pc = "shift"
    BY <2>1, <2>3, EnterMoves DEF t
  <2>5. Quiet /\ Downs'
    BY <2>1, <2>4 DEF TaskFacts, Quiet, Early, Downs
  <2>6. QED
    BY <1>0, <2>1, <2>4, <2>5, TaskTyped DEF listVars, procVars
<1>2. CASE Shift(p)
  <2> DEFINE k == task[p].i
             o == IF k = 1 THEN Wild ELSE Slot(k - 1)
  <2>1. /\ task[p].pc = "shift" /\ StoreAt(k, o)
        /\ task' = [task EXCEPT ![p].i = k + 1]
        /\ UNCHANGED <<INTERFACE_LIST, INTERFACE_COUNT, INTERFACE_CAPACITY, ALLOCATED_ID,
                 allocated, live, ids, bind_pid, proc_entry, procfs, scan, overlapped>>
    BY <1>2 DEF Shift, procVars
  <2>2. k \in Nat /\ o \in Ids \cup {Wild}
    BY <1>0, SlotTyped DEF Slot
  <2> HIDE DEF k, o
  <2>3. PICK n \in Nat : n = k + 1
    BY <2>2
  <2> DEFINE t == [task[p] EXCEPT !.i = n]
  <2>4. /\ t \in [pc : Pcs, obj : Ids \cup {0}, i : Nat, new : Blocks \cup {NULL}]
        /\ t.pc = "shift" /\ t.obj = task[p].obj
    BY <1>0, <2>1, <2>3
  <2>5. task' = [task EXCEPT ![p] = t]
    BY <2>1, <2>3
  <2> HIDE DEF t
  <2>6. Moves(p, "shift", "shift")
    BY <2>1, <2>4, <2>5, MoveMoves DEF Pcs
  <2>7. Quiet /\ Downs' /\ TaskFacts(p)
    BY <2>1, <2>6, MovesQuiet
  <2>8. slots' \in [Blocks -> Seq(Ids \cup {Wild}) \cup {NULL}] /\ oops' \in BOOLEAN
    BY <2>1, <2>2, StoreTyped
  <2>9. QED
    BY <1>0, <2>1, <2>7, <2>8, TaskTyped
<1>3. CASE Shifted(p)
  <2>1. /\ task[p].pc = "shift"
        /\ task' = [task EXCEPT ![p].pc = "down", ![p].i = INTERFACE_COUNT]
        /\ UNCHANGED <<INTERFACE_LIST, INTERFACE_COUNT, INTERFACE_CAPACITY, slots, ALLOCATED_ID,
                 allocated, live, ids, bind_pid, proc_entry, procfs, oops, scan, overlapped>>
    BY <1>3 DEF Shifted, listVars, procVars
  <2> DEFINE t == [task[p] EXCEPT !.pc = "down", !.i = INTERFACE_COUNT]
  <2>2. /\ t \in [pc : Pcs, obj : Ids \cup {0}, i : Nat, new : Blocks \cup {NULL}]
        /\ t.pc = "down" /\ t.obj = task[p].obj /\ t.i = INTERFACE_COUNT
    BY <1>0 DEF Pcs
  <2>3. task' = [task EXCEPT ![p] = t]
    BY <2>1
  <2> HIDE DEF t
  <2>4. Moves(p, "shift", "down") /\ task'[p] = t
    <3>1. task[p].pc = "shift" /\ UNCHANGED <<scan, overlapped>>
      BY <2>1
    <3>2. Moves(p, "shift", "down")
      BY <2>2, <2>3, <3>1, MoveMoves DEF Pcs
    <3>3. task'[p] = t
      BY <2>2, <2>3, TaskOnlyFacts
    <3>4. QED
      BY <3>2, <3>3
  <2>5. Quiet /\ Downs' /\ TaskFacts(p)
    BY <1>0, <2>1, <2>2, <2>4, MovesQuiet
  <2>6. QED
    BY <1>0, <2>1, <2>5, TaskTyped
<1>4. CASE CountDown(p)
  <2>1. Step(p, "down", "free")
    BY <1>4 DEF CountDown
  <2>2. Moves(p, "down", "free")
    BY <2>1, StepMoves DEF Pcs
  <2>3. UNCHANGED <<INTERFACE_LIST, INTERFACE_CAPACITY, slots, ALLOCATED_ID,
                    allocated, live, ids, bind_pid, proc_entry, procfs, oops>>
    BY <1>4 DEF CountDown, procVars
  <2>4. Quiet /\ Downs' /\ TaskFacts(p)
    BY <2>2, <2>3, MovesQuiet
  <2>5. INTERFACE_COUNT' \in 0 .. MaxCount
    <3>1. PICK n \in {INTERFACE_COUNT, task[p].i} :
            INTERFACE_COUNT' = IF n = 0 THEN MaxCount ELSE n - 1
      BY <1>4 DEF CountDown
    <3>2. n \in 0 .. MaxCount
      BY <1>0, <2>2, <3>1 DEF Downs, Moves
    <3>3. QED
      BY <1>0, <3>1, <3>2
  <2>6. QED
    BY <1>0, <2>3, <2>4, <2>5, TaskTyped
<1>5. CASE Free(p)
  <2>1. Quiet /\ Downs' /\ TaskFacts(p)
    BY <1>5, ReturnQuiet DEF Free
  <2>2. live' \subseteq live
    BY <1>5 DEF Free
  <2>3. QED
    BY <1>0, <1>5, <2>1, <2>2, TaskTyped DEF Free, listVars, procVars
<1>6. CASE FreeTwice(p) \/ FollowsWild(p)
  <2>1. /\ oops' = TRUE
        /\ UNCHANGED <<listVars, ALLOCATED_ID, allocated, live, ids, procVars, task, scan,
                       overlapped>>
    BY <1>6 DEF FreeTwice, FollowsWild
  <2>2. Quiet /\ Downs' /\ TaskFacts(p)
    BY <2>1, StillQuiet
  <2>3. QED
    BY <1>0, <2>1, <2>2, TaskTyped DEF listVars, procVars
<1>7. QED
  BY <1>1, <1>2, <1>3, <1>4, <1>5, <1>6 DEF QuietRemove, RemoveStep, free_interface

-----------------------------------------------------------------------------
(* The scanners change nothing but the list, where they allocate it.       *)

LEMMA ScanMoves ==
  ASSUME Typed, NEW s \in Scanners, NEW r \in ScanRecord, scan' = [scan EXCEPT ![s] = r]
  PROVE  scan' \in Scans /\ scan'[s] = r /\ \A q \in Scanners : q # s => scan'[q] = scan[q]
BY DEF Typed, TypeOK, Scans, ScanRecord

\* No scanner comes to allocate an array but one that begins.
ScanFacts(s) ==
  /\ scan' \in Scans /\ overlapped' \subseteq Scanners
  /\ \A r \in Scanners : scan'[r].pc = "null" =>
       scan[r].pc = "null" \/ "init" \in Overlaps \/ NoIoctl

LEMMA ScanStepFacts ==
  ASSUME Typed, NEW s \in Scanners, ScanStep(s)
  PROVE  ScanFacts(s)
<1>0. /\ scan[s] \in ScanRecord /\ overlapped \subseteq Scanners
      /\ INTERFACE_LIST \in Blocks \cup {NULL} /\ INTERFACE_COUNT \in Nat
  BY DEF Typed, TypeOK, ScanRecord
<1>1. ASSUME NEW kind \in Kinds, NEW want \in Ids \cup {All}, BeginScan(s, kind, want)
      PROVE  ScanFacts(s)
  <2> DEFINE pc == IF kind = "broadcast" /\ INTERFACE_LIST = NULL THEN "null" ELSE "load"
             r == [scan[s] EXCEPT !.kind = kind, !.want = want, !.pc = pc]
  <2>1. scan' = [scan EXCEPT ![s].kind = kind, ![s].want = want, ![s].pc = pc]
    BY <1>1 DEF BeginScan
  <2>2. scan' = [scan EXCEPT ![s] = r]
    BY <2>1
  <2>3. r \in ScanRecord
    BY <1>0 DEF ScanRecord
  <2> HIDE DEF pc, r
  <2>4. scan' \in Scans /\ \A q \in Scanners : q # s => scan'[q] = scan[q]
    BY <2>2, <2>3, ScanMoves
  <2>5. /\ scan'[s].pc = "null" => "init" \in Overlaps \/ NoIoctl
        /\ overlapped' \subseteq Scanners
    BY <1>0, <1>1 DEF BeginScan, NoIoctl
  <2>6. QED
    BY <2>4, <2>5 DEF ScanFacts
<1>2. ASSUME NEW r \in ScanRecord, r.pc # "null", scan' = [scan EXCEPT ![s] = r],
             overlapped' \subseteq Scanners
      PROVE  ScanFacts(s)
  BY <1>2, ScanMoves DEF ScanFacts
<1>3. ASSUME NEW from, NEW to \in {"oops", "end", "found"}, Move(s, from, to)
      PROVE  ScanFacts(s)
  <2> DEFINE r == [scan[s] EXCEPT !.pc = to]
  <2>1. scan' = [scan EXCEPT ![s] = r] /\ overlapped' = overlapped
    BY <1>3 DEF Move
  <2>2. r \in ScanRecord /\ r.pc # "null"
    BY <1>0 DEF ScanRecord
  <2> HIDE DEF r
  <2>3. QED
    BY <1>0, <1>2, <2>1, <2>2
<1>4. CASE ScanCrashes(s) \/ EndOfList(s) \/ UseFound(s) \/ UseFreed(s)
  BY <1>3, <1>4 DEF ScanCrashes, EndOfList, UseFound, UseFreed
<1>5. CASE init_interfaces(s)
  <2> DEFINE r == [scan[s] EXCEPT !.pc = "load"]
  <2>1. scan' = [scan EXCEPT ![s] = r] /\ overlapped' = overlapped
    BY <1>5 DEF init_interfaces
  <2>2. r \in ScanRecord /\ r.pc # "null"
    BY <1>0 DEF ScanRecord
  <2> HIDE DEF r
  <2>3. QED
    BY <1>0, <1>2, <2>1, <2>2
<1>6. CASE LoadList(s)
  <2>1. PICK step \in {<<"load", "listLoaded">>, <<"countLoaded", "scan">>} :
          scan' = [scan EXCEPT ![s].pc = step[2], ![s].list = INTERFACE_LIST]
          /\ overlapped' = overlapped
    BY <1>6 DEF LoadList
  <2>2. PICK to \in {"listLoaded", "scan"} : to = step[2]
    BY <2>1
  <2> DEFINE r == [scan[s] EXCEPT !.pc = to, !.list = INTERFACE_LIST]
  <2>3. scan' = [scan EXCEPT ![s] = r]
    BY <2>1, <2>2
  <2>4. r \in ScanRecord /\ r.pc # "null"
    BY <1>0, <2>2 DEF ScanRecord
  <2> HIDE DEF r
  <2>5. QED
    BY <1>0, <1>2, <2>1, <2>3, <2>4
<1>7. CASE LoadCount(s)
  <2> DEFINE c == IF scan[s].kind = "find" THEN AsInt(INTERFACE_COUNT) ELSE INTERFACE_COUNT
  <2>1. PICK step \in {<<"load", "countLoaded">>, <<"listLoaded", "scan">>} :
          scan' = [scan EXCEPT ![s].pc = step[2], ![s].count = c]
          /\ overlapped' = overlapped
    BY <1>7 DEF LoadCount
  <2>2. PICK to \in {"countLoaded", "scan"} : to = step[2]
    BY <2>1
  <2>3. c \in Nat
    BY <1>0 DEF AsInt
  <2> HIDE DEF c
  <2> DEFINE r == [scan[s] EXCEPT !.pc = to, !.count = c]
  <2>4. scan' = [scan EXCEPT ![s] = r]
    BY <2>1, <2>2
  <2>5. r \in ScanRecord /\ r.pc # "null"
    BY <1>0, <2>2, <2>3 DEF ScanRecord
  <2> HIDE DEF r
  <2>6. QED
    BY <1>0, <1>2, <2>1, <2>4, <2>5
<1>8. CASE NextSlot(s)
  <2> DEFINE to == IF scan[s].kind = "read" THEN "load" ELSE "scan"
             i == scan[s].i
  <2>1. scan' = [scan EXCEPT ![s].i = i + 1, ![s].pc = to] /\ overlapped' = overlapped
    BY <1>8 DEF NextSlot
  <2>2. i \in Nat /\ to \in {"load", "scan"}
    BY <1>0 DEF ScanRecord
  <2> HIDE DEF to, i
  <2>3. PICK n \in Nat : n = i + 1
    BY <2>2
  <2> DEFINE r == [scan[s] EXCEPT !.i = n, !.pc = to]
  <2>4. scan' = [scan EXCEPT ![s] = r]
    BY <2>1, <2>3
  <2>5. r \in ScanRecord /\ r.pc # "null"
    BY <1>0, <2>2, <2>3 DEF ScanRecord
  <2> HIDE DEF r
  <2>6. QED
    BY <1>0, <1>2, <2>1, <2>4, <2>5
<1>9. CASE Found(s)
  <2>1. PICK x \in MayRead(s) \ {Wild} :
          scan' = [scan EXCEPT ![s].pc = "found", ![s].obj = x] /\ overlapped' = overlapped
    BY <1>9 DEF Found
  <2>2. x \in Ids
    <3>1. live \subseteq Ids /\ 1 .. allocated \subseteq Ids
      BY ThreadsAssumption DEF Typed, TypeOK, Ids
    <3>2. QED
      BY <2>1, <3>1 DEF MayRead
  <2> DEFINE r == [scan[s] EXCEPT !.pc = "found", !.obj = x]
  <2>3. scan' = [scan EXCEPT ![s] = r]
    BY <2>1
  <2>4. r \in ScanRecord /\ r.pc # "null"
    BY <1>0, <2>2 DEF ScanRecord
  <2> HIDE DEF r
  <2>5. QED
    BY <1>0, <1>2, <2>1, <2>3, <2>4
<1>10. CASE Finish(s)
  <2>1. scan' = [scan EXCEPT ![s] = IdleScan] /\ overlapped' = overlapped \ {s}
    BY <1>10 DEF Finish
  <2>2. IdleScan \in ScanRecord /\ IdleScan.pc # "null"
    BY DEF IdleScan, ScanRecord, Kinds, All
  <2>3. QED
    BY <1>0, <1>2, <2>1, <2>2
<1>11. QED
  BY <1>1, <1>4, <1>5, <1>6, <1>7, <1>8, <1>9, <1>10 DEF ScanStep

LEMMA ScanStepKeeps ==
  ASSUME Typed, KeepHistory, Downs, NEW s \in Scanners, ScanStep(s)
  PROVE  Typed' /\ Downs' /\ Quiet /\ ScanFacts(s) /\ task' = task
<1>1. ScanFacts(s)
  BY ScanStepFacts
<1>2. UNCHANGED <<INTERFACE_COUNT, INTERFACE_CAPACITY, registryVars>>
  BY DEF ScanStep, BeginScan, init_interfaces, LoadList, LoadCount, ScanCrashes, NextSlot, Found,
     EndOfList, UseFound, UseFreed, Finish, Move, listVars
<1>3. /\ INTERFACE_LIST' \in Blocks \cup {NULL}
      /\ slots' \in [Blocks -> Seq(Ids \cup {Wild}) \cup {NULL}]
  <2>1. CASE init_interfaces(s)
    <3>1. INTERFACE_CAPACITY \in Nat
      BY DEF Typed, TypeOK
    <3>2. [j \in 1 .. INTERFACE_CAPACITY |-> Wild] \in Seq(Ids \cup {Wild})
      BY <3>1
    <3>3. QED
      BY <2>1, <3>2 DEF init_interfaces, Typed
  <2>2. CASE ~init_interfaces(s)
    <3>1. UNCHANGED listVars
      BY <2>2 DEF ScanStep, BeginScan, LoadList, LoadCount, ScanCrashes, NextSlot, Found,
         EndOfList, UseFound, UseFreed, Finish, Move
    <3>2. QED
      BY <3>1 DEF listVars, Typed, TypeOK
  <2>3. QED
    BY <2>1, <2>2
<1>4. Quiet /\ Downs' /\ task' = task
  BY <1>2 DEF registryVars, Quiet, Early, Downs
<1>5. /\ task' \in Tasks /\ INTERFACE_COUNT' \in 0 .. MaxCount /\ INTERFACE_CAPACITY' \in Nat
      /\ ALLOCATED_ID' \in 1 .. MaxRegistrations + 1
      /\ allocated' \in 0 .. MaxRegistrations /\ live' \subseteq 1 .. allocated'
      /\ ids' \in [Ids -> Ids \cup {0}]
      /\ bind_pid' \in [Ids -> Pids] /\ proc_entry' \in [Ids -> Ids \cup {NoEntry}]
      /\ procfs' \subseteq Ids /\ oops' \in BOOLEAN
  BY <1>2 DEF registryVars, procVars, Typed, TypeOK, Tasks, Pcs
<1>6. Typed'
  BY <1>1, <1>3, <1>5, TypedNext DEF ScanFacts
<1>7. QED
  BY <1>1, <1>4, <1>6

-----------------------------------------------------------------------------
(* The ids.                                                                *)

\* ALLOCATED_ID is at most one more than what was counted.
Counted ==
  /\ ALLOCATED_ID <= Cardinality(Done) + 1
  /\ \A p \in Pids : task[p].pc = "increment" => ids[task[p].obj] <= Cardinality(Done) + 1

\* As long as one task at a time is inside ALLOCATED_ID++.
Unique ==
  "ids" \notin raced =>
    /\ \A p, q \in AtPc("increment") : p = q
    /\ \A p \in AtPc("increment") : ids[task[p].obj] = ALLOCATED_ID
    /\ \A o \in Ids : ids[o] >= ALLOCATED_ID => \E p \in AtPc("increment") : task[p].obj = o
    /\ \A o, x \in Ids : ids[o] = ids[x] /\ ids[o] # 0 => o = x

IdsInv == Typed /\ Downs /\ Owned /\ Counted /\ Unique

LEMMA DoneFinite ==
  ASSUME Typed
  PROVE  /\ IsFiniteSet(Done) /\ Cardinality(Done) \in Nat /\ Cardinality(Done) <= allocated
         /\ allocated \in Nat
<1>1. allocated \in Nat
  BY DEF Typed, TypeOK
<1>2. IsFiniteSet(1 .. allocated) /\ Cardinality(1 .. allocated) = allocated
  BY <1>1, FS_Interval
<1>3. Done \in SUBSET (1 .. allocated)
  BY DEF Done
<1>4. IsFiniteSet(Done) /\ Cardinality(Done) <= allocated
  BY <1>2, <1>3, FS_Subset
<1>5. QED
  BY <1>1, <1>4, FS_CardinalityType

\* A task that has yet to count its interface keeps ALLOCATED_ID in range.
LEMMA IdFits ==
  ASSUME IdsInv, NEW p \in Pids, Early(p)
  PROVE  ALLOCATED_ID \in Ids /\ task[p].obj \in Ids
<1>1. task[p].obj \in 1 .. allocated /\ task[p].obj \notin Done
  BY DEF IdsInv, Owned, Done
<1>2. Cardinality(Done) # allocated
  <2>1. IsFiniteSet(1 .. allocated) /\ Cardinality(1 .. allocated) = allocated
    BY DoneFinite, FS_Interval DEF IdsInv
  <2>2. Done \in SUBSET (1 .. allocated) /\ Done # 1 .. allocated
    BY <1>1 DEF Done
  <2>3. QED
    BY <2>1, <2>2, FS_Subset
<1>3. ALLOCATED_ID <= allocated
  BY <1>2, DoneFinite DEF IdsInv, Counted, Typed, TypeOK
<1>4. QED
  BY <1>1, <1>3, ThreadsAssumption DEF IdsInv, Typed, TypeOK, Ids

LEMMA RacedGrows ==
  ASSUME KeepHistory, "ids" \notin raced'
  PROVE  "ids" \notin raced /\ \A p, q \in AtPc("increment")' : p = q
BY DEF KeepHistory, KeepRaced

LEMMA QuietIds ==
  ASSUME IdsInv, KeepHistory, Quiet
  PROVE  Owned' /\ Counted' /\ Unique'
<1>1. Done' = Done
  BY DEF Quiet, Done
<1>2. Owned'
  BY DEF IdsInv, Quiet, Owned
<1>3. AtPc("increment")' = AtPc("increment")
  BY DEF Quiet, AtPc
<1>4. \A p \in AtPc("increment") : task'[p].obj = task[p].obj
  BY DEF Quiet, AtPc, Early
<1>5. Counted'
  BY <1>1, <1>4 DEF IdsInv, Counted, Quiet, AtPc
<1>6. Unique'
  BY <1>3, <1>4, RacedGrows DEF IdsInv, Unique, Quiet
<1>7. QED
  BY <1>2, <1>5, <1>6

LEMMA AllocIds ==
  ASSUME IdsInv, KeepHistory, NEW p \in Pids, alloc_interface(p)
  PROVE  IdsInv' /\ TaskFacts(p)
<1> DEFINE o == allocated + 1
           t == At("proc", o, 0)
<1>1. /\ Enter(p, t) /\ live' = live \cup {o} /\ allocated' = o
      /\ bind_pid' = [bind_pid EXCEPT ![o] = p] /\ allocated < MaxRegistrations
      /\ UNCHANGED <<INTERFACE_LIST, INTERFACE_COUNT, INTERFACE_CAPACITY, slots, ALLOCATED_ID,
                     ids, proc_entry, procfs, oops, scan>>
  BY DEF alloc_interface, listVars
<1>2. o \in Ids /\ allocated \in Nat /\ allocated < o /\ allocated' \in 0 .. MaxRegistrations
  BY <1>1, ThreadsAssumption DEF IdsInv, Typed, TypeOK, Ids
<1>3. /\ t \in [pc : Pcs, obj : Ids \cup {0}, i : Nat, new : Blocks \cup {NULL}]
      /\ t.pc = "proc" /\ t.obj = o
  BY <1>2 DEF At, Pcs
<1> HIDE DEF t
<1>4. TaskFacts(p) /\ task[p].pc = "idle" /\ task'[p] = t
  BY <1>1, <1>3, EnterMoves DEF IdsInv
<1>5. live' \subseteq 1 .. allocated'
  BY <1>1, <1>2 DEF IdsInv, Typed, TypeOK
<1> HIDE DEF o
<1>6. Typed'
  <2>1. /\ task' \in Tasks /\ scan' \in Scans /\ overlapped' \subseteq Scanners
        /\ INTERFACE_LIST' \in Blocks \cup {NULL} /\ INTERFACE_COUNT' \in 0 .. MaxCount
        /\ INTERFACE_CAPACITY' \in Nat /\ ALLOCATED_ID' \in 1 .. MaxRegistrations + 1
        /\ slots' \in [Blocks -> Seq(Ids \cup {Wild}) \cup {NULL}]
        /\ ids' \in [Ids -> Ids \cup {0}] /\ bind_pid' \in [Ids -> Pids]
        /\ proc_entry' \in [Ids -> Ids \cup {NoEntry}] /\ procfs' \subseteq Ids
        /\ oops' \in BOOLEAN
    BY <1>1, <1>4 DEF IdsInv, Typed, TypeOK, TaskFacts, Scans
  <2>2. QED
    BY <1>2, <1>5, <2>1, TypedNext DEF IdsInv
<1>7. /\ Early(p)' /\ ~Early(p) /\ task'[p].obj = o
      /\ \A q \in Pids : q # p => (Early(q)' <=> Early(q)) /\ task'[q].obj = task[q].obj
  BY <1>3, <1>4 DEF Early, TaskFacts
<1>8. Owned'
  <2>1. \A q \in Pids : Early(q) => task[q].obj \in 1 .. allocated /\ task[q].obj # o
    BY <1>2 DEF IdsInv, Owned
  <2>2. 1 .. allocated \subseteq 1 .. allocated' /\ o \in 1 .. allocated'
    BY <1>1, <1>2 DEF o
  <2>3. QED
    BY <1>7, <2>1, <2>2 DEF IdsInv, Owned
<1>9. Done' = Done
  <2>1. 1 .. allocated' = (1 .. allocated) \cup {o} /\ o \notin 1 .. allocated
    BY <1>1, <1>2 DEF o
  <2>2. QED
    BY <1>7, <2>1 DEF Done
<1>10. AtPc("increment")' = AtPc("increment") /\ p \notin AtPc("increment")
  BY <1>3, <1>4 DEF AtPc, TaskFacts
<1>11. \A q \in AtPc("increment") : task'[q].obj = task[q].obj
  BY <1>7, <1>10 DEF AtPc
<1>12. Counted'
  BY <1>1, <1>9, <1>10, <1>11 DEF IdsInv, Counted, AtPc
<1>13. Unique'
  BY <1>1, <1>10, <1>11, RacedGrows DEF IdsInv, Unique
<1>14. Downs'
  BY <1>3, <1>4 DEF IdsInv, Downs, TaskFacts
<1>15. QED
  BY <1>4, <1>6, <1>8, <1>12, <1>13, <1>14 DEF IdsInv

LEMMA ReadIdIds ==
  ASSUME IdsInv, KeepHistory, NEW p \in Pids, ReadId(p)
  PROVE  IdsInv' /\ TaskFacts(p)
<1> DEFINE o == task[p].obj
<1>1. /\ Step(p, "id", "increment") /\ ids' = [ids EXCEPT ![o] = ALLOCATED_ID]
      /\ UNCHANGED <<INTERFACE_LIST, INTERFACE_COUNT, INTERFACE_CAPACITY, slots, ALLOCATED_ID,
                     allocated, live, bind_pid, proc_entry, procfs, oops>>
  BY DEF ReadId, listVars, procVars
<1>2. Moves(p, "id", "increment")
  BY <1>1, StepMoves DEF Pcs, IdsInv
<1>3. Early(p) /\ Early(p)'
  BY <1>2 DEF Moves, Early
<1>4. ALLOCATED_ID \in Ids /\ o \in Ids
  BY <1>3, IdFits
<1>5. /\ ids \in [Ids -> Ids \cup {0}] /\ ids' \in [Ids -> Ids \cup {0}]
      /\ ids'[o] = ALLOCATED_ID /\ \A x \in Ids : x # o => ids'[x] = ids[x]
  BY <1>1, <1>4 DEF IdsInv, Typed, TypeOK
<1> HIDE DEF o
<1>6. Typed'
  <2>1. /\ task' \in Tasks /\ scan' \in Scans /\ overlapped' \subseteq Scanners
        /\ INTERFACE_LIST' \in Blocks \cup {NULL} /\ INTERFACE_COUNT' \in 0 .. MaxCount
        /\ INTERFACE_CAPACITY' \in Nat /\ ALLOCATED_ID' \in 1 .. MaxRegistrations + 1
        /\ slots' \in [Blocks -> Seq(Ids \cup {Wild}) \cup {NULL}]
        /\ allocated' \in 0 .. MaxRegistrations /\ live' \subseteq 1 .. allocated'
        /\ bind_pid' \in [Ids -> Pids]
        /\ proc_entry' \in [Ids -> Ids \cup {NoEntry}] /\ procfs' \subseteq Ids
        /\ oops' \in BOOLEAN
    BY <1>1, <1>2 DEF IdsInv, Typed, TypeOK, Moves, TaskFacts, Scans
  <2>2. QED
    BY <1>5, <2>1, TypedNext DEF IdsInv
<1>7. /\ task'[p].obj = o /\ task[p].obj = o /\ task[p].pc = "id" /\ task'[p].pc = "increment"
      /\ \A q \in Pids : q # p => task'[q] = task[q]
  BY <1>2 DEF Moves, TaskFacts, o
<1>8. \A q \in Pids : (Early(q)' <=> Early(q)) /\ task'[q].obj = task[q].obj
  BY <1>3, <1>7 DEF Early
<1>9. Owned' /\ Done' = Done
  BY <1>1, <1>8 DEF IdsInv, Owned, Done
<1>10. Downs'
  BY <1>7 DEF IdsInv, Downs
<1>11. Counted'
  <2>1. ASSUME NEW q \in Pids, task'[q].pc = "increment"
        PROVE  ids'[task'[q].obj] <= Cardinality(Done) + 1
    <3>1. CASE task[q].obj = o
      BY <1>5, <1>8, <3>1 DEF IdsInv, Counted
    <3>2. CASE task[q].obj # o
      <4>1. q # p /\ task[q].pc = "increment" /\ Early(q)
        BY <1>7, <2>1, <3>2 DEF Early
      <4>2. task[q].obj \in Ids
        BY <4>1, IdFits
      <4>3. QED
        BY <1>5, <1>8, <3>2, <4>1, <4>2 DEF IdsInv, Counted
    <3>3. QED
      BY <3>1, <3>2
  <2>2. QED
    BY <1>1, <1>9, <2>1 DEF IdsInv, Counted
<1>12. Unique'
  <2> SUFFICES ASSUME "ids" \notin raced' PROVE Unique'
    BY DEF Unique
  <2>1. "ids" \notin raced /\ \A x, q \in AtPc("increment")' : x = q
    BY RacedGrows
  <2>2. AtPc("increment")' = {p}
    BY <1>7, <2>1 DEF AtPc
  <2>3. AtPc("increment") = {}
    <3>1. \A q \in AtPc("increment") : q # p /\ q \in AtPc("increment")'
      BY <1>7 DEF AtPc
    <3>2. QED
      BY <2>2, <3>1
  <2>4. \A x \in Ids : ~(ids[x] >= ALLOCATED_ID)
    BY <2>1, <2>3 DEF IdsInv, Unique
  <2>5. \A x \in Ids : ids[x] # ALLOCATED_ID
    BY <1>4, <2>4 DEF Ids
  <2>6. \A x, y \in Ids : ids[x] = ids[y] /\ ids[x] # 0 => x = y
    BY <2>1 DEF IdsInv, Unique
  <2>7. \A x \in Ids : ids'[x] >= ALLOCATED_ID => x = o
    BY <1>5, <2>4
  <2>8. \A x, y \in Ids : ids'[x] = ids'[y] /\ ids'[x] # 0 => x = y
    BY <1>5, <2>5, <2>6
  <2>9. QED
    BY <1>1, <1>5, <1>7, <2>2, <2>7, <2>8 DEF Unique
<1>13. QED
  BY <1>2, <1>6, <1>9, <1>10, <1>11, <1>12 DEF IdsInv, Moves

LEMMA IncrementIds ==
  ASSUME IdsInv, KeepHistory, NEW p \in Pids, IncrementId(p)
  PROVE  IdsInv' /\ TaskFacts(p)
<1> DEFINE o == task[p].obj
<1>1. /\ Step(p, "increment", "grow") /\ ALLOCATED_ID' = ids[o] + 1
      /\ UNCHANGED <<INTERFACE_LIST, INTERFACE_COUNT, INTERFACE_CAPACITY, slots, ids,
                     allocated, live, bind_pid, proc_entry, procfs, oops>>
  BY DEF IncrementId, listVars, procVars
<1>2. Moves(p, "increment", "grow")
  BY <1>1, StepMoves DEF Pcs, IdsInv
<1>3. Early(p) /\ ~Early(p)'
  BY <1>2 DEF Moves, Early
<1>4. o \in Ids /\ o \in 1 .. allocated
  BY <1>3, IdFits DEF IdsInv, Owned
<1>5. ids \in [Ids -> Ids \cup {0}] /\ ids[o] \in Ids \cup {0} /\ ids[o] \in Nat
  BY <1>4 DEF IdsInv, Typed, TypeOK, Ids
<1>6. ALLOCATED_ID' \in 1 .. MaxRegistrations + 1
  BY <1>1, <1>5, ThreadsAssumption DEF Ids
<1> HIDE DEF o
<1>7. Typed'
  <2>1. /\ task' \in Tasks /\ scan' \in Scans /\ overlapped' \subseteq Scanners
        /\ INTERFACE_LIST' \in Blocks \cup {NULL} /\ INTERFACE_COUNT' \in 0 .. MaxCount
        /\ INTERFACE_CAPACITY' \in Nat
        /\ slots' \in [Blocks -> Seq(Ids \cup {Wild}) \cup {NULL}]
        /\ allocated' \in 0 .. MaxRegistrations /\ live' \subseteq 1 .. allocated'
        /\ ids' \in [Ids -> Ids \cup {0}] /\ bind_pid' \in [Ids -> Pids]
        /\ proc_entry' \in [Ids -> Ids \cup {NoEntry}] /\ procfs' \subseteq Ids
        /\ oops' \in BOOLEAN
    BY <1>1, <1>2 DEF IdsInv, Typed, TypeOK, Moves, TaskFacts, Scans
  <2>2. QED
    BY <1>6, <2>1, TypedNext DEF IdsInv
<1>8. /\ task[p].obj = o /\ task[p].pc = "increment" /\ task'[p].pc = "grow"
      /\ \A q \in Pids : q # p => task'[q] = task[q]
  BY <1>2 DEF Moves, TaskFacts, o
<1>9. \A q \in Pids : Early(q)' => q # p /\ Early(q) /\ task'[q].obj = task[q].obj
  BY <1>3, <1>8 DEF Early
<1>10. Owned'
  BY <1>1, <1>9 DEF IdsInv, Owned
<1>11. Done' = Done \cup {o} /\ o \notin Done
  <2>1. \A q \in Pids : q # p => (Early(q)' <=> Early(q)) /\ task'[q].obj = task[q].obj
    BY <1>8 DEF Early
  <2>2. \A q \in Pids : q # p /\ Early(q) => task[q].obj # o
    BY <1>3, <1>8 DEF IdsInv, Owned
  <2>3. QED
    BY <1>1, <1>3, <1>4, <1>8, <2>1, <2>2 DEF Done
<1>12. Cardinality(Done') = Cardinality(Done) + 1 /\ Cardinality(Done) \in Nat
  BY <1>11, DoneFinite, FS_AddElement DEF IdsInv
<1>13. Counted'
  <2>1. ids[o] <= Cardinality(Done) + 1
    BY <1>8 DEF IdsInv, Counted
  <2>2. ALLOCATED_ID' <= Cardinality(Done') + 1
    BY <1>1, <1>5, <1>12, <2>1 DEF o
  <2>3. ASSUME NEW q \in Pids, task'[q].pc = "increment"
        PROVE  ids'[task'[q].obj] <= Cardinality(Done') + 1
    <3>1. q # p /\ task[q].pc = "increment" /\ task'[q] = task[q] /\ Early(q)
      BY <1>8, <2>3 DEF Early
    <3>2. ids[task[q].obj] <= Cardinality(Done) + 1 /\ ids[task[q].obj] \in Nat
      BY <1>5, <3>1, IdFits DEF IdsInv, Counted, Ids
    <3>3. QED
      BY <1>1, <1>12, <3>1, <3>2
  <2>4. QED
    BY <2>2, <2>3 DEF Counted
<1>14. Downs'
  BY <1>8 DEF IdsInv, Downs
<1>15. Unique'
  <2> SUFFICES ASSUME "ids" \notin raced' PROVE Unique'
    BY DEF Unique
  <2>1. "ids" \notin raced
    BY RacedGrows
  <2>2. AtPc("increment") = {p}
    BY <1>8, <2>1 DEF IdsInv, Unique, AtPc
  <2>3. AtPc("increment")' = {}
    BY <1>8, <2>2 DEF AtPc
  <2>4. ALLOCATED_ID' = ALLOCATED_ID + 1 /\ ALLOCATED_ID \in Nat
    <3>1. ids[task[p].obj] = ALLOCATED_ID
      BY <2>1, <2>2 DEF IdsInv, Unique
    <3>2. ALLOCATED_ID \in Nat
      BY DEF IdsInv, Typed, TypeOK
    <3>3. QED
      BY <1>1, <1>8, <3>1, <3>2
  <2>5. \A x \in Ids : ids[x] >= ALLOCATED_ID => ids[x] = ALLOCATED_ID
    BY <1>8, <2>1, <2>2 DEF IdsInv, Unique
  <2>6. \A x \in Ids : ids[x] \in Nat
    BY <1>5 DEF Ids
  <2>7. \A x \in Ids : ~(ids[x] >= ALLOCATED_ID')
    BY <2>4, <2>5, <2>6
  <2>8. \A x, y \in Ids : ids[x] = ids[y] /\ ids[x] # 0 => x = y
    BY <2>1 DEF IdsInv, Unique
  <2>9. QED
    BY <1>1, <2>3, <2>7, <2>8 DEF Unique
<1>16. QED
  BY <1>2, <1>7, <1>10, <1>13, <1>14, <1>15 DEF IdsInv, Moves

LEMMA TaskStepKeeps ==
  ASSUME IdsInv, KeepHistory, NEW p \in Pids, RegisterStep(p) \/ RemoveStep(p) \/ FollowsWild(p)
  PROVE  IdsInv' /\ TaskFacts(p)
<1>1. CASE QuietRegister(p) \/ QuietRemove(p)
  <2>1. Typed' /\ Downs' /\ Quiet /\ TaskFacts(p)
    BY <1>1, QuietRegisterKeeps, QuietRemoveKeeps DEF IdsInv
  <2>2. QED
    BY <2>1, QuietIds DEF IdsInv
<1>2. CASE alloc_interface(p) \/ ReadId(p) \/ IncrementId(p)
  BY <1>2, AllocIds, ReadIdIds, IncrementIds
<1>3. QED
  BY <1>1, <1>2 DEF RegisterStep, QuietRegister, QuietRemove

LEMMA IdsInvNext ==
  ASSUME IdsInv, [Next]_vars
  PROVE  IdsInv'
<1>1. CASE UNCHANGED vars
  <2>1. UNCHANGED <<listVars, registryVars, scan, overlapped, steady, astray, raced>>
    BY <1>1 DEF vars, registryVars
  <2>2. Typed'
    BY <2>1 DEF IdsInv, Typed, TypeOK, listVars, registryVars, procVars
  <2>3. Downs' /\ Owned' /\ Done' = Done /\ AtPc("increment")' = AtPc("increment")
    BY <2>1 DEF IdsInv, Downs, Owned, Done, Early, AtPc, registryVars
  <2>4. Counted' /\ Unique'
    BY <2>1, <2>3 DEF IdsInv, Counted, Unique, registryVars
  <2>5. QED
    BY <2>2, <2>3, <2>4 DEF IdsInv
<1>2. ASSUME KeepHistory, NEW p \in Pids, RegisterStep(p) \/ RemoveStep(p) \/ FollowsWild(p)
      PROVE  IdsInv'
  BY <1>2, TaskStepKeeps
<1>3. ASSUME KeepHistory, NEW s \in Scanners, ScanStep(s)
      PROVE  IdsInv'
  BY <1>3, ScanStepKeeps, QuietIds DEF IdsInv
<1>4. QED
  BY <1>1, <1>2, <1>3 DEF Next

LEMMA IdsInvInit ==
  ASSUME Init, Typed
  PROVE  IdsInv
<1>1. \A p \in Pids : task[p].pc = "idle"
  BY DEF Init, IdleTask, At
<1>2. Downs /\ Owned /\ AtPc("increment") = {}
  BY <1>1 DEF Downs, Owned, Early, AtPc
<1>3. Counted
  <2>1. Cardinality(Done) \in Nat
    BY DoneFinite
  <2>2. QED
    BY <1>1, <2>1 DEF Counted, Init
<1>4. Unique
  BY <1>2 DEF Unique, Init, Ids
<1>5. QED
  BY <1>2, <1>3, <1>4 DEF IdsInv

\* With nothing excluded from overlapping but what Overlaps says, the ioctls
\* take turns.
OneAtATime ==
  /\ OneIoctl
  /\ \A p \in Pids : InIoctl(p) => \A s \in Scanners : scan[s].pc # "null"
  /\ "ioctls" \notin raced

LEMMA OneAtATimeNext ==
  ASSUME TakeTurns, IdsInv, OneAtATime, [Next]_vars
  PROVE  OneAtATime'
<1> DEFINE Apart == /\ OneIoctl
                    /\ \A p \in Pids : InIoctl(p) => \A s \in Scanners : scan[s].pc # "null"
<1>1. CASE UNCHANGED vars
  BY <1>1 DEF vars, OneAtATime, OneIoctl, InIoctl
<1>2. ASSUME KeepHistory, Apart' PROVE OneAtATime'
  BY <1>2 DEF OneAtATime, OneIoctl, KeepHistory, KeepRaced
<1>3. ASSUME KeepHistory, NEW p \in Pids, RegisterStep(p) \/ RemoveStep(p) \/ FollowsWild(p)
      PROVE  Apart'
  <2>1. TaskFacts(p)
    BY <1>3, TaskStepKeeps
  <2>2. MayEnter => (\A q \in Pids : ~InIoctl(q)) /\ \A s \in Scanners : scan[s].pc # "null"
    BY DEF TakeTurns, MayEnter
  <2>3. \A q \in Pids : q # p => (InIoctl(q)' <=> InIoctl(q))
    BY <2>1 DEF TaskFacts, InIoctl
  <2>4. QED
    BY <2>1, <2>2, <2>3 DEF OneAtATime, OneIoctl, TaskFacts
<1>4. ASSUME KeepHistory, NEW s \in Scanners, ScanStep(s)
      PROVE  Apart'
  <2>1. ScanFacts(s) /\ task' = task
    BY <1>4, ScanStepKeeps DEF IdsInv
  <2>2. QED
    BY <2>1 DEF TakeTurns, ScanFacts, NoIoctl, OneAtATime, OneIoctl, InIoctl
<1> HIDE DEF Apart
<1>5. QED
  BY <1>1, <1>2, <1>3, <1>4 DEF Next

-----------------------------------------------------------------------------
(* The invariant.                                                          *)

LEMMA InitHolds == Init => ListInv /\ ScanInv
<1> SUFFICES ASSUME Init PROVE ListInv /\ ScanInv
  OBVIOUS
<1>1. IdleTask.pc = "idle" /\ IdleTask.obj = 0 /\ IdleTask.i = 0 /\ IdleTask.new = NULL
  BY DEF IdleTask, At
<1>2. task \in Tasks /\ \A p \in Pids : task[p] = IdleTask
  BY DEF Init, IdleTask, At, Tasks, Pcs
<1>3. scan \in Scans /\ \A s \in Scanners : scan[s].pc = "idle" /\ scan[s].i = 1
  BY DEF Init, IdleScan, Scans, Kinds, All
<1>4. /\ INTERFACE_LIST = NULL /\ INTERFACE_COUNT = 0 /\ INTERFACE_CAPACITY = 0
      /\ ALLOCATED_ID = 1 /\ allocated = 0 /\ live = {}
  BY DEF Init
<1>5. slots \in [Blocks -> Seq(Ids \cup {Wild}) \cup {NULL}] /\ \A b \in Blocks : slots[b] = NULL
  BY DEF Init
<1>6. bind_pid \in [Ids -> Pids] /\ \A o \in Ids : bind_pid[o] = CHOOSE p \in Pids : TRUE
  <2>1. (CHOOSE p \in Pids : TRUE) \in Pids
    BY ThreadsAssumption
  <2>2. QED
    BY <2>1 DEF Init
<1>7. /\ ids \in [Ids -> Ids \cup {0}] /\ \A o \in Ids : ids[o] = 0
      /\ proc_entry \in [Ids -> Ids \cup {NoEntry}] /\ \A o \in Ids : proc_entry[o] = NoEntry
      /\ procfs = {} /\ oops = FALSE /\ overlapped = {} /\ astray = {} /\ raced = {}
  BY DEF Init
<1>8. steady \in [Scanners -> SUBSET Ids] /\ \A s \in Scanners : steady[s] = {}
  BY DEF Init
<1>9. MaxRegistrations \in Nat /\ MaxCount \in Nat
  BY ThreadsAssumption
<1>10. Typed
  <2>1. /\ INTERFACE_COUNT \in 0 .. MaxCount /\ allocated \in 0 .. MaxRegistrations
        /\ ALLOCATED_ID \in 1 .. MaxRegistrations + 1
    BY <1>4, <1>9
  <2>2. \A b \in Blocks : slots[b] = NULL \/ slots[b] \in Seq(Ids \cup {Wild})
    BY <1>5
  <2>3. QED
    BY <1>2, <1>3, <1>4, <1>5, <1>6, <1>7, <1>8, <2>1, <2>2
       DEF Typed, TypeOK, Tasks, Pcs, Scans
<1>11. NoIoctl
  BY <1>1, <1>2 DEF NoIoctl, InIoctl
<1>12. NobodyFacts /\ OneIoctl
  BY <1>10, <1>11, Nobody DEF OneIoctl, NoIoctl
<1>13. ListView = [j \in 1 .. 0 |-> SlotOf(INTERFACE_LIST, j)]
  BY <1>4, <1>12 DEF NobodyFacts, Old
<1>14. DOMAIN ListView = {} /\ Len(ListView) = 0
  <2>1. \A f : DOMAIN [j \in 1 .. 0 |-> f[j]] = {} /\ Len([j \in 1 .. 0 |-> f[j]]) = 0
    OBVIOUS
  <2>2. PICK f : f = [j \in 1 .. 0 |-> SlotOf(INTERFACE_LIST, j)]
    OBVIOUS
  <2>3. ListView = [j \in 1 .. 0 |-> f[j]]
    BY <1>13, <2>2
  <2>4. QED
    BY <2>1, <2>3
<1>15. Turn
  BY <1>1, <1>2, <1>4, <1>12 DEF Turn, NobodyFacts, Storage
<1>16. Unused /\ IdsOK
  BY <1>4, <1>6, <1>7 DEF Unused, IdsOK, Ids
<1>17. Memory
  BY <1>4, <1>5, <1>12 DEF Memory, ArraySize, NobodyFacts
<1>18. ListOK /\ Complete /\ InProc /\ ProcNotYet
  BY <1>4, <1>12, <1>14 DEF ListOK, Complete, InProc, ProcNotYet, NobodyFacts
<1>19. ScanInv
  BY <1>3, <1>7, <1>8 DEF ScanInv, Idle, IdleOf, Undisturbed, UndisturbedOf, Ahead, AheadOf
<1>20. QED
  BY <1>10, <1>15, <1>16, <1>17, <1>18, <1>19 DEF ListInv

LEMMA NextKeeps ==
  ASSUME "ioctls" \notin raced', ListInv, ScanInv, [Next]_vars
  PROVE  ListInv' /\ ScanInv'
<1>1. CASE UNCHANGED vars
  <2>1. /\ ListUnchanged /\ scan' = scan /\ overlapped' = overlapped /\ oops' = oops
        /\ steady' = steady /\ astray' = astray /\ raced' = raced
    BY <1>1 DEF vars, listVars, procVars, ListUnchanged
  <2>2. Typed'
    BY <2>1 DEF ListUnchanged, ListInv, Typed, TypeOK
  <2>3. ListInv' /\ ListView' = ListView
    BY <2>1, <2>2, ListUntouched DEF ListUnchanged
  <2>4. QED
    BY <2>1, <2>3, StillScans
<1>2. ASSUME KeepHistory, NEW p \in Pids, RegisterStep(p) PROVE ListInv' /\ ScanInv'
  <2>1. CASE alloc_interface(p)
    BY <1>2, <2>1, AllocKeeps, AllocScans
  <2>2. CASE \/ add_interface_to_proc(p) \/ ReadId(p) \/ IncrementId(p) \/ NoRoom(p) \/ Grow(p)
             \/ HasRoom(p) \/ krealloc(p) \/ PointToNew(p) \/ CountFirst(p) \/ SlotFirst(p)
    BY <1>2, <2>2, SameList
  <2>3. CASE SlotLast(p) \/ CountLast(p)
    BY <1>2, <2>3, EndOfRegistrationScans
  <2>4. CASE OutOfMemory(p)
    <3>1. ListUnchanged /\ scan' = scan /\ overlapped' = overlapped /\ oops' = TRUE
      BY <2>4 DEF OutOfMemory, listVars, procVars, ListUnchanged
    <3>2. QED
      BY <1>2, <3>1, OopsKeeps
  <2>5. QED
    BY <1>2, <2>1, <2>2, <2>3, <2>4 DEF RegisterStep
<1>3. ASSUME KeepHistory, NEW p \in Pids, RemoveStep(p) PROVE ListInv' /\ ScanInv'
  <2>1. ASSUME NEW id \in Ids, Locate(p, id) PROVE ListInv' /\ ScanInv'
    BY <1>3, <2>1, LocateKeeps, LocateScans
  <2>2. CASE Shift(p) \/ Shifted(p) \/ CountDown(p) \/ Free(p)
    BY <1>3, <2>2, SameList
  <2>3. CASE FreeTwice(p)
    <3>1. ListUnchanged /\ scan' = scan /\ overlapped' = overlapped /\ oops' = TRUE
      BY <2>3 DEF FreeTwice, listVars, procVars, ListUnchanged
    <3>2. QED
      BY <1>3, <3>1, OopsKeeps
  <2>4. QED
    BY <1>3, <2>1, <2>2, <2>3 DEF RemoveStep, free_interface
<1>4. ASSUME KeepHistory, NEW p \in Pids, FollowsWild(p) PROVE ListInv' /\ ScanInv'
  <2>1. ListUnchanged /\ scan' = scan /\ overlapped' = overlapped /\ oops' = TRUE
    BY <1>4 DEF FollowsWild, listVars, procVars, ListUnchanged
  <2>2. QED
    BY <1>4, <2>1, OopsKeeps
<1>5. ASSUME KeepHistory, NEW s \in Scanners, ScanStep(s) PROVE ListInv' /\ ScanInv'
  <2>1. ASSUME NEW kind \in Kinds, NEW want \in Ids \cup {All}, BeginScan(s, kind, want)
        PROVE  Scanned(s) /\ ScanInv'
    BY <1>5, <2>1, BeginScans
  <2>2. CASE init_interfaces(s)
    BY <1>5, <2>2, InitScans
  <2>3. CASE ~init_interfaces(s)
    <3>1. Scanned(s) /\ ScanInv'
      BY <1>5, <2>1, <2>3, LoadListScans, LoadCountScans, ScanCrashesScans, NextSlotScans,
         FoundScans, EndScans, UseFoundScans, UseFreedScans, FinishScans DEF ScanStep
    <3>2. QED
      BY <1>5, <3>1, ScannedOnly DEF ScanOnly
  <2>4. QED
    BY <2>2, <2>3
<1>6. QED
  BY <1>1, <1>2, <1>3, <1>4, <1>5 DEF Next

\* Where no two ioctls have overlapped, the list and the scanners are as above.
IInv == IdsInv /\ ("ioctls" \notin raced => ListInv /\ ScanInv)

LEMMA Invariance == Spec => []IInv
<1>1. Init => IInv
  BY InitHolds, IdsInvInit DEF IInv, ListInv
<1>2. IInv /\ [Next]_vars => IInv'
  <2> SUFFICES ASSUME IInv, [Next]_vars PROVE IInv'
    OBVIOUS
  <2>1. IdsInv'
    BY IdsInvNext DEF IInv
  <2>2. raced \subseteq raced'
    BY DEF Next, KeepHistory, KeepRaced, vars
  <2>3. "ioctls" \notin raced' => ListInv' /\ ScanInv'
    BY <2>2, NextKeeps DEF IInv
  <2>4. QED
    BY <2>1, <2>3 DEF IInv
<1>3. QED
  BY <1>1, <1>2, PTL DEF Spec

(***************************************************************************)
(* Every variable stays in its range, ids and counts included, however the *)
(* ioctls overlap each other and the broadcasters that allocate the array: *)
(* ALLOCATED_ID never runs ahead of the interfaces that were given an id.  *)
(***************************************************************************)
THEOREM TypeOKHolds == Spec => []TypeOK
<1>1. IInv => TypeOK
  BY DEF IInv, IdsInv, Typed
<1>2. QED
  BY <1>1, Invariance, PTL

(***************************************************************************)
(* ALLOCATED_ID++ of register_interface gives no id twice as long as no    *)
(* two tasks are inside it at the same time, for any number of tasks,      *)
(* whatever else of their registrations and removals overlaps.             *)
(***************************************************************************)
THEOREM IdsUniqueHolds == Spec => []IdsUnique
<1>1. IInv => IdsUnique
  BY DEF IInv, IdsInv, Unique, IdsUnique
<1>2. QED
  BY <1>1, Invariance, PTL

(***************************************************************************)
(* Until two ioctls have overlapped, a scan of find_interface, of the      *)
(* broadcast or of proc_read that no ioctl overlaps reads only what is in  *)
(* the list, for any number of scanners, of registrations and removals     *)
(* before it, and of moves of the array.                                   *)
(***************************************************************************)
THEOREM StrayNeedsOverlapHolds == Spec => []StrayNeedsOverlap
<1>1. IInv => StrayNeedsOverlap
  BY DEF IInv, ScanInv, Idle, IdleOf, Undisturbed, UndisturbedOf, StrayNeedsOverlap
<1>2. QED
  BY <1>1, Invariance, PTL

(***************************************************************************)
(* Until two ioctls have overlapped, a scan of find_interface finds an     *)
(* interface that stays in the list, whatever is registered or removed     *)
(* meanwhile, unless it has come upon memory that krealloc or              *)
(* free_interface freed under it.                                          *)
(***************************************************************************)
THEOREM SteadyIsFoundHolds == Spec => []SteadyIsFound
<1>1. IInv => SteadyIsFound
  BY DEF IInv, ScanInv, Ahead, AheadOf, SteadyIsFound
<1>2. QED
  BY <1>1, Invariance, PTL

(***************************************************************************)
(* The id that register_interface returned leads find_interface to the     *)
(* interface, as long as nothing was removed and no two ioctls have        *)
(* overlapped, for any number of registrations and of moves of the array.  *)
(***************************************************************************)
THEOREM IdLeadsHolds == Spec => []("ioctls" \notin raced => IdLeadsToInterface)
<1>1. ListInv => IdLeadsToInterface
  <2> SUFFICES ASSUME ListInv, live = 1 .. allocated, Removing = {}, NEW o \in live \ Pending
               PROVE  \E j \in DOMAIN ListView :
                        /\ ListView[j] = o
                        /\ \A k \in 1 .. j - 1 : ListView[k] = Wild \/ ids[ListView[k]] # ids[o]
    BY DEF IdLeadsToInterface
  <2> DEFINE d == IF Registering = {} THEN 0 ELSE 1
  <2>1. Typed /\ OneIoctl /\ allocated \in Nat /\ o \in 1 .. allocated
    BY DEF ListInv, Turn, Typed, TypeOK
  <2>2. Len(ListView) = allocated - d /\ \A j \in DOMAIN ListView : ListView[j] = j
    BY DEF ListInv, Complete
  <2>3. PICK n \in Nat : DOMAIN ListView = 1 .. n
    BY <2>1, ViewTyped
  <2>4. n = allocated - d
    BY <2>1, <2>2, <2>3
  <2>5. o \in 1 .. n
    <3>1. CASE Registering = {}
      BY <2>1, <2>4, <3>1
    <3>2. CASE Registering # {}
      <4>1. PICK p \in Pids : p \in Registering /\ Registration(p)
        BY <3>2 DEF Registering, ListInv, Turn
      <4>2. allocated \in Pending
        BY <4>1 DEF Registration, Pending
      <4>3. QED
        BY <2>1, <2>4, <3>2, <4>2
    <3>3. QED
      BY <3>1, <3>2
  <2>6. ListView[o] = o /\ o \in DOMAIN ListView
    BY <2>2, <2>3, <2>5
  <2>7. o \in Listed
    BY <2>1, <2>6 DEF Listed, Wild
  <2>8. ASSUME NEW k \in 1 .. o - 1, ListView[k] # Wild PROVE ids[ListView[k]] # ids[o]
    <3>1. k \in DOMAIN ListView /\ k # o
      BY <2>1, <2>3, <2>5
    <3>2. ListView[k] = k /\ k \in Listed
      BY <2>2, <2>8, <3>1 DEF Listed
    <3>3. QED
      BY <2>7, <3>1, <3>2, ListedId
  <2>9. QED
    BY <2>6, <2>8
<1>2. IInv => ("ioctls" \notin raced => IdLeadsToInterface)
  BY <1>1 DEF IInv
<1>3. QED
  BY <1>2, Invariance, PTL

-----------------------------------------------------------------------------
(* What Registry sees of a state.                                          *)

seenCapacity ==
  IF \E p \in Pids : task[p].pc = "krealloc" \/ task[p].new # NULL
  THEN INTERFACE_CAPACITY - GRADIENT ELSE INTERFACE_CAPACITY

seenId == IF Registering = {} THEN ALLOCATED_ID ELSE allocated

seenLive == live \ {task[p].obj : p \in Pids}

SomePid == CHOOSE p \in Pids : TRUE

seenPid == [o \in Ids |-> IF o \in Pending THEN SomePid ELSE bind_pid[o]]

seenEntry == [o \in Ids |-> IF o \in Pending THEN NoEntry ELSE proc_entry[o]]

seenProcfs == procfs \ Pending

LEMMA Seen ==
  /\ UNCHANGED <<ListView, seenCapacity, seenId, seenLive, seenPid, seenEntry, seenProcfs, oops>>
       => UNCHANGED R!vars
  /\ \A p \in Pids :
       R!register_interface(p) <=>
         /\ ~oops /\ seenId \in Ids
         /\ seenLive' = seenLive \cup {seenId}
         /\ seenPid' = [seenPid EXCEPT ![seenId] = p]
         /\ R!add_interface_to_proc(seenId, p)
         /\ seenId' = seenId + 1
         /\ seenCapacity' = IF seenCapacity < Len(ListView) + 1 THEN seenCapacity + GRADIENT
                                                                ELSE seenCapacity
         /\ ListView' = Append(ListView, seenId)
         /\ UNCHANGED oops
  /\ \A id \in Ids :
       R!remove_interface(id) <=>
         /\ ~oops
         /\ \E k \in 1 .. Len(ListView) :
              /\ k \in 1 .. Len(ListView) /\ ListView[k] \in {id}
              /\ \A j \in 1 .. k - 1 : ListView[j] \notin {id}
              /\ ListView' = [i \in 1 .. Len(ListView) - 1 |->
                                IF i < k THEN ListView[i]
                                ELSE IF k = 1 THEN 0 ELSE ListView[k - 1]]
         /\ seenLive' = seenLive \ {id}
         /\ UNCHANGED <<seenCapacity, seenId, seenPid, seenEntry, seenProcfs, oops>>
BY DEF R!vars, R!register_interface, R!NewId, R!Ids, Ids, R!GrownCapacity, R!INTERFACE_COUNT,
       R!remove_interface, R!IsFirstSlot, R!ShiftedList, R!BeforeSlot, R!Wild,
       seenCapacity, seenId, seenLive, seenPid, SomePid, seenEntry, seenProcfs

LEMMA SeenProc ==
  \A o, p :
    R!add_interface_to_proc(o, p) <=>
      \/ \E k \in 1 .. Len(ListView) :
           /\ k \in 1 .. Len(ListView) /\ ListView[k] \in {x \in Ids : seenPid[x] = p}
           /\ \A j \in 1 .. k - 1 : ListView[j] \notin {x \in Ids : seenPid[x] = p}
           /\ seenEntry' = [seenEntry EXCEPT ![o] = seenEntry[ListView[k]]]
           /\ UNCHANGED seenProcfs
      \/ /\ ({ListView[k] : k \in 1 .. Len(ListView)} \ {0}) \cap {x \in Ids : seenPid[x] = p} = {}
         /\ \/ /\ seenEntry' = [seenEntry EXCEPT ![o] = o]
               /\ seenProcfs' = seenProcfs \cup {o}
            \/ /\ seenEntry' = [seenEntry EXCEPT ![o] = 0]
               /\ UNCHANGED seenProcfs
BY DEF R!add_interface_to_proc, R!IsFirstSlot, R!BoundTo, R!Listed, R!Wild, R!NoEntry, R!Ids, Ids,
       R!INTERFACE_COUNT, seenEntry, seenProcfs, seenPid, SomePid, NoEntry

LEMMA SeenOops ==
  /\ R!RegisterOutOfMemory <=>
       /\ ~oops /\ seenId \in Ids /\ oops' = TRUE
       /\ UNCHANGED <<ListView, seenCapacity, seenId, seenLive, seenPid, seenEntry, seenProcfs>>
  /\ R!WildRead <=>
       /\ ~oops /\ \E k \in 1 .. Len(ListView) : ListView[k] = 0
       /\ oops' = TRUE
       /\ UNCHANGED <<ListView, seenCapacity, seenId, seenLive, seenPid, seenEntry, seenProcfs>>
BY DEF R!RegisterOutOfMemory, R!WildRead, R!INTERFACE_COUNT, R!Wild, R!Ids, Ids,
       seenCapacity, seenId, seenLive, seenPid, SomePid, seenEntry, seenProcfs

\* In the terms of the one task whose ioctl is under way.
SeenOf(p) ==
  LET o == task[p].obj
      registers == task[p].pc \notin {"shift", "down", "free"}
  IN
  /\ seenCapacity = IF task[p].pc = "krealloc" \/ task[p].new # NULL
                    THEN INTERFACE_CAPACITY - GRADIENT ELSE INTERFACE_CAPACITY
  /\ seenId = IF registers THEN allocated ELSE ALLOCATED_ID
  /\ seenLive = live \ {o}
  /\ seenPid = [x \in Ids |-> IF registers /\ x = o THEN SomePid ELSE bind_pid[x]]
  /\ seenEntry = [x \in Ids |-> IF registers /\ x = o THEN NoEntry ELSE proc_entry[x]]
  /\ seenProcfs = IF registers THEN procfs \ {o} ELSE procfs

\* Between ioctls.
SeenIdle ==
  /\ seenCapacity = INTERFACE_CAPACITY /\ seenId = ALLOCATED_ID /\ seenLive = live
  /\ seenPid = bind_pid /\ seenEntry = proc_entry /\ seenProcfs = procfs

LEMMA SeenAlone == \A p \in Pids : ListInv /\ InIoctl(p) => SeenOf(p)
<1> SUFFICES ASSUME ListInv, NEW p \in Pids, InIoctl(p) PROVE SeenOf(p)
  OBVIOUS
<1>1. AloneFacts(p)
  BY Owner
<1>2. \A q \in Pids : q # p => task[q].pc = "idle" /\ task[q].obj = 0 /\ task[q].new = NULL
  BY <1>1 DEF AloneFacts, ListInv, Turn, Storage
<1>3. 0 \notin live
  BY DEF ListInv, Typed, TypeOK
<1> DEFINE o == task[p].obj
           registers == task[p].pc \notin {"shift", "down", "free"}
<1>4. /\ Registering = {} <=> ~registers
      /\ \A x : x \in Pending <=> registers /\ x = o
  BY <1>1 DEF AloneFacts
<1>5. seenCapacity = IF task[p].pc = "krealloc" \/ task[p].new # NULL
                     THEN INTERFACE_CAPACITY - GRADIENT ELSE INTERFACE_CAPACITY
  BY <1>2 DEF seenCapacity
<1>6. seenId = IF registers THEN allocated ELSE ALLOCATED_ID
  BY <1>4 DEF seenId
<1>7. seenLive = live \ {o}
  BY <1>2, <1>3 DEF seenLive
<1>8. seenPid = [x \in Ids |-> IF registers /\ x = o THEN SomePid ELSE bind_pid[x]]
  BY <1>4 DEF seenPid
<1>9. seenEntry = [x \in Ids |-> IF registers /\ x = o THEN NoEntry ELSE proc_entry[x]]
  BY <1>4 DEF seenEntry
<1>10. seenProcfs = IF registers THEN procfs \ {o} ELSE procfs
  BY <1>4 DEF seenProcfs
<1>11. QED
  BY <1>5, <1>6, <1>7, <1>8, <1>9, <1>10 DEF SeenOf

LEMMA SeenNobody == ListInv /\ NoIoctl => SeenIdle
<1> SUFFICES ASSUME ListInv, NoIoctl PROVE SeenIdle
  OBVIOUS
<1>1. Registering = {} /\ Pending = {}
  BY Nobody DEF ListInv, NobodyFacts
<1>2. \A q \in Pids : task[q].pc = "idle" /\ task[q].obj = 0 /\ task[q].new = NULL
  BY DEF NoIoctl, InIoctl, ListInv, Turn, Storage
<1>3. 0 \notin live /\ bind_pid \in [Ids -> Pids] /\ proc_entry \in [Ids -> Ids \cup {NoEntry}]
  BY DEF ListInv, Typed, TypeOK
<1>4. seenCapacity = INTERFACE_CAPACITY /\ seenId = ALLOCATED_ID
  BY <1>1, <1>2 DEF seenCapacity, seenId
<1>5. seenLive = live
  BY <1>2, <1>3 DEF seenLive
<1>6. seenPid = bind_pid /\ seenEntry = proc_entry /\ seenProcfs = procfs
  BY <1>1, <1>3 DEF seenPid, seenEntry, seenProcfs
<1>7. QED
  BY <1>4, <1>5, <1>6 DEF SeenIdle

LEMMA SeenAloneNext == (\A p \in Pids : ListInv /\ InIoctl(p) => SeenOf(p))'
BY SeenAlone, PTL

LEMMA SeenNobodyNext == (ListInv /\ NoIoctl => SeenIdle)'
BY SeenNobody, PTL

Unseen ==
  UNCHANGED <<ListView, seenCapacity, seenId, seenLive, seenPid, seenEntry, seenProcfs, oops>>

\* A step of a registration that Registry does not see.
LEMMA StillRegistering ==
  ASSUME ListInv, ListInv', ListView' = ListView, NEW p \in Pids,
         task[p].pc \notin {"idle", "shift", "down", "free"},
         task'[p].pc \notin {"idle", "shift", "down", "free"},
         task'[p].obj = task[p].obj, UNCHANGED <<live, allocated, bind_pid, oops>>,
         \A x \in Ids : x # task[p].obj => proc_entry'[x] = proc_entry[x],
         \A x : x # task[p].obj => (x \in procfs' <=> x \in procfs),
         (IF task'[p].pc = "krealloc" \/ task'[p].new # NULL
          THEN INTERFACE_CAPACITY' - GRADIENT ELSE INTERFACE_CAPACITY')
         = IF task[p].pc = "krealloc" \/ task[p].new # NULL
           THEN INTERFACE_CAPACITY - GRADIENT ELSE INTERFACE_CAPACITY
  PROVE  Unseen
<1>1. SeenOf(p)
  BY SeenAlone DEF InIoctl
<1>2. SeenOf(p)'
  BY SeenAloneNext DEF InIoctl
<1>3. seenCapacity' = seenCapacity /\ seenId' = seenId /\ seenLive' = seenLive
  BY <1>1, <1>2 DEF SeenOf
<1>4. seenPid' = seenPid
  BY <1>1, <1>2 DEF SeenOf
<1>5. seenEntry' = seenEntry
  BY <1>1, <1>2 DEF SeenOf
<1>6. seenProcfs' = seenProcfs
  BY <1>1, <1>2 DEF SeenOf
<1>7. QED
  BY <1>3, <1>4, <1>5, <1>6 DEF Unseen

\* And of a removal.
LEMMA StillRemoving ==
  ASSUME ListInv, ListInv', ListView' = ListView, NEW p \in Pids,
         task[p].pc \in {"shift", "down", "free"}, task'[p].pc \in {"shift", "down", "free"},
         task'[p].obj = task[p].obj,
         UNCHANGED <<live, ALLOCATED_ID, INTERFACE_CAPACITY, bind_pid, proc_entry, procfs, oops>>
  PROVE  Unseen
<1>1. SeenOf(p) /\ task[p].new = NULL
  BY SeenAlone DEF InIoctl, ListInv, Turn, Storage
<1>2. SeenOf(p)' /\ task'[p].new = NULL
  <2>1. Storage(p)'
    BY DEF ListInv, Turn
  <2>2. QED
    BY <2>1, SeenAloneNext DEF InIoctl, Storage
<1>3. seenCapacity' = seenCapacity /\ seenId' = seenId /\ seenLive' = seenLive
  BY <1>1, <1>2 DEF SeenOf
<1>4. seenPid' = seenPid /\ seenEntry' = seenEntry /\ seenProcfs' = seenProcfs
  BY <1>1, <1>2 DEF SeenOf
<1>5. QED
  BY <1>3, <1>4 DEF Unseen

LEMMA SameFields ==
  ASSUME ListInv, NEW p \in Pids, NEW from, NEW to \in Pcs, from # "idle", Step(p, from, to)
  PROVE  /\ task[p].pc = from /\ task'[p].pc = to /\ task'[p].obj = task[p].obj
         /\ task'[p].new = task[p].new
BY Moved DEF MovedFacts, ListInv, Turn

LEMMA RegisteringUnseen ==
  ASSUME ListInv, ListInv', ListView' = ListView, NEW p \in Pids,
         \/ add_interface_to_proc(p) \/ ReadId(p) \/ IncrementId(p) \/ NoRoom(p) \/ Grow(p)
         \/ HasRoom(p)
  PROVE  Unseen
<1>1. CASE add_interface_to_proc(p)
  <2> DEFINE o == task[p].obj
  <2>1. /\ task[p].pc = "proc" /\ task'[p].pc = "id" /\ task'[p].obj = o
        /\ task'[p].new = task[p].new
    BY <1>1, SameFields DEF add_interface_to_proc, Pcs
  <2>2. UNCHANGED <<live, allocated, bind_pid, INTERFACE_CAPACITY, oops>>
    BY <1>1 DEF add_interface_to_proc, listVars
  <2>3. proc_entry \in [Ids -> Ids \cup {NoEntry}]
    BY DEF ListInv, Typed
  <2>4. \A x \in Ids : x # o => proc_entry'[x] = proc_entry[x]
    BY <1>1, <2>3 DEF add_interface_to_proc
  <2>5. \A x : x # o => (x \in procfs' <=> x \in procfs)
    BY <1>1 DEF add_interface_to_proc
  <2>6. QED
    BY <2>1, <2>2, <2>4, <2>5, StillRegistering
<1>2. CASE ReadId(p)
  <2>1. /\ task[p].pc = "id" /\ task'[p].pc = "increment" /\ task'[p].obj = task[p].obj
        /\ task'[p].new = task[p].new
    BY <1>2, SameFields DEF ReadId, Pcs
  <2>2. UNCHANGED <<live, allocated, bind_pid, proc_entry, procfs, INTERFACE_CAPACITY, oops>>
    BY <1>2 DEF ReadId, listVars, procVars
  <2>3. QED
    BY <2>1, <2>2, StillRegistering
<1>3. CASE IncrementId(p)
  <2>1. /\ task[p].pc = "increment" /\ task'[p].pc = "grow" /\ task'[p].obj = task[p].obj
        /\ task'[p].new = task[p].new
    BY <1>3, SameFields DEF IncrementId, Pcs
  <2>2. UNCHANGED <<live, allocated, bind_pid, proc_entry, procfs, INTERFACE_CAPACITY, oops>>
    BY <1>3 DEF IncrementId, listVars, procVars
  <2>3. QED
    BY <2>1, <2>2, StillRegistering
<1>4. CASE Grow(p)
  <2>1. /\ task[p].pc = "capacity" /\ task'[p].pc = "krealloc" /\ task'[p].obj = task[p].obj
        /\ task[p].new = NULL
    BY <1>4, SameFields DEF Grow, Pcs, ListInv, Turn, Storage
  <2>2. /\ UNCHANGED <<live, allocated, bind_pid, proc_entry, procfs, oops>>
        /\ INTERFACE_CAPACITY' = INTERFACE_CAPACITY + GRADIENT
    BY <1>4 DEF Grow, procVars
  <2>3. INTERFACE_CAPACITY' - GRADIENT = INTERFACE_CAPACITY
    BY <2>2, Sizes
  <2>4. QED
    BY <2>1, <2>2, <2>3, StillRegistering
<1>5. CASE HasRoom(p)
  <2>1. /\ task[p].pc = "grow" /\ task'[p].pc = "store" /\ task'[p].obj = task[p].obj
        /\ task'[p].new = task[p].new
    BY <1>5, SameFields DEF HasRoom, Pcs
  <2>2. UNCHANGED <<live, allocated, bind_pid, proc_entry, procfs, INTERFACE_CAPACITY, oops>>
    BY <1>5 DEF HasRoom, listVars, procVars
  <2>3. QED
    BY <2>1, <2>2, StillRegistering
<1>6. CASE NoRoom(p)
  <2>1. /\ task[p].pc = "grow" /\ task'[p].pc = "capacity" /\ task'[p].obj = task[p].obj
        /\ task'[p].new = task[p].new
    BY <1>6, SameFields DEF NoRoom, Pcs
  <2>2. UNCHANGED <<live, allocated, bind_pid, proc_entry, procfs, INTERFACE_CAPACITY, oops>>
    BY <1>6 DEF NoRoom, listVars, procVars
  <2>3. QED
    BY <2>1, <2>2, StillRegistering
<1>7. QED
  BY <1>1, <1>2, <1>3, <1>4, <1>5, <1>6

LEMMA StoringUnseen ==
  ASSUME ListInv, ListInv', ListView' = ListView, NEW p \in Pids,
         krealloc(p) \/ PointToNew(p) \/ CountFirst(p) \/ (SlotFirst(p) /\ oops' = oops)
  PROVE  Unseen
<1>1. task \in Tasks
  BY DEF ListInv, Typed, TypeOK, Tasks, Pcs
<1>2. CASE krealloc(p)
  <2>1. PICK b \in Blocks :
          /\ task[p].pc = "krealloc" /\ task' = [task EXCEPT ![p].pc = "point", ![p].new = b]
          /\ UNCHANGED <<live, allocated, bind_pid, proc_entry, procfs, INTERFACE_CAPACITY, oops>>
    BY <1>2 DEF krealloc, procVars
  <2>2. task'[p].pc = "point" /\ task'[p].new = b /\ task'[p].obj = task[p].obj
    BY <1>1, <2>1 DEF Tasks, Pcs
  <2>3. /\ task[p].pc = "krealloc" /\ b # NULL
        /\ UNCHANGED <<live, allocated, bind_pid, proc_entry, procfs, INTERFACE_CAPACITY, oops>>
    BY <2>1, ThreadsAssumption
  <2>4. QED
    BY <2>2, <2>3, StillRegistering
<1>3. CASE PointToNew(p)
  <2>1. /\ task[p].pc = "point" /\ task'[p].pc = "store" /\ task'[p].obj = task[p].obj
        /\ task'[p].new = task[p].new
    BY <1>3, SameFields DEF PointToNew, Pcs
  <2>2. UNCHANGED <<live, allocated, bind_pid, proc_entry, procfs, INTERFACE_CAPACITY, oops>>
    BY <1>3 DEF PointToNew, procVars
  <2>3. QED
    BY <2>1, <2>2, StillRegistering
<1>4. CASE CountFirst(p) \/ (SlotFirst(p) /\ oops' = oops)
  <2>1. /\ task[p].pc = "store"
        /\ \/ task' = [task EXCEPT ![p].pc = "slot", ![p].i = INTERFACE_COUNT + 1]
           \/ task' = [task EXCEPT ![p].pc = "count", ![p].i = INTERFACE_COUNT + 1]
    BY <1>4 DEF CountFirst, SlotFirst
  <2>2. INTERFACE_COUNT + 1 \in Nat
    BY Sizes
  <2>3. /\ task'[p].pc \in {"slot", "count"} /\ task'[p].new = task[p].new
        /\ task'[p].obj = task[p].obj
    BY <1>1, <2>1, <2>2 DEF Tasks, Pcs
  <2>4. UNCHANGED <<live, allocated, bind_pid, proc_entry, procfs, INTERFACE_CAPACITY, oops>>
    BY <1>4 DEF CountFirst, SlotFirst, procVars
  <2>5. task[p].pc = "store"
    BY <2>1
  <2>6. QED
    BY <2>3, <2>4, <2>5, StillRegistering
<1>5. QED
  BY <1>2, <1>3, <1>4

LEMMA RemovingUnseen ==
  ASSUME ListInv, ListInv', ListView' = ListView, NEW p \in Pids,
         (Shift(p) /\ oops' = oops) \/ Shifted(p) \/ CountDown(p)
         \/ (Free(p) /\ ReturnedFacts(p, "free"))
  PROVE  Unseen
<1>1. task \in Tasks
  BY DEF ListInv, Typed, TypeOK, Tasks, Pcs
<1>2. CASE Shift(p) /\ oops' = oops
  <2> DEFINE k == task[p].i
  <2>1. task[p].pc = "shift" /\ task' = [task EXCEPT ![p].i = k + 1]
    BY <1>2 DEF Shift
  <2>2. k + 1 \in Nat
    BY <1>1 DEF Tasks
  <2>3. task'[p].pc = "shift" /\ task'[p].obj = task[p].obj
    BY <1>1, <2>1, <2>2 DEF Tasks, Pcs
  <2>4. UNCHANGED <<live, ALLOCATED_ID, INTERFACE_CAPACITY, bind_pid, proc_entry, procfs, oops>>
    BY <1>2 DEF Shift, procVars
  <2>5. task[p].pc = "shift"
    BY <2>1
  <2>6. QED
    BY <2>3, <2>4, <2>5, StillRemoving
<1>3. CASE CountDown(p)
  <2>1. task[p].pc = "down" /\ task'[p].pc = "free" /\ task'[p].obj = task[p].obj
    BY <1>3, SameFields DEF CountDown, Pcs
  <2>2. UNCHANGED <<live, ALLOCATED_ID, INTERFACE_CAPACITY, bind_pid, proc_entry, procfs, oops>>
    BY <1>3 DEF CountDown, procVars
  <2>3. QED
    BY <2>1, <2>2, StillRemoving
<1>4. CASE Free(p) /\ ReturnedFacts(p, "free")
  <2>1. /\ task[p].pc = "free" /\ live' = live \ {task[p].obj}
        /\ UNCHANGED <<ALLOCATED_ID, INTERFACE_CAPACITY, bind_pid, proc_entry, procfs, oops>>
    BY <1>4 DEF Free, Return, listVars, procVars
  <2>2. SeenOf(p) /\ task[p].new = NULL
    BY <2>1, SeenAlone DEF InIoctl, ListInv, Turn, Storage
  <2>3. SeenIdle'
    BY <1>4, SeenNobodyNext DEF ReturnedFacts
  <2>4. bind_pid \in [Ids -> Pids] /\ proc_entry \in [Ids -> Ids \cup {NoEntry}]
    BY DEF ListInv, Typed
  <2>5. /\ seenCapacity' = seenCapacity /\ seenId' = seenId /\ seenLive' = seenLive
        /\ seenProcfs' = seenProcfs
    BY <2>1, <2>2, <2>3 DEF SeenOf, SeenIdle
  <2>6. seenPid' = seenPid /\ seenEntry' = seenEntry
    BY <2>1, <2>2, <2>3, <2>4 DEF SeenOf, SeenIdle
  <2>7. QED
    BY <2>1, <2>5, <2>6 DEF Unseen
<1>5. CASE Shifted(p)
  <2>1. /\ task[p].pc = "shift" /\ task' = [task EXCEPT ![p].pc = "down", ![p].i = INTERFACE_COUNT]
        /\ UNCHANGED <<live, ALLOCATED_ID, INTERFACE_CAPACITY, bind_pid, proc_entry, procfs, oops>>
    BY <1>5 DEF Shifted, listVars, procVars
  <2>2. task'[p].pc = "down" /\ task'[p].obj = task[p].obj
    BY <1>1, <2>1, Sizes DEF Tasks, Pcs
  <2>3. QED
    BY <2>1, <2>2, StillRemoving
<1>6. QED
  BY <1>2, <1>3, <1>4, <1>5

LEMMA AllocUnseen ==
  ASSUME "ioctls" \notin raced', KeepHistory, ListInv, ListInv', ListView' = ListView,
         NEW p \in Pids, alloc_interface(p)
  PROVE  Unseen
<1> DEFINE o == allocated + 1
           t == At("proc", o, 0)
<1>1. /\ Enter(p, t) /\ live' = live \cup {o} /\ allocated' = o
      /\ bind_pid' = [bind_pid EXCEPT ![o] = p] /\ allocated < MaxRegistrations
      /\ UNCHANGED <<INTERFACE_CAPACITY, ALLOCATED_ID, proc_entry, procfs, oops, scan>>
  BY DEF alloc_interface, listVars
<1>2. o \in Ids /\ allocated \in Nat
  BY <1>1, ThreadsAssumption DEF ListInv, Typed, TypeOK, Ids
<1>3. /\ t \in [pc : Pcs, obj : Ids \cup {0}, i : Nat, new : Blocks \cup {NULL}]
      /\ t.pc = "proc" /\ t.obj = o /\ t.new = NULL
  BY <1>2 DEF At, Pcs
<1> HIDE DEF t
<1>4. EnteredFacts(p, t) /\ NobodyFacts
  BY <1>1, <1>3, Entered DEF ListInv, Turn
<1>5. SeenIdle
  BY <1>4, SeenNobody DEF EnteredFacts
<1>6. SeenOf(p)' /\ task'[p] = t
  BY <1>4, SeenAloneNext DEF EnteredFacts
<1>7. o > allocated /\ o \notin live
  BY <1>2 DEF ListInv, Typed, TypeOK
<1>8. ALLOCATED_ID = o
  BY <1>4 DEF ListInv, Turn, NobodyFacts
<1>9. bind_pid[o] = SomePid /\ proc_entry[o] = NoEntry /\ o \notin procfs
  BY <1>2, <1>7 DEF ListInv, Unused, SomePid
<1>10. bind_pid \in [Ids -> Pids] /\ proc_entry \in [Ids -> Ids \cup {NoEntry}]
  BY DEF ListInv, Typed
<1> HIDE DEF o
<1>11. seenCapacity' = seenCapacity /\ seenId' = seenId
  BY <1>1, <1>3, <1>5, <1>6, <1>8 DEF SeenOf, SeenIdle
<1>12. seenLive' = seenLive /\ seenProcfs' = seenProcfs
  BY <1>1, <1>3, <1>5, <1>6, <1>7, <1>9 DEF SeenOf, SeenIdle
<1>13. seenPid' = seenPid
  <2>1. seenPid' = [x \in Ids |-> IF x = o THEN SomePid ELSE bind_pid'[x]]
    BY <1>3, <1>6 DEF SeenOf
  <2>2. \A x \in Ids : (IF x = o THEN SomePid ELSE bind_pid'[x]) = bind_pid[x]
    BY <1>1, <1>9, <1>10
  <2>3. QED
    BY <1>5, <1>10, <2>1, <2>2 DEF SeenIdle
<1>14. seenEntry' = seenEntry
  BY <1>1, <1>3, <1>5, <1>6, <1>9, <1>10 DEF SeenOf, SeenIdle
<1>15. QED
  BY <1>1, <1>11, <1>12, <1>13, <1>14 DEF Unseen

LEMMA ViewSeq ==
  ASSUME ListInv
  PROVE  \E n \in Nat : /\ DOMAIN ListView = 1 .. n /\ Len(ListView) = n
                        /\ ListView = [j \in 1 .. n |-> ListView[j]]
                        /\ ListView \in Seq(Ids \cup {Wild})
<1>1. PICK n \in Nat : DOMAIN ListView = 1 .. n /\ \A j \in 1 .. n : ListView[j] \in Ids \cup {Wild}
  BY ViewTyped DEF ListInv, Turn
<1>2. ListView = [j \in DOMAIN ListView |-> ListView[j]]
  <2>1. CASE Cutting # {}
    <3> DEFINE k == task[CHOOSE p \in Cutting : TRUE].i
               g(j) == IF j < k THEN SlotOf(Array, j)
                       ELSE IF k = 1 THEN Wild ELSE SlotOf(Array, k - 1)
    <3>1. ListView = [j \in 1 .. INTERFACE_COUNT - 1 |-> g(j)]
      BY <2>1 DEF ListView
    <3> HIDE DEF g
    <3>2. QED
      BY <3>1, Zenon
  <2>2. CASE Cutting = {}
    <3> DEFINE d == IF AtPc("slot") = {} THEN 0 ELSE 1
    <3>1. ListView = [j \in 1 .. INTERFACE_COUNT - d |-> SlotOf(Array, j)]
      BY <2>2 DEF ListView
    <3>2. QED
      BY <3>1, Zenon
  <2>3. QED
    BY <2>1, <2>2
<1>3. ListView = [j \in 1 .. n |-> ListView[j]]
  BY <1>1, <1>2
<1>4. ListView \in [1 .. n -> Ids \cup {Wild}]
  BY <1>1, <1>3
<1>5. ListView \in Seq(Ids \cup {Wild})
  BY <1>4
<1>6. Len(ListView) = n
  BY <1>1, <1>5
<1>7. QED
  BY <1>1, <1>3, <1>5, <1>6

\* The last step of a registration is Registry's.
LEMMA RegisteredSeen ==
  ASSUME ListInv, ListInv', NEW p \in Pids, NEW from \in {"slot", "count"},
         ReturnedFacts(p, from), Appended(task[p].obj),
         UNCHANGED <<INTERFACE_CAPACITY, ALLOCATED_ID, allocated, live, bind_pid, proc_entry,
                     procfs, oops>>
  PROVE  R!register_interface(p)
<1> DEFINE o == task[p].obj
           mine == {x \in Ids \ {o} : bind_pid[x] = p}
           bound == {x \in Ids : seenPid[x] = p}
<1>1. /\ ~oops /\ task[p].pc = from /\ InIoctl(p) /\ NoIoctl'
  BY DEF ReturnedFacts
<1>2. AloneFacts(p) /\ Storage(p) /\ Registration(p) /\ o = allocated /\ allocated \in Ids
  BY <1>1, Owner
<1>3. SeenOf(p) /\ SeenIdle'
  BY <1>1, SeenAlone, SeenNobodyNext
<1>4. seenId = o /\ o \in Ids /\ o \in live /\ bind_pid[o] = p
  BY <1>1, <1>2, <1>3 DEF SeenOf, Registration
<1>5. seenId' = o + 1
  BY <1>1, <1>2, <1>3 DEF SeenIdle, Registration
<1>6. seenLive' = seenLive \cup {o}
  BY <1>3, <1>4 DEF SeenOf, SeenIdle
<1>7. bind_pid \in [Ids -> Pids] /\ proc_entry \in [Ids -> Ids \cup {NoEntry}]
  BY DEF ListInv, Typed
<1>8. /\ seenPid = [x \in Ids |-> IF x = o THEN SomePid ELSE bind_pid[x]]
      /\ seenEntry = [x \in Ids |-> IF x = o THEN NoEntry ELSE proc_entry[x]]
      /\ seenProcfs = procfs \ {o}
      /\ seenPid' = bind_pid /\ seenEntry' = proc_entry /\ seenProcfs' = procfs
  BY <1>1, <1>3 DEF SeenOf, SeenIdle
<1>9. seenPid' = [seenPid EXCEPT ![o] = p]
  BY <1>4, <1>7, <1>8
<1>10. PICK n \in Nat : /\ DOMAIN ListView = 1 .. n /\ Len(ListView) = n
                        /\ ListView \in Seq(Ids \cup {Wild})
  BY ViewSeq
<1>11. ListView' = Append(ListView, o)
  <2>1. PICK m \in Nat :
          /\ DOMAIN ListView = 1 .. m
          /\ ListView' = [j \in 1 .. m + 1 |-> IF j <= m THEN ListView[j] ELSE o]
    BY DEF Appended
  <2>2. m = n
    BY <1>10, <2>1
  <2>3. QED
    BY <1>10, <2>1, <2>2
<1>12. seenCapacity' = IF seenCapacity < n + 1 THEN seenCapacity + GRADIENT ELSE seenCapacity
  <2>1. seenCapacity' = INTERFACE_CAPACITY
    BY <1>3 DEF SeenIdle
  <2>2. seenCapacity = IF task[p].new # NULL THEN INTERFACE_CAPACITY - GRADIENT
                                             ELSE INTERFACE_CAPACITY
    BY <1>1, <1>3 DEF SeenOf
  <2>3. /\ from = "count" => DOMAIN ListView = 1 .. INTERFACE_COUNT
        /\ from = "slot" => DOMAIN ListView = 1 .. INTERFACE_COUNT - 1
    BY <1>1, <1>2 DEF AloneFacts, Old
  <2>4. /\ from = "count" => n = INTERFACE_COUNT /\ INTERFACE_COUNT < INTERFACE_CAPACITY
        /\ from = "slot" => n = INTERFACE_COUNT - 1 /\ INTERFACE_COUNT > 0
    BY <1>1, <1>2, <1>10, <2>3, Sizes DEF Storage
  <2>5. task[p].new # NULL => INTERFACE_CAPACITY = n + GRADIENT
    BY <1>1, <1>2, <2>4 DEF Storage
  <2>6. n + 1 <= INTERFACE_CAPACITY
    BY <2>4, Sizes
  <2>7. QED
    BY <2>1, <2>2, <2>5, <2>6, Sizes
<1>13. /\ \A k \in 1 .. n : ListView[k] # o
       /\ \A k \in 1 .. n : ListView[k] \in mine <=> ListView[k] \in bound
       /\ \A k \in 1 .. n : ListView[k] \in mine => ListView[k] \in Ids /\ ListView[k] # o
  <2>1. \A k \in 1 .. n : ListView[k] # o
    <3>1. o # Wild
      BY <1>4 DEF Ids, Wild
    <3>2. QED
      BY <1>10, <3>1 DEF ListInv, ListOK
  <2>2. \A x \in Ids : x # o => seenPid[x] = bind_pid[x]
    BY <1>8
  <2>3. QED
    BY <2>1, <2>2
<1>14. R!add_interface_to_proc(o, p)
  <2>1. \/ \E k \in DOMAIN ListView :
             /\ ListView[k] \in mine /\ \A j \in 1 .. k - 1 : ListView[j] \notin mine
             /\ proc_entry[o] = proc_entry[ListView[k]] /\ o \notin procfs
        \/ /\ \A k \in DOMAIN ListView : ListView[k] \notin mine
           /\ \/ proc_entry[o] = o /\ o \in procfs
              \/ proc_entry[o] = NoEntry /\ o \notin procfs
    <3>1. p \in Registering /\ task[p].pc # "proc"
      BY <1>1, <1>2 DEF AloneFacts
    <3>2. QED
      BY <3>1 DEF ListInv, InProc
  <2>2. CASE \E k \in DOMAIN ListView :
               /\ ListView[k] \in mine /\ \A j \in 1 .. k - 1 : ListView[j] \notin mine
               /\ proc_entry[o] = proc_entry[ListView[k]] /\ o \notin procfs
    <3>1. PICK k \in 1 .. n :
            /\ ListView[k] \in mine /\ \A j \in 1 .. k - 1 : ListView[j] \notin mine
            /\ proc_entry[o] = proc_entry[ListView[k]] /\ o \notin procfs
      BY <1>10, <2>2
    <3>2. \A j \in 1 .. k - 1 : j \in 1 .. n
      BY <1>10
    <3>3. ListView[k] \in bound /\ \A j \in 1 .. k - 1 : ListView[j] \notin bound
      BY <1>13, <3>1, <3>2
    <3>4. seenEntry' = [seenEntry EXCEPT ![o] = seenEntry[ListView[k]]]
      <4>1. seenEntry[ListView[k]] = proc_entry[o]
        BY <1>8, <1>13, <3>1
      <4>2. QED
        BY <1>4, <1>7, <1>8, <4>1
    <3>5. seenProcfs' = seenProcfs
      BY <1>8, <3>1
    <3>6. QED
      BY <1>10, <3>3, <3>4, <3>5, SeenProc
  <2>3. CASE /\ \A k \in DOMAIN ListView : ListView[k] \notin mine
             /\ \/ proc_entry[o] = o /\ o \in procfs
                \/ proc_entry[o] = NoEntry /\ o \notin procfs
    <3>1. ({ListView[k] : k \in 1 .. Len(ListView)} \ {0}) \cap bound = {}
      <4>1. \A k \in 1 .. n : ListView[k] \notin bound
        BY <1>10, <1>13, <2>3
      <4>2. QED
        BY <1>10, <4>1
    <3>2. \/ seenEntry' = [seenEntry EXCEPT ![o] = o] /\ seenProcfs' = seenProcfs \cup {o}
          \/ seenEntry' = [seenEntry EXCEPT ![o] = 0] /\ seenProcfs' = seenProcfs
      <4>1. CASE proc_entry[o] = o /\ o \in procfs
        <5>1. seenEntry' = [seenEntry EXCEPT ![o] = o]
          BY <1>4, <1>7, <1>8, <4>1
        <5>2. seenProcfs' = seenProcfs \cup {o}
          BY <1>8, <4>1
        <5>3. QED
          BY <5>1, <5>2
      <4>2. CASE proc_entry[o] = NoEntry /\ o \notin procfs
        <5>1. seenEntry' = [seenEntry EXCEPT ![o] = 0]
          BY <1>4, <1>7, <1>8, <4>2 DEF NoEntry
        <5>2. seenProcfs' = seenProcfs
          BY <1>8, <4>2
        <5>3. QED
          BY <5>1, <5>2
      <4>3. QED
        BY <2>3, <4>1, <4>2
    <3>3. QED
      BY <3>1, <3>2, SeenProc
  <2>4. QED
    BY <2>1, <2>2, <2>3
<1>15. QED
  BY <1>1, <1>4, <1>5, <1>6, <1>9, <1>10, <1>11, <1>12, <1>14, Seen

\* A removal is Registry's where it has found its slot.
LEMMA LocatedSeen ==
  ASSUME ListInv, ListInv', NEW p \in Pids, NEW id \in Ids, NEW k \in 1 .. INTERFACE_COUNT, LocatedAt(p, id, k),
         Cut(k)
  PROVE  \E x \in Ids : R!remove_interface(x)
<1> DEFINE x == Slot(k)
           t == At("shift", x, k)
<1>1. /\ EnteredFacts(p, t) /\ NobodyFacts /\ IsFirstSlot(k, {o \in Ids : ids[o] = id})
      /\ UNCHANGED <<INTERFACE_COUNT, INTERFACE_CAPACITY, ALLOCATED_ID, allocated, live, ids,
                     bind_pid, proc_entry, procfs, oops>>
  BY DEF LocatedAt
<1>2. /\ x \in Ids /\ ids[x] = id
      /\ \A j \in 1 .. k - 1 : Slot(j) # x
  BY <1>1 DEF IsFirstSlot
<1>3. t.pc = "shift" /\ t.obj = x /\ t.new = NULL
  BY DEF At
<1>4. SeenIdle /\ ~oops
  BY <1>1, SeenNobody DEF EnteredFacts
<1>5. SeenOf(p)' /\ task'[p] = t
  BY <1>1, SeenAloneNext DEF EnteredFacts
<1>6. bind_pid \in [Ids -> Pids] /\ proc_entry \in [Ids -> Ids \cup {NoEntry}]
  BY DEF ListInv, Typed
<1> HIDE DEF t
<1>7. UNCHANGED <<seenCapacity, seenId, seenProcfs>> /\ seenLive' = seenLive \ {x}
  BY <1>1, <1>3, <1>4, <1>5 DEF SeenOf, SeenIdle
<1>8. UNCHANGED <<seenPid, seenEntry>>
  BY <1>1, <1>3, <1>4, <1>5, <1>6 DEF SeenOf, SeenIdle
<1>9. PICK n \in Nat : DOMAIN ListView = 1 .. n /\ Len(ListView) = n
  BY ViewSeq
<1>10. /\ DOMAIN ListView = 1 .. INTERFACE_COUNT
       /\ \A j \in 1 .. INTERFACE_COUNT : ListView[j] = Slot(j)
  BY <1>1 DEF NobodyFacts, Old, Slot
<1>11. n = INTERFACE_COUNT
  BY <1>9, <1>10, Sizes
<1>12. ListView[k] = x /\ \A j \in 1 .. k - 1 : ListView[j] # x
  <2>1. \A j \in 1 .. k - 1 : j \in 1 .. INTERFACE_COUNT
    BY Sizes
  <2>2. QED
    BY <1>2, <1>10, <2>1
<1>13. ListView' = [i \in 1 .. n - 1 |-> IF i < k THEN ListView[i]
                                         ELSE IF k = 1 THEN 0 ELSE ListView[k - 1]]
  <2>1. PICK m \in Nat :
          /\ DOMAIN ListView = 1 .. m
          /\ ListView' = [j \in 1 .. m - 1 |->
                           IF j < k THEN ListView[j] ELSE IF k = 1 THEN Wild ELSE ListView[k - 1]]
    BY DEF Cut
  <2>2. m = n
    BY <1>9, <2>1
  <2>3. QED
    BY <2>1, <2>2 DEF Wild
<1>14. PICK y \in Ids : y = x
  BY <1>2
<1>15. R!remove_interface(y)
  <2>1. k \in 1 .. Len(ListView)
    BY <1>9, <1>11
  <2>2. \E i \in 1 .. Len(ListView) :
          /\ i \in 1 .. Len(ListView) /\ ListView[i] \in {y}
          /\ \A j \in 1 .. i - 1 : ListView[j] \notin {y}
          /\ ListView' = [j \in 1 .. Len(ListView) - 1 |->
                            IF j < i THEN ListView[j] ELSE IF i = 1 THEN 0 ELSE ListView[i - 1]]
    BY <1>9, <1>12, <1>13, <1>14, <2>1
  <2>3. seenLive' = seenLive \ {y}
    BY <1>7, <1>14
  <2>4. ~oops /\ UNCHANGED <<seenCapacity, seenId, seenPid, seenEntry, seenProcfs, oops>>
    BY <1>1, <1>4, <1>7, <1>8
  <2>5. QED
    BY <2>2, <2>3, <2>4, Seen
<1>16. QED
  BY <1>15

LEMMA OopsSeen ==
  ASSUME TakeTurns, ListInv, NEW p \in Pids, OutOfMemory(p) \/ FollowsWild(p)
  PROVE  R!RegisterOutOfMemory \/ R!WildRead
<1>1. /\ ListUnchanged /\ ~oops /\ oops' = TRUE
  BY DEF OutOfMemory, FollowsWild, listVars, procVars, ListUnchanged
<1>2. UNCHANGED <<Array, Pending, Registering>>
  BY <1>1 DEF ListUnchanged, Array, AtPc, Pending, Registering, Removing, InIoctl
<1>3. ListView' = ListView
  BY <1>1, <1>2 DEF ListUnchanged, ListView, AtPc, Cutting, SlotOf, InArray
<1>4. UNCHANGED <<seenCapacity, seenId, seenLive, seenPid, seenEntry, seenProcfs>>
  BY <1>1, <1>2 DEF ListUnchanged, seenCapacity, seenId, seenLive, seenPid, seenEntry, seenProcfs
<1>5. MayEnter => NoIoctl
  BY DEF MayEnter, TakeTurns, NoIoctl
<1>6. CASE OutOfMemory(p)
  <2>1. seenId \in Ids
    <3>1. CASE MayEnter /\ allocated < MaxRegistrations
      <4>1. seenId = ALLOCATED_ID /\ Registering = {}
        BY <1>5, <3>1, SeenNobody, Nobody DEF SeenIdle, ListInv, NobodyFacts
      <4>2. seenId = allocated + 1 /\ allocated \in Nat
        BY <4>1 DEF ListInv, Turn, Typed, TypeOK
      <4>3. QED
        BY <3>1, <4>2, ThreadsAssumption DEF Ids
    <3>2. CASE task[p].pc = "krealloc"
      <4>1. SeenOf(p) /\ allocated \in Ids
        BY <3>2, SeenAlone, Owner DEF InIoctl
      <4>2. QED
        BY <3>2, <4>1 DEF SeenOf
    <3>3. QED
      BY <1>6, <3>1, <3>2 DEF OutOfMemory
  <2>2. QED
    BY <1>1, <1>3, <1>4, <2>1, SeenOops
<1>7. CASE FollowsWild(p)
  <2>1. PICK k \in 1 .. INTERFACE_COUNT : Slot(k) \notin live
    BY <1>7 DEF FollowsWild
  <2>2. ListView = Old
    <3>1. CASE task[p].pc = "proc"
      BY <3>1, Owner DEF AloneFacts, InIoctl
    <3>2. CASE MayEnter
      BY <1>5, <3>2, Nobody DEF ListInv, NobodyFacts
    <3>3. QED
      BY <1>7, <3>1, <3>2 DEF FollowsWild
  <2>3. PICK n \in Nat : DOMAIN ListView = 1 .. n /\ Len(ListView) = n
    BY ViewSeq
  <2>4. k \in 1 .. Len(ListView) /\ ListView[k] = 0
    <3>1. k \in DOMAIN ListView /\ ListView[k] = Slot(k)
      BY <2>2 DEF Old, Slot
    <3>2. Slot(k) = Wild
      BY <2>1, <3>1 DEF ListInv, ListOK
    <3>3. QED
      BY <2>1, <2>3, <3>1, <3>2 DEF Wild
  <2>5. QED
    BY <1>1, <1>3, <1>4, <2>4, SeenOops
<1>8. QED
  BY <1>6, <1>7

LEMMA ScanUnseen ==
  ASSUME ListUnchanged, ListView' = ListView, oops' = oops
  PROVE  Unseen
<1>1. UNCHANGED <<Pending, Registering>>
  BY DEF ListUnchanged, Pending, Registering, Removing, InIoctl
<1>2. QED
  BY <1>1 DEF ListUnchanged, Unseen, seenCapacity, seenId, seenLive, seenPid, seenEntry, seenProcfs

LEMMA InitUnseen ==
  ASSUME ListInv, ListInv', ListView' = ListView, NEW s \in Scanners, init_interfaces(s)
  PROVE  Unseen
<1>1. UNCHANGED <<task, live, allocated, ALLOCATED_ID, INTERFACE_CAPACITY, bind_pid, proc_entry,
                  procfs, oops>>
  BY DEF init_interfaces, registryVars, procVars
<1>2. UNCHANGED <<Pending, Registering>>
  BY <1>1 DEF Pending, Registering, Removing, InIoctl
<1>3. QED
  BY <1>1, <1>2 DEF Unseen, seenCapacity, seenId, seenLive, seenPid, seenEntry, seenProcfs

LEMMA NextSeen ==
  ASSUME TakeTurns, "ioctls" \notin raced', ListInv, ScanInv, [Next]_vars
  PROVE  [R!Next]_(R!vars)
<1>1. ListInv'
  BY NextKeeps
<1>2. SUFFICES Unseen \/ R!Next
  BY Seen DEF Unseen
<1>3. CASE UNCHANGED vars
  <2>1. ListUnchanged /\ oops' = oops
    BY <1>3 DEF vars, listVars, procVars, ListUnchanged
  <2>2. ListView' = ListView
    BY <1>1, <2>1, ListUntouched DEF ListUnchanged, ListInv
  <2>3. QED
    BY <2>1, <2>2, ScanUnseen
<1>4. ASSUME KeepHistory, NEW p \in Pids, RegisterStep(p) PROVE Unseen \/ R!Next
  <2>1. CASE alloc_interface(p)
    BY <1>1, <1>4, <2>1, AllocKeeps, AllocUnseen
  <2>2. CASE \/ add_interface_to_proc(p) \/ ReadId(p) \/ IncrementId(p) \/ NoRoom(p) \/ Grow(p)
             \/ HasRoom(p)
    BY <1>1, <1>4, <2>2, SameList, RegisteringUnseen
  <2>3. CASE krealloc(p) \/ PointToNew(p) \/ CountFirst(p) \/ SlotFirst(p)
    <3>1. SlotFirst(p) => oops' = oops
      BY <1>4, SlotFirstKeeps
    <3>2. ListView' = ListView
      BY <1>4, <2>3, SameList
    <3>3. QED
      BY <1>1, <2>3, <3>1, <3>2, StoringUnseen
  <2>4. CASE SlotLast(p)
    <3>1. ReturnedFacts(p, "slot") /\ Appended(task[p].obj) /\ oops' = oops
      BY <1>4, <2>4, SlotLastKeeps
    <3>2. UNCHANGED <<INTERFACE_CAPACITY, ALLOCATED_ID, allocated, live, bind_pid, proc_entry,
                      procfs>>
      BY <2>4 DEF SlotLast, procVars
    <3>3. R!register_interface(p)
      BY <1>1, <3>1, <3>2, RegisteredSeen
    <3>4. QED
      BY <3>3 DEF R!Next
  <2>5. CASE CountLast(p)
    <3>1. ReturnedFacts(p, "count") /\ Appended(task[p].obj)
      BY <1>4, <2>5, CountLastKeeps
    <3>2. UNCHANGED <<INTERFACE_CAPACITY, ALLOCATED_ID, allocated, live, bind_pid, proc_entry,
                      procfs, oops>>
      BY <2>5 DEF CountLast, procVars
    <3>3. R!register_interface(p)
      BY <1>1, <3>1, <3>2, RegisteredSeen
    <3>4. QED
      BY <3>3 DEF R!Next
  <2>6. CASE OutOfMemory(p)
    BY <2>6, OopsSeen DEF R!Next
  <2>7. QED
    BY <1>4, <2>1, <2>2, <2>3, <2>4, <2>5, <2>6 DEF RegisterStep
<1>5. ASSUME KeepHistory, NEW p \in Pids, RemoveStep(p) PROVE Unseen \/ R!Next
  <2>1. ASSUME NEW id \in Ids, Locate(p, id) PROVE R!Next
    <3>1. \E x \in Ids : R!remove_interface(x)
      BY <1>1, <1>5, <2>1, LocateKeeps, LocatedSeen
    <3>2. QED
      BY <3>1 DEF R!Next, R!Ids, Ids
  <2>2. CASE Shift(p) \/ Shifted(p) \/ CountDown(p) \/ Free(p)
    <3>1. ListView' = ListView
      BY <1>5, <2>2, SameList
    <3>2. /\ Shift(p) => oops' = oops
          /\ Free(p) => ReturnedFacts(p, "free")
      BY <1>5, ShiftKeeps, FreeKeeps
    <3>3. QED
      BY <1>1, <2>2, <3>1, <3>2, RemovingUnseen
  <2>3. ~(task[p].obj \notin live /\ FreeTwice(p))
    BY Owner DEF FreeTwice, InIoctl
  <2>4. QED
    BY <1>5, <2>1, <2>2, <2>3 DEF RemoveStep, free_interface
<1>6. ASSUME KeepHistory, NEW p \in Pids, FollowsWild(p) PROVE Unseen \/ R!Next
  BY <1>6, OopsSeen DEF R!Next
<1>7. ASSUME KeepHistory, NEW s \in Scanners, ScanStep(s) PROVE Unseen \/ R!Next
  <2>1. ASSUME NEW kind \in Kinds, NEW want \in Ids \cup {All}, BeginScan(s, kind, want)
        PROVE  Scanned(s)
    BY <1>7, <2>1, BeginScans
  <2>2. CASE init_interfaces(s)
    BY <1>1, <1>7, <2>2, InitScans, InitUnseen
  <2>3. CASE ~init_interfaces(s)
    <3>1. Scanned(s)
      BY <1>7, <2>1, <2>3, LoadListScans, LoadCountScans, ScanCrashesScans, NextSlotScans,
         FoundScans, EndScans, UseFoundScans, UseFreedScans, FinishScans DEF ScanStep
    <3>2. ListView' = ListView
      BY <1>7, <3>1, ScannedOnly DEF ScanOnly
    <3>3. QED
      BY <3>1, <3>2, ScanUnseen DEF Scanned
  <2>4. QED
    BY <2>2, <2>3
<1>8. QED
  BY <1>3, <1>4, <1>5, <1>6, <1>7 DEF Next

(***************************************************************************)
(* A register_interface that takes turns with the others appears to be     *)
(* done at once, when its slot and its count are both written, and a       *)
(* remove_interface when it has found its slot; what finders, broadcasts   *)
(* and readers do in between is not seen in the registry.  So whatever     *)
(* holds of Registry holds of the interleaved ioctls, for any number of    *)
(* tasks, registrations and scanners.                                      *)
(***************************************************************************)
THEOREM ImplementsRegistryHolds ==
  ASSUME TakeTurns
  PROVE  Spec => ImplementsRegistry
<1>1. Init => R!Init
  <2> SUFFICES ASSUME Init PROVE R!Init
    OBVIOUS
  <2>1. ListInv
    BY InitHolds
  <2>2. NoIoctl
    BY DEF Init, NoIoctl, InIoctl, IdleTask, At
  <2>3. SeenIdle /\ ListView = Old
    BY <2>1, <2>2, SeenNobody, Nobody DEF ListInv, NobodyFacts
  <2>4. PICK n \in Nat : DOMAIN ListView = 1 .. n /\ Len(ListView) = n
                         /\ ListView \in Seq(Ids \cup {Wild})
    BY <2>1, ViewSeq
  <2>5. DOMAIN ListView = 1 .. INTERFACE_COUNT /\ INTERFACE_COUNT = 0
    BY <2>3 DEF Old, Init
  <2>6. ListView = <<>>
    BY <2>4, <2>5
  <2>7. /\ seenCapacity = 0 /\ seenId = 1 /\ seenLive = {} /\ seenProcfs = {} /\ oops = FALSE
        /\ seenPid = [id \in Ids |-> CHOOSE p \in Pids : TRUE]
        /\ seenEntry = [id \in Ids |-> 0]
    BY <2>3 DEF SeenIdle, Init, NoEntry
  <2>8. QED
    BY <2>6, <2>7 DEF R!Init, R!Ids, Ids, R!NoEntry, seenCapacity, seenId, seenLive, seenPid,
       SomePid, seenEntry, seenProcfs
<1>2. Init => OneAtATime
  <2> SUFFICES ASSUME Init PROVE OneAtATime
    OBVIOUS
  <2>1. \A p \in Pids : ~InIoctl(p)
    BY DEF Init, InIoctl, IdleTask, At
  <2>2. QED
    BY <2>1 DEF OneAtATime, OneIoctl, Init
<1>3. IInv /\ OneAtATime /\ [Next]_vars => OneAtATime'
  BY OneAtATimeNext DEF IInv
<1>4. IInv /\ OneAtATime /\ OneAtATime' /\ [Next]_vars => [R!Next]_(R!vars)
  BY NextSeen DEF IInv, OneAtATime
<1>5. QED
  BY <1>1, <1>2, <1>3, <1>4, Invariance, PTL DEF Spec, ImplementsRegistry, R!Spec
=============================================================================
