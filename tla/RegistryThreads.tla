--------------------------- MODULE RegistryThreads ---------------------------
(***************************************************************************)
(* The registry of module/interface.c with its ioctls split into accesses. *)
(* Nothing is locked: while a task registers or removes an interface,      *)
(*                                                                         *)
(*   "find"       connection threads and result handlers look one up       *)
(*                (find_interface) and use it (execute_interface,            *)
(*                handle_interface_result)                                   *)
(*   "broadcast"  do_broadcast allocates the array if there is none, and     *)
(*                serialises it                                              *)
(*   "read"       proc_read loads list and count anew for every slot; the    *)
(*                wanted one stands for the last it prints                   *)
(*                                                                         *)
(* When the tasks take turns, this implements Registry.  Arrays are blocks *)
(* of memory, freed by krealloc when it moves one, and used again.  Memory *)
(* that has been freed can still be read, and holds anything.  Interfaces  *)
(* are named in the order of their allocation.                             *)
(***************************************************************************)
EXTENDS Naturals, Sequences

CONSTANTS
  Pids, GRADIENT, MaxRegistrations,      \* as in Registry
  Scanners,                              \* threads that scan the list
  Blocks,                                \* memory for arrays
  MaxCount,                              \* the largest uint32_t
  Overlaps,                              \* what is not excluded
  NULL

(***************************************************************************)
(* "callers": ioctls overlap each other; "init": a broadcaster allocates   *)
(* the array while an ioctl runs.  The code excludes neither.              *)
(***************************************************************************)
ASSUME ThreadsAssumption ==
  /\ Pids # {} /\ GRADIENT \in Nat \ {0} /\ MaxRegistrations \in Nat
  /\ MaxCount \in Nat /\ 2 * MaxRegistrations <= MaxCount
  /\ Overlaps \subseteq {"callers", "init"}
  /\ NULL \notin Blocks \cup Seq(Nat)

Kinds == {"find", "broadcast", "read"}
Ids == 1 .. MaxRegistrations
Wild == 0       \* what a slot holds that nothing was stored in
NoEntry == 0
All == 0        \* a broadcaster wants every interface

VARIABLES
  INTERFACE_LIST, INTERFACE_COUNT, INTERFACE_CAPACITY, ALLOCATED_ID,
  slots,       \* the contents of each block; NULL when free
  allocated,   \* interfaces allocated so far
  live,        \* those not freed
  ids,         \* interface->id
  bind_pid, proc_entry, procfs,   \* as in Registry
  task,        \* each task: where it is, its interface, index and new array
  oops,        \* a task used a bad pointer: nothing is known after it
  scan,        \* each scanner: where it is and what it has loaded
  \* History of the scan under way:
  overlapped,  \* the scanners that an ioctl has overlapped
  steady,      \* the interfaces in the list since the scan began
  astray,      \* the scanners that have read freed memory
  \* History of the ioctls:
  raced        \* what they have overlapped in, of "ioctls" and "ids"

procVars == <<bind_pid, proc_entry, procfs>>
listVars == <<INTERFACE_LIST, INTERFACE_COUNT, INTERFACE_CAPACITY, slots>>

vars == <<listVars, ALLOCATED_ID, allocated, live, ids, procVars, task, oops,
          scan, overlapped, steady, astray, raced>>

At(pc, obj, i) == [pc |-> pc, obj |-> obj, i |-> i, new |-> NULL]
IdleTask == At("idle", 0, 0)
IdleScan == [pc |-> "idle", kind |-> "find", list |-> NULL, count |-> 0, i |-> 1, want |-> All,
             obj |-> 0]

Init ==
  /\ INTERFACE_LIST = NULL /\ INTERFACE_COUNT = 0
  /\ INTERFACE_CAPACITY = 0 /\ ALLOCATED_ID = 1
  /\ slots = [b \in Blocks |-> NULL]
  /\ allocated = 0 /\ live = {}
  /\ ids = [o \in Ids |-> 0]
  /\ bind_pid = [o \in Ids |-> CHOOSE p \in Pids : TRUE]
  /\ proc_entry = [o \in Ids |-> NoEntry] /\ procfs = {}
  /\ task = [p \in Pids |-> IdleTask] /\ oops = FALSE
  /\ scan = [s \in Scanners |-> IdleScan]
  /\ overlapped = {}
  /\ steady = [s \in Scanners |-> {}]
  /\ astray = {} /\ raced = {}

-----------------------------------------------------------------------------
(* The list as it will be when the ioctl under way is done with it, if a   *)
(* removal has found its slot, and otherwise as it was before the ioctl.   *)

InIoctl(p) == task[p].pc # "idle"
Removing == {p \in Pids : task[p].pc \in {"shift", "down", "free"}}
Registering == {p \in Pids : InIoctl(p)} \ Removing
Pending == {task[p].obj : p \in Registering}

AtPc(pc) == {p \in Pids : task[p].pc = pc}

Array ==
  IF AtPc("point") = {} THEN INTERFACE_LIST
  ELSE task[CHOOSE p \in AtPc("point") : TRUE].new

\* What slot k of an array holds, if it lies in memory that is allocated.
InArray(b, k) == b # NULL /\ slots[b] # NULL /\ k \in 1 .. Len(slots[b])

SlotOf(b, k) == IF InArray(b, k) THEN slots[b][k] ELSE Wild

Slot(k) == SlotOf(INTERFACE_LIST, k)

Cutting == AtPc("shift") \cup AtPc("down")

ListView ==
  IF Cutting # {}
  THEN LET k == task[CHOOSE p \in Cutting : TRUE].i IN
       [j \in 1 .. INTERFACE_COUNT - 1 |->
          IF j < k THEN SlotOf(Array, j) ELSE IF k = 1 THEN Wild ELSE SlotOf(Array, k - 1)]
  ELSE [j \in 1 .. INTERFACE_COUNT - (IF AtPc("slot") = {} THEN 0 ELSE 1) |->
          SlotOf(Array, j)]

\* Without the interfaces that the removal under way takes along.
Listed == {ListView[j] : j \in DOMAIN ListView} \ {Wild}

-----------------------------------------------------------------------------
(* register_interface.                                                     *)

MayEnter ==
  /\ ~oops
  /\ "callers" \in Overlaps \/ \A p \in Pids : ~InIoctl(p)
  /\ "init" \in Overlaps \/ \A s \in Scanners : scan[s].pc # "null"

\* An ioctl overlaps the scans under way.
Enter(p, t) ==
  /\ MayEnter /\ ~InIoctl(p)
  /\ task' = [task EXCEPT ![p] = t]
  /\ overlapped' = overlapped \cup {s \in Scanners : scan[s].pc # "idle"}

Step(p, from, to) ==
  /\ ~oops /\ task[p].pc = from
  /\ task' = [task EXCEPT ![p].pc = to]
  /\ UNCHANGED <<overlapped, scan>>

alloc_interface(p) ==
  /\ allocated < MaxRegistrations
  /\ allocated' = allocated + 1
  /\ Enter(p, At("proc", allocated + 1, 0))
  /\ live' = live \cup {allocated + 1}
  /\ bind_pid' = [bind_pid EXCEPT ![allocated + 1] = p]
  /\ UNCHANGED <<listVars, ALLOCATED_ID, ids, proc_entry, procfs, oops, scan>>

IsFirstSlot(k, wanted) ==
  /\ k \in 1 .. INTERFACE_COUNT
  /\ Slot(k) \in wanted
  /\ \A j \in 1 .. k - 1 : Slot(j) \notin wanted

\* The task's own scan, as in Registry.
add_interface_to_proc(p) ==
  LET o == task[p].obj
      same == {x \in Ids : bind_pid[x] = bind_pid[o]}
  IN
  /\ Step(p, "proc", "id")
  /\ \/ \E k \in 1 .. INTERFACE_COUNT :
          /\ IsFirstSlot(k, same)
          /\ proc_entry' = [proc_entry EXCEPT ![o] = proc_entry[Slot(k)]]
          /\ UNCHANGED procfs
     \/ /\ \A k \in 1 .. INTERFACE_COUNT : ~IsFirstSlot(k, same)
        /\ \/ proc_entry' = [proc_entry EXCEPT ![o] = o] /\ procfs' = procfs \cup {o}
           \/ UNCHANGED <<proc_entry, procfs>>
  /\ UNCHANGED <<listVars, ALLOCATED_ID, allocated, live, ids, bind_pid, oops>>

\* interface->id = ALLOCATED_ID++.
ReadId(p) ==
  /\ Step(p, "id", "increment")
  /\ ids' = [ids EXCEPT ![task[p].obj] = ALLOCATED_ID]
  /\ UNCHANGED <<listVars, ALLOCATED_ID, allocated, live, procVars, oops>>

\* Mutant: the increment is lost.
NoIncrement(p) ==
  /\ Step(p, "increment", "grow")
  /\ UNCHANGED <<listVars, ALLOCATED_ID, allocated, live, ids, procVars, oops>>

\* Mutant: an id is passed over.
IncrementTwice(p) ==
  /\ Step(p, "increment", "grow")
  /\ ALLOCATED_ID' = ids[task[p].obj] + 2
  /\ UNCHANGED <<listVars, allocated, live, ids, procVars, oops>>

IncrementId(p) ==
  /\ Step(p, "increment", "grow")
  /\ ALLOCATED_ID' = ids[task[p].obj] + 1
  /\ UNCHANGED <<listVars, allocated, live, ids, procVars, oops>>

\* A uint32_t after it was incremented.
AsCount(n) == IF n > MaxCount THEN 0 ELSE n

\* Mutant: the array grows one registration late.
FullLate == INTERFACE_CAPACITY < INTERFACE_COUNT

Full == INTERFACE_CAPACITY < AsCount(INTERFACE_COUNT + 1)

NoRoom(p) ==
  /\ Full
  /\ Step(p, "grow", "capacity")
  /\ UNCHANGED <<listVars, ALLOCATED_ID, allocated, live, ids, procVars, oops>>

Grow(p) ==
  /\ Step(p, "capacity", "krealloc")
  /\ INTERFACE_CAPACITY' = INTERFACE_CAPACITY + GRADIENT
  /\ UNCHANGED <<INTERFACE_LIST, INTERFACE_COUNT, slots, ALLOCATED_ID, allocated,
                 live, ids, procVars, oops>>

HasRoom(p) ==
  /\ ~Full
  /\ Step(p, "grow", "store")
  /\ UNCHANGED <<listVars, ALLOCATED_ID, allocated, live, ids, procVars, oops>>

\* An array that another task's krealloc has moved.
Gone(b) == b # NULL /\ slots[b] = NULL

\* The new end of an array is not initialised.
Extended(b) ==
  LET old == IF b = NULL \/ slots[b] = NULL THEN <<>> ELSE slots[b] IN
  [j \in 1 .. INTERFACE_CAPACITY |-> IF j <= Len(old) THEN old[j] ELSE Wild]

\* The array grows in place or moves: its old block is freed at once.
krealloc(p) ==
  /\ ~oops /\ task[p].pc = "krealloc" /\ ~Gone(INTERFACE_LIST)
  /\ \E b \in Blocks :
       /\ b = INTERFACE_LIST \/ slots[b] = NULL
       /\ slots' = [c \in Blocks |-> IF c = b THEN Extended(INTERFACE_LIST)
                                     ELSE IF c = INTERFACE_LIST THEN NULL ELSE slots[c]]
       /\ task' = [task EXCEPT ![p].pc = "point", ![p].new = b]
  /\ UNCHANGED <<INTERFACE_LIST, INTERFACE_COUNT, INTERFACE_CAPACITY, ALLOCATED_ID,
                 allocated, live, ids, procVars, oops, scan, overlapped>>

PointToNew(p) ==
  /\ Step(p, "point", "store")
  /\ INTERFACE_LIST' = task[p].new
  /\ UNCHANGED <<INTERFACE_COUNT, INTERFACE_CAPACITY, slots, ALLOCATED_ID, allocated,
                 live, ids, procVars, oops>>

\* INTERFACE_LIST[INTERFACE_COUNT++] = interface: the increment and the store
\* come in either order.
CountFirst(p) ==
  /\ ~oops /\ task[p].pc = "store"
  /\ task' = [task EXCEPT ![p].pc = "slot", ![p].i = INTERFACE_COUNT + 1]
  /\ INTERFACE_COUNT' = AsCount(INTERFACE_COUNT + 1)
  /\ UNCHANGED <<INTERFACE_LIST, INTERFACE_CAPACITY, slots, ALLOCATED_ID, allocated,
                 live, ids, procVars, oops, scan, overlapped>>

\* A store outside the array damages somebody else's memory.
StoreAt(k, o) ==
  IF InArray(INTERFACE_LIST, k)
  THEN slots' = [slots EXCEPT ![INTERFACE_LIST][k] = o] /\ UNCHANGED oops
  ELSE oops' = TRUE /\ UNCHANGED slots

SlotFirst(p) ==
  /\ ~oops /\ task[p].pc = "store"
  /\ StoreAt(INTERFACE_COUNT + 1, task[p].obj)
  /\ task' = [task EXCEPT ![p].pc = "count", ![p].i = INTERFACE_COUNT + 1]
  /\ UNCHANGED <<INTERFACE_LIST, INTERFACE_COUNT, INTERFACE_CAPACITY, ALLOCATED_ID,
                 allocated, live, ids, procVars, scan, overlapped>>

Return(p, from) ==
  /\ ~oops /\ task[p].pc = from
  /\ task' = [task EXCEPT ![p] = IdleTask]
  /\ UNCHANGED <<scan, overlapped>>

SlotLast(p) ==
  /\ Return(p, "slot")
  /\ StoreAt(task[p].i, task[p].obj)
  /\ UNCHANGED <<INTERFACE_LIST, INTERFACE_COUNT, INTERFACE_CAPACITY, ALLOCATED_ID,
                 allocated, live, ids, procVars>>

CountLast(p) ==
  /\ Return(p, "count")
  /\ INTERFACE_COUNT' = AsCount(task[p].i)
  /\ UNCHANGED <<INTERFACE_LIST, INTERFACE_CAPACITY, slots, ALLOCATED_ID, allocated,
                 live, ids, procVars, oops>>

\* kzalloc or krealloc returned NULL, which is used, or krealloc was given an
\* array that is gone.
OutOfMemory(p) ==
  /\ ~oops
  /\ \/ MayEnter /\ ~InIoctl(p) /\ allocated < MaxRegistrations
     \/ task[p].pc = "krealloc"
  /\ oops' = TRUE
  /\ UNCHANGED <<listVars, ALLOCATED_ID, allocated, live, ids, procVars, task, scan,
                 overlapped>>

-----------------------------------------------------------------------------
(* remove_interface.                                                       *)

\* An id that is not found is refused.
Locate(p, id) ==
  \E k \in 1 .. INTERFACE_COUNT :
    /\ IsFirstSlot(k, {o \in Ids : ids[o] = id})
    /\ Enter(p, At("shift", Slot(k), k))
    /\ UNCHANGED <<listVars, ALLOCATED_ID, allocated, live, ids, procVars, oops, scan>>

\* A task's scan (add_interface_to_proc, remove_interface) follows a wild slot
\* or freed memory.
FollowsWild(p) ==
  /\ ~oops
  /\ task[p].pc = "proc" \/ (MayEnter /\ ~InIoctl(p))
  /\ \E k \in 1 .. INTERFACE_COUNT : Slot(k) \notin live
  /\ oops' = TRUE
  /\ UNCHANGED <<listVars, ALLOCATED_ID, allocated, live, ids, procVars, task, scan,
                 overlapped>>

\* One turn of the loop: slot i gets the pointer of slot i - 1.  (When the
\* count is 0, INTERFACE_COUNT - 1 is the largest uint32_t.)
Shift(p) ==
  LET k == task[p].i IN
  /\ ~oops /\ task[p].pc = "shift" /\ (k < INTERFACE_COUNT \/ INTERFACE_COUNT = 0)
  /\ StoreAt(k, IF k = 1 THEN Wild ELSE Slot(k - 1))
  /\ task' = [task EXCEPT ![p].i = k + 1]
  /\ UNCHANGED <<INTERFACE_LIST, INTERFACE_COUNT, INTERFACE_CAPACITY, ALLOCATED_ID,
                 allocated, live, ids, procVars, scan, overlapped>>

\* The test that ends the loop has loaded the count.
Shifted(p) ==
  /\ ~oops /\ task[p].pc = "shift" /\ INTERFACE_COUNT # 0 /\ task[p].i >= INTERFACE_COUNT
  /\ task' = [task EXCEPT ![p].pc = "down", ![p].i = INTERFACE_COUNT]
  /\ UNCHANGED <<listVars, ALLOCATED_ID, allocated, live, ids, procVars, oops, scan,
                 overlapped>>

\* Mutant: the count stays.
NoCountDown(p) ==
  /\ Step(p, "down", "free")
  /\ UNCHANGED <<listVars, ALLOCATED_ID, allocated, live, ids, procVars, oops>>

\* INTERFACE_COUNT--, from the count as it is or as the loop's test loaded it.
CountDown(p) ==
  /\ Step(p, "down", "free")
  /\ \E n \in {INTERFACE_COUNT, task[p].i} :
       INTERFACE_COUNT' = IF n = 0 THEN MaxCount ELSE n - 1
  /\ UNCHANGED <<INTERFACE_LIST, INTERFACE_CAPACITY, slots, ALLOCATED_ID, allocated,
                 live, ids, procVars, oops>>

Free(p) ==
  /\ Return(p, "free")
  /\ live' = live \ {task[p].obj}
  /\ UNCHANGED <<listVars, ALLOCATED_ID, allocated, ids, procVars, oops>>

\* Two removals of one interface both free it.
FreeTwice(p) ==
  /\ ~oops /\ task[p].pc = "free"
  /\ oops' = TRUE
  /\ UNCHANGED <<listVars, ALLOCATED_ID, allocated, live, ids, procVars, task, scan,
                 overlapped>>

free_interface(p) == IF task[p].obj \in live THEN Free(p) ELSE FreeTwice(p)

-----------------------------------------------------------------------------
(* The scanners.                                                           *)

registryVars == <<ALLOCATED_ID, allocated, live, ids, procVars, task, oops>>

Move(s, from, to) ==
  /\ ~oops /\ scan[s].pc = from
  /\ scan' = [scan EXCEPT ![s].pc = to]
  /\ UNCHANGED <<listVars, registryVars, overlapped>>

BeginScan(s, kind, want) ==
  /\ ~oops /\ scan[s].pc = "idle"
  /\ IF kind = "broadcast" THEN want = All ELSE want \in Ids
  /\ scan' = [scan EXCEPT ![s].kind = kind, ![s].want = want,
                ![s].pc = IF kind = "broadcast" /\ INTERFACE_LIST = NULL THEN "null"
                                                                       ELSE "load"]
  /\ scan'[s].pc = "null" /\ "init" \notin Overlaps => \A p \in Pids : ~InIoctl(p)
  /\ overlapped' = IF \E p \in Pids : InIoctl(p) THEN overlapped \cup {s}
                                                 ELSE overlapped \ {s}
  /\ UNCHANGED <<listVars, registryVars>>

\* do_broadcast found no array.
init_interfaces(s) ==
  /\ ~oops /\ scan[s].pc = "null"
  /\ \E b \in Blocks :
       /\ slots[b] = NULL
       /\ slots' = [slots EXCEPT ![b] = [j \in 1 .. INTERFACE_CAPACITY |-> Wild]]
       /\ INTERFACE_LIST' = b
  /\ scan' = [scan EXCEPT ![s].pc = "load"]
  /\ UNCHANGED <<INTERFACE_COUNT, INTERFACE_CAPACITY, registryVars, overlapped>>

\* find_interface takes the count as an int: a half of them are negative.
AsInt(n) == IF 2 * n > MaxCount THEN 0 ELSE n

\* The two arguments of find_interface and serialize_interfaces_packet, in
\* either order.
LoadList(s) ==
  \E step \in {<<"load", "listLoaded">>, <<"countLoaded", "scan">>} :
    /\ ~oops /\ scan[s].pc = step[1]
    /\ scan' = [scan EXCEPT ![s].pc = step[2], ![s].list = INTERFACE_LIST]
    /\ UNCHANGED <<listVars, registryVars, overlapped>>

LoadCount(s) ==
  \E step \in {<<"load", "countLoaded">>, <<"listLoaded", "scan">>} :
    /\ ~oops /\ scan[s].pc = step[1]
    /\ scan' = [scan EXCEPT ![s].pc = step[2],
                  ![s].count = IF scan[s].kind = "find" THEN AsInt(INTERFACE_COUNT)
                                                        ELSE INTERFACE_COUNT]
    /\ UNCHANGED <<listVars, registryVars, overlapped>>

\* The slot that s looks at lies in an array.
Readable(s) == InArray(scan[s].list, scan[s].i)

InSlot(s) == slots[scan[s].list][scan[s].i]

More(s) == scan[s].pc = "scan" /\ scan[s].i <= scan[s].count

\* What it reads there is an interface that may be used.
Sound(s) == Readable(s) /\ InSlot(s) \in live

\* What it may come upon: freed memory, and what lies behind the end of an
\* array, holds anything, the old contents included.
MayRead(s) ==
  IF Readable(s) /\ InSlot(s) \in live \cup {Wild} THEN {InSlot(s)}
  ELSE IF scan[s].list = NULL THEN {}
  ELSE {o \in 1 .. allocated : ids[o] # 0} \cup {Wild}

\* An address follows that is none.
ScanCrashes(s) ==
  /\ More(s) /\ ~Sound(s)
  /\ Move(s, "scan", "oops")

\* No wild slot, and nothing that was freed, need hold what is wanted.
NextSlot(s) ==
  /\ ~oops /\ More(s)
  /\ \E o \in MayRead(s) : o \in live => ids[o] # scan[s].want
  /\ scan' = [scan EXCEPT ![s].i = @ + 1,
                          ![s].pc = IF scan[s].kind = "read" THEN "load" ELSE "scan"]
  /\ UNCHANGED <<listVars, registryVars, overlapped>>

Found(s) ==
  /\ ~oops /\ More(s)
  /\ \E o \in MayRead(s) \ {Wild} :
       /\ ids[o] = scan[s].want
       /\ scan' = [scan EXCEPT ![s].pc = "found", ![s].obj = o]
  /\ UNCHANGED <<listVars, registryVars, overlapped>>

\* Mutant: the last slot is passed over.
EndBeforeLast(s) ==
  /\ scan[s].i >= scan[s].count
  /\ Move(s, "scan", "end")

EndOfList(s) ==
  /\ scan[s].i > scan[s].count
  /\ Move(s, "scan", "end")

\* execute_interface and handle_interface_result go on to use its ctrl.
UseFound(s) ==
  /\ scan[s].obj \in live
  /\ \/ Move(s, "found", "found")
     \/ Move(s, "found", "end")

UseFreed(s) ==
  /\ scan[s].obj \notin live
  /\ Move(s, "found", "oops")

Finish(s) ==
  /\ ~oops /\ scan[s].pc = "end"
  /\ scan' = [scan EXCEPT ![s] = IdleScan]
  /\ overlapped' = overlapped \ {s}
  /\ UNCHANGED <<listVars, registryVars>>

-----------------------------------------------------------------------------
RegisterStep(p) ==
  \/ alloc_interface(p) \/ add_interface_to_proc(p) \/ ReadId(p) \/ IncrementId(p)
  \/ NoRoom(p) \/ Grow(p) \/ HasRoom(p) \/ krealloc(p) \/ PointToNew(p)
  \/ CountFirst(p) \/ SlotFirst(p) \/ SlotLast(p) \/ CountLast(p)
  \/ OutOfMemory(p)

RemoveStep(p) ==
  \/ \E id \in Ids : Locate(p, id)
  \/ Shift(p) \/ Shifted(p) \/ CountDown(p) \/ free_interface(p)

ScanStep(s) ==
  \/ \E kind \in Kinds, want \in Ids \cup {All} : BeginScan(s, kind, want)
  \/ init_interfaces(s) \/ LoadList(s) \/ LoadCount(s)
  \/ ScanCrashes(s) \/ NextSlot(s) \/ Found(s) \/ EndOfList(s)
  \/ UseFound(s) \/ UseFreed(s) \/ Finish(s)

KeepSteady ==
  steady' = [s \in Scanners |->
               IF scan'[s].pc \in {"idle", "oops"} THEN {}
               ELSE IF scan[s].pc = "idle" THEN Listed
               ELSE steady[s] \cap Listed']

Stray(s) == More(s) /\ ~(Readable(s) /\ InSlot(s) \in live \cup {Wild})

KeepAstray ==
  astray' = {s \in Scanners : /\ scan'[s].pc # "idle"
                              /\ s \in astray \/ (Stray(s) /\ scan'[s] # scan[s])}

\* Two tasks in an ioctl, or a broadcaster that allocates the array while one
\* is; two tasks that have both read ALLOCATED_ID.
KeepRaced ==
  raced' = raced \cup
    (IF \E p \in Pids : /\ InIoctl(p)'
                       /\ \/ \E q \in Pids \ {p} : InIoctl(q)'
                          \/ \E s \in Scanners : scan'[s].pc = "null"
     THEN {"ioctls"} ELSE {}) \cup
    (IF \E p, q \in AtPc("increment")' : p # q THEN {"ids"} ELSE {})

KeepHistory == KeepSteady /\ KeepAstray /\ KeepRaced

Next ==
  /\ \/ \E p \in Pids : RegisterStep(p) \/ RemoveStep(p) \/ FollowsWild(p)
     \/ \E s \in Scanners : ScanStep(s)
  /\ KeepHistory

Spec == Init /\ [][Next]_vars

-----------------------------------------------------------------------------
\* Every variable stays in its range.
TypeOK ==
  /\ INTERFACE_LIST \in Blocks \cup {NULL}
  /\ INTERFACE_COUNT \in 0 .. MaxCount
  /\ INTERFACE_CAPACITY \in Nat
  /\ ALLOCATED_ID \in 1 .. MaxRegistrations + 1
  /\ \A b \in Blocks : slots[b] = NULL \/ slots[b] \in Seq(Ids \cup {Wild})
  /\ allocated \in 0 .. MaxRegistrations
  /\ live \subseteq 1 .. allocated
  /\ ids \in [Ids -> Ids \cup {0}]
  /\ task \in [Pids -> [pc : {"idle", "proc", "id", "increment", "grow", "capacity",
                              "krealloc", "point", "store", "slot", "count", "shift",
                              "down", "free"},
                        obj : Ids \cup {0}, i : Nat, new : Blocks \cup {NULL}]]
  /\ scan \in [Scanners -> [pc : {"idle", "null", "load", "listLoaded", "countLoaded",
                                  "scan", "found", "end", "oops"},
                            kind : Kinds, list : Blocks \cup {NULL}, count : Nat, i : Nat,
                            want : Ids \cup {All}, obj : Ids \cup {0}]]
  /\ overlapped \subseteq Scanners
  /\ steady \in [Scanners -> SUBSET Ids]
  /\ astray \subseteq Scanners
  /\ raced \subseteq {"ioctls", "ids"}

(***************************************************************************)
(* find_interface, the broadcast and proc_read do without a lock: one that *)
(* no ioctl overlaps reads no freed memory and nothing behind the end of   *)
(* an array, whatever was registered and removed before, as long as no two *)
(* ioctls have overlapped.  (When two have, a freed interface or a freed   *)
(* array may be left in the list.)  The slots that a removal of the first  *)
(* interface has made wild are the only exception.                         *)
(***************************************************************************)
StrayNeedsOverlap ==
  "ioctls" \notin raced =>
    \A s \in Scanners :
      /\ s \in astray => s \in overlapped
      /\ scan[s].pc = "oops" =>
           s \in overlapped \/ Wild \in {ListView[j] : j \in DOMAIN ListView}

(***************************************************************************)
(* A lookup finds an interface that is in the list from its beginning to   *)
(* its end, although the array grows and is shifted under it, unless it    *)
(* came upon an array that krealloc moved or an interface that was freed:  *)
(* nothing else loses a call.  Two overlapping ioctls may lose the slot.   *)
(***************************************************************************)
SteadyIsFound ==
  "ioctls" \notin raced =>
    \A s \in Scanners :
      scan[s].pc = "end" /\ scan[s].obj = 0 /\ s \notin astray =>
        scan[s].want \notin steady[s]

(***************************************************************************)
(* ALLOCATED_ID++ gives no id twice unless two tasks are inside it at the  *)
(* same time, whatever else of their ioctls overlaps and whatever it does  *)
(* to the list.                                                            *)
(***************************************************************************)
IdsUnique ==
  "ids" \notin raced =>
    \A o, x \in Ids : ids[o] = ids[x] /\ ids[o] # 0 => o = x

(***************************************************************************)
(* interface.h:82, "return :id if succeed": the id leads find_interface    *)
(* to the interface it was returned for.  (A removal takes the later ones  *)
(* with it; see Registry.)                                                 *)
(***************************************************************************)
IdLeadsToInterface ==
  ~oops /\ live = 1 .. allocated /\ Removing = {} =>
    \A o \in live \ Pending :
      \E j \in DOMAIN ListView :
        /\ ListView[j] = o
        /\ \A k \in 1 .. j - 1 : ListView[k] = Wild \/ ids[ListView[k]] # ids[o]

R == INSTANCE Registry WITH
  INTERFACE_LIST     <- ListView,
  INTERFACE_CAPACITY <-
    IF \E p \in Pids : task[p].pc = "krealloc" \/ task[p].new # NULL
    THEN INTERFACE_CAPACITY - GRADIENT ELSE INTERFACE_CAPACITY,
  ALLOCATED_ID       <-
    IF Registering = {} THEN ALLOCATED_ID ELSE allocated,
  live               <-
    live \ {task[p].obj : p \in Pids},
  bind_pid           <-
    [o \in Ids |-> IF o \in Pending THEN CHOOSE p \in Pids : TRUE ELSE bind_pid[o]],
  proc_entry         <-
    [o \in Ids |-> IF o \in Pending THEN NoEntry ELSE proc_entry[o]],
  procfs             <- procfs \ Pending

(***************************************************************************)
(* Tasks that take turns get the atomic ioctls of Registry, and no         *)
(* finder, broadcast or reader disturbs them.                              *)
(***************************************************************************)
ImplementsRegistry == R!Spec

=============================================================================
