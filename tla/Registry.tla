------------------------------ MODULE Registry ------------------------------
(***************************************************************************)
(* The interface registry of one host's kernel module: the global array    *)
(* INTERFACE_LIST of module/interface.c with its counters, the interfaces  *)
(* it points to, and the /proc/dist_comm entries of module/proc.c.         *)
(*                                                                         *)
(* Every ioctl is one atomic step here: this is what callers that take     *)
(* turns get.  The code takes no lock.                                     *)
(*                                                                         *)
(* An interface is named by the id it is given, which is also the order of *)
(* its allocation.  The model's sequences start at 1, the C array at 0.    *)
(***************************************************************************)
EXTENDS Naturals, Sequences

CONSTANTS
  Pids,              \* tasks that register interfaces (current->pid)
  GRADIENT,          \* slots added when the array is full (interface.h)
  MaxRegistrations   \* bound on the number of registrations

ASSUME RegistryAssumption ==
  /\ Pids # {}
  /\ GRADIENT \in Nat \ {0}
  /\ MaxRegistrations \in Nat

Ids == 1 .. MaxRegistrations

\* What a slot holds after a read of INTERFACE_LIST[-1]; also "no entry".
Wild == 0
NoEntry == 0

VARIABLES
  INTERFACE_LIST,      \* the slots below INTERFACE_COUNT
  INTERFACE_CAPACITY,  \* slots allocated
  ALLOCATED_ID,        \* the next id
  live,                \* interfaces allocated and not freed
  bind_pid,            \* ctrl->bind_pid of each interface
  proc_entry,          \* ctrl->proc_entry: an entry is named by its creator
  procfs,              \* the entries that exist under /proc/dist_comm
  oops                 \* a bad pointer was used: nothing is known after it

vars == <<INTERFACE_LIST, INTERFACE_CAPACITY, ALLOCATED_ID, live, bind_pid,
          proc_entry, procfs, oops>>

INTERFACE_COUNT == Len(INTERFACE_LIST)

Init ==
  /\ INTERFACE_LIST = <<>>
  /\ INTERFACE_CAPACITY = 0
  /\ ALLOCATED_ID = 1
  /\ live = {}
  /\ bind_pid = [id \in Ids |-> CHOOSE p \in Pids : TRUE]
  /\ proc_entry = [id \in Ids |-> NoEntry]
  /\ procfs = {}
  /\ oops = FALSE

(***************************************************************************)
(* The slot at which the code's scans stop: the first one whose interface  *)
(* is wanted.  A wild slot is never wanted; see WildRead.                  *)
(***************************************************************************)
IsFirstSlot(k, wanted) ==
  /\ k \in 1 .. INTERFACE_COUNT
  /\ INTERFACE_LIST[k] \in wanted
  /\ \A j \in 1 .. k - 1 : INTERFACE_LIST[j] \notin wanted

\* Mutant: every interface is taken for one of the same pid.
BoundToAny(p) == Ids

BoundTo(p) == {x \in Ids : bind_pid[x] = p}

\* The ids a scan of the array can still find.
Listed == {INTERFACE_LIST[k] : k \in 1 .. INTERFACE_COUNT} \ {Wild}

(***************************************************************************)
(* add_interface_to_proc: share the entry of the first listed interface of *)
(* the same pid, or create one.  Creation may fail; the caller ignores it. *)
(***************************************************************************)
add_interface_to_proc(id, p) ==
  \/ \E k \in 1 .. INTERFACE_COUNT :
       /\ IsFirstSlot(k, BoundTo(p))
       /\ proc_entry' = [proc_entry EXCEPT ![id] = proc_entry[INTERFACE_LIST[k]]]
       /\ UNCHANGED procfs
  \/ /\ Listed \cap BoundTo(p) = {}
     /\ \/ /\ proc_entry' = [proc_entry EXCEPT ![id] = id]
           /\ procfs' = procfs \cup {id}
        \/ /\ proc_entry' = [proc_entry EXCEPT ![id] = NoEntry]
           /\ UNCHANGED procfs

\* Mutant: the array grows one registration late.
GrownLate ==
  IF INTERFACE_CAPACITY < INTERFACE_COUNT
  THEN INTERFACE_CAPACITY + GRADIENT
  ELSE INTERFACE_CAPACITY

GrownCapacity ==
  IF INTERFACE_CAPACITY < INTERFACE_COUNT + 1
  THEN INTERFACE_CAPACITY + GRADIENT
  ELSE INTERFACE_CAPACITY

\* Mutant: the id of a freed interface is given out again.
ReusedId ==
  CHOOSE i \in 1 .. ALLOCATED_ID :
    i \notin live /\ \A j \in 1 .. i - 1 : j \in live

NewId == ALLOCATED_ID

register_interface(p) ==
  LET id == NewId IN
  /\ ~oops /\ id \in Ids
  /\ live' = live \cup {id}
  /\ bind_pid' = [bind_pid EXCEPT ![id] = p]
  /\ add_interface_to_proc(id, p)
  /\ ALLOCATED_ID' = id + 1
  /\ INTERFACE_CAPACITY' = GrownCapacity
  /\ INTERFACE_LIST' = Append(INTERFACE_LIST, id)
  /\ UNCHANGED oops

\* kzalloc or krealloc returns NULL: the result is used unchecked.
RegisterOutOfMemory ==
  /\ ~oops /\ ALLOCATED_ID \in Ids
  /\ oops' = TRUE
  /\ UNCHANGED <<INTERFACE_LIST, INTERFACE_CAPACITY, ALLOCATED_ID, live,
                 bind_pid, proc_entry, procfs>>

(***************************************************************************)
(* The loop of remove_interface copies slot i - 1 into slot i, for i from  *)
(* the removed slot k up: every later slot gets the pointer before k, and  *)
(* whatever precedes the array when k is the first.                        *)
(***************************************************************************)
BeforeSlot(k) == IF k = 1 THEN Wild ELSE INTERFACE_LIST[k - 1]

\* Mutant: the loop starts one slot late.
ShiftedLate(k) ==
  [i \in 1 .. INTERFACE_COUNT - 1 |->
     IF i <= k THEN INTERFACE_LIST[i] ELSE BeforeSlot(k)]

\* Mutant: every later slot moves down by one.
ShiftedDown(k) ==
  [i \in 1 .. INTERFACE_COUNT - 1 |->
     IF i < k THEN INTERFACE_LIST[i] ELSE INTERFACE_LIST[i + 1]]

ShiftedList(k) ==
  [i \in 1 .. INTERFACE_COUNT - 1 |->
     IF i < k THEN INTERFACE_LIST[i] ELSE BeforeSlot(k)]

\* An id that is not found is refused with -1: nothing changes.
remove_interface(id) ==
  /\ ~oops
  /\ \E k \in 1 .. INTERFACE_COUNT :
       /\ IsFirstSlot(k, {id})
       /\ INTERFACE_LIST' = ShiftedList(k)
  /\ live' = live \ {id}
  /\ UNCHANGED <<INTERFACE_CAPACITY, ALLOCATED_ID, bind_pid, proc_entry,
                 procfs, oops>>

\* Any scan (find_interface, the broadcast, proc_read, the two above) that
\* reaches a wild slot follows it.
WildRead ==
  /\ ~oops
  /\ \E k \in 1 .. INTERFACE_COUNT : INTERFACE_LIST[k] = Wild
  /\ oops' = TRUE
  /\ UNCHANGED <<INTERFACE_LIST, INTERFACE_CAPACITY, ALLOCATED_ID, live,
                 bind_pid, proc_entry, procfs>>

Next ==
  \/ \E p \in Pids : register_interface(p)
  \/ \E id \in Ids : remove_interface(id)
  \/ RegisterOutOfMemory
  \/ WildRead

Spec == Init /\ [][Next]_vars

-----------------------------------------------------------------------------
\* Every variable stays in its range; no id above ALLOCATED_ID is in use.
TypeOK ==
  /\ INTERFACE_LIST \in Seq(Ids \cup {Wild})
  /\ INTERFACE_CAPACITY \in Nat
  /\ ALLOCATED_ID \in 1 .. MaxRegistrations + 1
  /\ live \in SUBSET (1 .. ALLOCATED_ID - 1)
  /\ bind_pid \in [Ids -> Pids]
  /\ proc_entry \in [Ids -> Ids \cup {NoEntry}]
  /\ procfs \in SUBSET (1 .. ALLOCATED_ID - 1)
  /\ oops \in BOOLEAN

(***************************************************************************)
(* free_interface runs while the array still holds the shifted pointers:   *)
(* an interface that was freed is nevertheless in no slot, whatever was    *)
(* removed before, so no scan ever reads freed memory.                     *)
(***************************************************************************)
FreedNeverListed == Listed \subseteq live

\* INTERFACE_LIST[INTERFACE_COUNT++] never writes past the end of the array.
WithinCapacity == INTERFACE_COUNT <= INTERFACE_CAPACITY

(***************************************************************************)
(* What remove_interface(id) does to the registry: of the interfaces that  *)
(* could be found, those with a smaller id can still be found, and no      *)
(* other one.                                                              *)
(***************************************************************************)
RemoveTruncates ==
  [][\A id \in live \ live' : Listed' = {x \in Listed : x < id}]_vars

(***************************************************************************)
(* An id that no scan can find any more, because it was removed or because *)
(* an earlier one was, is never found again: no later registration gets    *)
(* its id and no shift brings its pointer back.                            *)
(***************************************************************************)
NeverRelisted ==
  [][\A id \in 1 .. ALLOCATED_ID - 1 : id \notin Listed => id \notin Listed']_vars

(***************************************************************************)
(* /proc/dist_comm/<pid>, read by proc_read: all the listed interfaces of  *)
(* a pid have the same entry, and it exists and carries that pid, unless   *)
(* its creation failed.                                                    *)
(***************************************************************************)
ProcEntriesByPid ==
  \A x \in Listed :
    /\ \A y \in Listed : bind_pid[x] = bind_pid[y] => proc_entry[x] = proc_entry[y]
    /\ proc_entry[x] # NoEntry =>
         proc_entry[x] \in procfs /\ bind_pid[proc_entry[x]] = bind_pid[x]

(***************************************************************************)
(* interface.h:86, "Remove a interface": the other interfaces remain.      *)
(***************************************************************************)
RemoveKeepsOthers ==
  [][\A id \in live \ live' : Listed' = Listed \ {id}]_vars

=============================================================================
