------------------------------- MODULE Packets -------------------------------
(***************************************************************************)
(* The packets of module/packet.c and lib/src/packet.c: one is written     *)
(* field by field into a buffer that grows, gets to the memory of its      *)
(* receiver, and is read back.                                             *)
(*                                                                         *)
(*   "list"    serialize_interfaces_packet, for the broadcast: read from   *)
(*             the one buffer of the discovery thread                      *)
(*   "call"    serialize_rpc_packet, a request over TCP                    *)
(*   "result"  serialize_rpc_packet of the library, an answer: the kernel  *)
(*             takes the length of the netlink header for a part of the    *)
(*             body (interface.c:98), so that more follows the packet      *)
(*   "info"    serialize_interface_info; only fetch_interface_info writes  *)
(*             one                                                         *)
(*                                                                         *)
(* Memory is a sequence of cells; a number takes one, a flag or a          *)
(* character too, and no number is cut in two.                             *)
(***************************************************************************)
EXTENDS Naturals, Sequences, SequencesExt

CONSTANTS
  Messages,          \* what is sent: a kind and a Content
  BUFFER_INC_SIZE,   \* first size and growth of a buffer
  MAX_INTERFACES,    \* interfaces accepted in a list
  MAX_BUFFER_SIZE,   \* of the discovery thread, and for descriptions
  Leftovers,         \* what an earlier packet left in it
  Suffix,            \* what follows the body of a result
  NULL, Unset        \* Unset: a return value that the callback did not set

Cells == Seq(Nat)
Text  == Seq(Nat \ {0})

\* An interface as it is listed, and a name with a description.  Flags that
\* could not be allocated are NULL.
Entry == [id : Nat, arg_flags : Cells \cup {NULL}, ret_flags : Cells \cup {NULL}]
Attr  == [name : Text, description : Text]

Content(kind) ==
  CASE kind = "list" -> Seq(Entry \cup {NULL})
    [] kind \in {"call", "result"} -> [id : Nat, values : Seq(Cells \cup {Unset})]
    [] kind = "info" -> [id : Nat, own : Attr, args : Seq(Attr), rets : Seq(Attr)]

ASSUME PacketsAssumption ==
  /\ \A m \in Messages :
       m.kind \in {"list", "call", "result", "info"} /\ m.content \in Content(m.kind)
  /\ BUFFER_INC_SIZE \in Nat \ {0} /\ MAX_INTERFACES \in Nat /\ MAX_BUFFER_SIZE \in Nat
  /\ Leftovers \subseteq Cells /\ Suffix \in Cells
  /\ Unset \notin Cells

VARIABLES
  message,   \* what is sent
  todo,      \* the fields still to be copied
  buf, max,  \* the sender's buffer and its size
  phase,     \* where the message is
  arrived,   \* how much of it has arrived
  memory,    \* the receiver's buffer
  at,        \* where it reads next
  left,      \* how many items it still expects
  out        \* those it has read

senderVars == <<message, todo, buf, max>>
vars == <<senderVars, phase, arrived, memory, at, left, out>>

-----------------------------------------------------------------------------
(* The sender.                                                             *)

\* Mutant: the return values are described first.
EntryFieldsSwapped(e) ==
  IF e = NULL \/ e.arg_flags = NULL \/ e.ret_flags = NULL THEN <<>>
  ELSE << <<e.id>>, <<Len(e.ret_flags)>>, e.ret_flags, <<Len(e.arg_flags)>>, e.arg_flags >>

Counted(cells) == << <<Len(cells)>>, cells >>

\* What is skipped has been counted, and the rest of an entry may be skipped.
EntryFields(e) ==
  IF e = NULL THEN <<>>
  ELSE << <<e.id>> >> \o
       IF e.arg_flags = NULL THEN <<>>
       ELSE Counted(e.arg_flags) \o IF e.ret_flags = NULL THEN <<>> ELSE Counted(e.ret_flags)

ListFields(list) ==
  << <<Len(list)>> >> \o FlattenSeq([k \in DOMAIN list |-> EntryFields(list[k])])

\* Mutant: nothing stands for an empty value.
ValueFieldsIfAny(v) ==
  IF v = Unset THEN <<Unset>> ELSE IF v = <<>> THEN <<>> ELSE Counted(v)

\* An unset value is NULL, 2^32 - 1 long.
ValueFields(v) ==
  IF v = Unset THEN <<Unset>> ELSE IF v = <<>> THEN << <<0>> >> ELSE Counted(v)

RpcFields(rpc) ==
  << <<rpc.id>>, <<Len(rpc.values)>> >>
    \o FlattenSeq([k \in DOMAIN rpc.values |-> ValueFields(rpc.values[k])])

\* Mutant: strings without their terminator.
Unterminated(text) == text

String(text) == Append(text, 0)

\* Past the end of the descriptions, a wild pointer is followed.
AttrFields(attrs, n) ==
  FlattenSeq([k \in 1 .. n |->
    IF k \in DOMAIN attrs THEN <<String(attrs[k].name), String(attrs[k].description)>>
                          ELSE <<Unset>>])

\* As many return values as there are arguments are described.
InfoFields(i) ==
  << <<i.id>>, String(i.own.name), String(i.own.description), <<Len(i.args)>> >>
    \o AttrFields(i.args, Len(i.args))
    \o << <<Len(i.rets)>> >> \o AttrFields(i.rets, Len(i.args))

Fields(m) ==
  CASE m.kind = "list" -> ListFields(m.content)
    [] m.kind \in {"call", "result"} -> RpcFields(m.content)
    [] m.kind = "info" -> InfoFields(m.content)

Init ==
  /\ message \in Messages
  /\ todo = Fields(message)
  /\ buf = <<>> /\ max = BUFFER_INC_SIZE
  /\ phase = "write"
  /\ arrived = 0 /\ memory = <<>> /\ at = 1 /\ left = 0 /\ out = <<>>

\* Mutant: the buffer grows once it is full.
GrownWhenFull(size) == IF Len(buf) >= max THEN max + BUFFER_INC_SIZE ELSE max

\* The buffer grows once, whatever has to be copied.
Grown(size) == IF Len(buf) + size > max THEN max + BUFFER_INC_SIZE ELSE max

copy_to_buffer ==
  /\ phase = "write" /\ todo # <<>> /\ Head(todo) # Unset
  /\ max' = Grown(Len(Head(todo)))
  /\ \/ /\ Len(buf) + Len(Head(todo)) <= max'
        /\ buf' = buf \o Head(todo) /\ todo' = Tail(todo)
        /\ UNCHANGED phase
     \/ /\ Len(buf) + Len(Head(todo)) > max'
        /\ phase' = "overrun"
        /\ UNCHANGED <<buf, todo>>
  /\ UNCHANGED <<message, arrived, memory, at, left, out>>

\* The copy follows a pointer that was never set.
CopyUnset ==
  /\ phase = "write" /\ todo # <<>> /\ Head(todo) = Unset
  /\ phase' = "overrun"
  /\ UNCHANGED <<senderVars, arrived, memory, at, left, out>>

-----------------------------------------------------------------------------
(* On the way.                                                             *)

Padded(cells, size) == cells \o [k \in 1 .. size - Len(cells) |-> 0]

\* sock_recvfrom overwrites the beginning of the buffer.
Over(cells, old) == cells \o SubSeq(old, Len(cells) + 1, Len(old))

Arrives(kinds, n, cells) ==
  /\ phase = "write" /\ todo = <<>> /\ message.kind \in kinds
  /\ phase' = "read"
  /\ arrived' = n /\ memory' = cells
  /\ UNCHANGED <<senderVars, at, left, out>>

\* A broadcast that is too large for one datagram is not sent.
ReceiveBroadcast ==
  /\ Len(buf) <= MAX_BUFFER_SIZE
  /\ \E old \in Leftovers :
       Arrives({"list"}, Len(buf), Padded(Over(buf, old), MAX_BUFFER_SIZE))

Body == IF message.kind = "result" THEN buf \o Suffix ELSE buf

\* Mutant: the buffer is as large as what has arrived.
ReceiveTight ==
  \E n \in 2 .. Len(Body) : Arrives({"call", "result"}, n, SubSeq(Body, 1, n))

\* A zeroed buffer of the length that was sent first; one receive fills the
\* beginning of it.
ReceivePacket ==
  \E n \in 1 .. Len(Body) :
    Arrives({"call", "result"}, n, Padded(SubSeq(Body, 1, n), Len(Body)))

\* What does not fit stays in the socket.
ReceiveInfo ==
  \E n \in 1 .. Len(buf) :
    /\ n <= MAX_BUFFER_SIZE
    /\ Arrives({"info"}, n, Padded(SubSeq(buf, 1, n), MAX_BUFFER_SIZE))

-----------------------------------------------------------------------------
(* The receiver.                                                           *)

Goes(to) ==
  /\ phase' = to
  /\ UNCHANGED <<senderVars, arrived, memory, at, left, out>>

Expect(to, n, k) ==
  /\ phase' = to /\ left' = n /\ at' = k
  /\ UNCHANGED <<senderVars, arrived, memory, out>>

\* An item ends before k.
Take(item, k) ==
  /\ out' = Append(out, item) /\ at' = k /\ left' = left - 1
  /\ UNCHANGED <<senderVars, phase, arrived, memory>>

ReadListHead ==
  /\ phase = "read" /\ message.kind = "list"
  /\ IF memory[1] > MAX_INTERFACES THEN Goes("refused") ELSE Expect("entries", memory[1], 2)

\* The id is not stored by the receiver of a result.
ReadRpcHead ==
  /\ phase = "read" /\ message.kind \in {"call", "result"}
  /\ Expect("values", memory[2], 3)

\* The length at k and the cells that it counts lie inside, and end before e.
Inside(k, e) == k <= Len(memory) /\ e = k + 1 + memory[k] /\ e <= Len(memory) + 1

Data(k) == SubSeq(memory, k + 1, k + memory[k])

Ends == 1 .. Len(memory) + 1

IsEntry(d, e) == Inside(at + 1, d) /\ Inside(d, e)

ReadEntry ==
  /\ phase = "entries" /\ left > 0
  /\ \E d, e \in Ends :
       /\ IsEntry(d, e)
       /\ Take([id |-> memory[at], arg_flags |-> Data(at + 1), ret_flags |-> Data(d)], e)

\* Mutant: the loop runs once more.
ReadValueMore ==
  /\ phase = "values"
  /\ \E e \in Ends : Inside(at, e) /\ Take(Data(at), e)

\* The address of an empty value stays NULL; in the library, as it was.
ReadValue ==
  /\ phase = "values" /\ left > 0
  /\ \E e \in Ends : Inside(at, e) /\ Take(Data(at), e)

\* dup_str: the string at k ends with the first zero, before e.
IsString(k, e) ==
  /\ e > k /\ memory[e - 1] = 0
  /\ \A j \in k .. e - 2 : memory[j] # 0

TextAt(k, e) == SubSeq(memory, k, e - 2)

IsAttr(d, e) == IsString(at, d) /\ IsString(d, e)

ReadAttr ==
  /\ phase \in {"own", "args", "rets"} /\ left > 0
  /\ \E d, e \in Ends :
       IsAttr(d, e) /\ Take([name |-> TextAt(at, d), description |-> TextAt(d, e)], e)

ReadInfoHead ==
  /\ phase = "read" /\ message.kind = "info"
  /\ Expect("own", 1, 2)

ReadInfoCount ==
  \E step \in {<<"own", "args">>, <<"args", "rets">>} :
    /\ phase = step[1] /\ left = 0 /\ at \in DOMAIN memory
    /\ Expect(step[2], memory[at], at + 1)

ItemFits ==
  CASE phase = "entries" -> \E d, e \in Ends : IsEntry(d, e)
    [] phase = "values"  -> \E e \in Ends : Inside(at, e)
    [] OTHER             -> \E d, e \in Ends : IsAttr(d, e)

\* No length that is read is compared with that of the packet.
ReadOutside ==
  /\ phase \in {"entries", "values", "own", "args", "rets"}
  /\ IF left > 0 THEN ~ItemFits ELSE phase \in {"own", "args"} /\ at \notin DOMAIN memory
  /\ Goes("outside")

Return ==
  /\ phase \in {"entries", "values", "rets"} /\ left = 0
  /\ Goes("done")

-----------------------------------------------------------------------------
Next ==
  \/ copy_to_buffer \/ CopyUnset
  \/ ReceiveBroadcast \/ ReceivePacket \/ ReceiveInfo
  \/ ReadListHead \/ ReadRpcHead \/ ReadInfoHead
  \/ ReadEntry \/ ReadValue \/ ReadAttr \/ ReadInfoCount \/ ReadOutside \/ Return

Spec == Init /\ [][Next]_vars

-----------------------------------------------------------------------------
IsRpc == message.kind \in {"call", "result"}

\* Every variable stays in its range.
TypeOK ==
  /\ message \in Messages
  /\ todo \in Seq(Cells \cup {Unset})
  /\ buf \in Cells /\ max \in Nat
  /\ phase \in {"write", "overrun", "read", "refused", "entries", "values", "own", "args",
                "rets", "outside", "done"}
  /\ arrived \in 0 .. Len(Body)
  /\ memory \in Cells /\ at \in Nat /\ left \in Nat
  /\ out \in Seq(CASE message.kind = "list" -> Entry [] IsRpc -> Cells [] OTHER -> Attr)

(***************************************************************************)
(* copy_to_buffer (packet.c:7-14) grows the buffer by one step only.  That *)
(* is enough, wherever in the packet the buffer fills up, unless a single  *)
(* field is larger than the step or was never set.                         *)
(***************************************************************************)
OverrunNeedsBigField ==
  /\ Len(buf) <= max
  /\ phase = "overrun" => Head(todo) = Unset \/ Len(Head(todo)) > BUFFER_INC_SIZE

(***************************************************************************)
(* A call or a result that has arrived as a whole is read back as it was   *)
(* written, although the receiver is not told where it ends and the kernel *)
(* sends more than the packet for a result.                                *)
(***************************************************************************)
RpcRoundTrip ==
  IsRpc /\ arrived >= Len(buf) /\ phase \in {"done", "outside"} =>
    phase = "done" /\ out = message.content.values

(***************************************************************************)
(* handle_connection and execute_remote_interface take one receive for the *)
(* whole packet.  What is missing reads as zeros, and is never looked for  *)
(* outside the buffer: the values that did not arrive come out as empty or *)
(* ending in zeros, and those before them as they were.                    *)
(***************************************************************************)
ShortReadStaysInside ==
  IsRpc =>
    /\ phase # "outside"
    /\ \A k \in DOMAIN out :
         LET sent == message.content.values[k] IN
         \/ out[k] = sent /\ \A j \in 1 .. k - 1 : out[j] = message.content.values[j]
         \/ out[k] = <<>>
         \/ /\ Len(out[k]) = Len(sent)
            /\ \E n \in 0 .. Len(sent) : out[k] = Padded(SubSeq(sent, 1, n), Len(sent))

Complete(e) == e # NULL /\ e.arg_flags # NULL /\ e.ret_flags # NULL

(***************************************************************************)
(* The entries of a list are read back as they were written up to the      *)
(* first that was skipped, although the buffer may hold a longer packet    *)
(* from before, and the reader leaves the buffer only if one was skipped.  *)
(* A list is refused as a whole, and only for its count.                   *)
(***************************************************************************)
ListRoundTrip ==
  LET list == message.content
      CompleteTo(k) == \A j \in 1 .. k : Complete(list[j])
  IN
  message.kind = "list" =>
    /\ \A k \in DOMAIN out : CompleteTo(k) => out[k] = list[k]
    /\ phase = "refused" <=>
         Len(list) > MAX_INTERFACES /\ phase \notin {"write", "overrun", "read"}
    /\ phase = "done" => Len(out) = Len(list)
    /\ phase = "outside" => ~CompleteTo(Len(list))

(***************************************************************************)
(* A description that has arrived as a whole is read back as it was        *)
(* written, if the interface has as many arguments as return values        *)
(* (packet.c:154 counts the arguments twice); a wild pointer is copied     *)
(* only if it has more arguments.                                          *)
(***************************************************************************)
InfoRoundTrip ==
  LET i == message.content IN
  message.kind = "info" =>
    /\ phase \in {"done", "outside"} /\ arrived >= Len(buf) /\ Len(i.args) = Len(i.rets) =>
         phase = "done" /\ out = <<i.own>> \o i.args \o i.rets
    /\ phase = "overrun" /\ Head(todo) = Unset => Len(i.args) > Len(i.rets)

=============================================================================
