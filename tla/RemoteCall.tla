----------------------------- MODULE RemoteCall -----------------------------
(***************************************************************************)
(* What a remote call promises its caller: the interface is executed at    *)
(* most once, and the answer is the one that this execution produced.  A   *)
(* call that cannot reach the peer is rejected; one that reached it is     *)
(* answered or, when the peer fails, stays open.                           *)
(*                                                                         *)
(* Calls of one interface that are not made one after the other disturb    *)
(* it: from then on the answer may be that of any execution of the         *)
(* interface that answered nobody else, or none.  Other interfaces keep    *)
(* the promise.                                                            *)
(*                                                                         *)
(* The result of a call is represented by the call that produced it.       *)
(***************************************************************************)
EXTENDS Naturals

CONSTANTS
  Calls, Interfaces, Wants,  \* the interface each call executes
  MayCut,                    \* calls whose answer can arrive incomplete
  NULL, Garbage

VARIABLES
  called,    \* calls that reached the peer
  executed,  \* how often the callback was run for each call
  done,      \* calls whose ioctl is over
  answer,    \* what the caller of each call was given
  disturbed  \* interfaces whose calls have met

vars == <<called, executed, done, answer, disturbed>>

Init ==
  /\ called = {}
  /\ executed = [c \in Calls |-> 0]
  /\ done = {}
  /\ answer = [c \in Calls |-> NULL]
  /\ disturbed = {}

Disturbed(c) == Wants[c] \in disturbed

Disturb(c) == disturbed' = disturbed \cup {Wants[c]}

\* No call of its interface is open.
Alone(c) == \A o \in called \ done : Wants[o] # Wants[c]

Call(c) ==
  /\ c \notin called \cup done
  /\ called' = called \cup {c}
  /\ Disturb(c) \/ (Alone(c) /\ UNCHANGED disturbed)
  /\ UNCHANGED <<executed, done, answer>>

Reject(c) ==
  /\ c \notin called \cup done
  /\ done' = done \cup {c}
  /\ UNCHANGED <<called, executed, answer, disturbed>>

Execute(c) ==
  /\ c \in called /\ executed[c] = 0
  /\ c \in done => Disturbed(c)
  /\ executed' = [executed EXCEPT ![c] = 1]
  /\ UNCHANGED <<called, done, answer, disturbed>>

\* What a call of a disturbed interface may be answered with.
Stray(c) ==
  {a \in Calls : /\ Wants[a] = Wants[c] /\ executed[a] > 0
                 /\ \A o \in Calls : answer[o] # a} \cup {NULL, Garbage}

Answers(c) ==
  IF Disturbed(c) THEN Stray(c)
  ELSE {a \in {c} : executed[c] > 0} \cup (IF c \in MayCut THEN {NULL, Garbage} ELSE {})

Answer(c) ==
  /\ c \in called \ done
  /\ \E a \in Answers(c) : answer' = [answer EXCEPT ![c] = a]
  /\ done' = done \cup {c}
  /\ UNCHANGED <<called, executed, disturbed>>

\* The caller gives up, now or after one more try; what is under way may meet
\* the next call.
Interrupt(c) ==
  /\ c \in called \ done
  /\ Disturb(c)
  /\ \/ UNCHANGED <<done, answer>>
     \/ /\ done' = done \cup {c}
        /\ \/ UNCHANGED answer
           \/ \E a \in {NULL, Garbage} : answer' = [answer EXCEPT ![c] = a]
  /\ UNCHANGED <<called, executed>>

Next ==
  \E c \in Calls : Call(c) \/ Reject(c) \/ Execute(c) \/ Answer(c) \/ Interrupt(c)

Spec == Init /\ [][Next]_vars

=============================================================================
