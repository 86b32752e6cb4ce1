------------------------------ MODULE MCPackets ------------------------------
(* Instances of Packets for TLC: every list of up to three entries out of   *)
(* six, every call and result with up to two values, and every              *)
(* description with up to two arguments and return values.                  *)
EXTENDS Packets

UpTo(n, S) == UNION {[1 .. k -> S] : k \in 0 .. n}

E(id, a, r) == [id |-> id, arg_flags |-> a, ret_flags |-> r]

\* The largest flags, value and description are larger than BUFFER_INC_SIZE.
MCEntries ==
  {E(1, <<>>, <<1>>), E(2, <<0, 1>>, <<>>), E(6, <<1>>, <<1, 0, 1, 1, 0>>),
   NULL, E(3, NULL, <<1>>), E(4, <<1>>, NULL)}

MCValues == {<<>>, <<5>>, <<7, 0>>, <<1, 2, 3, 4, 5>>}

MCOwn == [name : {<<5>>}, description : {<<>>, <<5, 6, 7, 8, 9>>}]

MCAttrs == {[name |-> <<>>, description |-> <<3>>], [name |-> <<3, 4>>, description |-> <<>>]}

MCMessages ==
  [kind : {"list"}, content : UpTo(3, MCEntries)]
    \cup [kind : {"call"}, content : [id : {1}, values : UpTo(2, MCValues)]]
    \cup [kind : {"result"}, content : [id : {1}, values : UpTo(2, MCValues \cup {Unset})]]
    \cup [kind : {"info"}, content : [id : {1}, own : MCOwn, args : UpTo(2, MCAttrs),
                                     rets : UpTo(2, MCAttrs)]]

\* Nothing, or a list of two interfaces, one with an id that is larger than the buffer.
MCLeftovers ==
  {<<>>, FlattenSeq(ListFields(<<E(5, <<1, 1>>, <<1, 1>>), E(40, <<1>>, <<1, 1, 1>>)>>))}

MCSuffix == <<9, 9>>
=============================================================================
