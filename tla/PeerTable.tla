------------------------------ MODULE PeerTable ------------------------------
(***************************************************************************)
(* What the peer table of a host promises, without the array, the blocks   *)
(* of memory and the steps of an update: a bounded table from addresses to *)
(* interface lists, whose entries stay and are only ever replaced by an    *)
(* announcement that their own host has made and that is still about.      *)
(***************************************************************************)
EXTENDS Naturals, FiniteSets

CONSTANTS
  Hosts, Interfaces,
  MAX_PEERS, MAX_INTERFACES,
  NoAddr,           \* an announcement of nothing comes from nowhere
  NoList            \* the list of an entry that was added and not updated

Announcements == [from : Hosts \cup {NoAddr}, ids : SUBSET Interfaces]

VARIABLES
  registry,         \* what each host has registered
  offers,           \* announcements that may still be taken
  table             \* address -> list

vars == <<registry, offers, table>>

Init ==
  /\ registry = [h \in Hosts |-> {}]
  /\ offers = {[from |-> NoAddr, ids |-> {}]}
  /\ table = [h \in {} |-> NoList]

Change(h) ==
  /\ \E ids \in SUBSET Interfaces : registry' = [registry EXCEPT ![h] = ids]
  /\ UNCHANGED <<offers, table>>

Announce(h) ==
  /\ offers' = offers \cup {[from |-> h, ids |-> registry[h]]}
  /\ UNCHANGED <<registry, table>>

Lose(p) ==
  /\ offers' = offers \ {p}
  /\ UNCHANGED <<registry, table>>

Acceptable(p) == Cardinality(p.ids) <= MAX_INTERFACES

\* Of the first announcement only the address is kept.
Add(p) ==
  /\ Acceptable(p) /\ p.from \notin DOMAIN table
  /\ Cardinality(DOMAIN table) < MAX_PEERS
  /\ table' = [a \in DOMAIN table \cup {p.from} |->
                 IF a = p.from THEN NoList ELSE table[a]]
  /\ UNCHANGED <<registry, offers>>

Update(p) ==
  /\ Acceptable(p) /\ p.from \in DOMAIN table
  /\ table' = [table EXCEPT ![p.from] = p.ids]
  /\ UNCHANGED <<registry, offers>>

Next ==
  \/ \E h \in Hosts : Change(h) \/ Announce(h)
  \/ \E p \in offers : Lose(p) \/ Add(p) \/ Update(p)

Spec == Init /\ [][Next]_vars

=============================================================================
