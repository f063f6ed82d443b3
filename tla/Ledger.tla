------------------------------- MODULE Ledger -------------------------------
(***************************************************************************)
(* What merkel_order and the "accepted" replies of src/transactions amount *)
(* to, however handlers overlap: an append-only log in which an entry is   *)
(* numbered one above the largest number that some earlier reader of the   *)
(* log saw, and acceptances of what is in the log.  Numbers may repeat,    *)
(* but none is ever left out, and without late readers they are places.    *)
(***************************************************************************)
EXTENDS Naturals, Sequences

CONSTANTS Agents, Ids

VARIABLES
  log,        \* the entries, in order
  accepted    \* the transactions the controller was told are accepted

Init == log = <<>> /\ accepted = {}

\* The numbers a reader finds who sees the first k entries.
Seen(k) == {0} \cup {log[i].order : i \in 1..k}

Enter(agent, id) ==
  /\ \E k \in 0..Len(log) : \E top \in Seen(k) :
       /\ \A n \in Seen(k) : n <= top
       /\ log' = Append(log, [agent |-> agent, tx |-> id, order |-> top + 1])
  /\ UNCHANGED accepted

Accept(agent, id) ==
  /\ \E i \in DOMAIN log : log[i].agent = agent /\ log[i].tx = id
  /\ accepted' = accepted \cup {[agent |-> agent, tx |-> id]}
  /\ UNCHANGED log

Next == \E agent \in Agents, id \in Ids : Enter(agent, id) \/ Accept(agent, id)

Spec == Init /\ [][Next]_<<log, accepted>>
=============================================================================
