--------------------------- MODULE MCTransactions ---------------------------
(* Instances of Transactions for TLC. *)
EXTENDS Transactions, TLC

CONSTANTS a1, a2   \* two agents

Symmetry == Permutations(Workers)

Tx(agent, id) ==
  [agent |-> agent, type |-> "credit_transaction", state |-> "started", id |-> id]
Rep(agent, id) ==
  [agent |-> agent, type |-> "transaction_request", state |-> "started", id |-> id]

\* Transactions and reports of two agents, and messages that ask for nothing.
Mixed ==
  {Tx(a1, 1), Tx(a2, 2), Tx(a1, 3), Rep(a1, 4),
   [Tx(a1, 1) EXCEPT !.state = "completed"],
   [agent |-> a2, type |-> "grant", state |-> "completed", id |-> 5]}

\* Two transactions, and a report that covers one of them.
Few == {Tx(a1, 1), Tx(a2, 2), Rep(a1, 4)}

OnlyTransactions == {Tx(a1, 1), Tx(a2, 2), Tx(a1, 3)}
=============================================================================
