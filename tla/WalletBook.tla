----------------------------- MODULE WalletBook -----------------------------
(***************************************************************************)
(* What callers of src/multitenant may count on, whatever is cached: a     *)
(* book of wallets by name.  A create may make the wallet of a free name,  *)
(* and is answered with a wallet of its own name and key or not at all; a  *)
(* remove strikes out the wallet of its own name, for its own key only,    *)
(* and is answered well only if it did.                                    *)
(***************************************************************************)
EXTENDS Naturals, Sequences

CONSTANTS Names, Keys, Calls, None

VARIABLES
  made,   \* every wallet there ever was, by its id
  book,   \* name -> the id of its wallet, or None
  calls   \* slot -> its latest call and how it ended

bookVars == <<made, book, calls>>

NoCall == [op |-> "none", name |-> None, key |-> None, at |-> "idle", id |-> None]

Init ==
  /\ made = <<>>
  /\ book = [n \in Names |-> None]
  /\ calls = [c \in Calls |-> NoCall]

Open(c, op) == calls[c].op = op /\ calls[c].at = "open"

Answer(c, at, id) ==
  calls' = [calls EXCEPT ![c] =
    [op |-> calls[c].op, name |-> calls[c].name, key |-> calls[c].key, at |-> at, id |-> id]]

Ask(c) ==
  /\ calls[c].at # "open"
  /\ \E op \in {"create", "remove"}, name \in Names, key \in Keys :
       calls' = [calls EXCEPT ![c] =
         [op |-> op, name |-> name, key |-> key, at |-> "open", id |-> None]]
  /\ UNCHANGED <<made, book>>

\* A call that makes a wallet may fail all the same.
Make(c) ==
  /\ Open(c, "create")
  /\ book[calls[c].name] = None
  /\ made' = Append(made, [name |-> calls[c].name, key |-> calls[c].key])
  /\ book' = [book EXCEPT ![calls[c].name] = Len(made) + 1]
  /\ UNCHANGED calls \/ Answer(c, "failed", None)

Give(c) ==
  /\ Open(c, "create")
  /\ \E id \in DOMAIN made :
       made[id] = [name |-> calls[c].name, key |-> calls[c].key] /\ Answer(c, "done", id)
  /\ UNCHANGED <<made, book>>

Strike(c) ==
  /\ Open(c, "remove")
  /\ book[calls[c].name] # None
  /\ made[book[calls[c].name]].key = calls[c].key
  /\ book' = [book EXCEPT ![calls[c].name] = None]
  /\ Answer(c, "done", None) \/ Answer(c, "failed", None)
  /\ UNCHANGED made

Fail(c) ==
  /\ calls[c].at = "open"
  /\ Answer(c, "failed", None)
  /\ UNCHANGED <<made, book>>

\* A restart loses any calls that are open; an answered one is done with.
Forget ==
  /\ \E lost \in SUBSET Calls :
       calls' = [c \in Calls |-> IF c \in lost THEN NoCall ELSE calls[c]]
  /\ UNCHANGED <<made, book>>

Next ==
  \/ \E c \in Calls : Ask(c) \/ Make(c) \/ Give(c) \/ Strike(c) \/ Fail(c)
  \/ Forget

Spec == Init /\ [][Next]_bookVars

\* The wallet that a create is answered with is the one in the book.
GivesCurrent ==
  \A c \in Calls :
    calls'[c] # calls[c] /\ calls'[c].op = "create" /\ calls'[c].at = "done" =>
      book[calls'[c].name] = calls'[c].id

CurrentSpec == Init /\ [][Next /\ GivesCurrent]_bookVars
=============================================================================
