---------------------------- MODULE Transactions ----------------------------
(***************************************************************************)
(* src/transactions: TransactionService.basicMessageHandler takes the      *)
(* basic messages that agents receive from the data controller (TDC) and   *)
(* post to the agency as webhooks.  A started credit transaction is given  *)
(* the next merkel order, saved and answered "accepted"; a started report  *)
(* request is answered "accepted", then "completed" with the agent's       *)
(* transactions.                                                           *)
(*                                                                         *)
(* Handlers run concurrently and switch at every await: the table is read  *)
(* and written by separate queries, without a transaction around them.     *)
(* The agent posts a webhook again when it got an error or no answer.      *)
(***************************************************************************)
EXTENDS Integers, Sequences, FiniteSets

CONSTANTS
  Messages,     \* basic messages, see MessageType
  Workers,      \* handlers that may run at one time
  OwnHost,      \* agents whose admin API is at http://agentId:AGENT_ADMIN_PORT
  MaxAttempts,  \* times that an agent posts one webhook
  Faults,       \* which of "db", "send", "timeout", "crash" happen
  None

MessageType ==
  [type : {"credit_transaction", "transaction_request", "grant", "unknown"},
   state : {"started", "accepted", "completed"}]

ASSUME TransactionsAssumption ==
  /\ \A m \in Messages :
       [type |-> m.type, state |-> m.state] \in MessageType
  /\ MaxAttempts \in Nat \ {0}
  /\ None \notin Messages

VARIABLES
  table,     \* agent_transactions, by primary key: agent, tx, order, by (history)
  sent,      \* basic messages handed to agents: in answer to, state, report
  queue,     \* message -> "waiting", "posted", "acked" or "dropped" webhook
  attempts,  \* message -> how often its webhook was posted
  run        \* worker -> the locals of the handler it runs

vars == <<table, sent, queue, attempts, run>>

---------------------------------------------------------------------------

Orders == {table[i].order : i \in DOMAIN table}

\* Faulty variant: the null that MAX gives for an empty table is kept.
MaxOrderNull ==
  IF Orders = {} THEN None ELSE CHOOSE n \in Orders : \A k \in Orders : k <= n

\* SELECT MAX(merkel_order) over the whole table; MAX of nothing is null and
\* null + 1 is 1.
MaxOrder ==
  IF Orders = {} THEN 0 ELSE CHOOSE n \in Orders : \A k \in Orders : k <= n

Starts(m, type) == m.type = type /\ m.state = "started"
Transaction(m) == Starts(m, "credit_transaction")
Report(m) == Starts(m, "transaction_request")

\* A report is the set of the primary keys of its rows: the query has no
\* ORDER BY.
Reply(m, state, report) == [re |-> m, state |-> state, report |-> report]

RowsOf(agent) == {i \in DOMAIN table : table[i].agent = agent}

\* No handler runs.  In run[w], at is the await the handler is at, heard says
\* whether the agent still waits for the answer to its post, and known is
\* history: how many rows the table had when the handler began.
Idle == [at |-> "idle", msg |-> None, max |-> 0, report |-> {}, heard |-> FALSE, known |-> 0]

Init ==
  /\ table = <<>>
  /\ sent = {}
  /\ queue = [m \in Messages |-> "waiting"]
  /\ attempts = [m \in Messages |-> 0]
  /\ run = [w \in Workers |-> Idle]

\* The agent posts its webhook to basicMessageHandler, which picks a handler
\* by messageTypeId; respond acts on the two kinds of started messages and
\* returns at once for all others.
Deliver(w, m) ==
  /\ run[w].at = "idle"
  /\ queue[m] = "waiting"
  /\ attempts' = [attempts EXCEPT ![m] = @ + 1]
  /\ IF Transaction(m) \/ Report(m)
     THEN /\ queue' = [queue EXCEPT ![m] = "posted"]
          /\ run' = [run EXCEPT ![w] =
               [Idle EXCEPT !.at = IF Transaction(m) THEN "max" ELSE "accept",
                            !.msg = m, !.heard = TRUE, !.known = Len(table)]]
     ELSE queue' = [queue EXCEPT ![m] = "acked"] /\ UNCHANGED run
  /\ UNCHANGED <<table, sent>>

\* What the agent does with a webhook that got an error: post it again.
Again(m) == IF attempts[m] < MaxAttempts THEN "waiting" ELSE "dropped"

\* The handler returns or throws, with or without anybody listening.
Ends(w, outcome) ==
  /\ run' = [run EXCEPT ![w] = Idle]
  /\ queue' = IF run[w].heard THEN [queue EXCEPT ![run[w].msg] = outcome] ELSE queue

---------------------------------------------------------------------------
(* The steps of TransactionMessageHandler.respond. *)

\* Faulty variant: the next order is taken from the number of rows.
GetMaxCount(w) ==
  /\ run[w].at = "max"
  /\ run' = [run EXCEPT ![w].at = "save", ![w].max = Len(table)]
  /\ UNCHANGED <<table, sent, queue, attempts>>

\* Faulty variant: every agent has orders of its own.
GetMaxOfAgent(w) ==
  /\ run[w].at = "max"
  /\ \E n \in {0} \cup {table[i].order : i \in RowsOf(run[w].msg.agent)} :
       /\ \A i \in RowsOf(run[w].msg.agent) : table[i].order <= n
       /\ run' = [run EXCEPT ![w].at = "save", ![w].max = n]
  /\ UNCHANGED <<table, sent, queue, attempts>>

GetMax(w) ==
  /\ run[w].at = "max"
  /\ run' = [run EXCEPT ![w].at = "save", ![w].max = MaxOrder]
  /\ UNCHANGED <<table, sent, queue, attempts>>

Insert(w) ==
  table' = Append(table, [agent |-> run[w].msg.agent, tx |-> run[w].msg.id,
                          order |-> run[w].max + 1, by |-> w])

\* Faulty variant: the handler returns without a reply.
SaveTransactionSilent(w) ==
  /\ run[w].at = "save"
  /\ Insert(w)
  /\ Ends(w, "acked")
  /\ UNCHANGED <<sent, attempts>>

SaveTransaction(w) ==
  /\ run[w].at = "save"
  /\ Insert(w)
  /\ run' = [run EXCEPT ![w].at = "accept"]
  /\ UNCHANGED <<sent, queue, attempts>>

---------------------------------------------------------------------------
(* The query of ReportMessageHandler.respond, and the reply both send. *)

\* Faulty variant: the report is built from the rows of every agent.
GetAllUnfiltered(w) ==
  /\ run[w].at = "report"
  /\ run' = [run EXCEPT ![w].at = "complete", ![w].report = DOMAIN table]
  /\ UNCHANGED <<table, sent, queue, attempts>>

GetAllTransactions(w) ==
  /\ run[w].at = "report"
  /\ run' = [run EXCEPT ![w].at = "complete",
                        ![w].report = RowsOf(run[w].msg.agent)]
  /\ UNCHANGED <<table, sent, queue, attempts>>

Answer(w) ==
  Reply(run[w].msg, IF run[w].at = "complete" THEN "completed" ELSE "accepted", run[w].report)

\* Faulty variant: "accepted" ends the handler of a report, too.
SendOnce(w) ==
  /\ run[w].at \in {"accept", "complete"}
  /\ run[w].msg.agent \in OwnHost
  /\ sent' = sent \cup {Answer(w)}
  /\ Ends(w, "acked")
  /\ UNCHANGED <<table, attempts>>

\* send-message at the agent: "accepted" ends the handler of a transaction and
\* is followed by the query for a report, whose handler "completed" ends.
Send(w) ==
  /\ run[w].at \in {"accept", "complete"}
  /\ run[w].msg.agent \in OwnHost
  /\ sent' = sent \cup {Answer(w)}
  /\ IF run[w].at = "accept" /\ Report(run[w].msg)
     THEN run' = [run EXCEPT ![w].at = "report"] /\ UNCHANGED queue
     ELSE Ends(w, "acked")
  /\ UNCHANGED <<table, attempts>>

---------------------------------------------------------------------------
(* Failures. *)

\* Faulty variant: an error of the save is swallowed.
QueryFailsSwallowed(w) ==
  /\ "db" \in Faults
  /\ run[w].at = "save"
  /\ run' = [run EXCEPT ![w].at = "accept"]
  /\ UNCHANGED <<table, sent, queue, attempts>>

\* A query fails, or its answer is lost after it was done.
QueryFails(w) ==
  /\ "db" \in Faults
  /\ run[w].at \in {"max", "save", "report"}
  /\ \/ UNCHANGED table
     \/ run[w].at = "save" /\ Insert(w)
  /\ Ends(w, Again(run[w].msg))
  /\ UNCHANGED <<sent, attempts>>

\* There is no agent at that address, it fails, or its answer is lost.
SendFails(w) ==
  /\ run[w].at \in {"accept", "complete"}
  /\ run[w].msg.agent \notin OwnHost \/ "send" \in Faults
  /\ \/ UNCHANGED sent
     \/ run[w].msg.agent \in OwnHost /\ sent' = sent \cup {Answer(w)}
  /\ Ends(w, Again(run[w].msg))
  /\ UNCHANGED <<table, attempts>>

\* The agent gives up waiting and posts again; the handler runs on.
Timeout(w) ==
  /\ "timeout" \in Faults
  /\ run[w].heard
  /\ queue' = [queue EXCEPT ![run[w].msg] = Again(run[w].msg)]
  /\ run' = [run EXCEPT ![w].heard = FALSE]
  /\ UNCHANGED <<table, sent, attempts>>

\* The agency restarts; the table and what was sent stay.
Crash ==
  /\ "crash" \in Faults
  /\ \E w \in Workers : run[w] # Idle
  /\ run' = [w \in Workers |-> Idle]
  /\ queue' = [m \in Messages |-> IF queue[m] = "posted" THEN Again(m) ELSE queue[m]]
  /\ UNCHANGED <<table, sent, attempts>>

---------------------------------------------------------------------------

Step(w) ==
  \/ GetMax(w) \/ SaveTransaction(w) \/ GetAllTransactions(w) \/ Send(w)
  \/ QueryFails(w) \/ SendFails(w)

Next ==
  \/ \E w \in Workers : Step(w) \/ Timeout(w) \/ \E m \in Messages : Deliver(w, m)
  \/ Crash

Spec == Init /\ [][Next]_vars

\* Node runs the continuations that are due, and agents post their webhooks.
Fairness ==
  /\ \A w \in Workers : WF_vars(Step(w))
  /\ \A m \in Messages : WF_vars(\E w \in Workers : Deliver(w, m))

FairSpec == Spec /\ Fairness

---------------------------------------------------------------------------
(* Properties. *)

Agents == {m.agent : m \in Messages}
Row == [agent : Agents, tx : {m.id : m \in Messages}, order : Nat, by : Workers]
ReplyType == [re : Messages, state : {"accepted", "completed"}, report : SUBSET Nat]
RunType ==
  [at : {"max", "save", "accept", "report", "complete"}, msg : Messages, max : Nat,
   report : SUBSET Nat, heard : BOOLEAN, known : Nat]

\* The variables have their types, a handler runs what its message asks for,
\* and began with no more rows than there are.
TypeOK ==
  /\ table \in Seq(Row)
  /\ sent \subseteq ReplyType
  /\ queue \in [Messages -> {"waiting", "posted", "acked", "dropped"}]
  /\ attempts \in [Messages -> 0..MaxAttempts]
  /\ run \in [Workers -> RunType \cup {Idle}]
  /\ \A w \in Workers : run[w] # Idle =>
       /\ Transaction(run[w].msg) \/ Report(run[w].msg)
       /\ run[w].known <= Len(table)

\* The row a transaction message asked for.
Records(r, m) == r.agent = m.agent /\ r.tx = m.id

\* The controller was told "accepted" only of transactions that are in the
\* table, whatever failed, was posted twice or was lost in a restart.
AcceptedIsRecorded ==
  \A r \in sent : Transaction(r.re) =>
    \E i \in DOMAIN table : Records(table[i], r.re)

\* The orders in use are 1 to the largest, without a gap, although handlers
\* read the maximum and save one more at different times, and saves fail.
OrdersContiguous == Orders = 1..MaxOrder

\* Two rows have the same order only when two handlers overlapped: no handler
\* slot writes an order twice, so handlers run one at a time number uniquely.
CollisionsNeedOverlap ==
  \A i, j \in DOMAIN table :
    i # j /\ table[i].order = table[j].order => table[i].by # table[j].by

\* What transaction.message.handler.ts:25 knows to be at risk: no two rows
\* have the same order.
OrdersUnique ==
  \A i, j \in DOMAIN table : table[i].order = table[j].order => i = j

\* A transaction posted after others were saved, on any agent, is numbered
\* after all of them.
OrderFollowsTime ==
  [][\A w \in Workers : Len(table') > Len(table) /\ run'[w] # run[w] =>
       \A i \in 1..run[w].known : table[i].order < table'[Len(table')].order]_vars

\* A "completed" report holds rows of its own agent only, and at least those
\* saved when the request arrived; so every transaction the controller was
\* told "accepted" of before is in it.
ReportFaithful ==
  [][\A r \in sent' \ sent : r.state = "completed" =>
       \E w \in Workers :
         /\ run[w].msg = r.re
         /\ RowsOf(r.re.agent) \cap 1..run[w].known \subseteq r.report
         /\ r.report \subseteq RowsOf(r.re.agent)]_vars

\* transaction.service.ts:26: the service "will respond in kind" to the basic
\* messages it receives.
EveryTransactionAnswered ==
  \A m \in {n \in Messages : Transaction(n)} :
    queue[m] = "waiting" ~> \E r \in sent : r.re = m /\ r.state = "accepted"

EveryReportCompleted ==
  \A m \in {n \in Messages : Report(n)} :
    queue[m] = "waiting" ~> \E r \in sent : r.re = m /\ r.state = "completed"

\* However handlers overlap, the table is a log numbered by what they saw.
Log ==
  [i \in DOMAIN table |-> [agent |-> table[i].agent, tx |-> table[i].tx, order |-> table[i].order]]

Accepted ==
  {[agent |-> r.re.agent, tx |-> r.re.id] : r \in {x \in sent : Transaction(x.re)}}

Numbered ==
  INSTANCE Ledger WITH
    Agents <- Agents, Ids <- {m.id : m \in Messages}, log <- Log, accepted <- Accepted

ImplementsLedger == Numbered!Spec
=============================================================================
