------------------------ MODULE Transactions_proofs ------------------------
(***************************************************************************)
(* What is proved of Transactions, for any messages, agents and number of  *)
(* overlapping handlers, any number of repeated posts and any faults: the  *)
(* types, the orders, the acceptances, the reports, and that the table is  *)
(* the abstract log of Ledger.                                             *)
(***************************************************************************)
EXTENDS Transactions, SequenceTheorems, TLAPS

---------------------------------------------------------------------------
(* The inductive invariant. *)

\* n is what a reader of the first k rows of table t takes for the maximum.
Largest(n, k, t) ==
  /\ n = 0 \/ \E i \in 1..k : t[i].order = n
  /\ \A i \in 1..k : t[i].order <= n

\* The locals r of the handler that worker w runs, when the table is t.  A
\* handler about to save read the maximum of some rows, which include those
\* there when it began and all that w wrote; one about to accept a transaction
\* has recorded it; one about to complete a report has its rows.
GoodRun(r, w, t) ==
  r # Idle =>
    /\ r \in RunType
    /\ Transaction(r.msg) \/ Report(r.msg)
    /\ r.known <= Len(t)
    /\ r.at \in {"max", "save"} => Transaction(r.msg)
    /\ r.at \in {"report", "complete"} => Report(r.msg)
    /\ r.at = "save" =>
         \E k \in r.known..Len(t) :
           /\ \A i \in 1..Len(t) : t[i].by = w => i <= k
           /\ Largest(r.max, k, t)
    /\ r.at = "accept" /\ Transaction(r.msg) => \E i \in 1..Len(t) : Records(t[i], r.msg)
    /\ r.at = "complete" =>
         /\ \A i \in 1..r.known : t[i].agent = r.msg.agent => i \in r.report
         /\ \A i \in r.report : i \in 1..Len(t) /\ t[i].agent = r.msg.agent

RunOK ==
  /\ run \in [Workers -> RunType \cup {Idle}]
  /\ \A w \in Workers : GoodRun(run[w], w, table)

\* The orders of t are a range from 1, and repeat between workers only.
GoodTable(t) ==
  /\ t \in Seq(Row)
  /\ \E n \in Nat : {t[i].order : i \in 1..Len(t)} = 1..n
  /\ \A i, j \in 1..Len(t) : i # j /\ t[i].order = t[j].order => t[i].by # t[j].by

\* What was accepted is in t.
GoodSent(s, t) ==
  /\ s \subseteq ReplyType
  /\ \A r \in s : Transaction(r.re) => \E i \in 1..Len(t) : Records(t[i], r.re)

\* A webhook that waits may be posted once more.
QueueOK ==
  /\ queue \in [Messages -> {"waiting", "posted", "acked", "dropped"}]
  /\ attempts \in [Messages -> 0..MaxAttempts]
  /\ \A m \in Messages : queue[m] = "waiting" => attempts[m] < MaxAttempts

Inv == GoodTable(table) /\ GoodSent(sent, table) /\ QueueOK /\ RunOK

LEMMA MaxOrderIs ==
  ASSUME NEW n \in Nat, Orders = 1..n
  PROVE  MaxOrder = n
  <1>1. CASE n = 0
    BY <1>1 DEF MaxOrder
  <1>2. CASE n > 0
    <2>1. n \in Orders /\ \A k \in Orders : k <= n
      BY <1>2
    <2>2. \A m \in Orders : (\A k \in Orders : k <= m) => m = n
      BY <2>1
    <2>3. QED
      BY <2>1, <2>2 DEF MaxOrder
  <1>3. QED
    BY <1>1, <1>2

LEMMA TableDomain ==
  ASSUME GoodTable(table)
  PROVE  /\ Len(table) \in Nat
         /\ DOMAIN table = 1..Len(table)
         /\ \A i \in 1..Len(table) : table[i] \in Row
         /\ Orders = {table[i].order : i \in 1..Len(table)}
  BY DEF GoodTable, Orders

LEMMA InvImplies ==
  Inv => TypeOK /\ AcceptedIsRecorded /\ OrdersContiguous /\ CollisionsNeedOverlap
  <1> SUFFICES ASSUME Inv
               PROVE  TypeOK /\ AcceptedIsRecorded /\ OrdersContiguous /\ CollisionsNeedOverlap
    OBVIOUS
  <1>1. DOMAIN table = 1..Len(table)
    BY TableDomain DEF Inv
  <1>2. TypeOK
    BY DEF Inv, GoodTable, GoodSent, QueueOK, RunOK, GoodRun, TypeOK
  <1>3. AcceptedIsRecorded
    BY <1>1 DEF Inv, GoodSent, AcceptedIsRecorded
  <1>4. OrdersContiguous
    <2>1. PICK n \in Nat : Orders = 1..n
      BY TableDomain DEF Inv, GoodTable
    <2>2. QED
      BY <2>1, MaxOrderIs DEF OrdersContiguous
  <1>5. CollisionsNeedOverlap
    BY <1>1 DEF Inv, GoodTable, CollisionsNeedOverlap
  <1>6. QED
    BY <1>2, <1>3, <1>4, <1>5

---------------------------------------------------------------------------
(* The table only grows. *)

\* u is t, or t and one more row, written by w.
GrowsBy(t, u, w) ==
  /\ Len(u) \in Len(t)..(Len(t) + 1)
  /\ \A i \in 1..Len(t) : u[i] = t[i]
  /\ \A i \in (Len(t) + 1)..Len(u) : u[i].by = w

LEMMA SameTable ==
  ASSUME NEW w, GoodTable(table), UNCHANGED table
  PROVE  GrowsBy(table, table', w)
  BY DEF GrowsBy, GoodTable

\* A handler's locals stay good while another one writes.
LEMMA OthersRun ==
  ASSUME NEW r, NEW w, NEW v, NEW t \in Seq(Row), NEW u \in Seq(Row),
         GrowsBy(t, u, v), t = u \/ v # w, GoodRun(r, w, t)
  PROVE  GoodRun(r, w, u)
  <1> SUFFICES ASSUME r # Idle, t # u
               PROVE  GoodRun(r, w, u)
    BY DEF GoodRun
  <1>1. /\ r \in RunType
        /\ Transaction(r.msg) \/ Report(r.msg)
        /\ r.at \in {"max", "save"} => Transaction(r.msg)
        /\ r.at \in {"report", "complete"} => Report(r.msg)
    BY DEF GoodRun
  <1>2. r.known \in Nat /\ r.known <= Len(t) /\ r.known <= Len(u)
    BY DEF GoodRun, RunType, GrowsBy
  <1>3. ASSUME r.at = "save"
        PROVE  \E k \in r.known..Len(u) :
                 /\ \A i \in 1..Len(u) : u[i].by = w => i <= k
                 /\ Largest(r.max, k, u)
    <2>1. PICK k \in r.known..Len(t) :
            /\ \A i \in 1..Len(t) : t[i].by = w => i <= k
            /\ Largest(r.max, k, t)
      BY <1>3 DEF GoodRun
    <2>2. k \in r.known..Len(u) /\ k <= Len(t)
      BY <1>2, <2>1 DEF GrowsBy
    <2>3. \A i \in 1..Len(u) : u[i].by = w => i <= k
      BY <2>1 DEF GrowsBy
    <2>4. \A i \in 1..k : u[i] = t[i]
      BY <1>2, <2>2 DEF GrowsBy
    <2>5. Largest(r.max, k, u)
      BY <2>1, <2>4 DEF Largest
    <2>6. QED
      BY <2>2, <2>3, <2>5
  <1>4. ASSUME r.at = "accept", Transaction(r.msg)
        PROVE  \E i \in 1..Len(u) : Records(u[i], r.msg)
    BY <1>4 DEF GoodRun, GrowsBy
  <1>5. ASSUME r.at = "complete"
        PROVE  /\ \A i \in 1..r.known : u[i].agent = r.msg.agent => i \in r.report
               /\ \A i \in r.report : i \in 1..Len(u) /\ u[i].agent = r.msg.agent
    <2>1. \A i \in 1..r.known : u[i] = t[i]
      BY <1>2 DEF GrowsBy
    <2>2. QED
      BY <1>5, <2>1 DEF GoodRun, GrowsBy
  <1>6. QED
    BY <1>1, <1>2, <1>3, <1>4, <1>5 DEF GoodRun

LEMMA SentStays ==
  ASSUME NEW w, GoodSent(sent, table), GrowsBy(table, table', w), table \in Seq(Row)
  PROVE  GoodSent(sent, table')
  BY DEF GoodSent, GrowsBy

\* A step of one handler.
LEMMA OneRuns ==
  ASSUME Inv, NEW w \in Workers, NEW q \in RunType \cup {Idle},
         run' = [run EXCEPT ![w] = q],
         GrowsBy(table, table', w), table' \in Seq(Row),
         GoodRun(q, w, table')
  PROVE  RunOK'
  <1>1. run' \in [Workers -> RunType \cup {Idle}]
    BY DEF Inv, RunOK
  <1>2. ASSUME NEW v \in Workers
        PROVE  GoodRun(run'[v], v, table')
    <2>1. CASE v = w
      BY <2>1 DEF Inv, RunOK
    <2>2. CASE v # w
      <3>1. run'[v] = run[v] /\ GoodRun(run[v], v, table)
        BY <2>2 DEF Inv, RunOK
      <3>2. QED
        BY <2>2, <3>1, OthersRun DEF Inv, GoodTable
    <2>3. QED
      BY <2>1, <2>2
  <1>3. QED
    BY <1>1, <1>2 DEF RunOK

\* saveTransaction appends one row, with the order after a maximum that was
\* read before: the orders stay a range, and the new one is none of w's.
LEMMA InsertStep ==
  ASSUME Inv, NEW w \in Workers, run[w].at = "save", Insert(w)
  PROVE  /\ GoodTable(table')
         /\ GrowsBy(table, table', w)
         /\ Len(table') = Len(table) + 1
         /\ Records(table'[Len(table) + 1], run[w].msg)
  <1> DEFINE r == run[w]
             row == [agent |-> r.msg.agent, tx |-> r.msg.id, order |-> r.max + 1, by |-> w]
             len == Len(table)
  <1>1. r \in RunType /\ GoodRun(r, w, table) /\ r # Idle
    BY DEF Inv, RunOK, Idle
  <1>2. r.msg \in Messages /\ r.max \in Nat /\ r.known \in Nat
    BY <1>1 DEF RunType
  <1>3. row \in Row
    BY <1>2 DEF Row, Agents
  <1>4. table \in Seq(Row) /\ len \in Nat /\ table' = Append(table, row)
    BY DEF Inv, GoodTable, Insert
  <1>5. /\ table' \in Seq(Row)
        /\ Len(table') = len + 1
        /\ \A i \in 1..len : table'[i] = table[i]
        /\ table'[len + 1] = row
    BY <1>3, <1>4
  <1>6. PICK k \in r.known..len :
          /\ \A i \in 1..len : table[i].by = w => i <= k
          /\ Largest(r.max, k, table)
    BY <1>1 DEF GoodRun
  <1>7. PICK n \in Nat : {table[i].order : i \in 1..len} = 1..n
    BY DEF Inv, GoodTable
  <1>8. \E m \in Nat : {table'[i].order : i \in 1..Len(table')} = 1..m
    <2>1. r.max \in 0..n
      <3>1. \A i \in 1..len : table[i].order \in 1..n
        BY <1>7
      <3>2. r.max = 0 \/ \E i \in 1..len : table[i].order = r.max
        BY <1>4, <1>2, <1>6 DEF Largest
      <3>3. QED
        BY <3>1, <3>2
    <2>2. {table'[i].order : i \in 1..Len(table')} = {table[i].order : i \in 1..len} \cup {r.max + 1}
      <3>1. \A i \in 1..Len(table') : i \in 1..len \/ i = len + 1
        BY <1>4, <1>5
      <3>2. \A i \in 1..len : i \in 1..Len(table')
        BY <1>4, <1>5
      <3>3. len + 1 \in 1..Len(table')
        BY <1>4, <1>5
      <3>4. row.order = r.max + 1
        OBVIOUS
      <3>5. QED
        BY <1>5, <3>1, <3>2, <3>3, <3>4
    <2>3. CASE r.max < n
      <3>1. (1..n) \cup {r.max + 1} = 1..n
        BY <1>2, <2>1, <2>3
      <3>2. QED
        BY <1>7, <2>2, <3>1
    <2>4. CASE r.max = n
      <3>1. (1..n) \cup {r.max + 1} = 1..(n + 1)
        BY <2>4
      <3>2. {table'[i].order : i \in 1..Len(table')} = 1..(n + 1)
        BY <1>7, <2>2, <3>1
      <3>3. n + 1 \in Nat
        OBVIOUS
      <3>4. QED
        BY <3>2, <3>3
    <2>5. r.max < n \/ r.max = n
      BY <2>1
    <2>6. QED
      BY <2>3, <2>4, <2>5
  <1>9. \A i, j \in 1..Len(table') :
          i # j /\ table'[i].order = table'[j].order => table'[i].by # table'[j].by
    <2>1. \A i \in 1..len : table[i].by = w => table[i].order < r.max + 1
      <3>1. \A i \in 1..len : table[i].order \in Nat
        <4>1. \A i \in 1..len : table[i] \in Row
          BY <1>4
        <4>2. \A x \in Row : x.order \in Nat
          BY DEF Row
        <4>3. QED
          BY <4>1, <4>2
      <3>2. \A i \in 1..k : table[i].order <= r.max
        BY <1>6 DEF Largest
      <3>3. QED
        BY <1>2, <1>6, <3>1, <3>2
    <2>2. row.order = r.max + 1 /\ row.by = w
      OBVIOUS
    <2> HIDE DEF row
    <2>3. \A i, j \in 1..len :
            i # j /\ table[i].order = table[j].order => table[i].by # table[j].by
      BY DEF Inv, GoodTable
    <2>4. ASSUME NEW i \in 1..Len(table'), NEW j \in 1..Len(table'),
                 i # j, table'[i].order = table'[j].order
          PROVE  table'[i].by # table'[j].by
      <3>1. i \in 1..len \/ i = len + 1
        BY <1>4, <1>5
      <3>2. j \in 1..len \/ j = len + 1
        BY <1>4, <1>5
      <3>3. \A a \in 1..len : table[a].by = w => table[a].order # r.max + 1
        <4>1. \A x \in Row : x.order \in Nat
          BY DEF Row
        <4>2. \A a \in 1..len : table[a].order \in Nat
          BY <1>4, <4>1
        <4>3. QED
          BY <1>2, <2>1, <4>2
      <3>4. QED
        BY <1>5, <2>2, <2>3, <2>4, <3>1, <3>2, <3>3
    <2>5. QED
      BY <2>4
  <1>10. GrowsBy(table, table', w)
    <2>1. row.by = w
      OBVIOUS
    <2>2. QED
      BY <1>4, <1>5, <2>1 DEF GrowsBy
  <1>11. Records(table'[len + 1], run[w].msg)
    BY <1>5 DEF Records
  <1>12. QED
    BY <1>5, <1>8, <1>9, <1>10, <1>11 DEF GoodTable

---------------------------------------------------------------------------
(* Webhooks and the ends of handlers. *)

LEMMA IdleGood == ASSUME NEW w, NEW t PROVE GoodRun(Idle, w, t)
  BY DEF GoodRun

\* An error sends a webhook back to the queue only as often as allowed.
LEMMA EndsQueue ==
  ASSUME Inv, NEW w \in Workers, run[w] # Idle, UNCHANGED attempts,
         Ends(w, "acked") \/ Ends(w, Again(run[w].msg))
  PROVE  QueueOK'
  <1>1. run[w].msg \in Messages
    BY DEF Inv, RunOK, RunType
  <1>2. ASSUME NEW m \in Messages, NEW outcome \in {"waiting", "acked", "dropped"},
               outcome = "waiting" => attempts[m] < MaxAttempts,
               queue' = [queue EXCEPT ![m] = outcome]
        PROVE  QueueOK'
    BY <1>2 DEF Inv, QueueOK
  <1>3. CASE UNCHANGED queue
    BY <1>3 DEF Inv, QueueOK
  <1>4. QED
    BY <1>1, <1>2, <1>3 DEF Ends, Again

LEMMA EndsRun ==
  ASSUME Inv, NEW w \in Workers, NEW outcome, Ends(w, outcome),
         GrowsBy(table, table', w), table' \in Seq(Row)
  PROVE  RunOK'
  BY OneRuns, IdleGood DEF Ends

\* A handler ends without writing.
LEMMA EndsStep ==
  ASSUME Inv, NEW w \in Workers, run[w] # Idle,
         Ends(w, "acked") \/ Ends(w, Again(run[w].msg)),
         UNCHANGED <<table, attempts>>, GoodSent(sent', table)
  PROVE  Inv'
  <1>1. GrowsBy(table, table', w) /\ table' \in Seq(Row)
    BY SameTable DEF Inv, GoodTable
  <1>2. RunOK'
    BY <1>1, EndsRun
  <1>3. QueueOK'
    BY EndsQueue
  <1>4. QED
    BY <1>2, <1>3 DEF Inv

\* A handler goes on without writing.
LEMMA GoesOn ==
  ASSUME Inv, NEW w \in Workers, NEW q \in RunType, GoodRun(q, w, table),
         run' = [run EXCEPT ![w] = q], UNCHANGED table, GoodSent(sent', table), QueueOK'
  PROVE  Inv'
  <1>1. GrowsBy(table, table', w) /\ table' \in Seq(Row)
    BY SameTable DEF Inv, GoodTable
  <1>2. RunOK'
    BY <1>1, OneRuns
  <1>3. QED
    BY <1>2 DEF Inv

LEMMA SameQueue == Inv /\ UNCHANGED <<queue, attempts>> => QueueOK'
  BY DEF Inv, QueueOK

LEMMA DeliverStep ==
  ASSUME Inv, NEW w \in Workers, NEW m \in Messages, Deliver(w, m)
  PROVE  Inv'
  <1>1. QueueOK'
    BY TransactionsAssumption DEF Deliver, Inv, QueueOK
  <1>2. CASE Transaction(m) \/ Report(m)
    <2> DEFINE q == [Idle EXCEPT !.at = IF Transaction(m) THEN "max" ELSE "accept",
                                 !.msg = m, !.heard = TRUE, !.known = Len(table)]
    <2>1. run' = [run EXCEPT ![w] = q] /\ UNCHANGED <<table, sent>>
      BY <1>2 DEF Deliver
    <2>2. /\ q.at = IF Transaction(m) THEN "max" ELSE "accept"
          /\ q.msg = m
          /\ q.known = Len(table)
      BY DEF Idle
    <2>3. Len(table) \in Nat
      BY DEF Inv, GoodTable
    <2>4. q \in RunType
      BY <2>3 DEF Idle, RunType
    <2> HIDE DEF q
    <2>5. GoodRun(q, w, table)
      BY <1>2, <2>2, <2>3, <2>4 DEF GoodRun, Transaction, Report, Starts
    <2>6. QED
      BY <1>1, <2>1, <2>4, <2>5, GoesOn DEF Inv
  <1>3. CASE ~(Transaction(m) \/ Report(m))
    <2>1. UNCHANGED <<table, sent, run>>
      BY <1>3 DEF Deliver
    <2>2. QED
      BY <1>1, <2>1 DEF Inv, RunOK
  <1>4. QED
    BY <1>2, <1>3

---------------------------------------------------------------------------
(* The steps of a handler. *)

LEMMA KindsDiffer == \A m \in Messages : ~(Transaction(m) /\ Report(m))
  BY DEF Transaction, Report, Starts

\* A handler between two steps has its message.
LEMMA Running ==
  ASSUME Inv, NEW w \in Workers, run[w].at # "idle"
  PROVE  /\ run[w] # Idle /\ run[w] \in RunType /\ GoodRun(run[w], w, table)
         /\ run[w].msg \in Messages /\ run[w].known \in Nat
         /\ run[w].known <= Len(table)
  <1>1. run[w] # Idle
    BY DEF Idle
  <1>2. run[w] \in RunType /\ GoodRun(run[w], w, table)
    BY <1>1 DEF Inv, RunOK
  <1>3. QED
    BY <1>1, <1>2 DEF RunType, GoodRun

LEMMA GetMaxStep ==
  ASSUME Inv, NEW w \in Workers, GetMax(w)
  PROVE  Inv'
  <1> DEFINE r == run[w]
             q == [r EXCEPT !.at = "save", !.max = MaxOrder]
  <1>1. /\ r.at = "max" /\ run' = [run EXCEPT ![w] = q]
        /\ UNCHANGED <<table, sent, queue, attempts>>
    BY DEF GetMax, Inv, RunOK
  <1>2. r \in RunType /\ r # Idle /\ GoodRun(r, w, table) /\ r.known \in Nat
    BY <1>1, Running
  <1>3. Len(table) \in Nat
    BY TableDomain DEF Inv
  <1>4. MaxOrder \in Nat /\ Largest(MaxOrder, Len(table), table)
    <2>1. PICK n \in Nat : Orders = 1..n
      BY TableDomain DEF Inv, GoodTable
    <2>2. MaxOrder = n
      BY <2>1, MaxOrderIs
    <2>3. n = 0 \/ \E i \in 1..Len(table) : table[i].order = n
      <3>1. n = 0 \/ n \in Orders
        BY <2>1
      <3>2. QED
        BY <3>1, TableDomain DEF Inv
    <2>4. \A i \in 1..Len(table) : table[i].order <= n
      <3>1. \A i \in 1..Len(table) : table[i].order \in Orders
        BY TableDomain DEF Inv
      <3>2. QED
        BY <2>1, <3>1
    <2>5. QED
      BY <2>2, <2>3, <2>4 DEF Largest
  <1>5. /\ q \in RunType /\ q.at = "save" /\ q.max = MaxOrder
        /\ q.msg = r.msg /\ q.known = r.known
    BY <1>2, <1>4 DEF RunType
  <1> HIDE DEF q
  <1>6. GoodRun(q, w, table)
    <2>1. Transaction(q.msg) /\ q.known <= Len(table)
      BY <1>1, <1>2, <1>5 DEF GoodRun
    <2>2. \E k \in q.known..Len(table) :
            /\ \A i \in 1..Len(table) : table[i].by = w => i <= k
            /\ Largest(q.max, k, table)
      <3>1. Len(table) \in q.known..Len(table)
        BY <1>2, <1>3, <1>5, <2>1
      <3>2. \A i \in 1..Len(table) : table[i].by = w => i <= Len(table)
        BY <1>3
      <3>3. QED
        BY <1>4, <1>5, <3>1, <3>2
    <2>3. QED
      BY <1>5, <2>1, <2>2 DEF GoodRun
  <1>7. GoodSent(sent', table) /\ QueueOK'
    BY <1>1, SameQueue DEF Inv
  <1>8. QED
    BY <1>1, <1>5, <1>6, <1>7, GoesOn

LEMMA SaveTransactionStep ==
  ASSUME Inv, NEW w \in Workers, SaveTransaction(w)
  PROVE  Inv'
  <1> DEFINE r == run[w]
             q == [r EXCEPT !.at = "accept"]
  <1>1. /\ r.at = "save" /\ Insert(w) /\ run' = [run EXCEPT ![w] = q]
        /\ UNCHANGED <<sent, queue, attempts>>
    BY DEF SaveTransaction, Inv, RunOK
  <1>2. r \in RunType /\ r # Idle /\ GoodRun(r, w, table) /\ r.known \in Nat
    BY <1>1, Running
  <1>3. /\ GoodTable(table') /\ GrowsBy(table, table', w)
        /\ Len(table') = Len(table) + 1 /\ Records(table'[Len(table) + 1], r.msg)
    BY <1>1, InsertStep
  <1>4. Len(table) \in Nat
    BY TableDomain DEF Inv
  <1>5. q \in RunType /\ q.at = "accept" /\ q.msg = r.msg /\ q.known = r.known
    BY <1>2 DEF RunType
  <1> HIDE DEF q
  <1>6. GoodRun(q, w, table')
    <2>1. Transaction(q.msg) /\ q.known <= Len(table')
      BY <1>1, <1>2, <1>3, <1>4, <1>5 DEF GoodRun
    <2>2. \E i \in 1..Len(table') : Records(table'[i], q.msg)
      BY <1>3, <1>4, <1>5
    <2>3. QED
      BY <1>5, <2>1, <2>2 DEF GoodRun
  <1>7. RunOK'
    BY <1>1, <1>3, <1>5, <1>6, OneRuns DEF GoodTable
  <1>8. GoodSent(sent', table') /\ QueueOK'
    BY <1>1, <1>3, SentStays, SameQueue DEF Inv, GoodTable
  <1>9. QED
    BY <1>3, <1>7, <1>8 DEF Inv

LEMMA GetAllStep ==
  ASSUME Inv, NEW w \in Workers, GetAllTransactions(w)
  PROVE  Inv'
  <1> DEFINE r == run[w]
             rows == RowsOf(r.msg.agent)
             q == [r EXCEPT !.at = "complete", !.report = rows]
  <1>1. /\ r.at = "report" /\ run' = [run EXCEPT ![w] = q]
        /\ UNCHANGED <<table, sent, queue, attempts>>
    BY DEF GetAllTransactions, Inv, RunOK
  <1>2. /\ r \in RunType /\ r # Idle /\ GoodRun(r, w, table)
        /\ r.known \in Nat /\ r.known <= Len(table)
    BY <1>1, Running
  <1>3. Len(table) \in Nat /\ DOMAIN table = 1..Len(table)
    BY TableDomain DEF Inv
  <1>4. /\ rows \subseteq Nat
        /\ \A i : i \in rows <=> i \in 1..Len(table) /\ table[i].agent = r.msg.agent
    BY <1>3 DEF RowsOf
  <1> HIDE DEF rows
  <1>5. /\ q \in RunType /\ q.at = "complete" /\ q.report = rows
        /\ q.msg = r.msg /\ q.known = r.known
    BY <1>2, <1>4 DEF RunType
  <1> HIDE DEF q
  <1>6. GoodRun(q, w, table)
    <2>1. Report(q.msg) /\ q.known <= Len(table)
      BY <1>1, <1>2, <1>5 DEF GoodRun
    <2>2. \A i \in 1..q.known : table[i].agent = q.msg.agent => i \in q.report
      BY <1>2, <1>3, <1>4, <1>5
    <2>3. \A i \in q.report : i \in 1..Len(table) /\ table[i].agent = q.msg.agent
      BY <1>4, <1>5
    <2>4. QED
      BY <1>5, <2>1, <2>2, <2>3 DEF GoodRun
  <1>7. GoodSent(sent', table) /\ QueueOK'
    BY <1>1, SameQueue DEF Inv
  <1>8. QED
    BY <1>1, <1>5, <1>6, <1>7, GoesOn

\* What a handler answers is allowed to be answered.
LEMMA AnswerGood ==
  ASSUME Inv, NEW w \in Workers, run[w].at \in {"accept", "complete"}
  PROVE  /\ GoodSent(sent \cup {Answer(w)}, table)
         /\ Answer(w).re = run[w].msg /\ Answer(w).report = run[w].report
         /\ Answer(w).state = IF run[w].at = "complete" THEN "completed" ELSE "accepted"
         /\ Transaction(run[w].msg) =>
              run[w].at = "accept" /\ \E i \in 1..Len(table) : Records(table[i], run[w].msg)
  <1>1. run[w] \in RunType /\ GoodRun(run[w], w, table) /\ run[w] # Idle /\ run[w].msg \in Messages
    BY Running
  <1>2. /\ Answer(w).re = run[w].msg /\ Answer(w).report = run[w].report
        /\ Answer(w).state = IF run[w].at = "complete" THEN "completed" ELSE "accepted"
    BY DEF Answer, Reply
  <1>3. Answer(w) \in ReplyType
    BY <1>1 DEF Answer, Reply, ReplyType, RunType
  <1>4. Transaction(run[w].msg) =>
          run[w].at = "accept" /\ \E i \in 1..Len(table) : Records(table[i], run[w].msg)
    BY <1>1, KindsDiffer DEF GoodRun
  <1>5. GoodSent(sent \cup {Answer(w)}, table)
    BY <1>2, <1>3, <1>4 DEF GoodSent, Inv
  <1>6. QED
    BY <1>2, <1>4, <1>5

LEMMA SendStep ==
  ASSUME Inv, NEW w \in Workers, Send(w)
  PROVE  Inv'
  <1> DEFINE r == run[w]
             q == [r EXCEPT !.at = "report"]
  <1>1. /\ r.at \in {"accept", "complete"} /\ sent' = sent \cup {Answer(w)}
        /\ UNCHANGED <<table, attempts>>
    BY DEF Send
  <1>2. r \in RunType /\ r # Idle /\ GoodRun(r, w, table)
    BY <1>1, Running
  <1>3. GoodSent(sent', table)
    BY <1>1, AnswerGood
  <1>4. CASE r.at = "accept" /\ Report(r.msg)
    <2>1. run' = [run EXCEPT ![w] = q] /\ UNCHANGED queue
      BY <1>4 DEF Send, Inv, RunOK
    <2>2. q \in RunType /\ q.at = "report" /\ q.msg = r.msg /\ q.known = r.known
      BY <1>2 DEF RunType
    <2> HIDE DEF q
    <2>3. GoodRun(q, w, table)
      BY <1>2, <1>4, <2>2 DEF GoodRun
    <2>4. QED
      BY <1>1, <1>3, <2>1, <2>2, <2>3, GoesOn, SameQueue
  <1>5. CASE ~(r.at = "accept" /\ Report(r.msg))
    BY <1>1, <1>2, <1>3, <1>5, EndsStep DEF Send
  <1>6. QED
    BY <1>4, <1>5

LEMMA QueryFailsStep ==
  ASSUME Inv, NEW w \in Workers, QueryFails(w)
  PROVE  Inv'
  <1>1. /\ run[w].at \in {"max", "save", "report"}
        /\ Ends(w, Again(run[w].msg)) /\ UNCHANGED <<sent, attempts>>
    BY DEF QueryFails
  <1>2. run[w] # Idle
    BY <1>1, Running
  <1>3. CASE UNCHANGED table
    BY <1>1, <1>2, <1>3, EndsStep DEF Inv
  <1>4. CASE run[w].at = "save" /\ Insert(w)
    <2>1. GoodTable(table') /\ GrowsBy(table, table', w)
      BY <1>4, InsertStep
    <2>2. RunOK' /\ QueueOK'
      BY <1>1, <1>2, <2>1, EndsRun, EndsQueue DEF GoodTable
    <2>3. GoodSent(sent', table')
      BY <1>1, <2>1, SentStays DEF Inv, GoodTable
    <2>4. QED
      BY <2>1, <2>2, <2>3 DEF Inv
  <1>5. QED
    BY <1>3, <1>4 DEF QueryFails

LEMMA SendFailsStep ==
  ASSUME Inv, NEW w \in Workers, SendFails(w)
  PROVE  Inv'
  <1>1. /\ run[w].at \in {"accept", "complete"} /\ Ends(w, Again(run[w].msg))
        /\ UNCHANGED <<table, attempts>>
        /\ UNCHANGED sent \/ sent' = sent \cup {Answer(w)}
    BY DEF SendFails
  <1>2. run[w] # Idle
    BY <1>1, Running
  <1>3. GoodSent(sent', table)
    BY <1>1, AnswerGood DEF Inv
  <1>4. QED
    BY <1>1, <1>2, <1>3, EndsStep

LEMMA TimeoutStep ==
  ASSUME Inv, NEW w \in Workers, Timeout(w)
  PROVE  Inv'
  <1> DEFINE r == run[w]
             q == [r EXCEPT !.heard = FALSE]
  <1>1. /\ r.heard /\ run' = [run EXCEPT ![w] = q] /\ UNCHANGED <<table, sent, attempts>>
        /\ queue' = [queue EXCEPT ![r.msg] = Again(r.msg)]
    BY DEF Timeout, Inv, RunOK
  <1>2. r # Idle
    BY <1>1 DEF Idle
  <1>3. r \in RunType /\ GoodRun(r, w, table) /\ r.msg \in Messages
    BY <1>2 DEF Inv, RunOK, RunType
  <1>4. /\ q \in RunType /\ q.at = r.at /\ q.msg = r.msg /\ q.known = r.known
        /\ q.max = r.max /\ q.report = r.report
    BY <1>3 DEF RunType
  <1> HIDE DEF q
  <1>5. GoodRun(q, w, table)
    BY <1>2, <1>3, <1>4 DEF GoodRun
  <1>6. QueueOK'
    BY <1>1, <1>3 DEF Again, Inv, QueueOK
  <1>7. QED
    BY <1>1, <1>4, <1>5, <1>6, GoesOn DEF Inv

LEMMA CrashStep ==
  ASSUME Inv, Crash
  PROVE  Inv'
  <1>1. QueueOK'
    BY DEF Crash, Again, Inv, QueueOK
  <1>2. RunOK'
    BY IdleGood DEF Crash, RunOK
  <1>3. QED
    BY <1>1, <1>2 DEF Crash, Inv

LEMMA InitInv == Init => Inv
  <1> SUFFICES ASSUME Init
               PROVE  Inv
    OBVIOUS
  <1>1. GoodTable(table) /\ GoodSent(sent, table)
    <2>1. table \in Seq(Row) /\ Len(table) = 0
      BY DEF Init
    <2>2. {table[i].order : i \in 1..Len(table)} = 1..0
      BY <2>1
    <2>3. \E n \in Nat : {table[i].order : i \in 1..Len(table)} = 1..n
      BY <2>2
    <2>4. GoodTable(table)
      BY <2>1, <2>3 DEF GoodTable
    <2>5. GoodSent(sent, table)
      BY DEF Init, GoodSent
    <2>6. QED
      BY <2>4, <2>5
  <1>2. QueueOK
    BY TransactionsAssumption DEF Init, QueueOK
  <1>3. RunOK
    BY IdleGood DEF Init, RunOK
  <1>4. QED
    BY <1>1, <1>2, <1>3 DEF Inv

LEMMA NextInv == Inv /\ [Next]_vars => Inv'
  <1> SUFFICES ASSUME Inv, [Next]_vars
               PROVE  Inv'
    OBVIOUS
  <1>1. ASSUME NEW w \in Workers, Step(w)
        PROVE  Inv'
    BY <1>1, GetMaxStep, SaveTransactionStep, GetAllStep, SendStep, QueryFailsStep, SendFailsStep
    DEF Step
  <1>2. ASSUME NEW w \in Workers, NEW m \in Messages, Deliver(w, m)
        PROVE  Inv'
    BY <1>2, DeliverStep
  <1>3. ASSUME NEW w \in Workers, Timeout(w)
        PROVE  Inv'
    BY <1>3, TimeoutStep
  <1>4. CASE Crash
    BY <1>4, CrashStep
  <1>5. CASE UNCHANGED vars
    BY <1>5 DEF vars, Inv, QueueOK, RunOK
  <1>6. QED
    BY <1>1, <1>2, <1>3, <1>4, <1>5 DEF Next

---------------------------------------------------------------------------
(* The invariants. *)

\* The variables of Transactions keep their types.
THEOREM TransactionsTypeCorrect == Spec => []TypeOK
  <1>1. Inv => TypeOK
    BY InvImplies
  <1>2. QED
    BY <1>1, InitInv, NextInv, PTL DEF Spec

\* No transaction was accepted without a row: SaveTransaction precedes the
\* reply, rows are never deleted, and failed saves end the handler.
THEOREM AcceptedStaysRecorded == Spec => []AcceptedIsRecorded
  <1>1. Inv => AcceptedIsRecorded
    BY InvImplies
  <1>2. QED
    BY <1>1, InitInv, NextInv, PTL DEF Spec

\* The orders in use have no gap, for any number of overlapping handlers.
THEOREM OrdersHaveNoGap == Spec => []OrdersContiguous
  <1>1. Inv => OrdersContiguous
    BY InvImplies
  <1>2. QED
    BY <1>1, InitInv, NextInv, PTL DEF Spec

\* Handlers that do not overlap give unique orders.
THEOREM CollisionsAreOverlaps == Spec => []CollisionsNeedOverlap
  <1>1. Inv => CollisionsNeedOverlap
    BY InvImplies
  <1>2. QED
    BY <1>1, InitInv, NextInv, PTL DEF Spec

\* What transaction.message.handler.ts:25 is afraid of needs two handlers:
\* if they ran one at a time, no two rows would have the same order, however
\* often messages are posted, queries fail and the agency restarts.
THEOREM OneHandlerNumbersUniquely ==
  ASSUME \A v, w \in Workers : v = w
  PROVE  Spec => []OrdersUnique
  <1>1. Inv => OrdersUnique
    <2> SUFFICES ASSUME Inv, NEW i \in DOMAIN table, NEW j \in DOMAIN table,
                        table[i].order = table[j].order
                 PROVE  i = j
      BY DEF OrdersUnique
    <2>1. \A r \in Row : r.by \in Workers
      BY DEF Row
    <2>2. table[i].by \in Workers /\ table[j].by \in Workers
      BY <2>1, InvImplies DEF TypeOK
    <2>3. QED
      BY <2>2, InvImplies DEF CollisionsNeedOverlap
  <1>2. QED
    BY <1>1, InitInv, NextInv, PTL DEF Spec

---------------------------------------------------------------------------
(* The action properties. *)

\* Rows are written by one handler at a time, which works from its locals.
LEMMA TableChanges ==
  ASSUME Inv, Next
  PROVE  \/ UNCHANGED table
         \/ /\ UNCHANGED sent
            /\ \E v \in Workers :
                 /\ run[v].at = "save" /\ Insert(v)
                 /\ \A w \in Workers : w # v => run'[w] = run[w]
  <1> USE DEF Inv, RunOK
  <1>1. ASSUME NEW v \in Workers, SaveTransaction(v)
        PROVE  /\ UNCHANGED sent /\ run[v].at = "save" /\ Insert(v)
               /\ \A w \in Workers : w # v => run'[w] = run[w]
    BY <1>1 DEF SaveTransaction
  <1>2. ASSUME NEW v \in Workers, QueryFails(v), table' # table
        PROVE  /\ UNCHANGED sent /\ run[v].at = "save" /\ Insert(v)
               /\ \A w \in Workers : w # v => run'[w] = run[w]
    BY <1>2 DEF QueryFails, Ends
  <1>3. ASSUME NEW v \in Workers, Step(v), ~SaveTransaction(v), ~QueryFails(v)
        PROVE  UNCHANGED table
    BY <1>3 DEF Step, GetMax, GetAllTransactions, Send, SendFails
  <1>4. CASE \E v \in Workers : Timeout(v) \/ \E m \in Messages : Deliver(v, m)
    BY <1>4 DEF Timeout, Deliver
  <1>5. CASE Crash
    BY <1>5 DEF Crash
  <1>6. QED
    BY <1>1, <1>2, <1>3, <1>4, <1>5 DEF Next

\* Only the two sends send, and they write no rows.
LEMMA SentChanges ==
  ASSUME Next
  PROVE  \/ UNCHANGED sent
         \/ /\ UNCHANGED table
            /\ \E v \in Workers :
                 run[v].at \in {"accept", "complete"} /\ sent' = sent \cup {Answer(v)}
  <1>1. ASSUME NEW v \in Workers, Send(v) \/ SendFails(v)
        PROVE  \/ UNCHANGED sent
               \/ /\ UNCHANGED table
                  /\ run[v].at \in {"accept", "complete"} /\ sent' = sent \cup {Answer(v)}
    BY <1>1 DEF Send, SendFails
  <1>2. ASSUME NEW v \in Workers, Step(v), ~Send(v), ~SendFails(v)
        PROVE  UNCHANGED sent
    BY <1>2 DEF Step, GetMax, SaveTransaction, GetAllTransactions, QueryFails
  <1>3. CASE \E v \in Workers : Timeout(v) \/ \E m \in Messages : Deliver(v, m)
    BY <1>3 DEF Timeout, Deliver
  <1>4. CASE Crash
    BY <1>4 DEF Crash
  <1>5. QED
    BY <1>1, <1>2, <1>3, <1>4 DEF Next

LEMMA InsertFollows ==
  ASSUME Inv, NEW w \in Workers, run[w].at = "save", Insert(w)
  PROVE  /\ Len(table') = Len(table) + 1
         /\ table'[Len(table')].order = run[w].max + 1
         /\ \E k \in run[w].known..Len(table) : Largest(run[w].max, k, table)
  <1>1. run[w] \in RunType /\ GoodRun(run[w], w, table) /\ run[w] # Idle /\ run[w].msg \in Messages
    BY Running
  <1>2. /\ run[w].max \in Nat
        /\ \E k \in run[w].known..Len(table) : Largest(run[w].max, k, table)
    BY <1>1 DEF GoodRun, RunType
  <1> DEFINE row == [agent |-> run[w].msg.agent, tx |-> run[w].msg.id,
                     order |-> run[w].max + 1, by |-> w]
  <1>3. row \in Row
    BY <1>1, <1>2 DEF Row, Agents
  <1>4. table \in Seq(Row) /\ table' = Append(table, row)
    BY DEF Inv, GoodTable, Insert
  <1>5. row.order = run[w].max + 1
    OBVIOUS
  <1> HIDE DEF row
  <1>6. Len(table') = Len(table) + 1 /\ table'[Len(table')] = row
    BY <1>3, <1>4
  <1>7. QED
    BY <1>2, <1>5, <1>6

\* However late a handler saves, its order is above all orders that were in
\* the table when its message came.
THEOREM OrdersFollowTime == Spec => OrderFollowsTime
  <1>1. Inv /\ [Next]_vars =>
          [\A w \in Workers : Len(table') > Len(table) /\ run'[w] # run[w] =>
             \A i \in 1..run[w].known : table[i].order < table'[Len(table')].order]_vars
    <2> SUFFICES ASSUME Inv, Next, NEW w \in Workers, Len(table') > Len(table), run'[w] # run[w],
                        NEW i \in 1..run[w].known
                 PROVE  table[i].order < table'[Len(table')].order
      OBVIOUS
    <2>1. Len(table) \in Nat /\ \A j \in 1..Len(table) : table[j].order \in Nat
      BY TableDomain DEF Inv, Row
    <2>2. run[w].at = "save" /\ Insert(w)
      BY <2>1, TableChanges
    <2>3. PICK k \in run[w].known..Len(table) : Largest(run[w].max, k, table)
      BY <2>2, InsertFollows
    <2>4. run[w].known \in Nat /\ run[w].max \in Nat
      BY <2>2, Running DEF RunType
    <2>5. i \in 1..k /\ i \in 1..Len(table)
      BY <2>1, <2>3, <2>4
    <2>6. table[i].order <= run[w].max
      BY <2>3, <2>5 DEF Largest
    <2>7. table'[Len(table')].order = run[w].max + 1
      BY <2>2, InsertFollows
    <2>8. QED
      BY <2>1, <2>4, <2>5, <2>6, <2>7
  <1>2. QED
    BY <1>1, InitInv, NextInv, PTL DEF Spec, OrderFollowsTime

\* A report holds the rows of its agent that were there when it was asked
\* for, and no row of another agent, whatever is saved meanwhile.
THEOREM ReportsAreFaithful == Spec => ReportFaithful
  <1>1. Inv /\ [Next]_vars =>
          [\A r \in sent' \ sent : r.state = "completed" =>
             \E w \in Workers :
               /\ run[w].msg = r.re
               /\ RowsOf(r.re.agent) \cap 1..run[w].known \subseteq r.report
               /\ r.report \subseteq RowsOf(r.re.agent)]_vars
    <2> SUFFICES ASSUME Inv, Next, NEW r \in sent' \ sent, r.state = "completed"
                 PROVE  \E w \in Workers :
                          /\ run[w].msg = r.re
                          /\ RowsOf(r.re.agent) \cap 1..run[w].known \subseteq r.report
                          /\ r.report \subseteq RowsOf(r.re.agent)
      OBVIOUS
    <2>1. PICK w \in Workers : run[w].at \in {"accept", "complete"} /\ r = Answer(w)
      BY SentChanges
    <2>2. r.re = run[w].msg /\ r.report = run[w].report /\ run[w].at = "complete"
      BY <2>1, AnswerGood
    <2>3. GoodRun(run[w], w, table) /\ run[w] # Idle
      BY <2>1, Running
    <2>4. DOMAIN table = 1..Len(table)
      BY TableDomain DEF Inv
    <2>5. /\ RowsOf(r.re.agent) \cap 1..run[w].known \subseteq r.report
          /\ r.report \subseteq RowsOf(r.re.agent)
      BY <2>2, <2>3, <2>4 DEF RowsOf, GoodRun
    <2>6. QED
      BY <2>2, <2>5
  <1>2. QED
    BY <1>1, InitInv, NextInv, PTL DEF Spec, ReportFaithful

---------------------------------------------------------------------------
(* The refinement. *)

EntryType == [agent : Agents, tx : {m.id : m \in Messages}, order : Nat]

\* What Log makes of a table.
LogOf(t) ==
  [i \in DOMAIN t |-> [agent |-> t[i].agent, tx |-> t[i].tx, order |-> t[i].order]]

LEMMA LogOfIs ==
  ASSUME NEW t, GoodTable(t)
  PROVE  /\ DOMAIN LogOf(t) = 1..Len(t)
         /\ \A i \in 1..Len(t) :
              LogOf(t)[i] = [agent |-> t[i].agent, tx |-> t[i].tx, order |-> t[i].order]
         /\ LogOf(t) \in Seq(EntryType)
         /\ Len(LogOf(t)) = Len(t)
  <1> DEFINE log == LogOf(t)
  <1>1. Len(t) \in Nat /\ DOMAIN t = 1..Len(t) /\ \A i \in 1..Len(t) : t[i] \in Row
    BY DEF GoodTable
  <1>2. /\ DOMAIN log = 1..Len(t)
        /\ \A i \in 1..Len(t) :
             log[i] = [agent |-> t[i].agent, tx |-> t[i].tx, order |-> t[i].order]
    BY <1>1 DEF LogOf
  <1>3. log \in [1..Len(t) -> EntryType]
    BY <1>1 DEF LogOf, Row, EntryType
  <1> HIDE DEF log
  <1>4. log \in Seq(EntryType)
    BY <1>1, <1>3, SeqDef
  <1>5. Len(log) = Len(t)
    BY <1>1, <1>2, <1>4
  <1>6. QED
    BY <1>2, <1>4, <1>5 DEF log

LEMMA LogIs ==
  ASSUME Inv
  PROVE  /\ Log = LogOf(table)
         /\ DOMAIN Log = 1..Len(table) /\ Len(Log) = Len(table)
         /\ \A i \in 1..Len(table) :
              /\ Log[i].agent = table[i].agent
              /\ Log[i].tx = table[i].tx
              /\ Log[i].order = table[i].order
  <1>1. Log = LogOf(table) /\ GoodTable(table)
    BY DEF Log, LogOf, Inv
  <1>2. /\ DOMAIN Log = 1..Len(table) /\ Len(Log) = Len(table)
        /\ \A i \in 1..Len(table) :
             Log[i] = [agent |-> table[i].agent, tx |-> table[i].tx, order |-> table[i].order]
    BY <1>1, LogOfIs
  <1>3. QED
    BY <1>1, <1>2

\* A row more is an entry more.
LEMMA EnterStep ==
  ASSUME Inv, Inv', NEW w \in Workers, run[w].at = "save", Insert(w), UNCHANGED sent
  PROVE  Numbered!Next
  <1> DEFINE m == run[w].msg
             entry == [agent |-> m.agent, tx |-> m.id, order |-> run[w].max + 1]
  <1>1. m \in Messages
    BY Running
  <1>2. PICK k \in run[w].known..Len(table) : Largest(run[w].max, k, table)
    BY InsertFollows
  <1>3. run[w].known \in Nat /\ run[w].max \in Nat /\ Len(table) \in Nat /\ k \in 0..Len(table)
    BY <1>2, Running, TableDomain DEF RunType, Inv
  <1>4. /\ Len(table') = Len(table) + 1
        /\ \A i \in 1..Len(table) : table'[i] = table[i]
    BY InsertStep DEF GrowsBy
  <1>5. /\ table'[Len(table) + 1].agent = m.agent
        /\ table'[Len(table) + 1].tx = m.id
        /\ table'[Len(table) + 1].order = run[w].max + 1
    BY <1>4, InsertStep, InsertFollows DEF Records
  <1>6. Log' = Append(Log, entry)
    <2>1. GoodTable(table) /\ GoodTable(table')
      BY DEF Inv
    <2>2. Log = LogOf(table) /\ Log' = LogOf(table')
      BY DEF Log, LogOf
    <2>3. /\ Log \in Seq(EntryType) /\ Log' \in Seq(EntryType)
          /\ Len(Log) = Len(table) /\ Len(Log') = Len(table) + 1
      BY <1>4, <2>1, <2>2, LogOfIs
    <2>4. entry \in EntryType
      BY <1>1, <1>3 DEF Agents, EntryType
    <2>5. \A i \in 1..Len(table) : Log'[i] = Log[i]
      <3>1. ASSUME NEW i \in 1..Len(table)
            PROVE  LogOf(table')[i] = LogOf(table)[i]
        <4>1. i \in 1..Len(table')
          BY <1>3, <1>4
        <4>2. LogOf(table)[i] =
                [agent |-> table[i].agent, tx |-> table[i].tx, order |-> table[i].order]
          BY <2>1, LogOfIs
        <4>3. LogOf(table')[i] =
                [agent |-> table'[i].agent, tx |-> table'[i].tx, order |-> table'[i].order]
          BY <2>1, <4>1, LogOfIs
        <4>4. QED
          BY <1>4, <4>2, <4>3
      <3>2. QED
        BY <2>2, <3>1
    <2>6. Log'[Len(table) + 1] = entry
      <3>1. Len(table) + 1 \in 1..Len(table')
        BY <1>3, <1>4
      <3>2. QED
        BY <1>5, <2>1, <2>2, <3>1, LogOfIs
    <2> HIDE DEF entry
    <2>7. QED
      BY <1>3, <2>3, <2>4, <2>5, <2>6
  <1>7. Numbered!Enter(m.agent, m.id)
    <2>1. /\ run[w].max \in Numbered!Seen(k)
          /\ \A n \in Numbered!Seen(k) : n <= run[w].max
      <3>1. \A i \in 1..k : Log[i].order = table[i].order
        BY <1>3, LogIs
      <3>2. QED
        BY <1>2, <1>3, <3>1 DEF Largest, Numbered!Seen
    <2>2. k \in 0..Len(Log)
      BY <1>3, LogIs
    <2>3. UNCHANGED Accepted
      BY DEF Accepted
    <2>4. QED
      BY <1>6, <2>1, <2>2, <2>3 DEF Numbered!Enter
  <1>8. m.agent \in Agents /\ m.id \in {n.id : n \in Messages}
    BY <1>1 DEF Agents
  <1>9. QED
    BY <1>7, <1>8 DEF Numbered!Next

\* An acceptance is one of an entry; any other reply is none.
LEMMA AcceptStep ==
  ASSUME Inv, NEW w \in Workers, run[w].at \in {"accept", "complete"},
         sent' = sent \cup {Answer(w)}, UNCHANGED table
  PROVE  Numbered!Next \/ UNCHANGED <<Log, Accepted>>
  <1> DEFINE m == run[w].msg
  <1>1. UNCHANGED Log
    BY DEF Log
  <1>2. Answer(w).re = m /\ m \in Messages
    BY AnswerGood, Running
  <1>3. CASE Transaction(m)
    <2>1. PICK i \in 1..Len(table) : Records(table[i], m)
      BY <1>3, AnswerGood
    <2>2. \E j \in DOMAIN Log : Log[j].agent = m.agent /\ Log[j].tx = m.id
      BY <2>1, LogIs DEF Records
    <2>3. Accepted' = Accepted \cup {[agent |-> m.agent, tx |-> m.id]}
      BY <1>2, <1>3 DEF Accepted
    <2>4. m.agent \in Agents /\ m.id \in {n.id : n \in Messages}
      BY <1>2 DEF Agents
    <2>5. Numbered!Accept(m.agent, m.id)
      BY <1>1, <2>2, <2>3 DEF Numbered!Accept
    <2>6. QED
      BY <2>4, <2>5 DEF Numbered!Next
  <1>4. CASE ~Transaction(m)
    <2>1. UNCHANGED Accepted
      BY <1>2, <1>4 DEF Accepted
    <2>2. QED
      BY <1>1, <2>1
  <1>5. QED
    BY <1>3, <1>4

\* The table and the replies implement the abstract log of Ledger: a row is
\* numbered one above the largest order that its handler saw, and only what
\* is recorded is accepted, under any overlap, repetition, fault or restart.
THEOREM TableIsLedger == Spec => ImplementsLedger
  <1>1. Init => Numbered!Init
    BY DEF Init, Numbered!Init, Log, Accepted
  <1>2. Inv /\ Inv' /\ [Next]_vars => [Numbered!Next]_<<Log, Accepted>>
    <2> SUFFICES ASSUME Inv, Inv', [Next]_vars
                 PROVE  Numbered!Next \/ UNCHANGED <<Log, Accepted>>
      OBVIOUS
    <2>1. CASE UNCHANGED <<table, sent>>
      BY <2>1 DEF Log, Accepted
    <2>2. CASE Next /\ table' # table
      BY <2>2, TableChanges, EnterStep
    <2>3. CASE Next /\ sent' # sent
      BY <2>3, SentChanges, AcceptStep
    <2>4. QED
      BY <2>1, <2>2, <2>3 DEF vars
  <1>3. QED
    BY <1>1, <1>2, InitInv, NextInv, PTL DEF Spec, ImplementsLedger, Numbered!Spec
=============================================================================
