------------------------------- MODULE Agency -------------------------------
(***************************************************************************)
(* The agency as one process: the manager of AgentManager, the wallets of  *)
(* Multitenant, and the services that only read what those two write: the  *)
(* webhooks of src/controller and the registrations of src/transactions.   *)
(* Agent ids and wallet names are keys of one cache, so a name may be both.*)
(*                                                                         *)
(* The store is one.  cache is what the manager finds in it and entries    *)
(* what the wallets find: an entry written by the one is in the other with *)
(* the fields that its writer did not set missing.                         *)
(*                                                                         *)
(* A guest g \in Guests is a slot for a request of the reading services.   *)
(***************************************************************************)
EXTENDS AgentManager, Sequences

CONSTANTS
  WalletNames,  \* the agent ids that are wallet names too
  WalletKeys, WalletCalls, WalletTtls, WalletOps, WalletFaults, MaxWallets,
  ACAPY_ADMIN_API_KEY,  \* the multitenant agent's key, in the entry of every wallet
  Guests,
  GuestOps,     \* which of "webhook", "register", "oneTimeKey" arrive
  GuestFaults,  \* which of "cache", "agent", "tdc", "crash" happen
  MaxInvites    \* bound: invitations ever made for the TDC

\* The wallets' view of an entry.
EntryType == [id : Nat \cup {None}, key : WalletKeys \cup {None}, left : Nat \cup {None}]

ASSUME AgencyAssumption ==
  /\ WalletNames \subseteq Agents
  /\ ACAPY_ADMIN_API_KEY \in Keys
  /\ WalletTtls \subseteq Int \cup {None}
  /\ MaxWallets \in Nat
  /\ None \notin WalletKeys
  /\ None \notin CacheType \cup EntryType
  /\ MaxInvites \in Nat

VARIABLES
  made, wallets, entries, run,  \* the variables of Multitenant, its cache as entries
  invites,  \* agent of every invitation made for the TDC, by its number
  tdc,      \* the invitations the TDC has registered
  task,     \* guest -> the locals of its request
  fresh     \* history: guests whose agent was undisturbed when they read its entry,
            \* and is up ever since

managerVars == <<host, pc, left, arg, faulted>>
walletVars == <<made, wallets, run>>
tdcVars == <<invites, tdc>>
agencyVars == <<vars, walletVars, entries, tdcVars, task, fresh>>

\* The wallets write no lifetime where the manager writes Infinity.
WalletStoreTtl == IF StoreTtl = Infinity THEN None ELSE StoreTtl

W == INSTANCE Multitenant WITH
       Names <- WalletNames, Keys <- WalletKeys, Calls <- WalletCalls, DtoTtls <- WalletTtls,
       Ops <- WalletOps, Faults <- WalletFaults, StoreTtl <- WalletStoreTtl, cache <- entries

---------------------------------------------------------------------------
(* The shared store. *)

\* A wallet's entry as the manager reads it: it has no adminApiPort.
AsAgent(e) ==
  IF e = None THEN None
  ELSE [key |-> ACAPY_ADMIN_API_KEY, port |-> None,
        left |-> IF e.left \in Nat THEN e.left ELSE Infinity]

\* An agent's entry as the wallets read it: it has no walletId and walletKey.
AsWallet(e) ==
  IF e = None THEN None
  ELSE [id |-> None, key |-> None, left |-> IF e.left = Infinity THEN None ELSE e.left]

\* What one side wrote or deleted, the other side finds.
ManagerWrites ==
  entries' = [n \in WalletNames |->
                IF cache'[n] = cache[n] THEN entries[n] ELSE AsWallet(cache'[n])]

WalletsWrite ==
  /\ cache' = [a \in Agents |->
       IF a \in WalletNames /\ entries'[a] # entries[a] THEN AsAgent(entries'[a]) ELSE cache[a]]
  /\ upset' = upset \cup {a \in Agents : host[a].objs = Full /\ cache'[a] # cache[a]}

\* The entry's multitenant flag.
IsWallets(a) == a \in WalletNames /\ entries[a] # None /\ entries[a].id # None

---------------------------------------------------------------------------

NoTask == [at |-> "idle", op |-> "none", agent |-> None, key |-> None, port |-> None, inv |-> None]
Over == {"idle", "done", "misrouted", "failed", "error"}

AgencyInit ==
  /\ Init
  /\ W!Init
  /\ invites = <<>>
  /\ tdc = {}
  /\ task = [g \in Guests |-> NoTask]
  /\ fresh = {}

At(g, label) == task' = [task EXCEPT ![g].at = label]

\* Nothing of a request is kept but how it ended.
End(g, label) == task' = [task EXCEPT ![g] = [NoTask EXCEPT !.at = label]]

\* The request goes on to call the agent with this key on this port.
CallWith(g, label, key, port) ==
  task' = [task EXCEPT ![g] = [@ EXCEPT !.at = label, !.key = key, !.port = port]]

\* The agent's admin API answers the request's call.
Answers(g) == Reachable(task[g].agent, task[g].key, task[g].port)

Arrive(g, op, a, inv, label) ==
  /\ op \in GuestOps
  /\ task[g].at \in Over
  /\ task' = [task EXCEPT ![g] =
       [at |-> label, op |-> op, agent |-> a, key |-> None, port |-> None, inv |-> inv]]
  /\ UNCHANGED tdcVars

\* An agent that runs posts to its webhook url, v1/controller/<its id>.
PostAgentWebhook(g) ==
  \E a \in Agents :
    host[a].objs = Full /\ host[a].ready /\ Arrive(g, "webhook", a, None, "dispatch")

\* POST v2/transaction/<agentId>/register.
Register(g) == \E a \in Agents : Arrive(g, "register", a, None, "key")

\* POST v2/transaction/<agentId>/registerOnetimeKey or ids, about a connection
\* that the TDC has told the caller of.
UseOneTimeKey(g) == \E i \in tdc : Arrive(g, "oneTimeKey", invites[i], i, "pass")

---------------------------------------------------------------------------
(* AgentControllerService.handleRequest. *)

\* Without an entry it throws on agent.multitenant, before its own default
\* for the port; a wallet's entry sends the answer to MULTITENANT_URL.
HandleAgentWebhook(g) ==
  LET a == task[g].agent IN
  /\ task[g].at = "dispatch"
  /\ IF cache[a] = None THEN End(g, "failed")
     ELSE IF IsWallets(a) THEN End(g, "misrouted")
     ELSE CallWith(g, "callback", cache[a].key, cache[a].port)
  /\ UNCHANGED tdcVars

\* The handler calls the agent's admin API with what it was given.
CallBack(g) ==
  /\ task[g].at = "callback"
  /\ End(g, IF Answers(g) THEN "done" ELSE "failed")
  /\ UNCHANGED tdcVars

---------------------------------------------------------------------------
(* TransactionService.registerWithTDC and the one-time keys. *)

\* The key is the entry's, whoever wrote it; the port is the environment's.
GetAgentAdminApiKey(g) ==
  LET a == task[g].agent IN
  /\ task[g].at = "key"
  /\ IF cache[a] = None THEN End(g, "failed")
     ELSE CallWith(g, "invite", cache[a].key, AGENT_ADMIN_PORT)
  /\ UNCHANGED tdcVars

Invitation(g) == invites' = Append(invites, task[g].agent)

\* The request goes on to the TDC with its invitation.
Invited(g) ==
  task' = [task EXCEPT ![g] = [@ EXCEPT !.at = "register", !.inv = Len(invites) + 1]]

CreateAgentConnection(g) ==
  /\ task[g].at = "invite"
  /\ IF Answers(g)
     THEN Len(invites) < MaxInvites /\ Invitation(g) /\ Invited(g)
     ELSE End(g, "failed") /\ UNCHANGED invites
  /\ UNCHANGED tdc

\* The answer is lost with the invitation made, and the call is retried or
\* given up.
CreateAgentConnectionLost(g) ==
  /\ "agent" \in GuestFaults
  /\ task[g].at = "invite"
  /\ Answers(g)
  /\ Len(invites) < MaxInvites
  /\ Invitation(g)
  /\ UNCHANGED task \/ End(g, "error")
  /\ UNCHANGED tdc

\* Faulty variant: the service keeps the invitation, for one request at a time.
RegisterWithTDCShared(g) ==
  /\ task[g].at = "register"
  /\ tdc' = tdc \cup {Len(invites)}
  /\ task' = [task EXCEPT ![g] = [@ EXCEPT !.at = "done", !.inv = Len(invites)]]
  /\ UNCHANGED invites

\* The TDC is given the invitation; the agency keeps nothing of it.
RegisterWithTDC(g) ==
  /\ task[g].at = "register"
  /\ tdc' = tdc \cup {task[g].inv}
  /\ At(g, "done")
  /\ UNCHANGED invites

\* The TDC fails or, with the registration made, its answer is lost.
RegisterFails(g) ==
  /\ "tdc" \in GuestFaults
  /\ task[g].at = "register"
  /\ UNCHANGED tdc \/ tdc' = tdc \cup {task[g].inv}
  /\ End(g, "error")
  /\ UNCHANGED invites

\* registerOnetimeKey and getOneTimeKeyIds: one call each, passed on to the
\* TDC as it is; the agent named in the path plays no part.
PassToTDC(g) ==
  /\ task[g].at = "pass"
  /\ End(g, "done")
  /\ UNCHANGED tdcVars

\* A call or the store fails without effect.
GuestFails(g) ==
  /\ \/ "cache" \in GuestFaults /\ task[g].at \in {"dispatch", "key"}
     \/ "agent" \in GuestFaults /\ task[g].at \in {"callback", "invite"}
     \/ "tdc" \in GuestFaults /\ task[g].at = "pass"
  /\ End(g, "error")
  /\ UNCHANGED tdcVars

---------------------------------------------------------------------------

\* Where a request is about to call the agent with what it has read.
Calling == {"callback", "invite"}

\* Keeps the history of fresh.
Heed ==
  fresh' = {g \in Guests :
    /\ task'[g].at \in Calling
    /\ host'[task'[g].agent].objs = Full
    /\ IF task[g].at = task'[g].at THEN g \in fresh ELSE Undisturbed(task'[g].agent)}

ManagerStep ==
  /\ \/ \E c \in Calls : SpinUp(c) \/ SpinDown(c) \/ Connect(c)
     \/ \E t \in Threads : Step(t)
     \/ \E a \in Agents : AgentBoots(a) \/ AgentExits(a)
  /\ ManagerWrites
  /\ UNCHANGED <<walletVars, tdcVars, task>>
  /\ Heed

WalletStep ==
  /\ \E c \in WalletCalls :
       W!CreateWallet(c) \/ W!RemoveWallet(c) \/ W!PostWebhook(c) \/ W!Step(c)
  /\ WalletsWrite
  /\ UNCHANGED <<managerVars, tdcVars, task>>
  /\ Heed

GuestStep(g) ==
  /\ \/ PostAgentWebhook(g) \/ Register(g) \/ UseOneTimeKey(g)
     \/ HandleAgentWebhook(g) \/ CallBack(g)
     \/ GetAgentAdminApiKey(g) \/ CreateAgentConnection(g) \/ CreateAgentConnectionLost(g)
     \/ RegisterWithTDC(g) \/ RegisterFails(g) \/ PassToTDC(g) \/ GuestFails(g)
  /\ UNCHANGED <<vars, walletVars, entries>>
  /\ Heed

\* The process restarts: the requests of every part are lost together.
AgencyCrash ==
  /\ "crash" \in GuestFaults
  /\ \/ Crash
     \/ UNCHANGED vars /\ \A t \in Threads : pc[t] \in Quiet
  /\ \/ W!Crash
     \/ UNCHANGED <<walletVars, entries>> /\ \A c \in WalletCalls : run[c].at \in W!Quiet
  /\ task' = [g \in Guests |-> IF task[g].at \in Over THEN task[g] ELSE NoTask]
  /\ UNCHANGED tdcVars
  /\ Heed

AgencyTick == Tick /\ W!Tick /\ UNCHANGED <<tdcVars, task>> /\ Heed

AgencyNext ==
  \/ ManagerStep
  \/ WalletStep
  \/ \E g \in Guests : GuestStep(g)
  \/ AgencyCrash
  \/ AgencyTick

AgencySpec == AgencyInit /\ [][AgencyNext]_agencyVars

---------------------------------------------------------------------------
(* Properties. *)

Invs == DOMAIN invites

\* Agents that are spun up and down under a wallet's name replace and delete
\* its entry; a create is still only ever answered with a wallet of its own
\* name and key.
WalletKeysKept ==
  \A c \in WalletCalls : W!Granted(c) =>
    /\ run[c].id \in DOMAIN made
    /\ made[run[c].id] = [name |-> run[c].name, key |-> run[c].key]

\* The multitenant endpoints keep to the book of wallets, no request given or
\* removing a wallet but that of its own name and key, with entries in their
\* cache that agents wrote, deleted and let expire under the wallets' names.
WalletsKeepTheBook == W!ImplementsWalletBook

\* A webhook or a registration is turned away.
TurnedAway(g) == task[g].at \notin Over /\ task'[g].at \in {"failed", "misrouted"}

\* Its agent is up, and was undisturbed when its entry was read.
Steady(g) ==
  LET a == task[g].agent
  IN  /\ host[a].objs = Full /\ host[a].ready
      /\ IF task[g].at \in Calling THEN g \in fresh ELSE Undisturbed(a)

\* agent.create.dto.ts:36 lets the agency handle the webhooks of an agent: a
\* webhook or a registration of an agent that is up is not turned away, for
\* want of an entry, of the key or of the port it was started with, at any of
\* its awaits, whatever keys and ports other requests give and whatever is
\* written, deleted or expires between them.  A registration of an agent on a
\* port of its own is left out (RegisteredWhileUp).
ServedWhileUp ==
  [][\A g \in Guests :
       TurnedAway(g) /\ Steady(g) =>
         task[g].at = "invite" /\ host[task[g].agent].port # AGENT_ADMIN_PORT]_agencyVars

\* agent.create.dto.ts:51 lets an agent have a port of its own: such an agent
\* is served like any other.
RegisteredWhileUp == [][\A g \in Guests : ~(TurnedAway(g) /\ Steady(g))]_agencyVars

\* Registrations that overlap each hold an invitation of their own over the
\* two calls: it is of the agent they were called for, no two have the same,
\* and a caller who was told of a registration has that invitation at the TDC,
\* after lost answers, retries and restarts of the others.
OwnInvitations ==
  LET holders == {g \in Guests :
                    task[g].op = "register" /\ task[g].at \in {"register", "done"}}
  IN  /\ \A g \in holders :
           /\ task[g].inv \in Invs /\ invites[task[g].inv] = task[g].agent
           /\ task[g].at = "done" => task[g].inv \in tdc
      /\ \A g, h \in holders : task[g].inv = task[h].inv => g = h
=============================================================================
