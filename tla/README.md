# A verification of the Aries Guardianship Agency

TLA+ models of the agency in this repository, TLC runs that check them on small
instances, and TLAPS proofs of what matters most for every instance. Paths below
are those of the repository (`src/manager/...` is `src/src/manager/...` in
`PROJECT.json`).

## 1. The system

The agency is one NestJS process. It runs ACA-Py agents in containers, one per
guardian or one for many wallets, proxies their traffic, and keeps a table of
the credit transactions they report. Node runs one continuation at a time and
switches at every `await`, so everything between two awaits is atomic and
nothing else is: no lock, no database transaction and no queue protects any
operation.

| component | state | operations | talks to |
|---|---|---|---|
| agent manager (`manager/agent.manager.service.ts`) | cache entry per agent; one timer per spin-up with a ttl | spinUpAgent, spinDownAgent, connectAgent, handleAlreadyRunningContainer, pingConnectionWithRetry, setSpinDownJob | cache, container host, the agent's admin API |
| configuration (`manager/agent.config.ts`) | none | defaults of ttl and ports, ACA-Py arguments | - |
| Docker host (`manager/docker.service.ts`) | containers at the daemon | startAgent: create, start, attach logs; stopAgent: stop | Docker daemon |
| Kubernetes host (`manager/k8s.service.ts`) | pods and services at the API server | startAgent: create pod, create service; stopAgent: delete service, delete pod | Kubernetes API |
| multitenant wallets (`multitenant/mulittenant.service.ts`) | cache entry per wallet name | createWallet, removeWallet, getTokenAndWalletId, handleCacheMiss, addWalletToCache | cache, one multitenant ACA-Py agent |
| webhook controller (`controller/`) | none | handleRequest: find the entry of the agent, run a handler | cache, aries-controller |
| transaction messages (`transactions/`, `transactions/messaging/`) | locals of each handler | basicMessageHandler, TransactionMessageHandler, ReportMessageHandler, GrantMessageHandler | database, the agent's admin API |
| transaction persistence (`transactions/persistence/`) | table `agent_transactions` | saveTransaction, getAllTransactions, getMaxMerkelOrder | database |
| TDC registration (`transactions/transaction.service.ts`) | none of its own | registerWithTDC, registerOnetimeKey, getOneTimeKeyIds | cache, agents, the data controller (TDC) |
| router (`router/`) | none | reverse proxy by path | agents |
| cache module (`app/global.cache.module.ts`) | the store (file system or Redis) | get, set, del | - |
| shell (`app/`, `main.ts`) | none | ping, health, wiring | - |

Components share state in three places: the **cache** (manager, wallets,
webhooks and registration all use the same keys: agent ids and wallet names, which
nothing keeps apart; webhooks take key and port from an entry, registration takes
the key from it and the port from the environment),
the **container host** (every request and every timer for an agent acts on the
same two objects) and the **table** (every handler reads its maximum and adds to
it).

### What is hard

* *Interleaving.* Two requests for an agent, or a request and a timer, are in the
  middle of their two host calls at the same time. Only the host's refusals
  (409, 404, 304) keep them apart.
* *Time.* A timer is armed by every spin-up with a ttl and never cancelled; the
  cache entry has a lifetime of its own; the retry loop has a third clock.
* *Exceptions as control flow.* Any exception of `startAgent` means "already
  running"; any exception of `spinDownAgent` is logged and answered with 200;
  "already exists" at the multitenant agent means "it is in the cache".
* *Half-done work.* A start or a stop is two calls, a wallet creation is three
  steps, a transaction is read, written and answered.
* *Retries and repeats.* `requestWithRetry` repeats calls whose answer was lost;
  agents post a webhook again when it got an error.
* *Restart.* Timers and requests are lost; the host, the cache and the table stay.

The list, each item at its line, is `hazards` in `PROJECT.json`.

### What makes each component correct

* agent manager: an agent is never left half-made by requests that get in each
  other's way (`NoHalfAgents`); an agent with a ttl always has its end scheduled
  (`ExpiryIsScheduled`) and gets it (`ExpiredAgentStops`), not earlier
  (`AgentLivesItsTtl`, which the code does not keep, and `OwnTimerIsPunctual`,
  the part of it that it does keep); a running agent is in the cache under the key
  and port it was started with, unless a request that was not for it as it runs
  rewrote the entry (`UpIsCached`); a delete deletes (`DeleteRemovesAgent`); every request is
  answered (`EveryCallAnswers`), within a number of steps that no other request can
  add to (`StepsRunOut`); seen from outside it is the lifecycle of
  `AgentLifecycle`.
* wallets: a wallet is handed out for its own name and key only
  (`OpenedWithItsKey`); with requests one at a time, moreover, only while it exists
  (`NoDeadWallet`, which overlapping requests break), a quiet cache is up to date
  (`CacheIsCurrent`) and a webhook runs with the token of the wallet that sent it
  (`WebhookUsesItsWallet`); seen from outside, whatever is
  cached, the endpoints keep the book of `WalletBook`.
* webhooks and registration: an agent that is up and undisturbed is served at every
  await, whatever keys, ports and ttls other requests give and whatever wallets write
  under its id (`ServedWhileUp`), on a port of its own too (`RegisteredWhileUp`, which
  the code does not keep); registrations that overlap each keep to an invitation of
  their own, and a caller who was told of a registration has it (`OwnInvitations`);
  agents under a wallet's name do not lead to a wallet's being opened or removed for a
  wrong key (`WalletKeysKept`, `WalletsKeepTheBook`).
* transactions: orders have no gap (`OrdersContiguous`), repeat only under
  overlap (`CollisionsNeedOverlap`, `OrdersUnique`), and follow time
  (`OrderFollowsTime`); what was accepted is recorded (`AcceptedIsRecorded`); a
  report is complete and private (`ReportFaithful`); everything is answered
  (`EveryTransactionAnswered`, `EveryReportCompleted`); the table is the log of
  `Ledger`.

## 2. The modules

| module | models |
|---|---|
| `AgentConfig` | the conversions of a ttl and a port, the cache lifetime and the timer delay that follow from them |
| `DockerService`, `K8sService` | the two hosts: which call follows which, what the host accepts, what it keeps |
| `AgentManager` | the manager with all its requests, timers, cache entries, failures and the clock; picks a host by `MANAGER_TYPE`, as the constructor does |
| `AgentLifecycle` | abstract: the life of an agent as callers of `IAgentManager` see it |
| `Multitenant` | createWallet, removeWallet and the webhooks of wallets over the shared cache |
| `WalletBook` | abstract: which wallets callers of `src/multitenant` may be given or have removed; knows of no cache |
| `Transactions` | the message handlers over the table |
| `Ledger` | abstract: the numbered log that the table amounts to |
| `Agency` | the composition: `AgentManager` and `Multitenant` over one store, the webhooks of agents, `registerWithTDC` and the one-time keys, a restart of everything |
| `MC*` | instances for TLC |
| `*_proofs` | theorems and their proofs |

### AgentManager

`host[a]` is what the container host holds under an agent's name: a set of
objects (`container` and `started`, or `pod` and `service`), the key and the port
it was started with and whether its admin server is up. `cache[a]` is its entry.
A *thread* is a request in a slot (`<<c, "call">>`) or the timer callback it left
behind (`<<c, "job">>`); `pc` names the await it is at, `left` its countdown,
`arg` its `AgentConfig`.

| action | code |
|---|---|
| `SpinUp`, `SpinDown`, `Connect` | the routes of `AgentManagerController`, up to the first await |
| `StartCall`, `StartRefused`, `StartError` | one call of `startAgent`: accepted, refused, failed with or without effect; any exception goes to the recovery path |
| `StopCall`, `StopRefused`, `StopError` | one call of `stopAgent`; any exception ends `spinDownAgent` as a success |
| `Recover`, `RecoverSet`, `RecoverGet`, `RecoverConnect` | `handleAlreadyRunningContainer`, await by await |
| `CacheSet`, `SetSpinDownJob` | the rest of `spinUpAgent`: entry, then timer, then ping |
| `CacheDel` | the first await of `spinDownAgent` |
| `Lookup`, `PingAnswered`, `PingUnanswered`, `CreateConnection` | `connectAgent` and the end of `spinUpAgent` |
| `TimerFires` | the `setTimeout` callback |
| `AgentBoots`, `AgentExits`, `Crash`, `CacheError`, `Tick` | the environment |

History variables: `faulted` (agents whose objects a fault has touched and that
are still there), `upset` (running agents whose entry was last written by a request that
was not for them as they run), and in `host`, `lease` (what an agent's ttl still has to
run) and `by` (the slot of the request that started it). No action of the code reads
them.

A request is for an agent as it runs (`Suits`) if it gives the agent's key and port and a
ttl that the store keeps and that is no shorter than the agent's. Any other spin-up of a
running agent overwrites the entry as well, without asking the agent, and
`test/cache.behaviors.e2e-spec.ts` expects 201 for it; until a suitable request has
written the entry again the agent counts as `upset`, and nothing is claimed of its entry.

Abstractions: whole seconds; Docker's AutoRemove and the deletion of a pod are
immediate; the loss of a node is not modelled; the retries of `requestWithRetry`
are one call that succeeds or fails; a file field of an entry that nothing reads
back (url, webhook) is left out; the log attachment of Docker is left out, though
its callback can end the process, which is what `Crash` does. A `set` with no
lifetime (a ttl of 0) is kept for ever by one store and dropped
by the other, and the comment ("kept forever") and the test titles ("doesn't keep
it in cache") of the repository disagree: `ForeverKept` chooses. A negative ttl is given
to the store as it is, which may then apply its own default (`DEFAULT_CACHE_TTL`) or keep
the entry: `StoreTtl`. A store may answer a miss with `undefined` or with `null`, and
`handleAlreadyRunningContainer` helps itself only in the first case: `MissIsNull`.

### Multitenant

`wallets[n]` is the agent's wallet of a name, `made` (history) every wallet there
ever was: ids are never reused, and a token is as good as the id. `cache[n]` is
the entry, `run[c]` the locals of a request; `run[c].dead` (history) are the
wallets that were gone when it began. Every await is an action: `CallCreateWallet`
or `AlreadyExists`; then `GetTokenAndWalletId`, `CallGetAllWallets` and
`CallGetToken` on the already-exists path; `AddWalletToCache`;
`CallCreateConnection`. `removeWallet` is `GetWallet` and `CallRemoveWallet`;
`handleRequest` is `HandleRequest`. A call to the agent may fail, or take effect
and lose its answer (`...Lost`), after which the retry meets what it did: a create
goes through the agent again, where it finds its own first wallet, or nothing if
somebody has removed it meanwhile.

`WalletBook` is what is left when cache, tokens and the awaits are taken away: a
book of wallets by name and the calls on it. A create may make the wallet of a free
name, even if it then fails; it is answered with some wallet that was made with its
name and key, or not at all. A remove strikes out the wallet of its name, for its key
only, and is answered well only if it did. Nothing else changes the book.
`ImplementsWalletBook` maps `wallets` to the book and the locals of each request to
what its caller sees (`CallOf`): open, failed, or done with a wallet. `CurrentSpec`
asks moreover that the wallet of an answer be the one in the book (`GivesCurrent`);
`ImplementsCurrentBook` says so of `Multitenant` and holds only without overlap (see the
proofs).

A ttl may be any integer or missing; 0 and negative ones reach the store as in
`AgentManager`.

The multitenant agent is external: it is assumed to give every wallet a new id,
to check the key when it issues a token or removes a wallet, and to refuse tokens
of removed wallets.

### Transactions

`table` is `agent_transactions` in the order of its primary key; `queue` and
`attempts` stand for the agents that post webhooks, again after an error; `sent`
is what agents were asked to send. `run[w]` is a handler: `GetMax`,
`SaveTransaction`, `Send` for a transaction, `Send`, `GetAllTransactions`, `Send`
for a report, with `QueryFails`, `SendFails`, `Timeout` and `Crash` in between.
`run[w].known` and `table[i].by` are history. `OwnHost` are the agents that have
their admin API at the address the handlers make up. A report is a set of rows,
for the query has no ORDER BY; amounts, dates and hashes are left out.

### Agency

`Agency` extends `AgentManager` and takes the wallets as `W == INSTANCE Multitenant`.
Wallet names are agent ids. The store is one, but each side reads other fields of
an entry, so it appears twice: `cache` is what the manager, the webhooks and the
registration find under a key, `entries` what the wallets find. `AsAgent` and
`AsWallet` say how an entry written by one side looks to the other (an entry of a
wallet has the multitenant agent's key and no port; one of an agent has neither
walletId nor walletKey). Every step of the manager carries its writes over
(`ManagerWrites`), every step of the wallets too (`WalletsWrite`), so the views never
part; that is how the model is built and nothing that is checked of the code.

A *guest* is a slot for a request that only reads the store; `task[g]` are its
locals, with the key and the port it read before its last await. `invites` are the
invitations that agents made for the TDC, `tdc` those the TDC has registered. `fresh`
(history) are the guests that read the entry of an undisturbed agent which has been up
ever since.

| action | code |
|---|---|
| `ManagerStep`, `WalletStep` | the actions of the two modules, with what they do to the store |
| `PostAgentWebhook`, `HandleAgentWebhook`, `CallBack` | `AgentControllerService.handleRequest` for an agent of the manager: no entry ends in an exception before the fallback of line 21; a wallet's entry sends the answer to `MULTITENANT_URL`; else the handler calls the agent with the entry's key and port |
| `Register`, `GetAgentAdminApiKey`, `CreateAgentConnection`, `RegisterWithTDC` | `registerWithTDC`, await by await |
| `UseOneTimeKey`, `PassToTDC` | `registerOnetimeKey`, `getOneTimeKeyIds`: one call passed on; the agent in the path plays no part |
| `CreateAgentConnectionLost`, `RegisterFails`, `GuestFails` | a lost answer, after which `requestWithRetry` makes a second invitation; a failing TDC; a failing call or store |
| `AgencyCrash`, `AgencyTick` | a restart and a second, for every part at once |

Only agents whose webhook url is the agency's post to it (`agent.create.dto.ts:36`).
`MaxInvites` bounds the invitations.

## 3. The runs

Deadlock is checked in the runs of the manager, the wallets and the agency; a `Transactions`
instance has finitely many messages and stops when they are dealt with.

| run | question | instance | distinct states |
|---|---|---|---|
| `ManagerDocker` | do the safety properties and the lifecycle survive every fault on Docker, and does no step send a request back? | 1 agent, 2 slots, ttl negative, 0 and 1, every fault | 312,000 |
| `ManagerK8s` | does a running agent keep its entry, does a lone delete delete, does every request end, does every ttl? | Kubernetes, 1 agent, 2 slots, 2 keys, ttl 1 and 2, no faults, fairness | 184,000 |
| `TtlStaleTimer` | (violation) does an agent live its ttl? | 1 agent, 2 slots | - |
| `DeleteHalfMade` | (violation) does a delete remove a half-made agent? | 1 agent, 1 slot, a failing start | - |
| `TransactionsOverlap` | what do overlapping handlers, faults and repeats do to orders, acceptances and reports? | 2 transactions, 1 report, 2 agents, 2 handlers, 2 posts each, every fault | 2,140,000 |
| `TransactionsLiveness` | is everything answered, and is the table the abstract ledger? | 3 transactions, 1 report, 2 other messages, 2 handlers, fairness | 43,000 |
| `OrderCollision` | (violation) are orders unique? | 3 transactions, 2 handlers | - |
| `WalletsShared` | is a wallet ever opened or removed for a name or key not its own? | 1 name, 2 keys, 2 slots, 2 wallets, ttl negative, 0 and missing, every fault | 368,000 |
| `DeadWallet` | (violation) is a removed wallet ever handed out? | 1 name, 2 keys, 2 slots | - |
| `Agency` | what do agents, wallets, webhooks and registrations do to each other through the one cache? | Kubernetes, 1 agent whose id is a wallet name too, 2 agent keys, ttl 0 and 1, 1 slot of each kind, 2 wallet keys, 1 wallet, failing calls to the multitenant agent, a store that answers null | 862,000 |
| `Registrations` | does each of several registrations keep to its own invitation? | 2 agents, 1 manager slot, 2 guests, 3 invitations, lost answers, failing TDC, restarts | 526,000 |
| `CustomPort` | (violation) is an agent with a port of its own served? | 1 agent, no faults, registrations only | - |

Why the bounds are enough to be interesting. Agents never touch each other's
objects, so one agent shows every interaction (the proofs cover any number). Two
slots already give four threads: two requests and the two timers they leave. Ttls of
one and two seconds with a retry duration of one second let timers, retries and
entries run out in any order. `MaxTimeout` is above every ttl of the passing
runs. `MaxWallets` allows a name to be made, removed and made again while a
request of the first wallet is still under way. Two handlers and two posts of a
webhook give four rows and the overlap of a handler with its own repetition.

In `Agency` one name is agent and wallet at once and one slot of each kind is busy,
so a manager request or timer, a wallet request and a guest are always at their
awaits together; two keys let a spin-up replace the key in a running agent's entry, and
the wallet replace the entry altogether. Two manager requests at a time are the business
of `ManagerDocker` and `ManagerK8s`, and of the theorems, which have any number of
everything. `Registrations` leaves wallets and entry lifetimes out and has instead two
guests, each at either of two agents, and one more invitation than guests, so an
invitation whose answer was lost, one of the other guest and one's own exist at the same
time.

Fairness. `AgentManager` has weak fairness of every thread's step: Node runs a
continuation whose promise is settled, and the awaited calls answer or fail. The
clock has strong fairness: time passes however busy the agency is, while a due
continuation runs before the next whole second. Nothing is assumed of requests,
of an agent's boot or of faults. `Transactions` has weak fairness of handlers and
of the posting of a webhook. `EveryCallAnswers` does not need the agent to come
up: the retry loop ends by itself.

### What the violations show

1. `TtlStaleTimer`: an agent that was deleted and spun up again is taken down by
   the timer of its first life, before its own ttl. A repeated spin-up with a
   shorter ttl does the same.
2. `DeleteHalfMade`: on Kubernetes, after a start that failed between pod and
   service, every delete stops at the 404 of the service and answers 200; every
   later spin-up takes the pod for a running agent.
3. `OrderCollision`: two transactions that arrive together get the same
   `merkel_order`; the code's own TODO says so.
4. `DeadWallet`: `removeWallet` leaves the cache entry. A create that meets a
   wallet made since then, but not cached yet, is answered with the removed
   wallet's id and token, and caches them over the live one.
5. `CustomPort`: `createAgentConnection` (`transaction.service.ts:67`) calls the agent
   on the environment's `AGENT_ADMIN_PORT`, although the entry it has just read
   holds the agent's port (`agent.create.dto.ts:51` offers one of its own): such an
   agent can never be registered.

Other limits of the code that shaped the instances: a ttl above 2^31 - 1 ms makes
`setTimeout` fire at once (`TimerDelay` models it; no run exceeds `MaxTimeout`). A
spin-up of a running agent writes that agent's entry again, with its own ttl, key
and port: with a shorter ttl the entry can expire under a running agent, with another
key the agency calls the agent with the wrong one, so `UpIsCached` and `ServedWhileUp`
count a running agent as upset from such a write until a suitable one. Replies of the
transaction handlers go to `http://<agentId>:AGENT_ADMIN_PORT`, whatever address the webhook
came with, so an agent outside `OwnHost` is never answered. A
webhook of an agent without an entry ends in an exception at `agent.multitenant`, so
the fallback port of the next line is never used. An agent started or stopped under
a wallet's name takes the wallet's entry with it: the wallet can be opened again
only through the already-exists path.

## 4. The proofs

TLAPS checks every leaf; the only assumptions are the named ones of the modules
(`ConfigAssumption`, `ManagerAssumption`, `MultitenantAssumption`,
`TransactionsAssumption`, `AgencyAssumption`): constants have their types, `None` and
`Infinity` are not values of them, and wallet names are agent ids. Theorems that need
more than that state it as their hypothesis.

`AgentManager_proofs`. `TypeCorrect` and `NoHalfAgentsHolds`, for either host and
any fault. `NoHalfAgents` is not inductive: it does not say which objects a half-made agent
has, so the second call of its operation might be refused and leave it behind, nor
that arming a timer overwrites no callback that is half-way in a stop. The invariant proved is
`TypeOK /\ RoleOK /\ HalfOK`. `RoleOK`: a timer callback only takes agents down,
and no callback of a slot is left while the slot's request has yet to arm one.
`HalfOK`: the objects of an agent are nothing, everything, or `Half` (what the
first call of a start makes, which is also what the first call of a stop leaves),
and they are `Half` exactly while one thread is between its calls or a fault
touched the agent. The two hosts enter the proof only through `CallNames`,
`CallOrder`, `StartCallsWork`, `StopCallsWork` and `ExitWorks`, which say that a
start is refused unless there is nothing and a stop unless there is everything.

`DeletesAreDone` is in the same module: if no call fails and the process stays up
(`NoFailures`; agents may still exit), nothing is ever `faulted`, so a delete that is refused
met a half-made agent, whose maker is at work on it, or an agent that is gone.

`AgentManagerExpiry_proofs`. `ExpiryStaysScheduled`. `TimerOK` adds what
`ExpiryIsScheduled` leaves out: the thread at the second start call is the starter
on record, and a request on its way to the timer has a ttl that gets one. A timer
whose stop is refused shows why both are needed (`StopRefusedTimer`): the agent is
then half-made, by a thread that takes it down or by its starter, whose own timer
is not armed yet. Steps on one agent never matter to another (`TimerStep`).

`AgentManagerTimely_proofs`. Three theorems about the clocks, from the same lemmas about
what each step does to them. `OwnTimerKeepsTime` needs every delay to be one that
`setTimeout` can hold (`TimersInRange`: a longer one fires at once). Its invariant
`PunctualOK`: while an agent with a ttl is up, the slot that started it is about to arm a
timer for at least what the lease has left, or has it armed with at least that, or is
taking the agent down with the lease over. `UpStaysCached` holds for any keys, ports and
ttls; `EntriesAre` only says that an entry is told apart from none. `UpIsCached` is not
inductive, for it does not say how long the entry has: `CachedOK` adds that the entry of
an agent that is up and not upset is kept for ever, or that the slot that started the
agent is about to arm a timer that ends before the entry does, or has it armed
(`Keeps`). A suitable rewrite by another request gives the entry no less than the
starter's ttl and a second, and the starter's timer has no more than the ttl left
(`TimersOK`).

`RequestsRunOut` is the part of `EveryCallAnswers` that needs no fairness. `Ahead(t)` counts
the awaits before a thread's end, two for every second of retries it has left, 9 + 2 *
`RetryDuration` at most; the theorem says that every step of the thread makes it less. So
whatever others do to its agent, its entry or the host, a request is never sent back, and
it ends if its awaits do. Only one thing has to be invariant for that: a thread that waits a second
has a second left (`DelayOK`).

`AgentManagerLifecycle_proofs`. `ManagerIsLifecycle`, from the invariant of
`NoHalfAgentsHolds`: the phase of an agent is a function of its objects and of who
is half-way on it (`PhaseIs`), every accepted call is a move of one agent
(`HostCallPhase`), a restart strands the half-made ones (`CrashPhase`), and all
other steps stutter (`SameIsStutter`).

`Multitenant_proofs`. `WalletsTypeCorrect` and `KeysAreRespected`. The invariant is
`MadeOK /\ WalletsOK /\ CacheOK /\ RunOK`: ids in `made` are never reused, what
lives was made, an entry describes a wallet that was made with its name and key
(alive or not), and so do the locals of a request past the point where it learnt
them. The step that matters is the write of the cache: it stores what the request
holds in its locals, which may be long out of date but is a wallet of that name
and key.

`WalletsAreKeptByTheBook` is the refinement of `WalletBook`. It needs two more facts of the
locals, which `GoodRun` has for it: a remove that found an id in the cache holds an id of a
wallet of its own name (or none, if an agent's entry was there), and a request keeps the
name and the key it came with to its end. `MoveCalled` says what a caller sees of a step,
`MakeStep`, `GiveStep` and `StrikeStep` which action of the book it is, `QuietStep` that all
others are stutters or failures.

This module is written so that others may write entries in between: `Agency_proofs`
uses it through `INSTANCE`.

`MultitenantSerial_proofs`. What the wallets promise when requests come one at a time and
none fails (`Serial`): `SerialWalletsLive`, `SerialCacheIsCurrent`,
`SerialWebhooksAreTheirs`, `SerialWalletsAreCurrent` (the refinement of `CurrentSpec`).
`SerialOK` says why it works although `removeWallet` leaves its
entry behind: a left-over entry belongs to a name that has no wallet, a new wallet of the
name replaces it before the request ends, and nobody looks in between. `DeadWallet` is
what happens when somebody does. These four are proved and not run.

`Agency_proofs`. Nine theorems about the composition. Eight come from `AgencyInv ==
ManagerOK /\ WP!Inv /\ OneStore /\ TdcOK`. The parts meet only in the store, so each
keeps its own invariant and the proof is about what crosses over: an entry of the other
side has the types each side expects, is never taken for a wallet (its id is `None`), and
leaves what the manager's invariants speak of alone or makes the agent `upset`.
`OneStore`, that the two views of the store agree, is a fact about the model that the
proof needs, not a result. A step of the manager is a step of `AgentManager`, so the
refinement of the lifecycle carries over (`AgencyIsLifecycle`), as do
`RequestsRunOutInAgency` and `OwnTimerKeepsTimeInAgency`; a step of the wallets is one of
`Multitenant`, and no other step changes what their callers see (`AgencyKeepsTheBook`).
`TdcOK` says what each guest's locals are worth at each await (`GoodTask`) and that no two
registrations hold one invitation (`InvitationsAreOwn`).

`UpIsServed`, the ninth, says that a webhook or a registration of an agent that is up, and
was undisturbed when its entry was read, is not turned away, whatever keys, ports and ttls
requests give, a registration of an agent on a port of its own apart (`CustomPort`).
`ServedInv` adds two facts to `AgencyInv`: what runs has a port, which tells its entry from
a wallet's (`PortsOK`), and what a guest in `fresh` holds is what its agent was started
with (`FreshOK`), since nobody can start an agent that is up.

`Transactions_proofs`. Four invariants, two action properties, the refinement and
`OneHandlerNumbersUniquely` (the orders of `OrderCollision` are unique if handlers do not
overlap), from one inductive invariant: `GoodTable` (rows have types, orders have no gap and
a handler never wrote one twice), `GoodSent` (an acceptance has its row),
`QueueOK`, and for each handler `GoodRun`: the maximum in its locals is the
largest order of the first `k` rows for some `k` that covers the rows it began
with and every row it wrote. That `k` is the witness for `OrdersFollowTime`, for
`CollisionsAreOverlaps` and for the step of `Ledger` that a save is
(`EnterStep`); the rows appended by others never disturb it (`OthersRun`).
`TableIsLedger` maps the table to the log (`LogIs`) and each send to an acceptance
or a stutter (`AcceptStep`).

Left to TLC: liveness, which needs fairness and ENABLED (`EveryCallAnswers`,
`ExpiredAgentStops`, `EveryTransactionAnswered`, `EveryReportCompleted`). Every other
property of a passing run is a theorem, the ones with a hypothesis under that hypothesis.

## 5. Not modelled

* Router: it forwards a path to an agent and keeps nothing. Shell and wiring: no state.
* `isReadyPod` of the Kubernetes host: private, and nothing calls it.
* `getStartArgs` and the labels of ACA-Py arguments: wording. What the manager relies
  on, ports and ttl, is in `AgentConfig`. Two promises of `agent.create.dto.ts` are
  outside the models for the same reason: no default label is ever filled in, and
  the pattern of agentId is not anchored.
* The log stream of Docker, pod and service manifests, formatting of messages.
* The cache stores, Docker, Kubernetes, ACA-Py, the TDC, the database,
  aries-controller and protocol-common: external, modelled by what the code in
  `src/` relies on.

## 6. Plan

Done: the manager with both hosts and its lifecycle, the wallets and their book, the
transactions and the ledger, the composition with webhooks and registrations over one
cache, and the theorems above. What would come next:

1. An agency with two names, one of them a wallet's only, once the state space
   allows it: by `AgencyKeepsTheBook` and `AgencyIsLifecycle` it adds no
   safety hazard.
