---------------------------- MODULE Multitenant ----------------------------
(***************************************************************************)
(* src/multitenant: createWallet and removeWallet of MultitenantService    *)
(* against one multitenant ACA-Py agent, and the webhooks of its wallets   *)
(* that AgentControllerService.handleRequest dispatches.  All three share  *)
(* the cache entry kept under the wallet's name; nothing else ties them.   *)
(*                                                                         *)
(* The agent is external.  It gives every new wallet an id of its own; a   *)
(* token is as good as the id, and dies with the wallet.  Requests switch  *)
(* at every await; a slot c \in Calls is used again once it was answered.  *)
(***************************************************************************)
EXTENDS Integers, Sequences, FiniteSets

CONSTANTS
  Names,        \* wallet names
  Keys,         \* wallet keys
  Calls,        \* request slots
  DtoTtls,      \* ttl of a request: integers, None
  Ops,          \* which of "create", "remove", "webhook" arrive
  Faults,       \* which of "agent", "cache", "crash" happen
  MaxWallets,   \* bound: wallets ever made
  ForeverKept,  \* whether the cache store keeps an entry that has no lifetime
  StoreTtl,     \* what the store makes of a negative lifetime: its own default, or None
  DEFAULT_TTL_SECONDS,
  None

ASSUME MultitenantAssumption ==
  /\ DtoTtls \subseteq Int \cup {None}
  /\ DEFAULT_TTL_SECONDS \in Nat \ {0}
  /\ MaxWallets \in Nat
  /\ ForeverKept \in BOOLEAN
  /\ StoreTtl \in (Nat \ {0}) \cup {None}
  /\ None \notin Int
  /\ None \notin Keys

VARIABLES
  made,      \* history: name and key of every wallet ever made, by wallet id
  wallets,   \* the agent's wallets: name -> wallet id, or None
  cache,     \* name -> its entry: wallet id (and token), key, seconds left, or None
  run        \* slot -> the locals of its request

vars == <<made, wallets, cache, run>>

---------------------------------------------------------------------------

Alive == {wallets[n] : n \in Names} \ {None}

\* The multitenant agent opens or removes a wallet for its key only.
Opens(id, key) == id \in Alive /\ made[id].key = key

\* at is the await a request is at, id the wallet it works with, dead
\* history: the wallets that were gone when it began.
Idle ==
  [at |-> "idle", op |-> "none", name |-> None, key |-> None, ttl |-> None, auto |-> FALSE,
   id |-> None, dead |-> {}]

Quiet == {"idle", "done", "failed"}

Init ==
  /\ made = <<>>
  /\ wallets = [n \in Names |-> None]
  /\ cache = [n \in Names |-> None]
  /\ run = [c \in Calls |-> Idle]

GoTo(c, label) == run' = [run EXCEPT ![c].at = label]

\* The request goes on with a wallet.
Hold(c, id, label) == run' = [run EXCEPT ![c].at = label, ![c].id = id]

Begin(c, op, label, name, key, ttl, auto, id) ==
  /\ op \in Ops
  /\ run[c].at \in Quiet
  /\ run' = [run EXCEPT ![c] =
       [at |-> label, op |-> op, name |-> name, key |-> key, ttl |-> ttl, auto |-> auto,
        id |-> id, dead |-> DOMAIN made \ Alive]]
  /\ UNCHANGED <<made, wallets, cache>>

\* POST multitenant.
CreateWallet(c) ==
  \E name \in Names, key \in Keys, ttl \in DtoTtls, auto \in BOOLEAN :
    Begin(c, "create", "create", name, key, ttl, auto, None)

\* DELETE multitenant.
RemoveWallet(c) ==
  \E name \in Names, key \in Keys : Begin(c, "remove", "get", name, key, None, FALSE, None)

\* A wallet posts a webhook to v1/controller/<its name>.
PostWebhook(c) ==
  \E name \in Names :
    /\ wallets[name] # None
    /\ Begin(c, "webhook", "dispatch", name, None, None, FALSE, wallets[name])

---------------------------------------------------------------------------
(* createWallet. *)

Registered(c) ==
  /\ made' = Append(made, [name |-> run[c].name, key |-> run[c].key])
  /\ wallets' = [wallets EXCEPT ![run[c].name] = Len(made) + 1]

\* callCreateWallet answers with the new wallet and its token ...
CallCreateWallet(c) ==
  /\ run[c].at = "create"
  /\ wallets[run[c].name] = None
  /\ Len(made) < MaxWallets
  /\ Registered(c)
  /\ Hold(c, Len(made) + 1, "cacheSet")
  /\ UNCHANGED cache

\* ... or says "already exists", which only means that it is somewhere else ...
AlreadyExists(c) ==
  /\ run[c].at = "create"
  /\ wallets[run[c].name] # None
  /\ GoTo(c, "lookup")
  /\ UNCHANGED <<made, wallets, cache>>

\* ... or its answer is lost: requestWithRetry sends it once more, and finds
\* the wallet of the first try or that somebody removed it, or gives up.
CallCreateWalletLost(c) ==
  /\ "agent" \in Faults
  /\ run[c].at = "create"
  /\ wallets[run[c].name] = None
  /\ Len(made) < MaxWallets
  /\ Registered(c)
  /\ UNCHANGED run \/ GoTo(c, "failed")
  /\ UNCHANGED cache

\* Faulty variant: the key of the cached wallet is not compared.
GetTokenAndWalletIdAnyKey(c) ==
  /\ run[c].at = "lookup"
  /\ LET entry == cache[run[c].name]
     IN  IF entry = None THEN GoTo(c, "list") ELSE Hold(c, entry.id, "cacheSet")
  /\ UNCHANGED <<made, wallets, cache>>

\* getTokenAndWalletId: a cached wallet is handed out for its key; without an
\* entry the agent is asked.
GetTokenAndWalletId(c) ==
  /\ run[c].at = "lookup"
  /\ LET entry == cache[run[c].name]
     IN  IF entry = None THEN GoTo(c, "list")
         ELSE IF entry.key = run[c].key THEN Hold(c, entry.id, "cacheSet")
         ELSE GoTo(c, "failed")
  /\ UNCHANGED <<made, wallets, cache>>

\* handleCacheMiss looks the name up in the list of all wallets ...
CallGetAllWallets(c) ==
  /\ run[c].at = "list"
  /\ IF wallets[run[c].name] = None THEN GoTo(c, "failed")
     ELSE Hold(c, wallets[run[c].name], "token")
  /\ UNCHANGED <<made, wallets, cache>>

\* ... and asks for a token of that wallet with the caller's key.
CallGetToken(c) ==
  /\ run[c].at = "token"
  /\ GoTo(c, IF Opens(run[c].id, run[c].key) THEN "cacheSet" ELSE "failed")
  /\ UNCHANGED <<made, wallets, cache>>

\* Faulty variant: 0 is a lifetime like any other.
LifetimeZero(ttl) ==
  IF ttl = None THEN DEFAULT_TTL_SECONDS ELSE IF ttl < 0 THEN StoreTtl ELSE ttl

\* A missing ttl is the default, 0 is for ever (None), a negative one is given
\* to the store as it is.
Lifetime(ttl) ==
  IF ttl = None THEN DEFAULT_TTL_SECONDS
  ELSE IF ttl = 0 THEN None
  ELSE IF ttl < 0 THEN StoreTtl ELSE ttl

AfterCacheSet(c) == GoTo(c, IF run[c].auto THEN "connect" ELSE "done")

\* addWalletToCache.  A store that does not keep an entry without a lifetime
\* drops what it had under the name.
AddWalletToCache(c) ==
  /\ run[c].at = "cacheSet"
  /\ cache' = [cache EXCEPT ![run[c].name] =
       IF Lifetime(run[c].ttl) = None /\ ~ForeverKept THEN None
       ELSE [id |-> run[c].id, key |-> run[c].key, left |-> Lifetime(run[c].ttl)]]
  /\ AfterCacheSet(c)
  /\ UNCHANGED <<made, wallets>>

\* callCreateConnection with the token.
CallCreateConnection(c) ==
  /\ run[c].at = "connect"
  /\ GoTo(c, IF run[c].id \in Alive THEN "done" ELSE "failed")
  /\ UNCHANGED <<made, wallets, cache>>

---------------------------------------------------------------------------
(* removeWallet and handleRequest. *)

\* The wallet to remove is the cached one; without an entry there is none.
GetWallet(c) ==
  /\ run[c].at = "get"
  /\ IF cache[run[c].name] = None THEN GoTo(c, "failed")
     ELSE Hold(c, cache[run[c].name].id, "remove")
  /\ UNCHANGED <<made, wallets, cache>>

\* Faulty variant: the cached key is sent, which always fits.
CallRemoveWalletAnyKey(c) ==
  /\ run[c].at = "remove"
  /\ IF run[c].id \in Alive
     THEN /\ wallets' = [wallets EXCEPT ![made[run[c].id].name] = None]
          /\ GoTo(c, "done")
     ELSE GoTo(c, "failed") /\ UNCHANGED wallets
  /\ UNCHANGED <<made, cache>>

\* callRemoveWallet.  The cache entry stays.
CallRemoveWallet(c) ==
  /\ run[c].at = "remove"
  /\ IF Opens(run[c].id, run[c].key)
     THEN /\ wallets' = [wallets EXCEPT ![made[run[c].id].name] = None]
          /\ GoTo(c, "done")
     ELSE GoTo(c, "failed") /\ UNCHANGED wallets
  /\ UNCHANGED <<made, cache>>

\* Its answer is lost, and the retry finds no wallet.
CallRemoveWalletLost(c) ==
  /\ "agent" \in Faults
  /\ run[c].at = "remove"
  /\ Opens(run[c].id, run[c].key)
  /\ wallets' = [wallets EXCEPT ![made[run[c].id].name] = None]
  /\ GoTo(c, "failed")
  /\ UNCHANGED <<made, cache>>

\* handleRequest runs the webhook's handler with the cached token; without an
\* entry it throws on agent.multitenant.
HandleRequest(c) ==
  /\ run[c].at = "dispatch"
  /\ IF cache[run[c].name] = None THEN GoTo(c, "failed")
     ELSE Hold(c, cache[run[c].name].id, "done")
  /\ UNCHANGED <<made, wallets, cache>>

---------------------------------------------------------------------------
(* Failures and time. *)

\* A call to the agent fails without effect.
CallFails(c) ==
  /\ "agent" \in Faults
  /\ run[c].at \in {"create", "list", "token", "connect", "remove"}
  /\ GoTo(c, "failed")
  /\ UNCHANGED <<made, wallets, cache>>

CacheFails(c) ==
  /\ "cache" \in Faults
  /\ run[c].at \in {"lookup", "cacheSet", "get", "dispatch"}
  /\ GoTo(c, "failed")
  /\ UNCHANGED <<made, wallets, cache>>

\* The agency restarts: the agent's wallets and the cache stay.
Crash ==
  /\ "crash" \in Faults
  /\ \E c \in Calls : run[c].at \notin Quiet
  /\ run' = [c \in Calls |-> IF run[c].at \in Quiet THEN run[c] ELSE Idle]
  /\ UNCHANGED <<made, wallets, cache>>

\* A second passes.
Tick ==
  /\ cache' = [n \in Names |->
       IF cache[n] = None \/ cache[n].left = None THEN cache[n]
       ELSE IF cache[n].left <= 1 THEN None
       ELSE [cache[n] EXCEPT !.left = @ - 1]]
  /\ UNCHANGED <<made, wallets, run>>

---------------------------------------------------------------------------

Step(c) ==
  \/ CallCreateWallet(c) \/ AlreadyExists(c) \/ CallCreateWalletLost(c)
  \/ GetTokenAndWalletId(c) \/ CallGetAllWallets(c) \/ CallGetToken(c)
  \/ AddWalletToCache(c) \/ CallCreateConnection(c)
  \/ GetWallet(c) \/ CallRemoveWallet(c) \/ CallRemoveWalletLost(c)
  \/ HandleRequest(c) \/ CallFails(c) \/ CacheFails(c)

Next ==
  \/ \E c \in Calls : CreateWallet(c) \/ RemoveWallet(c) \/ PostWebhook(c) \/ Step(c)
  \/ Crash
  \/ Tick

Spec == Init /\ [][Next]_vars

---------------------------------------------------------------------------
(* Properties. *)

Ids == DOMAIN made
Labels ==
  Quiet \cup {"create", "lookup", "list", "token", "cacheSet", "connect", "get", "remove",
              "dispatch"}
Lifetimes == (Nat \ {0}) \cup {None}

\* The variables have their types; the agent's wallets have the names they
\* were made with.
TypeOK ==
  /\ made \in Seq([name : Names, key : Keys])
  /\ wallets \in [Names -> Ids \cup {None}]
  /\ \A n \in Names : wallets[n] # None => made[wallets[n]].name = n
  /\ cache \in [Names -> [id : Ids, key : Keys, left : Lifetimes] \cup {None}]
  /\ run \in [Calls ->
       [at : Labels, op : {"create", "remove", "webhook", "none"}, name : Names \cup {None},
        key : Keys \cup {None}, ttl : DtoTtls \cup {None}, auto : BOOLEAN,
        id : Ids \cup {None}, dead : SUBSET Ids]]
  /\ \A c \in Calls : run[c].at \notin Quiet => run[c].name \in Names

\* What a create request was given.
Granted(c) == run[c].op = "create" /\ run[c].at \in {"cacheSet", "connect", "done"}

\* A wallet is only ever handed out, or kept in the cache, under the name and
\* the key it was made with, although a create that finds the name taken
\* trusts the entry some other request has left, for however long.
OpenedWithItsKey ==
  /\ \A c \in Calls : Granted(c) =>
       run[c].id \in Ids /\ made[run[c].id] = [name |-> run[c].name, key |-> run[c].key]
  /\ \A n \in Names : cache[n] # None => made[cache[n].id] = [name |-> n, key |-> cache[n].key]

\* mulittenant.service.ts:105 handles the case that a "wallet has already be
\* created and registered with multitenant" and returns its id and token: a
\* create does not hand out a wallet that was gone before it was called.
NoDeadWallet == \A c \in Calls : Granted(c) => run[c].id \notin run[c].dead

\* A webhook of a wallet is handled with that wallet's token, unless the
\* wallet was removed meanwhile.
WebhookUsesItsWallet ==
  [][\A c \in Calls :
       run[c].at = "dispatch" /\ run'[c].at = "done" /\ run[c].id \in Alive
         => run'[c].id = run[c].id]_vars

\* Nobody is at work on a name.
Free(n) == \A c \in Calls : run[c].at \notin Quiet => run[c].name # n

\* A wallet that is cached can be removed: with the name free, the entry of a
\* name whose wallet exists is the wallet's.
CacheIsCurrent ==
  \A n \in Names :
    Free(n) /\ wallets[n] # None /\ cache[n] # None => cache[n].id = wallets[n]

\* A request as its caller sees it.
CallOf(c) ==
  LET r == IF run[c].op \in {"create", "remove"} THEN run[c] ELSE Idle
  IN  [op |-> r.op, name |-> r.name, key |-> r.key,
       at |-> IF r.at \in Quiet THEN r.at ELSE "open",
       id |-> IF r.op = "create" /\ r.at = "done" THEN r.id ELSE None]

Called == [c \in Calls |-> CallOf(c)]

Book == INSTANCE WalletBook WITH book <- wallets, calls <- Called

\* The multitenant endpoints, their cache and its entries' ages left out: no
\* request is given or removes a wallet but that of its own name and key.
ImplementsWalletBook == Book!Spec

\* With requests one at a time, moreover, a create is given the wallet that
\* the agent has under the name.
ImplementsCurrentBook == Book!CurrentSpec
=============================================================================
