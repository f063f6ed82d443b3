------------------------ MODULE Multitenant_proofs ------------------------
(***************************************************************************)
(* What is proved of Multitenant, for any names, keys and slots, any       *)
(* number of wallets and any faults: the type invariant and, with it, that *)
(* no wallet is handed out or cached under a key other than its own.       *)
(***************************************************************************)
EXTENDS Multitenant, TLAPS

---------------------------------------------------------------------------
(* The inductive invariant. *)

WalletType == [name : Names, key : Keys]

RunType(m) ==
  [at : Labels, op : {"create", "remove", "webhook", "none"}, name : Names \cup {None},
   key : Keys \cup {None}, ttl : DtoTtls \cup {None}, auto : BOOLEAN,
   id : DOMAIN m \cup {None}, dead : SUBSET (DOMAIN m)]

CreateLabels == {"create", "lookup", "list", "token", "cacheSet", "connect"}

\* The locals r of a request when m are the wallets made so far: each await
\* belongs to one operation, a create that found its name in the agent's list
\* holds a wallet of that name, as does a remove that found one in the cache,
\* and one that was granted a wallet holds one of its name and its key.
GoodRun(r, m) ==
  /\ r \in RunType(m)
  /\ r.at \notin Quiet => r.name \in Names
  /\ r.op \in {"create", "remove"} => r.name \in Names /\ r.key \in Keys
  /\ r.at \in CreateLabels => r.op = "create"
  /\ r.at \in {"get", "remove"} => r.op = "remove"
  /\ r.at = "dispatch" => r.op = "webhook"
  /\ r.at = "token" => r.id \in DOMAIN m /\ m[r.id].name = r.name
  /\ r.at = "remove" => r.id = None \/ m[r.id].name = r.name
  /\ r.op = "create" /\ r.at \in {"cacheSet", "connect", "done"} =>
       r.id \in DOMAIN m /\ m[r.id] = [name |-> r.name, key |-> r.key]

RunOK == run \in [Calls -> RunType(made)] /\ \A c \in Calls : GoodRun(run[c], made)

MadeOK == made \in Seq(WalletType)

WalletsOK ==
  /\ wallets \in [Names -> Ids \cup {None}]
  /\ \A n \in Names : wallets[n] # None => made[wallets[n]].name = n

EntryType == [id : Ids \cup {None}, key : Keys \cup {None}, left : Nat \cup {None}]

\* An entry that somebody else keeps under the name: it has no wallet.
Foreign(e) == e.id = None /\ e.key = None

\* The entry e is that of a wallet of the name.
Owned(e, n) == e.id \in Ids /\ made[e.id] = [name |-> n, key |-> e.key]

\* The proofs do not count on the cache being the wallets' alone.
CacheOK ==
  /\ cache \in [Names -> EntryType \cup {None}]
  /\ \A n \in Names : cache[n] # None => Foreign(cache[n]) \/ Owned(cache[n], n)

Inv == MadeOK /\ WalletsOK /\ CacheOK /\ RunOK

\* It is, in the behaviours of Spec.
OwnCache ==
  \A n \in Names : cache[n] # None => Owned(cache[n], n) /\ cache[n].left \in Lifetimes

LEMMA InvImplies == Inv /\ OwnCache => TypeOK /\ OpenedWithItsKey
  <1> SUFFICES ASSUME Inv, OwnCache
               PROVE  TypeOK /\ OpenedWithItsKey
    OBVIOUS
  <1>0. ASSUME NEW n \in Names, cache[n] # None
        PROVE  cache[n] \in [id : Ids, key : Keys, left : Lifetimes]
    <2>1. cache[n] \in EntryType /\ cache[n].id \in Ids /\ cache[n].left \in Lifetimes
      BY <1>0 DEF Inv, CacheOK, OwnCache, Owned
    <2>2. made[cache[n].id] \in WalletType
      BY <2>1 DEF Inv, MadeOK, Ids
    <2>3. made[cache[n].id] = [name |-> n, key |-> cache[n].key]
      BY <1>0 DEF OwnCache, Owned
    <2>4. QED
      BY <2>1, <2>2, <2>3 DEF EntryType, WalletType
  <1>1. TypeOK
    <2>1. cache \in [Names -> [id : Ids, key : Keys, left : Lifetimes] \cup {None}]
      BY <1>0 DEF Inv, CacheOK
    <2>2. QED
      BY <2>1 DEF Inv, MadeOK, WalletsOK, RunOK, GoodRun, RunType, TypeOK, WalletType, Ids
  <1>2. \A c \in Calls : Granted(c) =>
          run[c].id \in Ids /\ made[run[c].id] = [name |-> run[c].name, key |-> run[c].key]
    BY DEF Inv, RunOK, GoodRun, Granted, Ids
  <1>3. QED
    BY <1>1, <1>2 DEF OwnCache, Owned, OpenedWithItsKey

---------------------------------------------------------------------------
(* Frames. *)

\* No wallet is ever struck off the record.
Grows ==
  /\ Ids \subseteq Ids'
  /\ \A i \in Ids : made'[i] = made[i]

LEMMA GoodStays ==
  ASSUME NEW r, GoodRun(r, made), Grows
  PROVE  GoodRun(r, made')
  <1>1. r \in RunType(made')
    BY DEF GoodRun, RunType, Grows, Ids
  <1>2. QED
    BY <1>1 DEF GoodRun, RunType, Grows, Ids, CreateLabels

\* A request that goes on.
LEMMA GoodMove ==
  ASSUME NEW m, NEW r, GoodRun(r, m), NEW label \in Labels, NEW id \in DOMAIN m \cup {None},
         label \in Quiet \/ r.name \in Names,
         label \in CreateLabels => r.op = "create",
         label \in {"get", "remove"} => r.op = "remove",
         label # "dispatch",
         label = "token" => id \in DOMAIN m /\ m[id].name = r.name,
         label = "remove" => id = None \/ m[id].name = r.name,
         r.op = "create" /\ label \in {"cacheSet", "connect", "done"} =>
           id \in DOMAIN m /\ m[id] = [name |-> r.name, key |-> r.key]
  PROVE  GoodRun([r EXCEPT !.at = label, !.id = id], m)
  <1> DEFINE q == [r EXCEPT !.at = label, !.id = id]
  <1>1. r \in RunType(m)
    BY DEF GoodRun
  <1>2. q \in RunType(m)
    BY <1>1 DEF RunType
  <1>3. q.at = label /\ q.id = id /\ q.op = r.op /\ q.name = r.name /\ q.key = r.key
    BY <1>1 DEF RunType
  <1> HIDE DEF q
  <1>4. GoodRun(q, m)
    BY <1>2, <1>3 DEF GoodRun
  <1>5. QED
    BY <1>4 DEF q

\* A step of one request leaves the others as they are.
LEMMA OneRuns ==
  ASSUME RunOK, NEW c \in Calls, NEW r, run' = [run EXCEPT ![c] = r], Grows, GoodRun(r, made')
  PROVE  RunOK'
  <1>1. \A d \in Calls : run'[d] = IF d = c THEN r ELSE run[d]
    BY DEF RunOK
  <1>2. \A d \in Calls : GoodRun(run'[d], made')
    BY <1>1, GoodStays DEF RunOK
  <1>3. run' \in [Calls -> RunType(made')]
    BY <1>2 DEF GoodRun, RunOK
  <1>4. QED
    BY <1>2, <1>3 DEF RunOK

LEMMA RunStays == RunOK /\ UNCHANGED run /\ Grows => RunOK'
  <1> SUFFICES ASSUME RunOK, UNCHANGED run, Grows
               PROVE  RunOK'
    OBVIOUS
  <1>1. \A c \in Calls : GoodRun(run[c], made')
    BY GoodStays DEF RunOK
  <1>2. run \in [Calls -> RunType(made')]
    BY <1>1 DEF GoodRun, RunOK
  <1>3. QED
    BY <1>1, <1>2 DEF RunOK

\* A request holds a wallet on record, or none.
LEMMA Ranges ==
  ASSUME NEW m, NEW r, GoodRun(r, m)
  PROVE  r.id \in DOMAIN m \cup {None} /\ r.ttl \in DtoTtls \cup {None}
  BY DEF GoodRun, RunType

\* The record that GoTo and Hold put in a slot.
LEMMA Moves ==
  ASSUME RunOK, NEW c \in Calls
  PROVE  /\ run[c].id \in DOMAIN made \cup {None}
         /\ \A label : GoTo(c, label) =>
              run' = [run EXCEPT ![c] = [run[c] EXCEPT !.at = label, !.id = run[c].id]]
         /\ \A id, label : Hold(c, id, label) =>
              run' = [run EXCEPT ![c] = [run[c] EXCEPT !.at = label, !.id = id]]
  BY DEF GoTo, Hold, RunOK, RunType

\* What is not written stays right.
LEMMA SameRecord == UNCHANGED made => Grows
  BY DEF Grows, Ids

LEMMA SameData ==
  ASSUME MadeOK, WalletsOK, CacheOK, UNCHANGED <<made, wallets, cache>>
  PROVE  MadeOK' /\ WalletsOK' /\ CacheOK' /\ Grows
  BY DEF MadeOK, WalletsOK, CacheOK, EntryType, Owned, Grows, Ids

LEMMA Alives ==
  ASSUME WalletsOK
  PROVE  Alive \subseteq Ids
  BY DEF WalletsOK, Alive

LEMMA LifetimeType ==
  \A ttl \in DtoTtls \cup {None} : Lifetime(ttl) \in Lifetimes
  BY MultitenantAssumption DEF Lifetime, Lifetimes

LEMMA LabelNames == Quiet \subseteq Labels /\ CreateLabels \subseteq Labels
  BY DEF Labels, CreateLabels

---------------------------------------------------------------------------
(* Requests. *)

LEMMA BeginStep ==
  ASSUME Inv, NEW c \in Calls, NEW op, NEW label, NEW name \in Names, NEW key, NEW ttl, NEW auto,
         NEW id, Begin(c, op, label, name, key, ttl, auto, id),
         key \in Keys \cup {None}, ttl \in DtoTtls \cup {None}, auto \in BOOLEAN,
         id \in Ids \cup {None},
         \/ op = "create" /\ label = "create" /\ key \in Keys
         \/ op = "remove" /\ label = "get" /\ key \in Keys
         \/ op = "webhook" /\ label = "dispatch"
  PROVE  Inv'
  <1> DEFINE r == [at |-> label, op |-> op, name |-> name, key |-> key, ttl |-> ttl,
                   auto |-> auto, id |-> id, dead |-> DOMAIN made \ Alive]
  <1>1. run' = [run EXCEPT ![c] = r] /\ UNCHANGED <<made, wallets, cache>>
    BY DEF Begin
  <1>2. r \in RunType(made)
    BY DEF RunType, Labels, Ids
  <1>3. GoodRun(r, made)
    BY <1>2 DEF GoodRun, CreateLabels
  <1>4. QED
    BY <1>1, <1>3, SameData, OneRuns DEF Inv

LEMMA RequestsStep ==
  ASSUME Inv, NEW c \in Calls, CreateWallet(c) \/ RemoveWallet(c) \/ PostWebhook(c)
  PROVE  Inv'
  <1>1. CASE CreateWallet(c)
    <2>1. PICK name \in Names, key \in Keys, ttl \in DtoTtls, auto \in BOOLEAN :
            Begin(c, "create", "create", name, key, ttl, auto, None)
      BY <1>1 DEF CreateWallet
    <2>2. QED
      BY <2>1, BeginStep
  <1>2. CASE RemoveWallet(c)
    <2>1. PICK name \in Names, key \in Keys :
            Begin(c, "remove", "get", name, key, None, FALSE, None)
      BY <1>2 DEF RemoveWallet
    <2>2. QED
      BY <2>1, BeginStep
  <1>3. CASE PostWebhook(c)
    <2>1. PICK name \in Names :
            Begin(c, "webhook", "dispatch", name, None, None, FALSE, wallets[name])
      BY <1>3 DEF PostWebhook
    <2>2. wallets[name] \in Ids \cup {None}
      BY DEF Inv, WalletsOK
    <2>3. QED
      BY <2>1, <2>2, BeginStep
  <1>4. QED
    BY <1>1, <1>2, <1>3

---------------------------------------------------------------------------
(* The steps of a request. *)

\* A new wallet on record.
LEMMA RegisterStep ==
  ASSUME Inv, NEW c \in Calls, run[c].at = "create", Registered(c), UNCHANGED cache
  PROVE  /\ MadeOK' /\ WalletsOK' /\ CacheOK' /\ Grows
         /\ Len(made) + 1 \in Ids'
         /\ made'[Len(made) + 1] = [name |-> run[c].name, key |-> run[c].key]
  <1> DEFINE w == [name |-> run[c].name, key |-> run[c].key]
  <1>1. w \in WalletType
    BY DEF Inv, RunOK, GoodRun, CreateLabels, WalletType
  <1>2. made \in Seq(WalletType) /\ made' = Append(made, w)
    BY DEF Inv, MadeOK, Registered
  <1>3. /\ made' \in Seq(WalletType)
        /\ Ids' = Ids \cup {Len(made) + 1}
        /\ \A i \in Ids : made'[i] = made[i]
        /\ made'[Len(made) + 1] = w
    BY <1>1, <1>2 DEF Ids
  <1>4. WalletsOK'
    <2>1. wallets' = [wallets EXCEPT ![run[c].name] = Len(made) + 1]
      BY DEF Registered
    <2>2. wallets' \in [Names -> Ids' \cup {None}]
      BY <1>3, <2>1 DEF Inv, WalletsOK
    <2>3. ASSUME NEW n \in Names, wallets'[n] # None
          PROVE  made'[wallets'[n]].name = n
      <3>1. CASE n = run[c].name
        BY <1>3, <2>1, <3>1 DEF Inv, WalletsOK
      <3>2. CASE n # run[c].name
        BY <1>3, <2>1, <2>3, <3>2 DEF Inv, WalletsOK
      <3>3. QED
        BY <3>1, <3>2
    <2>4. QED
      BY <2>2, <2>3 DEF WalletsOK
  <1>5. CacheOK'
    <2>1. \A n \in Names : cache[n] # None => Foreign(cache[n]) \/ Owned(cache[n], n)'
      BY <1>3 DEF Inv, CacheOK, Owned
    <2>2. cache \in [Names -> EntryType' \cup {None}]
      BY <1>3 DEF Inv, CacheOK, EntryType
    <2>3. QED
      BY <2>1, <2>2 DEF CacheOK
  <1>6. QED
    BY <1>3, <1>4, <1>5 DEF MadeOK, Grows

LEMMA CreateStep ==
  ASSUME Inv, NEW c \in Calls,
         \/ CallCreateWallet(c) \/ AlreadyExists(c) \/ CallCreateWalletLost(c)
         \/ GetTokenAndWalletId(c) \/ CallGetAllWallets(c) \/ CallGetToken(c)
         \/ CallCreateConnection(c)
  PROVE  Inv'
  <1>1. GoodRun(run[c], made) /\ run[c].at \in CreateLabels
    BY DEF Inv, RunOK, CallCreateWallet, AlreadyExists, CallCreateWalletLost, GetTokenAndWalletId,
           CallGetAllWallets, CallGetToken, CallCreateConnection, CreateLabels
  <1>2. run[c].name \in Names /\ run[c].key \in Keys /\ run[c].op = "create"
    BY <1>1 DEF GoodRun, CreateLabels
  <1>3. CASE CallCreateWallet(c)
    <2> DEFINE id == Len(made) + 1
               r == [run[c] EXCEPT !.at = "cacheSet", !.id = id]
    <2>1. MadeOK' /\ WalletsOK' /\ CacheOK' /\ Grows
      BY <1>3, RegisterStep DEF CallCreateWallet
    <2>2. id \in DOMAIN made' /\ made'[id] = [name |-> run[c].name, key |-> run[c].key]
      BY <1>3, RegisterStep DEF CallCreateWallet, Ids
    <2>3. GoodRun(run[c], made')
      BY <1>1, <2>1, GoodStays
    <2>4. GoodRun(r, made')
      BY <1>2, <2>2, <2>3, GoodMove, Ranges DEF Labels, CreateLabels, Quiet
    <2>5. run' = [run EXCEPT ![c] = r]
      <3>1. RunOK /\ Hold(c, id, "cacheSet")
        BY <1>3 DEF CallCreateWallet, Inv
      <3> HIDE DEF id
      <3>2. run' = [run EXCEPT ![c] = [run[c] EXCEPT !.at = "cacheSet", !.id = id]]
        BY <3>1, Moves
      <3>3. QED
        BY <3>2
    <2>6. QED
      BY <2>1, <2>4, <2>5, OneRuns DEF Inv
  <1>4. CASE CallCreateWalletLost(c)
    <2>1. MadeOK' /\ WalletsOK' /\ CacheOK' /\ Grows
      BY <1>4, RegisterStep DEF CallCreateWalletLost
    <2>2. GoodRun(run[c], made')
      BY <1>1, <2>1, GoodStays
    <2>3. CASE GoTo(c, "failed")
      <3>1. run' = [run EXCEPT ![c] = [run[c] EXCEPT !.at = "failed", !.id = run[c].id]]
        BY <2>3, Moves DEF Inv
      <3>2. run[c].id \in DOMAIN made' \cup {None}
        BY <2>2, Ranges
      <3>3. GoodRun([run[c] EXCEPT !.at = "failed", !.id = run[c].id], made')
        BY <1>2, <2>2, <3>2, GoodMove DEF Labels, CreateLabels, Quiet
      <3>4. QED
        BY <2>1, <3>1, <3>3, OneRuns DEF Inv
    <2>4. CASE UNCHANGED run
      BY <2>1, <2>4, RunStays DEF Inv
    <2>5. QED
      BY <1>4, <2>3, <2>4 DEF CallCreateWalletLost
  <1>5. ASSUME UNCHANGED <<made, wallets, cache>>,
               NEW label, NEW id,
               run' = [run EXCEPT ![c] = [run[c] EXCEPT !.at = label, !.id = id]],
               GoodRun([run[c] EXCEPT !.at = label, !.id = id], made)
        PROVE  Inv'
    BY <1>5, SameData, OneRuns DEF Inv
  <1>6. CASE AlreadyExists(c)
    <2>1. run' = [run EXCEPT ![c] = [run[c] EXCEPT !.at = "lookup", !.id = run[c].id]]
      BY <1>1, <1>6, Moves DEF AlreadyExists, Inv
    <2>2. GoodRun([run[c] EXCEPT !.at = "lookup", !.id = run[c].id], made)
      BY <1>1, <1>2, GoodMove, Ranges DEF Labels, CreateLabels, Quiet
    <2>3. QED
      BY <1>5, <1>6, <2>1, <2>2 DEF AlreadyExists
  <1>7. CASE GetTokenAndWalletId(c)
    <2> DEFINE entry == cache[run[c].name]
    <2>1. CASE entry # None /\ entry.key = run[c].key
      <3>1. entry.id \in DOMAIN made /\ made[entry.id] = [name |-> run[c].name, key |-> run[c].key]
        <4>1. entry.key # None
          BY <1>2, <2>1, MultitenantAssumption
        <4>2. Owned(entry, run[c].name)
          BY <1>2, <2>1, <4>1 DEF Inv, CacheOK, Foreign
        <4>3. QED
          BY <2>1, <4>2 DEF Owned, Ids
      <3>2. run' = [run EXCEPT ![c] = [run[c] EXCEPT !.at = "cacheSet", !.id = entry.id]]
        BY <1>7, <2>1, Moves DEF GetTokenAndWalletId, Inv
      <3>3. GoodRun([run[c] EXCEPT !.at = "cacheSet", !.id = entry.id], made)
        BY <1>1, <1>2, <3>1, GoodMove, Ranges DEF Labels, CreateLabels, Quiet
      <3>4. QED
        BY <1>5, <1>7, <3>2, <3>3 DEF GetTokenAndWalletId
    <2>2. CASE ~(entry # None /\ entry.key = run[c].key)
      <3>1. PICK label \in {"list", "failed"} : GoTo(c, label)
        BY <1>7, <2>2 DEF GetTokenAndWalletId
      <3>2. run' = [run EXCEPT ![c] = [run[c] EXCEPT !.at = label, !.id = run[c].id]]
        BY <1>1, <3>1, Moves DEF Inv
      <3>3. GoodRun([run[c] EXCEPT !.at = label, !.id = run[c].id], made)
        BY <1>1, <1>2, GoodMove, Ranges DEF Labels, CreateLabels, Quiet
      <3>4. QED
        BY <1>5, <1>7, <3>2, <3>3 DEF GetTokenAndWalletId
    <2>3. QED
      BY <2>1, <2>2
  <1>8. CASE CallGetAllWallets(c)
    <2> DEFINE id == wallets[run[c].name]
    <2>1. CASE id # None
      <3>1. id \in DOMAIN made /\ made[id].name = run[c].name
        BY <1>2, <2>1 DEF Inv, WalletsOK, Ids
      <3>2. run' = [run EXCEPT ![c] = [run[c] EXCEPT !.at = "token", !.id = id]]
        <4>1. RunOK /\ Hold(c, id, "token")
          BY <1>8, <2>1 DEF CallGetAllWallets, Inv
        <4>2. QED
          BY <4>1, Moves
      <3>3. GoodRun([run[c] EXCEPT !.at = "token", !.id = id], made)
        BY <1>1, <1>2, <3>1, GoodMove, Ranges DEF Labels, CreateLabels, Quiet
      <3>4. QED
        BY <1>5, <1>8, <3>2, <3>3 DEF CallGetAllWallets
    <2>2. CASE id = None
      <3>1. run' = [run EXCEPT ![c] = [run[c] EXCEPT !.at = "failed", !.id = run[c].id]]
        BY <1>1, <1>8, <2>2, Moves DEF CallGetAllWallets, Inv
      <3>2. GoodRun([run[c] EXCEPT !.at = "failed", !.id = run[c].id], made)
        BY <1>1, <1>2, GoodMove, Ranges DEF Labels, CreateLabels, Quiet
      <3>3. QED
        BY <1>5, <1>8, <3>1, <3>2 DEF CallGetAllWallets
    <2>3. QED
      BY <2>1, <2>2
  <1>9. CASE CallGetToken(c)
    <2>1. PICK label \in {"cacheSet", "failed"} :
            GoTo(c, label) /\ (label = "cacheSet" => Opens(run[c].id, run[c].key))
      BY <1>9 DEF CallGetToken
    <2>2. run[c].id \in DOMAIN made /\ made[run[c].id].name = run[c].name
      BY <1>1, <1>9 DEF CallGetToken, GoodRun
    <2>3. made[run[c].id] \in WalletType
      BY <2>2 DEF Inv, MadeOK
    <2>4. label = "cacheSet" => made[run[c].id] = [name |-> run[c].name, key |-> run[c].key]
      BY <2>1, <2>2, <2>3 DEF Opens, WalletType
    <2>5. run' = [run EXCEPT ![c] = [run[c] EXCEPT !.at = label, !.id = run[c].id]]
      BY <1>1, <2>1, Moves DEF Inv
    <2>6. GoodRun([run[c] EXCEPT !.at = label, !.id = run[c].id], made)
      BY <1>1, <1>2, <2>2, <2>4, GoodMove, Ranges DEF Labels, CreateLabels, Quiet
    <2>7. QED
      BY <1>5, <1>9, <2>5, <2>6 DEF CallGetToken
  <1>10. CASE CallCreateConnection(c)
    <2>1. PICK label \in {"done", "failed"} : GoTo(c, label)
      BY <1>10 DEF CallCreateConnection
    <2>2. run' = [run EXCEPT ![c] = [run[c] EXCEPT !.at = label, !.id = run[c].id]]
      BY <1>1, <2>1, Moves DEF Inv
    <2>3. run[c].id \in DOMAIN made /\ made[run[c].id] = [name |-> run[c].name, key |-> run[c].key]
      BY <1>1, <1>2, <1>10 DEF CallCreateConnection, GoodRun
    <2>4. GoodRun([run[c] EXCEPT !.at = label, !.id = run[c].id], made)
      BY <1>1, <1>2, <2>3, GoodMove, Ranges DEF Labels, CreateLabels, Quiet
    <2>5. QED
      BY <1>5, <1>10, <2>2, <2>4 DEF CallCreateConnection
  <1>11. QED
    BY <1>3, <1>4, <1>6, <1>7, <1>8, <1>9, <1>10

\* The entry that a create leaves is that of the wallet it was granted.
LEMMA CacheStep ==
  ASSUME Inv, NEW c \in Calls, AddWalletToCache(c)
  PROVE  Inv'
  <1>1. GoodRun(run[c], made) /\ run[c].at = "cacheSet"
    BY DEF Inv, RunOK, AddWalletToCache
  <1>2. /\ run[c].name \in Names /\ run[c].key \in Keys /\ run[c].id \in Ids
        /\ run[c].op = "create" /\ run[c].ttl \in DtoTtls \cup {None}
        /\ made[run[c].id] = [name |-> run[c].name, key |-> run[c].key]
    BY <1>1 DEF GoodRun, RunType, CreateLabels, Ids
  <1>3. CacheOK'
    <2> DEFINE e == [id |-> run[c].id, key |-> run[c].key, left |-> Lifetime(run[c].ttl)]
    <2>1. e \in EntryType /\ Owned(e, run[c].name)
      BY <1>2, LifetimeType DEF EntryType, Owned, Lifetimes
    <2>2. \E x \in {None, e} : cache' = [cache EXCEPT ![run[c].name] = x]
      BY DEF AddWalletToCache
    <2>3. PICK x \in {None, e} : cache' = [cache EXCEPT ![run[c].name] = x]
      BY <2>2
    <2>4. UNCHANGED made
      BY DEF AddWalletToCache
    <2> HIDE DEF e
    <2>5. cache' \in [Names -> EntryType \cup {None}]
      BY <2>1, <2>3 DEF Inv, CacheOK
    <2>6. ASSUME NEW n \in Names, cache'[n] # None
          PROVE  Foreign(cache'[n]) \/ Owned(cache'[n], n)
      <3>1. CASE n = run[c].name
        BY <1>2, <2>1, <2>3, <2>6, <3>1 DEF Inv, CacheOK
      <3>2. CASE n # run[c].name
        BY <2>3, <2>6, <3>2 DEF Inv, CacheOK
      <3>3. QED
        BY <3>1, <3>2
    <2>7. QED
      BY <2>4, <2>5, <2>6 DEF CacheOK, EntryType, Owned, Ids
  <1>4. MadeOK' /\ WalletsOK' /\ Grows
    BY DEF AddWalletToCache, Inv, MadeOK, WalletsOK, Grows, Ids
  <1>5. PICK label \in {"connect", "done"} :
          run' = [run EXCEPT ![c] = [run[c] EXCEPT !.at = label, !.id = run[c].id]]
    BY Moves DEF AddWalletToCache, AfterCacheSet, Inv
  <1>6. GoodRun([run[c] EXCEPT !.at = label, !.id = run[c].id], made')
    <2>1. UNCHANGED made
      BY DEF AddWalletToCache
    <2>2. GoodRun([run[c] EXCEPT !.at = label, !.id = run[c].id], made)
      BY <1>1, <1>2, GoodMove, Ranges DEF Labels, CreateLabels, Quiet, Ids
    <2>3. QED
      BY <2>1, <2>2
  <1>7. QED
    BY <1>3, <1>4, <1>5, <1>6, OneRuns DEF Inv

LEMMA OtherStep ==
  ASSUME Inv, NEW c \in Calls,
         \/ GetWallet(c) \/ CallRemoveWallet(c) \/ CallRemoveWalletLost(c)
         \/ HandleRequest(c) \/ CallFails(c) \/ CacheFails(c)
  PROVE  Inv'
  <1>1. GoodRun(run[c], made) /\ UNCHANGED <<made, cache>>
    BY DEF Inv, RunOK, GetWallet, CallRemoveWallet, CallRemoveWalletLost, HandleRequest, CallFails,
           CacheFails
  <1>2. MadeOK' /\ CacheOK' /\ Grows
    BY <1>1 DEF Inv, MadeOK, CacheOK, EntryType, Owned, Grows, Ids
  <1>3. WalletsOK'
    <2>1. CASE UNCHANGED wallets
      BY <1>1, <2>1 DEF Inv, WalletsOK, Ids
    <2>2. CASE wallets' = [wallets EXCEPT ![made[run[c].id].name] = None]
      BY <1>1, <2>2 DEF Inv, WalletsOK, Ids
    <2>3. QED
      BY <2>1, <2>2
      DEF GetWallet, CallRemoveWallet, CallRemoveWalletLost, HandleRequest, CallFails, CacheFails
  <1>4. ASSUME NEW label, GoTo(c, label), label = "failed" \/ (label = "done" /\ run[c].at = "remove")
        PROVE  RunOK'
    <2>0. label = "done" => run[c].op # "create"
      BY <1>1, <1>4 DEF GoodRun
    <2>1. GoodRun([run[c] EXCEPT !.at = label, !.id = run[c].id], made)
      <3>1. label \in Quiet /\ label \in Labels /\ label \notin CreateLabels
            /\ label \notin {"get", "remove", "dispatch", "token"}
        BY <1>4 DEF Labels, CreateLabels, Quiet
      <3>2. run[c].op = "create" => label \notin {"cacheSet", "connect", "done"}
        BY <1>4, <2>0
      <3>3. run[c].id \in DOMAIN made \cup {None} /\ label # "dispatch"
        BY <1>1, <3>1, Ranges
      <3>4. QED
        BY <1>1, <3>1, <3>2, <3>3, GoodMove
    <2>2. run' = [run EXCEPT ![c] = [run[c] EXCEPT !.at = label, !.id = run[c].id]]
      BY <1>4, Moves DEF Inv
    <2>3. GoodRun([run[c] EXCEPT !.at = label, !.id = run[c].id], made')
      BY <1>1, <2>1
    <2>4. QED
      BY <1>2, <2>2, <2>3, OneRuns DEF Inv
  <1>5. ASSUME NEW label, NEW id \in Ids \cup {None}, Hold(c, id, label),
               \/ /\ run[c].at = "get" /\ label = "remove"
                  /\ id = None \/ made[id].name = run[c].name
               \/ run[c].at = "dispatch" /\ label = "done"
        PROVE  RunOK'
    <2> DEFINE r == [run[c] EXCEPT !.at = label, !.id = id]
    <2>0. run[c].op # "create" /\ run[c].name \in Names /\ (label = "remove" => run[c].op = "remove")
      BY <1>1, <1>5 DEF GoodRun, Quiet
    <2>1. GoodRun(r, made)
      BY <1>1, <1>5, <2>0, GoodMove, Ranges DEF Labels, CreateLabels, Quiet, Ids
    <2>2. run' = [run EXCEPT ![c] = r]
      <3>1. RunOK /\ Hold(c, id, label)
        BY <1>5 DEF Inv
      <3>2. \A i, l : Hold(c, i, l) => run' = [run EXCEPT ![c] = [run[c] EXCEPT !.at = l, !.id = i]]
        BY <3>1, Moves
      <3>3. QED
        BY <3>1, <3>2, Zenon
    <2>3. GoodRun(r, made')
      BY <1>1, <2>1
    <2>4. QED
      BY <1>2, <2>2, <2>3, OneRuns DEF Inv
  <1>6. RunOK'
    <2>1. CASE GetWallet(c) \/ HandleRequest(c)
      <3>1. run[c].at \in {"get", "dispatch"} /\ run[c].name \in Names
        BY <1>1, <2>1 DEF GetWallet, HandleRequest, GoodRun, Quiet
      <3>2. cache[run[c].name] # None =>
              /\ cache[run[c].name].id \in Ids \cup {None}
              /\ cache[run[c].name].id = None \/ made[cache[run[c].name].id].name = run[c].name
        <4>1. cache[run[c].name] # None => cache[run[c].name].id \in Ids \cup {None}
          BY <3>1 DEF Inv, CacheOK, EntryType
        <4>2. cache[run[c].name] # None =>
                \/ cache[run[c].name].id = None
                \/ made[cache[run[c].name].id].name = run[c].name
          <5>1. cache[run[c].name] # None =>
                  Foreign(cache[run[c].name]) \/ Owned(cache[run[c].name], run[c].name)
            BY <3>1 DEF Inv, CacheOK
          <5>2. \A e, n : Foreign(e) \/ Owned(e, n) => e.id = None \/ made[e.id].name = n
            BY DEF Foreign, Owned
          <5>3. QED
            BY <5>1, <5>2
        <4>3. QED
          BY <4>1, <4>2
      <3>3. CASE cache[run[c].name] = None
        <4>1. GoTo(c, "failed")
          BY <2>1, <3>3 DEF GetWallet, HandleRequest
        <4>2. QED
          BY <1>4, <4>1
      <3>4. CASE cache[run[c].name] # None
        <4>1. PICK id : id = cache[run[c].name].id
          OBVIOUS
        <4>2. \/ run[c].at = "get" /\ Hold(c, id, "remove")
              \/ run[c].at = "dispatch" /\ Hold(c, id, "done")
          BY <2>1, <3>4, <4>1 DEF GetWallet, HandleRequest
        <4>3. id \in Ids \cup {None} /\ (id = None \/ made[id].name = run[c].name)
          BY <3>2, <3>4, <4>1
        <4>4. QED
          BY <1>5, <4>2, <4>3
      <3>5. QED
        BY <3>3, <3>4
    <2>2. CASE CallRemoveWallet(c) \/ CallRemoveWalletLost(c) \/ CallFails(c) \/ CacheFails(c)
      BY <1>4, <2>2 DEF CallRemoveWallet, CallRemoveWalletLost, CallFails, CacheFails
    <2>3. QED
      BY <2>1, <2>2
  <1>7. QED
    BY <1>2, <1>3, <1>6 DEF Inv

---------------------------------------------------------------------------
(* The theorems. *)

LEMMA InitInv == Init => Inv
  <1> SUFFICES ASSUME Init
               PROVE  Inv
    OBVIOUS
  <1>1. GoodRun(Idle, made)
    BY MultitenantAssumption DEF GoodRun, RunType, Idle, Labels, CreateLabels, Quiet
  <1>2. RunOK
    BY <1>1 DEF Init, RunOK, GoodRun
  <1>3. MadeOK /\ WalletsOK /\ CacheOK
    BY DEF Init, MadeOK, WalletsOK, CacheOK
  <1>4. QED
    BY <1>2, <1>3 DEF Inv

LEMMA StepInv ==
  ASSUME Inv, NEW c \in Calls, Step(c)
  PROVE  Inv'
  BY CreateStep, CacheStep, OtherStep DEF Step

\* What somebody else does to the cache: entries go, and foreign ones come.
LEMMA ForeignInv ==
  ASSUME Inv, UNCHANGED <<made, wallets, run>>,
         cache' \in [Names -> EntryType \cup {None}],
         \A n \in Names : cache'[n] = cache[n] \/ cache'[n] = None \/ Foreign(cache'[n])
  PROVE  Inv'
  <1>1. CacheOK'
    BY DEF Inv, CacheOK, EntryType, Owned, Ids
  <1>2. QED
    BY <1>1 DEF Inv, MadeOK, WalletsOK, RunOK, Ids

LEMMA CrashInv ==
  ASSUME Inv, Crash
  PROVE  Inv'
  <1>1. MadeOK' /\ WalletsOK' /\ CacheOK' /\ UNCHANGED made
    BY SameData DEF Crash, Inv
  <1>2. GoodRun(Idle, made)
    BY MultitenantAssumption DEF GoodRun, RunType, Idle, Labels, CreateLabels, Quiet
  <1>3. \A c \in Calls : GoodRun(run'[c], made)
    BY <1>2 DEF Crash, Inv, RunOK
  <1>4. run' \in [Calls -> RunType(made)]
    BY <1>3 DEF Crash, GoodRun
  <1>5. QED
    BY <1>1, <1>3, <1>4 DEF Inv, RunOK

\* A second leaves an entry as it is, but for its lifetime, or ends it.
LEMMA TickEntry ==
  ASSUME Inv, Tick, NEW n \in Names, cache'[n] # None
  PROVE  /\ cache'[n] \in EntryType
         /\ cache[n] # None /\ cache'[n].id = cache[n].id /\ cache'[n].key = cache[n].key
         /\ cache[n].left \in Lifetimes => cache'[n].left \in Lifetimes
  <1>1. CASE cache'[n] = cache[n]
    BY <1>1 DEF Inv, CacheOK
  <1>2. CASE cache'[n] # cache[n]
    <2>1. /\ cache[n] # None /\ cache[n].left # None /\ ~(cache[n].left <= 1)
          /\ cache'[n] = [cache[n] EXCEPT !.left = @ - 1]
      BY <1>2 DEF Tick
    <2>2. cache[n] \in EntryType
      BY <2>1 DEF Inv, CacheOK
    <2>3. cache[n].left - 1 \in Nat \ {0}
      BY <2>1, <2>2 DEF EntryType
    <2>4. QED
      BY <2>1, <2>2, <2>3 DEF EntryType, Lifetimes
  <1>3. QED
    BY <1>1, <1>2

LEMMA TickInv ==
  ASSUME Inv, Tick
  PROVE  Inv'
  <1>1. UNCHANGED <<made, wallets, run>>
    BY DEF Tick
  <1>2. cache' \in [Names -> EntryType \cup {None}]
    BY TickEntry DEF Tick
  <1>3. ASSUME NEW n \in Names, cache'[n] # None
        PROVE  Foreign(cache'[n]) \/ Owned(cache'[n], n)
    BY <1>3, TickEntry DEF Inv, CacheOK, Foreign, Owned
  <1>4. CacheOK'
    BY <1>1, <1>2, <1>3 DEF CacheOK, EntryType, Owned, Ids
  <1>5. QED
    BY <1>1, <1>4 DEF Inv, MadeOK, WalletsOK, RunOK, Ids

LEMMA NextInv == Inv /\ [Next]_vars => Inv'
  <1> SUFFICES ASSUME Inv, [Next]_vars
               PROVE  Inv'
    OBVIOUS
  <1>1. CASE UNCHANGED vars
    BY <1>1 DEF vars, Inv, MadeOK, WalletsOK, CacheOK, EntryType, Owned, RunOK, Ids
  <1>2. QED
    BY <1>1, RequestsStep, StepInv, CrashInv, TickInv DEF Next

\* Only AddWalletToCache and Tick write the cache.
LEMMA OwnNext == Inv /\ OwnCache /\ [Next]_vars => OwnCache'
  <1> SUFFICES ASSUME Inv, OwnCache, [Next]_vars
               PROVE  OwnCache'
    OBVIOUS
  <1>1. CASE \E c \in Calls : AddWalletToCache(c)
    <2>1. PICK c \in Calls : AddWalletToCache(c)
      BY <1>1
    <2>2. GoodRun(run[c], made) /\ run[c].at = "cacheSet" /\ UNCHANGED made
      BY <2>1 DEF Inv, RunOK, AddWalletToCache
    <2>3. /\ run[c].id \in Ids /\ run[c].ttl \in DtoTtls \cup {None}
          /\ made[run[c].id] = [name |-> run[c].name, key |-> run[c].key]
      BY <2>2 DEF GoodRun, RunType, CreateLabels, Ids
    <2> DEFINE e == [id |-> run[c].id, key |-> run[c].key, left |-> Lifetime(run[c].ttl)]
    <2>4. Owned(e, run[c].name) /\ e.left \in Lifetimes
      BY <2>3, LifetimeType DEF Owned
    <2>5. \E x \in {None, e} : cache' = [cache EXCEPT ![run[c].name] = x]
      BY <2>1 DEF AddWalletToCache
    <2> HIDE DEF e
    <2>6. ASSUME NEW n \in Names, cache'[n] # None
          PROVE  Owned(cache'[n], n) /\ cache'[n].left \in Lifetimes
      <3>1. cache'[n] = cache[n] \/ (n = run[c].name /\ cache'[n] = e)
        BY <2>5, <2>6 DEF Inv, CacheOK
      <3>2. QED
        BY <2>4, <2>6, <3>1 DEF OwnCache
    <2>7. QED
      BY <2>2, <2>6 DEF OwnCache, Owned, Ids
  <1>2. CASE Tick
    <2>1. UNCHANGED made
      BY <1>2 DEF Tick
    <2>2. ASSUME NEW n \in Names, cache'[n] # None
          PROVE  Owned(cache'[n], n) /\ cache'[n].left \in Lifetimes
      BY <1>2, <2>2, TickEntry DEF OwnCache, Owned
    <2>3. QED
      BY <2>1, <2>2 DEF OwnCache, Owned, Ids
  <1>3. ASSUME UNCHANGED cache, Grows
        PROVE  OwnCache'
    BY <1>3 DEF OwnCache, Owned, Grows
  <1>4. CASE \E c \in Calls : CallCreateWallet(c) \/ CallCreateWalletLost(c)
    BY <1>3, <1>4, RegisterStep DEF CallCreateWallet, CallCreateWalletLost
  <1>5. CASE UNCHANGED <<made, cache>>
    BY <1>3, <1>5, SameRecord
  <1>6. QED
    <2>1. ASSUME NEW c \in Calls, Step(c), ~AddWalletToCache(c),
                 ~CallCreateWallet(c), ~CallCreateWalletLost(c)
          PROVE  UNCHANGED <<made, cache>>
      BY <2>1 DEF Step, AlreadyExists, GetTokenAndWalletId, CallGetAllWallets, CallGetToken,
                  CallCreateConnection, GetWallet, CallRemoveWallet, CallRemoveWalletLost,
                  HandleRequest, CallFails, CacheFails
    <2>2. ASSUME NEW c \in Calls, CreateWallet(c) \/ RemoveWallet(c) \/ PostWebhook(c)
          PROVE  UNCHANGED <<made, cache>>
      BY <2>2 DEF CreateWallet, RemoveWallet, PostWebhook, Begin
    <2>3. CASE Crash \/ UNCHANGED vars
      BY <1>5, <2>3 DEF Crash, vars
    <2>4. QED
      BY <1>1, <1>2, <1>4, <1>5, <2>1, <2>2, <2>3 DEF Next

LEMMA InitOwn == Init => OwnCache
  BY DEF Init, OwnCache

\* The variables of Multitenant keep their types.
THEOREM WalletsTypeCorrect == Spec => []TypeOK
  <1>1. Inv /\ OwnCache => TypeOK
    BY InvImplies
  <1>2. QED
    BY <1>1, InitInv, NextInv, InitOwn, OwnNext, PTL DEF Spec

\* createWallet never hands out, and addWalletToCache never keeps, a wallet
\* under a name or key that it was not made with: what getTokenAndWalletId
\* reads from the cache was put there for the same key, whichever requests
\* ran, failed or expired in between.
THEOREM KeysAreRespected == Spec => []OpenedWithItsKey
  <1>1. Inv /\ OwnCache => OpenedWithItsKey
    BY InvImplies
  <1>2. QED
    BY <1>1, InitInv, NextInv, InitOwn, OwnNext, PTL DEF Spec

---------------------------------------------------------------------------
(* The steps of WalletBook that those of Multitenant are.                  *)

\* A call, as WalletBook has it.
ACall(op, name, key, at, id) == [op |-> op, name |-> name, key |-> key, at |-> at, id |-> id]

LEMMA CalledIs ==
  ASSUME NEW c \in Calls
  PROVE  /\ run[c].op \in {"create", "remove"} =>
              Called[c] = ACall(run[c].op, run[c].name, run[c].key,
                                IF run[c].at \in Quiet THEN run[c].at ELSE "open",
                                IF run[c].op = "create" /\ run[c].at = "done" THEN run[c].id ELSE None)
         /\ run[c].op \notin {"create", "remove"} => Called[c] = Book!NoCall
  BY DEF Called, CallOf, ACall, Idle, Quiet, Book!NoCall

\* What callers see of one slot changes.
LEMMA CalledStep ==
  ASSUME NEW c \in Calls, \A d \in Calls \ {c} : run'[d] = run[d]
  PROVE  /\ Called' = [Called EXCEPT ![c] = CallOf(c)']
         /\ CallOf(c)' = CallOf(c) => Called' = Called
         /\ Called[c] = CallOf(c)
  <1>1. \A d \in Calls \ {c} : CallOf(d)' = CallOf(d)
    BY DEF CallOf
  <1>2. QED
    BY <1>1 DEF Called

\* A request goes on: its caller sees how it ends, if it does.
LEMMA CallMoves ==
  ASSUME Inv, NEW c \in Calls, NEW label, NEW id, run[c].at \notin Quiet,
         run' = [run EXCEPT ![c] = [run[c] EXCEPT !.at = label, !.id = id]]
  PROVE  /\ label \notin Quiet \/ run[c].op \notin {"create", "remove"} => Called' = Called
         /\ run[c].op \in {"create", "remove"} =>
              /\ Called[c] = ACall(run[c].op, run[c].name, run[c].key, "open", None)
              /\ label = "failed" => Book!Answer(c, "failed", None)
              /\ run[c].op = "remove" /\ label = "done" => Book!Answer(c, "done", None)
              /\ run[c].op = "create" /\ label = "done" => Book!Answer(c, "done", id)
  <1>1. run[c] \in RunType(made) /\ run \in [Calls -> RunType(made)]
    BY DEF Inv, RunOK
  <1>2. /\ run'[c].at = label /\ run'[c].id = id
        /\ run'[c].op = run[c].op /\ run'[c].name = run[c].name /\ run'[c].key = run[c].key
        /\ \A d \in Calls \ {c} : run'[d] = run[d]
    BY <1>1 DEF RunType
  <1>3. /\ Called' = [Called EXCEPT ![c] = CallOf(c)']
        /\ CallOf(c)' = CallOf(c) => Called' = Called
        /\ Called[c] = CallOf(c)
    BY <1>2, CalledStep
  <1>4. CASE run[c].op \notin {"create", "remove"}
    BY <1>2, <1>3, <1>4 DEF CallOf
  <1>5. CASE run[c].op \in {"create", "remove"}
    <2>1. CallOf(c) = ACall(run[c].op, run[c].name, run[c].key, "open", None)
      BY <1>5 DEF CallOf, ACall, Quiet
    <2>2. CallOf(c)' = ACall(run[c].op, run[c].name, run[c].key,
                             IF label \in Quiet THEN label ELSE "open",
                             IF run[c].op = "create" /\ label = "done" THEN id ELSE None)
      BY <1>2, <1>5 DEF CallOf, ACall
    <2>3. label \notin Quiet => Called' = Called
      BY <1>3, <2>1, <2>2 DEF Quiet
    <2>4. ASSUME NEW at, NEW i, CallOf(c)' = ACall(run[c].op, run[c].name, run[c].key, at, i)
          PROVE  Book!Answer(c, at, i)
      <3>1. Called[c] = ACall(run[c].op, run[c].name, run[c].key, "open", None)
        BY <1>3, <2>1
      <3>2. /\ Called[c].op = run[c].op /\ Called[c].name = run[c].name
            /\ Called[c].key = run[c].key
        BY <3>1 DEF ACall
      <3>3. QED
        BY <1>3, <2>4, <3>2 DEF Book!Answer, ACall
    <2>5. QED
      BY <1>3, <1>5, <2>1, <2>2, <2>3, <2>4 DEF Quiet
  <1>6. QED
    BY <1>4, <1>5

\* With the locals of nobody else changed.
LEMMA MoveCalled ==
  ASSUME Inv, NEW c \in Calls, run[c].at \notin Quiet, NEW label, NEW id,
         (GoTo(c, label) /\ id = run[c].id) \/ Hold(c, id, label)
  PROVE  /\ label \notin Quiet \/ run[c].op \notin {"create", "remove"} => Called' = Called
         /\ run[c].op \in {"create", "remove"} =>
              /\ Called[c] = ACall(run[c].op, run[c].name, run[c].key, "open", None)
              /\ label = "failed" => Book!Answer(c, "failed", None)
              /\ run[c].op = "remove" /\ label = "done" => Book!Answer(c, "done", None)
              /\ run[c].op = "create" /\ label = "done" => Book!Answer(c, "done", id)
  <1>1. RunOK
    BY DEF Inv
  <1>2. run' = [run EXCEPT ![c] = [run[c] EXCEPT !.at = label, !.id = id]]
    BY <1>1, Moves
  <1>3. QED
    BY <1>2, CallMoves

\* A new request.
LEMMA AskStep ==
  ASSUME Inv, NEW c \in Calls, CreateWallet(c) \/ RemoveWallet(c) \/ PostWebhook(c)
  PROVE  Book!Ask(c) \/ Book!Forget
  <1>1. PICK op, label, name, key, ttl, auto, id :
          /\ Begin(c, op, label, name, key, ttl, auto, id)
          /\ \/ /\ op \in {"create", "remove"} /\ label \in {"create", "get"}
                /\ name \in Names /\ key \in Keys
             \/ op = "webhook"
    BY DEF CreateWallet, RemoveWallet, PostWebhook
  <1>2. /\ UNCHANGED <<made, wallets>> /\ run[c].at \in Quiet
        /\ run'[c].at = label /\ run'[c].op = op /\ run'[c].name = name /\ run'[c].key = key
        /\ \A d \in Calls \ {c} : run'[d] = run[d]
    BY <1>1 DEF Begin, Inv, RunOK
  <1>3. Called' = [Called EXCEPT ![c] = CallOf(c)'] /\ Called[c] = CallOf(c)
    BY <1>2, CalledStep
  <1>4. Called[c].at # "open"
    BY <1>2, <1>3 DEF CallOf, Idle, Quiet
  <1>5. CASE op \in {"create", "remove"}
    <2>1. CallOf(c)' = [op |-> op, name |-> name, key |-> key, at |-> "open", id |-> None]
      BY <1>1, <1>2, <1>5 DEF CallOf, Quiet
    <2>2. QED
      BY <1>1, <1>2, <1>3, <1>4, <1>5, <2>1 DEF Book!Ask
  <1>6. CASE op = "webhook"
    <2>1. CallOf(c)' = Book!NoCall
      BY <1>2, <1>6 DEF CallOf, Idle, Quiet, Book!NoCall
    <2>2. Called' = [d \in Calls |-> IF d \in {c} THEN Book!NoCall ELSE Called[d]]
      BY <1>3, <2>1 DEF Called
    <2>3. QED
      BY <1>2, <2>2 DEF Book!Forget
  <1>7. QED
    BY <1>1, <1>5, <1>6

\* A request goes on that neither makes nor removes a wallet.
LEMMA QuietStep ==
  ASSUME Inv, NEW c \in Calls, run[c].at \notin Quiet, NEW label, NEW id,
         (GoTo(c, label) /\ id = run[c].id) \/ Hold(c, id, label),
         UNCHANGED <<made, wallets>>,
         label \in Labels, label # "idle", label = "done" => run[c].op = "webhook"
  PROVE  Book!Next \/ UNCHANGED <<made, wallets, Called>>
  <1>1. CASE label \notin Quiet \/ run[c].op \notin {"create", "remove"}
    BY <1>1, MoveCalled
  <1>2. CASE label = "failed" /\ run[c].op \in {"create", "remove"}
    <2>1. /\ Called[c] = ACall(run[c].op, run[c].name, run[c].key, "open", None)
          /\ Book!Answer(c, "failed", None)
      BY <1>2, MoveCalled
    <2>2. Called[c].at = "open"
      BY <2>1 DEF ACall
    <2>3. QED
      BY <2>1, <2>2 DEF Book!Next, Book!Fail
  <1>3. QED
    BY <1>1, <1>2 DEF Quiet

\* A create is answered with the wallet it works with, which is of its name
\* and its key.
LEMMA GiveStep ==
  ASSUME Inv, NEW c \in Calls, run[c].at \in {"cacheSet", "connect"}, GoTo(c, "done"),
         UNCHANGED <<made, wallets>>
  PROVE  Book!Give(c) /\ Called'[c].id = run[c].id
  <1>1. /\ run[c].op = "create" /\ run[c].at \notin Quiet /\ run[c].id \in DOMAIN made
        /\ made[run[c].id] = [name |-> run[c].name, key |-> run[c].key]
    BY DEF Inv, RunOK, GoodRun, CreateLabels, Quiet
  <1>2. /\ Called[c] = ACall("create", run[c].name, run[c].key, "open", None)
        /\ Book!Answer(c, "done", run[c].id)
    BY <1>1, MoveCalled
  <1>3. /\ Called[c].op = "create" /\ Called[c].at = "open"
        /\ Called[c].name = run[c].name /\ Called[c].key = run[c].key
    BY <1>2 DEF ACall
  <1>4. Book!Give(c)
    BY <1>1, <1>2, <1>3 DEF Book!Give, Book!Open
  <1>5. Called'[c].id = run[c].id
    BY <1>2 DEF Book!Answer, Called
  <1>6. QED
    BY <1>4, <1>5

\* A create makes its wallet; its answer may be a failure.
LEMMA MakeStep ==
  ASSUME Inv, NEW c \in Calls, CallCreateWallet(c) \/ CallCreateWalletLost(c)
  PROVE  Book!Make(c)
  <1>1. /\ run[c].op = "create" /\ run[c].at \notin Quiet /\ run[c].name \in Names
        /\ Registered(c) /\ wallets[run[c].name] = None
    BY DEF Inv, RunOK, GoodRun, CreateLabels, Quiet, CallCreateWallet, CallCreateWalletLost
  <1>2. Called[c] = ACall("create", run[c].name, run[c].key, "open", None)
    BY <1>1, CalledIs DEF Quiet
  <1>3. /\ Called[c].op = "create" /\ Called[c].at = "open"
        /\ Called[c].name = run[c].name /\ Called[c].key = run[c].key
    BY <1>2 DEF ACall
  <1>4. Called' = Called \/ Book!Answer(c, "failed", None)
    <2>1. CASE CallCreateWallet(c)
      <3>1. PICK id : Hold(c, id, "cacheSet")
        BY <2>1 DEF CallCreateWallet
      <3>2. "cacheSet" \notin Quiet
        BY DEF Quiet
      <3>3. QED
        BY <1>1, <3>1, <3>2, MoveCalled
    <2>2. CASE UNCHANGED run
      BY <2>2 DEF Called, CallOf
    <2>3. CASE GoTo(c, "failed")
      BY <1>1, <2>3, MoveCalled
    <2>4. QED
      BY <2>1, <2>2, <2>3 DEF CallCreateWalletLost
  <1>5. QED
    BY <1>1, <1>3, <1>4 DEF Book!Make, Book!Open, Registered

\* A remove strikes out the wallet of its name: the cache told it which.
LEMMA StrikeStep ==
  ASSUME Inv, NEW c \in Calls, run[c].at = "remove", Opens(run[c].id, run[c].key),
         wallets' = [wallets EXCEPT ![made[run[c].id].name] = None], UNCHANGED made,
         GoTo(c, "done") \/ GoTo(c, "failed")
  PROVE  Book!Strike(c)
  <1>1. run[c].op = "remove" /\ run[c].at \notin Quiet /\ run[c].name \in Names
    BY DEF Inv, RunOK, GoodRun, Quiet
  <1>2. PICK n \in Names : run[c].id = wallets[n] /\ wallets[n] # None
    BY DEF Opens, Alive
  <1>3. made[run[c].id].name = n /\ made[run[c].id].name = run[c].name
    BY <1>2 DEF Inv, WalletsOK, RunOK, GoodRun
  <1>4. /\ wallets[run[c].name] = run[c].id /\ run[c].id # None
        /\ made[run[c].id].key = run[c].key
    BY <1>2, <1>3 DEF Opens
  <1>5. Called[c] = ACall("remove", run[c].name, run[c].key, "open", None)
    BY <1>1, CalledIs
  <1>6. /\ Called[c].op = "remove" /\ Called[c].at = "open"
        /\ Called[c].name = run[c].name /\ Called[c].key = run[c].key
    BY <1>5 DEF ACall
  <1>7. Book!Answer(c, "done", None) \/ Book!Answer(c, "failed", None)
    BY <1>1, MoveCalled
  <1>8. QED
    BY <1>3, <1>4, <1>6, <1>7 DEF Book!Strike, Book!Open

LEMMA BookStep ==
  ASSUME Inv, NEW c \in Calls, Step(c)
  PROVE  Book!Next \/ UNCHANGED <<made, wallets, Called>>
  <1>1. CASE CallCreateWallet(c) \/ CallCreateWalletLost(c)
    BY <1>1, MakeStep DEF Book!Next
  <1>2. ASSUME run[c].at \notin Quiet, UNCHANGED <<made, wallets>>,
               \E label, id :
                 /\ label \in Labels \ {"idle"}
                 /\ GoTo(c, label) \/ Hold(c, id, label)
                 /\ label = "done" => run[c].op = "webhook"
        PROVE  Book!Next \/ UNCHANGED <<made, wallets, Called>>
    BY <1>2, QuietStep
  <1>3. CASE AlreadyExists(c)
    BY <1>2, <1>3 DEF AlreadyExists, Labels, Quiet
  <1>4. CASE GetTokenAndWalletId(c)
    BY <1>2, <1>4 DEF GetTokenAndWalletId, Labels, Quiet
  <1>5. CASE CallGetAllWallets(c)
    BY <1>2, <1>5 DEF CallGetAllWallets, Labels, Quiet
  <1>6. CASE CallGetToken(c)
    BY <1>2, <1>6 DEF CallGetToken, Labels, Quiet
  <1>7. CASE AddWalletToCache(c)
    <2>1. CASE GoTo(c, "done")
      BY <1>7, <2>1, GiveStep DEF AddWalletToCache, Book!Next
    <2>2. CASE GoTo(c, "connect")
      BY <1>2, <1>7, <2>2 DEF AddWalletToCache, Labels, Quiet
    <2>3. QED
      BY <1>7, <2>1, <2>2 DEF AddWalletToCache, AfterCacheSet
  <1>8. CASE CallCreateConnection(c)
    <2>1. CASE GoTo(c, "done")
      BY <1>8, <2>1, GiveStep DEF CallCreateConnection, Book!Next
    <2>2. CASE GoTo(c, "failed")
      BY <1>2, <1>8, <2>2 DEF CallCreateConnection, Labels, Quiet
    <2>3. QED
      BY <1>8, <2>1, <2>2 DEF CallCreateConnection
  <1>9. CASE GetWallet(c)
    BY <1>2, <1>9 DEF GetWallet, Labels, Quiet
  <1>10. CASE CallRemoveWallet(c)
    <2>1. CASE Opens(run[c].id, run[c].key)
      BY <1>10, <2>1, StrikeStep DEF CallRemoveWallet, Book!Next
    <2>2. CASE ~Opens(run[c].id, run[c].key)
      BY <1>2, <1>10, <2>2 DEF CallRemoveWallet, Labels, Quiet
    <2>3. QED
      BY <2>1, <2>2
  <1>11. CASE CallRemoveWalletLost(c)
    BY <1>11, StrikeStep DEF CallRemoveWalletLost, Book!Next
  <1>12. CASE HandleRequest(c)
    <2>1. run[c].op = "webhook"
      BY <1>12 DEF HandleRequest, Inv, RunOK, GoodRun
    <2>2. QED
      BY <1>2, <1>12, <2>1 DEF HandleRequest, Labels, Quiet
  <1>13. CASE CallFails(c) \/ CacheFails(c)
    BY <1>2, <1>13 DEF CallFails, CacheFails, Labels, Quiet
  <1>14. QED
    BY <1>1, <1>3, <1>4, <1>5, <1>6, <1>7, <1>8, <1>9, <1>10, <1>11, <1>12, <1>13 DEF Step

\* A restart loses the requests that are not answered, webhooks among them.
LEMMA ForgetStep ==
  ASSUME Inv, Crash
  PROVE  Book!Forget
  <1> DEFINE lost == {c \in Calls : run[c].at \notin Quiet}
  <1>1. ASSUME NEW c \in Calls
        PROVE  CallOf(c)' = IF c \in lost THEN Book!NoCall ELSE Called[c]
    <2>1. CASE c \in lost
      <3>1. run'[c] = Idle
        BY <2>1 DEF Crash
      <3>2. QED
        BY <2>1, <3>1 DEF CallOf, Idle, Quiet, Book!NoCall
    <2>2. CASE c \notin lost
      BY <2>2 DEF Crash, CallOf, Called
    <2>3. QED
      BY <2>1, <2>2
  <1>2. Called' = [c \in Calls |-> IF c \in lost THEN Book!NoCall ELSE Called[c]]
    BY <1>1 DEF Called
  <1>3. QED
    BY <1>2 DEF Book!Forget, Crash

LEMMA BookNext == Inv /\ [Next]_vars => [Book!Next]_<<made, wallets, Called>>
  <1> SUFFICES ASSUME Inv, [Next]_vars
               PROVE  Book!Next \/ UNCHANGED <<made, wallets, Called>>
    OBVIOUS
  <1>1. ASSUME NEW c \in Calls, CreateWallet(c) \/ RemoveWallet(c) \/ PostWebhook(c)
        PROVE  Book!Next
    BY <1>1, AskStep DEF Book!Next
  <1>2. CASE Crash
    BY <1>2, ForgetStep DEF Book!Next
  <1>3. CASE Tick \/ UNCHANGED vars
    BY <1>3 DEF Tick, vars, Called, CallOf
  <1>4. QED
    BY <1>1, <1>2, <1>3, BookStep DEF Next

LEMMA BookInit == Init => Book!Init
  BY DEF Init, Book!Init, Called, CallOf, Idle, Quiet, Book!NoCall

\* Whatever is cached, for however long, and whoever else is at work on the
\* name: no create is given, and no remove removes, a wallet but that of its
\* own name and key, and nothing else ever changes the agent's wallets.
THEOREM WalletsAreKeptByTheBook == Spec => ImplementsWalletBook
  <1>1. Inv /\ [Next]_vars => [Book!Next]_Book!bookVars
    BY BookNext DEF Book!bookVars
  <1>2. QED
    BY <1>1, BookInit, InitInv, NextInv, PTL DEF Spec, ImplementsWalletBook, Book!Spec
=============================================================================
