----------------------- MODULE MultitenantSerial_proofs -----------------------
(***************************************************************************)
(* Multitenant when requests come one at a time and nothing fails: the     *)
(* cache, which no request tells of a removed wallet, is then right        *)
(* whenever it is used.                                                    *)
(***************************************************************************)
EXTENDS Multitenant_proofs

\* One request at a time, and no failures.
Serial == Faults = {} /\ \A c, d \in Calls : c = d

\* The name's entry is about to be written.
Pending(n) == \E c \in Calls : run[c].at = "cacheSet" /\ run[c].name = n

\* A create past the answer of the agent, and a webhook, are about a wallet
\* that exists.  An entry may be that of a removed wallet, but not once the
\* name has a wallet again.  What was gone when a request began stays gone.
SerialOK ==
  /\ \A c \in Calls : run[c].at \in {"lookup", "list", "token", "cacheSet", "connect", "dispatch"} =>
       wallets[run[c].name] # None
  /\ \A c \in Calls : run[c].at \in {"token", "cacheSet", "connect", "dispatch"} =>
       run[c].id = wallets[run[c].name]
  /\ \A n \in Names : wallets[n] # None /\ cache[n] # None /\ ~Pending(n) =>
       cache[n].id = wallets[n]
  /\ \A c \in Calls : run[c].dead \cap Alive = {}
  /\ NoDeadWallet

LEMMA SerialImplies == SerialOK => NoDeadWallet /\ CacheIsCurrent
  <1> SUFFICES ASSUME SerialOK, NEW n \in Names,
                      Free(n), wallets[n] # None, cache[n] # None
               PROVE  cache[n].id = wallets[n]
    BY DEF SerialOK, CacheIsCurrent
  <1>1. ~Pending(n)
    BY DEF Free, Pending, Quiet
  <1>2. QED
    BY <1>1 DEF SerialOK

\* What a step does to the locals.
Goes(c, label, id) ==
  /\ run'[c].at = label /\ run'[c].id = id
  /\ run'[c].name = run[c].name /\ run'[c].op = run[c].op /\ run'[c].dead = run[c].dead

LEMMA Went ==
  ASSUME RunOK, NEW c \in Calls
  PROVE  /\ \A label : GoTo(c, label) => Goes(c, label, run[c].id)
         /\ \A id, label : Hold(c, id, label) => Goes(c, label, id)
  BY DEF Goes, GoTo, Hold, RunOK, RunType

LEMMA LivesAlive == ASSUME NEW n \in Names, wallets[n] # None PROVE wallets[n] \in Alive
  BY DEF Alive

\* A request goes on and the data stay.
LEMMA SerialMove ==
  ASSUME Inv, Serial, SerialOK, NEW c \in Calls, NEW label, NEW id, Goes(c, label, id),
         UNCHANGED <<wallets, cache>>, run[c].name \in Names, run[c].at # "cacheSet",
         label \in {"lookup", "list", "token", "cacheSet"} => wallets[run[c].name] # None,
         label \in {"token", "cacheSet"} => id = wallets[run[c].name],
         label \notin {"connect", "dispatch"},
         run[c].op = "create" /\ label = "done" => id \notin run[c].dead
  PROVE  SerialOK'
  <1>1. \A d \in Calls : d = c
    BY DEF Serial
  <1>2. /\ run'[c].at = label /\ run'[c].id = id
        /\ run'[c].name = run[c].name /\ run'[c].op = run[c].op /\ run'[c].dead = run[c].dead
    BY DEF Goes
  <1>3. \A n \in Names : Pending(n) => FALSE
    BY <1>1 DEF Pending
  <1>4. Alive' = Alive
    BY DEF Alive
  <1>5. NoDeadWallet'
    <2>1. label = "cacheSet" => id \notin run[c].dead
      BY LivesAlive DEF SerialOK
    <2>2. QED
      BY <1>1, <1>2, <2>1 DEF NoDeadWallet, Granted
  <1>6. QED
    BY <1>1, <1>2, <1>3, <1>4, <1>5 DEF SerialOK

\* A new request.
LEMMA SerialBegin ==
  ASSUME Inv, Serial, SerialOK, NEW c \in Calls, CreateWallet(c) \/ RemoveWallet(c) \/ PostWebhook(c)
  PROVE  SerialOK'
  <1>1. \A d \in Calls : d = c
    BY DEF Serial
  <1>2. c \in DOMAIN run
    BY DEF Inv, RunOK
  <1>3. PICK name \in Names, label \in {"create", "get", "dispatch"} :
          /\ run'[c].at = label /\ run'[c].name = name
          /\ run'[c].dead = DOMAIN made \ Alive
          /\ label = "dispatch" => wallets[name] # None /\ run'[c].id = wallets[name]
          /\ UNCHANGED <<made, wallets, cache>> /\ run[c].at \in Quiet
    <2>1. CASE CreateWallet(c)
      BY <1>2, <2>1 DEF CreateWallet, Begin
    <2>2. CASE RemoveWallet(c)
      BY <1>2, <2>2 DEF RemoveWallet, Begin
    <2>3. CASE PostWebhook(c)
      BY <1>2, <2>3 DEF PostWebhook, Begin
    <2>4. QED
      BY <2>1, <2>2, <2>3
  <1>4. /\ run'[c].at = label /\ run'[c].name = name
        /\ run'[c].dead = DOMAIN made \ Alive
        /\ UNCHANGED <<wallets, cache>> /\ run[c].at \in Quiet
    BY <1>3
  <1>5. Alive' = Alive
    BY <1>4 DEF Alive
  <1>6. \A n \in Names : ~Pending(n)
    BY <1>1, <1>4 DEF Pending, Quiet
  <1>7. NoDeadWallet'
    BY <1>1, <1>3, <1>4 DEF NoDeadWallet, Granted
  <1>8. QED
    BY <1>1, <1>3, <1>4, <1>5, <1>6, <1>7 DEF SerialOK

\* A new wallet: its name has none, so its entry is the old one until the
\* request writes it.
LEMMA SerialCreate ==
  ASSUME Inv, Serial, SerialOK, NEW c \in Calls, CallCreateWallet(c)
  PROVE  SerialOK'
  <1>1. \A d \in Calls : d = c
    BY DEF Serial
  <1>2. run[c].name \in Names /\ run[c].at = "create" /\ made \in Seq(WalletType)
    BY DEF CallCreateWallet, Inv, MadeOK, RunOK, GoodRun, Quiet
  <1> DEFINE id == Len(made) + 1
  <1>3. id \notin Ids /\ id # None
    BY <1>2, MultitenantAssumption DEF Ids
  <1>4. RunOK /\ Hold(c, id, "cacheSet")
    BY DEF CallCreateWallet, Inv
  <1>5. UNCHANGED cache /\ \A n \in Names : wallets'[n] = IF n = run[c].name THEN id ELSE wallets[n]
    BY DEF CallCreateWallet, Registered, Inv, WalletsOK
  <1> HIDE DEF id
  <1>6. /\ run'[c].at = "cacheSet" /\ run'[c].id = id
        /\ run'[c].name = run[c].name /\ run'[c].dead = run[c].dead
    BY <1>4, Went DEF Goes
  <1>7. run[c].dead \subseteq Ids
    BY DEF Inv, RunOK, RunType, Ids
  <1>8. Alive' \subseteq Alive \cup {id}
    BY <1>5 DEF Alive
  <1>9. \A n \in Names : Pending(n)' <=> n = run[c].name
    BY <1>1, <1>6 DEF Pending
  <1>10. \A n \in Names : ~Pending(n)
    BY <1>1, <1>2 DEF Pending
  <1>11. NoDeadWallet'
    BY <1>1, <1>3, <1>6, <1>7 DEF NoDeadWallet, Granted
  <1>12. run'[c].dead \cap Alive' = {}
    BY <1>3, <1>6, <1>7, <1>8 DEF SerialOK
  <1>13. \A n \in Names : wallets'[n] # None /\ cache'[n] # None /\ ~Pending(n)' =>
           cache'[n].id = wallets'[n]
    BY <1>5, <1>9, <1>10 DEF SerialOK
  <1>14. QED
    BY <1>1, <1>2, <1>3, <1>5, <1>6, <1>11, <1>12, <1>13 DEF SerialOK

\* A removed wallet: its name has none.
LEMMA SerialRemove ==
  ASSUME Inv, Serial, SerialOK, NEW c \in Calls,
         run[c].at = "remove", run[c].op # "create", NEW n \in Names,
         wallets' = [wallets EXCEPT ![n] = None], UNCHANGED cache, GoTo(c, "done")
  PROVE  SerialOK'
  <1>1. \A d \in Calls : d = c
    BY DEF Serial
  <1>2. /\ run'[c].at = "done" /\ run'[c].op = run[c].op /\ run'[c].dead = run[c].dead
    BY Went DEF Goes, Inv
  <1>3. \A m \in Names : wallets'[m] = IF m = n THEN None ELSE wallets[m]
    BY DEF Inv, WalletsOK
  <1>4. Alive' \subseteq Alive
    BY <1>3 DEF Alive
  <1>5. \A m \in Names : ~Pending(m)
    BY <1>1 DEF Pending
  <1>6. NoDeadWallet'
    BY <1>1, <1>2 DEF NoDeadWallet, Granted
  <1>7. QED
    BY <1>1, <1>2, <1>3, <1>4, <1>5, <1>6 DEF SerialOK

\* The entry that is written is that of the name's wallet.
LEMMA SerialWrite ==
  ASSUME Inv, Serial, SerialOK, NEW c \in Calls, AddWalletToCache(c)
  PROVE  SerialOK'
  <1>1. \A d \in Calls : d = c
    BY DEF Serial
  <1>2. run[c].at = "cacheSet" /\ run[c].name \in Names /\ run[c].op = "create"
    BY DEF AddWalletToCache, Inv, RunOK, GoodRun, Quiet, CreateLabels
  <1>3. run[c].id = wallets[run[c].name] /\ wallets[run[c].name] # None
    BY <1>2 DEF SerialOK
  <1>4. PICK label \in {"connect", "done"} : GoTo(c, label)
    BY DEF AddWalletToCache, AfterCacheSet
  <1>5. /\ run'[c].at = label /\ run'[c].id = run[c].id /\ run'[c].op = run[c].op
        /\ run'[c].name = run[c].name /\ run'[c].dead = run[c].dead
    BY <1>4, Went DEF Goes, Inv
  <1>6. UNCHANGED wallets /\ Alive' = Alive
    BY DEF AddWalletToCache, Alive
  <1>7. \A n \in Names : n # run[c].name => cache'[n] = cache[n]
    BY DEF AddWalletToCache, Inv, CacheOK
  <1>8. cache'[run[c].name] = None \/ cache'[run[c].name].id = run[c].id
    BY <1>2 DEF AddWalletToCache, Inv, CacheOK
  <1>9. \A n \in Names : Pending(n) => n = run[c].name
    BY <1>1 DEF Pending
  <1>10. NoDeadWallet'
    BY <1>1, <1>2, <1>3, <1>5, LivesAlive DEF NoDeadWallet, Granted, SerialOK
  <1>11. \A n \in Names : wallets'[n] # None /\ cache'[n] # None => cache'[n].id = wallets'[n]
    BY <1>3, <1>6, <1>7, <1>8, <1>9 DEF SerialOK
  <1>12. QED
    BY <1>1, <1>3, <1>5, <1>6, <1>10, <1>11 DEF SerialOK

LEMMA SerialStep ==
  ASSUME Inv, OwnCache, Serial, SerialOK, NEW c \in Calls, Step(c)
  PROVE  SerialOK'
  <1>0. GoodRun(run[c], made) /\ RunOK
    BY DEF Inv, RunOK
  <1>1. ~CallCreateWalletLost(c) /\ ~CallRemoveWalletLost(c) /\ ~CallFails(c) /\ ~CacheFails(c)
    BY DEF Serial, CallCreateWalletLost, CallRemoveWalletLost, CallFails, CacheFails
  <1>2. run[c].at \notin Quiet => run[c].name \in Names
    BY <1>0 DEF GoodRun
  <1>3. \A label : GoTo(c, label) => Goes(c, label, run[c].id)
    BY <1>0, Went
  <1>4. \A id, label : Hold(c, id, label) => Goes(c, label, id)
    BY <1>0, Went
  <1>5. CASE CallCreateWallet(c)
    BY <1>5, SerialCreate
  <1>6. CASE AddWalletToCache(c)
    BY <1>6, SerialWrite
  <1>7. CASE AlreadyExists(c)
    <2>1. GoTo(c, "lookup") /\ wallets[run[c].name] # None /\ run[c].name \in Names
          /\ run[c].at # "cacheSet" /\ UNCHANGED <<wallets, cache>>
      BY <1>2, <1>7 DEF AlreadyExists, Quiet
    <2>2. QED
      BY <1>3, <2>1, SerialMove
  <1>8. CASE GetTokenAndWalletId(c)
    <2>1. /\ run[c].at = "lookup" /\ wallets[run[c].name] # None /\ run[c].name \in Names
          /\ UNCHANGED <<wallets, cache>>
      BY <1>2, <1>8 DEF GetTokenAndWalletId, SerialOK, Quiet
    <2>2. ~Pending(run[c].name)
      BY <2>1 DEF Pending, Serial
    <2>3. CASE GoTo(c, "list") \/ GoTo(c, "failed")
      BY <1>3, <2>1, <2>3, SerialMove
    <2>4. CASE cache[run[c].name] # None /\ Hold(c, cache[run[c].name].id, "cacheSet")
      <3>1. cache[run[c].name].id = wallets[run[c].name]
        BY <2>1, <2>2, <2>4 DEF SerialOK
      <3>2. Hold(c, wallets[run[c].name], "cacheSet")
        BY <2>4, <3>1
      <3>3. QED
        BY <1>4, <2>1, <3>2, SerialMove
    <2>5. QED
      BY <1>8, <2>3, <2>4 DEF GetTokenAndWalletId
  <1>9. CASE CallGetAllWallets(c)
    <2>1. /\ run[c].at = "list" /\ wallets[run[c].name] # None /\ run[c].name \in Names
          /\ UNCHANGED <<wallets, cache>>
      BY <1>2, <1>9 DEF CallGetAllWallets, SerialOK, Quiet
    <2>2. Hold(c, wallets[run[c].name], "token")
      BY <1>9, <2>1 DEF CallGetAllWallets
    <2>3. QED
      BY <1>4, <2>1, <2>2, SerialMove
  <1>10. CASE CallGetToken(c)
    <2>1. /\ run[c].at = "token" /\ wallets[run[c].name] # None /\ run[c].name \in Names
          /\ run[c].id = wallets[run[c].name] /\ UNCHANGED <<wallets, cache>>
      BY <1>2, <1>10 DEF CallGetToken, SerialOK, Quiet
    <2>2. PICK label \in {"cacheSet", "failed"} : GoTo(c, label)
      BY <1>10 DEF CallGetToken
    <2>3. QED
      BY <1>3, <2>1, <2>2, SerialMove
  <1>11. CASE CallCreateConnection(c)
    <2>1. /\ run[c].at = "connect" /\ run[c].name \in Names /\ run[c].op = "create"
          /\ UNCHANGED <<wallets, cache>>
      BY <1>0, <1>2, <1>11 DEF CallCreateConnection, GoodRun, CreateLabels, Quiet
    <2>2. run[c].id \notin run[c].dead
      BY <2>1 DEF SerialOK, NoDeadWallet, Granted
    <2>3. PICK label \in {"done", "failed"} : GoTo(c, label)
      BY <1>11 DEF CallCreateConnection
    <2>4. QED
      BY <1>3, <2>1, <2>2, <2>3, SerialMove
  <1>12. CASE GetWallet(c) \/ HandleRequest(c)
    <2>1. /\ run[c].at \in {"get", "dispatch"} /\ run[c].name \in Names /\ run[c].op # "create"
          /\ UNCHANGED <<wallets, cache>>
      BY <1>0, <1>2, <1>12 DEF GetWallet, HandleRequest, GoodRun, Quiet
    <2>2. CASE GoTo(c, "failed")
      BY <1>3, <2>1, <2>2, SerialMove
    <2>3. CASE \E id : Hold(c, id, "remove") \/ Hold(c, id, "done")
      <3>1. PICK id : Hold(c, id, "remove") \/ Hold(c, id, "done")
        BY <2>3
      <3>2. Goes(c, "remove", id) \/ Goes(c, "done", id)
        BY <1>4, <3>1
      <3>3. QED
        BY <2>1, <3>2, SerialMove
    <2>4. QED
      BY <1>12, <2>2, <2>3 DEF GetWallet, HandleRequest
  <1>13. CASE CallRemoveWallet(c)
    <2>1. run[c].at = "remove" /\ run[c].name \in Names /\ run[c].op # "create" /\ UNCHANGED cache
      BY <1>0, <1>2, <1>13 DEF CallRemoveWallet, GoodRun, Quiet
    <2>2. CASE GoTo(c, "failed") /\ UNCHANGED wallets
      BY <1>3, <2>1, <2>2, SerialMove
    <2>3. CASE Opens(run[c].id, run[c].key)
      <3>1. run[c].id \in Ids
        BY <2>3, Alives DEF Opens, Inv
      <3>2. made[run[c].id].name \in Names
        <4>1. made[run[c].id] \in WalletType
          BY <3>1 DEF Inv, MadeOK, Ids
        <4>2. QED
          BY <4>1 DEF WalletType
      <3>3. QED
        BY <1>13, <2>1, <2>3, <3>2, SerialRemove DEF CallRemoveWallet
    <2>4. QED
      BY <1>13, <2>2, <2>3 DEF CallRemoveWallet
  <1>14. QED
    BY <1>1, <1>5, <1>6, <1>7, <1>8, <1>9, <1>10, <1>11, <1>12, <1>13 DEF Step

LEMMA SerialTick ==
  ASSUME Inv, Serial, SerialOK, Tick
  PROVE  SerialOK'
  <1>1. UNCHANGED <<made, wallets, run>>
    BY DEF Tick
  <1>2. \A n \in Names : cache'[n] # None => cache[n] # None /\ cache'[n].id = cache[n].id
    BY TickEntry
  <1>3. QED
    BY <1>1, <1>2 DEF SerialOK, NoDeadWallet, Granted, Pending, Alive

SerialInv == Inv /\ OwnCache /\ SerialOK

LEMMA SerialNext == Serial /\ SerialInv /\ [Next]_vars => SerialInv'
  <1> SUFFICES ASSUME Serial, SerialInv, [Next]_vars
               PROVE  SerialInv'
    OBVIOUS
  <1>1. Inv' /\ OwnCache'
    BY NextInv, OwnNext DEF SerialInv
  <1>2. ~Crash
    BY DEF Serial, Crash
  <1>3. CASE UNCHANGED vars
    BY <1>1, <1>3 DEF SerialInv, vars, SerialOK, NoDeadWallet, Granted, Pending, Alive
  <1>4. CASE Next
    BY <1>1, <1>2, <1>4, SerialBegin, SerialStep, SerialTick DEF Next, SerialInv
  <1>5. QED
    BY <1>3, <1>4

LEMMA SerialInit == Init => SerialInv
  <1>1. Init => SerialOK
    BY DEF Init, SerialOK, Idle, NoDeadWallet, Granted, Alive
  <1>2. QED
    BY <1>1, InitInv, InitOwn DEF SerialInv

\* A webhook that is dispatched finds the entry of the wallet that sent it.
LEMMA SerialWebhook ==
  ASSUME Serial, SerialInv, [Next]_vars, NEW c \in Calls,
         run[c].at = "dispatch", run'[c].at = "done"
  PROVE  run'[c].id = run[c].id
  <1>0. RunOK /\ \A d \in Calls : d = c
    BY DEF SerialInv, Inv, Serial
  <1>1. ASSUME ~HandleRequest(c)
        PROVE  FALSE
    <2>1. CASE Step(c)
      BY <1>1, <2>1 DEF Step, Serial, CallCreateWallet, AlreadyExists, CallCreateWalletLost,
         GetTokenAndWalletId, CallGetAllWallets, CallGetToken, AddWalletToCache,
         CallCreateConnection, GetWallet, CallRemoveWallet, CallRemoveWalletLost, CallFails,
         CacheFails
    <2>2. CASE CreateWallet(c) \/ RemoveWallet(c) \/ PostWebhook(c)
      BY <2>2 DEF CreateWallet, RemoveWallet, PostWebhook, Begin, Quiet
    <2>3. CASE Crash \/ Tick \/ UNCHANGED vars
      BY <2>3 DEF Serial, Crash, Tick, vars
    <2>4. QED
      BY <1>0, <2>1, <2>2, <2>3 DEF Next
  <1>2. run[c].name \in Names /\ wallets[run[c].name] # None /\ run[c].id = wallets[run[c].name]
    BY <1>0 DEF SerialInv, SerialOK, RunOK, GoodRun, Quiet
  <1>3. ~Pending(run[c].name)
    BY <1>0 DEF Pending
  <1>4. CASE cache[run[c].name] # None
    <2>1. cache[run[c].name].id = run[c].id
      BY <1>2, <1>3, <1>4 DEF SerialInv, SerialOK
    <2>2. Hold(c, run[c].id, "done")
      BY <1>1, <1>4, <2>1 DEF HandleRequest
    <2>3. QED
      BY <1>0, <2>2, Went DEF Goes
  <1>5. CASE cache[run[c].name] = None
    <2>1. GoTo(c, "failed")
      BY <1>1, <1>5 DEF HandleRequest
    <2>2. QED
      BY <1>0, <2>1, Went DEF Goes
  <1>6. QED
    BY <1>4, <1>5

\* As long as requests come one at a time and none fails, no create hands out
\* a wallet that was removed, although removeWallet leaves its entry behind.
THEOREM SerialWalletsLive == Serial => (Spec => []NoDeadWallet)
  <1>1. Serial => []Serial
    OBVIOUS
  <1>2. QED
    BY <1>1, SerialInit, SerialNext, SerialImplies, PTL DEF Spec, SerialInv

\* And the entry of every name that has a wallet is that wallet's, so it can
\* be removed.
THEOREM SerialCacheIsCurrent == Serial => (Spec => []CacheIsCurrent)
  <1>1. Serial => []Serial
    OBVIOUS
  <1>2. QED
    BY <1>1, SerialInit, SerialNext, SerialImplies, PTL DEF Spec, SerialInv

\* And every webhook is handled with the token of the wallet that sent it.
THEOREM SerialWebhooksAreTheirs == Serial => (Spec => WebhookUsesItsWallet)
  <1>1. Serial => []Serial
    OBVIOUS
  <1>2. Serial /\ SerialInv /\ [Next]_vars =>
          \A c \in Calls :
            run[c].at = "dispatch" /\ run'[c].at = "done" /\ run[c].id \in Alive
              => run'[c].id = run[c].id
    BY SerialWebhook
  <1>3. QED
    BY <1>1, <1>2, SerialInit, SerialNext, PTL DEF Spec, WebhookUsesItsWallet

---------------------------------------------------------------------------
(* What a create is given. *)

\* A create is answered with the wallet that the agent has under its name.
LEMMA SerialGives ==
  ASSUME Serial, SerialInv, [Next]_vars, NEW c \in Calls,
         Called'[c] # Called[c], Called'[c].op = "create", Called'[c].at = "done"
  PROVE  wallets[Called'[c].name] = Called'[c].id
  <1>0. RunOK /\ (\A d \in Calls : d = c) /\ SerialInv'
    BY SerialNext DEF SerialInv, Inv, Serial
  <1>1. Called'[c] = CallOf(c)' /\ Called[c] = CallOf(c)
    BY DEF Called
  <1>2. /\ run'[c].op = "create" /\ run'[c].at = "done"
        /\ Called'[c].name = run'[c].name /\ Called'[c].id = run'[c].id
    BY <1>1 DEF CallOf, Idle, Quiet
  <1>3. run'[c] # run[c]
    BY <1>1 DEF CallOf
  <1>4. ASSUME ~AddWalletToCache(c), ~CallCreateConnection(c)
        PROVE  FALSE
    <2>1. CASE Step(c)
      <3>1. run[c].op = "create"
        <4>1. CASE \E label : GoTo(c, label)
          BY <1>0, <1>2, <4>1, Went DEF Goes
        <4>2. CASE \E id, label : Hold(c, id, label)
          BY <1>0, <1>2, <4>2, Went DEF Goes
        <4>3. CASE UNCHANGED run
          BY <1>3, <4>3
        <4>4. QED
          BY <2>1, <4>1, <4>2, <4>3 DEF Step, CallCreateWallet, AlreadyExists,
             CallCreateWalletLost, GetTokenAndWalletId, CallGetAllWallets, CallGetToken,
             AddWalletToCache, AfterCacheSet, CallCreateConnection, GetWallet, CallRemoveWallet,
             CallRemoveWalletLost, HandleRequest, CallFails, CacheFails
      <3>2. ~HandleRequest(c) /\ ~CallRemoveWallet(c) /\ ~GetWallet(c)
        BY <1>0, <3>1 DEF HandleRequest, CallRemoveWallet, GetWallet, RunOK, GoodRun
      <3>3. \A label : GoTo(c, label) => label = "done"
        BY <1>0, <1>2, Went DEF Goes
      <3>4. \A id, label : Hold(c, id, label) => label = "done"
        BY <1>0, <1>2, Went DEF Goes
      <3>5. QED
        BY <1>4, <2>1, <3>2, <3>3, <3>4 DEF Step, Serial, CallCreateWallet, AlreadyExists,
           CallCreateWalletLost, GetTokenAndWalletId, CallGetAllWallets, CallGetToken,
           CallRemoveWalletLost, CallFails, CacheFails
    <2>2. CASE CreateWallet(c) \/ RemoveWallet(c) \/ PostWebhook(c)
      BY <1>0, <1>2, <2>2 DEF CreateWallet, RemoveWallet, PostWebhook, Begin, RunOK
    <2>3. CASE Crash \/ Tick \/ UNCHANGED vars
      BY <1>3, <2>3 DEF Serial, Crash, Tick, vars
    <2>4. QED
      BY <1>0, <2>1, <2>2, <2>3 DEF Next
  <1>5. run[c].at \in {"cacheSet", "connect"} /\ GoTo(c, "done")
    <2>1. PICK label : run[c].at \in {"cacheSet", "connect"} /\ GoTo(c, label)
      BY <1>4 DEF AddWalletToCache, AfterCacheSet, CallCreateConnection
    <2>2. QED
      BY <1>0, <1>2, <2>1, Went DEF Goes
  <1>6. run'[c].id = run[c].id /\ run'[c].name = run[c].name
    BY <1>0, <1>5, Went DEF Goes
  <1>7. run[c].id = wallets[run[c].name]
    BY <1>5 DEF SerialInv, SerialOK
  <1>8. QED
    BY <1>2, <1>6, <1>7

\* And the calls of the endpoints are those of a book in which every create is
\* given the wallet that stands there under its name.
THEOREM SerialWalletsAreCurrent == Serial => (Spec => ImplementsCurrentBook)
  <1>1. Serial => []Serial
    OBVIOUS
  <1>2. ASSUME Serial, SerialInv, [Next]_vars
        PROVE  [Book!Next /\ Book!GivesCurrent]_Book!bookVars
    <2>1. Book!GivesCurrent
      BY <1>2, SerialGives DEF Book!GivesCurrent
    <2>2. [Book!Next]_Book!bookVars
      BY <1>2, BookNext DEF SerialInv, Book!bookVars
    <2>3. QED
      BY <2>1, <2>2
  <1>3. QED
    BY <1>1, <1>2, BookInit, SerialInit, SerialNext, PTL
    DEF Spec, ImplementsCurrentBook, Book!CurrentSpec
=============================================================================
