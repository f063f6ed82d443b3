---------------------------- MODULE Agency_proofs ----------------------------
(***************************************************************************)
(* What the manager and the wallets guarantee on their own they guarantee  *)
(* in one process on one cache, for any agents, wallets, keys and requests *)
(* and any names that both use; an agent that is up is served, and every   *)
(* registration has an invitation of its own.                              *)
(***************************************************************************)
EXTENDS Agency, AgentManagerTimely_proofs, AgentManagerLifecycle_proofs

WP == INSTANCE Multitenant_proofs WITH
        Names <- WalletNames, Keys <- WalletKeys, Calls <- WalletCalls, DtoTtls <- WalletTtls,
        Ops <- WalletOps, Faults <- WalletFaults, StoreTtl <- WalletStoreTtl, cache <- entries

---------------------------------------------------------------------------
(* The wallets of Agency are those that Multitenant_proofs is about. *)

LEMMA WalletAssumption ==
  /\ WalletTtls \subseteq Int \cup {None}
  /\ DEFAULT_TTL_SECONDS \in Nat \ {0}
  /\ MaxWallets \in Nat
  /\ ForeverKept \in BOOLEAN
  /\ WalletStoreTtl \in (Nat \ {0}) \cup {None}
  /\ None \notin Int
  /\ None \notin WalletKeys
  BY AgencyAssumption, ConfigAssumption, ManagerAssumption DEF WalletStoreTtl

LEMMA SameWallets ==
  /\ W!Init <=> WP!Init
  /\ W!Tick <=> WP!Tick
  /\ W!Crash <=> WP!Crash
  /\ \A c : W!Granted(c) <=> WP!Granted(c)
  BY DEF W!Init, W!Idle, W!Tick, W!Crash, W!Quiet, W!Granted,
         WP!Init, WP!Idle, WP!Tick, WP!Crash, WP!Quiet, WP!Granted

LEMMA SameRequests ==
  ASSUME NEW c \in WalletCalls
  PROVE  W!CreateWallet(c) \/ W!RemoveWallet(c) \/ W!PostWebhook(c)
           <=> WP!CreateWallet(c) \/ WP!RemoveWallet(c) \/ WP!PostWebhook(c)
  BY DEF W!CreateWallet, W!RemoveWallet, W!PostWebhook, W!Begin, W!Quiet, W!Alive,
         WP!CreateWallet, WP!RemoveWallet, WP!PostWebhook, WP!Begin, WP!Quiet, WP!Alive

LEMMA SameSteps ==
  ASSUME NEW c \in WalletCalls
  PROVE  W!Step(c) <=> WP!Step(c)
  BY DEF W!Step, W!CallCreateWallet, W!AlreadyExists, W!CallCreateWalletLost,
         W!GetTokenAndWalletId, W!CallGetAllWallets, W!CallGetToken, W!AddWalletToCache,
         W!CallCreateConnection, W!GetWallet, W!CallRemoveWallet, W!CallRemoveWalletLost,
         W!HandleRequest, W!CallFails, W!CacheFails,
         W!GoTo, W!Hold, W!Registered, W!Opens, W!Alive, W!Lifetime, W!AfterCacheSet,
         WP!Step, WP!CallCreateWallet, WP!AlreadyExists, WP!CallCreateWalletLost,
         WP!GetTokenAndWalletId, WP!CallGetAllWallets, WP!CallGetToken, WP!AddWalletToCache,
         WP!CallCreateConnection, WP!GetWallet, WP!CallRemoveWallet, WP!CallRemoveWalletLost,
         WP!HandleRequest, WP!CallFails, WP!CacheFails,
         WP!GoTo, WP!Hold, WP!Registered, WP!Opens, WP!Alive, WP!Lifetime, WP!AfterCacheSet

LEMMA WalletsStep ==
  ASSUME WP!Inv, WalletStep
  PROVE  WP!Inv'
  <1>1. PICK c \in WalletCalls :
          \/ W!CreateWallet(c) \/ W!RemoveWallet(c) \/ W!PostWebhook(c)
          \/ W!Step(c)
    BY DEF WalletStep
  <1>2. CASE W!Step(c)
    <2>1. WP!Step(c)
      BY <1>2, SameSteps
    <2>2. QED
      BY <2>1, WalletAssumption, WP!StepInv
  <1>3. CASE W!CreateWallet(c) \/ W!RemoveWallet(c) \/ W!PostWebhook(c)
    <2>1. WP!CreateWallet(c) \/ WP!RemoveWallet(c) \/ WP!PostWebhook(c)
      BY <1>3, SameRequests
    <2>2. QED
      BY <2>1, WalletAssumption, WP!RequestsStep
  <1>4. QED
    BY <1>1, <1>2, <1>3

---------------------------------------------------------------------------
(* The store. *)

\* What the one side finds in the store is what the other finds.
OneStore ==
  \A n \in WalletNames :
    IF IsWallets(n) THEN cache[n] = AsAgent(entries[n]) ELSE entries[n] = AsWallet(cache[n])

\* An entry of the wallets as the manager finds it, and the other way round.
LEMMA Views ==
  /\ \A e : AsAgent(e) \in CacheType \cup {None}
  /\ \A e \in CacheType \cup {None} :
       AsWallet(e) \in WP!EntryType \cup {None} /\ (AsWallet(e) # None => WP!Foreign(AsWallet(e)))
  <1>1. ASSUME NEW e
        PROVE  AsAgent(e) \in CacheType \cup {None}
    BY AgencyAssumption DEF AsAgent, CacheType, KeyType, PortType, Time
  <1>2. ASSUME NEW e \in CacheType
        PROVE  AsWallet(e) \in WP!EntryType \cup {None}
               /\ (AsWallet(e) # None => WP!Foreign(AsWallet(e)))
    BY <1>2 DEF AsWallet, CacheType, Time, WP!EntryType, WP!Foreign
  <1>3. AsWallet(None) = None
    BY DEF AsWallet
  <1>4. QED
    BY <1>1, <1>2, <1>3

\* What the manager does to the wallets' entries is foreign to them.
LEMMA ManagerWritesInv ==
  ASSUME TypeOK', WP!Inv, ManagerWrites, UNCHANGED walletVars
  PROVE  WP!Inv'
  <1>1. \A n \in WalletNames : cache'[n] \in CacheType \cup {None}
    BY AgencyAssumption DEF TypeOK, CacheType, KeyType, PortType
  <1>2. \A n \in WalletNames : entries'[n] = entries[n] \/ entries'[n] = AsWallet(cache'[n])
    BY DEF ManagerWrites
  <1>3. \A n \in WalletNames :
          \/ entries'[n] = entries[n]
          \/ entries'[n] = None
          \/ entries'[n] \in WP!EntryType /\ WP!Foreign(entries'[n])
    BY <1>1, <1>2, Views
  <1>4. entries \in [WalletNames -> WP!EntryType \cup {None}]
    BY DEF WP!Inv, WP!CacheOK
  <1>5. entries' \in [WalletNames -> WP!EntryType \cup {None}]
    BY <1>3, <1>4 DEF ManagerWrites
  <1>6. QED
    BY <1>3, <1>5, WalletAssumption, WP!ForeignInv DEF walletVars

LEMMA WalletsSame == WP!Inv /\ UNCHANGED <<walletVars, entries>> => WP!Inv'
  <1>1. ASSUME WP!Inv, UNCHANGED <<walletVars, entries>>
        PROVE  entries' \in [WalletNames -> WP!EntryType \cup {None}]
    BY <1>1 DEF WP!Inv, WP!CacheOK
  <1>2. QED
    BY <1>1, WalletAssumption, WP!ForeignInv DEF walletVars

LEMMA ManagerWritesStore ==
  ASSUME TypeOK', OneStore, ManagerWrites
  PROVE  OneStore'
  <1> SUFFICES ASSUME NEW n \in WalletNames
               PROVE  IF IsWallets(n)' THEN cache'[n] = AsAgent(entries[n])'
                                       ELSE entries'[n] = AsWallet(cache[n])'
    BY DEF OneStore
  <1>1. CASE cache'[n] = cache[n]
    BY <1>1 DEF ManagerWrites, OneStore, IsWallets, AsAgent, AsWallet
  <1>2. CASE cache'[n] # cache[n]
    <2>1. entries'[n] = AsWallet(cache'[n])
      BY <1>2 DEF ManagerWrites
    <2>2. ~IsWallets(n)'
      BY <2>1 DEF IsWallets, AsWallet
    <2>3. QED
      BY <2>1, <2>2 DEF AsWallet
  <1>3. QED
    BY <1>1, <1>2

\* What the wallets do to the manager's entries are entries for it.
LEMMA WalletsWriteType ==
  ASSUME TypeOK, WalletsWrite, UNCHANGED managerVars
  PROVE  TypeOK'
  <1>1. cache' \in [Agents -> CacheType \cup {None}]
    BY Views DEF WalletsWrite, TypeOK
  <1>2. upset' \subseteq Agents
    BY DEF WalletsWrite, TypeOK
  <1>3. QED
    BY <1>1, <1>2 DEF TypeOK, managerVars, Arg

\* The wallets only leave entries with a wallet in them.
LEMMA WalletsOwnWrites ==
  ASSUME WP!Inv, WalletStep, NEW n \in WalletNames
  PROVE  entries'[n] = entries[n] \/ entries'[n] = None \/ entries'[n].id # None
  <1>1. PICK c \in WalletCalls :
          W!CreateWallet(c) \/ W!RemoveWallet(c) \/ W!PostWebhook(c) \/ W!Step(c)
    BY DEF WalletStep
  <1>2. CASE W!AddWalletToCache(c)
    <2>1. WP!GoodRun(run[c], made) /\ run[c].at = "cacheSet"
      BY <1>2 DEF WP!Inv, WP!RunOK, W!AddWalletToCache
    <2>2. run[c].id \in DOMAIN made
      BY <2>1 DEF WP!GoodRun, WP!CreateLabels
    <2>3. made \in Seq(WP!WalletType)
      BY DEF WP!Inv, WP!MadeOK
    <2>4. run[c].id # None
      BY <2>2, <2>3, WalletAssumption
    <2>5. entries \in [WalletNames -> WP!EntryType \cup {None}]
      BY DEF WP!Inv, WP!CacheOK
    <2>6. QED
      BY <1>2, <2>4, <2>5 DEF W!AddWalletToCache
  <1>3. CASE UNCHANGED entries
    BY <1>3
  <1>4. W!AddWalletToCache(c) \/ UNCHANGED entries
    BY <1>1
    DEF W!CreateWallet, W!RemoveWallet, W!PostWebhook, W!Begin, W!Step, W!CallCreateWallet,
        W!AlreadyExists, W!CallCreateWalletLost, W!GetTokenAndWalletId, W!CallGetAllWallets,
        W!CallGetToken, W!CallCreateConnection, W!GetWallet, W!CallRemoveWallet,
        W!CallRemoveWalletLost, W!HandleRequest, W!CallFails, W!CacheFails
  <1>5. QED
    BY <1>2, <1>3, <1>4

LEMMA WalletsWriteStore ==
  ASSUME TypeOK, OneStore, WP!Inv, WalletStep
  PROVE  OneStore'
  <1> SUFFICES ASSUME NEW n \in WalletNames
               PROVE  IF IsWallets(n)' THEN cache'[n] = AsAgent(entries[n])'
                                       ELSE entries'[n] = AsWallet(cache[n])'
    BY DEF OneStore
  <1>1. n \in Agents
    BY AgencyAssumption
  <1>2. CASE entries'[n] = entries[n]
    <2>1. cache'[n] = cache[n]
      BY <1>1, <1>2 DEF WalletStep, WalletsWrite
    <2>2. QED
      BY <1>2, <2>1 DEF OneStore, IsWallets, AsAgent, AsWallet
  <1>3. CASE entries'[n] # entries[n]
    <2>1. cache'[n] = AsAgent(entries'[n])
      BY <1>1, <1>3 DEF WalletStep, WalletsWrite
    <2>2. entries'[n] = None \/ IsWallets(n)'
      BY <1>3, WalletsOwnWrites DEF IsWallets
    <2>3. QED
      BY <2>1, <2>2 DEF AsAgent, AsWallet
  <1>4. QED
    BY <1>2, <1>3

\* No entry is a missing one.
LEMMA StoredEntries ==
  ASSUME WP!Inv
  PROVE  /\ WP!EntryType \subseteq EntryType
         /\ None \notin CacheType
         /\ None \notin WP!EntryType
  <1>1. DOMAIN made \subseteq Nat
    BY DEF WP!Inv, WP!MadeOK
  <1>2. WP!EntryType \subseteq EntryType
    BY <1>1 DEF WP!EntryType, WP!Ids, EntryType
  <1>3. QED
    BY <1>2, AgencyAssumption

LEMMA TickStore ==
  ASSUME TypeOK, OneStore, WP!Inv, Tick, W!Tick
  PROVE  OneStore'
  <1> SUFFICES ASSUME NEW n \in WalletNames
               PROVE  IF IsWallets(n)' THEN cache'[n] = AsAgent(entries[n])'
                                       ELSE entries'[n] = AsWallet(cache[n])'
    BY DEF OneStore
  <1>1. /\ n \in Agents
        /\ cache[n] \in CacheType \cup {None}
        /\ entries[n] \in EntryType \cup {None}
    BY AgencyAssumption, StoredEntries DEF TypeOK, WP!Inv, WP!CacheOK
  <1>2. /\ cache'[n] = IF cache[n] = None \/ Elapse(cache[n].left) = 0 THEN None
                       ELSE [cache[n] EXCEPT !.left = Elapse(@)]
        /\ entries'[n] = IF entries[n] = None \/ entries[n].left = None THEN entries[n]
                         ELSE IF entries[n].left <= 1 THEN None
                         ELSE [entries[n] EXCEPT !.left = @ - 1]
    BY <1>1 DEF Tick, W!Tick
  <1>3. None \notin Int /\ Infinity \notin Int /\ None # Infinity
    BY ConfigAssumption
  <1>0. None \notin CacheType /\ None \notin EntryType
    BY AgencyAssumption
  <1>4. CASE IsWallets(n)
    <2> DEFINE e == entries[n]
    <2>1. e \in EntryType /\ e # None /\ e.id # None
      BY <1>1, <1>4 DEF IsWallets
    <2>2. cache[n] = [key |-> ACAPY_ADMIN_API_KEY, port |-> None,
                      left |-> IF e.left \in Nat THEN e.left ELSE Infinity]
      BY <1>4 DEF OneStore, IsWallets, AsAgent
    <2>3. cache[n] # None
      BY <1>0, <2>2, AgencyAssumption DEF CacheType, KeyType, PortType, Time
    <2>4. CASE e.left = None
      BY <1>2, <1>3, <2>1, <2>2, <2>3, <2>4 DEF IsWallets, AsAgent, Elapse
    <2>5. CASE e.left \in {0, 1}
      BY <1>2, <1>3, <2>1, <2>2, <2>5 DEF IsWallets, AsWallet, Elapse
    <2>6. CASE e.left \in Nat /\ e.left > 1
      <3>1. entries'[n] = [e EXCEPT !.left = e.left - 1]
        BY <1>2, <1>3, <2>1, <2>6
      <3>2. cache'[n] = [key |-> ACAPY_ADMIN_API_KEY, port |-> None, left |-> e.left - 1]
        BY <1>2, <1>3, <2>2, <2>3, <2>6 DEF Elapse
      <3>3. entries'[n] \in EntryType /\ entries'[n].left = e.left - 1 /\ e.left - 1 \in Nat
        BY <2>1, <2>6, <3>1 DEF EntryType
      <3>4. cache'[n] = AsAgent(entries'[n])
        BY <1>0, <3>2, <3>3 DEF AsAgent
      <3>5. IsWallets(n)'
        BY <1>0, <2>1, <3>1, <3>3 DEF EntryType, IsWallets
      <3>6. QED
        BY <3>4, <3>5
    <2>7. QED
      BY <2>1, <2>4, <2>5, <2>6 DEF EntryType
  <1>5. CASE ~IsWallets(n)
    <2> DEFINE e == cache[n]
    <2>1. entries[n] = AsWallet(e)
      BY <1>5 DEF OneStore
    <2>2. CASE e = None
      BY <1>2, <2>1, <2>2 DEF IsWallets, AsWallet
    <2>3. CASE e # None
      <3>1. e \in CacheType /\ e.left \in Nat \cup {Infinity}
        BY <1>1, <2>3 DEF CacheType, Time
      <3>2. entries[n] = [id |-> None, key |-> None,
                          left |-> IF e.left = Infinity THEN None ELSE e.left]
        BY <2>1, <2>3 DEF AsWallet
      <3>3. entries[n] # None
        BY <1>0, <3>1, <3>2 DEF EntryType
      <3>4. CASE e.left = Infinity
        <4>1. cache'[n] = [e EXCEPT !.left = e.left] /\ entries'[n] = entries[n]
          BY <1>2, <1>3, <2>3, <3>2, <3>3, <3>4 DEF Elapse
        <4>2. cache'[n] = e
          BY <3>1, <4>1 DEF CacheType
        <4>3. QED
          BY <1>5, <2>1, <4>1, <4>2 DEF IsWallets, AsWallet
      <3>5. CASE e.left \in {0, 1}
        BY <1>2, <1>3, <3>2, <3>3, <3>5 DEF IsWallets, AsWallet, Elapse
      <3>6. CASE e.left \in Nat /\ e.left > 1
        <4>1. cache'[n] = [e EXCEPT !.left = e.left - 1]
          BY <1>2, <1>3, <2>3, <3>6 DEF Elapse
        <4>2. entries'[n] = [id |-> None, key |-> None, left |-> e.left - 1]
          BY <1>2, <1>3, <3>2, <3>3, <3>6
        <4>3. cache'[n] \in CacheType /\ cache'[n].left = e.left - 1
          BY <3>1, <3>6, <4>1 DEF CacheType, Time
        <4>4. entries'[n] = AsWallet(cache'[n])
          BY <1>0, <1>3, <3>6, <4>2, <4>3 DEF AsWallet
        <4>5. ~IsWallets(n)'
          BY <4>2 DEF IsWallets
        <4>6. QED
          BY <4>4, <4>5 DEF AsWallet
      <3>7. QED
        BY <3>1, <3>4, <3>5, <3>6
    <2>4. QED
      BY <2>2, <2>3
  <1>6. QED
    BY <1>4, <1>5

---------------------------------------------------------------------------
(* The manager among the others. *)

ManagerOK == ManagerInv /\ TimerOK /\ TimersOK /\ CachedOK

\* The wallets write nothing of the manager's but its entries, and upset the
\* agents that are up when they do.
LEMMA OutsideStep ==
  ASSUME ManagerOK, UNCHANGED managerVars, WalletsWrite
  PROVE  ManagerOK' /\ UNCHANGED AgentPhases
  <1>0. TypeOK'
    BY WalletsWriteType DEF ManagerOK, ManagerInv
  <1>1. RoleOK' /\ HalfOK'
    BY DEF ManagerOK, ManagerInv, managerVars, RoleOK, HalfOK, Ag
  <1>2. TimerOK' /\ TimersOK'
    BY DEF ManagerOK, managerVars, TimerOK, TimersOK, Scheduled, Leased, Ending, Starter, Arming,
           Timing, HalfStop, Ag
  <1>3. UNCHANGED AgentPhases
    BY HalfAgent, SameIsStutter DEF ManagerOK, ManagerInv, managerVars, HalfSame, Ag
  <1>4. ASSUME NEW a \in Agents, Running(a)', a \notin upset'
        PROVE  Serving(a)' \/ Lasting(a)'
    <2>1. Running(a) /\ a \notin upset /\ cache'[a] = cache[a]
      BY <1>4 DEF managerVars, Running, WalletsWrite
    <2>2. Serving(a) \/ Lasting(a)
      BY <2>1 DEF ManagerOK, CachedOK
    <2>3. Serving(a) => Serving(a)'
      BY DEF managerVars, Serving, Unsettles, Ag
    <2>4. Lasting(a) => Lasting(a)'
      BY <2>1 DEF managerVars, Lasting, Fits, Keeps
    <2>5. QED
      BY <2>2, <2>3, <2>4
  <1>5. CachedOK'
    BY <1>4 DEF CachedOK
  <1>6. QED
    BY <1>0, <1>1, <1>2, <1>3, <1>5 DEF ManagerOK, ManagerInv

LEMMA ManagerNext ==
  ASSUME ManagerOK, [Next]_vars
  PROVE  ManagerOK' /\ [Lifecycle!Next]_AgentPhases
  BY NextType, RoleStep, HalfStep, TimerNext, TimersNext, CachedNext, StepPhase, AgencyAssumption
  DEF ManagerOK, ManagerInv, EntriesAre

---------------------------------------------------------------------------
(* Registrations. *)

TaskType ==
  [at : Over \cup {"dispatch", "callback", "key", "invite", "register", "pass"},
   op : {"none", "webhook", "register", "oneTimeKey"}, agent : Agents \cup {None},
   key : KeyType, port : PortType, inv : Invs \cup {None}]

\* A request that has its invitation, and one that was told of a registration.
Holds(r) == r.op = "register" /\ r.at \in {"register", "done"}

\* A guest's request knows its agent; one that has an invitation has one of
\* its agent, and one that was told of a registration has it at the TDC.
GoodTask(r) ==
  /\ r.at \in {"dispatch", "callback", "key", "invite", "register"} => r.agent \in Agents
  /\ r.at \in {"key", "invite", "register"} => r.op = "register"
  /\ Holds(r) =>
       /\ r.inv \in Invs
       /\ invites[r.inv] = r.agent
       /\ r.at = "done" => r.inv \in tdc

TdcOK ==
  /\ invites \in Seq(Agents)
  /\ tdc \subseteq Invs
  /\ task \in [Guests -> TaskType]
  /\ \A g \in Guests : GoodTask(task[g])
  /\ \A g, h \in Guests : Holds(task[g]) /\ Holds(task[h]) /\ task[g].inv = task[h].inv => g = h

LEMMA TdcImplies == TdcOK => OwnInvitations
  BY DEF TdcOK, OwnInvitations, GoodTask, Holds

\* One request moves: it holds no invitation, the one that it held, or a new one.
LEMMA TaskStep ==
  ASSUME TdcOK, NEW g \in Guests, NEW r, task' = [task EXCEPT ![g] = r],
         invites' \in Seq(Agents), Invs \subseteq Invs', \A i \in Invs : invites'[i] = invites[i],
         tdc \subseteq tdc', tdc' \subseteq Invs',
         (r \in TaskType)', GoodTask(r)',
         Holds(r) => r.inv \notin Invs \/ (Holds(task[g]) /\ task[g].inv = r.inv)
  PROVE  TdcOK'
  <1>1. \A h \in Guests : task'[h] = IF h = g THEN r ELSE task[h]
    BY DEF TdcOK
  <1>2. \A h \in Guests : task[h] \in TaskType'
    BY DEF TdcOK, TaskType
  <1>3. task' \in [Guests -> TaskType']
    BY <1>1, <1>2 DEF TdcOK
  <1>4. ASSUME NEW h \in Guests
        PROVE  GoodTask(task[h])'
    <2>1. CASE h = g
      BY <1>1, <2>1
    <2>2. CASE h # g
      <3>1. task'[h] = task[h] /\ GoodTask(task[h])
        BY <1>1, <2>2 DEF TdcOK
      <3>2. QED
        BY <3>1 DEF GoodTask, Holds
    <2>3. QED
      BY <2>1, <2>2
  <1>5. ASSUME NEW h \in Guests \ {g}, Holds(r), Holds(task[h]), task[h].inv = r.inv
        PROVE  FALSE
    <2>1. task[h].inv \in Invs
      BY <1>5 DEF TdcOK, GoodTask
    <2>2. Holds(task[g]) /\ task[g].inv = r.inv
      BY <1>5, <2>1
    <2>3. QED
      BY <1>5, <2>2 DEF TdcOK
  <1>6. ASSUME NEW h \in Guests, NEW k \in Guests, Holds(task'[h]), Holds(task'[k]),
               task'[h].inv = task'[k].inv
        PROVE  h = k
    <2>1. CASE h = g \/ k = g
      BY <1>1, <1>5, <1>6, <2>1
    <2>2. CASE h # g /\ k # g
      BY <1>1, <1>6, <2>2 DEF TdcOK
    <2>3. QED
      BY <2>1, <2>2
  <1>7. \A h, k \in Guests :
          Holds(task[h])' /\ Holds(task[k])' /\ task'[h].inv = task'[k].inv => h = k
    BY <1>6 DEF Holds
  <1>8. QED
    BY <1>3, <1>4, <1>7 DEF TdcOK

\* It makes no invitation, registers none and holds none.
LEMMA TaskMoves ==
  ASSUME TdcOK, UNCHANGED tdcVars, NEW g \in Guests, NEW r \in TaskType,
         task' = [task EXCEPT ![g] = r], GoodTask(r), ~Holds(r)
  PROVE  TdcOK'
  <1>1. invites' = invites /\ tdc' = tdc
    BY DEF tdcVars
  <1>2. (r \in TaskType)' /\ GoodTask(r)'
    BY <1>1 DEF TaskType, GoodTask, Invs
  <1>3. QED
    BY <1>1, <1>2, TaskStep DEF TdcOK, Invs

\* A request that is over is one.
LEMMA EndTask ==
  ASSUME NEW label \in Over
  PROVE  /\ [NoTask EXCEPT !.at = label] \in TaskType
         /\ GoodTask([NoTask EXCEPT !.at = label]) /\ ~Holds([NoTask EXCEPT !.at = label])
  BY DEF NoTask, TaskType, GoodTask, Holds, KeyType, PortType, Over

\* Guests' steps that make no invitation and register none.
LEMMA QuietTask ==
  ASSUME TypeOK, TdcOK, NEW g \in Guests,
         \/ PostAgentWebhook(g) \/ Register(g) \/ UseOneTimeKey(g)
         \/ HandleAgentWebhook(g) \/ CallBack(g) \/ GetAgentAdminApiKey(g)
         \/ PassToTDC(g) \/ GuestFails(g)
  PROVE  TdcOK'
  <1>1. task[g] \in TaskType /\ GoodTask(task[g])
    BY DEF TdcOK
  <1>2. ASSUME NEW op \in {"webhook", "register", "oneTimeKey"},
               NEW label \in {"dispatch", "key", "pass"},
               NEW a \in Agents, NEW inv \in Invs \cup {None},
               Arrive(g, op, a, inv, label),
               \/ op = "webhook" /\ label = "dispatch"
               \/ op = "register" /\ label = "key"
               \/ op = "oneTimeKey" /\ label = "pass"
        PROVE  TdcOK'
    <2> DEFINE r == [at |-> label, op |-> op, agent |-> a, key |-> None, port |-> None, inv |-> inv]
    <2>1. r \in TaskType
      BY <1>2 DEF TaskType, KeyType, PortType
    <2>2. GoodTask(r) /\ ~Holds(r)
      BY <1>2 DEF GoodTask, Holds
    <2>3. task' = [task EXCEPT ![g] = r] /\ UNCHANGED tdcVars
      BY <1>2 DEF Arrive
    <2>4. QED
      BY <2>1, <2>2, <2>3, TaskMoves
  <1>3. CASE PostAgentWebhook(g) \/ Register(g) \/ UseOneTimeKey(g)
    <2>1. CASE PostAgentWebhook(g)
      <3>1. PICK a \in Agents : Arrive(g, "webhook", a, None, "dispatch")
        BY <2>1 DEF PostAgentWebhook
      <3>2. QED
        BY <1>2, <3>1
    <2>2. CASE Register(g)
      <3>1. PICK a \in Agents : Arrive(g, "register", a, None, "key")
        BY <2>2 DEF Register
      <3>2. QED
        BY <1>2, <3>1
    <2>3. CASE UseOneTimeKey(g)
      <3>1. PICK i \in tdc : Arrive(g, "oneTimeKey", invites[i], i, "pass")
        BY <2>3 DEF UseOneTimeKey
      <3>2. i \in Invs /\ invites[i] \in Agents
        BY DEF TdcOK, Invs
      <3>3. QED
        BY <1>2, <3>1, <3>2
    <2>4. QED
      BY <1>3, <2>1, <2>2, <2>3
  <1>4. ASSUME NEW label \in Over, End(g, label), UNCHANGED tdcVars
        PROVE  TdcOK'
    BY <1>4, EndTask, TaskMoves DEF End
  <1>5. ASSUME NEW label \in {"callback", "invite"}, NEW key \in KeyType, NEW port \in PortType, UNCHANGED tdcVars,
               CallWith(g, label, key, port),
               \/ task[g].at = "dispatch" /\ label = "callback"
               \/ task[g].at = "key" /\ label = "invite"
        PROVE  TdcOK'
    <2> DEFINE r == [task[g] EXCEPT !.at = label, !.key = key, !.port = port]
    <2>1. task' = [task EXCEPT ![g] = r]
      BY <1>1, <1>5 DEF TdcOK, CallWith
    <2>2. /\ r \in TaskType
          /\ r.at = label /\ r.op = task[g].op /\ r.agent = task[g].agent /\ r.inv = task[g].inv
      BY <1>1, <1>5 DEF TaskType
    <2> HIDE DEF r
    <2>3. GoodTask(r) /\ ~Holds(r)
      BY <1>1, <1>5, <2>2 DEF GoodTask, Holds
    <2>4. QED
      BY <1>5, <2>1, <2>2, <2>3, TaskMoves
  <1>6. task[g].at \in {"dispatch", "key"} =>
          task[g].agent \in Agents /\ cache[task[g].agent] \in CacheType \cup {None}
    BY <1>1 DEF GoodTask, TypeOK
  <1>7. CASE HandleAgentWebhook(g)
    <2>1. CASE \E label \in Over : End(g, label)
      BY <1>4, <1>7, <2>1 DEF HandleAgentWebhook
    <2>2. CASE ~\E label \in Over : End(g, label)
      <3>1. cache[task[g].agent] \in CacheType
        BY <1>6, <1>7, <2>2 DEF HandleAgentWebhook, Over
      <3>2. QED
        BY <1>5, <1>7, <2>2, <3>1 DEF HandleAgentWebhook, Over, CacheType
    <2>3. QED
      BY <2>1, <2>2
  <1>8. CASE GetAgentAdminApiKey(g)
    <2>1. CASE End(g, "failed")
      BY <1>4, <1>8, <2>1 DEF GetAgentAdminApiKey, Over
    <2>2. CASE ~End(g, "failed")
      <3>1. cache[task[g].agent] \in CacheType /\ AGENT_ADMIN_PORT \in PortType
        BY <1>6, <1>8, <2>2 DEF GetAgentAdminApiKey, PortType
      <3>2. QED
        BY <1>5, <1>8, <2>2, <3>1 DEF GetAgentAdminApiKey, CacheType
    <2>3. QED
      BY <2>1, <2>2
  <1>9. CASE CallBack(g) \/ PassToTDC(g) \/ GuestFails(g)
    BY <1>4, <1>9 DEF CallBack, PassToTDC, GuestFails, Over
  <1>10. QED
    BY <1>3, <1>7, <1>8, <1>9

LEMMA ErrorTask ==
  /\ ([NoTask EXCEPT !.at = "error"] \in TaskType)'
  /\ GoodTask([NoTask EXCEPT !.at = "error"])' /\ ~Holds([NoTask EXCEPT !.at = "error"])
  BY DEF NoTask, TaskType, GoodTask, Holds, KeyType, PortType, Over

\* A guest's steps that make an invitation.
LEMMA InviteTask ==
  ASSUME TdcOK, NEW g \in Guests, CreateAgentConnection(g) \/ CreateAgentConnectionLost(g)
  PROVE  TdcOK'
  <1>0. PICK i : i = Len(invites) + 1
    OBVIOUS
  <1>1. /\ task[g] \in TaskType /\ GoodTask(task[g]) /\ ~Holds(task[g])
        /\ task[g].at = "invite" /\ task[g].agent \in Agents /\ task[g].op = "register"
    BY DEF TdcOK, GoodTask, Holds, CreateAgentConnection, CreateAgentConnectionLost
  <1>2. ASSUME Invitation(g)
        PROVE  /\ invites' \in Seq(Agents)
               /\ Invs' = Invs \cup {i} /\ i \notin Invs
               /\ invites'[i] = task[g].agent
               /\ \A j \in Invs : invites'[j] = invites[j]
    BY <1>0, <1>1, <1>2 DEF TdcOK, Invitation, Invs
  <1>3. CASE CreateAgentConnection(g) /\ ~Invitation(g)
    <2>1. End(g, "failed") /\ UNCHANGED tdcVars
      BY <1>3 DEF CreateAgentConnection, tdcVars
    <2>2. QED
      BY <2>1, EndTask, TaskMoves DEF End, Over
  <1>4. CASE CreateAgentConnection(g) /\ Invitation(g)
    <2>0. PICK r : r = [task[g] EXCEPT !.at = "register", !.inv = i]
      OBVIOUS
    <2>1. task' = [task EXCEPT ![g] = r] /\ UNCHANGED tdc
      <3>0. invites' # invites
        BY <1>2, <1>4 DEF Invs
      <3>1. Answers(g)
        BY <1>4, <3>0 DEF CreateAgentConnection
      <3>2. Invited(g) /\ UNCHANGED tdc
        BY <1>4, <3>1 DEF CreateAgentConnection
      <3>3. QED
        BY <1>0, <2>0, <3>2, Zenon DEF Invited
    <2>2. (r \in TaskType)' /\ r.at = "register" /\ r.op = "register" /\ r.agent = task[g].agent
          /\ r.inv = i
      BY <1>1, <1>2, <1>4, <2>0 DEF TaskType
    <2>3. GoodTask(r)'
      BY <1>1, <1>2, <1>4, <2>2 DEF GoodTask
    <2>4. QED
      BY <1>2, <1>4, <2>1, <2>2, <2>3, TaskStep DEF TdcOK
  <1>5. CASE CreateAgentConnectionLost(g)
    <2>1. Invitation(g) /\ tdc' = tdc
      BY <1>5 DEF CreateAgentConnectionLost
    <2>3. ASSUME NEW r, task' = [task EXCEPT ![g] = r], (r \in TaskType)', GoodTask(r)', ~Holds(r)
          PROVE  TdcOK'
      BY <1>2, <2>1, <2>3, TaskStep DEF TdcOK
    <2>4. CASE UNCHANGED task
      <3>0. PICK r : r = task[g]
        OBVIOUS
      <3>1. task' = [task EXCEPT ![g] = r]
        BY <2>4, <3>0 DEF TdcOK
      <3>2. (r \in TaskType)'
        BY <1>1, <1>2, <2>1, <3>0 DEF TaskType
      <3>3. GoodTask(r)'
        BY <1>1, <1>2, <2>1, <3>0 DEF GoodTask
      <3>4. QED
        BY <1>1, <2>3, <3>0, <3>1, <3>2, <3>3
    <2>5. CASE End(g, "error")
      BY <2>3, <2>5, ErrorTask DEF End
    <2>6. QED
      BY <1>5, <2>4, <2>5 DEF CreateAgentConnectionLost
  <1>6. QED
    BY <1>3, <1>4, <1>5

\* A guest's steps that register an invitation, or leave one behind.
LEMMA RegisterTask ==
  ASSUME TdcOK, NEW g \in Guests, RegisterWithTDC(g) \/ RegisterFails(g)
  PROVE  TdcOK'
  <1>0. PICK i : i = task[g].inv
    OBVIOUS
  <1>1. /\ task[g] \in TaskType /\ GoodTask(task[g]) /\ Holds(task[g])
        /\ task[g].at = "register" /\ i \in Invs /\ invites[i] = task[g].agent
        /\ task[g].op = "register"
    BY <1>0 DEF TdcOK, GoodTask, Holds, RegisterWithTDC, RegisterFails
  <1>2. invites' = invites /\ tdc' \in {tdc, tdc \cup {i}}
    BY <1>0 DEF RegisterWithTDC, RegisterFails
  <1>4. ASSUME NEW r, task' = [task EXCEPT ![g] = r], (r \in TaskType)', GoodTask(r)',
               Holds(r) => r.inv = i
        PROVE  TdcOK'
    BY <1>0, <1>1, <1>2, <1>4, TaskStep DEF TdcOK, Invs
  <1>5. CASE RegisterWithTDC(g)
    <2>0. PICK r : r = [task[g] EXCEPT !.at = "done"]
      OBVIOUS
    <2>1. task' = [task EXCEPT ![g] = r] /\ tdc' = tdc \cup {i}
      BY <1>0, <1>1, <1>5, <2>0 DEF RegisterWithTDC, At, TdcOK
    <2>2. (r \in TaskType)' /\ r.at = "done" /\ r.op = "register" /\ r.agent = task[g].agent
          /\ r.inv = i
      BY <1>0, <1>1, <1>2, <2>0 DEF TaskType, Over, Invs
    <2>3. GoodTask(r)'
      BY <1>1, <1>2, <2>1, <2>2 DEF GoodTask, Holds, Invs
    <2>4. QED
      BY <1>4, <2>1, <2>2, <2>3
  <1>6. CASE RegisterFails(g)
    BY <1>4, <1>6, ErrorTask DEF RegisterFails, End
  <1>7. QED
    BY <1>5, <1>6

---------------------------------------------------------------------------
(* The whole agency. *)

AgencyInv == ManagerOK /\ WP!Inv /\ OneStore /\ TdcOK

LEMMA GuestInv ==
  ASSUME AgencyInv, NEW g \in Guests, GuestStep(g)
  PROVE  AgencyInv'
  <1>1. UNCHANGED <<vars, walletVars, entries>>
    BY DEF GuestStep
  <1>2. TdcOK'
    BY QuietTask, InviteTask, RegisterTask DEF AgencyInv, ManagerOK, ManagerInv, GuestStep
  <1>3. ManagerOK'
    BY <1>1, ManagerNext DEF AgencyInv
  <1>4. WP!Inv'
    BY <1>1, WalletsSame DEF AgencyInv
  <1>5. OneStore'
    BY <1>1 DEF AgencyInv, OneStore, vars, IsWallets, AsAgent, AsWallet
  <1>6. QED
    BY <1>2, <1>3, <1>4, <1>5 DEF AgencyInv

LEMMA TdcSame == TdcOK /\ UNCHANGED <<tdcVars, task>> => TdcOK'
  BY DEF tdcVars, TdcOK, GoodTask, Holds, Invs, TaskType

\* A restart forgets the requests.
LEMMA CrashTask ==
  ASSUME TdcOK, AgencyCrash
  PROVE  TdcOK'
  <1>1. invites' = invites /\ tdc' = tdc
    BY DEF AgencyCrash, tdcVars
  <1>2. \A g \in Guests : task'[g] = task[g] \/ task'[g] = NoTask
    BY DEF AgencyCrash
  <1>3. NoTask \in TaskType /\ GoodTask(NoTask) /\ ~Holds(NoTask)
    BY DEF NoTask, TaskType, GoodTask, Holds, KeyType, PortType, Over
  <1>4. task' \in [Guests -> TaskType]
    BY <1>3 DEF AgencyCrash, TdcOK
  <1>5. \A g \in Guests : GoodTask(task'[g])
    BY <1>2, <1>3 DEF TdcOK
  <1>6. \A g, h \in Guests :
          Holds(task'[g]) /\ Holds(task'[h]) /\ task'[g].inv = task'[h].inv => g = h
    BY <1>2, <1>3 DEF TdcOK
  <1>7. \A g \in Guests : GoodTask(task[g])'
    BY <1>1, <1>5 DEF GoodTask, Holds, Invs
  <1>8. QED
    BY <1>1, <1>4, <1>6, <1>7 DEF TdcOK, Invs, TaskType, Holds

LEMMA AgencyInitInv == AgencyInit => AgencyInv
  <1> SUFFICES ASSUME AgencyInit
               PROVE  AgencyInv
    OBVIOUS
  <1>1. ManagerOK
    <2>1. TimersOK /\ CachedOK
      BY StagesDiffer, ThreadParts DEF AgencyInit, Init, TimersOK, CachedOK, Running, Gone
    <2>2. QED
      BY <2>1, InitType, InitParts, TimerInit DEF AgencyInit, ManagerOK, ManagerInv
  <1>2. WP!Inv
    BY WalletAssumption, SameWallets, WP!InitInv DEF AgencyInit
  <1>3. OneStore
    BY AgencyAssumption DEF AgencyInit, Init, W!Init, OneStore, IsWallets, AsWallet
  <1>4. TdcOK
    <2>1. invites = <<>> /\ tdc = {} /\ \A g \in Guests : task[g] = NoTask
      BY DEF AgencyInit
    <2>2. NoTask \in TaskType /\ GoodTask(NoTask) /\ ~Holds(NoTask)
      BY DEF NoTask, TaskType, GoodTask, Holds, KeyType, PortType, Over
    <2>3. task \in [Guests -> TaskType]
      BY <2>2 DEF AgencyInit
    <2>4. Invs = {}
      BY <2>1 DEF Invs
    <2>5. QED
      BY <2>1, <2>2, <2>3, <2>4 DEF TdcOK
  <1>5. QED
    BY <1>1, <1>2, <1>3, <1>4 DEF AgencyInv

\* The steps of the four parts, and what each does to the manager.
LEMMA AgencyStep ==
  ASSUME AgencyInv, [AgencyNext]_agencyVars
  PROVE  AgencyInv' /\ [Lifecycle!Next]_AgentPhases
  <1>1. CASE ManagerStep
    <2>1. Next /\ ManagerWrites /\ UNCHANGED <<walletVars, tdcVars, task>>
      BY <1>1 DEF ManagerStep, Next
    <2>2. ManagerOK' /\ [Lifecycle!Next]_AgentPhases
      BY <2>1, ManagerNext DEF AgencyInv
    <2>3. TypeOK'
      BY <2>2 DEF ManagerOK, ManagerInv
    <2>4. WP!Inv'
      BY <2>1, <2>3, ManagerWritesInv DEF AgencyInv
    <2>5. OneStore'
      BY <2>1, <2>3, ManagerWritesStore DEF AgencyInv
    <2>6. QED
      BY <2>1, <2>2, <2>4, <2>5, TdcSame DEF AgencyInv
  <1>2. CASE WalletStep
    <2>1. WalletsWrite /\ UNCHANGED managerVars /\ UNCHANGED <<tdcVars, task>>
      BY <1>2 DEF WalletStep
    <2>2. TypeOK
      BY DEF AgencyInv, ManagerOK, ManagerInv
    <2>3. ManagerOK' /\ [Lifecycle!Next]_AgentPhases
      BY <2>1, OutsideStep DEF AgencyInv
    <2>4. WP!Inv' /\ OneStore'
      BY <1>2, <2>2, WalletsStep, WalletsWriteStore DEF AgencyInv
    <2>5. QED
      BY <2>1, <2>3, <2>4, TdcSame DEF AgencyInv
  <1>3. ASSUME NEW g \in Guests, GuestStep(g)
        PROVE  AgencyInv' /\ [Lifecycle!Next]_AgentPhases
    BY <1>3, GuestInv, ManagerNext DEF AgencyInv, GuestStep
  <1>4. CASE AgencyTick
    <2>1. Next /\ Tick /\ W!Tick /\ UNCHANGED <<tdcVars, task>>
      BY <1>4 DEF AgencyTick, Next
    <2>2. ManagerOK' /\ [Lifecycle!Next]_AgentPhases
      BY <2>1, ManagerNext DEF AgencyInv
    <2>3. WP!Inv'
      BY <2>1, SameWallets, WalletAssumption, WP!TickInv DEF AgencyInv
    <2>4. OneStore'
      BY <2>1, TickStore DEF AgencyInv, ManagerOK, ManagerInv
    <2>5. QED
      BY <2>1, <2>2, <2>3, <2>4, TdcSame DEF AgencyInv
  <1>5. CASE AgencyCrash
    <2>1. [Next]_vars /\ cache' = cache
      BY <1>5 DEF AgencyCrash, Next, Crash, vars
    <2>2. ManagerOK' /\ [Lifecycle!Next]_AgentPhases
      BY <2>1, ManagerNext DEF AgencyInv
    <2>3. WP!Inv' /\ entries' = entries
      <3>1. CASE W!Crash
        BY <3>1, SameWallets, WalletAssumption, WP!CrashInv DEF AgencyInv, W!Crash
      <3>2. QED
        BY <1>5, <3>1, WalletsSame DEF AgencyInv, AgencyCrash
    <2>4. OneStore'
      BY <2>1, <2>3 DEF AgencyInv, OneStore, IsWallets, AsAgent, AsWallet
    <2>5. QED
      BY <1>5, <2>2, <2>3, <2>4, CrashTask DEF AgencyInv
  <1>6. CASE UNCHANGED agencyVars
    <2>1. UNCHANGED vars /\ UNCHANGED <<tdcVars, task>> /\ UNCHANGED <<walletVars, entries>>
      BY <1>6 DEF agencyVars
    <2>2. ManagerOK' /\ [Lifecycle!Next]_AgentPhases
      BY <2>1, ManagerNext DEF AgencyInv
    <2>3. WP!Inv'
      BY <2>1, WalletsSame DEF AgencyInv
    <2>4. OneStore'
      BY <2>1 DEF AgencyInv, OneStore, vars, IsWallets, AsAgent, AsWallet
    <2>5. QED
      BY <2>1, <2>2, <2>3, <2>4, TdcSame DEF AgencyInv
  <1>7. QED
    BY <1>1, <1>2, <1>3, <1>4, <1>5, <1>6 DEF AgencyNext

LEMMA AgencyAlways == AgencySpec => []AgencyInv
  BY AgencyInitInv, AgencyStep, PTL DEF AgencySpec

\* Entries that wallets write or delete under an agent's id never make the
\* manager leave the agent half started or half stopped.
THEOREM NoHalfAgentsInAgency == AgencySpec => []NoHalfAgents
  <1>1. AgencyInv => NoHalfAgents
    BY HalfImplies DEF AgencyInv, ManagerOK, ManagerInv
  <1>2. QED
    BY <1>1, AgencyAlways, PTL

\* Nor do they make it lose the timer of an agent that a ttl was set for.
THEOREM ExpiryScheduledInAgency == AgencySpec => []ExpiryIsScheduled
  <1>1. AgencyInv => ExpiryIsScheduled
    BY TimerImplies DEF AgencyInv, ManagerOK
  <1>2. QED
    BY <1>1, AgencyAlways, PTL

\* With wallets, registrations and webhooks beside it and its entries replaced
\* under it, the manager still implements AgentLifecycle.
THEOREM AgencyIsLifecycle == AgencySpec => ImplementsLifecycle
  <1>1. AgencyInit => Lifecycle!Init
    <2>1. AgencyInit => \A a \in Agents : host[a].objs = {}
      BY DEF AgencyInit, Init, Gone
    <2>2. AgencyInit => \A a \in Agents : Phase(a) = "absent"
      BY <2>1, PhaseIs
    <2>3. QED
      BY <2>2 DEF AgentPhases, Lifecycle!Init
  <1>2. AgencyInv /\ [AgencyNext]_agencyVars => [Lifecycle!Next]_AgentPhases
    BY AgencyStep
  <1>3. QED
    BY <1>1, <1>2, AgencyAlways, PTL DEF AgencySpec, ImplementsLifecycle, Lifecycle!Spec

\* Spinning agents up and down under the names of wallets replaces and deletes
\* the wallets' entries; a create is still answered with a wallet of its own
\* name and key, or refused.
THEOREM WalletKeysStayKept == AgencySpec => []WalletKeysKept
  <1>1. AgencyInv => WalletKeysKept
    BY SameWallets DEF AgencyInv, WalletKeysKept, WP!Inv, WP!RunOK, WP!GoodRun, WP!Granted, WP!CreateLabels
  <1>2. QED
    BY <1>1, AgencyAlways, PTL

\* However registrations overlap, fail, are retried or are cut off by a
\* restart, each has an invitation of its own, of its own agent, and the TDC
\* has that of every caller who was told of a registration.
THEOREM InvitationsAreOwn == AgencySpec => []OwnInvitations
  <1>1. AgencyInv => OwnInvitations
    BY TdcImplies DEF AgencyInv
  <1>2. QED
    BY <1>1, AgencyAlways, PTL

---------------------------------------------------------------------------
(* What the manager's requests and timers do among the others.             *)

LEMMA StepOfManager == [AgencyNext]_agencyVars => [Next]_vars \/ UNCHANGED managerVars
  <1>1. ManagerStep => Next
    BY DEF ManagerStep, Next
  <1>2. WalletStep => UNCHANGED managerVars
    BY DEF WalletStep
  <1>3. (\E g \in Guests : GuestStep(g)) \/ UNCHANGED agencyVars => UNCHANGED vars
    BY DEF GuestStep, agencyVars
  <1>4. AgencyCrash \/ AgencyTick => [Next]_vars
    BY DEF AgencyCrash, AgencyTick, Next
  <1>5. QED
    BY <1>1, <1>2, <1>3, <1>4 DEF AgencyNext

\* Writes of the wallets never send a request or a timer of the manager back:
\* it still comes to its end within the awaits it had ahead.
THEOREM RequestsRunOutInAgency == AgencySpec => StepsRunOut
  <1>1. AgencyInit => DelayOK
    BY DEF AgencyInit, Init, DelayOK
  <1>2. UNCHANGED managerVars /\ DelayOK =>
          DelayOK' /\ \A t \in Threads : pc[t] \notin Quiet /\ pc'[t] # pc[t]
                                           => Ahead(t)' \in 0 .. Ahead(t) - 1
    BY DEF managerVars, DelayOK
  <1>3. AgencyInv /\ DelayOK /\ [AgencyNext]_agencyVars =>
          DelayOK' /\ \A t \in Threads : pc[t] \notin Quiet /\ pc'[t] # pc[t]
                                           => Ahead(t)' \in 0 .. Ahead(t) - 1
    BY <1>2, StepOfManager, NextAhead DEF AgencyInv, ManagerOK
  <1>4. AgencySpec => []AgencyInv
    BY AgencyAlways
  <1>5. QED
    BY <1>1, <1>3, <1>4, PTL DEF AgencySpec, StepsRunOut

\* Nor do entries replaced under it make the timer that a start armed go off
\* before the ttl of its agent is over.
THEOREM OwnTimerKeepsTimeInAgency == TimersInRange => (AgencySpec => OwnTimerIsPunctual)
  <1>1. AgencyInit => PunctualOK
    BY StagesDiffer DEF AgencyInit, Init, PunctualOK, Running, Gone
  <1>2. UNCHANGED managerVars /\ PunctualOK => PunctualOK'
    BY DEF managerVars, PunctualOK, Running, Watched, Watches
  <1>3. TimersInRange /\ AgencyInv /\ PunctualOK /\ [AgencyNext]_agencyVars => PunctualOK'
    BY <1>2, StepOfManager, PunctualNext DEF AgencyInv, ManagerOK
  <1>4. AgencyInv /\ PunctualOK =>
          \A c \in Calls, a \in Agents :
            Stops(Job(c), a) /\ host[a].by = c /\ a \notin faulted
              => host[a].lease \in {0, Infinity}
    BY PunctualImplies DEF AgencyInv, ManagerOK
  <1>5. TimersInRange => []TimersInRange
    OBVIOUS
  <1>6. AgencySpec => []AgencyInv
    BY AgencyAlways
  <1>7. QED
    BY <1>1, <1>3, <1>4, <1>5, <1>6, PTL DEF AgencySpec, OwnTimerIsPunctual

---------------------------------------------------------------------------
(* What runs has a port, and keeps its key and port as long as it is up.   *)

PortsOK ==
  /\ \A a \in Agents : host[a].objs # {} => host[a].port # None
  /\ \A t \in Threads : pc[t] \in BeforeArm => Arg(t).port # None

\* No step of a thread makes it a starting one.
LEMMA StartsEarly ==
  ASSUME ManagerInv, NEW t \in Threads, Step(t), NEW u \in Threads, pc'[u] \in BeforeArm
  PROVE  pc[u] \in BeforeArm
  <1>0. TypeOK
    BY DEF ManagerInv
  <1>1. CASE SetSpinDownJob(t)
    <2>1. pc'[t] \notin BeforeArm /\ pc'[Job(t[1])] \notin BeforeArm
      BY <1>1, ArmSteps, CallNames DEF BeforeArm, SpinUpLabels, OwnLabels
    <2>2. u # t /\ u # Job(t[1])
      BY <2>1
    <2>3. pc'[u] = pc[u]
      BY <1>0, <1>1, <2>2 DEF SetSpinDownJob, TypeOK
    <2>4. QED
      BY <2>3
  <1>2. ASSUME NEW label, GoTo(t, label), label \in BeforeArm => pc[t] \in BeforeArm
        PROVE  pc[u] \in BeforeArm
    <2>1. pc'[t] = label /\ \A v \in Threads \ {t} : pc'[v] = pc[v]
      BY <1>0, <1>2, MoveIs
    <2>2. QED
      BY <1>2, <2>1
  <1>3. CASE StartCall(t) \/ StartRefused(t) \/ StartError(t)
    BY <1>2, <1>3, CallNames
    DEF StartCall, StartRefused, StartError, BeforeArm, SpinUpLabels, OwnLabels
  <1>4. CASE StopCall(t) \/ StopRefused(t) \/ StopError(t)
    <2>1. \E label \in {"done", "idle"} \cup StopCalls : GoTo(t, label)
      BY <1>4, CallOrder DEF StopCall, StopRefused, StopError, Return
    <2>2. QED
      BY <1>2, <2>1, CallNames DEF BeforeArm, SpinUpLabels, OwnLabels
  <1>5. CASE Recover(t) \/ RecoverSet(t) \/ RecoverGet(t) \/ RecoverConnect(t) \/ CacheSet(t)
    <2>1. pc[t] \in BeforeArm
      BY <1>5, CallNames DEF Recover, RecoverSet, RecoverGet, RecoverConnect, CacheSet,
         BeforeArm, SpinUpLabels, OwnLabels
    <2>2. \E label : GoTo(t, label)
      BY <1>5 DEF Recover, RecoverSet, RecoverGet, RecoverConnect, CacheSet
    <2>3. QED
      BY <1>2, <2>1, <2>2
  <1>6. CASE \/ CacheDel(t) \/ Lookup(t) \/ CacheError(t) \/ TimerFires(t)
             \/ PingAnswered(t) \/ PingUnanswered(t) \/ CreateConnection(t)
    <2>1. \E label \in {FirstStop, "failed", "delay", "done", "idle", "del", "connect"} : GoTo(t, label)
      BY <1>6 DEF CacheDel, Lookup, CacheError, TimerFires, PingAnswered, PingUnanswered,
         CreateConnection, Return
    <2>2. QED
      BY <1>2, <2>1, CallNames DEF BeforeArm, SpinUpLabels, OwnLabels
  <1>7. QED
    BY <1>1, <1>3, <1>4, <1>5, <1>6 DEF Step

LEMMA ThreadPorts ==
  ASSUME ManagerInv, PortsOK, NEW t \in Threads, Step(t)
  PROVE  PortsOK'
  <1>0. TypeOK /\ RoleOK /\ HalfOK
    BY DEF ManagerInv
  <1>1. ASSUME NEW a \in Agents, host'[a].objs # {}
        PROVE  host'[a].port # None
    <2>1. CASE StartCall(t) \/ StartError(t) \/ StopCall(t) \/ StopError(t)
      <3>1. pc[t] \in StartCalls \cup StopCalls /\ Accepts(pc[t], host[Ag(t)].objs)
        BY <2>1 DEF StartCall, StartError, StopCall, StopError
      <3>2. Ag(t) \in Agents
        BY <1>0, <3>1, AcceptedCalls
      <3>3. CASE host'[a] = host[a]
        BY <1>1, <3>3 DEF PortsOK
      <3>4. CASE host'[a] = Started(t) /\ pc[t] \in StartCalls
        <4>1. pc[t] \in BeforeArm
          BY <3>4, CallNames DEF BeforeArm, SpinUpLabels, OwnLabels
        <4>2. QED
          BY <3>4, <4>1 DEF PortsOK, Started
      <3>5. CASE host'[a] = Stopped(t) /\ a = Ag(t) /\ pc[t] \in StopCalls
        <4>1. host[a].objs # {}
          BY <1>0, <3>1, <3>5, AcceptedCalls, StagesDiffer
        <4>2. host[a] \in HostType
          BY <1>0 DEF TypeOK
        <4>3. host'[a].key = host[a].key /\ host'[a].port = host[a].port
          BY <1>1, <3>5, <4>2 DEF Stopped, Gone, HostType
        <4>4. QED
          BY <4>1, <4>3 DEF PortsOK
      <3>6. host'[a] # Gone
        BY <1>1 DEF Gone
      <3>7. \/ host'[a] = host[a]
            \/ host'[a] = Started(t) /\ pc[t] \in StartCalls
            \/ host'[a] = Stopped(t) /\ a = Ag(t) /\ pc[t] \in StopCalls
        BY <1>0, <2>1, <3>2, <3>6 DEF TypeOK, StartCall, StartError, StopCall, StopError
      <3>8. QED
        BY <3>3, <3>4, <3>5, <3>7
    <2>2. CASE UNCHANGED host
      BY <1>1, <2>2 DEF PortsOK
    <2>3. QED
      BY <2>1, <2>2
      DEF Step, StartRefused, StopRefused, Recover, RecoverSet, RecoverGet, RecoverConnect,
          CacheSet, CacheDel, Lookup, CacheError, SetSpinDownJob, TimerFires, PingAnswered,
          PingUnanswered, CreateConnection
  <1>2. ASSUME NEW u \in Threads, pc'[u] \in BeforeArm
        PROVE  Arg(u)'.port # None
    <2>1. pc[u] \in BeforeArm
      BY <1>2, StartsEarly
    <2>2. arg'[u[1]] = arg[u[1]]
      <3>1. CASE Lookup(t)
        <4>1. u # t
          <5>1. pc[t] = "lookup" /\ "lookup" \notin BeforeArm
            BY <3>1, CallNames DEF Lookup, BeforeArm, SpinUpLabels, OwnLabels
          <5>2. QED
            BY <2>1, <5>1
        <4>2. t[2] # "job"
          BY <1>0, <3>1, ThreadParts, ThreadRole, CallNames DEF Lookup, RoleOK, JobLabels, OwnLabels
        <4>3. u[2] # "job"
          BY <1>0, <2>1, ThreadParts, ThreadRole, RoleNames DEF RoleOK
        <4>4. u[1] # t[1]
          BY <4>1, <4>2, <4>3, ThreadParts
        <4>5. QED
          BY <1>0, <3>1, <4>4, ThreadParts DEF Lookup, TypeOK
      <3>2. CASE UNCHANGED arg
        BY <3>2
      <3>3. QED
        BY <3>1, <3>2
        DEF Step, StartCall, StartRefused, StartError, StopCall, StopRefused, StopError, Recover,
            RecoverSet, RecoverGet, RecoverConnect, CacheSet, CacheDel, CacheError, SetSpinDownJob,
            TimerFires, PingAnswered, PingUnanswered, CreateConnection
    <2>3. QED
      BY <2>1, <2>2 DEF PortsOK, Arg
  <1>3. QED
    BY <1>1, <1>2 DEF PortsOK

LEMMA RequestPorts ==
  ASSUME ManagerInv, PortsOK, NEW c \in Calls, SpinUp(c) \/ SpinDown(c) \/ Connect(c)
  PROVE  PortsOK'
  <1>0. TypeOK /\ RoleOK
    BY DEF ManagerInv
  <1>1. \E op, r, label : Issue(c, op, r, label) /\ (label \in BeforeArm => r.port # None)
    <2>1. CASE SpinUp(c)
      <3>1. PICK a \in Agents, key \in Keys, port \in DtoPorts, ttl \in DtoTtls, auto \in Autos :
              Issue(c, "spinUp",
                    [agent |-> a, key |-> key, port |-> AdminPort(port), ttl |-> Ttl(ttl),
                     auto |-> auto], FirstStart)
        BY <2>1 DEF SpinUp
      <3>2. AdminPort(port) # None
        BY ConfigAssumption DEF AdminPort
      <3>3. QED
        BY <3>1, <3>2
    <2>2. CASE SpinDown(c) \/ Connect(c)
      <3>1. "del" \notin BeforeArm /\ "lookup" \notin BeforeArm
        BY CallNames DEF BeforeArm, SpinUpLabels, OwnLabels
      <3>2. QED
        BY <2>2, <3>1 DEF SpinDown, Connect
    <2>3. QED
      BY <2>1, <2>2
  <1>2. PICK op, r, label : Issue(c, op, r, label) /\ (label \in BeforeArm => r.port # None)
    BY <1>1
  <1>3. /\ UNCHANGED <<host, cache>> /\ Request(c) \in Threads
        /\ arg' = [arg EXCEPT ![c] = r] /\ pc[Job(c)] = "idle"
    BY <1>2, ThreadParts DEF Issue
  <1>4. pc'[Request(c)] = label /\ \A u \in Threads \ {Request(c)} : pc'[u] = pc[u]
    BY <1>0, <1>2, <1>3, MoveIs DEF Issue
  <1>5. ASSUME NEW u \in Threads, pc'[u] \in BeforeArm
        PROVE  Arg(u)'.port # None
    <2>1. CASE u = Request(c)
      <3>1. Arg(u)' = r
        BY <1>0, <1>3, <2>1, ThreadParts DEF Arg, TypeOK
      <3>2. QED
        BY <1>2, <1>4, <1>5, <2>1, <3>1
    <2>2. CASE u # Request(c)
      <3>1. pc[u] \in BeforeArm
        BY <1>4, <1>5, <2>2
      <3>2. u # Job(c)
        BY <1>3, <3>1, CallNames DEF BeforeArm, SpinUpLabels, OwnLabels
      <3>3. u[1] # c
        BY <2>2, <3>2, ThreadParts DEF Request, Job
      <3>4. Arg(u)' = Arg(u)
        BY <1>0, <1>3, <3>3, ThreadParts DEF Arg, TypeOK
      <3>5. QED
        BY <3>1, <3>4 DEF PortsOK
    <2>3. QED
      BY <2>1, <2>2
  <1>6. QED
    BY <1>3, <1>5 DEF PortsOK

LEMMA PortsNext ==
  ASSUME ManagerInv, PortsOK, [Next]_vars
  PROVE  PortsOK'
  <1>0. TypeOK
    BY DEF ManagerInv
  <1>1. ASSUME NEW c \in Calls, SpinUp(c) \/ SpinDown(c) \/ Connect(c)
        PROVE  PortsOK'
    BY <1>1, RequestPorts
  <1>2. ASSUME NEW t \in Threads, Step(t)
        PROVE  PortsOK'
    BY <1>2, ThreadPorts
  <1>3. ASSUME NEW b \in Agents, AgentBoots(b) \/ AgentExits(b)
        PROVE  PortsOK'
    <2>1. UNCHANGED <<cache, pc, arg>>
      BY <1>3 DEF AgentBoots, AgentExits
    <2>2. ASSUME NEW a \in Agents, host'[a].objs # {}
          PROVE  host[a].objs # {} /\ host'[a].key = host[a].key /\ host'[a].port = host[a].port
      <3>1. host[a] \in HostType /\ host[b].objs # {}
        BY <1>0, <1>3, StagesDiffer DEF TypeOK, AgentBoots, AgentExits
      <3>2. \/ host'[a] = host[a]
            \/ a = b /\ host'[a] = Gone
            \/ a = b /\ \E r \in BOOLEAN : host'[a] = [host[a] EXCEPT !.ready = r]
        BY <1>0, <1>3 DEF TypeOK, AgentBoots, AgentExits
      <3>3. \A r : /\ [host[a] EXCEPT !.ready = r].key = host[a].key
                   /\ [host[a] EXCEPT !.ready = r].port = host[a].port
        BY <3>1 DEF HostType
      <3>4. host'[a] # Gone
        BY <2>2 DEF Gone
      <3>5. QED
        BY <2>2, <3>1, <3>2, <3>3, <3>4
    <2>3. QED
      BY <2>1, <2>2 DEF PortsOK, Arg
  <1>4. CASE Crash
    <2>1. UNCHANGED <<host, cache, arg>>
      BY <1>4 DEF Crash
    <2>2. \A t \in Threads : pc'[t] \notin BeforeArm
      BY <1>4, CallNames DEF Crash, Answered, BeforeArm, SpinUpLabels, OwnLabels
    <2>3. QED
      BY <2>1, <2>2 DEF PortsOK
  <1>5. CASE Tick
    <2>1. /\ arg' = arg
          /\ \A t \in Threads : pc'[t] \in BeforeArm => pc[t] \in BeforeArm
      BY <1>5, CallNames DEF Tick, BeforeArm, SpinUpLabels, OwnLabels
    <2>2. \A a \in Agents : /\ host'[a].objs = host[a].objs
                            /\ host'[a].key = host[a].key /\ host'[a].port = host[a].port
      BY <1>0, <1>5 DEF Tick, TypeOK, HostType
    <2>3. QED
      BY <2>1, <2>2 DEF PortsOK, Arg
  <1>6. CASE UNCHANGED vars
    BY <1>6 DEF vars, PortsOK, Arg
  <1>7. QED
    BY <1>1, <1>2, <1>3, <1>4, <1>5, <1>6 DEF Next

LEMMA SameAgent ==
  ASSUME ManagerInv, [Next]_vars, NEW a \in Agents, host[a].objs = Full, host'[a].objs = Full
  PROVE  host'[a].key = host[a].key /\ host'[a].port = host[a].port
  <1>0. TypeOK /\ HalfOK /\ host[a] \in HostType
    BY DEF ManagerInv, TypeOK
  <1>1. ASSUME NEW t \in Threads, Step(t)
        PROVE  host'[a].key = host[a].key /\ host'[a].port = host[a].port
    <2>1. CASE StartCall(t) \/ StartError(t) \/ StopCall(t) \/ StopError(t)
      <3>1. pc[t] \in StartCalls \cup StopCalls /\ Accepts(pc[t], host[Ag(t)].objs)
        BY <2>1 DEF StartCall, StartError, StopCall, StopError
      <3>2. CASE Ag(t) # a
        BY <1>0, <2>1, <3>2 DEF TypeOK, StartCall, StartError, StopCall, StopError
      <3>3. CASE Ag(t) = a
        <4>1. pc[t] = FirstStop /\ Stopped(t).objs # Full
          BY <1>0, <3>1, <3>3, AcceptedCalls, CallOrder, CallNames, StagesDiffer
        <4>2. host'[a] = host[a] \/ host'[a] = Stopped(t)
          BY <1>0, <2>1, <3>3, <4>1, CallNames DEF TypeOK, StartCall, StartError, StopCall, StopError
        <4>3. QED
          BY <4>1, <4>2
      <3>4. QED
        BY <3>2, <3>3
    <2>2. CASE UNCHANGED host
      BY <2>2
    <2>3. QED
      BY <1>1, <2>1, <2>2
      DEF Step, StartRefused, StopRefused, Recover, RecoverSet, RecoverGet, RecoverConnect,
          CacheSet, CacheDel, Lookup, CacheError, SetSpinDownJob, TimerFires, PingAnswered,
          PingUnanswered, CreateConnection
  <1>2. ASSUME NEW b \in Agents, AgentBoots(b) \/ AgentExits(b)
        PROVE  host'[a].key = host[a].key /\ host'[a].port = host[a].port
    <2>1. \/ host'[a] = host[a]
          \/ host'[a] = Gone
          \/ \E r \in BOOLEAN : host'[a] = [host[a] EXCEPT !.ready = r]
      BY <1>0, <1>2 DEF TypeOK, AgentBoots, AgentExits
    <2>2. host'[a] # Gone
      BY StagesDiffer DEF Gone
    <2>3. \A r : /\ [host[a] EXCEPT !.ready = r].key = host[a].key
                 /\ [host[a] EXCEPT !.ready = r].port = host[a].port
      BY <1>0 DEF HostType
    <2>4. QED
      BY <2>1, <2>2, <2>3
  <1>3. CASE Tick
    BY <1>0, <1>3 DEF Tick, TypeOK, HostType
  <1>4. CASE UNCHANGED host
    BY <1>4
  <1>5. QED
    BY <1>1, <1>2, <1>3, <1>4 DEF Next, vars, SpinUp, SpinDown, Connect, Issue, Crash

---------------------------------------------------------------------------
(* The webhooks and registrations of an agent that is up.                  *)

\* A request that read the entry of an undisturbed agent calls the agent with
\* the key and, but for a registration, the port that it was started with.
FreshOK ==
  /\ fresh \subseteq Guests
  /\ \A g \in fresh :
       LET agent == host[task[g].agent] IN
       /\ task[g].at \in Calling /\ agent.objs = Full
       /\ task[g].key = agent.key
       /\ task[g].port = IF task[g].at = "callback" THEN agent.port ELSE AGENT_ADMIN_PORT

ServedInv == AgencyInv /\ PortsOK /\ FreshOK

\* An undisturbed agent's entry is its own and no wallet's.
LEMMA OwnEntry ==
  ASSUME ServedInv, NEW a \in Agents, Undisturbed(a)
  PROVE  /\ cache[a] # None /\ ~IsWallets(a)
         /\ cache[a].key = host[a].key /\ cache[a].port = host[a].port
  <1>1. Fits(a)
    BY CachedImplies DEF ServedInv, AgencyInv, ManagerOK, UpIsCached
  <1>2. host[a].port # None
    BY StagesDiffer DEF ServedInv, PortsOK, Undisturbed
  <1>3. ASSUME IsWallets(a)
        PROVE  cache[a].port = None
    <2>1. a \in WalletNames /\ entries[a] # None
      BY <1>3 DEF IsWallets
    <2>2. cache[a] = AsAgent(entries[a])
      BY <1>3, <2>1 DEF ServedInv, AgencyInv, OneStore
    <2>3. QED
      BY <2>1, <2>2 DEF AsAgent
  <1>4. QED
    BY <1>1, <1>2, <1>3 DEF Fits

\* Requests only come to call an agent by reading its entry; what they have
\* read stays as it is until the call is over.
LEMMA GuestCalls ==
  ASSUME TdcOK, NEW g \in Guests, NEW h \in Guests, GuestStep(h), task'[g].at \in Calling
  PROVE  \/ task'[g] = task[g]
         \/ /\ g = h /\ task[g].at \notin Calling /\ task[g].agent \in Agents
            /\ cache[task[g].agent] # None
            /\ task'[g].agent = task[g].agent /\ task'[g].key = cache[task[g].agent].key
            /\ task'[g].port = IF task'[g].at = "callback" THEN cache[task[g].agent].port
                               ELSE AGENT_ADMIN_PORT
  <1>1. task \in [Guests -> TaskType] /\ task[h] \in TaskType /\ GoodTask(task[h])
    BY DEF TdcOK
  <1>2. g # h => task'[g] = task[g]
    BY <1>1 DEF GuestStep, PostAgentWebhook, Register, UseOneTimeKey, Arrive, HandleAgentWebhook,
       CallBack, GetAgentAdminApiKey, CreateAgentConnection, CreateAgentConnectionLost, Invited,
       RegisterWithTDC, RegisterFails, PassToTDC, GuestFails, End, At, CallWith
  <1>3. CASE g = h
    <2>1. \A label : End(g, label) => task'[g].at = label
      BY <1>1, <1>3 DEF End, NoTask
    <2>2. CASE HandleAgentWebhook(g) \/ GetAgentAdminApiKey(g)
      <3>1. /\ task[g].at \in {"dispatch", "key"} /\ task[g].agent \in Agents
        BY <1>1, <1>3, <2>2 DEF HandleAgentWebhook, GetAgentAdminApiKey, GoodTask
      <3>2. \A label, key, port : CallWith(g, label, key, port) =>
              /\ task'[g].at = label /\ task'[g].key = key /\ task'[g].port = port
              /\ task'[g].agent = task[g].agent
        BY <1>1, <1>3 DEF CallWith, TaskType
      <3>3. \/ /\ CallWith(g, "callback", cache[task[g].agent].key, cache[task[g].agent].port)
               /\ cache[task[g].agent] # None
            \/ /\ CallWith(g, "invite", cache[task[g].agent].key, AGENT_ADMIN_PORT)
               /\ cache[task[g].agent] # None
        BY <2>1, <2>2 DEF HandleAgentWebhook, GetAgentAdminApiKey, Calling
      <3>4. QED
        BY <1>3, <3>1, <3>2, <3>3 DEF Calling
    <2>3. CASE PostAgentWebhook(g) \/ Register(g) \/ UseOneTimeKey(g)
      BY <1>1, <2>3 DEF PostAgentWebhook, Register, UseOneTimeKey, Arrive, Calling
    <2>4. CASE CreateAgentConnection(g) \/ CreateAgentConnectionLost(g)
      BY <1>1, <1>3, <2>1, <2>4 DEF CreateAgentConnection, CreateAgentConnectionLost, Invited,
         TaskType, Calling
    <2>5. CASE \/ CallBack(g) \/ RegisterWithTDC(g) \/ RegisterFails(g) \/ PassToTDC(g)
               \/ GuestFails(g)
      BY <1>1, <1>3, <2>1, <2>5 DEF CallBack, RegisterWithTDC, RegisterFails, PassToTDC,
         GuestFails, At, TaskType, Calling, Over
    <2>6. QED
      BY <1>3, <2>2, <2>3, <2>4, <2>5 DEF GuestStep
  <1>4. QED
    BY <1>2, <1>3

\* What a request that is fresh after a step knew before it.
LEMMA HeedFresh ==
  ASSUME ServedInv, Heed, \A g \in Guests : task'[g].at \in Calling => task'[g] = task[g],
         \A g \in Guests : task[g].at \in Calling => task[g].agent \in Agents,
         \A a \in Agents : host[a].objs = Full /\ host'[a].objs = Full =>
           host'[a].key = host[a].key /\ host'[a].port = host[a].port
  PROVE  FreshOK'
  <1>1. ASSUME NEW g \in fresh'
        PROVE  /\ g \in fresh /\ task'[g] = task[g] /\ task[g].agent \in Agents
               /\ host'[task[g].agent].objs = Full
    BY <1>1 DEF Heed
  <1>2. ASSUME NEW g \in fresh'
        PROVE  /\ task'[g].at \in Calling /\ host'[task'[g].agent].objs = Full
               /\ task'[g].key = host'[task'[g].agent].key
               /\ task'[g].port = IF task'[g].at = "callback" THEN host'[task'[g].agent].port
                                  ELSE AGENT_ADMIN_PORT
    BY <1>1, <1>2 DEF ServedInv, FreshOK
  <1>3. fresh' \subseteq Guests
    BY DEF Heed
  <1>4. QED
    BY <1>2, <1>3 DEF FreshOK

LEMMA GuestFresh ==
  ASSUME ServedInv, NEW h \in Guests, GuestStep(h)
  PROVE  FreshOK'
  <1>1. UNCHANGED host /\ Heed /\ TdcOK
    BY DEF GuestStep, vars, ServedInv, AgencyInv
  <1>2. ASSUME NEW g \in fresh'
        PROVE  /\ task'[g].at \in Calling /\ host'[task'[g].agent].objs = Full
               /\ task'[g].key = host'[task'[g].agent].key
               /\ task'[g].port = IF task'[g].at = "callback" THEN host'[task'[g].agent].port
                                  ELSE AGENT_ADMIN_PORT
    <2>1. /\ g \in Guests /\ task'[g].at \in Calling /\ host'[task'[g].agent].objs = Full
          /\ IF task[g].at = task'[g].at THEN g \in fresh ELSE Undisturbed(task'[g].agent)
      BY <1>1, <1>2 DEF Heed
    <2>2. CASE task'[g] = task[g]
      BY <1>1, <2>1, <2>2 DEF ServedInv, FreshOK
    <2>3. CASE task'[g] # task[g]
      <3>1. /\ task[g].at \notin Calling /\ task[g].agent \in Agents
            /\ task'[g].agent = task[g].agent /\ task'[g].key = cache[task[g].agent].key
            /\ task'[g].port = IF task'[g].at = "callback" THEN cache[task[g].agent].port
                               ELSE AGENT_ADMIN_PORT
        BY <1>1, <2>1, <2>3, GuestCalls
      <3>2. Undisturbed(task[g].agent)
        BY <2>1, <3>1
      <3>3. QED
        BY <1>1, <2>1, <3>1, <3>2, OwnEntry
    <2>4. QED
      BY <2>2, <2>3
  <1>3. fresh' \subseteq Guests
    BY <1>1 DEF Heed
  <1>4. QED
    BY <1>2, <1>3 DEF FreshOK

LEMMA ServedStep ==
  ASSUME ServedInv, [AgencyNext]_agencyVars
  PROVE  ServedInv'
  <1>0. AgencyInv' /\ ManagerInv
    BY AgencyStep DEF ServedInv, AgencyInv, ManagerOK
  <1>1. \A g \in Guests : task[g].at \in Calling => task[g].agent \in Agents
    BY DEF ServedInv, AgencyInv, TdcOK, GoodTask, Calling
  <1>2. ASSUME [Next]_vars, Heed, \A g \in Guests : task'[g].at \in Calling => task'[g] = task[g]
        PROVE  ServedInv'
    <2>1. PortsOK'
      BY <1>0, <1>2, PortsNext DEF ServedInv
    <2>2. \A a \in Agents : host[a].objs = Full /\ host'[a].objs = Full =>
            host'[a].key = host[a].key /\ host'[a].port = host[a].port
      BY <1>0, <1>2, SameAgent
    <2>3. QED
      BY <1>0, <1>1, <1>2, <2>1, <2>2, HeedFresh DEF ServedInv
  <1>3. CASE ManagerStep
    <2>1. Next /\ Heed /\ task' = task
      BY <1>3 DEF ManagerStep, Next
    <2>2. QED
      BY <1>2, <2>1
  <1>4. CASE WalletStep
    <2>1. UNCHANGED managerVars /\ Heed /\ task' = task
      BY <1>4 DEF WalletStep
    <2>2. PortsOK'
      BY <2>1 DEF ServedInv, PortsOK, managerVars, Arg
    <2>3. FreshOK'
      BY <1>1, <2>1, HeedFresh DEF managerVars
    <2>4. QED
      BY <1>0, <2>2, <2>3 DEF ServedInv
  <1>5. ASSUME NEW h \in Guests, GuestStep(h)
        PROVE  ServedInv'
    <2>1. PortsOK'
      BY <1>0, <1>5, PortsNext DEF ServedInv, GuestStep
    <2>2. QED
      BY <1>0, <1>5, <2>1, GuestFresh DEF ServedInv
  <1>6. CASE AgencyTick
    <2>1. Next /\ Heed /\ task' = task
      BY <1>6 DEF AgencyTick, Next
    <2>2. QED
      BY <1>2, <2>1
  <1>7. CASE AgencyCrash
    <2>1. [Next]_vars /\ Heed
      BY <1>7 DEF AgencyCrash, Next, Crash, vars
    <2>2. \A g \in Guests : task'[g].at \in Calling => task'[g] = task[g]
      BY <1>7 DEF AgencyCrash, NoTask, Calling
    <2>3. QED
      BY <1>2, <2>1, <2>2
  <1>8. CASE UNCHANGED agencyVars
    <2>1. UNCHANGED <<vars, task, fresh>>
      BY <1>8 DEF agencyVars
    <2>2. FreshOK'
      BY <2>1 DEF ServedInv, FreshOK, vars
    <2>3. PortsOK'
      BY <2>1 DEF ServedInv, PortsOK, vars, Arg
    <2>4. QED
      BY <1>0, <2>2, <2>3 DEF ServedInv
  <1>9. QED
    BY <1>3, <1>4, <1>5, <1>6, <1>7, <1>8 DEF AgencyNext

\* A request that calls its agent with what it has read fresh is answered.
LEMMA FreshAnswers ==
  ASSUME ServedInv, NEW g \in Guests, task[g].at \in Calling, Steady(g),
         task[g].at = "invite" => host[task[g].agent].port = AGENT_ADMIN_PORT
  PROVE  Answers(g)
  BY DEF ServedInv, FreshOK, Steady, Answers, Reachable, Calling

LEMMA NoneTurnedAway ==
  ASSUME ServedInv, [AgencyNext]_agencyVars, NEW g \in Guests, TurnedAway(g), Steady(g),
         task[g].at = "invite" => host[task[g].agent].port = AGENT_ADMIN_PORT
  PROVE  FALSE
  <1>1. task \in [Guests -> TaskType] /\ task[g] \in TaskType /\ GoodTask(task[g])
    BY DEF ServedInv, AgencyInv, TdcOK
  <1>2. PICK h \in Guests : GuestStep(h)
    <2>1. task' # task
      BY DEF TurnedAway, Over
    <2>2. ~AgencyCrash
      BY DEF TurnedAway, AgencyCrash, NoTask, Over
    <2>3. QED
      BY <2>1, <2>2 DEF AgencyNext, ManagerStep, WalletStep, AgencyTick, agencyVars
  <1>3. GuestStep(g)
    <2>1. h # g => task'[g] = task[g]
      BY <1>1, <1>2 DEF GuestStep, PostAgentWebhook, Register, UseOneTimeKey, Arrive,
         HandleAgentWebhook, CallBack, GetAgentAdminApiKey, CreateAgentConnection,
         CreateAgentConnectionLost, Invited, RegisterWithTDC, RegisterFails, PassToTDC,
         GuestFails, End, At, CallWith
    <2>2. QED
      BY <1>2, <2>1 DEF TurnedAway, Over
  <1>4. /\ \A label : End(g, label) => task'[g].at = label
        /\ \A label, k, port : CallWith(g, label, k, port) => task'[g].at = label
        /\ Invited(g) => task'[g].at = "register"
    BY <1>1 DEF End, NoTask, CallWith, Invited, TaskType
  <1>5. CASE HandleAgentWebhook(g) \/ GetAgentAdminApiKey(g)
    <2>1. task[g].agent \in Agents /\ task[g].at \notin Calling
      BY <1>1, <1>5 DEF HandleAgentWebhook, GetAgentAdminApiKey, GoodTask, Calling
    <2>2. Undisturbed(task[g].agent)
      BY <2>1 DEF Steady
    <2>3. cache[task[g].agent] # None /\ ~IsWallets(task[g].agent)
      BY <2>1, <2>2, OwnEntry
    <2>4. task'[g].at \in Calling
      BY <1>4, <1>5, <2>3 DEF HandleAgentWebhook, GetAgentAdminApiKey, Calling
    <2>5. QED
      BY <2>4 DEF TurnedAway, Calling
  <1>6. CASE CallBack(g) \/ CreateAgentConnection(g)
    <2>1. Answers(g)
      BY <1>6, FreshAnswers DEF CallBack, CreateAgentConnection, Calling
    <2>2. task'[g].at \in {"done", "register"}
      BY <1>4, <1>6, <2>1 DEF CallBack, CreateAgentConnection
    <2>3. QED
      BY <2>2 DEF TurnedAway
  <1>7. CASE PostAgentWebhook(g) \/ Register(g) \/ UseOneTimeKey(g)
    BY <1>7 DEF PostAgentWebhook, Register, UseOneTimeKey, Arrive, TurnedAway
  <1>8. CASE \/ CreateAgentConnectionLost(g) \/ RegisterWithTDC(g) \/ RegisterFails(g)
             \/ PassToTDC(g) \/ GuestFails(g)
    BY <1>1, <1>4, <1>8
    DEF CreateAgentConnectionLost, RegisterWithTDC, RegisterFails, PassToTDC, GuestFails, At,
        TaskType, TurnedAway, Over
  <1>9. QED
    BY <1>3, <1>5, <1>6, <1>7, <1>8 DEF GuestStep

\* No webhook and no registration of an agent that is up and undisturbed is
\* turned away at any of its awaits, for any agents, wallets and requests and
\* any keys, ports and ttls that they give: not by a missing entry, nor by a
\* wallet's, nor by a stale key or port.
THEOREM UpIsServed == AgencySpec => ServedWhileUp
  <1>1. AgencyInit => ServedInv
    <2> SUFFICES ASSUME AgencyInit
                 PROVE  ServedInv
      OBVIOUS
    <2>1. \A t \in Threads : pc[t] \notin BeforeArm
      BY CallNames DEF AgencyInit, Init, BeforeArm, SpinUpLabels, OwnLabels
    <2>2. PortsOK
      BY <2>1 DEF AgencyInit, Init, Gone, PortsOK
    <2>3. QED
      BY <2>2, AgencyInitInv DEF AgencyInit, ServedInv, FreshOK
  <1>2. ServedInv /\ [AgencyNext]_agencyVars => ServedInv'
    BY ServedStep
  <1>3. ServedInv /\ [AgencyNext]_agencyVars =>
          \A g \in Guests :
            TurnedAway(g) /\ Steady(g) =>
              task[g].at = "invite" /\ host[task[g].agent].port # AGENT_ADMIN_PORT
    BY NoneTurnedAway
  <1>4. QED
    BY <1>1, <1>2, <1>3, PTL DEF AgencySpec, ServedWhileUp

---------------------------------------------------------------------------
(* What the wallets' requests do among the others.                         *)

LEMMA SameBook ==
  /\ W!Called = WP!Called /\ W!Called' = WP!Called'
  /\ W!Book!Init <=> WP!Book!Init
  /\ W!Book!Next <=> WP!Book!Next
  <1>1. W!Called = WP!Called
    BY DEF W!Called, W!CallOf, W!Idle, W!Quiet, WP!Called, WP!CallOf, WP!Idle, WP!Quiet
  <1>2. W!Called' = WP!Called'
    BY DEF W!Called, W!CallOf, W!Idle, W!Quiet, WP!Called, WP!CallOf, WP!Idle, WP!Quiet
  <1>3. W!Book!Init <=> WP!Book!Init
    BY <1>1 DEF W!Book!Init, W!Book!NoCall, WP!Book!Init, WP!Book!NoCall
  <1>4. W!Book!Forget <=> WP!Book!Forget
    BY <1>1, <1>2 DEF W!Book!Forget, W!Book!NoCall, WP!Book!Forget, WP!Book!NoCall
  <1>5. ASSUME NEW c \in WalletCalls
        PROVE  /\ W!Book!Ask(c) <=> WP!Book!Ask(c)
               /\ W!Book!Make(c) <=> WP!Book!Make(c)
               /\ W!Book!Give(c) <=> WP!Book!Give(c)
               /\ W!Book!Strike(c) <=> WP!Book!Strike(c)
               /\ W!Book!Fail(c) <=> WP!Book!Fail(c)
    <2>1. \A at, id : W!Book!Answer(c, at, id) <=> WP!Book!Answer(c, at, id)
      BY <1>1, <1>2 DEF W!Book!Answer, WP!Book!Answer
    <2>2. \A op : W!Book!Open(c, op) <=> WP!Book!Open(c, op)
      BY <1>1 DEF W!Book!Open, WP!Book!Open
    <2>3. W!Book!Ask(c) <=> WP!Book!Ask(c)
      BY <1>1, <1>2 DEF W!Book!Ask, WP!Book!Ask
    <2>4. W!Book!Make(c) <=> WP!Book!Make(c)
      BY <1>1, <1>2, <2>1, <2>2 DEF W!Book!Make, WP!Book!Make
    <2>5. W!Book!Give(c) <=> WP!Book!Give(c)
      BY <1>1, <1>2, <2>1, <2>2 DEF W!Book!Give, WP!Book!Give
    <2>6. W!Book!Strike(c) <=> WP!Book!Strike(c)
      BY <1>1, <1>2, <2>1, <2>2 DEF W!Book!Strike, WP!Book!Strike
    <2>7. W!Book!Fail(c) <=> WP!Book!Fail(c)
      BY <1>1, <1>2, <2>1, <2>2 DEF W!Book!Fail, WP!Book!Fail
    <2>8. QED
      BY <2>3, <2>4, <2>5, <2>6, <2>7
  <1>6. W!Book!Next <=> WP!Book!Next
    BY <1>4, <1>5 DEF W!Book!Next, WP!Book!Next
  <1>7. QED
    BY <1>1, <1>2, <1>3, <1>6

BookStep == WP!Book!Next \/ UNCHANGED <<made, wallets, WP!Called>>

LEMMA BookOfWallets ==
  ASSUME WP!Inv, WalletStep
  PROVE  BookStep
  <1>1. PICK c \in WalletCalls :
          \/ W!CreateWallet(c) \/ W!RemoveWallet(c) \/ W!PostWebhook(c)
          \/ W!Step(c)
    BY DEF WalletStep
  <1>2. CASE W!Step(c)
    <2>1. WP!Step(c)
      BY <1>2, SameSteps
    <2>2. QED
      BY <2>1, WalletAssumption, WP!BookStep DEF BookStep
  <1>3. CASE W!CreateWallet(c) \/ W!RemoveWallet(c) \/ W!PostWebhook(c)
    <2>1. WP!CreateWallet(c) \/ WP!RemoveWallet(c) \/ WP!PostWebhook(c)
      BY <1>3, SameRequests
    <2>2. WP!Book!Ask(c) \/ WP!Book!Forget
      BY <2>1, WalletAssumption, WP!AskStep
    <2>3. QED
      BY <2>2 DEF BookStep, WP!Book!Next
  <1>4. QED
    BY <1>1, <1>2, <1>3

LEMMA BookOfAgency ==
  ASSUME AgencyInv, [AgencyNext]_agencyVars
  PROVE  BookStep
  <1>1. CASE UNCHANGED walletVars
    BY <1>1 DEF walletVars, BookStep, WP!Called, WP!CallOf
  <1>2. CASE WalletStep
    BY <1>2, BookOfWallets DEF AgencyInv
  <1>3. CASE W!Crash
    <2>1. WP!Book!Forget
      BY <1>3, SameWallets, WalletAssumption, WP!ForgetStep DEF AgencyInv
    <2>2. QED
      BY <2>1 DEF BookStep, WP!Book!Next
  <1>4. CASE W!Tick
    BY <1>1, <1>4 DEF W!Tick, walletVars
  <1>5. QED
    BY <1>1, <1>2, <1>3, <1>4
    DEF AgencyNext, ManagerStep, GuestStep, AgencyCrash, AgencyTick, agencyVars

\* Spinning agents up and down under the names of wallets, which replaces and
\* deletes the wallets' entries, never makes a request be given or remove a
\* wallet other than that of its own name and key.
THEOREM AgencyKeepsTheBook == AgencySpec => WalletsKeepTheBook
  <1>1. AgencyInit => W!Book!Init
    BY SameBook, SameWallets, WalletAssumption, WP!BookInit DEF AgencyInit
  <1>2. AgencyInv /\ [AgencyNext]_agencyVars => [W!Book!Next]_W!Book!bookVars
    BY SameBook, BookOfAgency DEF BookStep, W!Book!bookVars
  <1>3. QED
    BY <1>1, <1>2, AgencyAlways, PTL
    DEF AgencySpec, WalletsKeepTheBook, W!ImplementsWalletBook, W!Book!Spec
=============================================================================
