---------------------- MODULE AgentManagerExpiry_proofs ----------------------
(***************************************************************************)
(* The spin-down timers of AgentManager: an agent with a ttl that no fault *)
(* has touched always has its end ahead.                                   *)
(***************************************************************************)
EXTENDS AgentManager_proofs

---------------------------------------------------------------------------
(* The inductive invariant. *)

\* Somebody is between the two calls that take the agent down.
Ending(a) == \E t \in Threads : HalfStop(t) /\ Ag(t) = a

\* The slot's request is on its way from the first call to the timer.
Arming(c) ==
  pc[Request(c)] \in {SecondStart, "cacheSet", "arm"} /\ HasTimer(arg[c].ttl)

\* The slot's timer is armed or its callback runs.
Timing(c) == pc[Job(c)] \in {"armed", "del", FirstStop}

\* The slot that started the agent sees to its end.
Starter(a) ==
  /\ host[a].by \in Calls
  /\ arg[host[a].by].agent = a
  /\ Arming(host[a].by) \/ Timing(host[a].by)

\* The agent has a ttl that counts.
Leased(a) == host[a].objs # {} /\ host[a].lease # Infinity /\ a \notin faulted

Scheduled(a) == Leased(a) => Ending(a) \/ Starter(a)

\* ExpiryIsScheduled says nothing of who is half-way in a start, nor that the
\* request on its way to the timer has a ttl that gets one.
TimerOK ==
  /\ \A a \in Agents : Scheduled(a)
  /\ \A t \in Threads : pc[t] = SecondStart => host[Ag(t)].by = t[1]

ManagerInv == TypeOK /\ RoleOK /\ HalfOK

LEMMA TimerImplies == ManagerInv /\ TimerOK => ExpiryIsScheduled
  <1> SUFFICES ASSUME ManagerInv, TimerOK, NEW a \in Agents, Leased(a)
               PROVE  \/ \E t \in Threads : HalfStop(t) /\ Ag(t) = a
                      \/ LET c == host[a].by
                         IN  /\ arg[c].agent = a
                             /\ \/ HalfStart(Request(c))
                                \/ pc[Request(c)] \in {"cacheSet", "arm"}
                                \/ pc[Job(c)] \in {"armed", "del", FirstStop}
    BY DEF ExpiryIsScheduled, Leased
  <1>1. Ending(a) \/ Starter(a)
    BY DEF TimerOK, Scheduled
  <1>2. \A t \in Threads : pc[t] = SecondStart => HalfStart(t)
    BY CallNames DEF HalfStart
  <1>3. QED
    BY <1>1, <1>2, ThreadParts DEF Ending, Starter, Arming, Timing

LEMMA TimerInit == Init => TimerOK
  <1> SUFFICES ASSUME Init
               PROVE  TimerOK
    OBVIOUS
  <1>1. \A a \in Agents : host[a].objs = {}
    BY DEF Init, Gone
  <1>2. \A t \in Threads : pc[t] # SecondStart
    BY CallNames DEF Init, OwnLabels
  <1>3. QED
    BY <1>1, <1>2 DEF TimerOK, Scheduled, Leased

---------------------------------------------------------------------------
(* Steps of one thread. *)

\* Where a thread in a start, a stop or a recovery works.
LEMMA WorksOnAgent ==
  ASSUME TypeOK, NEW t \in Threads, pc[t] # "idle"
  PROVE  Ag(t) \in Agents
  BY DEF TypeOK, Ag, Arg, ArgType

\* A thread's step matters to the timer of its own agent only.
LEMMA TimerStep ==
  ASSUME TypeOK, TimerOK, NEW t \in Threads, NEW label,
         pc[t] # "idle", GoTo(t, label), UNCHANGED arg,
         \A b \in Agents \ {Ag(t)} : host'[b] = host[b] /\ (b \in faulted => b \in faulted'),
         Scheduled(Ag(t))',
         label = SecondStart => host'[Ag(t)].by = t[1],
         \A u \in Threads \ {t} :
           pc[u] = SecondStart /\ Ag(u) = Ag(t) => host'[Ag(t)].by = u[1]
  PROVE  TimerOK'
  <1>1. pc'[t] = label /\ \A u \in Threads \ {t} : pc'[u] = pc[u]
    BY DEF GoTo, TypeOK
  <1>2. \A u \in Threads : Ag(u)' = Ag(u)
    BY DEF Ag
  <1>3. ASSUME NEW a \in Agents, a # Ag(t)
        PROVE  Scheduled(a)'
    <2> SUFFICES ASSUME Leased(a)'
                 PROVE  Ending(a)' \/ Starter(a)'
      BY DEF Scheduled
    <2>1. host'[a] = host[a] /\ Leased(a)
      BY <1>3 DEF Leased
    <2>2. CASE Ending(a)
      <3>1. PICK u \in Threads : HalfStop(u) /\ Ag(u) = a
        BY <2>2 DEF Ending
      <3>2. u # t
        BY <1>3, <3>1
      <3>3. HalfStop(u)' /\ Ag(u)' = a
        BY <1>1, <1>2, <3>1, <3>2 DEF HalfStop
      <3>4. QED
        BY <3>3 DEF Ending
    <2>3. CASE Starter(a)
      <3> DEFINE c == host[a].by
      <3>1. c \in Calls /\ arg[c].agent = a /\ c # t[1]
        BY <1>3, <2>3 DEF Starter, Ag
      <3>2. Request(c) \in Threads \ {t} /\ Job(c) \in Threads \ {t}
        BY <3>1, ThreadParts
      <3>3. QED
        BY <1>1, <2>1, <2>3, <3>1, <3>2 DEF Starter, Arming, Timing
    <2>4. QED
      BY <2>1, <2>2, <2>3 DEF TimerOK, Scheduled
  <1>4. ASSUME NEW u \in Threads, pc'[u] = SecondStart
        PROVE  host'[Ag(u)].by = u[1]
    <2>1. CASE u = t
      BY <1>1, <1>4, <2>1
    <2>2. CASE u # t
      <3>1. pc[u] = SecondStart /\ host[Ag(u)].by = u[1]
        BY <1>1, <1>4, <2>2 DEF TimerOK
      <3>2. Ag(u) \in Agents
        BY <3>1, WorksOnAgent, CallNames DEF OwnLabels
      <3>3. QED
        BY <2>2, <3>1, <3>2
    <2>3. QED
      BY <2>1, <2>2
  <1>5. QED
    BY <1>2, <1>3, <1>4 DEF TimerOK

\* A step of a thread that leaves the host alone keeps the schedule when a
\* request or callback that the schedule rests on goes on to its next label.
LEMMA QuietMove ==
  ASSUME TypeOK, RoleOK, TimerOK, NEW t \in Threads, NEW label,
         pc[t] # "idle", GoTo(t, label), UNCHANGED <<host, arg>>,
         \A b \in Agents \ {Ag(t)} : b \in faulted => b \in faulted',
         label # SecondStart,
         \/ host[Ag(t)].objs = {} \/ Ag(t) \in faulted'
         \/ /\ Ag(t) \in faulted => Ag(t) \in faulted'
            /\ \/ pc[t] \notin HalfLabels \cup {"cacheSet", "arm", "armed", "del", FirstStop}
               \/ pc[t] = "cacheSet" /\ label = "arm"
               \/ pc[t] = "armed" /\ label = "del"
               \/ pc[t] = "del" /\ label = FirstStop
  PROVE  TimerOK'
  <1>1. Ag(t) \in Agents
    BY WorksOnAgent
  <1>2. pc'[t] = label /\ \A u \in Threads \ {t} : pc'[u] = pc[u]
    BY DEF GoTo, TypeOK
  <1>3. \A u \in Threads : pc[u] = SecondStart => host'[Ag(u)].by = u[1]
    BY DEF TimerOK
  <1>4. Scheduled(Ag(t))'
    <2> SUFFICES ASSUME Leased(Ag(t))'
                 PROVE  Ending(Ag(t))' \/ Starter(Ag(t))'
      BY DEF Scheduled
    <2>1. Leased(Ag(t)) /\ Ag(t)' = Ag(t)
      BY DEF Leased, Ag
    <2>2. \/ pc[t] \notin HalfLabels \cup {"cacheSet", "arm", "armed", "del", FirstStop}
          \/ pc[t] = "cacheSet" /\ label = "arm"
          \/ pc[t] = "armed" /\ label = "del"
          \/ pc[t] = "del" /\ label = FirstStop
      BY DEF Leased, Ag
    <2>3. CASE Ending(Ag(t))
      <3>1. PICK u \in Threads : HalfStop(u) /\ Ag(u) = Ag(t)
        BY <2>3 DEF Ending
      <3>2. u # t
        BY <2>2, <3>1, HalfNames, CallNames DEF HalfStop, HalfLabels, OwnLabels
      <3>3. HalfStop(u)' /\ Ag(u)' = Ag(t)'
        BY <1>2, <3>1, <3>2 DEF HalfStop, Ag
      <3>4. QED
        BY <3>3 DEF Ending
    <2>4. CASE Starter(Ag(t))
      <3>1. PICK c \in Calls : c = host[Ag(t)].by
        BY <2>4 DEF Starter
      <3>2. Request(c) \in Threads /\ Job(c) \in Threads
        BY ThreadParts
      <3>3. pc[Request(c)] \in {SecondStart, "cacheSet", "arm"}
              => pc'[Request(c)] \in {SecondStart, "cacheSet", "arm"}
        BY <1>2, <2>2, <3>2, HalfNames, CallNames DEF HalfLabels, OwnLabels
      <3>4. pc[Job(c)] \in {"armed", "del", FirstStop}
              => pc'[Job(c)] \in {"armed", "del", FirstStop}
        BY <1>2, <2>2, <3>2, HalfNames, CallNames DEF HalfLabels, OwnLabels
      <3>5. arg[c].agent = Ag(t) /\ (Arming(c) \/ Timing(c))
        BY <2>4, <3>1 DEF Starter
      <3>6. Arming(c)' \/ Timing(c)'
        BY <3>3, <3>4, <3>5 DEF Arming, Timing
      <3>7. host'[Ag(t)'].by = c /\ arg'[c].agent = Ag(t)'
        BY <2>1, <3>1, <3>5
      <3>8. QED
        BY <3>6, <3>7 DEF Starter
    <2>5. QED
      BY <1>1, <2>1, <2>3, <2>4 DEF TimerOK, Scheduled
  <1>5. QED
    BY <1>3, <1>4, TimerStep

\* The calls to the host: a start that is accepted makes its own request see
\* to the end, a stop is itself the end, and an error is a fault.
LEMMA HostCallTimer ==
  ASSUME ManagerInv, TimerOK, NEW t \in Threads,
         StartCall(t) \/ StartError(t) \/ StopCall(t) \/ StopError(t)
  PROVE  TimerOK'
  <1>0. TypeOK /\ RoleOK /\ HalfOK
    BY DEF ManagerInv
  <1>1. pc[t] \in StartCalls \cup StopCalls /\ Accepts(pc[t], host[Ag(t)].objs)
    BY DEF StartCall, StartError, StopCall, StopError
  <1>2. Ag(t) \in Agents /\ \A u \in Threads \ {t} : pc[u] \in HalfLabels => Ag(u) # Ag(t)
    BY <1>0, <1>1, AcceptedCalls
  <1>3. pc[t] # "idle" /\ \A u \in Threads \ {t} : pc[u] = SecondStart => Ag(u) # Ag(t)
    BY <1>1, <1>2, CallNames DEF HalfLabels, OwnLabels
  <1>4. UNCHANGED arg /\ Ag(t)' = Ag(t)
    BY DEF StartCall, StartError, StopCall, StopError, Ag
  <1>5. \A b \in Agents \ {Ag(t)} : b \in faulted => b \in faulted'
    BY FaultsKept DEF StartCall, StartError, StopCall, StopError
  <1>6. \A b \in Agents \ {Ag(t)} : host'[b] = host[b]
    BY <1>0 DEF StartCall, StartError, StopCall, StopError, TypeOK
  <1>7. CASE StartCall(t)
    <2>1. PICK label \in {SecondStart, "cacheSet"} : GoTo(t, label)
      BY <1>7, CallNames, CallOrder DEF StartCall
    <2>2. t = Request(t[1]) /\ t[1] \in Calls
      BY <1>0, <1>7, ThreadParts, ThreadRole, CallNames DEF StartCall, RoleOK, JobLabels, OwnLabels
    <2>3. host'[Ag(t)] = Started(t)
      BY <1>0, <1>2, <1>7 DEF StartCall, TypeOK
    <2>4. /\ host'[Ag(t)].by = t[1]
          /\ host'[Ag(t)].lease # Infinity => HasTimer(arg[t[1]].ttl)
      BY <2>3 DEF Started, Arg
    <2>5. pc'[Request(t[1])] \in {SecondStart, "cacheSet"}
      BY <1>0, <2>1, <2>2 DEF GoTo, TypeOK
    <2>6. Scheduled(Ag(t))'
      BY <1>4, <2>2, <2>4, <2>5 DEF Scheduled, Leased, Starter, Arming, Ag
    <2>7. QED
      BY <1>0, <1>3, <1>4, <1>5, <1>6, <2>1, <2>4, <2>6, TimerStep
  <1>8. CASE StartError(t)
    <2>1. host'[Ag(t)].objs = {} \/ Ag(t) \in faulted'
      BY <1>8, FaultsKept DEF StartError
    <2>2. Scheduled(Ag(t))'
      BY <1>4, <2>1 DEF Scheduled, Leased
    <2>3. GoTo(t, "recover") /\ "recover" # SecondStart
      BY <1>8, CallNames DEF StartError, OwnLabels
    <2>4. QED
      BY <1>0, <1>3, <1>4, <1>5, <1>6, <2>2, <2>3, TimerStep
  <1>9. CASE StopCall(t)
    <2>1. host'[Ag(t)] = Stopped(t)
      BY <1>0, <1>2, <1>9 DEF StopCall, TypeOK
    <2>2. SecondStart \notin StopCalls \cup {"done", "idle"}
      BY CallNames DEF OwnLabels
    <2>3. CASE pc[t] = FirstStop /\ Following(FirstStop) # "return"
      <3>1. GoTo(t, Following(FirstStop)) /\ Following(FirstStop) \in StopCalls \ {FirstStop}
        BY <1>9, <2>3, CallOrder DEF StopCall
      <3>2. HalfStop(t)'
        BY <1>0, <3>1 DEF GoTo, TypeOK, HalfStop
      <3>3. Scheduled(Ag(t))'
        BY <1>4, <3>2 DEF Scheduled, Ending
      <3>4. QED
        BY <1>0, <1>3, <1>4, <1>5, <1>6, <2>2, <3>1, <3>3, TimerStep
    <2>4. CASE ~(pc[t] = FirstStop /\ Following(FirstStop) # "return")
      <3>1. Stopped(t).objs = {} /\ Following(pc[t]) = "return"
        BY <1>0, <1>1, <1>9, <2>4, AcceptedCalls, CallOrder DEF StopCall
      <3>2. GoTo(t, Return(t)) /\ Return(t) # SecondStart
        BY <1>9, <2>2, <3>1 DEF StopCall, Return
      <3>3. Scheduled(Ag(t))'
        BY <1>4, <2>1, <3>1 DEF Scheduled, Leased
      <3>4. QED
        BY <1>0, <1>3, <1>4, <1>5, <1>6, <3>2, <3>3, TimerStep
    <2>5. QED
      BY <2>3, <2>4
  <1>10. CASE StopError(t)
    <2>1. host'[Ag(t)].objs = {} \/ Ag(t) \in faulted'
      BY <1>10, FaultsKept DEF StopError
    <2>2. Scheduled(Ag(t))'
      BY <1>4, <2>1 DEF Scheduled, Leased
    <2>3. GoTo(t, Return(t)) /\ Return(t) # SecondStart
      BY <1>10, CallNames DEF StopError, Return, OwnLabels
    <2>4. QED
      BY <1>0, <1>3, <1>4, <1>5, <1>6, <2>2, <2>3, TimerStep
  <1>11. QED
    BY <1>7, <1>8, <1>9, <1>10

\* A stop that is refused, perhaps the timer's own: the agent is then half
\* made by somebody else, who either takes it down or started it.
LEMMA StopRefusedTimer ==
  ASSUME ManagerInv, TimerOK, NEW t \in Threads, StopRefused(t)
  PROVE  TimerOK'
  <1>0. TypeOK /\ RoleOK /\ HalfOK
    BY DEF ManagerInv
  <1>1. pc[t] = FirstStop
    BY <1>0, RefusedCalls DEF StopRefused, HalfLabels
  <1>2. GoTo(t, Return(t)) /\ Return(t) # SecondStart /\ pc[t] # "idle"
        /\ UNCHANGED <<host, arg, faulted>>
    BY CallNames DEF StopRefused, Return, OwnLabels
  <1>3. Ag(t) \in Agents /\ Ag(t)' = Ag(t)
    BY <1>0, <1>2, WorksOnAgent DEF Ag
  <1>4. host[Ag(t)].objs # Full
    BY <1>0, <1>1, <1>3, StopCallsWork DEF StopRefused, HalfOK
  <1>5. \A u \in Threads \ {t} : pc'[u] = pc[u]
    BY <1>0, <1>2 DEF GoTo, TypeOK
  <1>6. Scheduled(Ag(t))'
    <2> SUFFICES ASSUME Leased(Ag(t))'
                 PROVE  Ending(Ag(t))' \/ Starter(Ag(t))'
      BY DEF Scheduled
    <2>1. Leased(Ag(t))
      BY <1>2, <1>3 DEF Leased
    <2>2. PICK u \in Threads : pc[u] \in HalfLabels /\ Ag(u) = Ag(t)
      BY <1>0, <1>3, <1>4, <2>1 DEF Leased, HalfOK, Stages
    <2>3. u # t /\ pc'[u] = pc[u] /\ Ag(u)' = Ag(t)'
      BY <1>1, <1>2, <1>5, <2>2, HalfNames DEF Ag
    <2>4. CASE pc[u] # SecondStart
      BY <2>2, <2>3, <2>4 DEF Ending, HalfStop, HalfLabels
    <2>5. CASE pc[u] = SecondStart
      <3>1. host[Ag(t)].by = u[1] /\ u = Request(u[1]) /\ u[1] \in Calls
        BY <1>0, <2>2, <2>5, ThreadParts, ThreadRole, CallNames
        DEF TimerOK, RoleOK, JobLabels, OwnLabels
      <3>2. pc[Job(u[1])] = "idle"
        BY <1>0, <2>5, <3>1, CallNames DEF RoleOK, BeforeArm, SpinUpLabels, OwnLabels
      <3>3. ~Ending(Ag(t))
        BY <1>0, <2>2, <2>5, CallNames DEF Ending, HalfStop, HalfOK, HalfLabels
      <3>4. Starter(Ag(t))
        BY <1>3, <2>1, <3>3 DEF TimerOK, Scheduled
      <3>5. Arming(u[1])
        BY <3>1, <3>2, <3>4, CallNames DEF Starter, Timing, OwnLabels
      <3>6. Arming(u[1])'
        BY <1>2, <2>3, <3>1, <3>5 DEF Arming
      <3>7. QED
        BY <1>2, <1>3, <3>1, <3>4, <3>6 DEF Starter
    <2>6. QED
      BY <2>4, <2>5
  <1>7. \A u \in Threads : pc[u] = SecondStart => host'[Ag(u)].by = u[1]
    BY <1>2 DEF TimerOK
  <1>8. QED
    BY <1>0, <1>2, <1>6, <1>7, TimerStep

---------------------------------------------------------------------------
(* The other steps of a thread. *)

LEMMA QuietStepTimer ==
  ASSUME ManagerInv, TimerOK, NEW t \in Threads,
         \/ StartRefused(t) \/ Recover(t) \/ RecoverSet(t) \/ RecoverGet(t) \/ RecoverConnect(t)
         \/ CacheSet(t) \/ CacheDel(t) \/ CacheError(t) \/ TimerFires(t)
         \/ PingAnswered(t) \/ PingUnanswered(t) \/ CreateConnection(t)
  PROVE  TimerOK'
  <1>0. TypeOK /\ RoleOK /\ HalfOK
    BY DEF ManagerInv
  <1>1. pc[t] # "idle" /\ UNCHANGED <<host, arg>>
    BY CallNames
    DEF StartRefused, Recover, RecoverSet, RecoverGet, RecoverConnect, CacheSet, CacheDel,
        CacheError, TimerFires, PingAnswered, PingUnanswered, CreateConnection, OwnLabels
  <1>2. \A b \in Agents \ {Ag(t)} : b \in faulted => b \in faulted'
    BY FaultsKept
    DEF StartRefused, Recover, RecoverSet, RecoverGet, RecoverConnect, CacheSet, CacheDel,
        CacheError, TimerFires, PingAnswered, PingUnanswered, CreateConnection
  <1>3. OwnLabels \cap {SecondStart} = {} /\ FirstStop # SecondStart
    BY CallNames
  <1>4. CASE CacheError(t)
    <2>1. PICK label \in OwnLabels : GoTo(t, label)
      BY <1>4 DEF CacheError, Return, OwnLabels
    <2>2. CASE pc[t] \in {"cacheSet", "del"}
      <3>1. host[Ag(t)].objs = {} \/ Ag(t) \in faulted'
        BY <1>1, <1>4, <2>2 DEF CacheError, Touched
      <3>2. QED
        BY <1>0, <1>1, <1>2, <1>3, <2>1, <3>1, QuietMove
    <2>3. CASE pc[t] \notin {"cacheSet", "del"}
      <3>1. pc[t] \notin HalfLabels \cup {"cacheSet", "arm", "armed", "del", FirstStop}
        BY <1>4, <2>3, HalfNames, CallNames DEF CacheError, OwnLabels
      <3>2. faulted' = faulted
        BY <1>4, <2>3 DEF CacheError
      <3>3. QED
        BY <1>0, <1>1, <1>2, <1>3, <2>1, <3>1, <3>2, QuietMove
    <2>4. QED
      BY <2>2, <2>3
  <1>5. CASE CacheSet(t)
    BY <1>0, <1>1, <1>2, <1>3, <1>5, QuietMove DEF CacheSet, OwnLabels
  <1>6. CASE CacheDel(t)
    BY <1>0, <1>1, <1>2, <1>3, <1>6, QuietMove DEF CacheDel, OwnLabels
  <1>7. CASE TimerFires(t)
    BY <1>0, <1>1, <1>2, <1>3, <1>7, QuietMove DEF TimerFires, OwnLabels
  <1>8. CASE \/ StartRefused(t) \/ Recover(t) \/ RecoverSet(t) \/ RecoverGet(t)
             \/ RecoverConnect(t) \/ PingAnswered(t) \/ PingUnanswered(t) \/ CreateConnection(t)
    <2>1. PICK label \in OwnLabels : GoTo(t, label)
      BY <1>8
      DEF StartRefused, Recover, RecoverSet, RecoverGet, RecoverConnect, PingAnswered,
          PingUnanswered, CreateConnection, AfterRecovery, OwnLabels
    <2>2. faulted' = faulted
      BY <1>8
      DEF StartRefused, Recover, RecoverSet, RecoverGet, RecoverConnect, PingAnswered,
          PingUnanswered, CreateConnection
    <2>3. pc[t] \in {FirstStart, "recover", "recoverSet", "recoverGet", "recoverConnect",
                     "ping", "connect"}
      BY <1>0, <1>8, RefusedCalls, CallNames
      DEF StartRefused, Recover, RecoverSet, RecoverGet, RecoverConnect, PingAnswered,
          PingUnanswered, CreateConnection, HalfLabels
    <2>4. pc[t] \notin HalfLabels \cup {"cacheSet", "arm", "armed", "del", FirstStop}
      BY <2>3, HalfNames, CallNames DEF OwnLabels
    <2>5. QED
      BY <1>0, <1>1, <1>2, <1>3, <2>1, <2>2, <2>4, QuietMove
  <1>9. QED
    BY <1>4, <1>5, <1>6, <1>7, <1>8

\* The request that armed hands over to the timer it armed.
LEMMA ArmTimer ==
  ASSUME ManagerInv, TimerOK, NEW t \in Threads, SetSpinDownJob(t)
  PROVE  TimerOK'
  <1>0. TypeOK /\ RoleOK /\ HalfOK
    BY DEF ManagerInv
  <1>1. t = Request(t[1]) /\ t[1] \in Calls /\ Job(t[1]) \in Threads /\ t # Job(t[1])
    BY <1>0, ThreadParts, ThreadRole, CallNames DEF SetSpinDownJob, RoleOK, JobLabels, OwnLabels
  <1>2. pc[Job(t[1])] = "idle" /\ pc[t] = "arm"
    BY <1>0, <1>1, CallNames DEF SetSpinDownJob, RoleOK, BeforeArm, SpinUpLabels, OwnLabels
  <1>3. /\ pc'[t] \in {"done", "delay", "failed"}
        /\ pc'[Job(t[1])] \in {"armed", "idle"}
        /\ HasTimer(arg[t[1]].ttl) => pc'[Job(t[1])] = "armed"
        /\ \A u \in Threads \ {t, Job(t[1])} : pc'[u] = pc[u]
    BY <1>0, <1>1, <1>2 DEF SetSpinDownJob, TypeOK, Arg
  <1>4. UNCHANGED <<host, arg, faulted>> /\ \A u \in Threads : Ag(u)' = Ag(u)
    BY DEF SetSpinDownJob, Ag
  <1>5. \A u \in Threads : HalfStop(u) => pc'[u] = pc[u]
    BY <1>2, <1>3, CallNames DEF HalfStop, OwnLabels
  <1>6. \A u \in Threads : pc'[u] = SecondStart => pc[u] = SecondStart
    BY <1>1, <1>3, CallNames DEF OwnLabels
  <1>7. ASSUME NEW a \in Agents
        PROVE  Scheduled(a)'
    <2> SUFFICES ASSUME Leased(a)'
                 PROVE  Ending(a)' \/ Starter(a)'
      BY DEF Scheduled
    <2>1. Ending(a) \/ Starter(a)
      BY <1>4 DEF TimerOK, Scheduled, Leased
    <2>2. CASE Ending(a)
      BY <1>4, <1>5, <2>2 DEF Ending, HalfStop
    <2>3. CASE Starter(a)
      <3>1. PICK c \in Calls : c = host[a].by
        BY <2>3 DEF Starter
      <3>2. CASE c = t[1]
        <4>1. HasTimer(arg[c].ttl)
          BY <1>2, <2>3, <3>1, <3>2, CallNames DEF Starter, Arming, Timing, OwnLabels
        <4>2. Timing(c)'
          BY <1>3, <3>2, <4>1 DEF Timing
        <4>3. QED
          BY <1>4, <2>3, <3>1, <4>2 DEF Starter
      <3>3. CASE c # t[1]
        <4>1. Request(c) \in Threads \ {t, Job(t[1])} /\ Job(c) \in Threads \ {t, Job(t[1])}
          BY <1>1, <3>3, ThreadParts
        <4>2. pc'[Request(c)] = pc[Request(c)] /\ pc'[Job(c)] = pc[Job(c)]
          BY <1>3, <4>1
        <4>3. Arming(c)' \/ Timing(c)'
          BY <1>4, <2>3, <3>1, <4>2 DEF Starter, Arming, Timing
        <4>4. QED
          BY <1>4, <2>3, <3>1, <4>3 DEF Starter
      <3>4. QED
        BY <3>2, <3>3
    <2>4. QED
      BY <2>1, <2>2, <2>3
  <1>8. QED
    BY <1>4, <1>6, <1>7 DEF TimerOK

---------------------------------------------------------------------------
(* Steps that leave the schedule alone. *)

Due == HalfLabels \cup {"cacheSet", "arm", "armed", "del", FirstStop}

LEMMA TimerFrame ==
  ASSUME TypeOK, TimerOK,
         \A a \in Agents : Leased(a)' => Leased(a) /\ host'[a].by = host[a].by,
         \A u \in Threads :
           pc[u] \in Due => /\ pc'[u] = pc[u]
                            /\ arg'[u[1]].agent = arg[u[1]].agent
                            /\ arg'[u[1]].ttl = arg[u[1]].ttl,
         \A u \in Threads :
           pc'[u] = SecondStart => pc[u] = SecondStart /\ host'[Ag(u)].by = host[Ag(u)].by
  PROVE  TimerOK'
  <1>1. ASSUME NEW a \in Agents
        PROVE  Scheduled(a)'
    <2> SUFFICES ASSUME Leased(a)'
                 PROVE  Ending(a)' \/ Starter(a)'
      BY DEF Scheduled
    <2>1. Ending(a) \/ Starter(a)
      BY DEF TimerOK, Scheduled
    <2>2. CASE Ending(a)
      BY <2>2 DEF Ending, HalfStop, Ag, Due, HalfLabels
    <2>3. CASE Starter(a)
      <3>1. PICK c \in Calls : c = host[a].by
        BY <2>3 DEF Starter
      <3>2. arg[c].agent = a /\ (Arming(c) \/ Timing(c)) /\ host'[a].by = c
        BY <2>3, <3>1 DEF Starter
      <3>3. /\ Request(c) \in Threads /\ Request(c)[1] = c
            /\ Job(c) \in Threads /\ Job(c)[1] = c
        BY ThreadParts
      <3>4. CASE Arming(c)
        <4>1. pc[Request(c)] \in Due
          BY <3>4 DEF Arming, Due, HalfLabels
        <4>2. Arming(c)' /\ arg'[c].agent = a
          BY <3>2, <3>3, <3>4, <4>1 DEF Arming
        <4>3. QED
          BY <3>2, <4>2 DEF Starter
      <3>5. CASE Timing(c)
        <4>1. pc[Job(c)] \in Due
          BY <3>5 DEF Timing, Due
        <4>2. Timing(c)' /\ arg'[c].agent = a
          BY <3>2, <3>3, <3>5, <4>1 DEF Timing
        <4>3. QED
          BY <3>2, <4>2 DEF Starter
      <3>6. QED
        BY <3>2, <3>4, <3>5
    <2>4. QED
      BY <2>1, <2>2, <2>3
  <1>2. ASSUME NEW u \in Threads, pc'[u] = SecondStart
        PROVE  host'[Ag(u)'].by = u[1]
    BY <1>2 DEF TimerOK, Ag, Due, HalfLabels
  <1>3. QED
    BY <1>1, <1>2 DEF TimerOK

LEMMA LookupTimer ==
  ASSUME ManagerInv, TimerOK, NEW t \in Threads, Lookup(t)
  PROVE  TimerOK'
  <1>0. TypeOK /\ RoleOK /\ HalfOK
    BY DEF ManagerInv
  <1>1. \A c \in Calls : arg[c] \in ArgType =>
          arg'[c].agent = arg[c].agent /\ arg'[c].ttl = arg[c].ttl
    BY <1>0 DEF Lookup, TypeOK, ArgType
  <1>2. pc[t] \notin Due /\ pc'[t] # SecondStart /\ \A u \in Threads \ {t} : pc'[u] = pc[u]
    BY <1>0, HalfNames, CallNames DEF Lookup, GoTo, TypeOK, Due, OwnLabels
  <1>3. UNCHANGED <<host, faulted>>
    BY DEF Lookup
  <1>4. \A u \in Threads : pc[u] \in Due => u[1] \in Calls /\ arg[u[1]] \in ArgType
    BY <1>0, ThreadParts, HalfNames, CallNames DEF TypeOK, Arg, Due, OwnLabels
  <1>5. QED
    BY <1>0, <1>1, <1>2, <1>3, <1>4, TimerFrame DEF Leased

LEMMA RequestTimer ==
  ASSUME ManagerInv, TimerOK, NEW c \in Calls, SpinUp(c) \/ SpinDown(c) \/ Connect(c)
  PROVE  TimerOK'
  <1>0. TypeOK /\ RoleOK /\ HalfOK
    BY DEF ManagerInv
  <1>1. \E op, r, label : Issue(c, op, r, label) /\ label # SecondStart
    <2>1. FirstStart # SecondStart /\ "del" # SecondStart /\ "lookup" # SecondStart
      BY CallNames DEF OwnLabels
    <2>2. SpinUp(c) => \E r : Issue(c, "spinUp", r, FirstStart)
      BY DEF SpinUp
    <2>3. SpinDown(c) => \E r : Issue(c, "spinDown", r, "del")
      BY DEF SpinDown
    <2>4. Connect(c) => \E r : Issue(c, "connect", r, "lookup")
      BY DEF Connect
    <2>5. QED
      BY <2>1, <2>2, <2>3, <2>4
  <1> PICK op, r, label : Issue(c, op, r, label) /\ label # SecondStart
    BY <1>1
  <1>2. Request(c) \in Threads /\ Job(c) \in Threads
    BY ThreadParts
  <1>3. pc[Request(c)] \notin Due /\ pc[Job(c)] \notin Due
    BY HalfNames, CallNames DEF Issue, Quiet, Answered, Due, OwnLabels
  <1>4. pc'[Request(c)] = label /\ \A u \in Threads \ {Request(c)} : pc'[u] = pc[u]
    BY <1>0, <1>2 DEF Issue, GoTo, TypeOK
  <1>5. \A u \in Threads : u[1] = c => u = Request(c) \/ u = Job(c)
    BY ThreadParts DEF Request, Job
  <1>6. \A u \in Threads : pc[u] \in Due => arg'[u[1]] = arg[u[1]]
    BY <1>0, <1>3, <1>5, ThreadParts DEF Issue, TypeOK
  <1>7. UNCHANGED <<host, faulted>>
    BY DEF Issue
  <1>8. QED
    BY <1>0, <1>3, <1>4, <1>6, <1>7, TimerFrame DEF Leased

LEMMA EnvironmentTimer ==
  ASSUME ManagerInv, TimerOK,
         (\E a \in Agents : AgentBoots(a) \/ AgentExits(a)) \/ Crash \/ Tick
  PROVE  TimerOK'
  <1>0. TypeOK /\ RoleOK /\ HalfOK
    BY DEF ManagerInv
  <1>1. CASE \E a \in Agents : AgentBoots(a)
    <2>1. \A b \in Agents : /\ host'[b].objs = host[b].objs /\ host'[b].lease = host[b].lease
                            /\ host'[b].by = host[b].by
      BY <1>0, <1>1 DEF AgentBoots, TypeOK, HostType
    <2>2. UNCHANGED <<pc, arg, faulted>>
      BY <1>1 DEF AgentBoots
    <2>3. \A u \in Threads : pc[u] = SecondStart => Ag(u) \in Agents
      BY <1>0, WorksOnAgent, CallNames DEF OwnLabels
    <2>4. QED
      BY <1>0, <2>1, <2>2, <2>3, TimerFrame DEF Leased
  <1>2. CASE \E a \in Agents : AgentExits(a)
    <2>1. PICK a \in Agents : AgentExits(a)
      BY <1>2
    <2>2. \A b \in Agents \ {a} : host'[b] = host[b] /\ (b \in faulted => b \in faulted')
      BY <1>0, <2>1 DEF AgentExits, TypeOK, Untouched
    <2>3. host[a].objs = Full /\ host[a] \in HostType
      BY <1>0, <2>1 DEF AgentExits, TypeOK
    <2>4. host'[a] = Gone \/ host'[a] = [host[a] EXCEPT !.ready = FALSE]
      BY <1>0, <2>1 DEF AgentExits, TypeOK
    <2>5. Leased(a)' => Leased(a) /\ host'[a].by = host[a].by
      <3>1. CASE host'[a] = Gone
        BY <3>1 DEF Leased, Gone
      <3>2. CASE host'[a] = [host[a] EXCEPT !.ready = FALSE]
        <4>1. /\ host'[a].objs = host[a].objs /\ host'[a].lease = host[a].lease
              /\ host'[a].by = host[a].by
          BY <2>3, <3>2 DEF HostType
        <4>2. host'[a].objs # {} => faulted' = faulted
          BY <2>1 DEF AgentExits, Untouched
        <4>3. QED
          BY <4>1, <4>2 DEF Leased
      <3>3. QED
        BY <2>4, <3>1, <3>2
    <2>6. \A u \in Threads : pc[u] = SecondStart => Ag(u) \in Agents \ {a}
      BY <1>0, <2>3, WorksOnAgent, StagesDiffer, CallNames DEF HalfOK, HalfLabels, OwnLabels
    <2>7. UNCHANGED <<pc, arg>>
      BY <2>1 DEF AgentExits
    <2>8. QED
      BY <1>0, <2>2, <2>5, <2>6, <2>7, TimerFrame DEF Leased
  <1>3. CASE Crash
    <2>1. \A a \in Agents : ~Leased(a)'
      BY <1>3 DEF Crash, Leased
    <2>2. \A u \in Threads : pc'[u] # SecondStart
      BY <1>3, CallNames DEF Crash, Answered, OwnLabels
    <2>3. QED
      BY <2>1, <2>2 DEF TimerOK, Scheduled
  <1>4. CASE Tick
    <2>1. \A b \in Agents : /\ host'[b].objs = host[b].objs
                            /\ host'[b].lease = Elapse(host[b].lease)
                            /\ host'[b].by = host[b].by
      BY <1>0, <1>4 DEF Tick, TypeOK, HostType
    <2>2. \A b \in Agents : host'[b].lease # Infinity => host[b].lease # Infinity
      BY <2>1 DEF Elapse
    <2>3. UNCHANGED <<arg, faulted>>
      BY <1>4 DEF Tick
    <2>4. "delay" \notin Due /\ "ping" # SecondStart
      BY HalfNames, CallNames DEF Due, OwnLabels
    <2>5. \A u \in Threads : /\ pc[u] \in Due => pc'[u] = pc[u]
                             /\ pc'[u] = SecondStart => pc[u] = SecondStart
      BY <1>4, <2>4 DEF Tick
    <2>6. \A u \in Threads : pc[u] = SecondStart => Ag(u) \in Agents
      BY <1>0, WorksOnAgent, CallNames DEF OwnLabels
    <2>7. \A a \in Agents : Leased(a)' => Leased(a) /\ host'[a].by = host[a].by
      BY <2>1, <2>2, <2>3 DEF Leased
    <2>8. \A u \in Threads :
            pc'[u] = SecondStart => pc[u] = SecondStart /\ host'[Ag(u)].by = host[Ag(u)].by
      BY <2>1, <2>5, <2>6
    <2>9. QED
      BY <1>0, <2>3, <2>5, <2>7, <2>8, TimerFrame
  <1>5. QED
    BY <1>1, <1>2, <1>3, <1>4

LEMMA TimerNext == ManagerInv /\ TimerOK /\ [Next]_vars => TimerOK'
  <1> SUFFICES ASSUME ManagerInv, TimerOK, [Next]_vars
               PROVE  TimerOK'
    OBVIOUS
  <1>1. ASSUME NEW c \in Calls, SpinUp(c) \/ SpinDown(c) \/ Connect(c)
        PROVE  TimerOK'
    BY <1>1, RequestTimer
  <1>2. ASSUME NEW t \in Threads, Step(t)
        PROVE  TimerOK'
    BY <1>2, HostCallTimer, StopRefusedTimer, QuietStepTimer, ArmTimer, LookupTimer DEF Step
  <1>3. CASE (\E a \in Agents : AgentBoots(a) \/ AgentExits(a)) \/ Crash \/ Tick
    BY <1>3, EnvironmentTimer
  <1>4. CASE UNCHANGED vars
    BY <1>4 DEF vars, TimerOK, Scheduled, Leased, Ending, Starter, Arming, Timing, HalfStop, Ag
  <1>5. QED
    BY <1>1, <1>2, <1>3, <1>4 DEF Next

\* No request, refused, repeated, recovered or overlapping, makes the manager
\* forget an agent with a ttl: the request that started it arms a timer, or
\* its timer waits or runs, or another request takes the agent down.
THEOREM ExpiryStaysScheduled == Spec => []ExpiryIsScheduled
  <1>1. Init => ManagerInv /\ TimerOK
    BY InitType, InitParts, TimerInit DEF ManagerInv
  <1>2. ManagerInv /\ TimerOK /\ [Next]_vars => ManagerInv' /\ TimerOK'
    BY NextType, RoleStep, HalfStep, TimerNext DEF ManagerInv
  <1>3. QED
    BY <1>1, <1>2, TimerImplies, PTL DEF Spec
=============================================================================
