---------------------- MODULE AgentManagerTimely_proofs ----------------------
(***************************************************************************)
(* The clocks of AgentManager: the timer of an agent against its ttl, and  *)
(* the lifetime of its cache entry against the timers.                     *)
(***************************************************************************)
EXTENDS AgentManagerExpiry_proofs

\* An agent that is up and that no fault has touched.
Running(a) == host[a].objs = Full /\ a \notin faulted

\* A step of thread t that leaves the host, the cache and what the requests
\* and timers of all slots count on alone.
Moves(t, label) ==
  /\ pc[t] # "idle"
  /\ GoTo(t, label)
  /\ UNCHANGED host
  /\ \A c \in Calls : arg'[c].agent = arg[c].agent /\ arg'[c].ttl = arg[c].ttl
  /\ \A c \in Calls : left'[Job(c)] = left[Job(c)]
  /\ \A a \in Agents : Running(a)' => Running(a)

LEMMA MoveIs ==
  ASSUME TypeOK, NEW t \in Threads, NEW label, GoTo(t, label)
  PROVE  pc'[t] = label /\ \A u \in Threads \ {t} : pc'[u] = pc[u]
  BY DEF GoTo, TypeOK

---------------------------------------------------------------------------
(* The steps, by what they do to the clocks. *)

\* The steps of a thread that only move it.
LEMMA QuietSteps ==
  ASSUME ManagerInv, NEW t \in Threads,
         \/ StartRefused(t) \/ StopRefused(t)
         \/ Recover(t) \/ RecoverGet(t) \/ RecoverConnect(t) \/ CacheError(t)
         \/ TimerFires(t) \/ Lookup(t)
         \/ PingAnswered(t) \/ PingUnanswered(t) \/ CreateConnection(t)
  PROVE  /\ UNCHANGED <<cache, upset>>
         /\ \E label :
              /\ Moves(t, label)
              /\ label # "arm"
              /\ \/ ~Running(Ag(t))'
                 \/ pc[t] \notin {"cacheSet", "arm", "armed", "del", FirstStop}
                 \/ pc[t] = "armed" /\ left[t] = 0 /\ label = "del"
  <1>0. TypeOK /\ RoleOK /\ HalfOK
    BY DEF ManagerInv
  <1>1. Ag(t) \in Agents /\ UNCHANGED <<host, cache, upset>> /\ pc[t] # "idle"
    <2>1. pc[t] # "idle"
      BY CallNames DEF StartRefused, StopRefused, Recover, RecoverGet, RecoverConnect, CacheError,
         TimerFires, Lookup, PingAnswered, PingUnanswered, CreateConnection, OwnLabels
    <2>2. UNCHANGED <<host, cache, upset>>
      BY DEF StartRefused, StopRefused, Recover, RecoverGet, RecoverConnect, CacheError,
         TimerFires, Lookup, PingAnswered, PingUnanswered, CreateConnection
    <2>3. QED
      BY <1>0, <2>1, <2>2, WorksOnAgent
  <1>2. \A a \in Agents : Running(a)' => Running(a)
    BY <1>0, <1>1, FaultsKept, StagesDiffer
    DEF Running, Touched, StartRefused, StopRefused, Recover, RecoverGet, RecoverConnect, CacheError,
        TimerFires, Lookup, PingAnswered, PingUnanswered, CreateConnection
  <1>3. \A c \in Calls : arg'[c].agent = arg[c].agent /\ arg'[c].ttl = arg[c].ttl
    <2>1. CASE Lookup(t)
      <3>1. t[1] \in Calls /\ arg[t[1]] \in ArgType
        BY <1>0, <1>1, ThreadParts DEF TypeOK, Arg
      <3>2. \A c \in Calls : c # t[1] => arg'[c] = arg[c]
        BY <1>0, <2>1 DEF Lookup, TypeOK
      <3>3. /\ arg'[t[1]].agent = arg[t[1]].agent
            /\ arg'[t[1]].ttl = arg[t[1]].ttl
        BY <1>0, <2>1, <3>1 DEF Lookup, TypeOK, ArgType
      <3>4. QED
        BY <3>2, <3>3
    <2>2. CASE ~Lookup(t)
      BY <2>2 DEF StartRefused, StopRefused, Recover, RecoverGet, RecoverConnect, CacheError,
                  TimerFires, PingAnswered, PingUnanswered, CreateConnection
    <2>3. QED
      BY <2>1, <2>2
  <1>4. \A c \in Calls : left'[Job(c)] = left[Job(c)]
    <2>1. CASE Lookup(t) \/ PingAnswered(t)
      <3>1. \A c \in Calls : t # Job(c)
        BY <1>0, <2>1, CallNames DEF RoleOK, JobLabels, OwnLabels, Lookup, PingAnswered
      <3>2. QED
        BY <1>0, <2>1, <3>1, ThreadParts DEF Lookup, PingAnswered, TypeOK
    <2>2. CASE ~(Lookup(t) \/ PingAnswered(t))
      BY <2>2 DEF StartRefused, StopRefused, Recover, RecoverGet, RecoverConnect, CacheError,
                  TimerFires, PingUnanswered, CreateConnection
    <2>3. QED
      BY <2>1, <2>2
  <1>5. \E label :
          /\ GoTo(t, label)
          /\ label # "arm"
          /\ \/ ~Running(Ag(t))'
             \/ pc[t] \notin {"cacheSet", "arm", "armed", "del", FirstStop}
             \/ pc[t] = "armed" /\ left[t] = 0 /\ label = "del"
    <2>1. CASE StopRefused(t)
      <3>1. pc[t] \in StopCalls /\ ~Accepts(pc[t], host[Ag(t)].objs) /\ GoTo(t, Return(t))
        BY <2>1 DEF StopRefused
      <3>2. pc[t] = FirstStop => host[Ag(t)].objs # Full
        BY <1>0, <1>1, <3>1, StopCallsWork DEF HalfOK
      <3>3. pc[t] \notin {"cacheSet", "arm", "armed", "del"} /\ Return(t) # "arm"
        BY <3>1, CallNames DEF OwnLabels, Return
      <3>4. ~Running(Ag(t))' \/ pc[t] # FirstStop
        <4>1. Ag(t)' = Ag(t)
          BY <2>1 DEF StopRefused, Ag
        <4>2. QED
          BY <1>1, <3>2, <4>1 DEF Running
      <3>5. QED
        BY <3>1, <3>3, <3>4
    <2>2. CASE CacheError(t)
      <3>1. pc[t] \in {"cacheSet", "del"} => ~Running(Ag(t))'
        <4>1. CASE pc[t] \in {"cacheSet", "del"}
          <5>1. Touched(Ag(t))
            BY <2>2, <4>1 DEF CacheError
          <5>2. Ag(t)' = Ag(t)
            BY <2>2 DEF CacheError, Ag
          <5>3. QED
            BY <1>1, <5>1, <5>2, StagesDiffer DEF Touched, Running
        <4>2. QED
          BY <4>1
      <3>2. pc[t] \notin {"arm", "armed", FirstStop}
        BY <2>2, CallNames DEF CacheError, OwnLabels
      <3>3. PICK label \in {"done", "idle", "failed"} : GoTo(t, label)
        BY <2>2 DEF CacheError, Return
      <3>4. QED
        BY <3>1, <3>2, <3>3
    <2>3. CASE TimerFires(t)
      BY <2>3 DEF TimerFires
    <2>4. CASE StartRefused(t)
      BY <2>4, CallNames DEF StartRefused, OwnLabels
    <2>5. CASE \/ Recover(t) \/ RecoverGet(t) \/ RecoverConnect(t) \/ Lookup(t)
               \/ PingAnswered(t) \/ PingUnanswered(t) \/ CreateConnection(t)
      <3>1. pc[t] \notin {"cacheSet", "arm", "armed", "del", FirstStop}
        BY <2>5, CallNames DEF OwnLabels, Recover, RecoverGet, RecoverConnect, Lookup,
           PingAnswered, PingUnanswered, CreateConnection
      <3>2. \E label : GoTo(t, label) /\ label # "arm"
        BY <2>5 DEF Recover, RecoverGet, RecoverConnect, Lookup, AfterRecovery,
           PingAnswered, PingUnanswered, CreateConnection
      <3>3. QED
        BY <3>1, <3>2
    <2>6. QED
      BY <2>1, <2>2, <2>3, <2>4, <2>5
  <1>6. PICK label :
          /\ GoTo(t, label)
          /\ label # "arm"
          /\ \/ ~Running(Ag(t))'
             \/ pc[t] \notin {"cacheSet", "arm", "armed", "del", FirstStop}
             \/ pc[t] = "armed" /\ left[t] = 0 /\ label = "del"
    BY <1>5
  <1>7. Moves(t, label)
    BY <1>1, <1>2, <1>3, <1>4, <1>6 DEF Moves
  <1>8. QED
    BY <1>1, <1>6, <1>7

\* After a call to the host its agent is not up, or is a start's, which is
\* about to write the entry, or a fault has touched it.
LEMMA HostSteps ==
  ASSUME ManagerInv, NEW t \in Threads,
         StartCall(t) \/ StartError(t) \/ StopCall(t) \/ StopError(t)
  PROVE  /\ UNCHANGED <<cache, left, arg, upset>>
         /\ Ag(t) \in Agents
         /\ \A u \in Threads \ {t} : pc'[u] = pc[u]
         /\ \A a \in Agents \ {Ag(t)} : host'[a] = host[a] /\ (Running(a)' => Running(a))
         /\ pc'[t] \notin {"arm", "armed"}
         /\ pc[t] \notin {"arm", "armed"}
         /\ Running(Ag(t))' =>
              /\ t = Request(t[1]) /\ t[1] \in Calls
              /\ pc'[t] = "cacheSet"
              /\ host'[Ag(t)].by = t[1]
              /\ host'[Ag(t)].lease = IF HasTimer(Arg(t).ttl) THEN Arg(t).ttl ELSE Infinity
  <1>0. TypeOK /\ RoleOK /\ HalfOK
    BY DEF ManagerInv
  <1>1. pc[t] \in StartCalls \cup StopCalls /\ Accepts(pc[t], host[Ag(t)].objs)
    BY DEF StartCall, StartError, StopCall, StopError
  <1>2. Ag(t) \in Agents
    BY <1>0, <1>1, AcceptedCalls
  <1>3. UNCHANGED <<cache, left, arg, upset>> /\ Ag(t)' = Ag(t)
    BY DEF StartCall, StartError, StopCall, StopError, Ag
  <1>4. PICK label : GoTo(t, label)
    BY DEF StartCall, StartError, StopCall, StopError
  <1>5. pc'[t] = label /\ \A u \in Threads \ {t} : pc'[u] = pc[u]
    BY <1>0, <1>4, MoveIs
  <1>6. \A a \in Agents \ {Ag(t)} : host'[a] = host[a] /\ (Running(a)' => Running(a))
    <2>1. \A a \in Agents \ {Ag(t)} : host'[a] = host[a]
      BY <1>0 DEF StartCall, StartError, StopCall, StopError, TypeOK
    <2>2. \A a \in Agents \ {Ag(t)} : a \in faulted => a \in faulted'
      BY FaultsKept DEF StartCall, StartError, StopCall, StopError
    <2>3. QED
      BY <2>1, <2>2 DEF Running
  <1>7. pc[t] \notin {"arm", "armed"}
    BY <1>1, CallNames DEF OwnLabels
  <1>8. CASE StartCall(t)
    <2>1. pc[t] \in StartCalls /\ host'[Ag(t)] = Started(t)
      BY <1>0, <1>2, <1>8 DEF StartCall, TypeOK
    <2>2. t = Request(t[1]) /\ t[1] \in Calls
      BY <1>0, <2>1, ThreadParts, ThreadRole, CallNames DEF RoleOK, JobLabels, OwnLabels
    <2>3. CASE pc[t] = FirstStart
      <3>1. Started(t).objs = Half
        BY <1>0, <1>1, <2>3, AcceptedCalls
      <3>2. GoTo(t, SecondStart)
        BY <1>8, <2>3, CallOrder, CallNames DEF StartCall, OwnLabels
      <3>3. pc'[t] = SecondStart /\ SecondStart \notin {"arm", "armed"}
        BY <1>0, <3>2, MoveIs, CallNames DEF OwnLabels
      <3>4. ~Running(Ag(t))'
        BY <1>3, <2>1, <3>1, StagesDiffer DEF Running
      <3>5. QED
        BY <1>2, <1>3, <1>5, <1>6, <1>7, <3>3, <3>4
    <2>4. CASE pc[t] = SecondStart
      <3>1. GoTo(t, "cacheSet")
        BY <1>8, <2>4, CallOrder DEF StartCall
      <3>2. pc'[t] = "cacheSet"
        BY <1>0, <3>1, MoveIs
      <3>3. /\ host'[Ag(t)].by = t[1]
            /\ host'[Ag(t)].lease = IF HasTimer(Arg(t).ttl) THEN Arg(t).ttl ELSE Infinity
        BY <2>1 DEF Started
      <3>4. QED
        BY <1>2, <1>3, <1>5, <1>6, <1>7, <2>2, <3>2, <3>3
    <2>5. QED
      BY <2>1, <2>3, <2>4, CallNames
  <1>9. CASE StartError(t) \/ StopError(t)
    <2>1. host'[Ag(t)].objs = {} \/ Ag(t) \in faulted'
      BY <1>9, FaultsKept DEF StartError, StopError
    <2>2. ~Running(Ag(t))'
      BY <1>3, <2>1, StagesDiffer DEF Running
    <2>3. GoTo(t, "recover") \/ GoTo(t, "done") \/ GoTo(t, "idle")
      BY <1>9 DEF StartError, StopError, Return
    <2>4. pc'[t] \notin {"arm", "armed"}
      BY <1>0, <2>3, MoveIs
    <2>5. QED
      BY <1>2, <1>3, <1>5, <1>6, <1>7, <2>2, <2>4
  <1>10. CASE StopCall(t)
    <2>1. host'[Ag(t)] = Stopped(t) /\ pc[t] \in StopCalls
      BY <1>0, <1>2, <1>10 DEF StopCall, TypeOK
    <2>2. Stopped(t).objs # Full
      BY <1>0, <1>1, <2>1, AcceptedCalls, StagesDiffer
    <2>3. ~Running(Ag(t))'
      BY <1>3, <2>1, <2>2 DEF Running
    <2>4. \E l \in {"done", "idle"} \cup StopCalls : GoTo(t, l)
      BY <1>10, <2>1, CallOrder DEF StopCall, Return
    <2>5. pc'[t] \notin {"arm", "armed"}
      BY <1>0, <2>4, MoveIs, CallNames DEF OwnLabels
    <2>6. QED
      BY <1>2, <1>3, <1>5, <1>6, <1>7, <2>3, <2>5
  <1>11. QED
    BY <1>8, <1>9, <1>10

\* The steps that read and write the entry of the thread's agent.
LEMMA CacheSteps ==
  ASSUME ManagerInv, NEW t \in Threads,
         RecoverSet(t) \/ CacheSet(t) \/ CacheDel(t)
  PROVE  /\ Ag(t) \in Agents
         /\ \A a \in Agents \ {Ag(t)} : cache'[a] = cache[a]
         /\ RecoverSet(t) => Moves(t, "recoverGet") /\ pc[t] = "recoverSet"
         /\ CacheSet(t)   => Moves(t, "arm") /\ pc[t] = "cacheSet"
         /\ CacheDel(t)   => Moves(t, FirstStop) /\ pc[t] = "del"
         /\ ~CacheDel(t)  => Arg(t).ttl \in Ttls /\ cache'[Ag(t)] = Entry(t)
         /\ CacheDel(t)   => cache'[Ag(t)] = None /\ UNCHANGED upset
         /\ ~CacheDel(t)  => /\ Ag(t) \in upset' <=> ~Suits(t)
                             /\ \A a \in Agents \ {Ag(t)} : a \in upset' <=> a \in upset
  <1>0. TypeOK
    BY DEF ManagerInv
  <1>1. UNCHANGED <<host, left, arg, faulted>> /\ pc[t] \in {"recoverSet", "cacheSet", "del"}
    BY DEF RecoverSet, CacheSet, CacheDel
  <1>2. Ag(t) \in Agents
    BY <1>0, <1>1, WorksOnAgent
  <1>3. \A a \in Agents \ {Ag(t)} : cache'[a] = cache[a]
    BY <1>0 DEF RecoverSet, CacheSet, CacheDel, SetAgentCache, TypeOK
  <1>4. \A label : GoTo(t, label) => Moves(t, label)
    BY <1>1 DEF Moves, Running
  <1>5. ~CacheDel(t) => Arg(t).ttl \in Ttls /\ cache'[Ag(t)] = Entry(t)
    BY <1>0, <1>2 DEF RecoverSet, CacheSet, SetAgentCache, TypeOK, SpinUpLabels
  <1>6. CacheDel(t) => cache'[Ag(t)] = None /\ UNCHANGED upset
    BY <1>0, <1>2 DEF CacheDel, TypeOK
  <1>7. ~CacheDel(t) => /\ Ag(t) \in upset' <=> ~Suits(t)
                        /\ \A a \in Agents \ {Ag(t)} : a \in upset' <=> a \in upset
    BY DEF RecoverSet, CacheSet, SetAgentCache
  <1>8. QED
    BY <1>2, <1>3, <1>4, <1>5, <1>6, <1>7 DEF RecoverSet, CacheSet, CacheDel

\* The request that arms hands over to its timer.
LEMMA ArmSteps ==
  ASSUME ManagerInv, NEW t \in Threads, SetSpinDownJob(t)
  PROVE  /\ t = Request(t[1]) /\ t[1] \in Calls /\ pc[t] = "arm" /\ Arg(t).ttl \in Ttls
         /\ UNCHANGED <<host, cache, arg, faulted, upset>>
         /\ pc[Job(t[1])] = "idle"
         /\ pc'[t] \in {"done", "delay", "failed"}
         /\ IF HasTimer(Arg(t).ttl)
            THEN pc'[Job(t[1])] = "armed" /\ left'[Job(t[1])] = TimerDelay(Arg(t).ttl)
            ELSE pc'[Job(t[1])] = "idle"
         /\ \A c \in Calls \ {t[1]} :
              /\ pc'[Request(c)] = pc[Request(c)]
              /\ pc'[Job(c)] = pc[Job(c)]
              /\ left'[Job(c)] = left[Job(c)]
  <1>0. TypeOK /\ RoleOK
    BY DEF ManagerInv
  <1>1. t = Request(t[1]) /\ t[1] \in Calls /\ Job(t[1]) \in Threads /\ t # Job(t[1])
    BY <1>0, ThreadParts, ThreadRole, CallNames DEF SetSpinDownJob, RoleOK, JobLabels, OwnLabels
  <1>2. pc[t] = "arm" /\ UNCHANGED <<host, cache, arg, faulted, upset>> /\ Arg(t).ttl \in Ttls
    BY <1>0 DEF SetSpinDownJob, TypeOK, SpinUpLabels
  <1>3. pc[Job(t[1])] = "idle"
    BY <1>0, <1>1, <1>2 DEF RoleOK, BeforeArm, SpinUpLabels
  <1>4. /\ pc'[t] \in {"done", "delay", "failed"}
        /\ IF HasTimer(Arg(t).ttl)
           THEN pc'[Job(t[1])] = "armed" /\ left'[Job(t[1])] = TimerDelay(Arg(t).ttl)
           ELSE pc'[Job(t[1])] = "idle"
    BY <1>0, <1>1, <1>3 DEF SetSpinDownJob, TypeOK
  <1>5. \A u \in Threads \ {t, Job(t[1])} : pc'[u] = pc[u] /\ left'[u] = left[u]
    BY <1>0, <1>1 DEF SetSpinDownJob, TypeOK
  <1>6. \A c \in Calls \ {t[1]} : /\ Request(c) \in Threads \ {t, Job(t[1])}
                                  /\ Job(c) \in Threads \ {t, Job(t[1])}
    BY <1>1, ThreadParts
  <1>7. QED
    BY <1>1, <1>2, <1>3, <1>4, <1>5, <1>6

\* A slot that takes a new request has nothing under way.
LEMMA RequestSteps ==
  ASSUME ManagerInv, NEW c \in Calls, SpinUp(c) \/ SpinDown(c) \/ Connect(c)
  PROVE  /\ UNCHANGED <<host, cache, left, faulted, upset>>
         /\ pc[Request(c)] \in Quiet /\ pc[Job(c)] = "idle"
         /\ \A u \in Threads \ {Request(c)} : pc'[u] = pc[u]
         /\ pc'[Request(c)] # "arm"
         /\ \A d \in Calls \ {c} : arg'[d] = arg[d]
  <1>0. TypeOK
    BY DEF ManagerInv
  <1>1. \E op, r, label : Issue(c, op, r, label) /\ label # "arm"
    <2>1. FirstStart # "arm"
      BY CallNames DEF OwnLabels
    <2>2. SpinUp(c) => \E r : Issue(c, "spinUp", r, FirstStart)
      BY DEF SpinUp
    <2>3. SpinDown(c) => \E r : Issue(c, "spinDown", r, "del")
      BY DEF SpinDown
    <2>4. Connect(c) => \E r : Issue(c, "connect", r, "lookup")
      BY DEF Connect
    <2>5. QED
      BY <2>1, <2>2, <2>3, <2>4
  <1> PICK op, r, label : Issue(c, op, r, label) /\ label # "arm"
    BY <1>1
  <1>2. Request(c) \in Threads
    BY ThreadParts
  <1>3. QED
    BY <1>0, <1>2 DEF Issue, GoTo, TypeOK

\* What the environment does to what runs and to the clocks.
LEMMA LifeSteps ==
  ASSUME ManagerInv, NEW a \in Agents, AgentBoots(a) \/ AgentExits(a)
  PROVE  /\ UNCHANGED <<cache, pc, left, arg, upset>>
         /\ \A b \in Agents : Running(b)' =>
              /\ Running(b)
              /\ host'[b].lease = host[b].lease /\ host'[b].by = host[b].by
              /\ host'[b].key = host[b].key /\ host'[b].port = host[b].port
  <1>0. TypeOK
    BY DEF ManagerInv
  <1>1. UNCHANGED <<cache, pc, left, arg, upset>>
    BY DEF AgentBoots, AgentExits
  <1>2. \A b \in Agents \ {a} : host'[b] = host[b] /\ (b \in faulted => b \in faulted')
    BY <1>0 DEF AgentBoots, AgentExits, TypeOK, Untouched
  <1>3. host[a] \in HostType /\ host[a].objs = Full
    BY <1>0 DEF AgentBoots, AgentExits, TypeOK
  <1>4. \/ host'[a] = Gone
        \/ host'[a] = [host[a] EXCEPT !.ready = FALSE]
        \/ host'[a] = [host[a] EXCEPT !.ready = TRUE]
    BY <1>0 DEF AgentBoots, AgentExits, TypeOK
  <1>5. Running(a)' => a \notin faulted
    BY StagesDiffer DEF Running, AgentBoots, AgentExits, Untouched
  <1>6. Running(a)' => /\ host'[a].lease = host[a].lease /\ host'[a].by = host[a].by
                       /\ host'[a].key = host[a].key /\ host'[a].port = host[a].port
    BY <1>3, <1>4, StagesDiffer DEF Running, Gone, HostType
  <1>7. QED
    BY <1>1, <1>2, <1>3, <1>5, <1>6 DEF Running

---------------------------------------------------------------------------
(* The timer of the request that started an agent. *)

\* A delay that setTimeout can wait for.
TimersInRange == \A ttl \in Ttls : HasTimer(ttl) => ttl <= MaxTimeout

\* The slot that started the agent still holds its whole lease, on the way to
\* the timer or in the timer, or the lease is over.
Watches(c, a) ==
  /\ arg[c].agent = a
  /\ \/ /\ pc[Request(c)] \in {"cacheSet", "arm"}
        /\ HasTimer(arg[c].ttl) /\ host[a].lease <= arg[c].ttl
     \/ pc[Job(c)] = "armed" /\ host[a].lease <= left[Job(c)]
     \/ pc[Job(c)] \in {"del", FirstStop} /\ host[a].lease = 0

Watched(a) == \E c \in Calls : c = host[a].by /\ Watches(c, a)

PunctualOK == \A a \in Agents : Running(a) /\ host[a].lease # Infinity => Watched(a)

LEMMA LeaseType ==
  ASSUME TypeOK, NEW a \in Agents, host[a].lease # Infinity
  PROVE  host[a].lease \in Nat
  BY DEF TypeOK, HostType, Time

LEMMA MovesPunctual ==
  ASSUME TypeOK, PunctualOK, NEW t \in Threads, NEW label, Moves(t, label),
         \/ ~Running(Ag(t))'
         \/ pc[t] \notin {"cacheSet", "arm", "armed", "del", FirstStop}
         \/ pc[t] = "armed" /\ left[t] = 0 /\ label = "del"
         \/ pc[t] = "cacheSet" /\ label = "arm"
         \/ pc[t] = "del" /\ label = FirstStop
  PROVE  PunctualOK'
  <1> SUFFICES ASSUME NEW a \in Agents, Running(a)', host'[a].lease # Infinity
               PROVE  Watched(a)'
    BY DEF PunctualOK
  <1>1. Running(a) /\ host' = host
    BY DEF Moves
  <1>2. PICK c \in Calls : c = host[a].by /\ Watches(c, a)
    BY <1>1 DEF PunctualOK, Watched
  <1>3. /\ Request(c) \in Threads /\ Request(c)[1] = c
        /\ Job(c) \in Threads /\ Job(c)[1] = c /\ Request(c) # Job(c)
    BY ThreadParts DEF Request, Job
  <1>4. pc'[t] = label /\ \A u \in Threads \ {t} : pc'[u] = pc[u]
    BY MoveIs DEF Moves
  <1>5. arg'[c].agent = a /\ arg'[c].ttl = arg[c].ttl /\ left'[Job(c)] = left[Job(c)]
    BY <1>2 DEF Moves, Watches
  <1>6. host[a].lease \in Nat
    BY <1>1, LeaseType
  <1>7. t[1] = c => Running(Ag(t))'
    BY <1>5 DEF Running, Ag
  <1>8. Watches(c, a)'
    <2>1. CASE /\ pc[Request(c)] \in {"cacheSet", "arm"}
               /\ HasTimer(arg[c].ttl) /\ host[a].lease <= arg[c].ttl
      <3>1. pc'[Request(c)] \in {"cacheSet", "arm"}
        BY <1>3, <1>4, <1>7, <2>1, CallNames DEF OwnLabels
      <3>2. QED
        BY <1>1, <1>5, <2>1, <3>1 DEF Watches
    <2>2. CASE pc[Job(c)] = "armed" /\ host[a].lease <= left[Job(c)]
      <3>1. CASE t = Job(c)
        <4>1. left[t] = 0 /\ label = "del"
          BY <1>3, <1>7, <2>2, <3>1, CallNames DEF OwnLabels
        <4>2. host[a].lease = 0
          BY <1>6, <2>2, <3>1, <4>1
        <4>3. QED
          BY <1>1, <1>4, <1>5, <3>1, <4>1, <4>2 DEF Watches
      <3>2. CASE t # Job(c)
        BY <1>1, <1>3, <1>4, <1>5, <2>2, <3>2 DEF Watches
      <3>3. QED
        BY <3>1, <3>2
    <2>3. CASE pc[Job(c)] \in {"del", FirstStop} /\ host[a].lease = 0
      <3>1. pc'[Job(c)] \in {"del", FirstStop}
        BY <1>3, <1>4, <1>7, <2>3, CallNames DEF OwnLabels
      <3>2. QED
        BY <1>1, <1>5, <2>3, <3>1 DEF Watches
    <2>4. QED
      BY <1>2, <2>1, <2>2, <2>3 DEF Watches
  <1>9. QED
    BY <1>1, <1>2, <1>8 DEF Watched

LEMMA HostPunctual ==
  ASSUME ManagerInv, PunctualOK, NEW t \in Threads,
         StartCall(t) \/ StartError(t) \/ StopCall(t) \/ StopError(t)
  PROVE  PunctualOK'
  <1> SUFFICES ASSUME NEW a \in Agents, Running(a)', host'[a].lease # Infinity
               PROVE  Watched(a)'
    BY DEF PunctualOK
  <1>0. TypeOK
    BY DEF ManagerInv
  <1>1. UNCHANGED <<left, arg>> /\ \A u \in Threads \ {t} : pc'[u] = pc[u]
    BY HostSteps
  <1>2. CASE a = Ag(t)
    <2>1. /\ t = Request(t[1]) /\ t[1] \in Calls
          /\ pc'[t] = "cacheSet"
          /\ host'[a].by = t[1]
          /\ host'[a].lease = IF HasTimer(Arg(t).ttl) THEN Arg(t).ttl ELSE Infinity
      <3>1. Ag(t)' = Ag(t)
        BY <1>1 DEF Ag
      <3>2. Running(Ag(t))'
        BY <1>2, <3>1 DEF Running
      <3>3. QED
        BY <1>2, <3>2, HostSteps
    <2>2. HasTimer(arg[t[1]].ttl) /\ host'[a].lease = arg[t[1]].ttl /\ arg[t[1]].agent = a
      BY <1>2, <2>1 DEF Arg, Ag
    <2>3. arg[t[1]].ttl \in Ttls
      <3>1. \A label : GoTo(t, label) => pc'[t] = label
        BY <1>0, MoveIs
      <3>2. ~StartError(t) /\ ~StopError(t)
        BY <2>1, <3>1 DEF StartError, StopError, Return
      <3>3. ~StopCall(t)
        BY <2>1, <3>1, CallNames, CallOrder DEF StopCall, Return, OwnLabels
      <3>4. QED
        BY <1>0, <3>2, <3>3 DEF StartCall, TypeOK, SpinUpLabels, Arg
    <2>4. host'[a].lease <= arg[t[1]].ttl
      BY <2>2, <2>3, TtlType
    <2>5. Watches(t[1], a)'
      BY <1>1, <2>1, <2>2, <2>4 DEF Watches
    <2>6. QED
      BY <2>1, <2>5 DEF Watched
  <1>3. CASE a # Ag(t)
    <2>1. host'[a] = host[a] /\ Running(a)
      BY <1>3, HostSteps
    <2>2. PICK c \in Calls : c = host[a].by /\ Watches(c, a)
      BY <2>1 DEF PunctualOK, Watched
    <2>3. c # t[1]
      BY <1>3, <2>2 DEF Watches, Ag
    <2>4. Request(c) \in Threads \ {t} /\ Job(c) \in Threads \ {t}
      BY <2>3, ThreadParts
    <2>5. Watches(c, a)'
      BY <1>1, <2>1, <2>2, <2>4 DEF Watches
    <2>6. QED
      BY <2>1, <2>2, <2>5 DEF Watched
  <1>4. QED
    BY <1>2, <1>3

LEMMA ArmPunctual ==
  ASSUME TimersInRange, ManagerInv, PunctualOK, NEW t \in Threads, SetSpinDownJob(t)
  PROVE  PunctualOK'
  <1> SUFFICES ASSUME NEW a \in Agents, Running(a)', host'[a].lease # Infinity
               PROVE  Watched(a)'
    BY DEF PunctualOK
  <1>1. Running(a) /\ UNCHANGED <<host, arg>>
    BY ArmSteps DEF Running
  <1>2. PICK c \in Calls : c = host[a].by /\ Watches(c, a)
    BY <1>1 DEF PunctualOK, Watched
  <1>3. CASE c = t[1]
    <2>1. pc[Job(c)] = "idle" /\ arg[c].ttl \in Ttls
      BY <1>3, ArmSteps DEF Arg
    <2>2. HasTimer(arg[c].ttl) /\ host[a].lease <= arg[c].ttl
      BY <1>2, <2>1, CallNames DEF Watches, OwnLabels
    <2>3. pc'[Job(c)] = "armed" /\ left'[Job(c)] = TimerDelay(arg[c].ttl)
      BY <1>3, <2>2, ArmSteps DEF Arg
    <2>4. TimerDelay(arg[c].ttl) = arg[c].ttl
      BY <2>1, <2>2, TtlType, ConfigAssumption DEF TimersInRange, TimerDelay
    <2>5. QED
      BY <1>1, <1>2, <2>2, <2>3, <2>4 DEF Watched, Watches
  <1>4. CASE c # t[1]
    <2>1. /\ pc'[Request(c)] = pc[Request(c)] /\ pc'[Job(c)] = pc[Job(c)]
          /\ left'[Job(c)] = left[Job(c)]
      BY <1>4, ArmSteps
    <2>2. QED
      BY <1>1, <1>2, <2>1 DEF Watched, Watches
  <1>5. QED
    BY <1>3, <1>4

LEMMA RequestPunctual ==
  ASSUME ManagerInv, PunctualOK, NEW c \in Calls, SpinUp(c) \/ SpinDown(c) \/ Connect(c)
  PROVE  PunctualOK'
  <1> SUFFICES ASSUME NEW a \in Agents, Running(a)', host'[a].lease # Infinity
               PROVE  Watched(a)'
    BY DEF PunctualOK
  <1>1. Running(a) /\ UNCHANGED <<host, left>>
    BY RequestSteps DEF Running
  <1>2. PICK d \in Calls : d = host[a].by /\ Watches(d, a)
    BY <1>1 DEF PunctualOK, Watched
  <1>3. d # c
    BY <1>2, RequestSteps, CallNames DEF Watches, Quiet, Answered, OwnLabels
  <1>4. Request(d) \in Threads \ {Request(c)} /\ Job(d) \in Threads \ {Request(c)}
    BY <1>3, ThreadParts DEF Request, Job
  <1>5. /\ pc'[Request(d)] = pc[Request(d)] /\ pc'[Job(d)] = pc[Job(d)] /\ arg'[d] = arg[d]
    BY <1>3, <1>4, RequestSteps
  <1>6. QED
    BY <1>1, <1>2, <1>5 DEF Watched, Watches

LEMMA EnvironmentPunctual ==
  ASSUME ManagerInv, PunctualOK,
         (\E a \in Agents : AgentBoots(a) \/ AgentExits(a)) \/ Crash \/ Tick
  PROVE  PunctualOK'
  <1>0. TypeOK
    BY DEF ManagerInv
  <1>1. CASE \E a \in Agents : AgentBoots(a) \/ AgentExits(a)
    <2>1. PICK b \in Agents : AgentBoots(b) \/ AgentExits(b)
      BY <1>1
    <2>2. /\ UNCHANGED <<pc, left, arg>>
          /\ \A a \in Agents : Running(a)' =>
               Running(a) /\ host'[a].lease = host[a].lease /\ host'[a].by = host[a].by
      BY <2>1, LifeSteps
    <2>3. QED
      BY <2>2 DEF PunctualOK, Watched, Watches
  <1>2. CASE Crash
    BY <1>2, StagesDiffer DEF Crash, PunctualOK, Running
  <1>3. CASE Tick
    <2> SUFFICES ASSUME NEW a \in Agents, Running(a)', host'[a].lease # Infinity
                 PROVE  Watched(a)'
      BY DEF PunctualOK
    <2>1. /\ host'[a].objs = host[a].objs /\ host'[a].by = host[a].by
          /\ host'[a].lease = Elapse(host[a].lease)
      BY <1>0, <1>3 DEF Tick, TypeOK, HostType
    <2>2. UNCHANGED <<arg, faulted>>
      BY <1>3 DEF Tick
    <2>3. Running(a) /\ host[a].lease # Infinity
      BY <2>1, <2>2 DEF Running, Elapse
    <2>4. PICK c \in Calls : c = host[a].by /\ Watches(c, a)
      BY <2>3 DEF PunctualOK, Watched
    <2>5. Request(c) \in Threads /\ Job(c) \in Threads
      BY ThreadParts
    <2>6. host[a].lease \in Nat /\ left[Job(c)] \in Nat
      BY <1>0, <2>3, <2>5, LeaseType DEF TypeOK
    <2>7. /\ pc[Request(c)] # "arm" /\ (pc[Job(c)] = "armed" => left[Job(c)] > 0)
          /\ left'[Job(c)] = Elapse(left[Job(c)])
      BY <1>3, <2>5 DEF Tick
    <2>8. \A u \in Threads : pc[u] # "delay" => pc'[u] = pc[u]
      BY <1>3 DEF Tick
    <2>9. host'[a].lease = IF host[a].lease = 0 THEN 0 ELSE host[a].lease - 1
      BY <2>1, <2>3 DEF Elapse
    <2>10. CASE /\ pc[Request(c)] \in {"cacheSet", "arm"}
                /\ HasTimer(arg[c].ttl) /\ host[a].lease <= arg[c].ttl
      <3>1. arg[c].ttl \in Nat
        BY <1>0, <2>5, <2>10, ThreadParts, TtlType DEF TypeOK, Arg, SpinUpLabels
      <3>2. host'[a].lease <= arg[c].ttl
        BY <2>6, <2>9, <2>10, <3>1
      <3>3. QED
        BY <2>1, <2>2, <2>4, <2>5, <2>8, <2>10, <3>2 DEF Watched, Watches
    <2>11. CASE pc[Job(c)] = "armed" /\ host[a].lease <= left[Job(c)]
      <3>1. left'[Job(c)] = left[Job(c)] - 1 /\ left[Job(c)] > 0
        BY <2>6, <2>7, <2>11, ConfigAssumption DEF Elapse
      <3>2. host'[a].lease <= left'[Job(c)]
        BY <2>6, <2>9, <2>11, <3>1
      <3>3. QED
        BY <2>1, <2>2, <2>4, <2>5, <2>8, <2>11, <3>2 DEF Watched, Watches
    <2>12. CASE pc[Job(c)] \in {"del", FirstStop} /\ host[a].lease = 0
      <3>1. FirstStop # "delay"
        BY CallNames DEF OwnLabels
      <3>2. QED
        BY <2>1, <2>2, <2>4, <2>5, <2>8, <2>9, <2>12, <3>1 DEF Watched, Watches
    <2>13. QED
      BY <2>4, <2>10, <2>11, <2>12 DEF Watched, Watches
  <1>4. QED
    BY <1>1, <1>2, <1>3

LEMMA PunctualNext == TimersInRange /\ ManagerInv /\ PunctualOK /\ [Next]_vars => PunctualOK'
  <1> SUFFICES ASSUME TimersInRange, ManagerInv, PunctualOK, [Next]_vars
               PROVE  PunctualOK'
    OBVIOUS
  <1>0. TypeOK
    BY DEF ManagerInv
  <1>1. ASSUME NEW c \in Calls, SpinUp(c) \/ SpinDown(c) \/ Connect(c)
        PROVE  PunctualOK'
    BY <1>1, RequestPunctual
  <1>2. ASSUME NEW t \in Threads, Step(t)
        PROVE  PunctualOK'
    <2>1. CASE StartCall(t) \/ StartError(t) \/ StopCall(t) \/ StopError(t)
      BY <2>1, HostPunctual
    <2>2. CASE SetSpinDownJob(t)
      BY <2>2, ArmPunctual
    <2>3. CASE RecoverSet(t) \/ CacheSet(t) \/ CacheDel(t)
      <3>1. PICK label : /\ Moves(t, label)
                         /\ \/ pc[t] = "recoverSet"
                            \/ pc[t] = "cacheSet" /\ label = "arm"
                            \/ pc[t] = "del" /\ label = FirstStop
        BY <2>3, CacheSteps
      <3>2. QED
        BY <1>0, <3>1, MovesPunctual, CallNames DEF OwnLabels
    <2>4. CASE \/ StartRefused(t) \/ StopRefused(t)
               \/ Recover(t) \/ RecoverGet(t) \/ RecoverConnect(t) \/ CacheError(t)
               \/ TimerFires(t) \/ Lookup(t)
               \/ PingAnswered(t) \/ PingUnanswered(t) \/ CreateConnection(t)
      <3>1. PICK label :
              /\ Moves(t, label)
              /\ \/ ~Running(Ag(t))'
                 \/ pc[t] \notin {"cacheSet", "arm", "armed", "del", FirstStop}
                 \/ pc[t] = "armed" /\ left[t] = 0 /\ label = "del"
        BY <2>4, QuietSteps
      <3>2. QED
        BY <1>0, <3>1, MovesPunctual
    <2>5. QED
      BY <1>2, <2>1, <2>2, <2>3, <2>4 DEF Step
  <1>3. CASE (\E a \in Agents : AgentBoots(a) \/ AgentExits(a)) \/ Crash \/ Tick
    BY <1>3, EnvironmentPunctual
  <1>4. CASE UNCHANGED vars
    BY <1>4 DEF vars, PunctualOK, Watched, Watches, Running
  <1>5. QED
    BY <1>1, <1>2, <1>3, <1>4 DEF Next

\* The stop of a timer's own agent, seen from the invariant.
LEMMA PunctualImplies ==
  ASSUME ManagerInv, PunctualOK, NEW c \in Calls, NEW a \in Agents,
         Stops(Job(c), a), host[a].by = c, a \notin faulted
  PROVE  host[a].lease \in {0, Infinity}
  <1>1. pc[Job(c)] = FirstStop /\ Running(a)
    BY DEF Stops, Running
  <1>2. pc[Request(c)] \notin {"cacheSet", "arm"}
    BY <1>1, CallNames DEF ManagerInv, RoleOK, BeforeArm, SpinUpLabels, OwnLabels
  <1>3. QED
    BY <1>1, <1>2, CallNames DEF PunctualOK, Watched, Watches, OwnLabels

\* The timer of the request that started an agent does not take it down before
\* its ttl, whatever else goes on, as long as every ttl is one that setTimeout
\* can wait for: between the start and the arming no time is lost to the agent.
THEOREM OwnTimerKeepsTime == TimersInRange => (Spec => OwnTimerIsPunctual)
  <1>1. Init => ManagerInv /\ PunctualOK
    <2>1. Init => PunctualOK
      BY StagesDiffer DEF Init, PunctualOK, Running, Gone
    <2>2. QED
      BY <2>1, InitType, InitParts DEF ManagerInv
  <1>2. TimersInRange /\ ManagerInv /\ PunctualOK /\ [Next]_vars => ManagerInv' /\ PunctualOK'
    BY NextType, RoleStep, HalfStep, PunctualNext DEF ManagerInv
  <1>3. ManagerInv /\ PunctualOK =>
          \A c \in Calls, a \in Agents :
            Stops(Job(c), a) /\ host[a].by = c /\ a \notin faulted
              => host[a].lease \in {0, Infinity}
    BY PunctualImplies
  <1>4. TimersInRange => [](TimersInRange)
    OBVIOUS
  <1>5. QED
    BY <1>1, <1>2, <1>3, <1>4, PTL DEF Spec, OwnTimerIsPunctual

---------------------------------------------------------------------------
(* The cache entry of an agent that is up. *)

\* Somebody is about to write the entry, or deleted it to stop the agent.
Serving(a) == \E t \in Threads : Unsettles(t, a)

\* The slot that started the agent will take it down before the entry's time
\* is over.
Keeps(c, a) ==
  /\ c = host[a].by /\ arg[c].agent = a
  /\ \/ pc[Request(c)] = "arm" /\ HasTimer(arg[c].ttl) /\ arg[c].ttl < cache[a].left
     \/ pc[Job(c)] = "armed" /\ left[Job(c)] < cache[a].left

Lasting(a) ==
  /\ Fits(a)
  /\ cache[a].left = Infinity \/ \E c \in Calls : Keeps(c, a)

\* No timer waits longer than the ttl it was armed for.
TimersOK ==
  \A c \in Calls :
    pc[Job(c)] = "armed" => HasTimer(arg[c].ttl) /\ left[Job(c)] <= arg[c].ttl

\* UpIsCached says nothing of the entry's time, nor of who ends the agent
\* before it is over.
CachedOK ==
  \A a \in Agents : Running(a) /\ a \notin upset => Serving(a) \/ Lasting(a)

\* An entry is told apart from none.
EntriesAre == None \notin CacheType

LEMMA CachedImplies == CachedOK => UpIsCached
  BY DEF CachedOK, UpIsCached, Undisturbed, Running, Serving, Lasting

---------------------------------------------------------------------------
(* Timers against their ttls. *)

LEMMA TimersStep ==
  ASSUME ManagerInv, TimersOK, NEW t \in Threads, Step(t)
  PROVE  TimersOK'
  <1>0. TypeOK /\ RoleOK
    BY DEF ManagerInv
  <1>1. CASE SetSpinDownJob(t)
    <2>1. /\ t[1] \in Calls /\ Arg(t).ttl \in Ttls /\ UNCHANGED arg
          /\ IF HasTimer(Arg(t).ttl)
             THEN pc'[Job(t[1])] = "armed" /\ left'[Job(t[1])] = TimerDelay(Arg(t).ttl)
             ELSE pc'[Job(t[1])] = "idle"
          /\ \A c \in Calls \ {t[1]} : pc'[Job(c)] = pc[Job(c)] /\ left'[Job(c)] = left[Job(c)]
      BY <1>1, ArmSteps
    <2>2. HasTimer(Arg(t).ttl) => TimerDelay(Arg(t).ttl) <= Arg(t).ttl
      BY <2>1, TtlType, ConfigAssumption DEF TimerDelay
    <2>3. ASSUME NEW c \in Calls, pc'[Job(c)] = "armed"
          PROVE  HasTimer(arg'[c].ttl) /\ left'[Job(c)] <= arg'[c].ttl
      <3>1. CASE c = t[1]
        BY <2>1, <2>2, <2>3, <3>1 DEF Arg
      <3>2. CASE c # t[1]
        BY <2>1, <2>3, <3>2 DEF TimersOK
      <3>3. QED
        BY <3>1, <3>2
    <2>4. QED
      BY <2>3 DEF TimersOK
  <1>2. CASE ~SetSpinDownJob(t)
    <2>1. /\ \A c \in Calls : arg'[c].ttl = arg[c].ttl /\ left'[Job(c)] = left[Job(c)]
          /\ \A u \in Threads : pc'[u] = "armed" => pc[u] = "armed"
      <3>1. CASE StartCall(t) \/ StartError(t) \/ StopCall(t) \/ StopError(t)
        BY <3>1, HostSteps
      <3>2. CASE RecoverSet(t) \/ CacheSet(t) \/ CacheDel(t)
        <4>1. PICK label \in {"recoverGet", "arm", FirstStop} : Moves(t, label)
          BY <3>2, CacheSteps
        <4>2. label # "armed"
          BY <4>1, CallNames DEF OwnLabels
        <4>3. QED
          BY <1>0, <4>1, <4>2, MoveIs DEF Moves
      <3>3. CASE \/ StartRefused(t) \/ StopRefused(t)
                 \/ Recover(t) \/ RecoverGet(t) \/ RecoverConnect(t) \/ CacheError(t)
                 \/ TimerFires(t) \/ Lookup(t)
                 \/ PingAnswered(t) \/ PingUnanswered(t) \/ CreateConnection(t)
        <4>1. \E label : Moves(t, label)
          BY <3>3, QuietSteps
        <4>2. \E label : GoTo(t, label) /\ label # "armed"
          BY <3>3 DEF StartRefused, StopRefused, Recover, RecoverGet, RecoverConnect, CacheError,
             TimerFires, Lookup, PingAnswered, PingUnanswered, CreateConnection, AfterRecovery, Return
        <4>3. \A u \in Threads : pc'[u] = "armed" => pc[u] = "armed"
          BY <1>0, <4>2, MoveIs
        <4>4. QED
          BY <4>1, <4>3 DEF Moves
      <3>4. QED
        BY <1>2, <3>1, <3>2, <3>3 DEF Step
    <2>2. QED
      BY <2>1, ThreadParts DEF TimersOK
  <1>3. QED
    BY <1>1, <1>2

LEMMA TimersNext == ManagerInv /\ TimersOK /\ [Next]_vars => TimersOK'
  <1> SUFFICES ASSUME ManagerInv, TimersOK, [Next]_vars
               PROVE  TimersOK'
    OBVIOUS
  <1>0. TypeOK
    BY DEF ManagerInv
  <1>1. ASSUME NEW d \in Calls, SpinUp(d) \/ SpinDown(d) \/ Connect(d)
        PROVE  TimersOK'
    <2>1. /\ UNCHANGED left /\ pc[Job(d)] = "idle"
          /\ \A u \in Threads \ {Request(d)} : pc'[u] = pc[u]
          /\ \A c \in Calls \ {d} : arg'[c] = arg[c]
      BY <1>1, RequestSteps
    <2>2. \A c \in Calls : Job(c) \in Threads \ {Request(d)}
      BY ThreadParts
    <2>3. QED
      BY <2>1, <2>2 DEF TimersOK
  <1>2. CASE \E a \in Agents : AgentBoots(a) \/ AgentExits(a)
    BY <1>2 DEF AgentBoots, AgentExits, TimersOK
  <1>3. CASE Crash
    <2>1. \A c \in Calls : pc'[Job(c)] # "armed"
      BY <1>3, ThreadParts DEF Crash, Answered
    <2>2. QED
      BY <2>1 DEF TimersOK
  <1>4. CASE Tick
    <2>1. ASSUME NEW c \in Calls, pc'[Job(c)] = "armed"
          PROVE  HasTimer(arg'[c].ttl) /\ left'[Job(c)] <= arg'[c].ttl
      <3>1. /\ Job(c) \in Threads /\ pc[Job(c)] = "armed" /\ UNCHANGED arg
            /\ left'[Job(c)] = Elapse(left[Job(c)])
        BY <1>4, <2>1, ThreadParts DEF Tick
      <3>2. left[Job(c)] \in Nat /\ arg[c].ttl \in Ttls
        BY <1>0, <3>1, ThreadParts DEF TypeOK, SpinUpLabels, Arg
      <3>3. HasTimer(arg[c].ttl) /\ left[Job(c)] <= arg[c].ttl
        BY <3>1 DEF TimersOK
      <3>4. QED
        BY <3>1, <3>2, <3>3, TtlType, ConfigAssumption DEF Elapse
    <2>2. QED
      BY <2>1 DEF TimersOK
  <1>5. CASE UNCHANGED vars
    BY <1>5 DEF vars, TimersOK
  <1>6. QED
    BY <1>1, <1>2, <1>3, <1>4, <1>5, TimersStep DEF Next

---------------------------------------------------------------------------
(* Entries against timers. *)

\* A thread's step keeps what an agent with the same entry counts on, unless
\* it is the agent's writer or its timer; a step that deletes it goes on to
\* stop it.
LEMMA MovesCached ==
  ASSUME ManagerInv, NEW t \in Threads, NEW label, Moves(t, label),
         NEW a \in Agents, cache'[a] = cache[a], Serving(a) \/ Lasting(a),
         \/ Ag(t) # a
         \/ pc[t] \notin {"cacheSet", "arm", "armed", "del", FirstStop}
         \/ pc[t] = "armed" /\ label = "del"
  PROVE  Serving(a)' \/ Lasting(a)'
  <1>0. TypeOK
    BY DEF ManagerInv
  <1>1. pc'[t] = label /\ \A u \in Threads \ {t} : pc'[u] = pc[u]
    BY <1>0, MoveIs DEF Moves
  <1>2. \A u \in Threads : Ag(u)' = Ag(u)
    BY ThreadParts DEF Moves, Ag
  <1>3. CASE Ag(t) = a /\ pc[t] = "armed" /\ label = "del"
    BY <1>1, <1>2, <1>3 DEF Serving, Unsettles
  <1>4. CASE Ag(t) # a \/ pc[t] \notin {"cacheSet", "arm", "armed", "del", FirstStop}
    <2>1. CASE Serving(a)
      <3>1. PICK u \in Threads : pc[u] \in {"cacheSet", "del", FirstStop} /\ Ag(u) = a
        BY <2>1 DEF Serving, Unsettles
      <3>2. u # t
        BY <1>4, <3>1
      <3>3. QED
        BY <1>1, <1>2, <3>1, <3>2 DEF Serving, Unsettles
    <2>2. CASE Lasting(a)
      <3>1. ASSUME NEW c \in Calls, Keeps(c, a)
            PROVE  Keeps(c, a)'
        <4>1. /\ Request(c) \in Threads /\ Request(c)[1] = c
              /\ Job(c) \in Threads /\ Job(c)[1] = c
          BY ThreadParts
        <4>2. Ag(Request(c)) = a /\ Ag(Job(c)) = a
          BY <3>1, <4>1 DEF Keeps, Ag
        <4>3. pc[Request(c)] = "arm" => Request(c) # t
          BY <1>4, <4>2
        <4>4. pc[Job(c)] = "armed" => Job(c) # t
          BY <1>4, <4>2
        <4>5. /\ host' = host /\ arg'[c].agent = arg[c].agent /\ arg'[c].ttl = arg[c].ttl
              /\ left'[Job(c)] = left[Job(c)]
          BY DEF Moves
        <4>6. QED
          BY <1>1, <3>1, <4>1, <4>3, <4>4, <4>5 DEF Keeps
      <3>2. Fits(a)'
        BY <2>2 DEF Lasting, Fits, Moves
      <3>3. QED
        BY <2>2, <3>1, <3>2 DEF Lasting
    <2>3. QED
      BY <2>1, <2>2
  <1>5. QED
    BY <1>3, <1>4

\* The entry that a suitable request writes outlives the agent it is for.
LEMMA WritesCached ==
  ASSUME EntriesAre, ManagerInv, TimerOK, TimersOK, NEW t \in Threads,
         RecoverSet(t) \/ CacheSet(t), Running(Ag(t)), Suits(t)
  PROVE  Serving(Ag(t))' \/ Lasting(Ag(t))'
  <1>0. TypeOK /\ RoleOK /\ HalfOK
    BY DEF ManagerInv
  <1>1. PICK a \in Agents : a = Ag(t)
    BY CacheSteps
  <1>2. PICK label \in {"recoverGet", "arm"} :
          /\ Moves(t, label) /\ UNCHANGED <<host, left, arg>>
          /\ \/ label = "arm" /\ pc[t] = "cacheSet"
             \/ label = "recoverGet" /\ pc[t] = "recoverSet"
    BY CacheSteps DEF RecoverSet, CacheSet, CacheDel
  <1>3. pc'[t] = label /\ \A u \in Threads \ {t} : pc'[u] = pc[u]
    BY <1>0, <1>2, MoveIs DEF Moves
  <1>4. Ag(t)' = a /\ \A u \in Threads : Ag(u)' = Ag(u)
    BY <1>1, <1>2 DEF Ag
  <1>5. cache'[a] = Entry(t) /\ Arg(t) \in ArgType /\ Arg(t).ttl \in Ttls
    BY <1>0, <1>1, <1>2, CacheSteps DEF RecoverSet, CacheSet, CacheDel, TypeOK
  <1>6. /\ Arg(t).key = host[a].key /\ Arg(t).port = host[a].port
        /\ \/ Arg(t).ttl = Infinity /\ ForeverKept
           \/ /\ HasTimer(Arg(t).ttl) /\ host[a].lease # Infinity
              /\ Arg(t).ttl >= arg[host[a].by].ttl
    BY <1>1 DEF Suits, Running
  <1>7. CacheLifetime(Arg(t).ttl) # Infinity \/ ForeverKept
    BY <1>5, <1>6, TtlType, ConfigAssumption DEF CacheLifetime
  <1>8. Entry(t) = [key |-> Arg(t).key, port |-> Arg(t).port, left |-> CacheLifetime(Arg(t).ttl)]
    BY <1>7 DEF Entry
  <1>9. Fits(a)' /\ cache'[a].left = CacheLifetime(Arg(t).ttl)
    <2>1. CacheLifetime(Arg(t).ttl) \in Time
      BY <1>5, TimeTypes
    <2>2. Entry(t) \in CacheType
      BY <1>5, <1>8, <2>1 DEF CacheType, ArgType
    <2>3. QED
      BY <1>2, <1>5, <1>6, <1>8, <2>2 DEF Fits, EntriesAre
  <1>10. CASE Arg(t).ttl = Infinity
    BY <1>1, <1>4, <1>9, <1>10 DEF Lasting, CacheLifetime
  <1>11. CASE Arg(t).ttl # Infinity
    <2>1. PICK ttl \in Nat : ttl = Arg(t).ttl
      BY <1>5, <1>6, <1>11, TtlType
    <2>2. cache'[a].left = ttl + 1
      BY <1>6, <1>9, <1>11, <2>1 DEF CacheLifetime, HasTimer
    <2>3. PICK c \in Calls : /\ c = host[a].by /\ arg[c].agent = a
                             /\ Arming(c) \/ Timing(c)
      <3>1. Leased(a)
        BY <1>1, <1>6, <1>11, StagesDiffer DEF Leased, Running
      <3>2. ~Ending(a)
        <4>1. ASSUME NEW u \in Threads, HalfStop(u), Ag(u) = a
              PROVE  FALSE
          <5>1. host[a].objs = Half
            BY <1>0, <4>1, HalfwayLabels DEF Halfway, HalfOK
          <5>2. QED
            BY <1>1, <5>1, StagesDiffer DEF Running
        <4>2. QED
          BY <4>1 DEF Ending
      <3>3. QED
        BY <3>1, <3>2 DEF TimerOK, Scheduled, Starter
    <2>4. /\ Request(c) \in Threads /\ Request(c)[1] = c
          /\ Job(c) \in Threads /\ Job(c)[1] = c
          /\ Ag(Request(c)) = a /\ Ag(Job(c)) = a
          /\ Arg(Request(c)) = arg[c] /\ Arg(Job(c)) = arg[c]
      BY <2>3, ThreadParts DEF Ag, Arg
    <2>5. pc[Request(c)] # SecondStart
      <3>1. pc[Request(c)] = SecondStart => host[a].objs = Half
        BY <1>0, <2>4 DEF HalfLabels, HalfOK
      <3>2. QED
        BY <1>1, <3>1, StagesDiffer DEF Running
    <2>6. arg[c].ttl <= ttl
      BY <1>6, <1>11, <2>1, <2>3, ConfigAssumption
    <2>7. CASE pc[Request(c)] \in {"cacheSet", "arm"} /\ HasTimer(arg[c].ttl)
      <3>1. arg[c].ttl \in Nat
        BY <1>0, <2>4, <2>7, TtlType DEF TypeOK, SpinUpLabels
      <3>2. arg[c].ttl < cache'[a].left
        BY <2>2, <2>6, <3>1
      <3>3. CASE pc'[Request(c)] = "arm"
        <4>1. Keeps(c, a)'
          BY <1>2, <2>3, <2>7, <3>2, <3>3 DEF Keeps
        <4>2. QED
          BY <1>4, <1>9, <4>1 DEF Lasting
      <3>4. CASE pc'[Request(c)] # "arm"
        <4>1. Request(c) # t /\ pc[Request(c)] = "cacheSet"
          BY <1>2, <1>3, <2>4, <2>7, <3>4
        <4>2. pc'[Request(c)] = "cacheSet" /\ Ag(Request(c))' = a
          BY <1>3, <1>4, <2>4, <4>1
        <4>3. QED
          BY <1>4, <2>4, <4>2 DEF Serving, Unsettles
      <3>5. QED
        BY <3>3, <3>4
    <2>8. CASE pc[Job(c)] = "armed"
      <3>1. left[Job(c)] \in Nat /\ arg[c].ttl \in Nat /\ left[Job(c)] <= arg[c].ttl
        BY <1>0, <2>4, <2>8, TtlType DEF TypeOK, TimersOK, SpinUpLabels
      <3>2. left'[Job(c)] < cache'[a].left
        BY <1>2, <2>2, <2>6, <3>1
      <3>3. pc'[Job(c)] = "armed"
        BY <1>2, <1>3, <2>4, <2>8
      <3>4. Keeps(c, a)'
        BY <1>2, <2>3, <3>2, <3>3 DEF Keeps
      <3>5. QED
        BY <1>4, <1>9, <3>4 DEF Lasting
    <2>9. CASE pc[Job(c)] \in {"del", FirstStop}
      <3>1. Job(c) # t
        BY <1>2, <2>9, CallNames DEF OwnLabels
      <3>2. pc'[Job(c)] \in {"del", FirstStop} /\ Ag(Job(c))' = a
        BY <1>3, <1>4, <2>4, <2>9, <3>1
      <3>3. QED
        BY <1>4, <2>4, <3>2 DEF Serving, Unsettles
    <2>10. QED
      BY <2>3, <2>5, <2>7, <2>8, <2>9 DEF Arming, Timing
  <1>12. QED
    BY <1>10, <1>11

LEMMA HostCached ==
  ASSUME ManagerInv, CachedOK, NEW t \in Threads,
         StartCall(t) \/ StartError(t) \/ StopCall(t) \/ StopError(t)
  PROVE  CachedOK'
  <1> SUFFICES ASSUME NEW a \in Agents, Running(a)', a \notin upset'
               PROVE  Serving(a)' \/ Lasting(a)'
    BY DEF CachedOK
  <1>1. /\ UNCHANGED <<cache, left, arg, upset>>
        /\ \A u \in Threads \ {t} : pc'[u] = pc[u]
    BY HostSteps
  <1>2. \A u \in Threads : Ag(u)' = Ag(u)
    BY <1>1 DEF Ag
  <1>3. CASE a = Ag(t)
    <2>1. Running(Ag(t))'
      BY <1>2, <1>3 DEF Running
    <2>2. pc'[t] = "cacheSet"
      BY <2>1, HostSteps
    <2>3. QED
      BY <1>2, <1>3, <2>2 DEF Serving, Unsettles
  <1>4. CASE a # Ag(t)
    <2>1. Running(a) /\ host'[a] = host[a]
      BY <1>4, HostSteps
    <2>2. \A u \in Threads : Ag(u) = a => pc'[u] = pc[u] /\ Ag(u)' = a
      BY <1>1, <1>2, <1>4
    <2>3. CASE Serving(a)
      BY <2>2, <2>3 DEF Serving, Unsettles
    <2>4. CASE Lasting(a)
      <3>1. ASSUME NEW c \in Calls, Keeps(c, a)
            PROVE  Keeps(c, a)'
        <4>1. /\ Request(c) \in Threads /\ Request(c)[1] = c
              /\ Job(c) \in Threads /\ Job(c)[1] = c
          BY ThreadParts
        <4>2. Ag(Request(c)) = a /\ Ag(Job(c)) = a
          BY <3>1, <4>1 DEF Keeps, Ag
        <4>3. pc'[Request(c)] = pc[Request(c)] /\ pc'[Job(c)] = pc[Job(c)]
          BY <2>2, <4>1, <4>2
        <4>4. QED
          BY <1>1, <2>1, <3>1, <4>3 DEF Keeps
      <3>2. Fits(a)'
        BY <1>1, <2>1, <2>4 DEF Lasting, Fits
      <3>3. QED
        BY <1>1, <2>4, <3>1, <3>2 DEF Lasting
    <2>5. QED
      BY <1>1, <2>1, <2>3, <2>4 DEF CachedOK
  <1>5. QED
    BY <1>3, <1>4

LEMMA ArmCached ==
  ASSUME ManagerInv, CachedOK, NEW t \in Threads, SetSpinDownJob(t)
  PROVE  CachedOK'
  <1> SUFFICES ASSUME NEW a \in Agents, Running(a)', a \notin upset'
               PROVE  Serving(a)' \/ Lasting(a)'
    BY DEF CachedOK
  <1>0. TypeOK
    BY DEF ManagerInv
  <1>1. /\ UNCHANGED <<host, cache, arg, faulted, upset>> /\ \A u \in Threads : Ag(u)' = Ag(u)
        /\ t = Request(t[1]) /\ t[1] \in Calls /\ pc[t] = "arm" /\ pc[Job(t[1])] = "idle"
        /\ Arg(t).ttl \in Ttls
    BY ArmSteps DEF Ag
  <1>2. ASSUME NEW u \in Threads, u # t, u # Job(t[1])
        PROVE  pc'[u] = pc[u]
    <2>1. u[1] = t[1] => u = t \/ u = Job(t[1])
      BY <1>1, ThreadParts DEF Request, Job
    <2>2. u[1] \in Calls \ {t[1]} /\ (u = Request(u[1]) \/ u = Job(u[1]))
      BY <1>2, <2>1, ThreadParts DEF Request, Job
    <2>3. QED
      BY <2>2, ArmSteps
  <1>3. Serving(a) \/ Lasting(a)
    BY <1>1 DEF CachedOK, Running
  <1>4. CASE Serving(a)
    <2>1. PICK u \in Threads : pc[u] \in {"cacheSet", "del", FirstStop} /\ Ag(u) = a
      BY <1>4 DEF Serving, Unsettles
    <2>2. u # t /\ u # Job(t[1])
      BY <1>1, <2>1, CallNames DEF OwnLabels
    <2>3. QED
      BY <1>1, <1>2, <2>1, <2>2 DEF Serving, Unsettles
  <1>5. CASE Lasting(a)
    <2>1. ASSUME NEW c \in Calls, Keeps(c, a), cache[a].left # Infinity
          PROVE  Keeps(c, a)'
      <3>1. CASE c = t[1]
        <4>1. HasTimer(arg[c].ttl) /\ arg[c].ttl < cache[a].left
          BY <1>1, <2>1, <3>1 DEF Keeps
        <4>2. pc'[Job(c)] = "armed" /\ left'[Job(c)] = TimerDelay(arg[c].ttl)
          BY <3>1, <4>1, ArmSteps DEF Arg
        <4>3. cache[a].left \in Nat
          BY <1>0, <1>5, <2>1 DEF Lasting, Fits, TypeOK, CacheType, Time
        <4>4. arg[c].ttl \in Ttls
          BY <1>1, <3>1 DEF Arg
        <4>5. TimerDelay(arg[c].ttl) < cache[a].left
          BY <4>1, <4>3, <4>4, TtlType, ConfigAssumption DEF TimerDelay
        <4>6. QED
          BY <1>1, <2>1, <4>2, <4>5 DEF Keeps
      <3>2. CASE c # t[1]
        <4>1. /\ pc'[Request(c)] = pc[Request(c)] /\ pc'[Job(c)] = pc[Job(c)]
              /\ left'[Job(c)] = left[Job(c)]
          BY <3>2, ArmSteps
        <4>2. QED
          BY <1>1, <2>1, <4>1 DEF Keeps
      <3>3. QED
        BY <3>1, <3>2
    <2>2. Fits(a)'
      BY <1>1, <1>5 DEF Lasting, Fits
    <2>3. QED
      BY <1>1, <1>5, <2>1, <2>2 DEF Lasting
  <1>6. QED
    BY <1>3, <1>4, <1>5

LEMMA RequestCached ==
  ASSUME ManagerInv, CachedOK, NEW c \in Calls, SpinUp(c) \/ SpinDown(c) \/ Connect(c)
  PROVE  CachedOK'
  <1> SUFFICES ASSUME NEW a \in Agents, Running(a)', a \notin upset'
               PROVE  Serving(a)' \/ Lasting(a)'
    BY DEF CachedOK
  <1>1. /\ UNCHANGED <<host, cache, left, faulted, upset>>
        /\ pc[Request(c)] \in Quiet /\ pc[Job(c)] = "idle"
        /\ \A u \in Threads \ {Request(c)} : pc'[u] = pc[u]
        /\ \A d \in Calls \ {c} : arg'[d] = arg[d]
    BY RequestSteps
  <1>2. ASSUME NEW u \in Threads, pc[u] \notin Quiet
        PROVE  pc'[u] = pc[u] /\ Ag(u)' = Ag(u)
    <2>1. u[1] = c => u = Request(c) \/ u = Job(c)
      BY ThreadParts DEF Request, Job
    <2>2. u # Request(c) /\ u[1] \in Calls \ {c}
      BY <1>1, <1>2, <2>1, ThreadParts DEF Quiet
    <2>3. QED
      BY <1>1, <2>2 DEF Ag
  <1>3. Serving(a) \/ Lasting(a)
    BY <1>1 DEF CachedOK, Running
  <1>4. CASE Serving(a)
    <2>1. PICK u \in Threads : pc[u] \in {"cacheSet", "del", FirstStop} /\ Ag(u) = a
      BY <1>4 DEF Serving, Unsettles
    <2>2. pc[u] \notin Quiet
      BY <2>1, CallNames DEF Quiet, Answered, OwnLabels
    <2>3. QED
      BY <1>2, <2>1, <2>2 DEF Serving, Unsettles
  <1>5. CASE Lasting(a)
    <2>1. ASSUME NEW d \in Calls, Keeps(d, a)
          PROVE  Keeps(d, a)'
      <3>1. d # c
        BY <1>1, <2>1 DEF Keeps, Quiet, Answered
      <3>2. Request(d) \in Threads \ {Request(c)} /\ Job(d) \in Threads \ {Request(c)}
        BY <3>1, ThreadParts
      <3>3. QED
        BY <1>1, <2>1, <3>1, <3>2 DEF Keeps
    <2>2. Fits(a)'
      BY <1>1, <1>5 DEF Lasting, Fits
    <2>3. QED
      BY <1>1, <1>5, <2>1, <2>2 DEF Lasting
  <1>6. QED
    BY <1>3, <1>4, <1>5

\* A second: an entry that goes had nobody who counted on it.
LEMMA TickCached ==
  ASSUME EntriesAre, ManagerInv, CachedOK, Tick
  PROVE  CachedOK'
  <1> SUFFICES ASSUME NEW a \in Agents, Running(a)', a \notin upset'
               PROVE  Serving(a)' \/ Lasting(a)'
    BY DEF CachedOK
  <1>0. TypeOK
    BY DEF ManagerInv
  <1>1. UNCHANGED <<arg, faulted, upset>> /\ \A u \in Threads : Ag(u)' = Ag(u)
    BY DEF Tick, Ag
  <1>2. \A u \in Threads : /\ pc[u] # "delay" => pc'[u] = pc[u]
                           /\ pc[u] # "arm"
                           /\ pc[u] = "armed" => left[u] > 0
                           /\ left'[u] = Elapse(left[u])
    BY DEF Tick
  <1>3. /\ host'[a].objs = host[a].objs /\ host'[a].by = host[a].by
        /\ host'[a].key = host[a].key /\ host'[a].port = host[a].port
    BY <1>0 DEF Tick, TypeOK, HostType
  <1>4. Serving(a) \/ Lasting(a)
    BY <1>1, <1>3 DEF CachedOK, Running
  <1>5. CASE Serving(a)
    <2>1. PICK u \in Threads : pc[u] \in {"cacheSet", "del", FirstStop} /\ Ag(u) = a
      BY <1>5 DEF Serving, Unsettles
    <2>2. pc[u] # "delay"
      BY <2>1, CallNames DEF OwnLabels
    <2>3. QED
      BY <1>1, <1>2, <2>1, <2>2 DEF Serving, Unsettles
  <1>6. CASE Lasting(a)
    <2>1. cache[a] \in CacheType /\ cache[a] # None /\ cache[a].left \in Time
      BY <1>0, <1>6 DEF TypeOK, Lasting, Fits, CacheType
    <2>2. ASSUME Elapse(cache[a].left) # 0
          PROVE  Fits(a)' /\ cache'[a].left = Elapse(cache[a].left)
      <3>1. cache'[a] = [cache[a] EXCEPT !.left = Elapse(cache[a].left)]
        BY <2>1, <2>2 DEF Tick
      <3>2. Elapse(cache[a].left) \in Time
        BY <2>1, TimeTypes
      <3>3. /\ cache'[a] \in CacheType /\ cache'[a].left = Elapse(cache[a].left)
            /\ cache'[a].key = cache[a].key /\ cache'[a].port = cache[a].port
        BY <2>1, <3>1, <3>2 DEF CacheType
      <3>4. QED
        BY <1>3, <1>6, <3>3 DEF Lasting, Fits, EntriesAre
    <2>3. CASE cache[a].left = Infinity
      <3>1. Elapse(cache[a].left) = Infinity /\ Infinity # 0
        BY <2>3, ConfigAssumption DEF Elapse
      <3>2. QED
        BY <2>2, <3>1 DEF Lasting
    <2>4. CASE cache[a].left # Infinity
      <3>1. PICK c \in Calls : Keeps(c, a)
        BY <1>6, <2>4 DEF Lasting
      <3>2. Job(c) \in Threads /\ Request(c) \in Threads
        BY ThreadParts
      <3>3. pc[Job(c)] = "armed" /\ left[Job(c)] < cache[a].left
        BY <1>2, <3>1, <3>2 DEF Keeps
      <3>4. left[Job(c)] \in Nat \ {0} /\ cache[a].left \in Nat
        BY <1>0, <1>2, <2>1, <2>4, <3>2, <3>3 DEF TypeOK, Time
      <3>5. /\ left'[Job(c)] = left[Job(c)] - 1
            /\ Elapse(cache[a].left) = cache[a].left - 1 /\ cache[a].left - 1 # 0
        BY <1>2, <3>2, <3>3, <3>4, ConfigAssumption DEF Elapse
      <3>6. Fits(a)' /\ left'[Job(c)] < cache'[a].left
        BY <2>2, <3>3, <3>4, <3>5
      <3>7. Keeps(c, a)'
        BY <1>1, <1>2, <1>3, <3>1, <3>2, <3>3, <3>6 DEF Keeps
      <3>8. QED
        BY <3>6, <3>7 DEF Lasting
    <2>5. QED
      BY <2>3, <2>4
  <1>7. QED
    BY <1>4, <1>5, <1>6

LEMMA CachedNext ==
  ASSUME EntriesAre, ManagerInv, TimerOK, TimersOK, CachedOK, [Next]_vars
  PROVE  CachedOK'
  <1>1. ASSUME NEW c \in Calls, SpinUp(c) \/ SpinDown(c) \/ Connect(c)
        PROVE  CachedOK'
    BY <1>1, RequestCached
  <1>2. ASSUME NEW t \in Threads, Step(t)
        PROVE  CachedOK'
    <2>1. CASE StartCall(t) \/ StartError(t) \/ StopCall(t) \/ StopError(t)
      BY <2>1, HostCached
    <2>2. CASE SetSpinDownJob(t)
      BY <2>2, ArmCached
    <2>3. CASE RecoverSet(t) \/ CacheSet(t)
      <3> SUFFICES ASSUME NEW a \in Agents, Running(a)', a \notin upset'
                   PROVE  Serving(a)' \/ Lasting(a)'
        BY DEF CachedOK
      <3>1. ~CacheDel(t) /\ Ag(t) \in Agents /\ UNCHANGED <<host, arg, faulted>>
        BY <2>3, CacheSteps DEF RecoverSet, CacheSet, CacheDel
      <3>2. Running(a)
        BY <3>1 DEF Running
      <3>3. CASE a = Ag(t)
        <4>1. Suits(t) /\ Ag(t)' = Ag(t)
          BY <2>3, <3>1, <3>3, CacheSteps DEF Ag
        <4>2. Serving(Ag(t))' \/ Lasting(Ag(t))'
          BY <2>3, <3>2, <3>3, <4>1, WritesCached
        <4>3. QED
          BY <3>3, <4>1, <4>2 DEF Serving, Unsettles, Lasting, Fits, Keeps
      <3>4. CASE a # Ag(t)
        <4>1. cache'[a] = cache[a] /\ a \notin upset
          BY <2>3, <3>1, <3>4, CacheSteps
        <4>2. Serving(a) \/ Lasting(a)
          BY <3>2, <4>1 DEF CachedOK
        <4>3. \E label : Moves(t, label)
          BY <2>3, CacheSteps
        <4>4. QED
          BY <3>4, <4>1, <4>2, <4>3, MovesCached
      <3>5. QED
        BY <3>3, <3>4
    <2>4. CASE CacheDel(t)
      <3> SUFFICES ASSUME NEW a \in Agents, Running(a)', a \notin upset'
                   PROVE  Serving(a)' \/ Lasting(a)'
        BY DEF CachedOK
      <3>1. Moves(t, FirstStop) /\ UNCHANGED <<upset, arg>>
        BY <2>4, CacheSteps DEF CacheDel
      <3>2. CASE a = Ag(t)
        <4>1. pc'[t] = FirstStop /\ Ag(t)' = a
          BY <3>1, <3>2, MoveIs DEF Moves, Ag, ManagerInv
        <4>2. QED
          BY <4>1 DEF Serving, Unsettles
      <3>3. CASE a # Ag(t)
        <4>1. cache'[a] = cache[a] /\ Running(a)
          BY <2>4, <3>1, <3>3, CacheSteps DEF Moves
        <4>2. Serving(a) \/ Lasting(a)
          BY <3>1, <4>1 DEF CachedOK
        <4>3. QED
          BY <3>1, <3>3, <4>1, <4>2, MovesCached
      <3>4. QED
        BY <3>2, <3>3
    <2>5. CASE \/ StartRefused(t) \/ StopRefused(t)
               \/ Recover(t) \/ RecoverGet(t) \/ RecoverConnect(t) \/ CacheError(t)
               \/ TimerFires(t) \/ Lookup(t)
               \/ PingAnswered(t) \/ PingUnanswered(t) \/ CreateConnection(t)
      <3> SUFFICES ASSUME NEW a \in Agents, Running(a)', a \notin upset'
                   PROVE  Serving(a)' \/ Lasting(a)'
        BY DEF CachedOK
      <3>1. UNCHANGED <<cache, upset>>
        BY <2>5, QuietSteps
      <3>2. PICK label :
              /\ Moves(t, label)
              /\ \/ ~Running(Ag(t))'
                 \/ pc[t] \notin {"cacheSet", "arm", "armed", "del", FirstStop}
                 \/ pc[t] = "armed" /\ label = "del"
        BY <2>5, QuietSteps
      <3>3. Running(a) /\ (Ag(t) = a => Running(Ag(t))')
        BY <3>2, ThreadParts DEF Moves, Running, Ag
      <3>4. Serving(a) \/ Lasting(a)
        BY <3>1, <3>3 DEF CachedOK
      <3>5. QED
        BY <3>1, <3>2, <3>3, <3>4, MovesCached
    <2>6. QED
      BY <1>2, <2>1, <2>2, <2>3, <2>4, <2>5 DEF Step
  <1>3. CASE \E a \in Agents : AgentBoots(a) \/ AgentExits(a)
    <2>1. /\ UNCHANGED <<cache, pc, left, arg, upset>>
          /\ \A a \in Agents : Running(a)' =>
               /\ Running(a) /\ host'[a].by = host[a].by
               /\ host'[a].key = host[a].key /\ host'[a].port = host[a].port
      BY <1>3, LifeSteps
    <2>2. QED
      BY <2>1 DEF CachedOK, Serving, Unsettles, Ag, Lasting, Fits, Keeps
  <1>4. CASE Crash
    <2>1. \A a \in Agents : ~Running(a)'
      BY <1>4, StagesDiffer DEF Crash, Running
    <2>2. QED
      BY <2>1 DEF CachedOK
  <1>5. CASE Tick
    BY <1>5, TickCached
  <1>6. CASE UNCHANGED vars
    BY <1>6 DEF vars, CachedOK, Running, Serving, Unsettles, Ag, Lasting, Fits, Keeps
  <1>7. QED
    BY <1>1, <1>2, <1>3, <1>4, <1>5, <1>6 DEF Next

\* An agent that is up keeps its cache entry, with the key and the port it was
\* started with: for any keys, ports and ttls, whoever else writes, deletes or
\* arms, the entry that a suitable request wrote outlives the agent.
THEOREM UpStaysCached == EntriesAre => (Spec => []UpIsCached)
  <1>1. Init => ManagerInv /\ TimerOK /\ TimersOK /\ CachedOK
    <2>1. Init => TimersOK /\ CachedOK
      BY StagesDiffer, ThreadParts DEF Init, TimersOK, CachedOK, Running, Gone
    <2>2. QED
      BY <2>1, InitType, InitParts, TimerInit DEF ManagerInv
  <1>2. /\ EntriesAre /\ ManagerInv /\ TimerOK /\ TimersOK /\ CachedOK /\ [Next]_vars
        => ManagerInv' /\ TimerOK' /\ TimersOK' /\ CachedOK'
    BY NextType, RoleStep, HalfStep, TimerNext, TimersNext, CachedNext DEF ManagerInv
  <1>3. EntriesAre => [](EntriesAre)
    OBVIOUS
  <1>4. QED
    BY <1>1, <1>2, <1>3, CachedImplies, PTL DEF Spec

---------------------------------------------------------------------------
(* How long a request or a timer goes on.                                  *)

\* A thread waits a second only while it has one left.
DelayOK == \A t \in Threads : pc[t] = "delay" => left[t] \in Nat \ {0}

\* The awaits ahead of a thread at label with so many seconds left.
AheadAt(label, seconds) ==
  Awaits(label) + 2 * (IF label \in {"delay", "ping"} THEN seconds
                       ELSE IF label \in SpinUpLabels \cup {"lookup"} THEN RetryDuration ELSE 0)

LEMMA AheadIs ==
  /\ \A t : Ahead(t) = AheadAt(pc[t], left[t]) /\ Ahead(t)' = AheadAt(pc'[t], left'[t])
  /\ \A n : /\ AheadAt(FirstStart, n) = 9 + 2 * RetryDuration
            /\ AheadAt(SecondStart, n) = 8 + 2 * RetryDuration
            /\ AheadAt("recover", n) = 7 + 2 * RetryDuration
            /\ AheadAt("recoverSet", n) = 6 + 2 * RetryDuration
            /\ AheadAt("recoverGet", n) = 5 + 2 * RetryDuration
            /\ AheadAt("recoverConnect", n) = 4 + 2 * RetryDuration
            /\ AheadAt("cacheSet", n) = 3 + 2 * RetryDuration
            /\ AheadAt("arm", n) = 2 + 2 * RetryDuration
            /\ AheadAt("lookup", n) = 2 + 2 * RetryDuration
            /\ AheadAt("ping", n) = 2 + 2 * n
            /\ AheadAt("delay", n) = 1 + 2 * n
            /\ AheadAt("armed", n) = 4 + 2 * RetryDuration
  /\ \A n \in Nat : /\ AheadAt("connect", n) = 1
                    /\ AheadAt("del", n) = 3
                    /\ AheadAt(FirstStop, n) = 2
                    /\ \A label \in StopCalls \ {FirstStop} : AheadAt(label, n) = 1
                    /\ \A label \in Quiet : AheadAt(label, n) = 0
  <1>1. \A label \in {"recover", "recoverSet", "recoverGet", "recoverConnect", "cacheSet", "arm",
                      "armed"} \cup StartCalls : label \in SpinUpLabels /\ label \notin {"delay", "ping"}
    BY CallNames DEF SpinUpLabels, OwnLabels
  <1>2. \A label \in {"connect", "del"} \cup Quiet \cup StopCalls :
          label \notin SpinUpLabels \cup {"lookup", "delay", "ping"}
    BY CallNames DEF SpinUpLabels, OwnLabels, Quiet, Answered
  <1>3. /\ Awaits(FirstStart) = 9 /\ Awaits(SecondStart) = 8
        /\ Awaits(FirstStop) = 2 /\ \A label \in StopCalls \ {FirstStop} : Awaits(label) = 1
    BY CallNames DEF Awaits
  <1>4. \A label \in OwnLabels : label \notin StartCalls \cup StopCalls
    BY CallNames
  <1>5. /\ Awaits("recover") = 7 /\ Awaits("recoverSet") = 6 /\ Awaits("recoverGet") = 5
        /\ Awaits("recoverConnect") = 4 /\ Awaits("cacheSet") = 3 /\ Awaits("arm") = 2
        /\ Awaits("lookup") = 2 /\ Awaits("ping") = 2 /\ Awaits("delay") = 1
        /\ Awaits("armed") = 4 /\ Awaits("connect") = 1 /\ Awaits("del") = 3
        /\ Awaits("idle") = 0 /\ Awaits("done") = 0 /\ Awaits("failed") = 0
    BY <1>4 DEF Awaits, OwnLabels
  <1>6. \A t : Ahead(t) = AheadAt(pc[t], left[t]) /\ Ahead(t)' = AheadAt(pc'[t], left'[t])
    BY DEF Ahead, AheadAt
  <1>7. FirstStart \in StartCalls /\ SecondStart \in StartCalls /\ FirstStop \in StopCalls
    BY CallNames
  <1>8. \A n : /\ AheadAt(FirstStart, n) = 9 + 2 * RetryDuration
               /\ AheadAt(SecondStart, n) = 8 + 2 * RetryDuration
               /\ AheadAt("recover", n) = 7 + 2 * RetryDuration
               /\ AheadAt("recoverSet", n) = 6 + 2 * RetryDuration
               /\ AheadAt("recoverGet", n) = 5 + 2 * RetryDuration
               /\ AheadAt("recoverConnect", n) = 4 + 2 * RetryDuration
               /\ AheadAt("cacheSet", n) = 3 + 2 * RetryDuration
               /\ AheadAt("arm", n) = 2 + 2 * RetryDuration
               /\ AheadAt("armed", n) = 4 + 2 * RetryDuration
    BY <1>1, <1>3, <1>5, <1>7 DEF AheadAt
  <1>9. "lookup" \notin {"delay", "ping"}
    OBVIOUS
  <1>10. \A n : /\ AheadAt("lookup", n) = 2 + 2 * RetryDuration
                /\ AheadAt("ping", n) = 2 + 2 * n
                /\ AheadAt("delay", n) = 1 + 2 * n
    BY <1>5, <1>9 DEF AheadAt
  <1>11. \A label \in Quiet : Awaits(label) = 0
    BY <1>5 DEF Quiet, Answered
  <1>12. \A n \in Nat : /\ AheadAt("connect", n) = 1
                        /\ AheadAt("del", n) = 3
                        /\ AheadAt(FirstStop, n) = 2
                        /\ \A label \in StopCalls \ {FirstStop} : AheadAt(label, n) = 1
                        /\ \A label \in Quiet : AheadAt(label, n) = 0
    <2>1. SUFFICES ASSUME NEW n \in Nat
                   PROVE  /\ AheadAt("connect", n) = 1
                          /\ AheadAt("del", n) = 3
                          /\ AheadAt(FirstStop, n) = 2
                          /\ \A label \in StopCalls \ {FirstStop} : AheadAt(label, n) = 1
                          /\ \A label \in Quiet : AheadAt(label, n) = 0
      OBVIOUS
    <2>2. AheadAt("connect", n) = 1 /\ AheadAt("del", n) = 3
      <3>1. AheadAt("connect", n) = Awaits("connect") + 2 * 0
        BY <1>2 DEF AheadAt
      <3>2. AheadAt("del", n) = Awaits("del") + 2 * 0
        BY <1>2 DEF AheadAt
      <3>3. QED
        BY <1>5, <3>1, <3>2
    <2>3. AheadAt(FirstStop, n) = 2 /\ \A label \in StopCalls \ {FirstStop} : AheadAt(label, n) = 1
      <3>1. \A label \in StopCalls : AheadAt(label, n) = Awaits(label) + 2 * 0
        BY <1>2 DEF AheadAt
      <3>2. AheadAt(FirstStop, n) = Awaits(FirstStop) + 2 * 0
        BY <1>7, <3>1
      <3>3. QED
        BY <1>3, <3>1, <3>2
    <2>4. \A label \in Quiet : AheadAt(label, n) = 0
      <3>1. \A label \in Quiet : AheadAt(label, n) = Awaits(label) + 2 * 0
        BY <1>2 DEF AheadAt
      <3>2. QED
        BY <1>11, <3>1
    <2>5. QED
      BY <2>2, <2>3, <2>4
  <1>13. \A n : /\ AheadAt(FirstStart, n) = 9 + 2 * RetryDuration
                /\ AheadAt(SecondStart, n) = 8 + 2 * RetryDuration
                /\ AheadAt("recover", n) = 7 + 2 * RetryDuration
                /\ AheadAt("recoverSet", n) = 6 + 2 * RetryDuration
                /\ AheadAt("recoverGet", n) = 5 + 2 * RetryDuration
                /\ AheadAt("recoverConnect", n) = 4 + 2 * RetryDuration
                /\ AheadAt("cacheSet", n) = 3 + 2 * RetryDuration
                /\ AheadAt("arm", n) = 2 + 2 * RetryDuration
                /\ AheadAt("lookup", n) = 2 + 2 * RetryDuration
                /\ AheadAt("ping", n) = 2 + 2 * n
                /\ AheadAt("delay", n) = 1 + 2 * n
                /\ AheadAt("armed", n) = 4 + 2 * RetryDuration
    BY <1>8, <1>10
  <1>14. QED
    BY <1>6, <1>12, <1>13, Zenon

LEMMA AheadNat ==
  ASSUME NEW label \in Labels, NEW n \in Nat
  PROVE  AheadAt(label, n) \in Nat
  <1>1. RetryDuration \in Nat
    BY ManagerAssumption
  <1>2. CASE label \in Quiet \cup StopCalls \cup {"connect", "del"}
    BY <1>2, AheadIs
  <1>3. CASE label \in {FirstStart, SecondStart, "recover", "recoverSet", "recoverGet",
                       "recoverConnect", "cacheSet", "arm", "lookup", "armed"}
    BY <1>1, <1>3, AheadIs
  <1>4. CASE label \in {"delay", "ping"}
    BY <1>4, AheadIs
  <1>5. QED
    BY <1>2, <1>3, <1>4, CallNames DEF Labels, Quiet, Answered

\* A step of thread t is one on, and no other thread moves unless it starts.
LEMMA StepAhead ==
  ASSUME ManagerInv, DelayOK, NEW t \in Threads, Step(t)
  PROVE  /\ Ahead(t)' < Ahead(t)
         /\ \A u \in Threads \ {t} : pc'[u] # pc[u] => pc[u] = "idle"
         /\ DelayOK'
  <1>0. TypeOK /\ RoleOK /\ RetryDuration \in Nat
    BY ManagerAssumption DEF ManagerInv
  <1>1. left[t] \in Nat /\ \A u \in Threads : left[u] \in Nat
    BY <1>0 DEF TypeOK
  <1>2. ASSUME NEW label, GoTo(t, label), UNCHANGED left,
               AheadAt(label, left[t]) < AheadAt(pc[t], left[t]),
               label = "delay" => left[t] # 0
        PROVE  /\ Ahead(t)' < Ahead(t)
               /\ \A u \in Threads \ {t} : pc'[u] # pc[u] => pc[u] = "idle"
               /\ DelayOK'
    <2>1. pc'[t] = label /\ \A u \in Threads \ {t} : pc'[u] = pc[u]
      BY <1>0, <1>2, MoveIs
    <2>2. Ahead(t)' < Ahead(t)
      BY <1>2, <2>1, AheadIs
    <2>3. QED
      BY <1>1, <1>2, <2>1, <2>2 DEF DelayOK
  <1>3. CASE StartCall(t) \/ StartRefused(t) \/ StartError(t)
    <2>1. pc[t] \in {FirstStart, SecondStart} /\ left' = left
      BY <1>3, CallNames DEF StartCall, StartRefused, StartError
    <2>2. \/ GoTo(t, "recover")
          \/ pc[t] = FirstStart /\ GoTo(t, SecondStart)
          \/ GoTo(t, "cacheSet")
      BY <1>3, <2>1, CallOrder, CallNames DEF StartCall, StartRefused, StartError, OwnLabels
    <2>3. SecondStart # "delay"
      BY CallNames DEF OwnLabels
    <2>4. QED
      BY <1>0, <1>1, <1>2, <2>1, <2>2, <2>3, AheadIs
  <1>4. CASE StopCall(t) \/ StopRefused(t) \/ StopError(t)
    <2>1. pc[t] \in StopCalls /\ left' = left
      BY <1>4 DEF StopCall, StopRefused, StopError
    <2>2. PICK label : /\ GoTo(t, label)
                       /\ \/ label \in Quiet
                          \/ pc[t] = FirstStop /\ label \in StopCalls \ {FirstStop}
      <3>1. Return(t) \in Quiet
        BY DEF Return, Quiet, Answered
      <3>2. \/ GoTo(t, Return(t))
            \/ /\ pc[t] = FirstStop
               /\ Following(FirstStop) \in StopCalls \ {FirstStop}
               /\ GoTo(t, Following(FirstStop))
        <4>1. \/ GoTo(t, Return(t))
              \/ Following(pc[t]) # "return" /\ GoTo(t, Following(pc[t]))
          BY <1>4 DEF StopCall, StopRefused, StopError
        <4>2. Following(pc[t]) # "return" =>
                pc[t] = FirstStop /\ Following(FirstStop) \in StopCalls \ {FirstStop}
          BY <2>1, CallOrder
        <4>3. QED
          BY <4>1, <4>2
      <3>3. QED
        BY <3>1, <3>2
    <2>3. label # "delay"
      BY <2>2, CallNames DEF OwnLabels, Quiet, Answered
    <2>4. QED
      BY <1>1, <1>2, <2>1, <2>2, <2>3, AheadIs
  <1>5. CASE Recover(t) \/ RecoverSet(t) \/ RecoverGet(t) \/ RecoverConnect(t) \/ CacheSet(t)
    <2>1. left' = left /\ "failed" \in Quiet
      BY <1>5 DEF Recover, RecoverSet, RecoverGet, RecoverConnect, CacheSet, Quiet, Answered
    <2>2. AfterRecovery(t) \in {"recoverConnect", "cacheSet"}
      BY DEF AfterRecovery
    <2>3. \/ pc[t] = "recover" /\ (GoTo(t, "recoverSet") \/ GoTo(t, AfterRecovery(t)))
          \/ pc[t] = "recover" /\ GoTo(t, "failed")
          \/ pc[t] = "recoverSet" /\ GoTo(t, "recoverGet")
          \/ pc[t] = "recoverGet" /\ (GoTo(t, "failed") \/ GoTo(t, AfterRecovery(t)))
          \/ pc[t] = "recoverConnect" /\ (GoTo(t, "failed") \/ GoTo(t, "cacheSet"))
          \/ pc[t] = "cacheSet" /\ GoTo(t, "arm")
      BY <1>5 DEF Recover, RecoverSet, RecoverGet, RecoverConnect, CacheSet
    <2>4. PICK label : /\ GoTo(t, label) /\ label # "delay"
                       /\ AheadAt(label, left[t]) < AheadAt(pc[t], left[t])
      BY <1>0, <1>1, <2>1, <2>2, <2>3, AheadIs
    <2>5. QED
      BY <1>2, <2>1, <2>4
  <1>6. CASE CacheDel(t) \/ TimerFires(t) \/ PingUnanswered(t) \/ CreateConnection(t)
    <2>1. left' = left /\ "failed" \in Quiet /\ "done" \in Quiet /\ FirstStop # "delay"
      BY <1>6, CallNames DEF CacheDel, TimerFires, PingUnanswered, CreateConnection,
         Quiet, Answered, OwnLabels
    <2>2. \/ pc[t] = "del" /\ GoTo(t, FirstStop)
          \/ pc[t] = "armed" /\ GoTo(t, "del")
          \/ pc[t] = "ping" /\ GoTo(t, "failed")
          \/ pc[t] = "ping" /\ left[t] > 0 /\ GoTo(t, "delay")
          \/ pc[t] = "connect" /\ (GoTo(t, "failed") \/ GoTo(t, "done"))
      BY <1>6 DEF CacheDel, TimerFires, PingUnanswered, CreateConnection
    <2>3. PICK label : /\ GoTo(t, label) /\ (label = "delay" => left[t] # 0)
                       /\ AheadAt(label, left[t]) < AheadAt(pc[t], left[t])
      <3>1. CASE pc[t] = "del" /\ GoTo(t, FirstStop)
        BY <1>1, <2>1, <3>1, AheadIs
      <3>2. CASE pc[t] = "armed" /\ GoTo(t, "del")
        BY <1>0, <1>1, <3>2, AheadIs
      <3>3. CASE pc[t] = "ping" /\ GoTo(t, "failed")
        <4>1. AheadAt("failed", left[t]) = 0 /\ AheadAt("ping", left[t]) = 2 + 2 * left[t]
          BY <1>1, <2>1, AheadIs
        <4>2. AheadAt("failed", left[t]) < AheadAt(pc[t], left[t]) /\ "failed" # "delay"
          BY <1>1, <3>3, <4>1
        <4>3. QED
          BY <3>3, <4>2, Zenon
      <3>4. CASE pc[t] = "ping" /\ left[t] > 0 /\ GoTo(t, "delay")
        BY <1>1, <3>4, AheadIs
      <3>5. CASE pc[t] = "connect" /\ (GoTo(t, "failed") \/ GoTo(t, "done"))
        BY <1>1, <2>1, <3>5, AheadIs
      <3>6. QED
        BY <2>2, <3>1, <3>2, <3>3, <3>4, <3>5
    <2>4. QED
      BY <1>2, <2>1, <2>3
  <1>7. CASE CacheError(t)
    <2>1. /\ left' = left /\ pc[t] \in {"recover", "recoverSet", "recoverGet", "cacheSet", "del", "lookup"}
          /\ \E label \in Quiet : GoTo(t, label)
      BY <1>7 DEF CacheError, Return, Quiet, Answered
    <2>2. PICK label \in Quiet : GoTo(t, label)
      BY <2>1
    <2>3. AheadAt(label, left[t]) < AheadAt(pc[t], left[t])
      BY <1>0, <1>1, <2>1, <2>2, AheadIs
    <2>4. QED
      BY <1>2, <2>1, <2>2, <2>3 DEF Quiet, Answered
  <1>8. ASSUME NEW n \in Nat, NEW label, GoTo(t, label), left' = [left EXCEPT ![t] = n],
               AheadAt(label, n) < AheadAt(pc[t], left[t]), label = "delay" => n # 0
        PROVE  /\ Ahead(t)' < Ahead(t)
               /\ \A u \in Threads \ {t} : pc'[u] # pc[u] => pc[u] = "idle"
               /\ DelayOK'
    <2>1. /\ pc'[t] = label /\ left'[t] = n
          /\ \A u \in Threads \ {t} : pc'[u] = pc[u] /\ left'[u] = left[u]
      BY <1>0, <1>8, MoveIs DEF TypeOK
    <2>2. Ahead(t)' < Ahead(t)
      BY <1>8, <2>1, AheadIs
    <2>3. QED
      BY <1>8, <2>1, <2>2 DEF DelayOK
  <1>9. CASE Lookup(t) \/ PingAnswered(t)
    <2>1. \/ pc[t] = "ping" /\ GoTo(t, "connect") /\ left' = [left EXCEPT ![t] = 0]
          \/ pc[t] = "lookup" /\ GoTo(t, "failed") /\ left' = left
          \/ /\ pc[t] = "lookup" /\ GoTo(t, "delay") /\ RetryDuration # 0
             /\ left' = [left EXCEPT ![t] = RetryDuration]
      BY <1>9 DEF Lookup, PingAnswered
    <2>2. CASE pc[t] = "ping" /\ GoTo(t, "connect") /\ left' = [left EXCEPT ![t] = 0]
      <3>1. AheadAt("connect", 0) < AheadAt(pc[t], left[t])
        BY <1>1, <2>2, AheadIs
      <3>2. QED
        BY <1>8, <2>2, <3>1
    <2>3. CASE pc[t] = "lookup" /\ GoTo(t, "failed") /\ left' = left
      BY <1>0, <1>1, <1>2, <2>3, AheadIs DEF Quiet, Answered
    <2>4. CASE /\ pc[t] = "lookup" /\ GoTo(t, "delay") /\ RetryDuration # 0
               /\ left' = [left EXCEPT ![t] = RetryDuration]
      <3>1. AheadAt("delay", RetryDuration) < AheadAt(pc[t], left[t])
        BY <1>0, <2>4, AheadIs
      <3>2. QED
        BY <1>0, <1>8, <2>4, <3>1
    <2>5. QED
      BY <2>1, <2>2, <2>3, <2>4
  <1>10. CASE SetSpinDownJob(t)
    <2>1. /\ pc[t] = "arm" /\ pc[Job(t[1])] = "idle" /\ pc'[t] \in {"done", "delay", "failed"}
          /\ Job(t[1]) \in Threads /\ t # Job(t[1])
          /\ pc'[Job(t[1])] \in {"armed", "idle"}
      <3>1. t[1] \in Calls /\ t = Request(t[1])
        BY <1>10, ArmSteps
      <3>2. QED
        BY <1>10, <3>1, ArmSteps, ThreadParts
    <2>2. pc'[t] = "delay" => left'[t] = RetryDuration /\ RetryDuration > 0
      BY <1>0, <1>10, <2>1 DEF SetSpinDownJob, TypeOK
    <2>3. left'[t] \in Nat
      BY <1>0, <1>10, NextType DEF Next, TypeOK
    <2>4. \A u \in Threads \ {t, Job(t[1])} : pc'[u] = pc[u] /\ left'[u] = left[u]
      BY <1>0, <1>10 DEF SetSpinDownJob, TypeOK
    <2>5. Ahead(t)' < Ahead(t)
      BY <1>0, <1>1, <2>1, <2>2, <2>3, AheadIs DEF Quiet, Answered
    <2>6. QED
      BY <1>0, <2>1, <2>2, <2>4, <2>5 DEF DelayOK
  <1>11. QED
    BY <1>3, <1>4, <1>5, <1>6, <1>7, <1>9, <1>10 DEF Step

LEMMA NextLess ==
  ASSUME ManagerInv, DelayOK, [Next]_vars
  PROVE  /\ \A t \in Threads : pc[t] \notin Quiet /\ pc'[t] # pc[t] => Ahead(t)' < Ahead(t)
         /\ DelayOK'
  <1>0. TypeOK /\ RetryDuration \in Nat
    BY ManagerAssumption DEF ManagerInv
  <1>1. ASSUME NEW t \in Threads, Step(t)
        PROVE  /\ \A u \in Threads : pc[u] \notin Quiet /\ pc'[u] # pc[u] => Ahead(u)' < Ahead(u)
               /\ DelayOK'
    <2>1. /\ Ahead(t)' < Ahead(t)
          /\ \A u \in Threads \ {t} : pc'[u] # pc[u] => pc[u] = "idle"
          /\ DelayOK'
      BY <1>1, StepAhead
    <2>2. QED
      BY <2>1 DEF Quiet
  <1>2. ASSUME NEW c \in Calls, SpinUp(c) \/ SpinDown(c) \/ Connect(c)
        PROVE  /\ \A u \in Threads : pc[u] \notin Quiet /\ pc'[u] # pc[u] => Ahead(u)' < Ahead(u)
               /\ DelayOK'
    <2>1. /\ left' = left /\ pc[Request(c)] \in Quiet
          /\ \A u \in Threads \ {Request(c)} : pc'[u] = pc[u]
      BY <1>2, RequestSteps
    <2>2. pc'[Request(c)] # "delay"
      <3>1. \E op, r : \E label \in {FirstStart, "del", "lookup"} : Issue(c, op, r, label)
        BY <1>2 DEF SpinUp, SpinDown, Connect
      <3>2. PICK label \in {FirstStart, "del", "lookup"} : GoTo(Request(c), label)
        BY <3>1 DEF Issue
      <3>3. QED
        BY <1>0, <3>2, MoveIs, ThreadParts, CallNames DEF OwnLabels
    <2>3. QED
      BY <2>1, <2>2 DEF DelayOK
  <1>3. CASE (\E a \in Agents : AgentBoots(a) \/ AgentExits(a)) \/ UNCHANGED vars
    <2>1. UNCHANGED <<pc, left>>
      BY <1>3 DEF AgentBoots, AgentExits, vars
    <2>2. QED
      BY <2>1 DEF DelayOK
  <1>4. CASE Crash
    <2>1. \A t \in Threads : pc'[t] = pc[t] \/ pc'[t] = "idle"
      BY <1>4 DEF Crash
    <2>2. \A t \in Threads : pc'[t] # "delay" /\ (pc[t] \in Quiet \/ pc'[t] = "idle") /\ left'[t] = 0
      BY <1>4 DEF Crash, Quiet, Answered
    <2>3. ASSUME NEW t \in Threads, pc[t] \notin Quiet
          PROVE  Ahead(t)' < Ahead(t)
      <3>1. Ahead(t)' = 0
        BY <2>2, <2>3, AheadIs DEF Quiet
      <3>2. left[t] \in Nat /\ pc[t] \in Labels \ Quiet
        BY <1>0, <2>3 DEF TypeOK
      <3>3. pc[t] \in {FirstStart, SecondStart} \cup StopCalls
                \cup {"recover", "recoverSet", "recoverGet", "recoverConnect", "cacheSet", "arm",
                      "delay", "ping", "connect", "lookup", "armed", "del"}
        BY <3>2, CallNames DEF Labels, Quiet, Answered
      <3>4. QED
        BY <1>0, <3>1, <3>2, <3>3, AheadIs
    <2>4. QED
      BY <2>2, <2>3 DEF DelayOK
  <1>5. CASE Tick
    <2>1. ASSUME NEW t \in Threads
          PROVE  /\ left'[t] = Elapse(left[t]) /\ left[t] \in Nat
                 /\ pc'[t] = IF pc[t] = "delay" THEN "ping" ELSE pc[t]
      BY <1>0, <1>5 DEF Tick, TypeOK
    <2>2. ASSUME NEW t \in Threads, pc'[t] # pc[t]
          PROVE  Ahead(t)' < Ahead(t)
      <3>1. pc[t] = "delay" /\ pc'[t] = "ping" /\ left[t] \in Nat \ {0}
        BY <2>1, <2>2 DEF DelayOK
      <3>2. left'[t] = left[t] - 1
        BY <2>1, <3>1, ConfigAssumption DEF Elapse
      <3>3. QED
        BY <3>1, <3>2, AheadIs
    <2>3. QED
      BY <2>1, <2>2 DEF DelayOK
  <1>6. QED
    BY <1>1, <1>2, <1>3, <1>4, <1>5 DEF Next

LEMMA NextAhead ==
  ASSUME ManagerInv, DelayOK, [Next]_vars
  PROVE  /\ \A t \in Threads :
              pc[t] \notin Quiet /\ pc'[t] # pc[t] => Ahead(t)' \in 0 .. Ahead(t) - 1
         /\ DelayOK'
  <1>1. /\ \A t \in Threads : pc[t] \notin Quiet /\ pc'[t] # pc[t] => Ahead(t)' < Ahead(t)
        /\ DelayOK'
    BY NextLess
  <1>2. \A t \in Threads : Ahead(t) \in Nat /\ Ahead(t)' \in Nat
    <2>1. TypeOK /\ TypeOK'
      BY NextType DEF ManagerInv
    <2>2. \A t \in Threads : /\ pc[t] \in Labels /\ left[t] \in Nat
                            /\ pc'[t] \in Labels /\ left'[t] \in Nat
      BY <2>1 DEF TypeOK
    <2>3. QED
      BY <2>2, AheadIs, AheadNat
  <1>3. QED
    BY <1>1, <1>2

\* The part of EveryCallAnswers that needs no fairness: whatever other
\* requests, timers, faults and restarts do, each of the steps of a request or
\* a timer brings it nearer its end, and it has 9 + 2 * RetryDuration at most.
THEOREM RequestsRunOut == Spec => StepsRunOut
  <1>1. Init => ManagerInv /\ DelayOK
    BY InitType, InitParts DEF ManagerInv, DelayOK, Init
  <1>2. ManagerInv /\ DelayOK /\ [Next]_vars => ManagerInv' /\ DelayOK'
    BY NextType, RoleStep, HalfStep, NextAhead DEF ManagerInv
  <1>3. ManagerInv /\ DelayOK /\ [Next]_vars =>
          \A t \in Threads :
            pc[t] \notin Quiet /\ pc'[t] # pc[t] => Ahead(t)' \in 0 .. Ahead(t) - 1
    BY NextAhead
  <1>4. QED
    BY <1>1, <1>2, <1>3, PTL DEF Spec, StepsRunOut
============================================================================
