------------------------ MODULE AgentManager_proofs ------------------------
(***************************************************************************)
(* Proofs about AgentManager for any sets of agents, request slots, keys,  *)
(* ports and ttls, for both managers, and whatever faults happen.          *)
(***************************************************************************)
EXTENDS AgentManager, TLAPS

---------------------------------------------------------------------------
(* What the two managers have in common. *)

\* What startAgent has made after its first call.
Half == IF IsDocker THEN {"container"} ELSE {"pod"}

\* Its second call.
SecondStart == IF IsDocker THEN "startContainer" ELSE "createService"

\* The labels that are not calls to the container host.
OwnLabels ==
  {"idle", "done", "failed", "recover", "recoverSet", "recoverGet", "recoverConnect",
   "cacheSet", "arm", "delay", "ping", "connect", "lookup", "armed", "del", "return"}

\* The calls of a start and of a stop are told apart by their names.
LEMMA CallNames ==
  /\ StartCalls = {FirstStart, SecondStart}
  /\ FirstStart # SecondStart
  /\ FirstStop \in StopCalls
  /\ StartCalls \cap StopCalls = {}
  /\ (StartCalls \cup StopCalls) \cap OwnLabels = {}
  BY DEF StartCalls, StopCalls, FirstStart, FirstStop, SecondStart, OwnLabels, IsDocker,
         Docker!FirstStart, Docker!FirstStop, Docker!StartCalls, Docker!StopCalls,
         K8s!FirstStart, K8s!FirstStop, K8s!StartCalls, K8s!StopCalls

\* The order of the calls: start has two, stop has one or two.
LEMMA CallOrder ==
  /\ Following(FirstStart) = SecondStart
  /\ Following(SecondStart) = "return"
  /\ Following(FirstStop) \in (StopCalls \ {FirstStop}) \cup {"return"}
  /\ \A call \in StopCalls \ {FirstStop} : Following(call) = "return"
  BY DEF StopCalls, FirstStart, FirstStop, SecondStart, IsDocker, Following,
         Docker!FirstStart, Docker!FirstStop, Docker!StopCalls, Docker!Following,
         K8s!FirstStart, K8s!FirstStop, K8s!StopCalls, K8s!Following

\* What an agent may have on the host.
Stages == {{}, Half, Full}

LEMMA StagesDiffer == Half # {} /\ Full # {} /\ Half # Full
  BY DEF Half, Full, IsDocker, Docker!Full, K8s!Full

\* A start goes from nothing to all by way of half, and is refused elsewhere.
LEMMA StartCallsWork ==
  /\ \A objs \in Stages : Accepts(FirstStart, objs) <=> objs = {}
  /\ After(FirstStart, {}) = Half
  /\ Accepts(SecondStart, Half)
  /\ After(SecondStart, Half) = Full
  BY DEF Stages, Half, Full, FirstStart, SecondStart, IsDocker, Accepts, After,
         Docker!FirstStart, Docker!Full, Docker!Accepts, Docker!After,
         K8s!FirstStart, K8s!StartCalls, K8s!Object, K8s!Full, K8s!Accepts, K8s!After

\* A stop goes from all to nothing, perhaps by way of half.
LEMMA StopCallsWork ==
  /\ \A objs \in Stages : Accepts(FirstStop, objs) <=> objs = Full
  /\ After(FirstStop, Full) = IF Following(FirstStop) = "return" THEN {} ELSE Half
  /\ \A call \in StopCalls \ {FirstStop} : Accepts(call, Half) /\ After(call, Half) = {}
  BY DEF Stages, Half, Full, FirstStop, StopCalls, IsDocker, Accepts, After, Following,
         Docker!FirstStop, Docker!Full, Docker!StopCalls, Docker!Accepts, Docker!After,
         Docker!Following,
         K8s!FirstStop, K8s!Full, K8s!StartCalls, K8s!StopCalls, K8s!Object, K8s!Accepts, K8s!After, K8s!Following

\* An agent whose process ended is still all there, or gone.
LEMMA ExitWorks == Exit(Full) \in {{}, Full}
  BY DEF Exit, Full, IsDocker, Docker!Exit, K8s!Exit
---------------------------------------------------------------------------
(* Types. *)

LEMMA ThreadParts ==
  /\ \A t \in Threads : t[1] \in Calls /\ t[2] \in {"call", "job"} /\ t = <<t[1], t[2]>>
  /\ \A c \in Calls : Request(c) \in Threads /\ Job(c) \in Threads
                        /\ Request(c)[1] = c /\ Job(c)[1] = c
                        /\ Request(c)[2] = "call" /\ Job(c)[2] = "job"
  BY DEF Threads, Request, Job

\* A ttl is an integer or Infinity, and only an integer has a timer.
LEMMA TtlType ==
  /\ \A ttl \in Ttls : ttl \in Int \cup {Infinity}
  /\ \A ttl \in Ttls : HasTimer(ttl) => ttl \in Nat \ {0}
  <1>1. \A ttl \in Ttls : ttl \in Int \cup {Infinity}
    BY ConfigAssumption, ManagerAssumption DEF Ttls, Ttl
  <1>2. QED
    BY <1>1 DEF HasTimer

\* What a ttl becomes in the cache and in a timer, and what a second does.
LEMMA TimeTypes ==
  /\ \A ttl \in Ttls : CacheLifetime(ttl) \in Time
  /\ \A ttl \in Ttls : HasTimer(ttl) => TimerDelay(ttl) \in Nat
  /\ \A time \in Time : Elapse(time) \in Time
  /\ \A time \in Nat : Elapse(time) \in Nat
  /\ \A time \in Time : Elapse(time) = Infinity <=> time = Infinity
  BY TtlType, ConfigAssumption DEF CacheLifetime, TimerDelay, Elapse, Time

\* No call leaves an object that belongs to no agent.
LEMMA AfterType ==
  ASSUME NEW objs \in SUBSET Full, NEW call \in StartCalls \cup StopCalls
  PROVE  After(call, objs) \in SUBSET Full
  BY DEF After, Full, StartCalls, StopCalls, IsDocker,
         Docker!After, Docker!Full, Docker!StartCalls, Docker!StopCalls,
         K8s!After, K8s!Full, K8s!StartCalls, K8s!StopCalls, K8s!Object

LEMMA GoneType == Gone \in HostType
  BY DEF Gone, HostType, KeyType, PortType, Time

LEMMA LabelTypes ==
  /\ StartCalls \cup StopCalls \subseteq Labels
  /\ \A call \in StartCalls \cup StopCalls : Following(call) \in Labels \cup {"return"}
  /\ FirstStart \in StartCalls
  /\ FirstStop \in StopCalls
  BY CallNames, CallOrder DEF Labels

\* What the calls to the host leave.
LEMMA StartedType ==
  ASSUME TypeOK, NEW t \in Threads, pc[t] \in StartCalls
  PROVE  Started(t) \in HostType
  <1>1. Arg(t) \in ArgType /\ Arg(t).ttl \in Ttls
    BY CallNames DEF TypeOK, SpinUpLabels, OwnLabels
  <1>2. host[Ag(t)].objs \in SUBSET Full
    BY <1>1 DEF TypeOK, HostType, ArgType, Ag, Arg
  <1>3. After(pc[t], host[Ag(t)].objs) \in SUBSET Full
    BY <1>2, AfterType
  <1>4. (IF HasTimer(Arg(t).ttl) THEN Arg(t).ttl ELSE Infinity) \in Time
    BY <1>1, TtlType DEF Time
  <1>5. Arg(t).key \in KeyType /\ Arg(t).port \in PortType
    BY <1>1 DEF ArgType
  <1>6. QED
    BY <1>3, <1>4, <1>5, ThreadParts DEF Started, HostType

LEMMA StoppedType ==
  ASSUME TypeOK, NEW t \in Threads, pc[t] \in StopCalls
  PROVE  Stopped(t) \in HostType
  <1>1. Arg(t) \in ArgType
    BY CallNames DEF TypeOK, OwnLabels
  <1>2. host[Ag(t)] \in HostType
    BY <1>1 DEF TypeOK, ArgType, Ag, Arg
  <1>3. After(pc[t], host[Ag(t)].objs) \in SUBSET Full
    BY <1>2, AfterType DEF HostType
  <1>4. QED
    BY <1>2, <1>3, GoneType DEF Stopped, HostType

LEMMA EntryTypes ==
  ASSUME TypeOK, NEW t \in Threads, pc[t] \in SpinUpLabels
  PROVE  Entry(t) \in CacheType \cup {None}
  <1>1. Arg(t) \in ArgType /\ Arg(t).ttl \in Ttls
    BY CallNames DEF TypeOK, SpinUpLabels, OwnLabels
  <1>2. CacheLifetime(Arg(t).ttl) \in Time
    BY <1>1, TimeTypes
  <1>3. QED
    BY <1>1, <1>2 DEF Entry, CacheType, ArgType

\* The part of TypeOK that says what a thread at work works with.
WorkOK ==
  /\ \A t \in Threads : pc[t] # "idle" => Arg(t) \in ArgType
  /\ \A t \in Threads : pc[t] \in SpinUpLabels => Arg(t).ttl \in Ttls

\* A thread's own step: it moves to a label it has the arguments for.
LEMMA MoveType ==
  ASSUME TypeOK, NEW t \in Threads, NEW label \in Labels, GoTo(t, label),
         UNCHANGED arg, pc[t] # "idle" \/ label = "idle",
         label \in SpinUpLabels => pc[t] \in SpinUpLabels
  PROVE  pc' \in [Threads -> Labels] /\ arg' \in [Calls -> ArgType \cup {None}] /\ WorkOK'
  BY DEF TypeOK, WorkOK, GoTo, Arg

LEMMA TouchType ==
  ASSUME TypeOK, NEW a \in Agents, Untouched(a) \/ Touched(a)
  PROVE  faulted' \subseteq Agents
  BY DEF TypeOK, Untouched, Touched

LEMMA HostCallType ==
  ASSUME TypeOK, NEW t \in Threads,
         StartCall(t) \/ StartError(t) \/ StopCall(t) \/ StopError(t)
  PROVE  TypeOK'
  <1>1. pc[t] \in StartCalls \cup StopCalls
    BY DEF StartCall, StartError, StopCall, StopError
  <1>2. Ag(t) \in Agents
    BY <1>1, CallNames DEF TypeOK, OwnLabels, Ag, Arg, ArgType
  <1>3. host' \in [Agents -> HostType]
    BY <1>2, StartedType, StoppedType, GoneType DEF TypeOK, StartCall, StartError, StopCall, StopError
  <1>4. faulted' \subseteq Agents
    BY <1>2, TouchType DEF StartCall, StartError, StopCall, StopError
  <1>5. pc' \in [Threads -> Labels] /\ arg' \in [Calls -> ArgType \cup {None}] /\ WorkOK'
    <2>1. CASE StartCall(t)
      <3>1. GoTo(t, "cacheSet") \/ (GoTo(t, Following(pc[t])) /\ Following(pc[t]) = SecondStart)
        BY <2>1, CallNames, CallOrder DEF StartCall
      <3>2. QED
        BY <2>1, <3>1, CallNames, LabelTypes, MoveType DEF StartCall, Labels, SpinUpLabels, OwnLabels
    <2>2. CASE StartError(t)
      BY <2>2, CallNames, LabelTypes, MoveType DEF StartError, Labels, SpinUpLabels, OwnLabels
    <2>3. CASE StopCall(t)
      <3>1. \E label \in StopCalls \cup {"done", "idle"} : GoTo(t, label)
        BY <2>3, CallOrder, ThreadParts DEF StopCall, Return
      <3>2. QED
        BY <2>3, <3>1, CallNames, LabelTypes, MoveType DEF StopCall, Labels, SpinUpLabels, OwnLabels
    <2>4. CASE StopError(t)
      BY <2>4, CallNames, LabelTypes, MoveType DEF StopError, Labels, SpinUpLabels, OwnLabels, Return
    <2>5. QED
      BY <2>1, <2>2, <2>3, <2>4
  <1>6. cache' = cache /\ left' = left /\ upset' = upset
    BY DEF StartCall, StartError, StopCall, StopError
  <1>7. QED
    BY <1>3, <1>4, <1>5, <1>6 DEF TypeOK, WorkOK

LEMMA CacheStepType ==
  ASSUME TypeOK, NEW t \in Threads,
         RecoverSet(t) \/ CacheSet(t) \/ CacheDel(t)
  PROVE  TypeOK'
  <1>1. Ag(t) \in Agents
    BY CallNames DEF TypeOK, OwnLabels, Ag, Arg, ArgType, RecoverSet, CacheSet, CacheDel
  <1>2. cache' \in [Agents -> CacheType \cup {None}]
    BY <1>1, EntryTypes DEF TypeOK, RecoverSet, CacheSet, CacheDel, SetAgentCache, SpinUpLabels
  <1>3. upset' \subseteq Agents
    BY <1>1 DEF TypeOK, RecoverSet, CacheSet, CacheDel, SetAgentCache
  <1>4. pc' \in [Threads -> Labels] /\ arg' \in [Calls -> ArgType \cup {None}] /\ WorkOK'
    BY MoveType, CallNames, LabelTypes
    DEF RecoverSet, CacheSet, CacheDel, SpinUpLabels, Labels, OwnLabels
  <1>5. QED
    BY <1>2, <1>3, <1>4 DEF TypeOK, WorkOK, RecoverSet, CacheSet, CacheDel

\* The steps that only move the thread's label.
LEMMA MoveOnlyType ==
  ASSUME TypeOK, NEW t \in Threads,
         \/ StartRefused(t) \/ StopRefused(t) \/ Recover(t) \/ RecoverGet(t) \/ RecoverConnect(t)
         \/ CacheError(t) \/ TimerFires(t) \/ PingAnswered(t) \/ PingUnanswered(t)
         \/ CreateConnection(t)
  PROVE  TypeOK'
  <1>1. pc' \in [Threads -> Labels] /\ arg' \in [Calls -> ArgType \cup {None}] /\ WorkOK'
    <2>1. CASE StartRefused(t) \/ StopRefused(t)
      BY <2>1, MoveType, CallNames DEF StartRefused, StopRefused, Return, SpinUpLabels, Labels, OwnLabels
    <2>2. CASE Recover(t) \/ RecoverGet(t) \/ RecoverConnect(t)
      BY <2>2, MoveType, CallNames
      DEF Recover, RecoverGet, RecoverConnect, AfterRecovery, SpinUpLabels, Labels, OwnLabels
    <2>3. CASE CacheError(t)
      BY <2>3, MoveType, CallNames DEF CacheError, Return, SpinUpLabels, Labels, OwnLabels
    <2>4. CASE TimerFires(t) \/ PingAnswered(t) \/ PingUnanswered(t) \/ CreateConnection(t)
      BY <2>4, MoveType, CallNames
      DEF TimerFires, PingAnswered, PingUnanswered, CreateConnection, SpinUpLabels, Labels, OwnLabels
    <2>5. QED
      BY <2>1, <2>2, <2>3, <2>4
  <1>2. faulted' \subseteq Agents
    <2>1. CASE CacheError(t)
      <3>1. Ag(t) \in Agents
        BY <2>1, CallNames DEF TypeOK, OwnLabels, Ag, Arg, ArgType, CacheError
      <3>2. QED
        BY <2>1, <3>1, TouchType DEF CacheError, TypeOK
    <2>2. CASE ~CacheError(t)
      BY <2>2 DEF TypeOK, StartRefused, StopRefused, Recover, RecoverGet, RecoverConnect,
                  TimerFires, PingAnswered, PingUnanswered, CreateConnection
    <2>3. QED
      BY <2>1, <2>2
  <1>3. left' \in [Threads -> Nat]
    BY DEF TypeOK, StartRefused, StopRefused, Recover, RecoverGet, RecoverConnect, CacheError,
           TimerFires, PingAnswered, PingUnanswered, CreateConnection
  <1>4. host' = host /\ cache' = cache /\ upset' = upset
    BY DEF StartRefused, StopRefused, Recover, RecoverGet, RecoverConnect, CacheError,
           TimerFires, PingAnswered, PingUnanswered, CreateConnection
  <1>5. QED
    BY <1>1, <1>2, <1>3, <1>4 DEF TypeOK, WorkOK

LEMMA LookupType ==
  ASSUME TypeOK, NEW t \in Threads, Lookup(t)
  PROVE  TypeOK'
  <1>1. t[1] \in Calls /\ Arg(t) \in ArgType /\ Ag(t) \in Agents
    BY ThreadParts DEF TypeOK, Lookup, Ag, Arg, ArgType
  <1>2. (IF cache[Ag(t)] = None THEN AGENT_ADMIN_PORT ELSE cache[Ag(t)].port) \in PortType
    BY <1>1 DEF TypeOK, CacheType, PortType
  <1>3. arg' \in [Calls -> ArgType \cup {None}] /\ arg'[t[1]] \in ArgType
        /\ arg'[t[1]].ttl = arg[t[1]].ttl /\ \A c \in Calls \ {t[1]} : arg'[c] = arg[c]
    BY <1>1, <1>2 DEF TypeOK, Lookup, Arg, ArgType
  <1>4. pc' \in [Threads -> Labels] /\ left' \in [Threads -> Nat]
    BY ManagerAssumption DEF TypeOK, Lookup, GoTo, Labels
  <1>5. WorkOK'
    <2>1. \E label \in {"failed", "delay"} : GoTo(t, label)
      BY DEF Lookup
    <2>2. ASSUME NEW u \in Threads, pc'[u] # "idle"
          PROVE  Arg(u)' \in ArgType
      <3>1. pc[u] # "idle"
        BY <2>1, <2>2 DEF TypeOK, GoTo, Lookup
      <3>2. QED
        BY <3>1, <1>3, ThreadParts DEF TypeOK, Arg
    <2>3. ASSUME NEW u \in Threads, pc'[u] \in SpinUpLabels
          PROVE  Arg(u)'.ttl \in Ttls
      <3>1. pc[u] \in SpinUpLabels
        BY <2>1, <2>3, CallNames DEF TypeOK, GoTo, SpinUpLabels, OwnLabels
      <3>2. QED
        BY <3>1, <1>3, ThreadParts DEF TypeOK, Arg
    <2>4. QED
      BY <2>2, <2>3 DEF WorkOK
  <1>6. QED
    BY <1>3, <1>4, <1>5 DEF TypeOK, WorkOK, Lookup

LEMMA ArmType ==
  ASSUME TypeOK, NEW t \in Threads, SetSpinDownJob(t)
  PROVE  TypeOK'
  <1>1. /\ t[1] \in Calls /\ Arg(t) \in ArgType /\ Arg(t).ttl \in Ttls
        /\ Job(t[1]) \in Threads /\ Job(t[1])[1] = t[1]
    BY ThreadParts DEF TypeOK, SetSpinDownJob, Arg, SpinUpLabels
  <1>2. HasTimer(Arg(t).ttl) => TimerDelay(Arg(t).ttl) \in Nat
    BY <1>1, TimeTypes
  <1>3. left' \in [Threads -> Nat]
    BY <1>1, <1>2, ManagerAssumption DEF TypeOK, SetSpinDownJob
  <1>4. pc' \in [Threads -> Labels]
    BY <1>1 DEF TypeOK, SetSpinDownJob, Labels
  <1>5. WorkOK'
    BY <1>1, CallNames DEF TypeOK, WorkOK, SetSpinDownJob, Arg, SpinUpLabels, OwnLabels
  <1>6. QED
    BY <1>3, <1>4, <1>5 DEF TypeOK, WorkOK, SetSpinDownJob

LEMMA IssueType ==
  ASSUME TypeOK, NEW c \in Calls, NEW op, NEW r \in ArgType, NEW label \in Labels,
         label \in SpinUpLabels => r.ttl \in Ttls,
         Issue(c, op, r, label)
  PROVE  TypeOK'
  <1>1. Request(c) \in Threads /\ Job(c) \in Threads
    BY ThreadParts
  <1>2. pc' \in [Threads -> Labels] /\ arg' \in [Calls -> ArgType \cup {None}]
    BY <1>1 DEF TypeOK, Issue, GoTo
  <1>3. \A t \in Threads : t[1] = c => t = Request(c) \/ t = Job(c)
    BY ThreadParts DEF Request, Job
  <1>4. WorkOK'
    <2>1. ASSUME NEW t \in Threads, t[1] # c
          PROVE  pc'[t] = pc[t] /\ Arg(t)' = Arg(t)
      BY <2>1, ThreadParts DEF TypeOK, Issue, GoTo, Arg
    <2>2. Arg(Request(c))' = r /\ Arg(Job(c))' = r
      BY ThreadParts DEF TypeOK, Issue, Arg
    <2>3. pc'[Request(c)] = label
      BY ThreadParts DEF TypeOK, Issue, GoTo
    <2>4. pc'[Job(c)] = "idle"
      BY ThreadParts DEF TypeOK, Issue, GoTo, Request, Job
    <2>5. "idle" \notin SpinUpLabels
      BY CallNames DEF SpinUpLabels, OwnLabels
    <2>6. QED
      BY <1>3, <2>1, <2>2, <2>3, <2>4, <2>5 DEF TypeOK, WorkOK
  <1>5. QED
    BY <1>2, <1>4 DEF TypeOK, WorkOK, Issue

LEMMA RequestsType ==
  ASSUME TypeOK, NEW c \in Calls, SpinUp(c) \/ SpinDown(c) \/ Connect(c)
  PROVE  TypeOK'
  <1>1. CASE SpinUp(c)
    <2>1. PICK a \in Agents, key \in Keys, port \in DtoPorts, ttl \in DtoTtls, auto \in Autos :
            Issue(c, "spinUp",
                  [agent |-> a, key |-> key, port |-> AdminPort(port), ttl |-> Ttl(ttl), auto |-> auto],
                  FirstStart)
      BY <1>1 DEF SpinUp
    <2>2. [agent |-> a, key |-> key, port |-> AdminPort(port), ttl |-> Ttl(ttl), auto |-> auto] \in ArgType
      BY ManagerAssumption DEF ArgType, KeyType, PortType, Ttls
    <2>3. Ttl(ttl) \in Ttls
      BY DEF Ttls
    <2>4. QED
      BY <2>1, <2>2, <2>3, IssueType, LabelTypes
  <1>2. CASE SpinDown(c)
    <2>1. PICK a \in Agents :
            Issue(c, "spinDown",
                  [agent |-> a, key |-> None, port |-> None, ttl |-> None, auto |-> FALSE], "del")
      BY <1>2 DEF SpinDown
    <2>2. [agent |-> a, key |-> None, port |-> None, ttl |-> None, auto |-> FALSE] \in ArgType
      BY DEF ArgType, KeyType, PortType, Ttls
    <2>3. "del" \in Labels /\ "del" \notin SpinUpLabels
      BY CallNames DEF Labels, SpinUpLabels, OwnLabels
    <2>4. QED
      BY <2>1, <2>2, <2>3, IssueType
  <1>3. CASE Connect(c)
    <2>1. PICK a \in Agents, key \in Keys :
            Issue(c, "connect",
                  [agent |-> a, key |-> key, port |-> None, ttl |-> None, auto |-> TRUE], "lookup")
      BY <1>3 DEF Connect
    <2>2. [agent |-> a, key |-> key, port |-> None, ttl |-> None, auto |-> TRUE] \in ArgType
      BY DEF ArgType, KeyType, PortType, Ttls
    <2>3. "lookup" \in Labels /\ "lookup" \notin SpinUpLabels
      BY CallNames DEF Labels, SpinUpLabels, OwnLabels
    <2>4. QED
      BY <2>1, <2>2, <2>3, IssueType
  <1>4. QED
    BY <1>1, <1>2, <1>3

LEMMA EnvironmentType ==
  ASSUME TypeOK,
         (\E a \in Agents : AgentBoots(a) \/ AgentExits(a)) \/ Crash \/ Tick
  PROVE  TypeOK'
  <1>1. CASE \E a \in Agents : AgentBoots(a)
    <2>1. PICK a \in Agents : AgentBoots(a)
      BY <1>1
    <2>2. host' \in [Agents -> HostType]
      <3>1. host \in [Agents -> HostType] /\ host' = [host EXCEPT ![a] = [host[a] EXCEPT !.ready = TRUE]]
        BY <2>1 DEF AgentBoots, TypeOK
      <3>2. [host[a] EXCEPT !.ready = TRUE] \in HostType
        BY <3>1 DEF HostType
      <3>3. QED
        BY <3>1, <3>2
    <2>3. UNCHANGED <<cache, pc, left, arg, faulted, upset>>
      BY <2>1 DEF AgentBoots
    <2>4. QED
      BY <2>2, <2>3 DEF TypeOK, Arg
  <1>2. CASE \E a \in Agents : AgentExits(a)
    <2>1. PICK a \in Agents : AgentExits(a)
      BY <1>2
    <2>2. host' \in [Agents -> HostType]
      <3>1. PICK h \in {Gone, [host[a] EXCEPT !.ready = FALSE]} : host' = [host EXCEPT ![a] = h]
        BY <2>1 DEF AgentExits
      <3>2. host \in [Agents -> HostType]
        BY DEF TypeOK
      <3>3. [host[a] EXCEPT !.ready = FALSE] \in HostType
        BY <3>2 DEF HostType
      <3>4. QED
        BY <3>1, <3>2, <3>3, GoneType
    <2>3. faulted' \subseteq Agents
      BY <2>1, TouchType DEF AgentExits
    <2>4. QED
      BY <2>1, <2>2, <2>3 DEF AgentExits, TypeOK, Arg
  <1>3. CASE Crash
    BY <1>3, CallNames DEF Crash, TypeOK, Arg, Labels, SpinUpLabels, OwnLabels, Answered
  <1>4. CASE Tick
    <2>1. left' \in [Threads -> Nat]
      BY <1>4, TimeTypes DEF Tick, TypeOK
    <2>2. pc' \in [Threads -> Labels] /\ WorkOK'
      BY <1>4, CallNames DEF Tick, TypeOK, WorkOK, Arg, Labels, SpinUpLabels, OwnLabels
    <2>3. cache' \in [Agents -> CacheType \cup {None}]
      BY <1>4, TimeTypes DEF Tick, TypeOK, CacheType
    <2>4. host' \in [Agents -> HostType]
      <3>1. ASSUME NEW a \in Agents
            PROVE  [host[a] EXCEPT !.lease = Elapse(@)] \in HostType
        <4>1. host[a] \in HostType
          BY DEF TypeOK
        <4>2. Elapse(host[a].lease) \in Time
          BY <4>1, TimeTypes DEF HostType
        <4>3. QED
          BY <4>1, <4>2 DEF HostType
      <3>2. QED
        BY <1>4, <3>1 DEF Tick
    <2>5. QED
      BY <1>4, <2>1, <2>2, <2>3, <2>4 DEF Tick, TypeOK, WorkOK
  <1>5. QED
    BY <1>1, <1>2, <1>3, <1>4

LEMMA InitType == Init => TypeOK
  BY GoneType, CallNames
  DEF Init, TypeOK, Labels, SpinUpLabels, OwnLabels

LEMMA NextType == TypeOK /\ [Next]_vars => TypeOK'
  <1> SUFFICES ASSUME TypeOK, [Next]_vars
               PROVE  TypeOK'
    OBVIOUS
  <1>1. ASSUME NEW c \in Calls, SpinUp(c) \/ SpinDown(c) \/ Connect(c)
        PROVE  TypeOK'
    BY <1>1, RequestsType
  <1>2. ASSUME NEW t \in Threads, Step(t)
        PROVE  TypeOK'
    BY <1>2, HostCallType, CacheStepType, MoveOnlyType, LookupType, ArmType DEF Step
  <1>3. CASE (\E a \in Agents : AgentBoots(a) \/ AgentExits(a)) \/ Crash \/ Tick
    BY <1>3, EnvironmentType
  <1>4. CASE UNCHANGED vars
    BY <1>4 DEF vars, TypeOK, Arg
  <1>5. QED
    BY <1>1, <1>2, <1>3, <1>4 DEF Next

\* In every behaviour the variables keep their types: whatever the code
\* writes to the cache, the timers and the retries is a lifetime, a delay and
\* a duration, for every ttl that a request may carry.
THEOREM TypeCorrect == Spec => []TypeOK
  BY InitType, NextType, PTL DEF Spec

---------------------------------------------------------------------------
(* Half-made agents. *)

\* The labels of a thread between the two calls of a start or of a stop.
HalfLabels == {SecondStart} \cup (StopCalls \ {FirstStop})

\* NoHalfAgents is not inductive: that a second call is never refused depends
\* on what exactly the first one left, and that on the stages being three.
HalfOK ==
  /\ \A a \in Agents : host[a].objs \in Stages
  /\ \A t \in Threads : pc[t] \in HalfLabels => host[Ag(t)].objs = Half
  /\ \A t, u \in Threads :
       pc[t] \in HalfLabels /\ pc[u] \in HalfLabels /\ Ag(t) = Ag(u) => t = u
  /\ \A a \in Agents :
       host[a].objs = Half =>
         a \in faulted \/ \E t \in Threads : pc[t] \in HalfLabels /\ Ag(t) = a

LEMMA HalfwayLabels == \A t \in Threads : Halfway(t) <=> pc[t] \in HalfLabels
  BY CallNames DEF Halfway, HalfStart, HalfStop, HalfLabels

LEMMA HalfNames ==
  /\ HalfLabels \subseteq StartCalls \cup StopCalls
  /\ FirstStart \notin HalfLabels /\ FirstStop \notin HalfLabels
  /\ HalfLabels \cap OwnLabels = {}
  BY CallNames DEF HalfLabels

LEMMA HalfImplies == TypeOK /\ HalfOK => NoHalfAgents
  BY HalfwayLabels, StagesDiffer DEF HalfOK, NoHalfAgents, Stages

\* A step that leaves the objects of all agents and the half-way threads alone.
HalfSame ==
  /\ \A a \in Agents : host'[a].objs = host[a].objs
  /\ \A t \in Threads :
       pc'[t] = pc[t] \/ (pc[t] \notin HalfLabels /\ pc'[t] \notin HalfLabels)
  /\ \A t \in Threads : pc[t] \in HalfLabels => Ag(t)' = Ag(t) /\ Ag(t) \in Agents

LEMMA HalfFrame ==
  ASSUME HalfOK, HalfSame,
         \A a \in Agents : host[a].objs = Half /\ a \in faulted => a \in faulted'
  PROVE  HalfOK'
  BY DEF HalfOK, HalfSame

\* A step of thread t that changes its own agent's objects.
LEMMA HalfHostStep ==
  ASSUME TypeOK, HalfOK, NEW t \in Threads, NEW r, NEW label,
         Ag(t) \in Agents,
         host' = [host EXCEPT ![Ag(t)] = r],
         GoTo(t, label),
         UNCHANGED arg,
         \A u \in Threads \ {t} : pc[u] \in HalfLabels => Ag(u) # Ag(t),
         r.objs \in Stages,
         label \in HalfLabels => r.objs = Half,
         r.objs = Half => label \in HalfLabels \/ Ag(t) \in faulted',
         \A b \in Agents \ {Ag(t)} : b \in faulted => b \in faulted'
  PROVE  HalfOK'
  <1>1. \A u \in Threads : Ag(u)' = Ag(u)
    BY DEF Ag
  <1>2. pc'[t] = label /\ \A u \in Threads \ {t} : pc'[u] = pc[u]
    BY DEF GoTo, TypeOK
  <1>3. host'[Ag(t)] = r /\ \A b \in Agents \ {Ag(t)} : host'[b] = host[b]
    BY DEF TypeOK
  <1>4. \A a \in Agents : host'[a].objs \in Stages
    BY <1>3 DEF HalfOK
  <1>5. ASSUME NEW u \in Threads, pc'[u] \in HalfLabels
        PROVE  host'[Ag(u)].objs = Half
    <2>1. CASE u = t
      BY <2>1, <1>2, <1>3, <1>5
    <2>2. CASE u # t
      <3>1. Ag(u) # Ag(t) /\ host[Ag(u)].objs = Half
        BY <2>2, <1>2, <1>5 DEF HalfOK
      <3>2. Ag(u) \in Agents
        BY <2>2, <1>2, <1>5, HalfNames DEF TypeOK, ArgType, Ag, Arg, OwnLabels
      <3>3. QED
        BY <3>1, <3>2, <1>3
    <2>3. QED
      BY <2>1, <2>2
  <1>6. ASSUME NEW u \in Threads, NEW v \in Threads, pc'[u] \in HalfLabels, pc'[v] \in HalfLabels,
               Ag(u) = Ag(v)
        PROVE  u = v
    BY <1>2, <1>6 DEF HalfOK
  <1>7. ASSUME NEW a \in Agents, host'[a].objs = Half
        PROVE  a \in faulted' \/ \E u \in Threads : pc'[u] \in HalfLabels /\ Ag(u) = a
    <2>1. CASE a = Ag(t)
      BY <2>1, <1>2, <1>3, <1>7
    <2>2. CASE a # Ag(t)
      BY <2>2, <1>2, <1>3, <1>7 DEF HalfOK
    <2>3. QED
      BY <2>1, <2>2
  <1>8. QED
    BY <1>1, <1>4, <1>5, <1>6, <1>7 DEF HalfOK

\* What an accepted call finds and leaves.
LEMMA AcceptedCalls ==
  ASSUME TypeOK, HalfOK, NEW t \in Threads, pc[t] \in StartCalls \cup StopCalls,
         Accepts(pc[t], host[Ag(t)].objs)
  PROVE  /\ Ag(t) \in Agents
         /\ \A u \in Threads \ {t} : pc[u] \in HalfLabels => Ag(u) # Ag(t)
         /\ pc[t] = FirstStart  => host[Ag(t)].objs = {}   /\ Started(t).objs = Half
         /\ pc[t] = SecondStart => host[Ag(t)].objs = Half /\ Started(t).objs = Full
         /\ pc[t] = FirstStop   => /\ host[Ag(t)].objs = Full
                                   /\ Stopped(t).objs = IF Following(FirstStop) = "return"
                                                        THEN {} ELSE Half
         /\ pc[t] \in StopCalls \ {FirstStop} => host[Ag(t)].objs = Half /\ Stopped(t).objs = {}
  <1>1. Ag(t) \in Agents
    BY CallNames DEF TypeOK, OwnLabels, Ag, Arg, ArgType
  <1>2. host[Ag(t)].objs \in Stages /\ host[Ag(t)] \in HostType
    BY <1>1 DEF HalfOK, TypeOK
  <1>3. pc[t] = FirstStart => host[Ag(t)].objs = {} /\ Started(t).objs = Half
    BY <1>2, StartCallsWork DEF Started
  <1>4. pc[t] = SecondStart => host[Ag(t)].objs = Half /\ Started(t).objs = Full
    BY StartCallsWork DEF HalfOK, HalfLabels, Started
  <1>5. pc[t] = FirstStop => /\ host[Ag(t)].objs = Full
                             /\ Stopped(t).objs = IF Following(FirstStop) = "return"
                                                  THEN {} ELSE Half
    <2> SUFFICES ASSUME pc[t] = FirstStop
                 PROVE  /\ host[Ag(t)].objs = Full
                        /\ Stopped(t).objs = IF Following(FirstStop) = "return" THEN {} ELSE Half
      OBVIOUS
    <2>1. host[Ag(t)].objs = Full
      BY <1>2, StopCallsWork
    <2>2. After(pc[t], host[Ag(t)].objs) = IF Following(FirstStop) = "return" THEN {} ELSE Half
      BY <2>1, StopCallsWork
    <2>3. QED
      BY <1>2, <2>1, <2>2, StagesDiffer DEF Stopped, Gone, HostType
  <1>6. pc[t] \in StopCalls \ {FirstStop} => host[Ag(t)].objs = Half /\ Stopped(t).objs = {}
    BY StopCallsWork DEF HalfOK, HalfLabels, Stopped, Gone
  <1>7. ASSUME NEW u \in Threads \ {t}, pc[u] \in HalfLabels, Ag(u) = Ag(t)
        PROVE  FALSE
    <2>1. host[Ag(t)].objs = Half
      BY <1>7 DEF HalfOK
    <2>2. pc[t] \in HalfLabels
      BY <2>1, <1>3, <1>5, StagesDiffer, CallNames DEF HalfLabels
    <2>3. QED
      BY <1>7, <2>2 DEF HalfOK
  <1>8. QED
    BY <1>1, <1>3, <1>4, <1>5, <1>6, <1>7

---------------------------------------------------------------------------
(* Requests and timer callbacks. *)

\* The labels of a timer callback, and those of a request that has not armed
\* its timer yet.
JobLabels == {"idle", "armed", "del"} \cup StopCalls
BeforeArm == SpinUpLabels \ {"armed"}

\* A slot's callback only ever spins down, and none is left over while a
\* request of the slot is on its way to arm a new one.
RoleOK ==
  \A c \in Calls :
    /\ pc[Job(c)] \in JobLabels
    /\ pc[Request(c)] \in BeforeArm => pc[Job(c)] = "idle"

LEMMA RoleNames == BeforeArm \cap JobLabels = {}
  BY CallNames DEF BeforeArm, JobLabels, SpinUpLabels, OwnLabels

LEMMA ThreadRole ==
  \A t \in Threads : (t[2] = "call" => t = Request(t[1])) /\ (t[2] = "job" => t = Job(t[1]))
  BY ThreadParts DEF Request, Job

LEMMA RoleMove ==
  ASSUME TypeOK, RoleOK, NEW t \in Threads, NEW label, GoTo(t, label),
         pc[t] # "idle",
         t[2] = "job" => label \in JobLabels,
         label \in BeforeArm => pc[t] \in BeforeArm
  PROVE  RoleOK'
  <1> SUFFICES ASSUME NEW c \in Calls
               PROVE  /\ pc'[Job(c)] \in JobLabels
                      /\ pc'[Request(c)] \in BeforeArm => pc'[Job(c)] = "idle"
    BY DEF RoleOK
  <1>1. Job(c) \in Threads /\ Request(c) \in Threads /\ Job(c) # Request(c) /\ Job(c)[2] = "job"
    BY ThreadParts
  <1>2. pc'[t] = label /\ \A u \in Threads \ {t} : pc'[u] = pc[u]
    BY DEF GoTo, TypeOK
  <1>3. QED
    BY <1>1, <1>2 DEF RoleOK

LEMMA RoleStep == TypeOK /\ RoleOK /\ [Next]_vars => RoleOK'
  <1> SUFFICES ASSUME TypeOK, RoleOK, [Next]_vars
               PROVE  RoleOK'
    OBVIOUS
  <1>1. ASSUME NEW c \in Calls, SpinUp(c) \/ SpinDown(c) \/ Connect(c)
        PROVE  RoleOK'
    <2>1. PICK label : GoTo(Request(c), label) /\ pc[Job(c)] = "idle"
      BY <1>1 DEF SpinUp, SpinDown, Connect, Issue
    <2>2. \A t \in Threads \ {Request(c)} : pc'[t] = pc[t]
      BY <2>1, ThreadParts DEF GoTo, TypeOK
    <2>3. \A d \in Calls : Job(d) \in Threads /\ Request(d) \in Threads /\ Job(d) # Request(c)
                             /\ (d # c => Request(d) # Request(c))
      BY ThreadParts DEF Request, Job
    <2>4. QED
      BY <2>1, <2>2, <2>3 DEF RoleOK
  <1>2. ASSUME NEW t \in Threads, Step(t)
        PROVE  RoleOK'
    <2>0. t[2] = "job" => pc[t] \in JobLabels
      BY ThreadParts, ThreadRole DEF RoleOK
    <2>1. CASE StartCall(t)
      <3>1. GoTo(t, "cacheSet") \/ GoTo(t, SecondStart)
        BY <2>1, CallNames, CallOrder DEF StartCall
      <3>2. pc[t] \in BeforeArm /\ "cacheSet" \in BeforeArm /\ SecondStart \in BeforeArm
        BY <2>1, CallNames DEF StartCall, BeforeArm, SpinUpLabels, OwnLabels
      <3>3. pc[t] # "idle" /\ pc[t] \notin JobLabels
        BY <3>2, RoleNames DEF JobLabels
      <3>4. QED
        BY <2>0, <3>1, <3>2, <3>3, RoleMove
    <2>2. CASE StopCall(t) \/ StopRefused(t) \/ StopError(t)
      <3>1. PICK label \in StopCalls \cup {"done", "idle"} :
              GoTo(t, label) /\ (label = "done" => t[2] # "job")
        <4>1. Return(t) \in {"done", "idle"} /\ (Return(t) = "done" => t[2] # "job")
          BY DEF Return
        <4>2. "done" \notin StopCalls
          BY CallNames DEF OwnLabels
        <4>3. pc[t] \in StopCalls => Following(pc[t]) \in StopCalls \cup {"return"}
          BY CallOrder
        <4>4. CASE StopCall(t)
          BY <4>1, <4>2, <4>3, <4>4 DEF StopCall
        <4>5. CASE StopRefused(t) \/ StopError(t)
          BY <4>1, <4>5 DEF StopRefused, StopError
        <4>6. QED
          BY <2>2, <4>4, <4>5
      <3>2. pc[t] # "idle" /\ label \notin BeforeArm
        BY <2>2, CallNames
        DEF StopCall, StopRefused, StopError, BeforeArm, SpinUpLabels, OwnLabels
      <3>3. QED
        BY <3>1, <3>2, RoleMove DEF JobLabels
    <2>3. CASE StartRefused(t) \/ StartError(t) \/ Recover(t) \/ RecoverSet(t) \/ RecoverGet(t)
               \/ RecoverConnect(t) \/ CacheSet(t)
      <3>1. PICK label \in OwnLabels : GoTo(t, label)
        BY <2>3
        DEF StartRefused, StartError, Recover, RecoverSet, RecoverGet, RecoverConnect, CacheSet,
            AfterRecovery, OwnLabels
      <3>2. pc[t] \in BeforeArm
        BY <2>3, CallNames
        DEF StartRefused, StartError, Recover, RecoverSet, RecoverGet, RecoverConnect, CacheSet,
            BeforeArm, SpinUpLabels, OwnLabels
      <3>3. pc[t] # "idle" /\ pc[t] \notin JobLabels
        BY <3>2, RoleNames DEF JobLabels
      <3>4. QED
        BY <2>0, <3>1, <3>2, <3>3, RoleMove
    <2>4. CASE CacheDel(t) \/ TimerFires(t)
      BY <2>4, RoleMove, CallNames DEF CacheDel, TimerFires, JobLabels, BeforeArm, SpinUpLabels, OwnLabels
    <2>5. CASE CacheError(t)
      <3>1. PICK label \in {"done", "idle", "failed"} :
              GoTo(t, label) /\ (t[2] = "job" => label = "idle")
        BY <2>0, <2>5, ThreadParts, CallNames DEF CacheError, Return, JobLabels, OwnLabels
      <3>2. QED
        BY <2>5, <3>1, RoleMove, CallNames DEF CacheError, JobLabels, BeforeArm, SpinUpLabels, OwnLabels
    <2>6. CASE Lookup(t) \/ PingAnswered(t) \/ PingUnanswered(t) \/ CreateConnection(t)
      <3>1. PICK label \in {"connect", "delay", "failed", "done"} : GoTo(t, label)
        BY <2>6 DEF Lookup, PingAnswered, PingUnanswered, CreateConnection
      <3>2. pc[t] \in {"lookup", "ping", "connect"}
        BY <2>6 DEF Lookup, PingAnswered, PingUnanswered, CreateConnection
      <3>3. pc[t] \notin JobLabels /\ label \notin BeforeArm
        BY <3>1, <3>2, CallNames DEF JobLabels, BeforeArm, SpinUpLabels, OwnLabels
      <3>4. QED
        BY <2>0, <3>1, <3>2, <3>3, RoleMove
    <2>7. CASE SetSpinDownJob(t)
      <3>1. t = Request(t[1]) /\ t[1] \in Calls
        BY <2>0, <2>7, ThreadParts, ThreadRole, CallNames DEF SetSpinDownJob, JobLabels, OwnLabels
      <3>2. /\ pc'[t] \in {"done", "delay", "failed"}
            /\ pc'[Job(t[1])] \in {"armed", pc[Job(t[1])]}
            /\ \A u \in Threads \ {t, Job(t[1])} : pc'[u] = pc[u]
        BY <2>7, <3>1, ThreadParts DEF SetSpinDownJob, TypeOK
      <3>3. {"done", "delay", "failed"} \cap BeforeArm = {}
        BY CallNames DEF BeforeArm, SpinUpLabels, OwnLabels
      <3>4. \A c \in Calls \ {t[1]} : Job(c) \in Threads \ {t, Job(t[1])}
                                       /\ Request(c) \in Threads \ {t, Job(t[1])}
        BY <3>1, ThreadParts DEF Request, Job
      <3>5. ASSUME NEW c \in Calls \ {t[1]}
            PROVE  pc'[Job(c)] = pc[Job(c)] /\ pc'[Request(c)] = pc[Request(c)]
        BY <3>2, <3>4
      <3>6. pc'[Job(t[1])] \in JobLabels /\ pc'[Request(t[1])] \notin BeforeArm
        BY <3>1, <3>2, <3>3 DEF RoleOK, JobLabels
      <3>7. QED
        BY <3>1, <3>5, <3>6 DEF RoleOK
    <2>8. QED
      BY <1>2, <2>1, <2>2, <2>3, <2>4, <2>5, <2>6, <2>7 DEF Step
  <1>3. CASE \E a \in Agents : AgentBoots(a) \/ AgentExits(a)
    BY <1>3 DEF AgentBoots, AgentExits, RoleOK
  <1>4. CASE Crash
    <2>1. \A t \in Threads : pc'[t] \in {"idle", "done", "failed"}
      BY <1>4 DEF Crash, Answered
    <2>2. \A c \in Calls : pc'[Job(c)] = "idle"
      BY <1>4, ThreadParts, CallNames DEF Crash, Answered, RoleOK, JobLabels, OwnLabels
    <2>3. {"idle", "done", "failed"} \cap BeforeArm = {}
      BY CallNames DEF BeforeArm, SpinUpLabels, OwnLabels
    <2>4. QED
      BY <2>1, <2>2, <2>3 DEF RoleOK, JobLabels
  <1>5. CASE Tick
    BY <1>5, ThreadParts, CallNames DEF Tick, RoleOK, JobLabels, BeforeArm, SpinUpLabels, OwnLabels
  <1>6. CASE UNCHANGED vars
    BY <1>6 DEF vars, RoleOK
  <1>7. QED
    BY <1>1, <1>2, <1>3, <1>4, <1>5, <1>6 DEF Next

---------------------------------------------------------------------------
(* Every step keeps half-made agents in order. *)

LEMMA FaultsKept ==
  ASSUME NEW a, Untouched(a) \/ Touched(a)
  PROVE  /\ \A b \in Agents \ {a} : b \in faulted => b \in faulted'
         /\ host'[a].objs # {} /\ a \in faulted => a \in faulted'
         /\ host'[a].objs # {} /\ Touched(a) => a \in faulted'
  BY DEF Untouched, Touched

LEMMA HostCallHalf ==
  ASSUME TypeOK, HalfOK, NEW t \in Threads,
         StartCall(t) \/ StartError(t) \/ StopCall(t) \/ StopError(t)
  PROVE  HalfOK'
  <1>1. pc[t] \in StartCalls \cup StopCalls /\ Accepts(pc[t], host[Ag(t)].objs)
    BY DEF StartCall, StartError, StopCall, StopError
  <1>2. Ag(t) \in Agents /\ \A u \in Threads \ {t} : pc[u] \in HalfLabels => Ag(u) # Ag(t)
    BY <1>1, AcceptedCalls
  <1>3. \A b \in Agents \ {Ag(t)} : b \in faulted => b \in faulted'
    BY FaultsKept DEF StartCall, StartError, StopCall, StopError
  <1>4. host \in [Agents -> HostType] /\ host[Ag(t)].objs \in Stages
    BY <1>2 DEF TypeOK, HalfOK
  <1>5. CASE StartCall(t)
    <2>1. CASE pc[t] = FirstStart
      <3>1. Started(t).objs = Half /\ GoTo(t, SecondStart)
        BY <1>1, <1>5, <2>1, AcceptedCalls, CallOrder, CallNames DEF StartCall, OwnLabels
      <3>2. SecondStart \in HalfLabels /\ Half \in Stages
        BY DEF HalfLabels, Stages
      <3>3. host' = [host EXCEPT ![Ag(t)] = Started(t)] /\ UNCHANGED arg
        BY <1>5 DEF StartCall
      <3>4. QED
        BY <1>2, <1>3, <3>1, <3>2, <3>3, HalfHostStep
    <2>2. CASE pc[t] = SecondStart
      <3>1. Started(t).objs = Full /\ GoTo(t, "cacheSet")
        BY <1>1, <1>5, <2>2, AcceptedCalls, CallOrder DEF StartCall
      <3>2. "cacheSet" \notin HalfLabels /\ Full \in Stages
        BY HalfNames DEF Stages, OwnLabels
      <3>3. host' = [host EXCEPT ![Ag(t)] = Started(t)] /\ UNCHANGED arg
        BY <1>5 DEF StartCall
      <3>4. QED
        BY <1>2, <1>3, <3>1, <3>2, <3>3, StagesDiffer, HalfHostStep
    <2>3. QED
      BY <1>5, <2>1, <2>2, CallNames DEF StartCall
  <1>6. CASE StartError(t)
    <2>1. \E r \in {Started(t), host[Ag(t)], Gone} : host' = [host EXCEPT ![Ag(t)] = r]
      BY <1>4, <1>6 DEF StartError
    <2>2. PICK r \in {Started(t), host[Ag(t)], Gone} : host' = [host EXCEPT ![Ag(t)] = r]
      BY <2>1
    <2>3. r.objs \in Stages
      BY <1>1, <1>4, <1>6, AcceptedCalls, CallNames DEF Stages, StartError, Gone
    <2>4. r.objs = Half => Ag(t) \in faulted'
      BY <1>2, <1>4, <1>6, <2>2, FaultsKept, StagesDiffer DEF StartError
    <2>5. GoTo(t, "recover") /\ UNCHANGED arg /\ "recover" \notin HalfLabels
      BY <1>6, HalfNames DEF StartError, OwnLabels
    <2>6. QED
      BY <1>2, <1>3, <2>2, <2>3, <2>4, <2>5, HalfHostStep
  <1>7. CASE StopCall(t)
    <2>1. host' = [host EXCEPT ![Ag(t)] = Stopped(t)] /\ UNCHANGED arg
      BY <1>7 DEF StopCall
    <2>2. "done" \notin HalfLabels /\ "idle" \notin HalfLabels /\ {} \in Stages /\ Half \in Stages
      BY HalfNames DEF OwnLabels, Stages
    <2>3. CASE pc[t] = FirstStop /\ Following(FirstStop) # "return"
      <3>1. Stopped(t).objs = Half /\ GoTo(t, Following(FirstStop))
        BY <1>1, <1>7, <2>3, AcceptedCalls DEF StopCall
      <3>2. Following(FirstStop) \in HalfLabels
        BY <2>3, CallOrder DEF HalfLabels
      <3>3. QED
        BY <1>2, <1>3, <2>1, <2>2, <3>1, <3>2, HalfHostStep
    <2>4. CASE ~(pc[t] = FirstStop /\ Following(FirstStop) # "return")
      <3>1. Stopped(t).objs = {} /\ Following(pc[t]) = "return"
        BY <1>1, <1>7, <2>4, AcceptedCalls, CallOrder DEF StopCall
      <3>2. Return(t) \notin HalfLabels /\ GoTo(t, Return(t))
        BY <1>7, <2>2, <3>1 DEF StopCall, Return
      <3>3. QED
        BY <1>2, <1>3, <2>1, <2>2, <3>1, <3>2, StagesDiffer, HalfHostStep
    <2>5. QED
      BY <2>3, <2>4
  <1>8. CASE StopError(t)
    <2>1. PICK r \in {Stopped(t), host[Ag(t)]} : host' = [host EXCEPT ![Ag(t)] = r]
      BY <1>4, <1>8 DEF StopError
    <2>2. r.objs \in Stages
      BY <1>1, <1>4, <1>8, AcceptedCalls DEF Stages, StopError
    <2>3. r.objs = Half => Ag(t) \in faulted'
      BY <1>2, <1>4, <1>8, <2>1, FaultsKept, StagesDiffer DEF StopError
    <2>4. GoTo(t, Return(t)) /\ UNCHANGED arg /\ Return(t) \notin HalfLabels
      BY <1>8, HalfNames DEF StopError, OwnLabels, Return
    <2>5. QED
      BY <1>2, <1>3, <2>1, <2>2, <2>3, <2>4, HalfHostStep
  <1>9. QED
    BY <1>5, <1>6, <1>7, <1>8

\* Where a half-way thread works.
LEMMA HalfAgent ==
  ASSUME TypeOK
  PROVE  \A t \in Threads : pc[t] \in HalfLabels => Ag(t) \in Agents
  BY HalfNames DEF TypeOK, OwnLabels, Ag, Arg, ArgType

\* A refused call was a first one.
LEMMA RefusedCalls ==
  ASSUME HalfOK, NEW t \in Threads, pc[t] \in HalfLabels
  PROVE  Accepts(pc[t], host[Ag(t)].objs)
  BY StartCallsWork, StopCallsWork DEF HalfOK, HalfLabels

\* The other steps of a thread.
LEMMA OtherStepSame ==
  ASSUME TypeOK, RoleOK, HalfOK, NEW t \in Threads,
         Step(t), ~(StartCall(t) \/ StartError(t) \/ StopCall(t) \/ StopError(t))
  PROVE  UNCHANGED host /\ HalfSame
  <1>1. pc[t] \notin HalfLabels
    BY RefusedCalls, HalfNames
    DEF Step, StartRefused, StopRefused, Recover, RecoverSet, RecoverGet, RecoverConnect,
        CacheSet, CacheDel, Lookup, CacheError, SetSpinDownJob, TimerFires, PingAnswered,
        PingUnanswered, CreateConnection, OwnLabels, StartCall, StopCall
  <1>2. UNCHANGED host
    BY DEF Step, StartRefused, StopRefused, Recover, RecoverSet, RecoverGet, RecoverConnect,
           CacheSet, CacheDel, Lookup, CacheError, SetSpinDownJob, TimerFires, PingAnswered,
           PingUnanswered, CreateConnection
  <1>3. \A u \in Threads :
          pc'[u] = pc[u] \/ (pc[u] \notin HalfLabels /\ pc'[u] \notin HalfLabels)
    <2>1. CASE SetSpinDownJob(t)
      <3>1. t = Request(t[1]) /\ t[1] \in Calls
        BY <2>1, ThreadParts, ThreadRole, CallNames
        DEF SetSpinDownJob, RoleOK, JobLabels, OwnLabels
      <3>2. pc[Job(t[1])] = "idle" /\ Job(t[1]) \in Threads
        BY <2>1, <3>1, ThreadParts, CallNames
        DEF SetSpinDownJob, RoleOK, BeforeArm, SpinUpLabels, OwnLabels
      <3>3. /\ pc'[t] \in {"done", "delay", "failed"}
            /\ pc'[Job(t[1])] \in {"armed", "idle"}
            /\ \A u \in Threads \ {t, Job(t[1])} : pc'[u] = pc[u]
        BY <2>1, <3>1, <3>2, ThreadParts DEF SetSpinDownJob, TypeOK
      <3>4. {"done", "delay", "failed", "armed", "idle"} \cap HalfLabels = {}
        BY HalfNames DEF OwnLabels
      <3>5. QED
        BY <1>1, <3>2, <3>3, <3>4
    <2>2. CASE ~SetSpinDownJob(t)
      <3>1. PICK label \in OwnLabels \cup {FirstStop} : GoTo(t, label)
        BY <2>2
        DEF Step, StartRefused, StopRefused, Recover, RecoverSet, RecoverGet, RecoverConnect,
            CacheSet, CacheDel, Lookup, CacheError, TimerFires, PingAnswered,
            PingUnanswered, CreateConnection, AfterRecovery, Return, OwnLabels
      <3>2. label \notin HalfLabels
        BY <3>1, HalfNames
      <3>3. QED
        BY <1>1, <3>1, <3>2 DEF GoTo, TypeOK
    <2>3. QED
      BY <2>1, <2>2
  <1>4. \A u \in Threads : pc[u] \in HalfLabels => Ag(u)' = Ag(u) /\ Ag(u) \in Agents
    <2>1. CASE Lookup(t)
      <3>1. \A c \in Calls : arg[c] \in ArgType => arg'[c].agent = arg[c].agent
        BY <2>1 DEF Lookup, TypeOK, ArgType
      <3>2. QED
        BY <3>1, HalfAgent, HalfNames, ThreadParts DEF Ag, Arg, TypeOK, OwnLabels
    <2>2. CASE ~Lookup(t)
      <3>1. UNCHANGED arg
        BY <2>2
        DEF Step, StartRefused, StopRefused, Recover, RecoverSet, RecoverGet, RecoverConnect,
            CacheSet, CacheDel, CacheError, SetSpinDownJob, TimerFires, PingAnswered,
            PingUnanswered, CreateConnection
      <3>2. QED
        BY <3>1, HalfAgent DEF Ag
    <2>3. QED
      BY <2>1, <2>2
  <1>5. QED
    BY <1>2, <1>3, <1>4 DEF HalfSame

LEMMA OtherStepHalf ==
  ASSUME TypeOK, RoleOK, HalfOK, NEW t \in Threads,
         Step(t), ~(StartCall(t) \/ StartError(t) \/ StopCall(t) \/ StopError(t))
  PROVE  HalfOK'
  <1>1. \A a \in Agents : host[a].objs = Half /\ a \in faulted => a \in faulted'
    <2>1. CASE CacheError(t)
      BY <2>1, OtherStepSame, StagesDiffer DEF CacheError, Touched
    <2>2. CASE ~CacheError(t)
      BY <2>2
      DEF Step, StartRefused, StopRefused, Recover, RecoverSet, RecoverGet, RecoverConnect,
          CacheSet, CacheDel, Lookup, SetSpinDownJob, TimerFires, PingAnswered,
          PingUnanswered, CreateConnection
    <2>3. QED
      BY <2>1, <2>2
  <1>2. QED
    BY <1>1, OtherStepSame, HalfFrame

\* A request that is issued is not half-way, and its slot was not.
LEMMA IssueSame ==
  ASSUME TypeOK, NEW c \in Calls, NEW op, NEW r, NEW label,
         Issue(c, op, r, label), label \notin HalfLabels
  PROVE  UNCHANGED <<host, faulted>> /\ HalfSame
  <1>1. Request(c) \in Threads /\ Job(c) \in Threads
    BY ThreadParts
  <1>2. pc[Request(c)] \notin HalfLabels /\ pc[Job(c)] \notin HalfLabels
    BY HalfNames DEF Issue, Quiet, Answered, OwnLabels
  <1>3. \A u \in Threads :
          pc'[u] = pc[u] \/ (pc[u] \notin HalfLabels /\ pc'[u] \notin HalfLabels)
    BY <1>1, <1>2 DEF Issue, GoTo, TypeOK
  <1>4. \A u \in Threads : u[1] = c => u = Request(c) \/ u = Job(c)
    BY ThreadParts DEF Request, Job
  <1>5. \A u \in Threads : pc[u] \in HalfLabels => Ag(u)' = Ag(u) /\ Ag(u) \in Agents
    BY <1>2, <1>4, HalfAgent, ThreadParts DEF Issue, Ag, TypeOK
  <1>6. QED
    BY <1>3, <1>5 DEF Issue, HalfSame

LEMMA RequestSame ==
  ASSUME TypeOK, NEW c \in Calls, SpinUp(c) \/ SpinDown(c) \/ Connect(c)
  PROVE  UNCHANGED <<host, faulted>> /\ HalfSame
  <1>1. FirstStart \notin HalfLabels /\ "del" \notin HalfLabels /\ "lookup" \notin HalfLabels
    BY HalfNames DEF OwnLabels
  <1>2. SpinUp(c) => \E r : Issue(c, "spinUp", r, FirstStart)
    BY DEF SpinUp
  <1>3. SpinDown(c) => \E r : Issue(c, "spinDown", r, "del")
    BY DEF SpinDown
  <1>4. Connect(c) => \E r : Issue(c, "connect", r, "lookup")
    BY DEF Connect
  <1>5. QED
    BY <1>1, <1>2, <1>3, <1>4, IssueSame

\* A boot, and a second, change no objects.
LEMMA EnvironmentSame ==
  ASSUME TypeOK, (\E a \in Agents : AgentBoots(a)) \/ Tick
  PROVE  UNCHANGED faulted /\ HalfSame
  <1>1. CASE \E a \in Agents : AgentBoots(a)
    <2>1. \A b \in Agents : host'[b].objs = host[b].objs
      BY <1>1 DEF AgentBoots, TypeOK, HostType
    <2>2. QED
      BY <1>1, <2>1, HalfAgent DEF AgentBoots, Ag, HalfSame
  <1>2. CASE Tick
    <2>1. \A b \in Agents : host'[b].objs = host[b].objs
      BY <1>2 DEF Tick, TypeOK, HostType
    <2>2. \A t \in Threads :
            pc'[t] = pc[t] \/ (pc[t] \notin HalfLabels /\ pc'[t] \notin HalfLabels)
      BY <1>2, HalfNames DEF Tick, OwnLabels
    <2>3. QED
      BY <1>2, <2>1, <2>2, HalfAgent DEF Tick, Ag, HalfSame
  <1>3. QED
    BY <1>1, <1>2

LEMMA EnvironmentHalf ==
  ASSUME TypeOK, HalfOK,
         (\E a \in Agents : AgentBoots(a) \/ AgentExits(a)) \/ Crash \/ Tick
  PROVE  HalfOK'
  <1>1. CASE (\E a \in Agents : AgentBoots(a)) \/ Tick
    BY <1>1, EnvironmentSame, HalfFrame
  <1>2. CASE \E a \in Agents : AgentExits(a)
    <2>1. PICK a \in Agents : AgentExits(a)
      BY <1>2
    <2>2. \A b \in Agents \ {a} : host'[b] = host[b] /\ (b \in faulted => b \in faulted')
      BY <2>1 DEF AgentExits, TypeOK, Untouched
    <2>3. host[a].objs = Full /\ host'[a].objs \in {{}, Full}
      BY <2>1, ExitWorks DEF AgentExits, TypeOK, HostType, Gone
    <2>4. \A t \in Threads : pc[t] \in HalfLabels => Ag(t) # a
      BY <2>3, StagesDiffer DEF HalfOK
    <2>5. pc' = pc /\ \A t \in Threads : Ag(t)' = Ag(t)
      BY <2>1 DEF AgentExits, Ag
    <2>6. \A b \in Agents : host'[b].objs \in Stages
      BY <2>2, <2>3 DEF HalfOK, Stages
    <2>7. \A t \in Threads : pc[t] \in HalfLabels => host'[Ag(t)].objs = Half
      BY <2>2, <2>4, HalfAgent DEF HalfOK
    <2>8. \A b \in Agents : host'[b].objs = Half =>
            b \in faulted' \/ \E t \in Threads : pc[t] \in HalfLabels /\ Ag(t) = b
      BY <2>2, <2>3, StagesDiffer DEF HalfOK
    <2>9. QED
      BY <2>5, <2>6, <2>7, <2>8 DEF HalfOK
  <1>3. CASE Crash
    <2>1. \A t \in Threads : pc'[t] \notin HalfLabels
      BY <1>3, HalfNames DEF Crash, Answered, OwnLabels
    <2>2. QED
      BY <1>3, <2>1, StagesDiffer DEF Crash, HalfOK
  <1>4. QED
    BY <1>1, <1>2, <1>3

LEMMA HalfStep == TypeOK /\ RoleOK /\ HalfOK /\ [Next]_vars => HalfOK'
  <1> SUFFICES ASSUME TypeOK, RoleOK, HalfOK, [Next]_vars
               PROVE  HalfOK'
    OBVIOUS
  <1>1. ASSUME NEW c \in Calls, SpinUp(c) \/ SpinDown(c) \/ Connect(c)
        PROVE  HalfOK'
    BY <1>1, RequestSame, HalfFrame
  <1>2. ASSUME NEW t \in Threads, Step(t)
        PROVE  HalfOK'
    BY <1>2, HostCallHalf, OtherStepHalf
  <1>3. CASE (\E a \in Agents : AgentBoots(a) \/ AgentExits(a)) \/ Crash \/ Tick
    BY <1>3, EnvironmentHalf
  <1>4. CASE UNCHANGED vars
    BY <1>4 DEF vars, HalfOK, Ag
  <1>5. QED
    BY <1>1, <1>2, <1>3, <1>4 DEF Next

LEMMA InitParts == Init => RoleOK /\ HalfOK
  <1> SUFFICES ASSUME Init
               PROVE  RoleOK /\ HalfOK
    OBVIOUS
  <1>1. RoleOK
    BY ThreadParts, CallNames DEF Init, RoleOK, JobLabels, BeforeArm, SpinUpLabels, OwnLabels
  <1>2. HalfOK
    BY HalfNames, StagesDiffer DEF Init, HalfOK, Gone, Stages, OwnLabels
  <1>3. QED
    BY <1>1, <1>2

\* Whatever requests and timers work on an agent at a time, its objects are
\* only ever half there between the two calls of one single start or stop:
\* the host's refusals serialise operations that the agency does not.  Only
\* a fault in between leaves an agent half-made.
THEOREM NoHalfAgentsHolds == Spec => []NoHalfAgents
  <1>1. Init => TypeOK /\ RoleOK /\ HalfOK
    BY InitType, InitParts
  <1>2. TypeOK /\ RoleOK /\ HalfOK /\ [Next]_vars => TypeOK' /\ RoleOK' /\ HalfOK'
    BY NextType, RoleStep, HalfStep
  <1>3. TypeOK /\ RoleOK /\ HalfOK => NoHalfAgents
    BY HalfImplies
  <1>4. QED
    BY <1>1, <1>2, <1>3, PTL DEF Spec

---------------------------------------------------------------------------
(* Deletes. *)

\* Nothing goes wrong but that agents exit by themselves.
NoFailures == Faults \subseteq {"exit"}

LEMMA FaultedStep == NoFailures /\ faulted = {} /\ [Next]_vars => faulted' = {}
  <1> SUFFICES ASSUME NoFailures, faulted = {}, [Next]_vars
               PROVE  faulted' = {}
    OBVIOUS
  <1>1. \A a : Untouched(a) => faulted' = {}
    BY DEF Untouched
  <1>2. ASSUME NEW t \in Threads, Step(t)
        PROVE  faulted' = {}
    <2>1. ~StartError(t) /\ ~StopError(t) /\ ~CacheError(t)
      BY DEF NoFailures, StartError, StopError, CacheError
    <2>2. CASE StartCall(t) \/ StopCall(t)
      BY <1>1, <2>2 DEF StartCall, StopCall
    <2>3. CASE ~(StartCall(t) \/ StopCall(t))
      BY <1>2, <2>1, <2>3
      DEF Step, StartRefused, StopRefused, Recover, RecoverSet, RecoverGet, RecoverConnect,
          CacheSet, CacheDel, Lookup, SetSpinDownJob, TimerFires, PingAnswered, PingUnanswered,
          CreateConnection
    <2>4. QED
      BY <2>2, <2>3
  <1>3. QED
    BY <1>1, <1>2 DEF NoFailures, Next, vars, SpinUp, SpinDown, Connect, Issue, AgentBoots,
       AgentExits, Crash, Tick

\* A delete that answers just now made its own last call, or was refused one.
LEMMA DeleteEnds ==
  ASSUME NoFailures, TypeOK, RoleOK, [Next]_vars,
         NEW c \in Calls, pc[Request(c)] \in StopCalls \cup {"del"}, pc'[Request(c)] = "done"
  PROVE  StopCall(Request(c)) \/ StopRefused(Request(c))
  <1> DEFINE t == Request(c)
  <1>1. t \in Threads /\ pc[t] # "done" /\ pc[t] \notin Quiet \cup {"delay"}
    BY ThreadParts, CallNames DEF Quiet, Answered, OwnLabels
  <1>2. ASSUME NEW d \in Calls, SpinUp(d) \/ SpinDown(d) \/ Connect(d)
        PROVE  FALSE
    <2>1. PICK op, r, label : Issue(d, op, r, label)
      BY <1>2 DEF SpinUp, SpinDown, Connect
    <2>2. d # c
      BY <1>1, <2>1 DEF Issue
    <2>3. Request(d) # t /\ Request(d) \in Threads
      BY <2>2, ThreadParts
    <2>4. pc'[t] = pc[t]
      BY <1>1, <2>1, <2>3 DEF Issue, GoTo, TypeOK
    <2>5. QED
      BY <1>1, <2>4
  <1>3. ASSUME NEW u \in Threads, Step(u)
        PROVE  StopCall(t) \/ StopRefused(t)
    <2>1. CASE SetSpinDownJob(u)
      <3>1. t # u /\ t # Job(u[1])
        BY <1>1, <2>1, ThreadParts, CallNames DEF SetSpinDownJob, OwnLabels
      <3>2. pc'[t] = pc[t]
        BY <1>1, <2>1, <3>1 DEF SetSpinDownJob, TypeOK
      <3>3. QED
        BY <1>1, <3>2
    <2>2. CASE ~SetSpinDownJob(u)
      <3>1. \E label : GoTo(u, label)
        BY <1>3, <2>2
        DEF Step, StartCall, StartRefused, StartError, StopCall, StopRefused, StopError,
            Recover, RecoverSet, RecoverGet, RecoverConnect, CacheSet, CacheDel, Lookup,
            CacheError, TimerFires, PingAnswered, PingUnanswered, CreateConnection
      <3>2. u = t
        BY <1>1, <3>1 DEF GoTo, TypeOK
      <3>3. ~CacheDel(t)
        <4>1. FirstStop # "done"
          BY CallNames DEF OwnLabels
        <4>2. QED
          BY <1>1, <4>1 DEF CacheDel, GoTo, TypeOK
      <3>4. ~StartError(t) /\ ~StopError(t) /\ ~CacheError(t)
        BY DEF NoFailures, StartError, StopError, CacheError
      <3>5. QED
        BY <1>3, <2>2, <3>2, <3>3, <3>4, CallNames
        DEF Step, StartCall, StartRefused, Recover, RecoverSet, RecoverGet, RecoverConnect,
            CacheSet, Lookup, TimerFires, PingAnswered, PingUnanswered, CreateConnection, OwnLabels
    <2>3. QED
      BY <2>1, <2>2
  <1>4. CASE UNCHANGED vars \/ \E a \in Agents : AgentBoots(a) \/ AgentExits(a)
    BY <1>1, <1>4 DEF vars, AgentBoots, AgentExits
  <1>5. CASE Crash \/ Tick
    BY <1>1, <1>5 DEF NoFailures, Crash, Tick
  <1>6. QED
    BY <1>2, <1>3, <1>4, <1>5 DEF Next

\* A delete that nobody else is at work against leaves nothing.
LEMMA DeleteEmpties ==
  ASSUME TypeOK, RoleOK, HalfOK, faulted = {}, NEW t \in Threads,
         \A u \in Threads \ {t} : Busy(u) => Ag(u) # Ag(t),
         pc'[t] = "done", StopCall(t) \/ StopRefused(t)
  PROVE  host'[Ag(t)].objs = {}
  <1>1. pc[t] \in StopCalls /\ Ag(t) \in Agents
    BY CallNames DEF StopCall, StopRefused, TypeOK, OwnLabels, Ag, Arg, ArgType
  <1>2. CASE StopCall(t)
    <2>1. host'[Ag(t)] = Stopped(t)
      BY <1>1, <1>2 DEF StopCall, TypeOK
    <2>2. Following(pc[t]) = "return"
      <3>1. Following(pc[t]) # "return" => Following(pc[t]) \in StopCalls
        BY <1>1, CallOrder
      <3>2. Following(pc[t]) # "return" => pc'[t] = Following(pc[t])
        BY <1>2 DEF StopCall, GoTo, TypeOK
      <3>3. QED
        BY <3>1, <3>2, CallNames DEF OwnLabels
    <2>3. Stopped(t).objs = {}
      BY <1>1, <1>2, <2>2, AcceptedCalls DEF StopCall
    <2>4. QED
      BY <2>1, <2>3
  <1>3. CASE StopRefused(t)
    <2>1. UNCHANGED host /\ host[Ag(t)].objs \in Stages
      BY <1>1, <1>3 DEF StopRefused, HalfOK
    <2>2. host[Ag(t)].objs # Full /\ pc[t] \notin HalfLabels
      <3>1. pc[t] \notin HalfLabels
        BY <1>3, RefusedCalls DEF StopRefused
      <3>2. pc[t] = FirstStop
        BY <1>1, <3>1 DEF HalfLabels
      <3>3. QED
        BY <1>3, <2>1, <3>1, <3>2, StopCallsWork DEF StopRefused
    <2>3. ASSUME host[Ag(t)].objs = Half
          PROVE  FALSE
      <3>1. PICK u \in Threads : pc[u] \in HalfLabels /\ Ag(u) = Ag(t)
        BY <1>1, <2>3 DEF HalfOK
      <3>2. u # t /\ Busy(u)
        BY <2>2, <3>1, HalfNames DEF Busy, Quiet, Answered, OwnLabels
      <3>3. QED
        BY <3>1, <3>2
    <2>4. QED
      BY <2>1, <2>2, <2>3 DEF Stages
  <1>4. QED
    BY <1>2, <1>3

\* DELETE manager answers 200 even when it was refused; unless a call failed
\* or the agency restarted, the answer of one that had the agent for itself at
\* the end is true all the same.
THEOREM DeletesAreDone == NoFailures => (Spec => DeleteRemovesAgent)
  <1>1. Init => TypeOK /\ RoleOK /\ HalfOK /\ faulted = {}
    BY InitType, InitParts DEF Init
  <1>2. NoFailures /\ TypeOK /\ RoleOK /\ HalfOK /\ faulted = {} /\ [Next]_vars
          => TypeOK' /\ RoleOK' /\ HalfOK' /\ (faulted = {})'
    BY NextType, RoleStep, HalfStep, FaultedStep
  <1>3. NoFailures /\ TypeOK /\ RoleOK /\ HalfOK /\ faulted = {} /\ [Next]_vars =>
          \A c \in Calls :
            LET t == Request(c) IN
            /\ pc[t] \in StopCalls \cup {"del"}
            /\ pc'[t] = "done"
            /\ \A u \in Threads \ {t} : Busy(u) => Ag(u) # Ag(t)
            => host'[Ag(t)].objs = {}
    BY DeleteEnds, DeleteEmpties, ThreadParts
  <1>4. NoFailures => []NoFailures
    OBVIOUS
  <1>5. QED
    BY <1>1, <1>2, <1>3, <1>4, PTL DEF Spec, DeleteRemovesAgent
=============================================================================
