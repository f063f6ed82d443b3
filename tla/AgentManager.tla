---------------------------- MODULE AgentManager ----------------------------
(***************************************************************************)
(* src/manager/agent.manager.service.ts: the requests that spin up, spin   *)
(* down and connect to an agent, the spin-down timers they leave behind,   *)
(* the shared cache entry of every agent and the container host that the   *)
(* DockerService or the K8sService drives.                                 *)
(*                                                                         *)
(* Node runs one continuation at a time and switches at every await, so    *)
(* one action is what a request does from one await to the next, together  *)
(* with the effect of the call it awaited.  A request slot c \in Calls is  *)
(* used again once its request was answered and its timer is gone; |Calls| *)
(* bounds the requests and timers alive at one time, not their number.     *)
(*                                                                         *)
(* Time is a countdown in seconds that Tick advances everywhere at once.   *)
(***************************************************************************)
EXTENDS AgentConfig, FiniteSets

CONSTANTS
  Agents,         \* agent ids
  Calls,          \* request slots
  Keys,           \* admin API keys
  DtoPorts,       \* adminApiPort of a request: ports, None
  DtoTtls,        \* ttl of a request: integers, None
  Autos,          \* autoConnect of a request: a set of BOOLEANs
  Ops,            \* which of "spinUp", "spinDown", "connect" clients call
  MANAGER_TYPE,   \* "DOCKER" or "K8S"
  Faults,         \* which of "startError", "stopError", "cache", "exit", "crash" happen
  RetryDuration,  \* AGENT_RETRY_DURATION, in seconds
  ForeverKept,    \* whether the cache store keeps an entry that has no lifetime
  MissIsNull      \* whether it answers null, not undefined, for a key it has not

ASSUME ManagerAssumption ==
  /\ MANAGER_TYPE \in {"DOCKER", "K8S"}
  /\ DtoTtls \subseteq Int \cup {None}
  /\ Autos \subseteq BOOLEAN
  /\ RetryDuration \in Nat
  /\ ForeverKept \in BOOLEAN
  /\ MissIsNull \in BOOLEAN
  /\ None \notin Calls

VARIABLES
  host,     \* agent -> what the container host holds for it
  cache,    \* agent -> its cache entry, or None
  pc,       \* thread -> the await its continuation is at
  left,     \* thread -> seconds to go before its timer fires or its retries end
  arg,      \* slot -> the AgentConfig, or the arguments, of its request
  faulted,  \* history: agents whose objects a fault has touched
  upset     \* history: agents whose entry was last written by a request that was
            \* not for the agent as it runs

vars == <<host, cache, pc, left, arg, faulted, upset>>

---------------------------------------------------------------------------
(* The manager chosen by the constructor, and the host it drives. *)

Docker == INSTANCE DockerService
K8s == INSTANCE K8sService

IsDocker == MANAGER_TYPE = "DOCKER"

FirstStart == IF IsDocker THEN Docker!FirstStart ELSE K8s!FirstStart
FirstStop  == IF IsDocker THEN Docker!FirstStop ELSE K8s!FirstStop
StartCalls == IF IsDocker THEN Docker!StartCalls ELSE K8s!StartCalls
StopCalls  == IF IsDocker THEN Docker!StopCalls ELSE K8s!StopCalls
Full       == IF IsDocker THEN Docker!Full ELSE K8s!Full
Following(call)     == IF IsDocker THEN Docker!Following(call) ELSE K8s!Following(call)
Accepts(call, objs) == IF IsDocker THEN Docker!Accepts(call, objs) ELSE K8s!Accepts(call, objs)
After(call, objs)   == IF IsDocker THEN Docker!After(call, objs) ELSE K8s!After(call, objs)
Discards(call)      == IsDocker /\ Docker!Discards(call)
Exit(objs)          == IF IsDocker THEN Docker!Exit(objs) ELSE K8s!Exit(objs)

\* Nothing on the host.  lease and by are history: the seconds of its ttl
\* that the agent still has, and the slot of the request that started it.
Gone == [objs |-> {}, key |-> None, port |-> None, ready |-> FALSE,
         lease |-> Infinity, by |-> None]

\* The agent's admin server answers a request with this key on this port.
Reachable(a, key, port) ==
  /\ host[a].objs = Full
  /\ host[a].ready
  /\ host[a].key = key
  /\ host[a].port = port

---------------------------------------------------------------------------
(* Threads: every request, and the timer callback it may leave behind. *)

Threads == Calls \X {"call", "job"}

Request(c) == <<c, "call">>
Job(c) == <<c, "job">>
Ag(t) == arg[t[1]].agent
Arg(t) == arg[t[1]]

Answered == {"done", "failed"}
Quiet == Answered \cup {"idle"}

\* A timer callback has nobody to answer to.
Return(t) == IF t[2] = "call" THEN "done" ELSE "idle"

GoTo(t, label) == pc' = [pc EXCEPT ![t] = label]

Init ==
  /\ host = [a \in Agents |-> Gone]
  /\ cache = [a \in Agents |-> None]
  /\ pc = [t \in Threads |-> "idle"]
  /\ left = [t \in Threads |-> 0]
  /\ arg = [c \in Calls |-> None]
  /\ faulted = {} /\ upset = {}

Issue(c, op, r, label) ==
  /\ op \in Ops
  /\ pc[Request(c)] \in Quiet
  /\ pc[Job(c)] = "idle"
  /\ arg' = [arg EXCEPT ![c] = r]
  /\ GoTo(Request(c), label)
  /\ UNCHANGED <<host, cache, left, faulted, upset>>

\* POST manager: spinUpAgent builds the AgentConfig and calls startAgent.
SpinUp(c) ==
  \E a \in Agents, key \in Keys, port \in DtoPorts, ttl \in DtoTtls, auto \in Autos :
    Issue(c, "spinUp",
          [agent |-> a, key |-> key, port |-> AdminPort(port), ttl |-> Ttl(ttl), auto |-> auto],
          FirstStart)

\* DELETE manager: spinDownAgent deletes the cache entry first.
SpinDown(c) ==
  \E a \in Agents :
    Issue(c, "spinDown",
          [agent |-> a, key |-> None, port |-> None, ttl |-> None, auto |-> FALSE], "del")

\* POST manager/connect: connectAgent looks the agent's port up first.
Connect(c) ==
  \E a \in Agents, key \in Keys :
    Issue(c, "connect",
          [agent |-> a, key |-> key, port |-> None, ttl |-> None, auto |-> TRUE], "lookup")

---------------------------------------------------------------------------
(* Calls to the container host. *)

\* What an accepted start call leaves on the host for the thread's agent.
Started(t) ==
  [objs |-> After(pc[t], host[Ag(t)].objs), key |-> Arg(t).key, port |-> Arg(t).port,
   ready |-> FALSE, by |-> t[1],
   lease |-> IF HasTimer(Arg(t).ttl) THEN Arg(t).ttl ELSE Infinity]

\* What an accepted stop call leaves.
Stopped(t) ==
  LET objs == After(pc[t], host[Ag(t)].objs)
  IN  IF objs = {} THEN Gone ELSE [host[Ag(t)] EXCEPT !.objs = objs]

\* A fault on an agent counts until nothing of the agent is left.
Untouched(a) == faulted' = IF host'[a].objs = {} THEN faulted \ {a} ELSE faulted
Touched(a) == faulted' = IF host'[a].objs = {} THEN faulted \ {a} ELSE faulted \cup {a}

StartCall(t) ==
  /\ pc[t] \in StartCalls
  /\ Accepts(pc[t], host[Ag(t)].objs)
  /\ host' = [host EXCEPT ![Ag(t)] = Started(t)]
  /\ GoTo(t, IF Following(pc[t]) = "return" THEN "cacheSet" ELSE Following(pc[t]))
  /\ Untouched(Ag(t))
  /\ UNCHANGED <<cache, left, arg, upset>>

\* Any exception of startAgent is taken for an agent that already runs.
StartRefused(t) ==
  /\ pc[t] \in StartCalls
  /\ ~Accepts(pc[t], host[Ag(t)].objs)
  /\ GoTo(t, "recover")
  /\ UNCHANGED <<host, cache, left, arg, faulted, upset>>

\* The host fails, or the answer is lost after the call took effect, or the
\* host throws away what it could not start.
StartError(t) ==
  /\ "startError" \in Faults
  /\ pc[t] \in StartCalls
  /\ Accepts(pc[t], host[Ag(t)].objs)
  /\ \/ host' = [host EXCEPT ![Ag(t)] = Started(t)]
     \/ UNCHANGED host
     \/ Discards(pc[t]) /\ host' = [host EXCEPT ![Ag(t)] = Gone]
  /\ GoTo(t, "recover")
  /\ Touched(Ag(t))
  /\ UNCHANGED <<cache, left, arg, upset>>

StopCall(t) ==
  /\ pc[t] \in StopCalls
  /\ Accepts(pc[t], host[Ag(t)].objs)
  /\ host' = [host EXCEPT ![Ag(t)] = Stopped(t)]
  /\ GoTo(t, IF Following(pc[t]) = "return" THEN Return(t) ELSE Following(pc[t]))
  /\ Untouched(Ag(t))
  /\ UNCHANGED <<cache, left, arg, upset>>

\* spinDownAgent logs any exception and returns as if all went well.
StopRefused(t) ==
  /\ pc[t] \in StopCalls
  /\ ~Accepts(pc[t], host[Ag(t)].objs)
  /\ GoTo(t, Return(t))
  /\ UNCHANGED <<host, cache, left, arg, faulted, upset>>

StopError(t) ==
  /\ "stopError" \in Faults
  /\ pc[t] \in StopCalls
  /\ Accepts(pc[t], host[Ag(t)].objs)
  /\ \/ host' = [host EXCEPT ![Ag(t)] = Stopped(t)]
     \/ UNCHANGED host
  /\ GoTo(t, Return(t))
  /\ Touched(Ag(t))
  /\ UNCHANGED <<cache, left, arg, upset>>

---------------------------------------------------------------------------
(* The cache entry of an agent. *)

\* setAgentCache.  A store that does not keep an entry without a lifetime
\* drops what it had under the key.
Entry(t) ==
  LET life == CacheLifetime(Arg(t).ttl)
  IN  IF life = Infinity /\ ~ForeverKept THEN None
      ELSE [key |-> Arg(t).key, port |-> Arg(t).port, left |-> life]

\* The request that writes is for the agent as it runs: it gives the same key
\* and port, and a ttl that is no shorter and that the store keeps.
Suits(t) ==
  LET agent == host[Ag(t)]
      ttl == Arg(t).ttl
  IN  agent.objs = Full /\ Ag(t) \notin faulted =>
        /\ Arg(t).key = agent.key /\ Arg(t).port = agent.port
        /\ \/ ttl = Infinity /\ ForeverKept
           \/ HasTimer(ttl) /\ agent.lease # Infinity /\ ttl >= arg[agent.by].ttl

SetAgentCache(t) ==
  /\ cache' = [cache EXCEPT ![Ag(t)] = Entry(t)]
  /\ upset' = IF Suits(t) THEN upset \ {Ag(t)} ELSE upset \cup {Ag(t)}

AfterRecovery(t) == IF Arg(t).auto THEN "recoverConnect" ELSE "cacheSet"

\* handleAlreadyRunningContainer reads the entry, and takes a miss that is not
\* undefined for one that it cannot help ...
Recover(t) ==
  /\ pc[t] = "recover"
  /\ GoTo(t, IF cache[Ag(t)] # None THEN AfterRecovery(t)
             ELSE IF MissIsNull THEN "failed" ELSE "recoverSet")
  /\ UNCHANGED <<host, cache, left, arg, faulted, upset>>

\* ... writes one when there is none ...
RecoverSet(t) ==
  /\ pc[t] = "recoverSet"
  /\ SetAgentCache(t)
  /\ GoTo(t, "recoverGet")
  /\ UNCHANGED <<host, left, arg, faulted>>

\* ... reads it again, and rethrows the host's exception without one ...
RecoverGet(t) ==
  /\ pc[t] = "recoverGet"
  /\ GoTo(t, IF cache[Ag(t)] = None THEN "failed" ELSE AfterRecovery(t))
  /\ UNCHANGED <<host, cache, left, arg, faulted, upset>>

\* ... and asks the agent for an invitation that it then discards.
RecoverConnect(t) ==
  /\ pc[t] = "recoverConnect"
  /\ GoTo(t, IF Reachable(Ag(t), Arg(t).key, Arg(t).port) THEN "cacheSet" ELSE "failed")
  /\ UNCHANGED <<host, cache, left, arg, faulted, upset>>

\* spinUpAgent writes the entry, whether it started the agent or found it.
CacheSet(t) ==
  /\ pc[t] = "cacheSet"
  /\ SetAgentCache(t)
  /\ GoTo(t, "arm")
  /\ UNCHANGED <<host, left, arg, faulted>>

\* Faulty variant: an agent without an entry is taken for one that is down.
CacheDelKnown(t) ==
  /\ pc[t] = "del"
  /\ cache' = [cache EXCEPT ![Ag(t)] = None]
  /\ GoTo(t, IF cache[Ag(t)] = None THEN Return(t) ELSE FirstStop)
  /\ UNCHANGED <<host, left, arg, faulted, upset>>

\* spinDownAgent deletes the entry before it stops the agent.
CacheDel(t) ==
  /\ pc[t] = "del"
  /\ cache' = [cache EXCEPT ![Ag(t)] = None]
  /\ GoTo(t, FirstStop)
  /\ UNCHANGED <<host, left, arg, faulted, upset>>

\* connectAgent uses the cached port, the environment's without an entry.
Lookup(t) ==
  /\ pc[t] = "lookup"
  /\ arg' = [arg EXCEPT ![t[1]].port =
               IF cache[Ag(t)] = None THEN AGENT_ADMIN_PORT ELSE cache[Ag(t)].port]
  /\ IF RetryDuration = 0
     THEN GoTo(t, "failed") /\ UNCHANGED left
     ELSE GoTo(t, "delay") /\ left' = [left EXCEPT ![t] = RetryDuration]
  /\ UNCHANGED <<host, cache, faulted, upset>>

\* The store throws: a spin-up or a connect fails, a spin-down gives up.
CacheError(t) ==
  /\ "cache" \in Faults
  /\ pc[t] \in {"recover", "recoverSet", "recoverGet", "cacheSet", "del", "lookup"}
  /\ UNCHANGED <<host, cache, left, arg, upset>>
  /\ GoTo(t, IF pc[t] = "del" THEN Return(t) ELSE "failed")
  /\ IF pc[t] \in {"cacheSet", "del"} THEN Touched(Ag(t)) ELSE UNCHANGED faulted

---------------------------------------------------------------------------
(* Timers, pings and invitations. *)

\* Faulty variant: the timer is not armed for a request that goes on to ping.
SetSpinDownJobLate(t) ==
  LET job == Job(t[1])
      timer == HasTimer(Arg(t).ttl) /\ ~Arg(t).auto
      pings == Arg(t).auto /\ RetryDuration > 0
  IN  /\ pc[t] = "arm"
      /\ pc' = [pc EXCEPT ![job] = IF timer THEN "armed" ELSE @,
                          ![t] = IF ~Arg(t).auto THEN "done"
                                 ELSE IF pings THEN "delay" ELSE "failed"]
      /\ left' = [left EXCEPT ![job] = IF timer THEN TimerDelay(Arg(t).ttl) ELSE @,
                              ![t] = IF pings THEN RetryDuration ELSE @]
      /\ UNCHANGED <<host, cache, arg, faulted, upset>>

\* setSpinDownJob; the same continuation then answers, or starts to ping.
\* pingConnectionWithRetry throws at once when it has no time to spend.
SetSpinDownJob(t) ==
  LET job == Job(t[1])
      timer == HasTimer(Arg(t).ttl)
      pings == Arg(t).auto /\ RetryDuration > 0
  IN  /\ pc[t] = "arm"
      /\ pc' = [pc EXCEPT ![job] = IF timer THEN "armed" ELSE @,
                          ![t] = IF ~Arg(t).auto THEN "done"
                                 ELSE IF pings THEN "delay" ELSE "failed"]
      /\ left' = [left EXCEPT ![job] = IF timer THEN TimerDelay(Arg(t).ttl) ELSE @,
                              ![t] = IF pings THEN RetryDuration ELSE @]
      /\ UNCHANGED <<host, cache, arg, faulted, upset>>

\* The timer's callback calls spinDownAgent.
TimerFires(t) ==
  /\ pc[t] = "armed"
  /\ left[t] = 0
  /\ GoTo(t, "del")
  /\ UNCHANGED <<host, cache, left, arg, faulted, upset>>

\* isAgentServerUp after a second's delay.
PingAnswered(t) ==
  /\ pc[t] = "ping"
  /\ Reachable(Ag(t), Arg(t).key, Arg(t).port)
  /\ GoTo(t, "connect")
  /\ left' = [left EXCEPT ![t] = 0]
  /\ UNCHANGED <<host, cache, arg, faulted, upset>>

\* Faulty variant: the retries never end.
PingUnansweredEndless(t) ==
  /\ pc[t] = "ping"
  /\ ~Reachable(Ag(t), Arg(t).key, Arg(t).port)
  /\ GoTo(t, "delay")
  /\ UNCHANGED <<host, cache, left, arg, faulted, upset>>

PingUnanswered(t) ==
  /\ pc[t] = "ping"
  /\ ~Reachable(Ag(t), Arg(t).key, Arg(t).port)
  /\ GoTo(t, IF left[t] > 0 THEN "delay" ELSE "failed")
  /\ UNCHANGED <<host, cache, left, arg, faulted, upset>>

CreateConnection(t) ==
  /\ pc[t] = "connect"
  /\ GoTo(t, IF Reachable(Ag(t), Arg(t).key, Arg(t).port) THEN "done" ELSE "failed")
  /\ UNCHANGED <<host, cache, left, arg, faulted, upset>>

---------------------------------------------------------------------------
(* The environment. *)

\* The agent's process comes up on the host.
AgentBoots(a) ==
  /\ host[a].objs = Full
  /\ ~host[a].ready
  /\ host' = [host EXCEPT ![a].ready = TRUE]
  /\ UNCHANGED <<cache, pc, left, arg, faulted, upset>>

\* The agent's process ends by itself.
AgentExits(a) ==
  /\ "exit" \in Faults
  /\ host[a].objs = Full
  /\ host[a].ready
  /\ host' = [host EXCEPT ![a] = IF Exit(@.objs) = {} THEN Gone ELSE [@ EXCEPT !.ready = FALSE]]
  /\ Untouched(a)
  /\ UNCHANGED <<cache, pc, left, arg, upset>>

\* The agency restarts: requests and timers are lost, the host's objects and
\* the cache's entries stay.
Crash ==
  /\ "crash" \in Faults
  /\ \E t \in Threads : pc[t] \notin Quiet
  /\ pc' = [t \in Threads |-> IF pc[t] \in Answered THEN pc[t] ELSE "idle"]
  /\ left' = [t \in Threads |-> 0]
  /\ faulted' = faulted \cup {a \in Agents : host[a].objs # {}}
  /\ UNCHANGED <<host, cache, arg, upset>>

\* A second passes once every continuation that is due has run; an entry
\* whose lifetime is over is gone.
Tick ==
  /\ \A t \in Threads : pc[t] \notin {"ping", "arm"} /\ (pc[t] = "armed" => left[t] > 0)
  /\ left' = [t \in Threads |-> Elapse(left[t])]
  /\ pc' = [t \in Threads |-> IF pc[t] = "delay" THEN "ping" ELSE pc[t]]
  /\ cache' = [a \in Agents |->
       IF cache[a] = None \/ Elapse(cache[a].left) = 0 THEN None
       ELSE [cache[a] EXCEPT !.left = Elapse(@)]]
  /\ host' = [a \in Agents |-> [host[a] EXCEPT !.lease = Elapse(@)]]
  /\ UNCHANGED <<arg, faulted, upset>>

---------------------------------------------------------------------------

Step(t) ==
  \/ StartCall(t) \/ StartRefused(t) \/ StartError(t)
  \/ StopCall(t) \/ StopRefused(t) \/ StopError(t)
  \/ Recover(t) \/ RecoverSet(t) \/ RecoverGet(t) \/ RecoverConnect(t)
  \/ CacheSet(t) \/ CacheDel(t) \/ Lookup(t) \/ CacheError(t)
  \/ SetSpinDownJob(t) \/ TimerFires(t)
  \/ PingAnswered(t) \/ PingUnanswered(t) \/ CreateConnection(t)

Next ==
  \/ \E c \in Calls : SpinUp(c) \/ SpinDown(c) \/ Connect(c)
  \/ \E t \in Threads : Step(t)
  \/ \E a \in Agents : AgentBoots(a) \/ AgentExits(a)
  \/ Crash
  \/ Tick

Spec == Init /\ [][Next]_vars

\* Node keeps running the continuations that are due, and time passes
\* however busy the agency is.
Fairness == SF_vars(Tick) /\ \A t \in Threads : WF_vars(Step(t))

FairSpec == Spec /\ Fairness

---------------------------------------------------------------------------
(* Properties. *)

Labels ==
  {"idle", "done", "failed", "recover", "recoverSet", "recoverGet", "recoverConnect",
   "cacheSet", "arm", "delay", "ping", "connect", "lookup", "armed", "del"}
    \cup StartCalls \cup StopCalls

KeyType == Keys \cup {None}
PortType == {AdminPort(p) : p \in DtoPorts} \cup {AGENT_ADMIN_PORT, None}
Ttls == {Ttl(d) : d \in DtoTtls}

HostType ==
  [objs : SUBSET Full, key : KeyType, port : PortType, ready : BOOLEAN,
   lease : Time, by : Calls \cup {None}]
CacheType == [key : KeyType, port : PortType, left : Time]
ArgType ==
  [agent : Agents, key : KeyType, port : PortType, ttl : Ttls \cup {None}, auto : BOOLEAN]

\* Where a thread works with an AgentConfig.
SpinUpLabels ==
  {"recover", "recoverSet", "recoverGet", "recoverConnect", "cacheSet", "arm", "armed"}
    \cup StartCalls

\* The variables have their types, and a thread that is at work has the
\* arguments it works with.
TypeOK ==
  /\ host \in [Agents -> HostType]
  /\ cache \in [Agents -> CacheType \cup {None}]
  /\ pc \in [Threads -> Labels]
  /\ left \in [Threads -> Nat]
  /\ arg \in [Calls -> ArgType \cup {None}]
  /\ \A t \in Threads : pc[t] # "idle" => Arg(t) \in ArgType
  /\ \A t \in Threads : pc[t] \in SpinUpLabels => Arg(t).ttl \in Ttls
  /\ faulted \subseteq Agents /\ upset \subseteq Agents

\* Threads between the two calls of a start or of a stop.
HalfStart(t) == pc[t] \in StartCalls \ {FirstStart}
HalfStop(t) == pc[t] \in StopCalls \ {FirstStop}
Halfway(t) == HalfStart(t) \/ HalfStop(t)

\* startAgent and stopAgent are two calls each, and nothing serialises them:
\* an agent has only some of its objects while exactly one operation is
\* between its two calls, and that operation finds what its first call left;
\* only a fault leaves a half-made agent behind.
NoHalfAgents ==
  \A a \in Agents :
    LET users == {t \in Threads : Halfway(t) /\ Ag(t) = a}
    IN  /\ \A t, u \in users : t = u
        /\ users # {} => host[a].objs \notin {{}, Full}
        /\ host[a].objs \notin {{}, Full} => users # {} \/ a \in faulted

\* Every agent with a ttl that no fault has touched has its end ahead: the
\* request that started it is about to arm the timer, its timer is armed, or
\* somebody is taking the agent down.  Requests on the same agent, answered
\* from the exception path or not, never lose it.
ExpiryIsScheduled ==
  \A a \in Agents :
    host[a].objs # {} /\ host[a].lease # Infinity /\ a \notin faulted =>
      \/ \E t \in Threads : HalfStop(t) /\ Ag(t) = a
      \/ LET c == host[a].by
         IN  /\ arg[c].agent = a
             /\ \/ HalfStart(Request(c))
                \/ pc[Request(c)] \in {"cacheSet", "arm"}
                \/ pc[Job(c)] \in {"armed", "del", FirstStop}

\* A start that has not written its entry yet, or a spin-down that is about to
\* stop the agent: who may have left a running agent without its entry.
Unsettles(t, a) == pc[t] \in {"cacheSet", "del", FirstStop} /\ Ag(t) = a

\* No fault has touched an agent that is up, its entry was not rewritten by a
\* request that was not for it as it runs, and nobody is in the middle of
\* putting it up or taking it down.
Undisturbed(a) ==
  /\ host[a].objs = Full
  /\ a \notin faulted \cup upset
  /\ ~\E t \in Threads : Unsettles(t, a)

\* The entry has the key and the port that the agent was started with.
Fits(a) == cache[a] # None /\ cache[a].key = host[a].key /\ cache[a].port = host[a].port

\* An agent that is up and undisturbed has its own entry, by which the
\* controller answers its webhooks: it does not run out before the agent is
\* stopped, and no delete, no timer and no other spin-up of the agent, however
\* late they come, takes it away or leaves an older one in its place.
UpIsCached == \A a \in Agents : Undisturbed(a) => Fits(a)

\* Thread t takes a running agent down.
Stops(t, a) ==
  /\ pc[t] = FirstStop /\ pc'[t] # pc[t] /\ Ag(t) = a
  /\ host[a].objs = Full /\ host'[a].objs # Full

\* agent.create.dto.ts:31 promises an agent its ttl: no timer takes it down
\* earlier.
AgentLivesItsTtl ==
  [][\A t \in Threads, a \in Agents :
       Stops(t, a) /\ t[2] = "job" => host[a].lease = 0]_vars

\* The timer armed by the very request that started the agent does keep the
\* promise, however late the cache and the host answer.
OwnTimerIsPunctual ==
  [][\A c \in Calls, a \in Agents :
       Stops(Job(c), a) /\ host[a].by = c /\ a \notin faulted
         => host[a].lease \in {0, Infinity}]_vars

\* Threads that are at work on an agent; a timer that waits is not.
Busy(t) == pc[t] \notin Quiet \cup {"armed"}

\* DELETE manager answers 200 whatever happened.  When nothing else is at
\* work on the agent as it answers, the agent is gone.
DeleteRemovesAgent ==
  [][\A c \in Calls :
       LET t == Request(c) IN
       /\ pc[t] \in StopCalls \cup {"del"}
       /\ pc'[t] = "done"
       /\ \A u \in Threads \ {t} : Busy(u) => Ag(u) # Ag(t)
       => host'[Ag(t)].objs = {}]_vars

\* The awaits from a label to the end of its request or timer, those of the
\* retries apart.
Awaits(label) ==
  LET own == [idle |-> 0, done |-> 0, failed |-> 0,
              recover |-> 7, recoverSet |-> 6, recoverGet |-> 5, recoverConnect |-> 4,
              cacheSet |-> 3, arm |-> 2, lookup |-> 2, ping |-> 2, delay |-> 1, connect |-> 1,
              armed |-> 4, del |-> 3]
  IN  IF label \in StartCalls THEN IF label = FirstStart THEN 9 ELSE 8
      ELSE IF label \in StopCalls THEN IF label = FirstStop THEN 2 ELSE 1
      ELSE own[label]

\* Those of a thread at most: a second of retries is two.
Ahead(t) ==
  Awaits(pc[t]) + 2 * (IF pc[t] \in {"delay", "ping"} THEN left[t]
                       ELSE IF pc[t] \in SpinUpLabels \cup {"lookup"} THEN RetryDuration ELSE 0)

\* Nothing that others do to its agent, its entry or the host sends a request
\* or a timer back to where it was: every step it takes uses up one of the
\* awaits that it had ahead of it, and none makes them more.
StepsRunOut ==
  [][\A t \in Threads :
       pc[t] \notin Quiet /\ pc'[t] # pc[t] => Ahead(t)' \in 0 .. Ahead(t) - 1]_vars

\* Every request is answered.
EveryCallAnswers ==
  \A c \in Calls : pc[Request(c)] \notin Quiet ~> pc[Request(c)] \in Answered

\* An agent that has outlived its ttl is taken down.
ExpiredAgentStops == \A a \in Agents : host[a].lease = 0 ~> host[a].lease # 0

\* The lifecycle that callers of IAgentManager may count on.
Phase(a) ==
  IF host[a].objs = {} THEN "absent"
  ELSE IF host[a].objs = Full THEN "running"
  ELSE IF \E t \in Threads : HalfStart(t) /\ Ag(t) = a THEN "starting"
  ELSE IF \E t \in Threads : HalfStop(t) /\ Ag(t) = a THEN "stopping"
  ELSE "stuck"

AgentPhases == [a \in Agents |-> Phase(a)]

FailsHalfway == Faults \cap {"startError", "stopError", "crash"} # {}

Lifecycle ==
  INSTANCE AgentLifecycle WITH phase <- AgentPhases, MayFail <- FailsHalfway

ImplementsLifecycle == Lifecycle!Spec
=============================================================================
