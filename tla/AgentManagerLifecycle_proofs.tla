--------------------- MODULE AgentManagerLifecycle_proofs ---------------------
(***************************************************************************)
(* AgentManager implements AgentLifecycle, whatever its host and faults.   *)
(***************************************************************************)
EXTENDS AgentManager_proofs

---------------------------------------------------------------------------
(* AgentPhases of an agent. *)

\* t is half-way in a start, or in a stop, of a.
Starting(t, a) == HalfStart(t) /\ Ag(t) = a
Stopping(t, a) == HalfStop(t) /\ Ag(t) = a

LEMMA PhaseIs ==
  ASSUME NEW a \in Agents
  PROVE  /\ host[a].objs = {} => Phase(a) = "absent"
         /\ host[a].objs = Full => Phase(a) = "running"
         /\ host[a].objs = Half =>
              /\ (\E t \in Threads : Starting(t, a)) => Phase(a) = "starting"
              /\ ~(\E t \in Threads : Starting(t, a)) /\ (\E t \in Threads : Stopping(t, a))
                   => Phase(a) = "stopping"
              /\ ~(\E t \in Threads : Starting(t, a)) /\ ~(\E t \in Threads : Stopping(t, a))
                   => Phase(a) = "stuck"
  BY StagesDiffer, Zenon DEF Phase, Starting, Stopping

\* The same of a state after a step.
LEMMA PhaseIsNext ==
  ASSUME NEW a \in Agents
  PROVE  /\ host'[a].objs = {} => Phase(a)' = "absent"
         /\ host'[a].objs = Full => Phase(a)' = "running"
         /\ host'[a].objs = Half =>
              /\ (\E t \in Threads : Starting(t, a)') => Phase(a)' = "starting"
              /\ ~(\E t \in Threads : Starting(t, a)') /\ (\E t \in Threads : Stopping(t, a)')
                   => Phase(a)' = "stopping"
              /\ ~(\E t \in Threads : Starting(t, a)') /\ ~(\E t \in Threads : Stopping(t, a)')
                   => Phase(a)' = "stuck"
  BY StagesDiffer, Zenon DEF Phase, Starting, Stopping

\* A step that neither changes what a has nor who is half-way on it.
LEMMA PhaseFrame ==
  ASSUME NEW a \in Agents, HalfOK,
         host'[a].objs = host[a].objs,
         \A t \in Threads : Starting(t, a)' <=> Starting(t, a),
         \A t \in Threads : Stopping(t, a)' <=> Stopping(t, a)
  PROVE  Phase(a)' = Phase(a)
  <1>1. host[a].objs \in {{}, Half, Full}
    BY DEF HalfOK, Stages
  <1>2. QED
    BY <1>1, PhaseIs, PhaseIsNext

\* The phase that a half-way thread gives to its agent.
LEMMA HalfwayPhase ==
  ASSUME TypeOK, HalfOK, NEW t \in Threads
  PROVE  /\ pc[t] = SecondStart => Phase(Ag(t)) = "starting"
         /\ pc[t] \in StopCalls \ {FirstStop} => Phase(Ag(t)) = "stopping"
  <1>1. ASSUME pc[t] \in HalfLabels
        PROVE  Ag(t) \in Agents /\ host[Ag(t)].objs = Half
    BY <1>1, HalfAgent DEF HalfOK
  <1>2. ASSUME pc[t] = SecondStart
        PROVE  Phase(Ag(t)) = "starting"
    <2>1. pc[t] \in HalfLabels
      BY <1>2 DEF HalfLabels
    <2>2. Starting(t, Ag(t))
      BY <1>2, CallNames DEF Starting, HalfStart
    <2>3. QED
      BY <1>1, <2>1, <2>2, PhaseIs
  <1>3. ASSUME pc[t] \in StopCalls \ {FirstStop}
        PROVE  Phase(Ag(t)) = "stopping"
    <2>1. pc[t] \in HalfLabels
      BY <1>3 DEF HalfLabels
    <2>2. Stopping(t, Ag(t))
      BY <1>3 DEF Stopping, HalfStop
    <2>3. ASSUME NEW u \in Threads, Starting(u, Ag(t))
          PROVE  FALSE
      <3>1. pc[u] \in HalfLabels /\ Ag(u) = Ag(t) /\ pc[u] \in StartCalls
        BY <2>3, CallNames DEF Starting, HalfStart, HalfLabels
      <3>2. u = t
        BY <2>1, <3>1 DEF HalfOK
      <3>3. QED
        BY <1>3, <3>1, <3>2, CallNames
    <2>4. QED
      BY <1>1, <2>1, <2>2, <2>3, PhaseIs
  <1>4. QED
    BY <1>2, <1>3

---------------------------------------------------------------------------
(* Steps of the abstract lifecycle. *)

LEMMA PhaseMoves ==
  ASSUME NEW a \in Agents, NEW from, Phase(a) \in from,
         \A b \in Agents \ {a} : Phase(b)' = Phase(b)
  PROVE  Lifecycle!Move(a, from, Phase(a)')
  BY DEF Lifecycle!Move, AgentPhases

\* The moves of one agent that the lifecycle allows.
LEMMA MovesAllowed ==
  ASSUME NEW a \in Agents,
         \A b \in Agents \ {a} : Phase(b)' = Phase(b),
         \/ Phase(a)' = Phase(a)
         \/ Phase(a) = "absent" /\ Phase(a)' = "starting"
         \/ Phase(a) = "starting" /\ Phase(a)' = "running"
         \/ Phase(a) = "running" /\ Phase(a)' = "stopping"
         \/ Phase(a) \in {"running", "stopping"} /\ Phase(a)' = "absent"
         \/ FailsHalfway /\ Phase(a) = "starting" /\ Phase(a)' = "absent"
         \/ FailsHalfway /\ Phase(a)' = "stuck"
  PROVE  Lifecycle!Next \/ UNCHANGED AgentPhases
  <1>1. CASE Phase(a)' = Phase(a)
    BY <1>1 DEF AgentPhases
  <1>2. CASE \/ Phase(a) = "absent" /\ Phase(a)' = "starting"
             \/ Phase(a) = "starting" /\ Phase(a)' = "running"
    BY <1>2, PhaseMoves DEF Lifecycle!Next, Lifecycle!Start
  <1>3. CASE \/ Phase(a) = "running" /\ Phase(a)' = "stopping"
             \/ Phase(a) \in {"running", "stopping"} /\ Phase(a)' = "absent"
    BY <1>3, PhaseMoves DEF Lifecycle!Next, Lifecycle!Stop
  <1>4. CASE FailsHalfway /\ Phase(a) = "starting" /\ Phase(a)' = "absent"
    BY <1>4, PhaseMoves DEF Lifecycle!Next, Lifecycle!Undo, FailsHalfway
  <1>5. CASE FailsHalfway /\ Phase(a)' = "stuck"
    <2>1. Lifecycle!Strand({a})
      BY <1>5 DEF Lifecycle!Strand, FailsHalfway, AgentPhases
    <2>2. QED
      BY <2>1 DEF Lifecycle!Next
  <1>6. QED
    BY <1>1, <1>2, <1>3, <1>4, <1>5

---------------------------------------------------------------------------
(* Steps of the manager. *)

\* A step that leaves objects and half-way threads alone is none.
LEMMA SameIsStutter ==
  ASSUME HalfOK, HalfSame
  PROVE  UNCHANGED AgentPhases
  <1>1. ASSUME NEW a \in Agents
        PROVE  Phase(a)' = Phase(a)
    <2>1. \A t \in Threads : (HalfStart(t) \/ HalfStop(t)) <=> pc[t] \in HalfLabels
      BY HalfwayLabels DEF Halfway
    <2>2. \A t \in Threads : (HalfStart(t)' \/ HalfStop(t)') => pc'[t] \in HalfLabels
      BY CallNames DEF HalfStart, HalfStop, HalfLabels
    <2>3. \A t \in Threads : (Starting(t, a)' <=> Starting(t, a))
                             /\ (Stopping(t, a)' <=> Stopping(t, a))
      BY <2>1, <2>2 DEF HalfSame, Starting, Stopping, HalfStart, HalfStop
    <2>4. QED
      BY <2>3, PhaseFrame DEF HalfSame
  <1>2. QED
    BY <1>1 DEF AgentPhases

\* A thread moves its own agent only.
LEMMA OthersStay ==
  ASSUME TypeOK, HalfOK, NEW t \in Threads, NEW label, GoTo(t, label), UNCHANGED arg,
         \A b \in Agents \ {Ag(t)} : host'[b] = host[b]
  PROVE  \A b \in Agents \ {Ag(t)} : Phase(b)' = Phase(b)
  <1> SUFFICES ASSUME NEW b \in Agents \ {Ag(t)}
               PROVE  Phase(b)' = Phase(b)
    OBVIOUS
  <1>1. \A u \in Threads \ {t} : pc'[u] = pc[u]
    BY DEF GoTo, TypeOK
  <1>2. \A u \in Threads : Ag(u)' = Ag(u)
    BY DEF Ag
  <1>3. \A u \in Threads : (Starting(u, b)' <=> Starting(u, b))
                           /\ (Stopping(u, b)' <=> Stopping(u, b))
    BY <1>1, <1>2 DEF Starting, Stopping, HalfStart, HalfStop
  <1>4. QED
    BY <1>3, PhaseFrame

\* The phase that a thread's step gives to its agent, when it is the only one
\* that was half-way there.
LEMMA OwnPhase ==
  ASSUME TypeOK, HalfOK, NEW t \in Threads, NEW label, GoTo(t, label), UNCHANGED arg,
         Ag(t) \in Agents,
         \A u \in Threads \ {t} : pc[u] \in HalfLabels => Ag(u) # Ag(t)
  PROVE  /\ host'[Ag(t)].objs = {} => Phase(Ag(t))' = "absent"
         /\ host'[Ag(t)].objs = Full => Phase(Ag(t))' = "running"
         /\ host'[Ag(t)].objs = Half =>
              /\ label = SecondStart => Phase(Ag(t))' = "starting"
              /\ label \in StopCalls \ {FirstStop} => Phase(Ag(t))' = "stopping"
              /\ label \notin HalfLabels => Phase(Ag(t))' = "stuck"
  <1> DEFINE a == Ag(t)
  <1>1. pc'[t] = label /\ \A u \in Threads \ {t} : pc'[u] = pc[u]
    BY DEF GoTo, TypeOK
  <1>2. \A u \in Threads : Ag(u)' = Ag(u)
    BY DEF Ag
  <1>3. \A u \in Threads \ {t} : ~Starting(u, a)' /\ ~Stopping(u, a)'
    BY <1>1, <1>2, CallNames DEF Starting, Stopping, HalfStart, HalfStop, HalfLabels
  <1>4. /\ Starting(t, a)' <=> label = SecondStart
        /\ Stopping(t, a)' <=> label \in StopCalls \ {FirstStop}
    BY <1>1, <1>2, CallNames DEF Starting, Stopping, HalfStart, HalfStop
  <1>5. a' = a
    BY <1>2
  <1>6. PICK b \in Agents : b = a
    OBVIOUS
  <1>7. /\ \A u \in Threads \ {t} : ~Starting(u, b)' /\ ~Stopping(u, b)'
        /\ Starting(t, b)' <=> label = SecondStart
        /\ Stopping(t, b)' <=> label \in StopCalls \ {FirstStop}
    BY <1>3, <1>4, <1>5, <1>6
  <1>8. /\ label = SecondStart => label \notin StopCalls
        /\ label \notin HalfLabels => label # SecondStart /\ label \notin StopCalls \ {FirstStop}
    BY CallNames DEF HalfLabels
  <1>9. /\ host'[b].objs = {} => Phase(b)' = "absent"
        /\ host'[b].objs = Full => Phase(b)' = "running"
        /\ host'[b].objs = Half =>
             /\ label = SecondStart => Phase(b)' = "starting"
             /\ label \in StopCalls \ {FirstStop} => Phase(b)' = "stopping"
             /\ label \notin HalfLabels => Phase(b)' = "stuck"
    BY <1>7, <1>8, PhaseIsNext
  <1>10. QED
    BY <1>5, <1>6, <1>9

LEMMA HostCallPhase ==
  ASSUME TypeOK, HalfOK, NEW t \in Threads,
         StartCall(t) \/ StartError(t) \/ StopCall(t) \/ StopError(t)
  PROVE  Lifecycle!Next \/ UNCHANGED AgentPhases
  <1>1. pc[t] \in StartCalls \cup StopCalls /\ Accepts(pc[t], host[Ag(t)].objs)
    BY DEF StartCall, StartError, StopCall, StopError
  <1>2. PICK a \in Agents : a = Ag(t)
    BY <1>1, AcceptedCalls
  <1>3. \A u \in Threads \ {t} : pc[u] \in HalfLabels => Ag(u) # a
    BY <1>1, <1>2, AcceptedCalls
  <1>4. UNCHANGED arg /\ Ag(t)' = a /\ \A b \in Agents \ {a} : host'[b] = host[b]
    BY <1>2 DEF StartCall, StartError, StopCall, StopError, Ag, TypeOK
  <1>5. host \in [Agents -> HostType]
    BY DEF TypeOK
  <1>6. /\ pc[t] = FirstStart => host[a].objs = {} /\ Phase(a) = "absent"
        /\ pc[t] = SecondStart => host[a].objs = Half /\ Phase(a) = "starting"
        /\ pc[t] = FirstStop => host[a].objs = Full /\ Phase(a) = "running"
        /\ pc[t] \in StopCalls \ {FirstStop} => host[a].objs = Half /\ Phase(a) = "stopping"
    BY <1>1, <1>2, AcceptedCalls, PhaseIs, HalfwayPhase
  <1>7. ASSUME NEW label, GoTo(t, label)
        PROVE  /\ \A b \in Agents \ {a} : Phase(b)' = Phase(b)
               /\ host'[a].objs = {} => Phase(a)' = "absent"
               /\ host'[a].objs = Full => Phase(a)' = "running"
               /\ host'[a].objs = Half =>
                    /\ label = SecondStart => Phase(a)' = "starting"
                    /\ label \in StopCalls \ {FirstStop} => Phase(a)' = "stopping"
                    /\ label \notin HalfLabels => Phase(a)' = "stuck"
    BY <1>2, <1>3, <1>4, <1>7, OthersStay, OwnPhase
  <1>8. CASE StartCall(t)
    <2>1. host'[a] = Started(t)
      BY <1>2, <1>5, <1>8 DEF StartCall
    <2>2. CASE pc[t] = FirstStart
      <3>1. Started(t).objs = Half /\ GoTo(t, SecondStart)
        BY <1>1, <1>8, <2>2, AcceptedCalls, CallOrder, CallNames DEF StartCall, OwnLabels
      <3>2. QED
        BY <1>6, <1>7, <2>1, <2>2, <3>1, MovesAllowed
    <2>3. CASE pc[t] = SecondStart
      <3>1. Started(t).objs = Full /\ GoTo(t, "cacheSet")
        BY <1>1, <1>8, <2>3, AcceptedCalls, CallOrder DEF StartCall
      <3>2. QED
        BY <1>6, <1>7, <2>1, <2>3, <3>1, MovesAllowed
    <2>4. QED
      BY <1>8, <2>2, <2>3, CallNames DEF StartCall
  <1>9. CASE StartError(t)
    <2>1. FailsHalfway /\ GoTo(t, "recover") /\ "recover" \notin HalfLabels
      BY <1>9, HalfNames DEF StartError, FailsHalfway, OwnLabels
    <2>2. host'[a] \in {Started(t), host[a], Gone}
      BY <1>2, <1>5, <1>9 DEF StartError
    <2>3. CASE pc[t] = FirstStart
      <3>1. host'[a].objs \in {Half, {}}
        BY <1>1, <1>2, <1>6, <2>2, <2>3, AcceptedCalls DEF Gone
      <3>2. QED
        BY <1>6, <1>7, <2>1, <2>3, <3>1, MovesAllowed
    <2>4. CASE pc[t] = SecondStart
      <3>1. host'[a].objs \in {Half, Full, {}}
        BY <1>1, <1>2, <1>6, <2>2, <2>4, AcceptedCalls DEF Gone
      <3>2. QED
        BY <1>6, <1>7, <2>1, <2>4, <3>1, MovesAllowed
    <2>5. QED
      BY <1>9, <2>3, <2>4, CallNames DEF StartError
  <1>10. CASE StopCall(t)
    <2>1. host'[a] = Stopped(t)
      BY <1>2, <1>5, <1>10 DEF StopCall
    <2>2. CASE pc[t] = FirstStop /\ Following(FirstStop) # "return"
      <3>1. GoTo(t, Following(FirstStop)) /\ Following(FirstStop) \in StopCalls \ {FirstStop}
        BY <1>10, <2>2, CallOrder DEF StopCall
      <3>2. Stopped(t).objs = Half
        BY <1>1, <2>2, AcceptedCalls
      <3>3. QED
        BY <1>6, <1>7, <2>1, <2>2, <3>1, <3>2, MovesAllowed
    <2>3. CASE ~(pc[t] = FirstStop /\ Following(FirstStop) # "return")
      <3>1. Stopped(t).objs = {}
        BY <1>1, <1>10, <2>3, AcceptedCalls DEF StopCall
      <3>2. \E label : GoTo(t, label)
        BY <1>10 DEF StopCall
      <3>3. pc[t] = FirstStop \/ pc[t] \in StopCalls \ {FirstStop}
        BY <1>10 DEF StopCall
      <3>4. QED
        BY <1>6, <1>7, <2>1, <3>1, <3>2, <3>3, MovesAllowed
    <2>4. QED
      BY <2>2, <2>3
  <1>11. CASE StopError(t)
    <2>1. FailsHalfway /\ GoTo(t, Return(t)) /\ Return(t) \notin HalfLabels
      BY <1>11, HalfNames DEF StopError, FailsHalfway, Return, OwnLabels
    <2>2. host'[a] \in {Stopped(t), host[a]}
      BY <1>2, <1>5, <1>11 DEF StopError
    <2>3. pc[t] = FirstStop \/ pc[t] \in StopCalls \ {FirstStop}
      BY <1>11 DEF StopError
    <2>4. CASE pc[t] = FirstStop
      <3>1. host'[a].objs \in {Half, Full, {}}
        BY <1>1, <1>2, <1>6, <2>2, <2>4, AcceptedCalls
      <3>2. QED
        BY <1>6, <1>7, <2>1, <2>4, <3>1, MovesAllowed
    <2>5. CASE pc[t] \in StopCalls \ {FirstStop}
      <3>1. host'[a].objs \in {Half, {}}
        BY <1>1, <1>2, <1>6, <2>2, <2>5, AcceptedCalls
      <3>2. QED
        BY <1>6, <1>7, <2>1, <2>5, <3>1, MovesAllowed
    <2>6. QED
      BY <2>3, <2>4, <2>5
  <1>12. QED
    BY <1>8, <1>9, <1>10, <1>11

\* An agent whose process ends is gone or goes on running.
LEMMA ExitPhase ==
  ASSUME TypeOK, HalfOK, NEW a \in Agents, AgentExits(a)
  PROVE  Lifecycle!Next \/ UNCHANGED AgentPhases
  <1>1. \A b \in Agents \ {a} : host'[b] = host[b]
    BY DEF AgentExits, TypeOK
  <1>2. \A t \in Threads, b \in Agents : (Starting(t, b)' <=> Starting(t, b))
                                        /\ (Stopping(t, b)' <=> Stopping(t, b))
    <2>1. pc' = pc /\ arg' = arg
      BY DEF AgentExits
    <2>2. QED
      BY <2>1 DEF Starting, Stopping, HalfStart, HalfStop, Ag
  <1>3. \A b \in Agents \ {a} : Phase(b)' = Phase(b)
    BY <1>1, <1>2, PhaseFrame
  <1>4. host[a].objs = Full /\ host'[a].objs \in {{}, Full}
    BY DEF AgentExits, TypeOK, HostType, Gone
  <1>5. Phase(a) = "running" /\ Phase(a)' \in {"absent", "running"}
    BY <1>4, PhaseIs, PhaseIsNext
  <1>6. QED
    BY <1>3, <1>5, MovesAllowed

\* A restart strands the agents that somebody was half-way with.
LEMMA CrashPhase ==
  ASSUME TypeOK, HalfOK, Crash
  PROVE  Lifecycle!Next \/ UNCHANGED AgentPhases
  <1> DEFINE S == {a \in Agents : host[a].objs = Half}
  <1>1. \A t \in Threads : pc'[t] \notin HalfLabels
    BY HalfNames DEF Crash, Answered, OwnLabels
  <1>2. \A t \in Threads, a \in Agents : ~Starting(t, a)' /\ ~Stopping(t, a)'
    BY <1>1, CallNames DEF Starting, Stopping, HalfStart, HalfStop, HalfLabels
  <1>3. host' = host /\ \A a \in Agents : host[a].objs \in {{}, Half, Full}
    BY DEF Crash, HalfOK, Stages
  <1>4. \A a \in Agents : Phase(a)' = IF a \in S THEN "stuck" ELSE Phase(a)
    BY <1>2, <1>3, PhaseIs, PhaseIsNext
  <1>5. Lifecycle!Strand(S)
    BY <1>4 DEF Lifecycle!Strand, Crash, AgentPhases, FailsHalfway
  <1>6. S \in SUBSET Agents
    OBVIOUS
  <1>7. QED
    BY <1>5, <1>6 DEF Lifecycle!Next

\* Every step of the manager, with any number of requests, timers and agents,
\* is a step of the lifecycle of one agent, strands agents, or is none.
LEMMA StepPhase ==
  ASSUME TypeOK, RoleOK, HalfOK, [Next]_vars
  PROVE  Lifecycle!Next \/ UNCHANGED AgentPhases
  <1>1. ASSUME NEW c \in Calls, SpinUp(c) \/ SpinDown(c) \/ Connect(c)
        PROVE  UNCHANGED AgentPhases
    BY <1>1, RequestSame, SameIsStutter
  <1>2. ASSUME NEW t \in Threads, Step(t)
        PROVE  Lifecycle!Next \/ UNCHANGED AgentPhases
    BY <1>2, HostCallPhase, OtherStepSame, SameIsStutter
  <1>3. CASE (\E a \in Agents : AgentBoots(a)) \/ Tick
    BY <1>3, EnvironmentSame, SameIsStutter
  <1>4. CASE (\E a \in Agents : AgentExits(a)) \/ Crash
    BY <1>4, ExitPhase, CrashPhase
  <1>5. CASE UNCHANGED vars
    BY <1>5, HalfAgent, SameIsStutter DEF vars, HalfSame, Ag
  <1>6. QED
    BY <1>1, <1>2, <1>3, <1>4, <1>5 DEF Next

\* Callers of IAgentManager may count on its lifecycle: although nothing in
\* the agency serialises starts and stops, each agent goes through its phases
\* in order, and only failures in between strand it.
THEOREM ManagerIsLifecycle == Spec => ImplementsLifecycle
  <1>1. Init => Lifecycle!Init
    <2>1. Init => \A a \in Agents : host[a].objs = {}
      BY DEF Init, Gone
    <2>2. Init => \A a \in Agents : Phase(a) = "absent"
      BY <2>1, PhaseIs
    <2>3. QED
      BY <2>2 DEF AgentPhases, Lifecycle!Init
  <1>2. Init => TypeOK /\ RoleOK /\ HalfOK
    BY InitType, InitParts
  <1>3. TypeOK /\ RoleOK /\ HalfOK /\ [Next]_vars => TypeOK' /\ RoleOK' /\ HalfOK'
    BY NextType, RoleStep, HalfStep
  <1>4. TypeOK /\ RoleOK /\ HalfOK /\ [Next]_vars => [Lifecycle!Next]_AgentPhases
    BY StepPhase
  <1>5. QED
    BY <1>1, <1>2, <1>3, <1>4, PTL DEF Spec, ImplementsLifecycle, Lifecycle!Spec
=============================================================================
