---------------------------- MODULE AgentConfig ----------------------------
(***************************************************************************)
(* The conversions of src/manager/agent.config.ts and of the two helpers   *)
(* of AgentManagerService that turn a time-to-live into a cache lifetime   *)
(* and into a timer delay.  Times are whole seconds.                       *)
(*                                                                         *)
(* JavaScript's Infinity is a value outside the integers; a field missing  *)
(* from a request is None.                                                 *)
(***************************************************************************)
EXTENDS Integers

CONSTANTS
  None,                 \* a missing field, an absent cache entry
  Infinity,             \* JavaScript's Infinity
  DEFAULT_TTL_SECONDS,  \* 3600 in the code, smaller in the models
  AGENT_ADMIN_PORT,     \* the environment's admin port
  MaxTimeout,           \* longest delay of setTimeout: 2^31 - 1 milliseconds
  StoreTtl              \* what the store makes of a negative lifetime: its own
                        \* default (DEFAULT_CACHE_TTL), or Infinity

ASSUME ConfigAssumption ==
  /\ DEFAULT_TTL_SECONDS \in Nat \ {0}
  /\ MaxTimeout \in Nat
  /\ StoreTtl \in (Nat \ {0}) \cup {Infinity}
  /\ Infinity \notin Int
  /\ None \notin Int
  /\ None # Infinity
  /\ None # AGENT_ADMIN_PORT

Time == Nat \cup {Infinity}

\* The constructor's ttl: 0 is for ever, a missing one is the default, a
\* negative one is kept as it is.
Ttl(dtoTtl) ==
  IF dtoTtl = 0 THEN Infinity
  ELSE IF dtoTtl = None THEN DEFAULT_TTL_SECONDS
  ELSE dtoTtl

\* The constructor's adminPort: the request's port, or the environment's.
AdminPort(dtoPort) == IF dtoPort \in {None, 0} THEN AGENT_ADMIN_PORT ELSE dtoPort

\* Faulty variant: a timer for every finite ttl, negative ones too.
HasTimerNegative(ttl) == ttl # Infinity

\* A ttl that setSpinDownJob gives a timer: positive and not Infinity.
HasTimer(ttl) == ttl # Infinity /\ ttl > 0

\* Faulty variant: the entry lives as long as the agent, not a second longer.
CacheLifetimeExact(ttl) ==
  IF ttl = Infinity THEN Infinity ELSE IF ttl > 0 THEN ttl ELSE StoreTtl

\* How long the store keeps an entry written by setAgentCache: one second
\* more than the ttl, for ever when that is Infinity; a negative ttl is given
\* to the store as it is.
CacheLifetime(ttl) ==
  IF ttl = Infinity THEN Infinity ELSE IF ttl > 0 THEN ttl + 1 ELSE StoreTtl

\* Faulty variant: the timer fires a second early.
TimerDelayShort(ttl) == IF ttl > MaxTimeout THEN 0 ELSE ttl - 1

\* When setTimeout fires: a delay above its 32-bit range fires at once.
TimerDelay(ttl) == IF ttl > MaxTimeout THEN 0 ELSE ttl

\* One second less to go.
Elapse(left) == IF left = Infinity \/ left = 0 THEN left ELSE left - 1
=============================================================================
