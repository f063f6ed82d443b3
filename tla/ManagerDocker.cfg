SPECIFICATION Spec
CONSTANTS
  None = None
  Infinity = Infinity
  DEFAULT_TTL_SECONDS = 2
  AGENT_ADMIN_PORT = 5000
  MaxTimeout = 5
  Agents = {a1}
  Calls = {c1, c2}
  Keys = {k1}
  DtoPorts = {None}
  DtoTtls <- AnyTtl
  Autos = {TRUE, FALSE}
  Ops = {"spinUp", "spinDown", "connect"}
  MANAGER_TYPE = "DOCKER"
  Faults = {"startError", "stopError", "cache", "exit", "crash"}
  RetryDuration = 1
  ForeverKept = FALSE
  StoreTtl = 2
  MissIsNull = FALSE
SYMMETRY Symmetry
INVARIANTS TypeOK NoHalfAgents ExpiryIsScheduled
PROPERTIES StepsRunOut OwnTimerIsPunctual ImplementsLifecycle
