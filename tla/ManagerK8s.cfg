SPECIFICATION FairSpec
CONSTANTS
  None = None
  Infinity = Infinity
  DEFAULT_TTL_SECONDS = 2
  AGENT_ADMIN_PORT = 5000
  MaxTimeout = 5
  Agents = {a1}
  Calls = {c1, c2}
  Keys = {k1, k2}
  DtoPorts = {None}
  DtoTtls = {1, 2}
  Autos = {TRUE}
  Ops = {"spinUp", "spinDown", "connect"}
  MANAGER_TYPE = "K8S"
  Faults = {}
  RetryDuration = 1
  ForeverKept = TRUE
  StoreTtl = 2
  MissIsNull = FALSE
INVARIANTS UpIsCached
PROPERTIES DeleteRemovesAgent EveryCallAnswers ExpiredAgentStops
