SPECIFICATION Spec
CONSTANTS
  None = None
  Infinity = Infinity
  DEFAULT_TTL_SECONDS = 2
  AGENT_ADMIN_PORT = 5000
  MaxTimeout = 5
  Agents = {a1}
  Calls = {c1}
  Keys = {k1}
  DtoPorts = {None}
  DtoTtls = {1}
  Autos = {FALSE}
  Ops = {"spinUp", "spinDown"}
  MANAGER_TYPE = "K8S"
  Faults = {"startError"}
  RetryDuration = 1
  ForeverKept = TRUE
  StoreTtl = 2
  MissIsNull = FALSE
SYMMETRY Symmetry
PROPERTIES DeleteRemovesAgent
