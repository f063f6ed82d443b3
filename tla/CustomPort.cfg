SPECIFICATION AgencySpec
CONSTANTS
  None = None
  Infinity = Infinity
  DEFAULT_TTL_SECONDS = 2
  AGENT_ADMIN_PORT = 5000
  MaxTimeout = 5
  Agents = {a1}
  Calls = {c1}
  Keys = {k1}
  DtoPorts = {6000}
  DtoTtls = {1}
  Autos = {TRUE, FALSE}
  Ops = {"spinUp", "spinDown"}
  MANAGER_TYPE = "K8S"
  Faults = {}
  RetryDuration = 1
  ForeverKept = TRUE
  StoreTtl = 2
  MissIsNull = FALSE
  WalletNames = {a1}
  WalletKeys = {q1, q2}
  WalletCalls = {v1}
  WalletTtls = {1}
  WalletOps = {"create", "remove"}
  WalletFaults = {}
  MaxWallets = 1
  ACAPY_ADMIN_API_KEY = k1
  Guests = {g1}
  GuestOps = {"register"}
  GuestFaults = {}
  MaxInvites = 1
SYMMETRY Symmetry
PROPERTIES RegisteredWhileUp
