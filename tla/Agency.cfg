SPECIFICATION AgencySpec
CONSTANTS
  None = None
  Infinity = Infinity
  DEFAULT_TTL_SECONDS = 2
  AGENT_ADMIN_PORT = 5000
  MaxTimeout = 5
  Agents = {a1}
  Calls = {c1}
  Keys = {k1, k2}
  DtoPorts = {None}
  DtoTtls = {0, 1}
  Autos = {FALSE}
  Ops = {"spinUp", "spinDown"}
  MANAGER_TYPE = "K8S"
  Faults = {}
  RetryDuration = 1
  ForeverKept = TRUE
  StoreTtl = 2
  MissIsNull = TRUE
  WalletNames = {a1}
  WalletKeys = {q1, q2}
  WalletCalls = {v1}
  WalletTtls = {1}
  WalletOps = {"create", "remove"}
  WalletFaults = {"agent"}
  MaxWallets = 1
  ACAPY_ADMIN_API_KEY = k1
  Guests = {g1}
  GuestOps = {"webhook", "register"}
  GuestFaults = {}
  MaxInvites = 1
SYMMETRY Symmetry
INVARIANTS WalletKeysKept
PROPERTIES WalletsKeepTheBook ServedWhileUp
