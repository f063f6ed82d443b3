SPECIFICATION AgencySpec
CONSTANTS
  None = None
  Infinity = Infinity
  DEFAULT_TTL_SECONDS = 2
  AGENT_ADMIN_PORT = 5000
  MaxTimeout = 5
  Agents = {a1, a2}
  Calls = {c1}
  Keys = {k1}
  DtoPorts = {None}
  DtoTtls = {0}
  Autos = {FALSE}
  Ops = {"spinUp", "spinDown"}
  MANAGER_TYPE = "K8S"
  Faults = {}
  RetryDuration = 1
  ForeverKept = TRUE
  StoreTtl = 2
  MissIsNull = TRUE
  WalletNames = {}
  WalletKeys = {}
  WalletCalls = {}
  WalletTtls = {1}
  WalletOps = {}
  WalletFaults = {}
  MaxWallets = 1
  ACAPY_ADMIN_API_KEY = k1
  Guests = {g1, g2}
  GuestOps = {"register", "oneTimeKey"}
  GuestFaults = {"agent", "tdc", "crash"}
  MaxInvites = 3
SYMMETRY RegistrationSymmetry
INVARIANTS OwnInvitations
