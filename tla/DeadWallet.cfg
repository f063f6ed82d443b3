SPECIFICATION Spec
CONSTANTS
  None = None
  Names = {n1}
  Keys = {k1, k2}
  Calls = {c1, c2}
  DtoTtls = {None, 0}
  Ops = {"create", "remove", "webhook"}
  Faults = {}
  MaxWallets = 3
  ForeverKept = TRUE
  StoreTtl = 2
  DEFAULT_TTL_SECONDS = 2
SYMMETRY Symmetry
INVARIANTS NoDeadWallet

