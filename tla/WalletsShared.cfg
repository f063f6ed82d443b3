SPECIFICATION Spec
CONSTANTS
  None = None
  Names = {n1}
  Keys = {k1, k2}
  Calls = {c1, c2}
  DtoTtls <- AnyTtl
  Ops = {"create", "remove", "webhook"}
  Faults = {"agent", "cache", "crash"}
  MaxWallets = 2
  ForeverKept = TRUE
  StoreTtl = 1
  DEFAULT_TTL_SECONDS = 2
SYMMETRY Symmetry
INVARIANTS TypeOK OpenedWithItsKey
PROPERTIES ImplementsWalletBook

