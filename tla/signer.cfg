\* Four requests, two aliases of one key, a restart.
SPECIFICATION Spec
CONSTANTS
  r1 = r1  r2 = r2  r3 = r3  r4 = r4  hot = hot  desk = desk  vault = vault  gone = gone  A = A  B = B
  Requests = {r1, r2, r3, r4}
  Aliases = {hot, desk, vault, gone}
  Keys = {hot, desk, vault}
  AddressOf <- SharedKey
  Addresses = {A, B}
  MaxSessions = 2
SYMMETRY RequestSym
INVARIANTS
  TypeOK
  NonceUsedOnce
  GapsOnlyFromFailures
\* The requests are bounded.
CHECK_DEADLOCK FALSE
