\* Two handlers: stamps may reach a bucket out of order.
SPECIFICATION Spec
CONSTANTS
  a = a  b = b  h1 = h1  h2 = h2
  Clients = {a, b}
  Handlers = {h1, h2}
  Limit = 2
  Window = 2
  MaxTime = 4
SYMMETRY Sym
INVARIANTS
  TypeOK
  LimitPerCaller
\* The clock is bounded.
CHECK_DEADLOCK FALSE
