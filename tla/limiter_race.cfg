\* One client, two handlers: stamps may reach the bucket out of order.
SPECIFICATION Spec
CONSTANTS
  a = a  b = b  h1 = h1  h2 = h2
  Clients = {a}
  Handlers = {h1, h2}
  Limit = 2
  Window = 3
  MaxTime = 7
INVARIANTS
  LimitPerWindow
\* The clock is bounded.
CHECK_DEADLOCK FALSE
