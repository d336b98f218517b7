\* One connection is enough: its dispatch task outlives it.
SPECIFICATION Spec
CONSTANTS
  Conns = {c1}
  Ops = {"shutdown"}
  Capacity = 1
  MaxLines = 1
INVARIANTS NoPanic
CHECK_DEADLOCK FALSE
