\* Two connections, a channel of one event, one line or progress callback; no
\* symmetry, for the liveness. A receive that fails before its download is any
\* other operation.
SPECIFICATION Spec
CONSTANTS
  Conns = {c1, c2}
  Ops = {"receive", "shutdown"}
  Capacity = 1
  MaxLines = 1
INVARIANTS TypeOK TerminalLast CleanCloseAnswered
PROPERTIES ShutdownHeard DrainEnds ClientAnswered
CHECK_DEADLOCK FALSE
