\* Two receives at once, one of them watched, two files of two chunks, one fault.
SPECIFICATION ProgressSpec
CONSTANTS
  Recvs = {q1, q2}
  Root = root
  Meta = meta
  Files = {f1, f2}
  Chunks = 2
  MaxFaults = 1
  Client = q1
  NoFile = NoFile
INVARIANTS TypeOK GuardKeeps TicksAreTrue
PROPERTIES AllOrNothing ReceiveEnds
