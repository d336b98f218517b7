\* Two handlers at once on one blob, one fault.
SPECIFICATION Spec
CONSTANTS
  Reqs = {q1, q2}
  Blobs = {h1}
  Rings = {a, b}
  Open = Open
  None = None
  MaxFaults = 1
SYMMETRY Symmetry
INVARIANTS TypeOK OnlyRequested DetachFinal RemovedUnserved
PROPERTIES PolicyRefined
