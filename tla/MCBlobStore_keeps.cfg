\* Two requests at once on a file and a directory that holds it, two names, one fault.
SPECIFICATION Spec
CONSTANTS
  Slots = {q1, q2}
  Files = {f1}
  Colls = {c1}
  Members <- MCMembers
  Names = {n1, n2}
  None = None
  MaxFaults = 1
SYMMETRY Symmetry
INVARIANTS TypeOK Kept NoDangling
PROPERTIES RemoveComplete
