\* One import of a directory of one file, against the garbage collector.
SPECIFICATION Spec
CONSTANTS
  Slots = {q1}
  Files = {f1}
  Colls = {c1}
  Members <- MCMembers
  Names = {n1, n2}
  None = None
  MaxFaults = 0
SYMMETRY Symmetry
INVARIANT MembersKept
