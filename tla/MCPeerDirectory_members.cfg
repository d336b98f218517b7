\* Two handlers at once, no fault.
SPECIFICATION ListSpec
CONSTANTS
  Reqs = {q1, q2}
  Peers = {p1}
  Self = self
  Rings = {a, b}
  Nicks = {n1, n2}
  NoNick = NoNick
  Absent = Absent
  None = None
  MaxFaults = 0
SYMMETRY Symmetry
INVARIANTS MembersRegistered
