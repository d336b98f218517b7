\* Two handlers and a listing at once, one fault.
SPECIFICATION ListSpec
CONSTANTS
  Reqs = {q1, q2}
  Peers = {p1}
  Self = self
  Rings = {a, b}
  Nicks = {n1, n2}
  NoNick = NoNick
  Absent = Absent
  None = None
  MaxFaults = 1
SYMMETRY Symmetry
INVARIANTS TypeOK RemovalComplete NicknameKept MembersInBook ListSound ListComplete
