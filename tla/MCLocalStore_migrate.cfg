\* Two peers, one nickname, two faults; processes that hold the registry and others.
SPECIFICATION Spec
CONSTANTS
  Peers = {p1, p2}
  Nicks = {n1}
  NoNick = NoNick
  Absent = Absent
  NoFile = NoFile
  HeldChoices = {TRUE, FALSE}
  MaxFaults = 2
INVARIANTS TypeOK Copied
PROPERTIES StoreSpec Starts
