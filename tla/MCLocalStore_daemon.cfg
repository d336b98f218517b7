\* One peer, one nickname, no fault; the daemon, with the registry open.
SPECIFICATION Spec
CONSTANTS
  Peers = {p1}
  Nicks = {n1}
  NoNick = NoNick
  Absent = Absent
  NoFile = NoFile
  HeldChoices = {TRUE}
  MaxFaults = 0
PROPERTIES Starts
