\* Two commands and two daemons at once, two first starts, one fault.
SPECIFICATION FairSpec
CONSTANTS
  Shells = {s1, s2}
  Daemons = {d1, d2}
  Nobody = Nobody
  MaxFirst = 2
  MaxFaults = 1
INVARIANTS TypeOK StoppedIsReleased
PROPERTIES IdentityKept CommandEnds StartServes
\* A config.json without its text ends every process at once.
CHECK_DEADLOCK FALSE
