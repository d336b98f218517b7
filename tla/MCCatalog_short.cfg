\* The instance of the listing run: one failed lookup is enough.
SPECIFICATION Spec
CONSTANTS
  Blobs = {b1, b2}
  Rings = {r1}
  Open = open
  MaxFaults = 1
INVARIANTS FullList
