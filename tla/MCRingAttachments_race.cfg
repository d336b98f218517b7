\* The race behind a detach: two handlers on one blob, no fault.
SPECIFICATION Spec
CONSTANTS
  Reqs = {q1, q2}
  Blobs = {h1}
  Rings = {a, b}
  Open = Open
  None = None
  MaxFaults = 0

INVARIANT FailClosed
