\* Two blobs, one named ring and the open one, one fault.
SPECIFICATION Spec
CONSTANTS
  Blobs = {b1, b2}
  Rings = {r1}
  Open = open
  MaxFaults = 1
INVARIANTS TypeOK CatalogSound CatalogComplete OwnerSeesTheSame
PROPERTIES CatalogEnds
