\* Two files, one of which may be an old one of up to two entries, and one fault.
CONSTANTS
  Files = {f1, f2}
  NoFile = NoFile
  Bodies = {b}
  MaxIds = 4
  MaxFaults = 1
  MaxLegacy = 2
SPECIFICATION Spec
INVARIANTS
  Acyclic
  Lineage
  Durable
PROPERTIES
  LinesKept
CHECK_DEADLOCK FALSE
