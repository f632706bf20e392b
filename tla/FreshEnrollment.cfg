SPECIFICATION Spec
CONSTANTS
  MaxFaults = 0
  MaxDeletes = 0
INVARIANT CleanRunSucceeds
