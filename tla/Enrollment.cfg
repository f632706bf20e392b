SPECIFICATION FairSpec
CONSTANTS
  MaxFaults = 2
  MaxDeletes = 1
INVARIANTS
  TypeOK
  AnnouncedMeansEnrolled
  RowsBacked
  DuplicatesFromFaults
  Inductive
PROPERTY
  RerunsConverge
