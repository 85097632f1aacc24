\* Three scrapers contend for a single-connection pool.
CONSTANTS
  Procs <- MCProcsPool
  Job <- MCJobPool
  PoolCap = 1
  MaxRows = 2
SPECIFICATION Spec
INVARIANTS
  TypeOK
  CursorsReleased
PROPERTIES
  AllScrapersReturn
