\* The threadstat scraper with a row whose counters do not all parse.
CONSTANTS
  Procs <- MCProcsThreadstat
  Job <- MCJobThreadstat
  PoolCap = 1
  MaxRows = 2
SPECIFICATION Spec
INVARIANTS
  RowsWhole
