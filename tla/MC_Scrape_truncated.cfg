\* A stream that fails part way: does Scrape report it?
CONSTANTS
  Procs <- MCProcsTwoQueries
  Job <- MCJobTwoQueries
  PoolCap = 1
  MaxRows = 2
SPECIFICATION Spec
INVARIANTS
  OkMeansComplete
