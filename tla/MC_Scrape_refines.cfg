\* Three scrapers, a pool of two connections: the ConnPool discipline as a property.
CONSTANTS
  Procs <- MCProcsPool
  Job <- MCJobPool
  PoolCap = 2
  MaxRows = 2
SPECIFICATION Spec
PROPERTIES
  PoolSafe
