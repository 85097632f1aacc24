\* The files scraper against a non-empty information_schema.files.
CONSTANTS
  Procs <- MCProcsFiles
  Job <- MCJobFiles
  PoolCap = 1
  MaxRows = 2
SPECIFICATION Spec
INVARIANTS
  RowsDecode
