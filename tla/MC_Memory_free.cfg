\* Both memory scrapers over rows that wrap and round: every sample is a natural number.
CONSTANTS
  Width = 20
  Mantissa = 17
  Pages <- MCPages
SPECIFICATION Spec
INVARIANTS
  TypeOK
