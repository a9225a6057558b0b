CONSTANTS
  DevinfoSize = 10
  MaxLength = 12
  MaxLost = 3
  VaListPassedByReference = TRUE
SPECIFICATION Spec
INVARIANTS
  FormatsItsArguments
