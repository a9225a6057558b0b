CONSTANTS
  DevinfoSize = 10
  MaxLength = 12
  MaxLost = 3
  VaListPassedByReference = FALSE
SPECIFICATION Spec
INVARIANTS
  ReturnsOneDescriptor
  OpensTheFunctionsNode
PROPERTIES
  OnlyMissingNodeLeaks
