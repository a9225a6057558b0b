CONSTANTS
  Capacity = 64
  Lengths = {0, 1, 2, 5, 6, 9, 10, 11, 12, 14, 15, 16, 64}
  Addresses = {0, 1, 467, 468, 512, 513, 769, 1023}
  Sizes = {0, 1, 44, 45, 255}
  Reports <- MCReports
  FlashSize = 512
  AddressMod = 1024
  MaxSize = 255
  TimerMod = 3
SPECIFICATION Spec
INVARIANTS
  WindowInArray
  FlashReadInBounds
  AnswersAreWhole
PROPERTIES
  ImplementsAnswerContract
