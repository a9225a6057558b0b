CONSTANTS
  GamepadStates <- MCStates
  FlashSize = 524288
SPECIFICATION Spec
INVARIANTS
  SticksAreDecoded
  SticksFitCalibration
PROPERTIES
  EveryPressIsSeen
