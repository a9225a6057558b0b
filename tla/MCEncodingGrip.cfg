CONSTANTS
  GamepadStates <- MCStates
  FlashSize = 524288
SPECIFICATION Spec
INVARIANTS
  ChargingGripIsSet
