CONSTANTS
  AppThreads = {t1, t2}
  Loop = loop
  Nobody = nobody
  MaxFd = 1
  AppFds = {}
  Buttons = {released, pressed}
  Sticks = {centered, tilted}
  Released = released
  Centered = centered
  TimerMod = 2
  MsgClasses = {"silent", "usb", "answered", "rejected", "overflow"}
SPECIFICATION Spec
INVARIANTS
  TypeOK
  MutexHeldOnlyInside
  ButtonsDelivered
  NoSilentLoss
PROPERTIES
  ReportsCarryCurrentState
  ImplementsAnswerContract
