CONSTANTS
  AppThreads = {t1}
  Loop = loop
  Nobody = nobody
  MaxFd = 1
  AppFds = {0}
  Buttons = {released, pressed}
  Sticks = {centered, tilted}
  Released = released
  Centered = centered
  TimerMod = 1
  MsgClasses = {"silent", "answered", "rejected", "overflow"}
SPECIFICATION RetryingSpec
PROPERTIES
  CallsReturn
  CallbacksReturn
  StateArrives
