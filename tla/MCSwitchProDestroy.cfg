CONSTANTS
  AppThreads = {t1}
  Loop = loop
  Nobody = nobody
  MaxFd = 3
  AppFds = {0, 1, 2, 3}
  Buttons = {released, pressed}
  Sticks = {centered, tilted}
  Released = released
  Centered = centered
  TimerMod = 1
  MsgClasses = {"silent", "usb", "answered"}
SPECIFICATION Spec
PROPERTIES
  AppDescriptorsSurvive
