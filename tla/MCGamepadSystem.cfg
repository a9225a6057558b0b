CONSTANTS
  AppThreads = {t1}
  Loop = loop
  Nobody = nobody
  MaxFd = 1
  AppFds = {0, 1}
  Buttons = {released, pressed}
  Sticks = {centered}
  Released = released
  Centered = centered
  TimerMod = 1
  MsgClasses = {"silent", "usb", "answered", "rejected", "overflow"}
  StopFd = 9
  StopMax = 1
SPECIFICATION SystemFairSpec
INVARIANTS
  NoDescriptorLeaks
  DescriptorsHaveTheirMode
  DatafdIsBlockingDevice
PROPERTIES
  OnlyZeroIsStolen
  ImplementsEventLoop
  StopEndsSystemRun
  DeviceIsReopened
