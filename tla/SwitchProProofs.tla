-------------------------- MODULE SwitchProProofs --------------------------
(***************************************************************************)
(* Proofs about module SwitchPro, for any number of threads, any sets of     *)
(* states and descriptors and any width of the report timer: the mutex is    *)
(* locked exactly inside the critical sections, no descriptor leaks, no      *)
(* report with an older state follows a newer one, and no changed button is  *)
(* lost to a full endpoint.                                                  *)
(*                                                                         *)
(* None of the properties is inductive alone: that a changed button reaches  *)
(* the device rests on the blocking mode of the descriptor that set_state    *)
(* writes to, that mode on where open_hidg is while it holds the mutex, and  *)
(* all of them on the mutex.  SwitchProInv is their conjunction, with the    *)
(* facts about every point of the code that they need.                       *)
(***************************************************************************)
EXTENDS SwitchProProps, TLAPS

\* A gamepad that does not exist is used by nobody.
UsedWhileAlive == ~alive => Quiescent

\* What the local descriptors of the callbacks are, at every point.
CallbackFds ==
  /\ lpc = "open_second" => fd < 0 /\ lfd \in Fds /\ files[lfd] = "blocking"
  /\ lpc = "set_nonblocking" =>
       /\ fd < 0
       /\ lfd \in Fds /\ files[lfd] = "blocking"
       /\ lfd2 \in Fds /\ files[lfd2] = "blocking"
       /\ lfd # lfd2
  /\ lpc = "close" => fd >= 0
  /\ lpc \in {"answered", "rejected", "overflow", "write_usb", "write_subcmd",
              "on_data_returns"} => fd >= 0 /\ lfd = fd

\* The device is open while a thread writes to it.
WritersHaveFd ==
  \A t \in AppThreads : tpc[t] \in {"write", "write_nonblock"} => fd >= 0

\* A response that is being written carries the current input state: the loop
\* thread holds the mutex since it copied it.
ResponseIsCurrent ==
  /\ lpc = "write_usb" => lmsg = UsbResponse
  /\ lpc = "write_subcmd" =>
       lmsg \in [kind : {"subcmd"}, timer : 0..(TimerMod - 1), input : {input}]

\* Unless a thread is in the blocking write, the device has the buttons.
ButtonsOnTheirWay ==
  synced /\ (\A t \in AppThreads : tpc[t] # "write") =>
    accepted.buttons = input.buttons

\* What is left of the descriptors of a device that is not open.
ClosedFds == alive /\ fd < 0 => fdNonblock \in {0, NoFd}

LockInv == MutexHeldOnlyInside /\ UsedWhileAlive
FdInv ==
  /\ CallbackFds
  /\ WritersHaveFd
  /\ ClosedFds
  /\ DescriptorsHaveTheirMode
  /\ NoDescriptorLeaks
ReportInv == ResponseIsCurrent /\ ButtonsOnTheirWay
SwitchProInv == TypeOK /\ LockInv /\ FdInv /\ ReportInv

USE SwitchProAssumption
  DEF AllMsgClasses, Fds, NoFd, States, Neutral, ThreadPoints, CallbackPoints,
      Messages, NoMsg, UsbResponse, Report, SubcmdResponse, fdVars, reportVars,
      appVars, cbLocals, cbVars, deviceVars, vars

-----------------------------------------------------------------------------
\* The initial state satisfies the inductive invariant.
LEMMA InitSwitchProInv == Init => SwitchProInv
<1>. SUFFICES ASSUME Init PROVE SwitchProInv
  OBVIOUS
<1>. USE DEF Init
<1>1. TypeOK
  <2>1. alive \in BOOLEAN /\ synced \in BOOLEAN
    OBVIOUS
  <2>. QED
    BY <2>1 DEF TypeOK
<1>2. LockInv
  BY DEF LockInv, MutexHeldOnlyInside, Inside, UsedWhileAlive, Quiescent
<1>3. FdInv
  BY DEF FdInv, CallbackFds, WritersHaveFd, ClosedFds,
         DescriptorsHaveTheirMode, NoDescriptorLeaks, HidgOpen, Known
<1>4. ReportInv
  BY DEF ReportInv, ResponseIsCurrent, ButtonsOnTheirWay
<1>. QED
  BY <1>1, <1>2, <1>3, <1>4 DEF SwitchProInv

\* The steps of set_state preserve it, whatever thread takes them.
LEMMA SetStateKeepsInv ==
  ASSUME SwitchProInv, NEW t \in AppThreads, SetStateStep(t)
  PROVE  SwitchProInv'
<1>. USE DEF SwitchProInv, TypeOK, LockInv, FdInv, ReportInv,
             MutexHeldOnlyInside, UsedWhileAlive, CallbackFds, WritersHaveFd,
             ClosedFds, DescriptorsHaveTheirMode, NoDescriptorLeaks,
             ResponseIsCurrent, ButtonsOnTheirWay, Inside, Known, HidgOpen,
             Quiescent
<1>1. CASE SetStateWithoutDevice(t)
  BY <1>1 DEF SetStateWithoutDevice
<1>2. CASE SetStateLocks(t)
  BY <1>2 DEF SetStateLocks
<1>3. CASE SetStateWrites(t)
  BY <1>3 DEF SetStateWrites, SetStateReturns
<1>4. CASE SetStateWouldBlock(t)
  BY <1>4 DEF SetStateWouldBlock, SetStateReturns, WriteFd
<1>5. CASE SetStateWriteFails(t)
  <2>1. synced' \in BOOLEAN /\ alive' \in BOOLEAN
    BY <1>5 DEF SetStateWriteFails, SetStateReturns
  <2>2. TypeOK'
    BY <1>5, <2>1 DEF SetStateWriteFails, SetStateReturns
  <2>3. LockInv'
    BY <1>5 DEF SetStateWriteFails, SetStateReturns
  <2>4. FdInv'
    BY <1>5 DEF SetStateWriteFails, SetStateReturns
  <2>5. ReportInv'
    BY <1>5 DEF SetStateWriteFails, SetStateReturns
  <2>. QED
    BY <2>2, <2>3, <2>4, <2>5
<1>. QED
  BY <1>1, <1>2, <1>3, <1>4, <1>5 DEF SetStateStep

\* The steps of the callbacks preserve it.
LEMMA CallbackStepsKeepInv ==
  ASSUME SwitchProInv, CallbackStep
  PROVE  SwitchProInv'
<1>. USE DEF SwitchProInv, TypeOK, LockInv, FdInv, ReportInv,
             MutexHeldOnlyInside, UsedWhileAlive, CallbackFds, WritersHaveFd,
             ClosedFds, DescriptorsHaveTheirMode, NoDescriptorLeaks,
             ResponseIsCurrent, ButtonsOnTheirWay, Inside, Known, HidgOpen,
             Quiescent
<1>1. CASE OpenFindsOpen
  BY <1>1 DEF OpenFindsOpen
<1>2. ASSUME NEW f \in Fds, OpenFirst(f) PROVE SwitchProInv'
  BY <1>2 DEF OpenFirst, IsLowestFree
<1>3. ASSUME NEW f \in Fds, OpenSecond(f) PROVE SwitchProInv'
  BY <1>3 DEF OpenSecond, IsLowestFree
<1>4. CASE OpenFirstFails
  BY <1>4 DEF OpenFirstFails
<1>5. CASE OpenSecondFails
  BY <1>5 DEF OpenSecondFails, Closed
<1>6. CASE SetNonblocking
  BY <1>6 DEF SetNonblocking
<1>7. CASE SetNonblockingFails
  <2>1. TypeOK'
    BY <1>7 DEF SetNonblockingFails, Closed
  <2>2. LockInv'
    BY <1>7 DEF SetNonblockingFails, Closed
  <2>3. FdInv'
    BY <1>7 DEF SetNonblockingFails, Closed
  <2>4. ReportInv'
    BY <1>7 DEF SetNonblockingFails, Closed
  <2>. QED
    BY <2>1, <2>2, <2>3, <2>4
<1>8. CASE CloseBoth
  <2>1. synced' \in BOOLEAN /\ alive' \in BOOLEAN
    BY <1>8 DEF CloseBoth
  <2>2. TypeOK'
    BY <1>8, <2>1 DEF CloseBoth
  <2>3. LockInv'
    BY <1>8 DEF CloseBoth
  <2>4. FdInv'
    <3>1. NoDescriptorLeaks'
      BY <1>8 DEF CloseBoth
    <3>2. (CallbackFds /\ WritersHaveFd)'
      <4>1. CallbackFds'
        BY <1>8 DEF CloseBoth
      <4>2. \A t \in AppThreads : tpc[t] \notin {"write", "write_nonblock"}
        BY <1>8 DEF CloseBoth
      <4>3. WritersHaveFd'
        BY <1>8, <4>2 DEF CloseBoth
      <4>. QED
        BY <4>1, <4>3
    <3>3. (ClosedFds /\ DescriptorsHaveTheirMode)'
      BY <1>8 DEF CloseBoth
    <3>. QED
      BY <3>1, <3>2, <3>3
  <2>5. ReportInv'
    BY <1>8 DEF CloseBoth
  <2>. QED
    BY <2>2, <2>3, <2>4, <2>5
<1>9. CASE SubcmdLocks
  BY <1>9 DEF SubcmdLocks
<1>10. CASE SubcmdRejected
  BY <1>10 DEF SubcmdRejected
<1>11. CASE SubcmdOverflows
  BY <1>11 DEF SubcmdOverflows
<1>12. CASE ResponseWrites
  <2>1. TypeOK'
    <3>1. lmsg \in Messages /\ (lpc = "write_subcmd" => lmsg.input \in States)
      OBVIOUS
    <3>2. accepted' \in States /\ endpoint' \in Messages /\ synced' \in BOOLEAN
      BY <1>12, <3>1 DEF ResponseWrites
    <3>3. mutex' \in AppThreads \cup {Loop, Nobody} /\ lpc' \in CallbackPoints
      BY <1>12 DEF ResponseWrites, ResponseDone
    <3>. QED
      BY <1>12, <3>2, <3>3 DEF ResponseWrites, ResponseDone
  <2>2. LockInv'
    BY <1>12 DEF ResponseWrites, ResponseDone
  <2>3. FdInv'
    BY <1>12 DEF ResponseWrites, ResponseDone
  <2>4. ReportInv'
    BY <1>12 DEF ResponseWrites, ResponseDone
  <2>. QED
    BY <2>1, <2>2, <2>3, <2>4
<1>13. CASE ResponseFails
  BY <1>13 DEF ResponseFails, ResponseDone
<1>. QED
  BY <1>1, <1>2, <1>3, <1>4, <1>5, <1>6, <1>7, <1>8, <1>9, <1>10, <1>11,
     <1>12, <1>13 DEF CallbackStep

\* And so do their calls and returns.
LEMMA CallsKeepInv ==
  ASSUME SwitchProInv, LoopCalls \/ CallbackReturns
  PROVE  SwitchProInv'
<1>. USE DEF SwitchProInv, TypeOK, LockInv, FdInv, ReportInv,
             MutexHeldOnlyInside, UsedWhileAlive, CallbackFds, WritersHaveFd,
             ClosedFds, DescriptorsHaveTheirMode, NoDescriptorLeaks,
             ResponseIsCurrent, ButtonsOnTheirWay, Inside, Known, HidgOpen,
             Quiescent
<1>1. CASE CallOpen
  BY <1>1 DEF CallOpen
<1>2. CASE fd >= 0 /\ CallClose
  BY <1>2 DEF CallClose
<1>3. ASSUME NEW class \in MsgClasses, fd >= 0, CallOnData(fd, class)
      PROVE  SwitchProInv'
  BY <1>3 DEF CallOnData
<1>4. CASE OpenReturns
  BY <1>4 DEF OpenReturns
<1>5. CASE CloseReturns
  BY <1>5 DEF CloseReturns
<1>6. CASE OnDataReturns
  BY <1>6 DEF OnDataReturns
<1>. QED
  BY <1>1, <1>2, <1>3, <1>4, <1>5, <1>6 DEF LoopCalls, CallbackReturns

\* The rest of the program creates and destroys the gamepad, calls set_state,
\* and opens and closes files of its own.
LEMMA AppKeepsInv ==
  ASSUME SwitchProInv,
         \/ Create
         \/ Destroy
         \/ \E t \in AppThreads, state \in States : SetState(t, state)
         \/ \E f \in Fds : AppOpens(f) \/ AppCloses(f)
  PROVE  SwitchProInv'
<1>. USE DEF SwitchProInv, TypeOK, LockInv, FdInv, ReportInv,
             MutexHeldOnlyInside, UsedWhileAlive, CallbackFds, WritersHaveFd,
             ClosedFds, DescriptorsHaveTheirMode, NoDescriptorLeaks,
             ResponseIsCurrent, ButtonsOnTheirWay, Inside, Known, HidgOpen,
             Quiescent
<1>1. CASE Create
  <2>1. synced' \in BOOLEAN /\ alive' \in BOOLEAN
    BY <1>1 DEF Create
  <2>2. TypeOK'
    BY <1>1, <2>1 DEF Create
  <2>3. LockInv'
    BY <1>1 DEF Create
  <2>4. FdInv'
    BY <1>1 DEF Create
  <2>5. ReportInv'
    BY <1>1 DEF Create
  <2>. QED
    BY <2>2, <2>3, <2>4, <2>5
<1>2. CASE Destroy
  <2>1. synced' \in BOOLEAN /\ alive' \in BOOLEAN
    BY <1>2 DEF Destroy, ClosedByDestroy
  <2>2. TypeOK'
    BY <1>2, <2>1 DEF Destroy, ClosedByDestroy
  <2>3. LockInv'
    BY <1>2 DEF Destroy, ClosedByDestroy
  <2>4. FdInv'
    BY <1>2 DEF Destroy, ClosedByDestroy
  <2>5. ReportInv'
    BY <1>2 DEF Destroy, ClosedByDestroy
  <2>. QED
    BY <2>2, <2>3, <2>4, <2>5
<1>3. ASSUME NEW t \in AppThreads, NEW state \in States, SetState(t, state)
      PROVE  SwitchProInv'
  BY <1>3 DEF SetState
<1>4. ASSUME NEW f \in Fds, AppOpens(f) PROVE SwitchProInv'
  BY <1>4 DEF AppOpens, IsLowestFree
<1>5. ASSUME NEW f \in Fds, AppCloses(f) PROVE SwitchProInv'
  BY <1>5 DEF AppCloses, Closed
<1>. QED
  BY <1>1, <1>2, <1>3, <1>4, <1>5

\* The USB host polls, or goes away.
LEMMA HostKeepsInv ==
  ASSUME SwitchProInv, HostPolls \/ HostDisconnects
  PROVE  SwitchProInv'
<1>. USE DEF SwitchProInv, TypeOK, LockInv, FdInv, ReportInv,
             MutexHeldOnlyInside, UsedWhileAlive, CallbackFds, WritersHaveFd,
             ClosedFds, DescriptorsHaveTheirMode, NoDescriptorLeaks,
             ResponseIsCurrent, ButtonsOnTheirWay, Inside, Known, HidgOpen,
             Quiescent
<1>1. CASE HostPolls
  BY <1>1 DEF HostPolls
<1>2. CASE HostDisconnects
  <2>1. synced' \in BOOLEAN /\ alive' \in BOOLEAN
    BY <1>2 DEF HostDisconnects
  <2>2. TypeOK'
    BY <1>2, <2>1 DEF HostDisconnects
  <2>3. LockInv'
    BY <1>2 DEF HostDisconnects
  <2>4. FdInv'
    BY <1>2 DEF HostDisconnects
  <2>5. ReportInv'
    BY <1>2 DEF HostDisconnects
  <2>. QED
    BY <2>2, <2>3, <2>4, <2>5
<1>. QED
  BY <1>1, <1>2

\* Every step preserves it.
LEMMA NextSwitchProInv == SwitchProInv /\ [Next]_vars => SwitchProInv'
<1>. SUFFICES ASSUME SwitchProInv, [Next]_vars PROVE SwitchProInv'
  OBVIOUS
<1>1. CASE UNCHANGED vars
  BY <1>1
  DEF SwitchProInv, TypeOK, LockInv, FdInv, ReportInv, MutexHeldOnlyInside,
      UsedWhileAlive, CallbackFds, WritersHaveFd, ClosedFds,
      DescriptorsHaveTheirMode, NoDescriptorLeaks, ResponseIsCurrent,
      ButtonsOnTheirWay, Inside, Known, HidgOpen, Quiescent
<1>2. CASE Next
  BY <1>2, SetStateKeepsInv, CallbackStepsKeepInv, CallsKeepInv, AppKeepsInv,
     HostKeepsInv DEF Next, OwnStep
<1>. QED
  BY <1>1, <1>2

\* The inductive invariant holds in every reachable state.
THEOREM SwitchProInvariant == Spec => []SwitchProInv
  BY InitSwitchProInv, NextSwitchProInv, PTL DEF Spec

-----------------------------------------------------------------------------
\* Every variable of the gamepad keeps its type; the report timer stays within
\* its byte.
THEOREM SwitchProTypeCorrect == Spec => []TypeOK
<1>1. SwitchProInv => TypeOK
  BY DEF SwitchProInv
<1>. QED
  BY SwitchProInvariant, <1>1, PTL

\* Mutual exclusion, and no path of the code that leaves the mutex locked.
THEOREM MutualExclusion == Spec => []MutexHeldOnlyInside
<1>1. SwitchProInv => MutexHeldOnlyInside
  BY DEF SwitchProInv, LockInv
<1>. QED
  BY SwitchProInvariant, <1>1, PTL

\* No descriptor of the HID device is leaked or used after its close.
THEOREM DescriptorsAreKnown == Spec => []NoDescriptorLeaks
<1>1. SwitchProInv => NoDescriptorLeaks
  BY DEF SwitchProInv, FdInv
<1>. QED
  BY SwitchProInvariant, <1>1, PTL

\* The blocking write of set_state can never answer EAGAIN.
THEOREM ModesAreKept == Spec => []DescriptorsHaveTheirMode
<1>1. SwitchProInv => DescriptorsHaveTheirMode
  BY DEF SwitchProInv, FdInv
<1>. QED
  BY SwitchProInvariant, <1>1, PTL

\* on_output_report never writes to a descriptor that is closed or not its own.
THEOREM ResponsesAreWritable == Spec => []ResponsesHaveDescriptor
<1>1. SwitchProInv => ResponsesHaveDescriptor
  BY DEF SwitchProInv, LockInv, FdInv, CallbackFds, DescriptorsHaveTheirMode,
         UsedWhileAlive, Quiescent, ResponsesHaveDescriptor
<1>. QED
  BY SwitchProInvariant, <1>1, PTL

\* A changed button reaches the device, or a write fails or the host goes away.
THEOREM ChangedButtonsArrive == Spec => []ButtonsDelivered
<1>1. SwitchProInv => ButtonsDelivered
  BY DEF SwitchProInv, LockInv, MutexHeldOnlyInside, Inside, ReportInv,
         ButtonsOnTheirWay, ButtonsDelivered
<1>. QED
  BY SwitchProInvariant, <1>1, PTL

-----------------------------------------------------------------------------
\* No report with an older input state follows one with a newer state, whatever
\* descriptor and thread it takes.
THEOREM ReportsAreCurrent == Spec => ReportsCarryCurrentState
<1>. DEFINE Current ==
       endpoint' # NoMsg /\ endpoint' # endpoint /\ endpoint'.kind # "usb" =>
         endpoint'.input = input
<1>1. SwitchProInv /\ [Next]_vars => [Current]_vars
  <2>. SUFFICES ASSUME SwitchProInv, Next PROVE Current
    OBVIOUS
  <2>1. ASSUME NEW t \in AppThreads, SetStateWrites(t) PROVE Current
    BY <2>1 DEF SetStateWrites
  <2>2. CASE ResponseWrites
    <3>1. lpc \in {"write_usb", "write_subcmd"} /\ endpoint' = lmsg
      BY <2>2 DEF ResponseWrites
    <3>2. ResponseIsCurrent
      BY DEF SwitchProInv, ReportInv
    <3>3. CASE lpc = "write_usb"
      BY <3>1, <3>2, <3>3 DEF ResponseIsCurrent
    <3>4. CASE lpc = "write_subcmd"
      <4>1. lmsg \in [kind : {"subcmd"}, timer : 0..(TimerMod - 1),
                      input : {input}]
        BY <3>2, <3>4 DEF ResponseIsCurrent
      <4>2. lmsg.input = input
        BY ONLY <4>1
      <4>. QED
        BY <3>1, <4>2
    <3>. QED
      BY <3>1, <3>3, <3>4
  <2>3. CASE /\ ~ResponseWrites
             /\ \A t \in AppThreads : ~SetStateWrites(t)
    <3>1. endpoint' = endpoint \/ endpoint' = NoMsg
      BY <2>3
      DEF Next, OwnStep, SetStateStep, CallbackStep, LoopCalls, CallbackReturns,
          Create, Destroy, SetState, SetStateWithoutDevice, SetStateLocks,
          SetStateWouldBlock, SetStateWriteFails, AppOpens, AppCloses,
          OpenFindsOpen, OpenFirst, OpenSecond, OpenFirstFails, OpenSecondFails,
          SetNonblocking, SetNonblockingFails, CloseBoth, SubcmdLocks,
          SubcmdRejected, SubcmdOverflows, ResponseFails, HostPolls,
          HostDisconnects, CallOpen, CallClose, CallOnData, OpenReturns,
          CloseReturns, OnDataReturns
    <3>. QED
      BY <3>1
  <2>. QED
    BY <2>1, <2>2, <2>3
<1>. QED
  BY SwitchProInvariant, <1>1, PTL DEF Spec, ReportsCarryCurrentState

\* The gamepad closes no descriptor of the rest of the program, except that
\* destroying a gamepad that never was open closes descriptor 0.
THEOREM NothingButZeroIsStolen == Spec => OnlyZeroIsStolen
<1>. DEFINE Spared ==
       \A f \in Fds : files[f] = "app" /\ files'[f] # "app" =>
         \/ AppCloses(f)
         \/ f = 0 /\ alive /\ fd < 0 /\ ~alive'
<1>1. SwitchProInv /\ [Next]_vars => [Spared]_vars
  <2>. SUFFICES ASSUME SwitchProInv, Next, NEW f \in Fds,
                       files[f] = "app", files'[f] # "app"
                PROVE  \/ AppCloses(f)
                       \/ f = 0 /\ alive /\ fd < 0 /\ ~alive'
    OBVIOUS
  <2>. USE DEF SwitchProInv, TypeOK, FdInv
  <2>1. CASE Destroy
    BY <2>1 DEF Destroy, ClosedByDestroy, DescriptorsHaveTheirMode, ClosedFds
  <2>2. CASE CloseBoth
    <3>1. alive /\ fd >= 0
      BY <2>2 DEF CloseBoth, CallbackFds, LockInv, UsedWhileAlive, Quiescent
    <3>. QED
      BY <2>2, <3>1 DEF CloseBoth, DescriptorsHaveTheirMode
  <2>3. ASSUME NEW g \in Fds, AppOpens(g) \/ OpenFirst(g) \/ OpenSecond(g)
        PROVE  FALSE
    BY <2>3 DEF AppOpens, OpenFirst, OpenSecond, IsLowestFree
  <2>4. CASE OpenSecondFails \/ SetNonblocking \/ SetNonblockingFails
    BY <2>4
    DEF OpenSecondFails, SetNonblocking, SetNonblockingFails, Closed,
        CallbackFds
  <2>5. CASE /\ ~Destroy /\ ~CloseBoth
             /\ \A g \in Fds : /\ ~AppOpens(g) /\ ~AppCloses(g)
                               /\ ~OpenFirst(g) /\ ~OpenSecond(g)
             /\ ~OpenSecondFails /\ ~SetNonblocking /\ ~SetNonblockingFails
    <3>1. files' = files
      BY <2>5
      DEF Next, OwnStep, SetStateStep, CallbackStep, LoopCalls, CallbackReturns,
          Create, SetState, SetStateWithoutDevice, SetStateLocks,
          SetStateWrites, SetStateReturns, SetStateWouldBlock,
          SetStateWriteFails, OpenFindsOpen, OpenFirstFails, SubcmdLocks,
          SubcmdRejected, SubcmdOverflows, ResponseWrites, ResponseFails,
          ResponseDone, HostPolls, HostDisconnects, CallOpen, CallClose,
          CallOnData, OpenReturns, CloseReturns, OnDataReturns
    <3>. QED
      BY <3>1
  <2>6. CASE \E g \in Fds : AppCloses(g)
    <3>1. PICK g \in Fds : AppCloses(g)
      BY <2>6
    <3>2. g = f
      BY <3>1 DEF AppCloses, Closed
    <3>. QED
      BY <3>1, <3>2 DEF AppCloses, Closed
  <2>. QED
    BY <2>1, <2>2, <2>3, <2>4, <2>5, <2>6
<1>. QED
  BY SwitchProInvariant, <1>1, PTL DEF Spec, OnlyZeroIsStolen

-----------------------------------------------------------------------------
(* No state is lost without an error.  Whether the mutex is locked does not   *)
(* matter to the argument: a state that the device lacks is that of a call    *)
(* under way, or of one that returned true.                                   *)

Owed == \E t \in AppThreads : tpc[t] # "idle" \/ tret[t] = "retry"

LossInv ==
  /\ synced => alive /\ fd >= 0
  /\ synced /\ accepted # input => Owed

LEMMA NextLossInv == SwitchProInv /\ LossInv /\ [Next]_vars => LossInv'
<1>. SUFFICES ASSUME SwitchProInv, LossInv, [Next]_vars PROVE LossInv'
  OBVIOUS
<1>. USE DEF SwitchProInv, TypeOK, LossInv
<1>1. ASSUME NEW t \in AppThreads, NEW state \in States, SetState(t, state)
      PROVE  LossInv'
  BY <1>1 DEF SetState, Owed
<1>2. ASSUME NEW t \in AppThreads, SetStateStep(t) PROVE LossInv'
  <2>1. CASE SetStateWithoutDevice(t)
    BY <2>1 DEF SetStateWithoutDevice
  <2>2. CASE SetStateLocks(t)
    <3>1. Owed'
      BY <2>2 DEF SetStateLocks, Owed
    <3>. QED
      BY <2>2, <3>1 DEF SetStateLocks
  <2>3. CASE SetStateWrites(t)
    <3>1. tpc[t] \in {"write", "write_nonblock"}
      BY <2>3 DEF SetStateWrites
    <3>2. fd >= 0 /\ alive
      BY <3>1 DEF FdInv, WritersHaveFd, LockInv, UsedWhileAlive, Quiescent
    <3>. QED
      BY <2>3, <3>2 DEF SetStateWrites, SetStateReturns
  <2>4. CASE SetStateWouldBlock(t)
    <3>1. tpc[t] \in {"write", "write_nonblock"}
      BY <2>4 DEF SetStateWouldBlock
    <3>2. fd >= 0 /\ alive
      BY <3>1 DEF FdInv, WritersHaveFd, LockInv, UsedWhileAlive, Quiescent
    <3>3. tpc[t] # "write"
      BY <2>4, <3>2 DEF SetStateWouldBlock, WriteFd, FdInv, DescriptorsHaveTheirMode
    <3>4. tret'[t] = "retry"
      BY <2>4, <3>3 DEF SetStateWouldBlock, SetStateReturns
    <3>5. Owed'
      BY <3>4 DEF Owed
    <3>. QED
      BY <2>4, <3>2, <3>5 DEF SetStateWouldBlock, SetStateReturns
  <2>5. CASE SetStateWriteFails(t)
    BY <2>5 DEF SetStateWriteFails
  <2>. QED
    BY <1>2, <2>1, <2>2, <2>3, <2>4, <2>5 DEF SetStateStep
<1>3. CASE CloseBoth \/ Create \/ Destroy
  BY <1>3 DEF CloseBoth, Create, Destroy
<1>4. CASE ResponseWrites
  <2>1. lpc \in {"write_usb", "write_subcmd"} /\ alive /\ fd >= 0
    BY <1>4 DEF ResponseWrites, FdInv, CallbackFds, LockInv, UsedWhileAlive, Quiescent
  <2>2. lpc = "write_subcmd" => lmsg.input = input
    BY DEF ReportInv, ResponseIsCurrent
  <2>3. Owed' = Owed
    BY <1>4 DEF ResponseWrites, ResponseDone, Owed
  <2>. QED
    BY <1>4, <2>1, <2>2, <2>3 DEF ResponseWrites, ResponseDone
<1>5. CASE HostDisconnects
  BY <1>5 DEF HostDisconnects
<1>6. CASE OpenFirstFails \/ OpenSecondFails \/ SetNonblocking \/ SetNonblockingFails
           \/ OpenFindsOpen \/ SubcmdLocks \/ SubcmdRejected \/ SubcmdOverflows
           \/ ResponseFails \/ HostPolls \/ LoopCalls \/ CallbackReturns
  <2>1. /\ alive' = alive /\ accepted' = accepted /\ synced' = synced
        /\ input' = input /\ tpc' = tpc /\ tret' = tret
    BY <1>6
    DEF OpenFirstFails, OpenSecondFails, SetNonblocking, SetNonblockingFails,
        OpenFindsOpen, SubcmdLocks, SubcmdRejected, SubcmdOverflows,
        ResponseFails, ResponseDone, HostPolls, LoopCalls, CallOpen, CallClose,
        CallOnData, CallbackReturns, OpenReturns, CloseReturns, OnDataReturns
  <2>2. CASE SetNonblocking
    BY <2>1, <2>2 DEF SetNonblocking, FdInv, CallbackFds, Owed
  <2>3. CASE ~SetNonblocking
    <3>1. fd' = fd
      BY <1>6, <2>3
      DEF OpenFirstFails, OpenSecondFails, SetNonblockingFails, OpenFindsOpen,
          SubcmdLocks, SubcmdRejected, SubcmdOverflows, ResponseFails,
          ResponseDone, HostPolls, LoopCalls, CallOpen, CallClose, CallOnData,
          CallbackReturns, OpenReturns, CloseReturns, OnDataReturns
    <3>. QED
      BY <2>1, <3>1 DEF Owed
  <2>. QED
    BY <2>2, <2>3
<1>7. ASSUME NEW f \in Fds,
             AppOpens(f) \/ AppCloses(f) \/ OpenFirst(f) \/ OpenSecond(f)
      PROVE  LossInv'
  BY <1>7 DEF AppOpens, AppCloses, OpenFirst, OpenSecond, Owed
<1>8. CASE UNCHANGED vars
  BY <1>8 DEF Owed
<1>. QED
  BY <1>1, <1>2, <1>3, <1>4, <1>5, <1>6, <1>7, <1>8
  DEF Next, OwnStep, CallbackStep

\* A state the device did not take, for no error, has made the last set_state
\* to return ask for a retry, or a call is under way.
THEOREM NothingIsLostSilently == Spec => []NoSilentLoss
<1>1. Init => LossInv
  BY DEF Init, LossInv
<1>2. LossInv => NoSilentLoss
  BY DEF LossInv, NoSilentLoss, Owed
<1>. QED
  BY <1>1, <1>2, SwitchProInvariant, NextLossInv, PTL DEF Spec

-----------------------------------------------------------------------------
(* The contract of the answers.                                             *)

\* There is no response before the timer was counted for it.
NoAnswerYet == lpc \in {"answered", "rejected", "overflow"} => lmsg = NoMsg

LEMMA NextNoAnswerYet == NoAnswerYet /\ [Next]_vars => NoAnswerYet'
<1>. SUFFICES ASSUME NoAnswerYet, [Next]_vars,
                     lpc' \in {"answered", "rejected", "overflow"}
              PROVE  lmsg' = NoMsg
  BY DEF NoAnswerYet
<1>1. CASE LoopCalls
  BY <1>1 DEF LoopCalls, CallOpen, CallClose, CallOnData
<1>2. CASE CallbackStep \/ CallbackReturns
  BY <1>2
  DEF CallbackStep, OpenFindsOpen, OpenFirst, OpenSecond, OpenFirstFails,
      OpenSecondFails, SetNonblocking, SetNonblockingFails, CloseBoth,
      SubcmdLocks, SubcmdRejected, SubcmdOverflows, ResponseWrites,
      ResponseFails, ResponseDone, CallbackReturns, OpenReturns, CloseReturns,
      OnDataReturns
<1>3. CASE \E t \in AppThreads : SetStateStep(t)
  BY <1>3
  DEF SetStateStep, SetStateWithoutDevice, SetStateLocks, SetStateWrites,
      SetStateWouldBlock, SetStateWriteFails, SetStateReturns, NoAnswerYet
<1>4. CASE \/ Create \/ Destroy \/ HostPolls \/ HostDisconnects
           \/ UNCHANGED vars
           \/ \E f \in Fds : AppOpens(f) \/ AppCloses(f)
           \/ \E t \in AppThreads, state \in States : SetState(t, state)
  BY <1>4
  DEF Create, Destroy, HostPolls, HostDisconnects, AppOpens, AppCloses,
      SetState, NoAnswerYet
<1>. QED
  BY <1>1, <1>2, <1>3, <1>4 DEF Next, OwnStep

LEMMA AnswersInit == Init => Answers!Init
  BY DEF Init, Answers!Init, AnswerStage, AnswerWritten

\* Every step of the threads is a step of the contract or changes nothing of it.
LEMMA AnswersNext ==
  SwitchProInv /\ NoAnswerYet /\ [Next]_vars => [Answers!Next]_(Answers!vars)
<1>. SUFFICES ASSUME SwitchProInv, NoAnswerYet, [Next]_vars
              PROVE  [Answers!Next]_(Answers!vars)
  OBVIOUS
<1>. USE DEF AnswerStage, AnswerWritten, Answers!vars, Answers!Counts,
             Answers!Finishes
<1>1. CASE Create
  BY <1>1 DEF Create, Quiescent, Answers!Next, Answers!Restart
<1>2. ASSUME NEW t \in AppThreads, SetStateLocks(t)
      PROVE  [Answers!Next]_(Answers!vars)
  <2>1. lpc # "write_subcmd"
    BY <1>2 DEF SetStateLocks, SwitchProInv, LockInv, MutexHeldOnlyInside, Inside
  <2>2. AnswerStage # "counted"
    BY <2>1
  <2>3. /\ AnswerStage' = AnswerStage /\ AnswerWritten' = AnswerWritten
        /\ timer' = (timer + 1) % TimerMod
    BY <1>2 DEF SetStateLocks
  <2>. QED
    BY <2>2, <2>3 DEF Answers!Next, Answers!OthersCount
<1>3. ASSUME NEW f \in Fds, NEW class \in MsgClasses, CallOnData(f, class)
      PROVE  [Answers!Next]_(Answers!vars)
  <2>. USE <1>3 DEF CallOnData
  <2>1. CASE class = "silent"
    BY <2>1
  <2>2. CASE class = "usb"
    BY <2>2 DEF Answers!Next, Answers!Take
  <2>3. CASE class \in {"answered", "rejected", "overflow"}
    BY <2>3 DEF Answers!Next, Answers!Take
  <2>. QED
    BY <2>1, <2>2, <2>3
<1>4. CASE SubcmdLocks
  BY <1>4 DEF SubcmdLocks, Answers!Next, Answers!Encode
<1>5. CASE SubcmdRejected
  BY <1>5
  DEF SubcmdRejected, NoAnswerYet, Answers!Next, Answers!Reject
<1>6. CASE SubcmdOverflows
  BY <1>6
  DEF SubcmdOverflows, NoAnswerYet, Answers!Next, Answers!Overflow
<1>7. CASE ResponseWrites \/ ResponseFails
  <2>1. lpc \in {"write_usb", "write_subcmd"} /\ lmsg # NoMsg
    BY <1>7
    DEF ResponseWrites, ResponseFails, SwitchProInv, ReportInv, ResponseIsCurrent
  <2>2. lpc' = "on_data_returns" /\ lmsg' = lmsg /\ timer' = timer
    BY <1>7 DEF ResponseWrites, ResponseFails, ResponseDone
  <2>. QED
    BY <2>1, <2>2 DEF Answers!Next, Answers!Answer
<1>8. CASE OnDataReturns
  BY <1>8 DEF OnDataReturns, Answers!Next, Answers!Return
<1>9. CASE OpenReturns \/ CloseReturns
  BY <1>9 DEF OpenReturns, CloseReturns
<1>10. CASE CallOpen \/ CallClose
  BY <1>10 DEF CallOpen, CallClose
<1>11. CASE OpenFindsOpen \/ OpenFirstFails \/ OpenSecondFails \/ SetNonblocking
            \/ SetNonblockingFails \/ CloseBoth
  BY <1>11
  DEF OpenFindsOpen, OpenFirstFails, OpenSecondFails, SetNonblocking,
      SetNonblockingFails, CloseBoth
<1>12. ASSUME NEW f \in Fds, OpenFirst(f) \/ OpenSecond(f)
       PROVE  [Answers!Next]_(Answers!vars)
  BY <1>12 DEF OpenFirst, OpenSecond
<1>13. ASSUME NEW t \in AppThreads, NEW state \in States, SetState(t, state)
       PROVE  [Answers!Next]_(Answers!vars)
  BY <1>13 DEF SetState
<1>14. ASSUME NEW t \in AppThreads,
              SetStateWithoutDevice(t) \/ SetStateWrites(t)
                \/ SetStateWouldBlock(t) \/ SetStateWriteFails(t)
       PROVE  [Answers!Next]_(Answers!vars)
  BY <1>14
  DEF SetStateWithoutDevice, SetStateWrites, SetStateWouldBlock,
      SetStateWriteFails, SetStateReturns
<1>15. ASSUME NEW f \in Fds, AppOpens(f) \/ AppCloses(f)
       PROVE  [Answers!Next]_(Answers!vars)
  BY <1>15 DEF AppOpens, AppCloses
<1>16. CASE Destroy \/ HostPolls \/ HostDisconnects \/ UNCHANGED vars
  BY <1>16 DEF Destroy, HostPolls, HostDisconnects
<1>17. CASE LoopCalls
  <2>1. CASE fd >= 0 /\ \E class \in MsgClasses : CallOnData(fd, class)
    <3>1. fd \in Fds
      BY <2>1 DEF SwitchProInv, TypeOK
    <3>. QED
      BY <1>3, <2>1, <3>1
  <2>. QED
    BY <1>10, <1>17, <2>1 DEF LoopCalls
<1>. QED
  BY <1>1, <1>2, <1>4, <1>5, <1>6, <1>7, <1>8, <1>9, <1>11, <1>12, <1>13, <1>14,
     <1>15, <1>16, <1>17
  DEF Next, OwnStep, SetStateStep, CallbackStep, CallbackReturns

\* Every behaviour of the threads handles output reports as the contract says.
THEOREM GamepadKeepsAnswerContract == Spec => ImplementsAnswerContract
<1>1. Init => NoAnswerYet
  BY DEF Init, NoAnswerYet
<1>. QED
  BY <1>1, SwitchProInvariant, NextNoAnswerYet, AnswersInit, AnswersNext, PTL
  DEF Spec, ImplementsAnswerContract, Answers!Spec
=============================================================================
