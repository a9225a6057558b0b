-------------------------- MODULE GamepadSystemProofs -------------------------
(***************************************************************************)
(* Proofs about the composition of loop and gamepad, for any number of       *)
(* threads, any descriptor table and any messages: each half behaves as its  *)
(* own module says, so that every theorem about a half holds of the whole,   *)
(* and the loop only ever uses the gamepad's open descriptor.                *)
(*                                                                         *)
(* Neither half is inductive here without the other: that a callback of the  *)
(* gamepad is a step the loop expects rests on where the loop is, and that   *)
(* the loop closes and reads only an open gamepad on what its datafd is.     *)
(* SystemInv joins the two inductive invariants by Agreement, which says     *)
(* which callback each point of the loop belongs to.                         *)
(***************************************************************************)
EXTENDS GamepadSystem, SwitchProProofs

ELP == INSTANCE EventLoopProofs WITH DataFds <- Fds, devfd <- Device

OnDataPoints == {"answered", "rejected", "overflow", "write_usb",
                 "write_subcmd", "on_data_returns"}

\* The point of the callback that the loop waits for.
Agreement ==
  /\ pc \notin {"open", "undo_open", "on_data", "close"} => lpc = "none"
  /\ pc = "open" => lpc \in {"open", "open_second", "set_nonblocking", "open_returns"}
  /\ pc \in {"undo_open", "close"} => lpc \in {"close", "close_returns"}
  /\ pc = "on_data" => lpc \in OnDataPoints
  /\ pc # "idle" => alive

SystemInv == SwitchProInv /\ ELP!LoopInv /\ Agreement

-----------------------------------------------------------------------------
\* The composition satisfies what EventLoop assumes of its constants.
LEMMA EventLoopConstants ==
  /\ Fds \subseteq Nat
  /\ StopFd \in Nat \ Fds
  /\ StopMax \in Nat \ {0}
  BY GamepadSystemAssumption, SwitchProAssumption DEF Fds

\* The two instances of EventLoop are the same specification.
LEMMA SameEventLoop ==
  /\ EL!Init <=> ELP!Init
  /\ [EL!Next]_(EL!vars) <=> [ELP!Next]_(ELP!vars)
<1>1. EL!Init <=> ELP!Init
  BY DEF EL!Init, ELP!Init, EL!NoFd, ELP!NoFd, EL!SetupTimeout, ELP!SetupTimeout
<1>2. EL!vars = ELP!vars /\ EL!vars' = ELP!vars'
  BY DEF EL!vars, ELP!vars
<1>3. EL!Next <=> ELP!Next
  BY DEF EL!Next, EL!Create, EL!Destroy, EL!Run, EL!Stop, EL!EpollWaitFails,
     EL!EpollReportsStop, EL!EpollReportsStopError, EL!LoopThread,
     EL!EpollTimesOut, EL!OpenReturns, EL!EpollAdds, EL!EpollAddFails,
     EL!UndoOpenReturns, EL!EpollReportsData, EL!ReadReturns, EL!OnDataReturns,
     EL!EpollDeletes, EL!EpollDelFails, EL!CloseReturns, EL!DeviceOpens,
     EL!DeviceCloses, EL!DeviceDestroyed, EL!loopVars, EL!NoFd,
     EL!SetupTimeout, EL!NoTimeout, EL!Return, EL!Events,
     ELP!Next, ELP!Create, ELP!Destroy, ELP!Run, ELP!Stop, ELP!EpollWaitFails,
     ELP!EpollReportsStop, ELP!EpollReportsStopError, ELP!LoopThread,
     ELP!EpollTimesOut, ELP!OpenReturns, ELP!EpollAdds, ELP!EpollAddFails,
     ELP!UndoOpenReturns, ELP!EpollReportsData, ELP!ReadReturns,
     ELP!OnDataReturns, ELP!EpollDeletes, ELP!EpollDelFails, ELP!CloseReturns,
     ELP!DeviceOpens, ELP!DeviceCloses, ELP!DeviceDestroyed, ELP!loopVars,
     ELP!NoFd, ELP!SetupTimeout, ELP!NoTimeout, ELP!Return, ELP!Events
<1>. QED
  BY <1>1, <1>2, <1>3

\* The initial state satisfies the joint invariant.
LEMMA SystemInitInv == SystemInit => SystemInv
<1>. SUFFICES ASSUME SystemInit PROVE SystemInv
  OBVIOUS
<1>1. SwitchProInv
  BY InitSwitchProInv DEF SystemInit
<1>2. ELP!LoopInv
  BY SameEventLoop, EventLoopConstants, ELP!InitLoopInv DEF SystemInit
<1>3. Agreement
  BY DEF SystemInit, Init, EL!Init, Agreement
<1>. QED
  BY <1>1, <1>2, <1>3 DEF SystemInv

-----------------------------------------------------------------------------
\* What the joint invariant says of the loop's variables, for the steps below.
LEMMA LoopFacts ==
  ASSUME SystemInv
  PROVE  /\ pc \in {"idle", "epoll_wait", "open", "epoll_add", "undo_open",
                    "read", "on_data", "epoll_del", "close"}
         /\ life = "none" => interest = {} /\ pc = "idle"
         /\ life \in {"none", "created"}
         /\ pc # "idle" => alive /\ Device = fd
         /\ pc \in {"epoll_add", "read", "on_data", "epoll_del"} =>
              datafd = fd /\ fd >= 0
         /\ \A f \in interest \ {StopFd} : f = fd /\ alive /\ fd >= 0
<1>. USE DEF SystemInv, ELP!LoopInv, ELP!NoLoop, NoFd, ELP!NoFd
<1>1. /\ pc \in {"idle", "epoll_wait", "open", "epoll_add", "undo_open",
                 "read", "on_data", "epoll_del", "close"}
      /\ life = "none" => interest = {} /\ pc = "idle"
      /\ life \in {"none", "created"}
  BY DEF ELP!TypeOK, ELP!Locations
<1>2. fd \in Fds \cup {NoFd} /\ (fd # -1 => fd >= 0)
  BY SwitchProAssumption DEF SwitchProInv, TypeOK, Fds
<1>3. pc # "idle" => alive /\ Device = fd
  BY DEF Agreement, Device
<1>4. pc \in {"epoll_add", "read", "on_data", "epoll_del"} =>
        datafd = fd /\ fd >= 0
  BY <1>1, <1>2, <1>3 DEF ELP!DatafdByPoint, ELP!DatafdIsOpen, ELP!Unwatched
<1>5. ASSUME NEW f \in interest \ {StopFd}
      PROVE  f = fd /\ alive /\ fd >= 0
  <2>1. life = "created"
    BY <1>1, <1>5
  <2>2. f = datafd /\ datafd # -1 /\ pc # "close"
    BY <2>1, <1>5 DEF ELP!Registered, ELP!Unwatched
  <2>3. datafd = Device
    BY <2>1, <2>2 DEF ELP!DatafdIsOpen
  <2>. QED
    BY <2>2, <2>3, <1>2 DEF Device
<1>. QED
  BY <1>1, <1>3, <1>4, <1>5

\* What the system does is what the gamepad of SwitchPro does, or nothing to it.
LEMMA SystemStepsGamepad ==
  ASSUME SystemInv, [SystemNext]_systemVars
  PROVE  [Next]_vars
<1>. USE DEF Next, LoopCalls, CallbackReturns
<1>1. CASE SystemTimesOut
  BY <1>1 DEF SystemTimesOut
<1>2. CASE SystemOpenReturns
  BY <1>2 DEF SystemOpenReturns
<1>3. CASE SystemCallsClose
  <2>1. fd >= 0
    BY <1>3, LoopFacts DEF SystemCallsClose, EL!EpollAddFails, EL!EpollDeletes
  <2>. QED
    BY <1>3, <2>1 DEF SystemCallsClose
<1>4. CASE SystemCloseReturns
  BY <1>4 DEF SystemCloseReturns
<1>5. CASE SystemReadReturns
  <2>1. fd >= 0 /\ datafd = fd
    BY <1>5, LoopFacts DEF SystemReadReturns, EL!ReadReturns
  <2>. QED
    BY <1>5, <2>1 DEF SystemReadReturns
<1>6. CASE SystemOnDataReturns
  BY <1>6 DEF SystemOnDataReturns
<1>7. CASE SystemRun \/ LoopAlone \/ UNCHANGED systemVars
  BY <1>7 DEF SystemRun, LoopAlone, systemVars
<1>8. CASE GamepadAlone \/ SystemDestroy
  BY <1>8 DEF GamepadAlone, SystemDestroy
<1>. QED
  BY <1>1, <1>2, <1>3, <1>4, <1>5, <1>6, <1>7, <1>8 DEF SystemNext

-----------------------------------------------------------------------------
\* What a step of the gamepad alone can do to the callback in progress and to
\* the descriptor: only the end of open_hidg opens, only switchpro_close closes.
LEMMA OwnStepCases ==
  ASSUME SystemInv, OwnStep
  PROVE  \/ /\ UNCHANGED <<alive, fd, lpc>>
         \/ /\ UNCHANGED lpc
            /\ ~alive /\ alive' /\ fd' = NoFd
         \/ /\ UNCHANGED <<alive, fd>>
            /\ lpc \in {"open", "open_second", "set_nonblocking"}
            /\ lpc' \in {"open_second", "set_nonblocking", "open_returns"}
         \/ /\ UNCHANGED <<alive, fd>>
            /\ lpc \in OnDataPoints
            /\ lpc' \in OnDataPoints
         \/ /\ UNCHANGED alive
            /\ lpc = "set_nonblocking" /\ lpc' = "open_returns"
            /\ fd < 0 /\ fd' \in Fds
         \/ /\ UNCHANGED alive
            /\ lpc = "close" /\ lpc' = "close_returns"
            /\ fd >= 0 /\ fd' = NoFd
<1>. USE DEF fdVars, reportVars, appVars, cbVars, cbLocals, deviceVars,
             OnDataPoints
<1>1. CASE Create
  BY <1>1 DEF Create
<1>2. ASSUME NEW t \in AppThreads, NEW state \in States, SetState(t, state)
      PROVE  UNCHANGED <<alive, fd, lpc>>
  BY <1>2 DEF SetState
<1>3. ASSUME NEW t \in AppThreads, SetStateStep(t)
      PROVE  UNCHANGED <<alive, fd, lpc>>
  BY <1>3
  DEF SetStateStep, SetStateWithoutDevice, SetStateLocks, SetStateWrites,
      SetStateWouldBlock, SetStateWriteFails, SetStateReturns
<1>4. ASSUME NEW f \in Fds, AppOpens(f) \/ AppCloses(f)
      PROVE  UNCHANGED <<alive, fd, lpc>>
  BY <1>4 DEF AppOpens, AppCloses
<1>5. CASE HostPolls \/ HostDisconnects
  BY <1>5 DEF HostPolls, HostDisconnects
<1>6. CASE CallbackStep
  <2>1. CASE SetNonblocking
    BY <2>1 DEF SetNonblocking, SystemInv, SwitchProInv, FdInv, CallbackFds
  <2>2. CASE CloseBoth
    BY <2>2 DEF CloseBoth, SystemInv, SwitchProInv, FdInv, CallbackFds
  <2>3. ASSUME NEW f \in Fds, OpenFirst(f) \/ OpenSecond(f)
        PROVE  /\ UNCHANGED <<alive, fd>>
               /\ lpc \in {"open", "open_second", "set_nonblocking"}
               /\ lpc' \in {"open_second", "set_nonblocking", "open_returns"}
    BY <2>3 DEF OpenFirst, OpenSecond
  <2>4. CASE OpenFindsOpen \/ OpenFirstFails \/ OpenSecondFails
               \/ SetNonblockingFails
    BY <2>4 DEF OpenFindsOpen, OpenFirstFails, OpenSecondFails,
                SetNonblockingFails
  <2>5. CASE SubcmdLocks \/ SubcmdRejected \/ SubcmdOverflows
               \/ ResponseWrites \/ ResponseFails
    BY <2>5 DEF SubcmdLocks, SubcmdRejected, SubcmdOverflows, ResponseWrites,
                ResponseFails, ResponseDone
  <2>. QED
    BY <1>6, <2>1, <2>2, <2>3, <2>4, <2>5 DEF CallbackStep
<1>. QED
  BY <1>1, <1>2, <1>3, <1>4, <1>5, <1>6 DEF OwnStep

\* What the system does is what the loop of EventLoop and its device do.
LEMMA SystemStepsLoop ==
  ASSUME SystemInv, [SystemNext]_systemVars
  PROVE  [EL!Next]_(EL!vars)
<1>. USE DEF EL!Next, EL!LoopThread
<1>1. CASE SystemTimesOut
  BY <1>1 DEF SystemTimesOut
<1>2. CASE SystemOpenReturns \/ SystemCallsClose \/ SystemCloseReturns
  BY <1>2 DEF SystemOpenReturns, SystemCallsClose, SystemCloseReturns
<1>3. CASE SystemReadReturns \/ SystemOnDataReturns \/ SystemRun
  BY <1>3 DEF SystemReadReturns, SystemOnDataReturns, SystemRun
<1>4. CASE LoopAlone
  BY <1>4 DEF LoopAlone
<1>5. CASE GamepadAlone
  <2>. USE <1>5 DEF GamepadAlone, loopVars, EL!loopVars, EL!vars, Device, NoFd,
                    EL!NoFd
  <2>1. lpc # "none" => alive /\ pc # "idle"
    BY LoopFacts DEF SystemInv, Agreement
  <2>2. CASE lpc = "set_nonblocking" /\ fd < 0 /\ fd' \in Fds /\ UNCHANGED alive
    <3>1. pc = "open"
      BY <2>2, LoopFacts DEF SystemInv, Agreement, OnDataPoints
    <3>2. fd = -1
      BY <2>2, SwitchProAssumption DEF SystemInv, SwitchProInv, TypeOK, Fds
    <3>3. EL!DeviceOpens(fd')
      BY <2>1, <2>2, <3>1, <3>2 DEF EL!DeviceOpens
    <3>. QED
      BY <2>2, <3>3
  <2>3. CASE lpc = "close" /\ fd >= 0 /\ fd' = NoFd /\ UNCHANGED alive
    <3>1. pc \in {"undo_open", "close"}
      BY <2>3, LoopFacts DEF SystemInv, Agreement, OnDataPoints
    <3>2. EL!DeviceCloses
      BY <2>1, <2>3, <3>1 DEF EL!DeviceCloses
    <3>. QED
      BY <3>2
  <2>4. CASE \/ UNCHANGED <<alive, fd>>
             \/ ~alive /\ alive' /\ fd' = NoFd
    BY <2>4
  <2>. QED
    BY <2>2, <2>3, <2>4, OwnStepCases
<1>6. CASE SystemDestroy
  BY <1>6
  DEF SystemDestroy, Destroy, loopVars, EL!loopVars, EL!vars, Device, NoFd,
      EL!NoFd, EL!DeviceDestroyed
<1>7. CASE UNCHANGED systemVars
  BY <1>7 DEF systemVars, loopVars, vars, fdVars, EL!vars, Device
<1>. QED
  BY <1>1, <1>2, <1>3, <1>4, <1>5, <1>6, <1>7 DEF SystemNext

-----------------------------------------------------------------------------
\* Every step keeps the callback in progress and the point of the loop together.
LEMMA AgreementKept ==
  ASSUME SystemInv, [SystemNext]_systemVars
  PROVE  Agreement'
<1>. USE DEF Agreement, OnDataPoints
<1>0. Agreement
  BY DEF SystemInv
<1>1. CASE SystemTimesOut
  BY <1>0, <1>1, LoopFacts
  DEF SystemTimesOut, EL!EpollTimesOut, CallOpen, vars, cbVars, EL!NoFd, NoFd
<1>2. CASE SystemOpenReturns
  BY <1>0, <1>2 DEF SystemOpenReturns, OpenReturns, EL!OpenReturns
<1>3. CASE SystemCallsClose
  BY <1>0, <1>3
  DEF SystemCallsClose, CallClose, EL!EpollAddFails, EL!EpollDeletes
<1>4. CASE SystemCloseReturns
  BY <1>0, <1>4
  DEF SystemCloseReturns, CloseReturns, EL!UndoOpenReturns, EL!CloseReturns
<1>5. CASE SystemReadReturns
  <2>1. ASSUME NEW class \in MsgClasses, CallOnData(datafd, class),
               EL!ReadReturns, pc' = "on_data"
        PROVE  Agreement'
    BY <1>0, <2>1, SwitchProAssumption
    DEF CallOnData, EL!ReadReturns, AllMsgClasses
  <2>2. CASE UNCHANGED vars /\ EL!ReadReturns /\ pc' = "epoll_del"
    BY <1>0, <2>2 DEF EL!ReadReturns, vars, cbVars
  <2>. QED
    BY <1>5, <2>1, <2>2 DEF SystemReadReturns
<1>6. CASE SystemOnDataReturns
  BY <1>0, <1>6 DEF SystemOnDataReturns, OnDataReturns, EL!OnDataReturns
<1>7. CASE SystemRun
  BY <1>0, <1>7 DEF SystemRun, EL!Run, vars, cbVars
<1>8. CASE LoopAlone
  <2>1. UNCHANGED <<alive, lpc>>
    BY <1>8 DEF LoopAlone, vars, cbVars
  <2>2. \/ pc' = pc
        \/ /\ pc \notin {"idle", "open", "undo_open", "on_data", "close"}
           /\ pc' \notin {"open", "undo_open", "on_data", "close"}
    <3>1. ASSUME NEW events \in EL!Events, EL!EpollReportsData(events)
          PROVE  pc = "epoll_wait" /\ pc' \in {"epoll_del", "read"}
      BY <3>1 DEF EL!EpollReportsData
    <3>. QED
      BY <1>8, <3>1
      DEF LoopAlone, EL!Create, EL!Destroy, EL!Stop, EL!EpollWaitFails,
          EL!EpollReportsStop, EL!EpollReportsStopError, EL!EpollAdds,
          EL!EpollDelFails, EL!Return
  <2>. QED
    BY <1>0, <2>1, <2>2
<1>9. CASE GamepadAlone
  BY <1>0, <1>9, OwnStepCases, LoopFacts DEF GamepadAlone, loopVars
<1>10. CASE SystemDestroy
  BY <1>0, <1>10, LoopFacts DEF SystemDestroy, Destroy, loopVars, cbVars
<1>11. CASE UNCHANGED systemVars
  BY <1>0, <1>11 DEF systemVars, loopVars, vars, cbVars
<1>. QED
  BY <1>1, <1>2, <1>3, <1>4, <1>5, <1>6, <1>7, <1>8, <1>9, <1>10, <1>11
  DEF SystemNext

\* Every step of the system preserves the joint invariant.
LEMMA SystemNextInv == SystemInv /\ [SystemNext]_systemVars => SystemInv'
<1>. SUFFICES ASSUME SystemInv, [SystemNext]_systemVars PROVE SystemInv'
  OBVIOUS
<1>1. SwitchProInv'
  BY SystemStepsGamepad, NextSwitchProInv DEF SystemInv
<1>2. ELP!LoopInv'
  BY SystemStepsLoop, SameEventLoop, EventLoopConstants, ELP!NextLoopInv
  DEF SystemInv
<1>. QED
  BY <1>1, <1>2, AgreementKept DEF SystemInv

-----------------------------------------------------------------------------
\* The joint invariant holds in every reachable state.
THEOREM SystemInvariant == SystemSpec => []SystemInv
  BY SystemInitInv, SystemNextInv, PTL DEF SystemSpec

\* The loop that runs the real callbacks is the loop of EventLoop with a device:
\* every theorem of EventLoopProofs holds of it.
THEOREM SystemImplementsEventLoop == SystemSpec => ImplementsEventLoop
<1>1. SystemInit => EL!Init
  BY DEF SystemInit
<1>2. SystemInv /\ [SystemNext]_systemVars => [EL!Next]_(EL!vars)
  BY SystemStepsLoop
<1>. QED
  BY SystemInvariant, <1>1, <1>2, PTL DEF SystemSpec, ImplementsEventLoop, EL!Spec

\* The gamepad driven by the loop is the gamepad of SwitchPro: every theorem of
\* SwitchProProofs holds of it, and its assumption on the loop is discharged.
THEOREM SystemImplementsSwitchPro == SystemSpec => Spec
<1>1. SystemInit => Init
  BY DEF SystemInit
<1>2. SystemInv /\ [SystemNext]_systemVars => [Next]_vars
  BY SystemStepsGamepad
<1>. QED
  BY SystemInvariant, <1>1, <1>2, PTL DEF SystemSpec, Spec

\* The loop watches, reads and hands to on_output_report only the gamepad's own
\* open, blocking descriptor, and the two halves agree on the callback.
THEOREM DatafdIsTheDevice == SystemSpec => []DatafdIsBlockingDevice
<1>1. SystemInv => DatafdIsBlockingDevice
  <2>. SUFFICES ASSUME SystemInv PROVE DatafdIsBlockingDevice
    OBVIOUS
  <2>1. lpc # "none" <=> pc \in {"open", "undo_open", "on_data", "close"}
    BY DEF SystemInv, Agreement, OnDataPoints
  <2>2. alive /\ fd >= 0 => files[fd] = "blocking"
    BY DEF SystemInv, SwitchProInv, FdInv, DescriptorsHaveTheirMode
  <2>3. pc \in {"read", "on_data"} => datafd = fd /\ files[datafd] = "blocking"
    BY <2>2, LoopFacts
  <2>4. \A f \in interest \ {StopFd} : alive /\ f = fd /\ files[f] = "blocking"
    BY <2>2, LoopFacts
  <2>. QED
    BY <2>1, <2>3, <2>4 DEF DatafdIsBlockingDevice
<1>. QED
  BY SystemInvariant, <1>1, PTL

\* Whatever the loop, the threads, the host and failing opens do, the process
\* has no more descriptors of the device open than the gamepad will close.
THEOREM SystemLeaksNothing == SystemSpec => []NoDescriptorLeaks
  BY SystemImplementsSwitchPro, DescriptorsAreKnown, PTL

\* The descriptors of the driven gamepad are a blocking and a non-blocking one.
THEOREM SystemModesAreKept == SystemSpec => []DescriptorsHaveTheirMode
  BY SystemImplementsSwitchPro, ModesAreKept, PTL

\* Of the program's own descriptors the driven gamepad closes at most zero.
THEOREM SystemStealsAtMostZero == SystemSpec => OnlyZeroIsStolen
  BY SystemImplementsSwitchPro, NothingButZeroIsStolen

-----------------------------------------------------------------------------
\* What the gamepad promises for itself holds when the real loop drives it: the
\* mutex is held only inside, changed buttons reach the device, no state is lost
\* without a word, and the device gets only current reports.
THEOREM SystemDeliversStates ==
  SystemSpec => /\ []MutexHeldOnlyInside
                /\ []ButtonsDelivered
                /\ []NoSilentLoss
                /\ ReportsCarryCurrentState
  BY SystemImplementsSwitchPro, MutualExclusion, ChangedButtonsArrive,
     NothingIsLostSilently, ReportsAreCurrent, PTL

\* Output reports that arrive through the loop are answered as AnswerContract
\* says.
THEOREM SystemKeepsAnswerContract == SystemSpec => ImplementsAnswerContract
  BY SystemImplementsSwitchPro, GamepadKeepsAnswerContract, PTL

\* The loop of the system is the instance of EventLoopProofs.
LEMMA SystemIsEventLoop == SystemSpec => ELP!Spec
<1>1. SystemInit => ELP!Init
  BY SameEventLoop DEF SystemInit
<1>2. SystemInv /\ [SystemNext]_systemVars => [ELP!Next]_(ELP!vars)
  BY SystemStepsLoop, SameEventLoop
<1>. QED
  BY SystemInvariant, <1>1, <1>2, PTL DEF SystemSpec, ELP!Spec

\* What the loop promises any device holds with the gamepad's callbacks: it does
\* not wait for good without one, and epoll watches exactly what it should.
THEOREM SystemWatchesDevice ==
  SystemSpec => []ELP!SleepsOnlyWithDevice /\ []ELP!InterestMatchesDatafd
<1>1. ELP!Spec => []ELP!SleepsOnlyWithDevice
  BY EventLoopConstants, ELP!NeverSleepsForGood
<1>2. ELP!Spec => []ELP!InterestMatchesDatafd
  BY EventLoopConstants, ELP!InterestIsExact
<1>. QED
  BY SystemIsEventLoop, <1>1, <1>2, PTL

\* No stop of the system is forgotten, the loop is back in epoll_wait within five
\* steps of its own and of the gamepad's descriptor, no descriptor is closed that
\* epoll still watches, and the calls of the callbacks are those of the contract.
THEOREM SystemKeepsLoopPromises ==
  SystemSpec => /\ ELP!StopIsSticky
                /\ ELP!IterationsEnd
                /\ ELP!ClosedAfterUnwatched
                /\ ELP!ImplementsContract
<1>1. ELP!Spec => ELP!StopIsSticky
  BY EventLoopConstants, ELP!StopNeverLost
<1>2. ELP!Spec => ELP!IterationsEnd
  BY EventLoopConstants, ELP!EveryIterationEnds
<1>3. ELP!Spec => ELP!ClosedAfterUnwatched
  BY EventLoopConstants, ELP!NeverClosesWatched
<1>4. ELP!Spec => ELP!ImplementsContract
  BY EventLoopConstants, ELP!LoopKeepsContract
<1>. QED
  BY SystemIsEventLoop, <1>1, <1>2, <1>3, <1>4, PTL
=============================================================================
