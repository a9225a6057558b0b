---------------------------- MODULE GamepadSystem ----------------------------
(***************************************************************************)
(* A program built on the library: one udcinput_gamepad_switchpro whose      *)
(* callbacks are run by one udcinput_loop, threads that call set_state, and  *)
(* the USB host.  The gamepad is module SwitchPro, the loop is module        *)
(* EventLoop with the gamepad in the place of its device; the two meet in    *)
(* the calls and returns of open, close and on_data, which are joint steps.  *)
(***************************************************************************)
EXTENDS SwitchPro

CONSTANTS StopFd, StopMax   \* see EventLoop

\* The eventfd lies outside the numbers that the descriptor table models.
ASSUME GamepadSystemAssumption ==
  /\ StopFd \in Nat \ Fds
  /\ StopMax \in Nat \ {0}

VARIABLES life, interest, stopCount, datafd, timeout, pc, ret   \* see EventLoop

\* The descriptor the event loop knows of the device.
Device == IF alive THEN fd ELSE NoFd

EL == INSTANCE EventLoop WITH DataFds <- Fds, devfd <- Device

loopVars == <<life, interest, stopCount, datafd, timeout, pc, ret>>
systemVars == <<vars, loopVars>>

SystemInit == Init /\ EL!Init

-----------------------------------------------------------------------------
(* Calls and returns of the callbacks.                                     *)

\* epoll_wait times out; if there is no datafd this calls switchpro_open.
SystemTimesOut ==
  /\ IF datafd = NoFd THEN CallOpen ELSE UNCHANGED vars
  /\ EL!EpollTimesOut

SystemOpenReturns == OpenReturns /\ EL!OpenReturns

\* A failed EPOLL_CTL_ADD and a successful EPOLL_CTL_DEL call switchpro_close.
SystemCallsClose == CallClose /\ (EL!EpollAddFails \/ EL!EpollDeletes)

SystemCloseReturns == CloseReturns /\ (EL!UndoOpenReturns \/ EL!CloseReturns)

\* A successful read calls on_output_report with the descriptor it read.
SystemReadReturns ==
  \/ /\ \E class \in MsgClasses : CallOnData(datafd, class)
     /\ EL!ReadReturns
     /\ pc' = "on_data"
  \/ /\ UNCHANGED vars
     /\ EL!ReadReturns
     /\ pc' = "epoll_del"

SystemOnDataReturns == OnDataReturns /\ EL!OnDataReturns

-----------------------------------------------------------------------------
(* Steps of one side.                                                      *)

\* The program runs the loop only with a gamepad that exists.
SystemRun ==
  /\ alive
  /\ UNCHANGED vars
  /\ EL!Run

LoopAlone ==
  /\ UNCHANGED vars
  /\ \/ EL!Create
     \/ EL!Destroy
     \/ EL!Stop
     \/ EL!EpollWaitFails
     \/ EL!EpollReportsStop
     \/ EL!EpollReportsStopError
     \/ EL!EpollAdds
     \/ \E events \in EL!Events : EL!EpollReportsData(events)
     \/ EL!EpollDelFails

GamepadAlone == OwnStep /\ UNCHANGED loopVars

\* The program destroys the gamepad when it has no loop any more.
SystemDestroy ==
  /\ life = "none"
  /\ Destroy
  /\ UNCHANGED loopVars

SystemNext ==
  \/ SystemTimesOut
  \/ SystemOpenReturns
  \/ SystemCallsClose
  \/ SystemCloseReturns
  \/ SystemReadReturns
  \/ SystemOnDataReturns
  \/ SystemRun
  \/ LoopAlone
  \/ GamepadAlone
  \/ SystemDestroy

SystemSpec == SystemInit /\ [][SystemNext]_systemVars

-----------------------------------------------------------------------------
(* Fairness: that of EventLoop and of SwitchPro, for the joint steps.  That   *)
(* the device closes, and that callbacks return, is not assumed here: it      *)
(* follows from the locks being granted and the host polling.                *)

SystemThreadFairness(t) ==
  /\ SF_systemVars((SetStateLocks(t) \/ SetStateWithoutDevice(t))
                     /\ UNCHANGED loopVars)
  /\ SF_systemVars(tpc[t] = "write" /\ SetStateWrites(t) /\ UNCHANGED loopVars)
  /\ WF_systemVars(/\ tpc[t] = "write_nonblock"
                   /\ SetStateWrites(t) \/ SetStateWouldBlock(t)
                   /\ UNCHANGED loopVars)

SystemFairness ==
  /\ \A t \in AppThreads : SystemThreadFairness(t)
  /\ SF_systemVars(LocksOrOpens /\ UNCHANGED loopVars)
  /\ SF_systemVars(ResponseWrites /\ UNCHANGED loopVars)
  /\ WF_systemVars(HostPolls /\ UNCHANGED loopVars)
  /\ WF_systemVars(SystemTimesOut)
  /\ WF_systemVars(SystemReadReturns)
  /\ WF_systemVars(SystemOpenReturns \/ SystemCloseReturns \/ SystemOnDataReturns)
  /\ WF_systemVars(UNCHANGED vars /\ EL!EpollAdds)
  /\ WF_systemVars(SystemCallsClose)
  /\ SF_systemVars(UNCHANGED vars /\ EL!EpollReportsStop)

SystemFairSpec == SystemSpec /\ SystemFairness

-----------------------------------------------------------------------------
(* Properties.                                                             *)

\* The gamepad's callbacks behave like the device of EventLoop: every property
\* that module EventLoopProps shows of a loop with any device holds here.
ImplementsEventLoop == EL!Spec

\* The two halves agree on the callback in progress, and the loop reads from
\* and hands to on_output_report only the gamepad's own open, blocking
\* descriptor, whatever set_state and the host do meanwhile.  epoll watches no
\* other either: a number that was closed and given to something else is never
\* watched on the gamepad's behalf.
DatafdIsBlockingDevice ==
  /\ lpc # "none" <=> pc \in {"open", "undo_open", "on_data", "close"}
  /\ pc \in {"read", "on_data"} => datafd = fd /\ files[datafd] = "blocking"
  /\ \A f \in interest \ {StopFd} : alive /\ f = fd /\ files[f] = "blocking"

\* udcinput_loop_stop ends udcinput_loop_run although callbacks wait for the
\* mutex, set_state keeps it while it waits for the host, and the host answers
\* nothing but polls.
StopEndsSystemRun == stopCount > 0 /\ pc # "idle" ~> pc = "idle"

\* A device that is not open while the loop runs is tried again, after every
\* failure, until the run ends.
DeviceIsReopened == pc # "idle" /\ fd < 0 ~> pc \in {"open", "idle"}
=============================================================================
