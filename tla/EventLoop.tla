------------------------------ MODULE EventLoop ------------------------------
(***************************************************************************)
(* The event loop of src/udcinput.c (the udcinput_loop functions).          *)
(*                                                                         *)
(* One thread, the loop thread, sits in udcinput_loop_run and waits in      *)
(* epoll_wait for two descriptors: stopfd, an eventfd that                  *)
(* udcinput_loop_stop writes from any thread, and datafd, the descriptor    *)
(* that callbacks->open returned.  While there is no datafd the wait has a  *)
(* timeout of 500 ms and every expiry tries callbacks->open again; with a   *)
(* datafd the wait has no timeout.                                          *)
(*                                                                         *)
(* The program counter pc names the system call or the callback the loop    *)
(* thread is in, so that other threads, the device and the kernel can act   *)
(* between any two of them.  What the callbacks do is left open here: a     *)
(* device that opens and closes one descriptor.  Module GamepadSystem       *)
(* replaces it by the real callbacks of the Switch Pro gamepad.             *)
(***************************************************************************)
EXTENDS Integers

CONSTANTS
  DataFds,  \* the descriptors callbacks->open may return
  StopFd,   \* the number of the eventfd
  StopMax   \* the largest value of the eventfd counter (0xfffffffffffffffe)

ASSUME EventLoopAssumption ==
  /\ DataFds \subseteq Nat
  /\ StopFd \in Nat \ DataFds
  /\ StopMax \in Nat \ {0}

NoFd == -1
SetupTimeout == 500   \* setup_timeout, in milliseconds
NoTimeout == -1

VARIABLES
  life,       \* "none" before create and after destroy, else "created"
  interest,   \* the descriptors registered with loop->epollfd
  stopCount,  \* the counter of loop->stopfd
  datafd,     \* loop->datafd
  timeout,    \* the local variable timeout of udcinput_loop_run
  pc,         \* where the loop thread is
  ret,        \* what the last create or run returned: "none", "ok" or "error"
  devfd       \* the descriptor the device behind the callbacks has open

loopVars == <<life, interest, stopCount, datafd, timeout, pc, ret>>
vars == <<life, interest, stopCount, datafd, timeout, pc, ret, devfd>>

Locations == {"idle", "epoll_wait", "open", "epoll_add", "undo_open",
              "read", "on_data", "epoll_del", "close"}

Init ==
  /\ life = "none"
  /\ interest = {}
  /\ stopCount = 0
  /\ datafd = NoFd
  /\ timeout = SetupTimeout
  /\ pc = "idle"
  /\ ret = "none"
  /\ devfd = NoFd

\* The end of udcinput_loop_run.
Return(value) ==
  /\ pc' = "idle"
  /\ ret' = value

-----------------------------------------------------------------------------
(* Faulty variants of the actions below, each a plausible slip in the code.   *)
(* They are no part of the specification: they show that the properties of    *)
(* EventLoopProps and GamepadSystem can tell such a program from this one.    *)

\* A stop counter without its limit.
StopUnlimited ==
  /\ life = "created"
  /\ stopCount' = stopCount + 1
  /\ UNCHANGED <<life, interest, datafd, timeout, pc, ret, devfd>>

\* timeout = -1 after every open_datafd, successful or not.
EpollTimesOutForGood ==
  /\ pc = "epoll_wait"
  /\ timeout # NoTimeout
  /\ stopCount = 0
  /\ timeout' = NoTimeout
  /\ pc' = IF datafd # NoFd THEN pc ELSE "open"
  /\ UNCHANGED <<life, interest, stopCount, datafd, ret, devfd>>

\* The error path of EPOLL_CTL_ADD without the close.
EpollAddFailsWithoutClose ==
  /\ pc = "epoll_add"
  /\ datafd' = NoFd
  /\ pc' = "epoll_wait"
  /\ UNCHANGED <<life, interest, stopCount, timeout, ret, devfd>>

\* HUP and ERR close the device without close_datafd's EPOLL_CTL_DEL.
EpollReportsDataThenCloses(events) ==
  /\ pc = "epoll_wait"
  /\ datafd \in interest
  /\ pc' = IF events \cap {"HUP", "ERR"} # {} THEN "close" ELSE "read"
  /\ UNCHANGED <<life, interest, stopCount, datafd, timeout, ret, devfd>>

\* EPOLL_CTL_DEL of another descriptor than datafd.
EpollDeletesOther ==
  /\ pc = "epoll_del"
  /\ pc' = "close"
  /\ UNCHANGED <<life, interest, stopCount, datafd, timeout, ret, devfd>>

\* udcinput_loop_run without timeout = setup_timeout after close_datafd.
CloseReturnsKeepingTimeout ==
  /\ pc = "close"
  /\ devfd = NoFd
  /\ datafd' = NoFd
  /\ pc' = "epoll_wait"
  /\ UNCHANGED <<life, interest, stopCount, timeout, ret, devfd>>

\* The stop event is handled with a continue in the place of the break.
EpollReportsStopAndContinues ==
  /\ pc = "epoll_wait"
  /\ StopFd \in interest
  /\ stopCount > 0
  /\ timeout' = SetupTimeout
  /\ UNCHANGED <<life, interest, stopCount, datafd, pc, ret, devfd>>

-----------------------------------------------------------------------------
(* The application's calls.                                                *)

\* udcinput_loop_create.  A failed eventfd is only noticed by the epoll_ctl
\* that follows, after the fields have been set; each of the failures closes
\* what was opened.
Create ==
  /\ life = "none"
  /\ \/ /\ life' = "created"
        /\ interest' = {StopFd}
        /\ stopCount' = 0
        /\ datafd' = NoFd
        /\ ret' = "ok"
     \/ /\ ret' = "error"
        /\ datafd' \in {datafd, NoFd}
        /\ UNCHANGED <<life, interest, stopCount>>
  /\ UNCHANGED <<timeout, pc, devfd>>

\* udcinput_loop_destroy, once udcinput_loop_run has returned.  It closes the
\* epoll instance and the eventfd and leaves the device's descriptor open.
Destroy ==
  /\ life = "created"
  /\ pc = "idle"
  /\ life' = "none"
  /\ interest' = {}
  /\ stopCount' = 0
  /\ UNCHANGED <<datafd, timeout, pc, ret, devfd>>

\* The call of udcinput_loop_run.
Run ==
  /\ life = "created"
  /\ pc = "idle"
  /\ pc' = "epoll_wait"
  /\ timeout' = SetupTimeout
  /\ ret' = "none"
  /\ UNCHANGED <<life, interest, stopCount, datafd, devfd>>

\* udcinput_loop_stop, from any thread.  At the counter's maximum the write
\* fails with EAGAIN and the call still succeeds.
Stop ==
  /\ life = "created"
  /\ stopCount' = IF stopCount < StopMax THEN stopCount + 1 ELSE stopCount
  /\ UNCHANGED <<life, interest, datafd, timeout, pc, ret, devfd>>

-----------------------------------------------------------------------------
(* The loop thread.                                                        *)

\* epoll_wait fails (a signal, for instance): udcinput_loop_run returns.
EpollWaitFails ==
  /\ pc = "epoll_wait"
  /\ Return("error")
  /\ UNCHANGED <<life, interest, stopCount, datafd, timeout, devfd>>

\* epoll_wait times out, which it cannot do while stopfd is readable.
\* open_datafd does nothing when there is a datafd.
EpollTimesOut ==
  /\ pc = "epoll_wait"
  /\ timeout # NoTimeout
  /\ stopCount = 0
  /\ IF datafd # NoFd
       THEN timeout' = NoTimeout /\ UNCHANGED pc
       ELSE pc' = "open" /\ UNCHANGED timeout
  /\ UNCHANGED <<life, interest, stopCount, datafd, ret, devfd>>

\* callbacks->open returns the device's descriptor, or an error.
OpenReturns ==
  /\ pc = "open"
  /\ datafd' = devfd
  /\ pc' = IF devfd = NoFd THEN "epoll_wait" ELSE "epoll_add"
  /\ UNCHANGED <<life, interest, stopCount, timeout, ret, devfd>>

\* EPOLL_CTL_ADD of the new datafd.
EpollAdds ==
  /\ pc = "epoll_add"
  /\ interest' = interest \cup {datafd}
  /\ timeout' = NoTimeout
  /\ pc' = "epoll_wait"
  /\ UNCHANGED <<life, stopCount, datafd, ret, devfd>>

EpollAddFails ==
  /\ pc = "epoll_add"
  /\ datafd' = NoFd
  /\ pc' = "undo_open"
  /\ UNCHANGED <<life, interest, stopCount, timeout, ret, devfd>>

\* callbacks->close returns after the failed EPOLL_CTL_ADD.
UndoOpenReturns ==
  /\ pc = "undo_open"
  /\ devfd = NoFd
  /\ pc' = "epoll_wait"
  /\ UNCHANGED <<life, interest, stopCount, datafd, timeout, ret, devfd>>

\* epoll_wait reports events of datafd: HUP and ERR go before IN.
EpollReportsData(events) ==
  /\ pc = "epoll_wait"
  /\ datafd \in interest
  /\ pc' = IF events \cap {"HUP", "ERR"} # {} THEN "epoll_del" ELSE "read"
  /\ UNCHANGED <<life, interest, stopCount, datafd, timeout, ret, devfd>>

\* The read of process_datafd_events.
ReadReturns ==
  /\ pc = "read"
  /\ pc' \in {"on_data", "epoll_del"}
  /\ UNCHANGED <<life, interest, stopCount, datafd, timeout, ret, devfd>>

OnDataReturns ==
  /\ pc = "on_data"
  /\ pc' = "epoll_wait"
  /\ UNCHANGED <<life, interest, stopCount, datafd, timeout, ret, devfd>>

\* EPOLL_CTL_DEL of close_datafd.  When it fails the descriptor stays open and
\* registered, and only the timeout changes.
EpollDeletes ==
  /\ pc = "epoll_del"
  /\ interest' = interest \ {datafd}
  /\ pc' = "close"
  /\ UNCHANGED <<life, stopCount, datafd, timeout, ret, devfd>>

EpollDelFails ==
  /\ pc = "epoll_del"
  /\ timeout' = SetupTimeout
  /\ pc' = "epoll_wait"
  /\ UNCHANGED <<life, interest, stopCount, datafd, ret, devfd>>

\* callbacks->close returns in close_datafd.
CloseReturns ==
  /\ pc = "close"
  /\ devfd = NoFd
  /\ datafd' = NoFd
  /\ timeout' = SetupTimeout
  /\ pc' = "epoll_wait"
  /\ UNCHANGED <<life, interest, stopCount, ret, devfd>>

\* epoll_wait reports that stopfd is readable.  The counter is not read.
EpollReportsStop ==
  /\ pc = "epoll_wait"
  /\ StopFd \in interest
  /\ stopCount > 0
  /\ Return("ok")
  /\ UNCHANGED <<life, interest, stopCount, datafd, timeout, devfd>>

\* epoll_wait reports ERR or HUP on stopfd.
EpollReportsStopError ==
  /\ pc = "epoll_wait"
  /\ StopFd \in interest
  /\ Return("error")
  /\ UNCHANGED <<life, interest, stopCount, datafd, timeout, devfd>>

-----------------------------------------------------------------------------
(* The device behind the callbacks: open may fail, and returns the          *)
(* descriptor it has when it is open already; close always closes.          *)

DeviceOpens(fd) ==
  /\ pc = "open"
  /\ devfd = NoFd
  /\ devfd' = fd
  /\ UNCHANGED loopVars

DeviceCloses ==
  /\ pc \in {"undo_open", "close"}
  /\ devfd # NoFd
  /\ devfd' = NoFd
  /\ UNCHANGED loopVars

\* The owner of the device destroys it, which it may do while no loop exists.
DeviceDestroyed ==
  /\ life = "none"
  /\ devfd # NoFd
  /\ devfd' = NoFd
  /\ UNCHANGED loopVars

-----------------------------------------------------------------------------
Events == (SUBSET {"IN", "HUP", "ERR"}) \ {{}}

\* The steps the loop thread takes by itself once it is running.
LoopThread ==
  \/ EpollTimesOut
  \/ OpenReturns
  \/ EpollAdds
  \/ EpollAddFails
  \/ UndoOpenReturns
  \/ \E events \in Events : EpollReportsData(events)
  \/ ReadReturns
  \/ OnDataReturns
  \/ EpollDeletes
  \/ EpollDelFails
  \/ CloseReturns

Next ==
  \/ Create
  \/ Destroy
  \/ Run
  \/ Stop
  \/ EpollWaitFails
  \/ EpollReportsStop
  \/ EpollReportsStopError
  \/ LoopThread
  \/ \E fd \in DataFds : DeviceOpens(fd)
  \/ DeviceCloses
  \/ DeviceDestroyed

Spec == Init /\ [][Next]_vars

\* The thread runs, callbacks return, and epoll reports every ready descriptor
\* in turn: with maxevents = 1 a level-triggered descriptor that was reported
\* goes to the end of the ready list, so stopfd is not starved by datafd.
\* Nothing obliges the application or the device to do anything.
Fairness ==
  /\ WF_vars(EpollTimesOut)
  /\ WF_vars(OpenReturns)
  /\ WF_vars(EpollAdds \/ EpollAddFails)
  /\ WF_vars(UndoOpenReturns)
  /\ WF_vars(ReadReturns)
  /\ WF_vars(OnDataReturns)
  /\ WF_vars(EpollDeletes \/ EpollDelFails)
  /\ WF_vars(CloseReturns)
  /\ WF_vars(DeviceCloses)
  /\ SF_vars(EpollReportsStop)

FairSpec == Spec /\ Fairness
=============================================================================
