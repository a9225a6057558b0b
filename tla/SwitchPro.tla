------------------------------ MODULE SwitchPro ------------------------------
(***************************************************************************)
(* The run-time part of src/gamepads/switchpro.c: the state shared by the   *)
(* threads that call udcinput_gamepad_switchpro_set_state and the loop      *)
(* thread that runs the callbacks open, close and on_data.                  *)
(*                                                                         *)
(* A mutex guards the two descriptors of the HID device and input_report.   *)
(* set_state keeps the mutex while it writes: on the blocking descriptor    *)
(* when a button changed, else on the non-blocking one.  Responses to       *)
(* subcommands carry a copy of input_report and are written under the       *)
(* mutex too; responses to USB commands carry no input and take no mutex.   *)
(*                                                                         *)
(* The HID function of the kernel holds at most one report that the USB     *)
(* host has not polled yet: meanwhile a blocking write waits and a          *)
(* non-blocking one fails with EAGAIN.  Any write may fail otherwise.       *)
(***************************************************************************)
EXTENDS Integers

CONSTANTS
  AppThreads,   \* the threads that call set_state
  Loop,         \* the loop thread
  Nobody,       \* the owner of an unlocked mutex
  MaxFd,        \* the largest descriptor number of the process
  AppFds,       \* descriptors the application may have for itself (stdin, ...)
  Buttons,      \* values of the button bytes, input_report[3..5]
  Sticks,       \* values of the stick bytes, input_report[6..11]
  Released,     \* button bytes with nothing pressed
  Centered,     \* stick bytes with both sticks centered
  TimerMod,     \* input_report[1] counts modulo 256
  MsgClasses    \* the classes of output reports the host sends

\* What on_output_report does with a report, from its bytes and its length:
\* "silent": no answer and no lock (rumble, unknown ids, too short, ...);
\* "usb": answered by on_usb_cmd; "answered": a subcommand that is answered;
\* "rejected": a subcommand found too short or out of bounds under the lock;
\* "overflow": a flash read whose answer does not fit in 64 bytes.
AllMsgClasses == {"silent", "usb", "answered", "rejected", "overflow"}

ASSUME SwitchProAssumption ==
  /\ Loop \notin AppThreads
  /\ Nobody \notin AppThreads \cup {Loop}
  /\ MaxFd \in Nat
  /\ AppFds \subseteq 0..MaxFd
  /\ Released \in Buttons
  /\ Centered \in Sticks
  /\ TimerMod \in Nat \ {0}
  /\ MsgClasses \subseteq AllMsgClasses

NoFd == -1
Fds == 0..MaxFd
States == [buttons : Buttons, sticks : Sticks]
Neutral == [buttons |-> Released, sticks |-> Centered]

VARIABLES
  alive,       \* between udcinput_gamepad_switchpro_create and _destroy
  mutex,       \* the thread that holds switchpro->mutex
  fd,          \* switchpro->fd
  fdNonblock,  \* switchpro->fd_nonblock
  files,       \* the process's descriptor table
  timer,       \* input_report[1]
  input,       \* input_report[3..11]
  tpc,         \* where each application thread is in set_state
  targ,        \* the state of its current or last call
  tret,        \* the result of its last call: "none", "done" or "retry"
  lpc,         \* where the loop thread is in a callback
  lfd,         \* its local descriptor: fd of on_data, fd of open_hidg
  lfd2,        \* its local fd_nonblock of open_hidg
  lmsg,        \* the response or the class of output report it handles
  endpoint,    \* the report the host has not polled yet
  accepted,    \* history: the input state of the last report the device took
  synced       \* history: it took one since the last open, error or disconnect

fdVars == <<fd, fdNonblock, files>>
appVars == <<tpc, targ, tret>>
cbLocals == <<lfd, lfd2, lmsg>>
cbVars == <<lpc, cbLocals>>
reportVars == <<timer, input>>
deviceVars == <<endpoint, accepted, synced>>
vars == <<alive, mutex, fdVars, reportVars, appVars, cbVars, deviceVars>>

NoMsg == [kind |-> "none"]
Report == [kind |-> "input", timer |-> timer, input |-> input]
SubcmdResponse == [kind |-> "subcmd", timer |-> timer, input |-> input]
UsbResponse == [kind |-> "usb"]
Messages ==
  [kind : {"input", "subcmd"}, timer : 0..(TimerMod - 1), input : States]
    \cup {NoMsg, UsbResponse}

Init ==
  /\ alive = FALSE
  /\ mutex = Nobody
  /\ fd = NoFd
  /\ fdNonblock = NoFd
  /\ files = [f \in Fds |-> "free"]
  /\ timer = 0
  /\ input = Neutral
  /\ tpc = [t \in AppThreads |-> "idle"]
  /\ targ = [t \in AppThreads |-> Neutral]
  /\ tret = [t \in AppThreads |-> "none"]
  /\ lpc = "none"
  /\ lfd = NoFd
  /\ lfd2 = NoFd
  /\ lmsg = NoMsg
  /\ endpoint = NoMsg
  /\ accepted = Neutral
  /\ synced = FALSE

-----------------------------------------------------------------------------
(* The descriptor table.                                                   *)

\* open() returns the lowest free number.
IsLowestFree(f) ==
  /\ files[f] = "free"
  /\ \A g \in Fds : files[g] = "free" => f <= g

Closed(table, f) == [table EXCEPT ![f] = "free"]

\* The rest of the process opens and closes descriptors of its own, so that
\* a number the gamepad has closed may come back as somebody else's.
AppOpens(f) ==
  /\ f \in AppFds
  /\ IsLowestFree(f)
  /\ files' = [files EXCEPT ![f] = "app"]
  /\ UNCHANGED <<alive, mutex, fd, fdNonblock, reportVars, appVars, cbVars,
                 deviceVars>>

AppCloses(f) ==
  /\ files[f] = "app"
  /\ files' = Closed(files, f)
  /\ UNCHANGED <<alive, mutex, fd, fdNonblock, reportVars, appVars, cbVars,
                 deviceVars>>

-----------------------------------------------------------------------------
(* Creation and destruction, while no thread uses the gamepad.             *)

Quiescent ==
  /\ lpc = "none"
  /\ \A t \in AppThreads : tpc[t] = "idle"

\* udcinput_gamepad_switchpro_create: the designated initializer names fd and
\* not fd_nonblock, which is therefore zero.
Create ==
  /\ ~alive
  /\ Quiescent
  /\ alive' = TRUE
  /\ fd' = NoFd
  /\ fdNonblock' = 0
  /\ timer' = 0
  /\ input' = Neutral
  /\ accepted' = Neutral
  /\ synced' = FALSE
  /\ UNCHANGED <<mutex, files, appVars, cbVars, endpoint>>

\* The descriptors udcinput_gamepad_switchpro_destroy closes.
ClosedByDestroy == {f \in {fd, fdNonblock} : f >= 0}

\* udcinput_gamepad_switchpro_destroy.  The fields keep their values.
Destroy ==
  /\ alive
  /\ Quiescent
  /\ alive' = FALSE
  /\ files' = [f \in Fds |-> IF f \in ClosedByDestroy THEN "free" ELSE files[f]]
  /\ endpoint' = NoMsg
  /\ synced' = FALSE
  /\ UNCHANGED <<mutex, fd, fdNonblock, reportVars, appVars, cbVars, accepted>>

-----------------------------------------------------------------------------
(* How set_state writes and returns.                                       *)

\* The end of set_state: the mutex is unlocked and the result returned.
SetStateReturns(t, result) ==
  /\ tpc' = [tpc EXCEPT ![t] = "idle"]
  /\ tret' = [tret EXCEPT ![t] = result]
  /\ mutex' = Nobody
  /\ UNCHANGED <<alive, fdVars, reportVars, targ, cbVars>>

\* The descriptor a thread writes to.
WriteFd(t) == IF tpc[t] = "write" THEN fd ELSE fdNonblock

-----------------------------------------------------------------------------
(* Faulty variants of the actions below, each a plausible slip in the code.   *)
(* They are no part of the specification: they show that the properties of    *)
(* SwitchProProps and GamepadSystem can tell such a program from this one.    *)

\* The early return without pthread_mutex_unlock.
SetStateWithoutDeviceLocked(t) ==
  /\ tpc[t] = "lock"
  /\ mutex = Nobody
  /\ fd < 0
  /\ mutex' = t
  /\ tpc' = [tpc EXCEPT ![t] = "idle"]
  /\ tret' = [tret EXCEPT ![t] = "done"]
  /\ UNCHANGED <<alive, fdVars, reportVars, targ, cbVars, deviceVars>>

\* A timer wider than its byte.
SetStateLocksWideTimer(t) ==
  /\ tpc[t] = "lock"
  /\ mutex = Nobody
  /\ fd >= 0
  /\ mutex' = t
  /\ timer' = timer + 1
  /\ input' = targ[t]
  /\ tpc' = [tpc EXCEPT ![t] = "write"]
  /\ UNCHANGED <<alive, fdVars, targ, tret, cbVars, deviceVars>>

\* buttons_changed computed after the memcpy.
SetStateLocksThenCompares(t) ==
  /\ tpc[t] = "lock"
  /\ mutex = Nobody
  /\ fd >= 0
  /\ mutex' = t
  /\ timer' = (timer + 1) % TimerMod
  /\ input' = targ[t]
  /\ tpc' = [tpc EXCEPT ![t] = "write_nonblock"]
  /\ UNCHANGED <<alive, fdVars, targ, tret, cbVars, deviceVars>>

\* A shortcut for a state that input_report has already: no write.
SetStateLocksUnlessSame(t) ==
  /\ tpc[t] = "lock"
  /\ mutex = Nobody
  /\ fd >= 0
  /\ input' = targ[t]
  /\ IF targ[t] = input
       THEN SetStateReturns(t, "done")
       ELSE /\ mutex' = t
            /\ timer' = (timer + 1) % TimerMod
            /\ tpc' = [tpc EXCEPT ![t] = IF targ[t].buttons # input.buttons
                                           THEN "write" ELSE "write_nonblock"]
            /\ UNCHANGED <<alive, fdVars, targ, tret, cbVars>>
  /\ UNCHANGED deviceVars

\* EAGAIN of the non-blocking write is not told to the caller.
SetStateWouldBlockSilently(t) ==
  /\ tpc[t] \in {"write", "write_nonblock"}
  /\ endpoint # NoMsg
  /\ files[WriteFd(t)] = "nonblocking"
  /\ SetStateReturns(t, "done")
  /\ UNCHANGED deviceVars

\* A failed write makes set_state close the device itself.
SetStateWriteFailsAndCloses(t) ==
  /\ tpc[t] \in {"write", "write_nonblock"}
  /\ synced' = FALSE
  /\ tpc' = [tpc EXCEPT ![t] = "idle"]
  /\ tret' = [tret EXCEPT ![t] = "done"]
  /\ mutex' = Nobody
  /\ fd' = NoFd
  /\ fdNonblock' = NoFd
  /\ files' = Closed(Closed(files, fd), fdNonblock)
  /\ UNCHANGED <<alive, reportVars, targ, cbVars, endpoint, accepted>>

\* A return from switchpro_open without pthread_mutex_unlock.
OpenFirstFailsLocked ==
  /\ lpc = "open"
  /\ mutex = Nobody
  /\ fd < 0
  /\ mutex' = Loop
  /\ lpc' = "open_returns"
  /\ UNCHANGED <<alive, fdVars, reportVars, appVars, cbLocals, deviceVars>>

\* open_hidg without close(fd) when the second open fails.
OpenSecondFailsLeaking ==
  /\ lpc = "open_second"
  /\ mutex' = Nobody
  /\ lpc' = "open_returns"
  /\ UNCHANGED <<alive, fdVars, reportVars, appVars, cbLocals, deviceVars>>

\* The two descriptors swapped when they are published.
SetNonblockingSwapped ==
  /\ lpc = "set_nonblocking"
  /\ files' = [files EXCEPT ![lfd2] = "nonblocking"]
  /\ fd' = lfd2
  /\ fdNonblock' = lfd
  /\ mutex' = Nobody
  /\ lpc' = "open_returns"
  /\ UNCHANGED <<alive, reportVars, appVars, cbLocals, deviceVars>>

\* switchpro_close without fd_nonblock = -1.
CloseBothKeepingNonblock ==
  /\ lpc = "close"
  /\ mutex = Nobody
  /\ files' = [f \in Fds |-> IF f \in {fd, fdNonblock} THEN "free" ELSE files[f]]
  /\ fd' = NoFd
  /\ synced' = FALSE
  /\ lpc' = "close_returns"
  /\ UNCHANGED <<alive, mutex, fdNonblock, reportVars, appVars, cbLocals,
                 endpoint, accepted>>

\* The response is encoded under the mutex and written after the unlock.
SubcmdLocksThenUnlocks ==
  /\ lpc = "answered"
  /\ mutex = Nobody
  /\ lmsg' = SubcmdResponse
  /\ timer' = (timer + 1) % TimerMod
  /\ lpc' = "write_subcmd"
  /\ UNCHANGED <<alive, mutex, fdVars, input, appVars, lfd, lfd2, deviceVars>>

-----------------------------------------------------------------------------
(* udcinput_gamepad_switchpro_set_state.                                   *)

\* The call: the nine bytes are computed before the mutex is taken.
SetState(t, state) ==
  /\ alive
  /\ tpc[t] = "idle"
  /\ tpc' = [tpc EXCEPT ![t] = "lock"]
  /\ targ' = [targ EXCEPT ![t] = state]
  /\ tret' = [tret EXCEPT ![t] = "none"]
  /\ UNCHANGED <<alive, mutex, fdVars, reportVars, cbVars, deviceVars>>

\* Mutex taken, no device: unlock and return false.
SetStateWithoutDevice(t) ==
  /\ tpc[t] = "lock"
  /\ mutex = Nobody
  /\ fd < 0
  /\ tpc' = [tpc EXCEPT ![t] = "idle"]
  /\ tret' = [tret EXCEPT ![t] = "done"]
  /\ UNCHANGED <<alive, mutex, fdVars, reportVars, targ, cbVars, deviceVars>>

\* Mutex taken: input_report is updated and the descriptor chosen.
SetStateLocks(t) ==
  /\ tpc[t] = "lock"
  /\ mutex = Nobody
  /\ fd >= 0
  /\ mutex' = t
  /\ timer' = (timer + 1) % TimerMod
  /\ input' = targ[t]
  /\ tpc' = [tpc EXCEPT ![t] = IF targ[t].buttons # input.buttons
                                 THEN "write" ELSE "write_nonblock"]
  /\ UNCHANGED <<alive, fdVars, targ, tret, cbVars, deviceVars>>

\* The device takes the report, reading input_report at this moment.
SetStateWrites(t) ==
  /\ tpc[t] \in {"write", "write_nonblock"}
  /\ endpoint = NoMsg
  /\ endpoint' = Report
  /\ accepted' = input
  /\ synced' = TRUE
  /\ SetStateReturns(t, "done")

\* A non-blocking descriptor and an endpoint that is still full: EAGAIN.  On
\* the blocking path the code only logs "BUG: blocking fd returned EAGAIN".
SetStateWouldBlock(t) ==
  /\ tpc[t] \in {"write", "write_nonblock"}
  /\ endpoint # NoMsg
  /\ files[WriteFd(t)] = "nonblocking"
  /\ SetStateReturns(t, IF tpc[t] = "write" THEN "done" ELSE "retry")
  /\ UNCHANGED deviceVars

\* The write fails in another way (ESHUTDOWN, EINTR, ...), which set_state
\* does not report to its caller.
SetStateWriteFails(t) ==
  /\ tpc[t] \in {"write", "write_nonblock"}
  /\ synced' = FALSE
  /\ SetStateReturns(t, "done")
  /\ UNCHANGED <<endpoint, accepted>>

-----------------------------------------------------------------------------
(* switchpro_open, called by the loop thread, and open_hidg under the mutex *)

CallOpen ==
  /\ alive
  /\ lpc = "none"
  /\ lpc' = "open"
  /\ UNCHANGED <<alive, mutex, fdVars, reportVars, appVars, cbLocals,
                 deviceVars>>

\* The device is open already.
OpenFindsOpen ==
  /\ lpc = "open"
  /\ mutex = Nobody
  /\ fd >= 0
  /\ lpc' = "open_returns"
  /\ UNCHANGED <<alive, mutex, fdVars, reportVars, appVars, cbLocals,
                 deviceVars>>

\* The first udcinput_hidg_open succeeds.
OpenFirst(f) ==
  /\ lpc = "open"
  /\ mutex = Nobody
  /\ fd < 0
  /\ IsLowestFree(f)
  /\ mutex' = Loop
  /\ files' = [files EXCEPT ![f] = "blocking"]
  /\ lfd' = f
  /\ lpc' = "open_second"
  /\ UNCHANGED <<alive, fd, fdNonblock, reportVars, appVars, lfd2, lmsg,
                 deviceVars>>

OpenFirstFails ==
  /\ lpc = "open"
  /\ mutex = Nobody
  /\ fd < 0
  /\ lpc' = "open_returns"
  /\ UNCHANGED <<alive, mutex, fdVars, reportVars, appVars, cbLocals,
                 deviceVars>>

\* The second one succeeds: another open file description of the device.
OpenSecond(f) ==
  /\ lpc = "open_second"
  /\ IsLowestFree(f)
  /\ files' = [files EXCEPT ![f] = "blocking"]
  /\ lfd2' = f
  /\ lpc' = "set_nonblocking"
  /\ UNCHANGED <<alive, mutex, fd, fdNonblock, reportVars, appVars, lfd, lmsg,
                 deviceVars>>

OpenSecondFails ==
  /\ lpc = "open_second"
  /\ files' = Closed(files, lfd)
  /\ mutex' = Nobody
  /\ lpc' = "open_returns"
  /\ UNCHANGED <<alive, fd, fdNonblock, reportVars, appVars, cbLocals,
                 deviceVars>>

\* udcinput_set_nonblocking sets the flag of the second description; both
\* descriptors are published and the mutex is unlocked.
SetNonblocking ==
  /\ lpc = "set_nonblocking"
  /\ files' = [files EXCEPT ![lfd2] = "nonblocking"]
  /\ fd' = lfd
  /\ fdNonblock' = lfd2
  /\ mutex' = Nobody
  /\ lpc' = "open_returns"
  /\ UNCHANGED <<alive, reportVars, appVars, cbLocals, deviceVars>>

SetNonblockingFails ==
  /\ lpc = "set_nonblocking"
  /\ files' = Closed(Closed(files, lfd2), lfd)
  /\ mutex' = Nobody
  /\ lpc' = "open_returns"
  /\ UNCHANGED <<alive, fd, fdNonblock, reportVars, appVars, cbLocals,
                 deviceVars>>

\* switchpro_open returns switchpro->fd, read after the unlock.
OpenReturns ==
  /\ lpc = "open_returns"
  /\ lpc' = "none"
  /\ lfd' = NoFd
  /\ lfd2' = NoFd
  /\ UNCHANGED <<alive, mutex, fdVars, reportVars, appVars, lmsg, deviceVars>>

-----------------------------------------------------------------------------
(* switchpro_close.                                                        *)

CallClose ==
  /\ alive
  /\ lpc = "none"
  /\ lpc' = "close"
  /\ UNCHANGED <<alive, mutex, fdVars, reportVars, appVars, cbLocals,
                 deviceVars>>

\* Both descriptors are closed under the mutex.  A report the host has not
\* polled stays pending: it belongs to the kernel's function.
CloseBoth ==
  /\ lpc = "close"
  /\ mutex = Nobody
  /\ files' = [f \in Fds |-> IF f \in {fd, fdNonblock} THEN "free" ELSE files[f]]
  /\ fd' = NoFd
  /\ fdNonblock' = NoFd
  /\ synced' = FALSE
  /\ lpc' = "close_returns"
  /\ UNCHANGED <<alive, mutex, reportVars, appVars, cbLocals, endpoint,
                 accepted>>

CloseReturns ==
  /\ lpc = "close_returns"
  /\ lpc' = "none"
  /\ UNCHANGED <<alive, mutex, fdVars, reportVars, appVars, cbLocals,
                 deviceVars>>

-----------------------------------------------------------------------------
(* on_output_report, called by the loop thread with the descriptor it read. *)

CallOnData(f, class) ==
  /\ alive
  /\ lpc = "none"
  /\ lfd' = f
  /\ lpc' = CASE class = "silent" -> "on_data_returns"
              [] class = "usb" -> "write_usb"
              [] OTHER -> class
  /\ lmsg' = IF class = "usb" THEN UsbResponse ELSE NoMsg
  /\ UNCHANGED <<alive, mutex, fdVars, reportVars, appVars, lfd2, deviceVars>>

\* on_rumble_and_subcmd takes the mutex; encode_subcmd_response_header copies
\* the input state with the old timer and increments the timer.
SubcmdLocks ==
  /\ lpc = "answered"
  /\ mutex = Nobody
  /\ mutex' = Loop
  /\ lmsg' = SubcmdResponse
  /\ timer' = (timer + 1) % TimerMod
  /\ lpc' = "write_subcmd"
  /\ UNCHANGED <<alive, fdVars, input, appVars, lfd, lfd2, deviceVars>>

\* A parameter is missing or the flash range is out of bounds: unlock, return.
SubcmdRejected ==
  /\ lpc = "rejected"
  /\ mutex = Nobody
  /\ lpc' = "on_data_returns"
  /\ UNCHANGED <<alive, mutex, fdVars, reportVars, appVars, cbLocals,
                 deviceVars>>

\* The answer does not fit: unlock, return; the timer was incremented.
SubcmdOverflows ==
  /\ lpc = "overflow"
  /\ mutex = Nobody
  /\ timer' = (timer + 1) % TimerMod
  /\ lpc' = "on_data_returns"
  /\ UNCHANGED <<alive, mutex, fdVars, input, appVars, cbLocals, deviceVars>>

\* A response has been written, or failed to be: on_output_report ignores the
\* result, unlocks the mutex if it holds it, and returns.
ResponseDone ==
  /\ mutex' = IF lpc = "write_subcmd" THEN Nobody ELSE mutex
  /\ lpc' = "on_data_returns"
  /\ UNCHANGED <<alive, fdVars, reportVars, appVars, cbLocals>>

ResponseWrites ==
  /\ lpc \in {"write_usb", "write_subcmd"}
  /\ endpoint = NoMsg
  /\ endpoint' = lmsg
  /\ IF lpc = "write_subcmd"
       THEN accepted' = lmsg.input /\ synced' = TRUE
       ELSE UNCHANGED <<accepted, synced>>
  /\ ResponseDone

\* Either way of failing is ignored: EAGAIN, were the descriptor non-blocking,
\* or an error.
ResponseFails ==
  /\ lpc \in {"write_usb", "write_subcmd"}
  /\ ResponseDone
  /\ UNCHANGED deviceVars

OnDataReturns ==
  /\ lpc = "on_data_returns"
  /\ lpc' = "none"
  /\ lfd' = NoFd
  /\ lmsg' = NoMsg
  /\ UNCHANGED <<alive, mutex, fdVars, reportVars, appVars, lfd2, deviceVars>>

-----------------------------------------------------------------------------
(* The USB host.                                                           *)

\* The host polls the pending report.
HostPolls ==
  /\ endpoint # NoMsg
  /\ endpoint' = NoMsg
  /\ UNCHANGED <<alive, mutex, fdVars, reportVars, appVars, cbVars, accepted,
                 synced>>

\* The host goes away or resets the device: the pending report is dropped, and
\* the host forgets what it was told.
HostDisconnects ==
  /\ endpoint # NoMsg \/ synced
  /\ endpoint' = NoMsg
  /\ synced' = FALSE
  /\ UNCHANGED <<alive, mutex, fdVars, reportVars, appVars, cbVars, accepted>>

-----------------------------------------------------------------------------
SetStateStep(t) ==
  \/ SetStateWithoutDevice(t)
  \/ SetStateLocks(t)
  \/ SetStateWrites(t)
  \/ SetStateWouldBlock(t)
  \/ SetStateWriteFails(t)

CallbackStep ==
  \/ OpenFindsOpen
  \/ \E f \in Fds : OpenFirst(f) \/ OpenSecond(f)
  \/ OpenFirstFails
  \/ OpenSecondFails
  \/ SetNonblocking
  \/ SetNonblockingFails
  \/ CloseBoth
  \/ SubcmdLocks
  \/ SubcmdRejected
  \/ SubcmdOverflows
  \/ ResponseWrites
  \/ ResponseFails

CallbackReturns == OpenReturns \/ CloseReturns \/ OnDataReturns

\* Steps that need no loop.
OwnStep ==
  \/ Create
  \/ \E t \in AppThreads, state \in States : SetState(t, state)
  \/ \E t \in AppThreads : SetStateStep(t)
  \/ \E f \in Fds : AppOpens(f) \/ AppCloses(f)
  \/ CallbackStep
  \/ HostPolls
  \/ HostDisconnects

\* A loop that calls the callbacks as CallbackContract allows, or more freely:
\* close and on_data only while the device is open.
LoopCalls ==
  \/ CallOpen
  \/ fd >= 0 /\ CallClose
  \/ fd >= 0 /\ \E class \in MsgClasses : CallOnData(fd, class)

Next == OwnStep \/ Destroy \/ LoopCalls \/ CallbackReturns

Spec == Init /\ [][Next]_vars

-----------------------------------------------------------------------------
(* Fairness.  Threads run, the mutex is not withheld for ever from one that  *)
(* waits for it, the host polls, and of the writers that wait for the        *)
(* endpoint each gets it in the end.  No error is ever obliged to happen.    *)

LocksOrOpens ==
  \/ OpenFindsOpen
  \/ \E f \in Fds : OpenFirst(f) \/ OpenSecond(f)
  \/ OpenFirstFails
  \/ OpenSecondFails
  \/ SetNonblocking
  \/ CloseBoth
  \/ SubcmdLocks
  \/ SubcmdRejected
  \/ SubcmdOverflows

\* The application calls again with the same state when set_state asked for it.
Retry(t) == tret[t] = "retry" /\ SetState(t, targ[t])

ThreadFairness(t) ==
  /\ SF_vars(SetStateLocks(t) \/ SetStateWithoutDevice(t))
  /\ SF_vars(tpc[t] = "write" /\ SetStateWrites(t))
  /\ WF_vars(tpc[t] = "write_nonblock"
               /\ (SetStateWrites(t) \/ SetStateWouldBlock(t)))

Fairness ==
  /\ \A t \in AppThreads : ThreadFairness(t)
  /\ SF_vars(LocksOrOpens)
  /\ SF_vars(ResponseWrites)
  /\ WF_vars(CallbackReturns)
  /\ WF_vars(HostPolls)

FairSpec == Spec /\ Fairness

RetryingSpec == FairSpec /\ \A t \in AppThreads : WF_vars(Retry(t))
=============================================================================
