--------------------------- MODULE SwitchProProps ---------------------------
(***************************************************************************)
(* What the threads of the Switch Pro gamepad must preserve: invariants,     *)
(* action properties and liveness of module SwitchPro.                       *)
(***************************************************************************)
EXTENDS SwitchPro

ThreadPoints == {"idle", "lock", "write", "write_nonblock"}
CallbackPoints ==
  {"none", "open", "open_second", "set_nonblocking", "open_returns", "close",
   "close_returns", "answered", "rejected", "overflow", "write_usb",
   "write_subcmd", "on_data_returns"}

\* Every variable has its type.
TypeOK ==
  /\ alive \in BOOLEAN
  /\ mutex \in AppThreads \cup {Loop, Nobody}
  /\ fd \in Fds \cup {NoFd}
  /\ fdNonblock \in Fds \cup {NoFd}
  /\ files \in [Fds -> {"free", "app", "blocking", "nonblocking"}]
  /\ timer \in 0..(TimerMod - 1)
  /\ input \in States
  /\ tpc \in [AppThreads -> ThreadPoints]
  /\ targ \in [AppThreads -> States]
  /\ tret \in [AppThreads -> {"none", "done", "retry"}]
  /\ lpc \in CallbackPoints
  /\ lfd \in Fds \cup {NoFd}
  /\ lfd2 \in Fds \cup {NoFd}
  /\ lmsg \in Messages
  /\ endpoint \in Messages
  /\ accepted \in States
  /\ synced \in BOOLEAN

-----------------------------------------------------------------------------
(* Locking.                                                                *)

\* The points of the code between pthread_mutex_lock and _unlock.
Inside(t) ==
  IF t = Loop
    THEN lpc \in {"open_second", "set_nonblocking", "write_subcmd"}
    ELSE tpc[t] \in {"write", "write_nonblock"}

\* The mutex is locked exactly while its owner is in a critical section: no two
\* threads are in one together, and none of the early returns of set_state,
\* on_rumble_and_subcmd and switchpro_open leaves the mutex locked behind it,
\* after which every later call would hang.
MutexHeldOnlyInside ==
  \A t \in AppThreads \cup {Loop} : mutex = t <=> Inside(t)

-----------------------------------------------------------------------------
(* Descriptors.                                                            *)

HidgOpen == {f \in Fds : files[f] \in {"blocking", "nonblocking"}}

\* The descriptors of the HID device that the code still knows of.
Known ==
  CASE lpc = "open_second" -> {lfd}
    [] lpc = "set_nonblocking" -> {lfd, lfd2}
    [] alive /\ fd >= 0 -> {fd, fdNonblock}
    [] OTHER -> {}

\* Whatever fails half-way in open_hidg, and however often the device is opened
\* and closed, the process has exactly the descriptors open that the code will
\* close: none leaks with every 500 ms retry, none is used after its close.
NoDescriptorLeaks == HidgOpen = Known

\* fd and fd_nonblock come and go together, are two descriptors, and only the
\* second one is non-blocking.  A write to the blocking descriptor can then not
\* answer EAGAIN ("BUG: blocking fd returned EAGAIN", set_state), and one to the
\* other cannot keep the mutex while the host is away.
DescriptorsHaveTheirMode ==
  alive /\ fd >= 0 =>
    /\ files[fd] = "blocking"
    /\ fdNonblock >= 0 /\ files[fdNonblock] = "nonblocking"

\* A response is written to a descriptor that is open, and blocking, although
\* on_usb_cmd takes no lock: nobody closes the device under a callback.
ResponsesHaveDescriptor ==
  lpc \in {"write_usb", "write_subcmd"} => lfd = fd /\ files[lfd] = "blocking"

\* The gamepad closes no descriptor that is not its own, with one exception:
\* udcinput_gamepad_switchpro_destroy closes descriptor 0 when the device was
\* never opened, because create leaves fd_nonblock zero.
OnlyZeroIsStolen ==
  [][\A f \in Fds : files[f] = "app" /\ files'[f] # "app" =>
       \/ AppCloses(f)
       \/ f = 0 /\ alive /\ fd < 0 /\ ~alive']_vars

\* The gamepad closes no descriptor of the application.  This is what the
\* guards "if (switchpro->fd_nonblock >= 0)" of destroy are for.
AppDescriptorsSurvive ==
  [][\A f \in Fds : files[f] = "app" /\ files'[f] # "app" => AppCloses(f)]_vars

-----------------------------------------------------------------------------
(* Reports.                                                                *)

\* Every report and subcommand response that reaches the device carries the
\* input state that is current at that moment, that of the last set_state to
\* have taken the mutex: the host never sees an older state after a newer one,
\* although two threads and the loop write through two descriptors.
ReportsCarryCurrentState ==
  [][endpoint' # NoMsg /\ endpoint' # endpoint /\ endpoint'.kind # "usb" =>
       endpoint'.input = input]_vars

\* A button that changed is never lost to a full endpoint: once the mutex is
\* free, the buttons the device took last are those of input_report, unless a
\* write failed or the host went away.  (A later call with the same buttons
\* would take them for unchanged and never insist on sending them.)
ButtonsDelivered ==
  synced /\ mutex = Nobody => accepted.buttons = input.buttons

\* A state that the device did not take, for no error, has made the last
\* set_state to return ask for a retry, or another call is under way.
NoSilentLoss ==
  synced /\ mutex = Nobody /\ accepted # input =>
    \E t \in AppThreads : tpc[t] # "idle" \/ tret[t] = "retry"

-----------------------------------------------------------------------------
(* The answers to output reports.                                          *)

AnswerStage ==
  CASE lpc \in {"answered", "rejected", "overflow"} -> lpc
    [] lpc = "write_usb" -> "usb"
    [] lpc = "write_subcmd" -> "counted"
    [] OTHER -> "idle"

AnswerWritten == lpc = "on_data_returns" /\ lmsg # NoMsg

Answers ==
  INSTANCE AnswerContract WITH stage <- AnswerStage, written <- AnswerWritten

\* Among the threads, too, an output report is handled as AnswerContract says:
\* no set_state counts the timer between a subcommand's count and its answer,
\* and a report that is rejected or not answered leaves the timer in step.
\* OutputReports, which knows the bytes and no threads, implements the same.
ImplementsAnswerContract == Answers!Spec

-----------------------------------------------------------------------------
(* Liveness.                                                               *)

\* As long as the host polls, every call of set_state returns: a writer that
\* waits for the host with the mutex locked does not hang the others.
CallsReturn == \A t \in AppThreads : tpc[t] # "idle" ~> tpc[t] = "idle"

\* And so does every callback, which the event loop relies on to see a stop.
CallbacksReturn == lpc # "none" ~> lpc = "none"

\* With an application that retries when it is told to, every state reaches
\* the device, is replaced by another, or meets an error.
StateArrives ==
  \A s \in States :
    synced /\ mutex = Nobody /\ input = s ~> accepted = s \/ input # s \/ ~synced
=============================================================================
