-------------------------- MODULE CallbackContract --------------------------
(***************************************************************************)
(* What the implementer of struct udcinput_loop_callbacks                   *)
(* (include/udcinput.h) may rely on, whatever the loop does inside:         *)
(*   - callbacks are called one at a time, and only inside a run;           *)
(*   - on_data and close are called only after an open that returned a      *)
(*     descriptor, and not after the close that followed it;                *)
(*   - open is not called again before that close;                          *)
(*   - a run never ends inside a callback;                                  *)
(*   - a destroyed loop forgets the device without closing it, so that      *)
(*     another loop's open may find it open.                                *)
(***************************************************************************)
EXTENDS Integers

CONSTANT DataFds   \* the descriptors open may return

NoFd == -1

VARIABLES
  running,    \* a thread is in udcinput_loop_run
  callback,   \* the callback in progress: "none", "open", "on_data", "close"
  attached,   \* the last open returned a descriptor and close is still owed
  device      \* the descriptor the device has open

vars == <<running, callback, attached, device>>

Init ==
  /\ ~running
  /\ callback = "none"
  /\ ~attached
  /\ device = NoFd

Run ==
  /\ ~running
  /\ running'
  /\ UNCHANGED <<callback, attached, device>>

RunReturns ==
  /\ running
  /\ callback = "none"
  /\ ~running'
  /\ UNCHANGED <<callback, attached, device>>

\* udcinput_loop_destroy, with the device attached.
Forget ==
  /\ ~running
  /\ attached
  /\ ~attached'
  /\ UNCHANGED <<running, callback, device>>

Call(name) ==
  /\ running
  /\ callback = "none"
  /\ attached <=> name # "open"
  /\ callback' = name
  /\ UNCHANGED <<running, attached, device>>

DeviceOpens(fd) ==
  /\ callback = "open"
  /\ device = NoFd
  /\ device' = fd
  /\ UNCHANGED <<running, callback, attached>>

OpenReturns ==
  /\ callback = "open"
  /\ callback' = "none"
  /\ attached' = (device # NoFd)
  /\ UNCHANGED <<running, device>>

OnDataReturns ==
  /\ callback = "on_data"
  /\ callback' = "none"
  /\ UNCHANGED <<running, attached, device>>

DeviceCloses ==
  /\ callback = "close"
  /\ device # NoFd
  /\ device' = NoFd
  /\ UNCHANGED <<running, callback, attached>>

\* The owner of the device destroys it.
DeviceDestroyed ==
  /\ ~running
  /\ ~attached
  /\ device # NoFd
  /\ device' = NoFd
  /\ UNCHANGED <<running, callback, attached>>

CloseReturns ==
  /\ callback = "close"
  /\ device = NoFd
  /\ callback' = "none"
  /\ ~attached'
  /\ UNCHANGED <<running, device>>

Next ==
  \/ Run
  \/ RunReturns
  \/ Forget
  \/ \E name \in {"open", "on_data", "close"} : Call(name)
  \/ \E fd \in DataFds : DeviceOpens(fd)
  \/ OpenReturns
  \/ OnDataReturns
  \/ DeviceCloses
  \/ DeviceDestroyed
  \/ CloseReturns

Spec == Init /\ [][Next]_vars
=============================================================================
