--------------------------- MODULE EventLoopProps ---------------------------
(***************************************************************************)
(* What the event loop of src/udcinput.c promises: invariants, action       *)
(* properties and liveness of module EventLoop, and the contract towards    *)
(* the callbacks (module CallbackContract) that it implements.              *)
(***************************************************************************)
EXTENDS EventLoop

\* Every variable has its type.
TypeOK ==
  /\ life \in {"none", "created"}
  /\ interest \subseteq DataFds \cup {StopFd}
  /\ stopCount \in 0..StopMax
  /\ datafd \in DataFds \cup {NoFd}
  /\ timeout \in {SetupTimeout, NoTimeout}
  /\ pc \in Locations
  /\ ret \in {"none", "ok", "error"}
  /\ devfd \in DataFds \cup {NoFd}

\* The loop thread only waits without a timeout when it holds a datafd that
\* epoll watches.  Otherwise nothing would ever make it call callbacks->open
\* again: the device would stay dead until the program restarts.
SleepsOnlyWithDevice ==
  pc = "epoll_wait" /\ timeout = NoTimeout => datafd \in interest

\* Whenever the loop thread waits or is not running, epoll watches exactly
\* stopfd and, if there is one, datafd: a forgotten EPOLL_CTL_DEL would leave a
\* descriptor in the set, a forgotten add would make the device deaf.
InterestMatchesDatafd ==
  life = "created" /\ pc \in {"idle", "epoll_wait"} =>
    interest = {StopFd} \cup ({datafd} \ {NoFd})

\* loop->datafd is always the descriptor the device has open, except while
\* callbacks->close is closing it: read and on_data never get a closed one.
DatafdIsOpen ==
  life = "created" /\ datafd # NoFd /\ pc # "close" => datafd = devfd

\* A stop that was requested stays requested until the loop is destroyed:
\* "We don't read from it, so the loop will return even if we were to poll it
\* again" (udcinput_loop_run), and a stop before the run is not lost.
StopIsSticky ==
  [][life = "created" /\ stopCount > 0 => stopCount' > 0 \/ life' = "none"]_vars

\* udcinput_loop_run hands an opened device back by callbacks->close before it
\* forgets the descriptor, and never calls close for a descriptor that epoll
\* still watches (an event of a reused number would be taken for datafd's).
ClosedAfterUnwatched ==
  [][devfd # NoFd /\ devfd' = NoFd => devfd \notin interest]_vars

\* After udcinput_loop_stop, udcinput_loop_run returns, however busy datafd is
\* and whichever callback was in progress.
StopEndsRun == stopCount > 0 /\ pc # "idle" ~> pc = "idle"

\* Without a datafd the loop keeps calling callbacks->open until the run ends:
\* after a device error too, the device is opened again.
KeepsTryingToOpen ==
  pc = "epoll_wait" /\ datafd = NoFd ~> pc \in {"open", "idle"}

-----------------------------------------------------------------------------
\* The loop implements the callback contract: the callback in progress, and
\* whether the loop owes the device a close, are functions of its state.
Callback ==
  CASE pc = "open" -> "open"
    [] pc = "on_data" -> "on_data"
    [] pc \in {"undo_open", "close"} -> "close"
    [] OTHER -> "none"

Attached ==
  life = "created" /\ (datafd # NoFd \/ pc = "undo_open")

Contract == INSTANCE CallbackContract WITH
  running <- pc # "idle",
  callback <- Callback,
  attached <- Attached,
  device <- devfd

\* Every behaviour of the loop is one the contract allows.
ImplementsContract == Contract!Spec
=============================================================================
