--------------------------- MODULE EventLoopProofs ---------------------------
(***************************************************************************)
(* Proofs about module EventLoop, for every set of descriptors and every     *)
(* size of the eventfd counter: its type invariant, the safety invariants    *)
(* and action properties of EventLoopProps, and that it implements module    *)
(* CallbackContract.                                                        *)
(*                                                                         *)
(* InterestMatchesDatafd only speaks of the moments at which the loop thread *)
(* waits or does not run, so it is not inductive: LoopInv adds what is       *)
(* registered, what datafd is and what the timeout is at every other point.  *)
(***************************************************************************)
EXTENDS EventLoopProps, TLAPS

\* The points at which datafd is set and not registered with epoll, and those
\* at which it is not set.
Unwatched == {"epoll_add", "close"}
Detached == {"open", "undo_open"}

\* Without a loop there is nothing left of it.
NoLoop == life = "none" => interest = {} /\ stopCount = 0 /\ pc = "idle"

\* What epoll watches, at every point of the loop thread.
Registered ==
  life = "created" =>
    interest = {StopFd} \cup (IF pc \in Unwatched THEN {} ELSE {datafd} \ {NoFd})

\* Whether there is a datafd, at the points where the code takes it for granted.
DatafdByPoint ==
  /\ pc \in Detached => datafd = NoFd
  /\ pc \in Unwatched \cup {"read", "on_data", "epoll_del"} => datafd # NoFd

\* The wait has no timeout only with a datafd, and never while it is opened.
TimeoutByPoint ==
  /\ pc # "idle" /\ timeout = NoTimeout => datafd # NoFd
  /\ pc \in Detached \cup {"epoll_add"} => timeout = SetupTimeout

LoopInv ==
  /\ TypeOK
  /\ NoLoop
  /\ Registered
  /\ DatafdByPoint
  /\ TimeoutByPoint
  /\ DatafdIsOpen

-----------------------------------------------------------------------------
\* The initial state has the type and satisfies the inductive invariant.
LEMMA InitLoopInv == Init => LoopInv
  BY EventLoopAssumption
  DEF Init, LoopInv, TypeOK, NoLoop, Registered, DatafdByPoint, TimeoutByPoint,
      DatafdIsOpen, Unwatched, Detached, Locations, NoFd, SetupTimeout, NoTimeout

\* Every step of the loop, the application and the device preserves it.
LEMMA NextLoopInv == LoopInv /\ [Next]_vars => LoopInv'
<1>. SUFFICES ASSUME LoopInv, [Next]_vars PROVE LoopInv'
  OBVIOUS
<1>. USE EventLoopAssumption
  DEF LoopInv, TypeOK, NoLoop, Registered, DatafdByPoint, TimeoutByPoint,
      DatafdIsOpen, Unwatched, Detached, Locations, NoFd, SetupTimeout, NoTimeout
<1>1. CASE Create
  <2>1. life = "none" /\ pc' = "idle"
    BY <1>1 DEF Create
  <2>2. CASE life' = "created" /\ interest' = {StopFd} /\ datafd' = NoFd
    BY <1>1, <2>1, <2>2 DEF Create
  <2>3. CASE UNCHANGED <<life, interest, stopCount>>
    BY <1>1, <2>1, <2>3 DEF Create
  <2>. QED
    BY <1>1, <2>2, <2>3 DEF Create
<1>2. CASE Destroy
  BY <1>2 DEF Destroy
<1>3. CASE Run
  BY <1>3 DEF Run
<1>4. CASE Stop
  <2>1. stopCount' \in 0..StopMax
    BY <1>4 DEF Stop
  <2>. QED
    BY <1>4, <2>1 DEF Stop
<1>5. CASE EpollWaitFails
  BY <1>5 DEF EpollWaitFails, Return
<1>6. CASE EpollReportsStop
  BY <1>6 DEF EpollReportsStop, Return
<1>7. CASE EpollReportsStopError
  BY <1>7 DEF EpollReportsStopError, Return
<1>8. CASE LoopThread
  <2>1. CASE EpollTimesOut
    BY <2>1 DEF EpollTimesOut
  <2>2. CASE OpenReturns
    BY <2>2 DEF OpenReturns
  <2>3. CASE EpollAdds
    BY <2>3 DEF EpollAdds
  <2>4. CASE EpollAddFails
    BY <2>4 DEF EpollAddFails
  <2>5. CASE UndoOpenReturns
    BY <2>5 DEF UndoOpenReturns
  <2>6. ASSUME NEW events \in Events, EpollReportsData(events) PROVE LoopInv'
    BY <2>6 DEF EpollReportsData
  <2>7. CASE ReadReturns
    BY <2>7 DEF ReadReturns
  <2>8. CASE OnDataReturns
    BY <2>8 DEF OnDataReturns
  <2>9. CASE EpollDeletes
    BY <2>9 DEF EpollDeletes
  <2>10. CASE EpollDelFails
    BY <2>10 DEF EpollDelFails
  <2>11. CASE CloseReturns
    BY <2>11 DEF CloseReturns
  <2>. QED
    BY <1>8, <2>1, <2>2, <2>3, <2>4, <2>5, <2>6, <2>7, <2>8, <2>9, <2>10, <2>11
    DEF LoopThread
<1>9. ASSUME NEW fd \in DataFds, DeviceOpens(fd) PROVE LoopInv'
  BY <1>9 DEF DeviceOpens, loopVars
<1>10. CASE DeviceCloses
  BY <1>10 DEF DeviceCloses, loopVars
<1>11. CASE DeviceDestroyed
  BY <1>11 DEF DeviceDestroyed, loopVars
<1>12. CASE UNCHANGED vars
  BY <1>12 DEF vars
<1>. QED
  BY <1>1, <1>2, <1>3, <1>4, <1>5, <1>6, <1>7, <1>8, <1>9, <1>10, <1>11, <1>12
  DEF Next

\* The inductive invariant holds in every reachable state.
THEOREM LoopInvariant == Spec => []LoopInv
  BY InitLoopInv, NextLoopInv, PTL DEF Spec

-----------------------------------------------------------------------------
\* Every variable of the event loop keeps its type.
THEOREM TypeCorrect == Spec => []TypeOK
<1>1. LoopInv => TypeOK
  BY DEF LoopInv
<1>. QED
  BY LoopInvariant, <1>1, PTL

\* The loop thread never waits without a timeout and without a watched datafd.
THEOREM NeverSleepsForGood == Spec => []SleepsOnlyWithDevice
<1>1. LoopInv => SleepsOnlyWithDevice
  BY EventLoopAssumption
  DEF LoopInv, TypeOK, NoLoop, Registered, TimeoutByPoint, SleepsOnlyWithDevice,
      Unwatched, NoFd
<1>. QED
  BY LoopInvariant, <1>1, PTL

\* Epoll watches stopfd and datafd, and nothing else.
THEOREM InterestIsExact == Spec => []InterestMatchesDatafd
<1>1. LoopInv => InterestMatchesDatafd
  BY DEF LoopInv, Registered, InterestMatchesDatafd, Unwatched
<1>. QED
  BY LoopInvariant, <1>1, PTL

\* loop->datafd is the descriptor the device has open.
THEOREM DatafdStaysOpen == Spec => []DatafdIsOpen
<1>1. LoopInv => DatafdIsOpen
  BY DEF LoopInv
<1>. QED
  BY LoopInvariant, <1>1, PTL

\* A stop request stays until the loop is destroyed, at every counter value up
\* to the largest: nothing between the request and the next run can undo it.
THEOREM StopNeverLost == Spec => StopIsSticky
<1>. DEFINE Sticky == life = "created" /\ stopCount > 0 =>
                        stopCount' > 0 \/ life' = "none"
<1>1. LoopInv /\ [Next]_vars => [Sticky]_vars
  <2>. SUFFICES ASSUME LoopInv, Next, life = "created", stopCount > 0
                PROVE  stopCount' > 0 \/ life' = "none"
    OBVIOUS
  <2>1. stopCount \in Nat
    BY EventLoopAssumption DEF LoopInv, TypeOK
  <2>2. CASE Create \/ Destroy \/ Run \/ Stop
    BY <2>1, <2>2 DEF Create, Destroy, Run, Stop
  <2>3. CASE ~(Create \/ Destroy \/ Run \/ Stop)
    <3>1. stopCount' = stopCount
      BY <2>3
      DEF Next, EpollWaitFails, EpollReportsStop, EpollReportsStopError,
          LoopThread, EpollTimesOut, OpenReturns, EpollAdds, EpollAddFails,
          UndoOpenReturns, EpollReportsData, ReadReturns, OnDataReturns,
          EpollDeletes, EpollDelFails, CloseReturns, DeviceOpens, DeviceCloses,
          DeviceDestroyed, loopVars
    <3>. QED
      BY <3>1
  <2>. QED
    BY <2>2, <2>3
<1>. QED
  BY LoopInvariant, <1>1, PTL DEF Spec, StopIsSticky

\* callbacks->close is only ever called for a descriptor that epoll no longer
\* watches.
THEOREM NeverClosesWatched == Spec => ClosedAfterUnwatched
<1>. DEFINE Unwatches == devfd # NoFd /\ devfd' = NoFd => devfd \notin interest
<1>1. LoopInv /\ [Next]_vars => [Unwatches]_vars
  <2>. SUFFICES ASSUME LoopInv, Next, devfd # NoFd, devfd' = NoFd
                PROVE  devfd \notin interest
    OBVIOUS
  <2>1. devfd \in DataFds /\ life \in {"none", "created"}
    BY DEF LoopInv, TypeOK
  <2>2. CASE DeviceCloses
    BY <2>1, <2>2, EventLoopAssumption
    DEF DeviceCloses, LoopInv, NoLoop, Registered, DatafdByPoint, Unwatched,
        Detached
  <2>3. CASE DeviceDestroyed
    BY <2>3 DEF DeviceDestroyed, LoopInv, NoLoop
  <2>4. CASE ~(DeviceCloses \/ DeviceDestroyed)
    <3>1. ASSUME NEW fd \in DataFds, DeviceOpens(fd) PROVE FALSE
      BY <3>1 DEF DeviceOpens
    <3>2. devfd' = devfd
      BY <2>4, <3>1
      DEF Next, Create, Destroy, Run, Stop, EpollWaitFails, EpollReportsStop,
          EpollReportsStopError, LoopThread, EpollTimesOut, OpenReturns,
          EpollAdds, EpollAddFails, UndoOpenReturns, EpollReportsData,
          ReadReturns, OnDataReturns, EpollDeletes, EpollDelFails, CloseReturns
    <3>. QED
      BY <3>2
  <2>. QED
    BY <2>2, <2>3, <2>4
<1>. QED
  BY LoopInvariant, <1>1, PTL DEF Spec, ClosedAfterUnwatched

-----------------------------------------------------------------------------
(* Progress: the part of StopEndsRun that needs no fairness.                *)

\* How many steps of loop and device are left, at most, before the loop thread
\* is back in epoll_wait, where it sees a stop.
StepsLeft ==
  CASE pc = "open" -> IF devfd = NoFd THEN 5 ELSE 4
    [] pc = "read" -> 4
    [] pc \in {"epoll_add", "epoll_del"} -> 3
    [] pc \in {"undo_open", "close"} -> IF devfd = NoFd THEN 1 ELSE 2
    [] pc = "on_data" -> 1
    [] pc \in {"idle", "epoll_wait"} -> 0

\* Outside of epoll_wait every step comes closer to it, but for a
\* udcinput_loop_stop, which leaves the loop thread where it is.
IterationsEnd ==
  [][pc \notin {"idle", "epoll_wait"} =>
       StepsLeft' < StepsLeft \/ (Stop /\ StepsLeft' = StepsLeft)]_vars

\* No iteration of udcinput_loop_run goes on for good: whichever of its system
\* calls and callbacks fail, it is back in epoll_wait after at most five steps.
THEOREM EveryIterationEnds == Spec => IterationsEnd
<1>. DEFINE Closer == pc \notin {"idle", "epoll_wait"} =>
                       StepsLeft' < StepsLeft \/ (Stop /\ StepsLeft' = StepsLeft)
<1>1. LoopInv /\ [Next]_vars => [Closer]_vars
  <2>. SUFFICES ASSUME LoopInv, Next, pc \notin {"idle", "epoll_wait"}
                PROVE  StepsLeft' < StepsLeft \/ (Stop /\ StepsLeft' = StepsLeft)
    OBVIOUS
  <2>0. life = "created" /\ pc \in Locations
    BY DEF LoopInv, TypeOK, NoLoop
  <2>. USE DEF StepsLeft, NoFd
  <2>1. CASE Stop
    BY <2>0, <2>1 DEF Stop
  <2>2. CASE OpenReturns
    BY <2>2 DEF OpenReturns
  <2>3. CASE EpollAdds
    BY <2>3 DEF EpollAdds
  <2>4. CASE EpollAddFails
    BY <2>4 DEF EpollAddFails
  <2>5. CASE UndoOpenReturns
    BY <2>5 DEF UndoOpenReturns
  <2>6. CASE ReadReturns
    BY <2>6 DEF ReadReturns
  <2>7. CASE OnDataReturns
    BY <2>7 DEF OnDataReturns
  <2>8. CASE EpollDeletes
    BY <2>8 DEF EpollDeletes
  <2>9. CASE EpollDelFails
    BY <2>9 DEF EpollDelFails
  <2>10. CASE CloseReturns
    BY <2>10 DEF CloseReturns
  <2>11. ASSUME NEW fd \in DataFds, DeviceOpens(fd)
         PROVE  StepsLeft' < StepsLeft
    BY <2>11, EventLoopAssumption DEF DeviceOpens, loopVars
  <2>12. CASE DeviceCloses
    BY <2>12 DEF DeviceCloses, loopVars
  <2>13. ~(\/ Create \/ Destroy \/ Run \/ EpollWaitFails \/ EpollReportsStop
           \/ EpollReportsStopError \/ EpollTimesOut \/ DeviceDestroyed
           \/ \E events \in Events : EpollReportsData(events))
    BY <2>0
    DEF Create, Destroy, Run, EpollWaitFails, EpollReportsStop,
        EpollReportsStopError, EpollTimesOut, DeviceDestroyed, EpollReportsData
  <2>. QED
    BY <2>1, <2>2, <2>3, <2>4, <2>5, <2>6, <2>7, <2>8, <2>9, <2>10, <2>11,
       <2>12, <2>13
    DEF Next, LoopThread
<1>. QED
  BY LoopInvariant, <1>1, PTL DEF Spec, IterationsEnd

-----------------------------------------------------------------------------
(* Refinement.                                                             *)

\* The loop's initial state is one of the contract.
LEMMA ContractInit == Init => Contract!Init
  BY DEF Init, Contract!Init, Callback, Attached, NoFd, Contract!NoFd

\* Every step of the loop is a step of the contract or changes nothing there.
LEMMA ContractNext ==
  LoopInv /\ LoopInv' /\ [Next]_vars => [Contract!Next]_(Contract!vars)
<1>. SUFFICES ASSUME LoopInv, LoopInv', [Next]_vars
              PROVE  [Contract!Next]_(Contract!vars)
  OBVIOUS
<1>. USE DEF Callback, Attached, NoFd, Contract!NoFd, Contract!vars
<1>1. CASE Create
  BY <1>1 DEF Create, LoopInv, NoLoop
<1>2. CASE Destroy
  BY <1>2 DEF Destroy, Contract!Next, Contract!Forget
<1>3. CASE Run
  BY <1>3 DEF Run, Contract!Next, Contract!Run
<1>4. CASE Stop
  BY <1>4 DEF Stop
<1>5. CASE EpollWaitFails \/ EpollReportsStop \/ EpollReportsStopError
  BY <1>5
  DEF EpollWaitFails, EpollReportsStop, EpollReportsStopError, Return,
      Contract!Next, Contract!RunReturns
<1>8. CASE LoopThread
  <2>. USE DEF LoopInv, TypeOK, NoLoop, DatafdByPoint, Unwatched, Detached
  <2>1. CASE EpollTimesOut
    BY <2>1 DEF EpollTimesOut, Contract!Next, Contract!Call
  <2>2. CASE OpenReturns
    BY <2>2 DEF OpenReturns, Contract!Next, Contract!OpenReturns
  <2>3. CASE EpollAdds
    BY <2>3 DEF EpollAdds
  <2>4. CASE EpollAddFails
    BY <2>4 DEF EpollAddFails, Contract!Next, Contract!Call
  <2>5. CASE UndoOpenReturns
    BY <2>5 DEF UndoOpenReturns, Contract!Next, Contract!CloseReturns
  <2>6. ASSUME NEW events \in Events, EpollReportsData(events)
        PROVE  [Contract!Next]_(Contract!vars)
    BY <2>6 DEF EpollReportsData
  <2>7. CASE ReadReturns
    BY <2>7 DEF ReadReturns, Contract!Next, Contract!Call
  <2>8. CASE OnDataReturns
    BY <2>8 DEF OnDataReturns, Contract!Next, Contract!OnDataReturns
  <2>9. CASE EpollDeletes
    BY <2>9 DEF EpollDeletes, Contract!Next, Contract!Call
  <2>10. CASE EpollDelFails
    BY <2>10 DEF EpollDelFails
  <2>11. CASE CloseReturns
    BY <2>11 DEF CloseReturns, Contract!Next, Contract!CloseReturns
  <2>. QED
    BY <1>8, <2>1, <2>2, <2>3, <2>4, <2>5, <2>6, <2>7, <2>8, <2>9, <2>10, <2>11
    DEF LoopThread
<1>9. ASSUME NEW fd \in DataFds, DeviceOpens(fd)
      PROVE  [Contract!Next]_(Contract!vars)
  BY <1>9 DEF DeviceOpens, loopVars, Contract!Next, Contract!DeviceOpens
<1>10. CASE DeviceCloses
  BY <1>10 DEF DeviceCloses, loopVars, Contract!Next, Contract!DeviceCloses
<1>11. CASE DeviceDestroyed
  BY <1>11
  DEF DeviceDestroyed, loopVars, LoopInv, NoLoop, Contract!Next,
      Contract!DeviceDestroyed
<1>12. CASE UNCHANGED vars
  BY <1>12 DEF vars
<1>. QED
  BY <1>1, <1>2, <1>3, <1>4, <1>5, <1>8, <1>9, <1>10, <1>11, <1>12 DEF Next

\* The event loop keeps the contract that its callbacks rely on.
THEOREM LoopKeepsContract == Spec => ImplementsContract
<1>. QED
  BY LoopInvariant, ContractInit, ContractNext, PTL
  DEF Spec, ImplementsContract, Contract!Spec
=============================================================================
