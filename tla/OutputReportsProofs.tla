-------------------------- MODULE OutputReportsProofs --------------------------
(***************************************************************************)
(* Proofs about module OutputReports, for a buffer, a flash and addresses of *)
(* any size and for any set of reports.                                     *)
(*                                                                         *)
(* Two things are needed beside the properties themselves.  A copy from the  *)
(* flash is only ever among the operations left when the report's range was  *)
(* found to be good.  And while the mutex is locked, what is left contains   *)
(* no switch that leads out of on_rumble_and_subcmd and ends with the unlock *)
(* or with the range check, after which comes either an unlocking return or  *)
(* an answer that ends with the unlock.                                     *)
(*                                                                         *)
(* What an answer contains, and that the handler keeps the contract, follows *)
(* the handler to its end and is proved for the buffer of 64 bytes that the  *)
(* code has: in AnswerInv, a handler either still takes its report apart     *)
(* (Reading, with the bytes that are gone) or is at the k-th operation of    *)
(* the report's answer (Answering, with the bytes that are filled in).       *)
(***************************************************************************)
EXTENDS OutputReportsProps, SequenceTheorems, TLAPS

NoFlash == {o \in Operations : o.field # "flash"}
Inside == {o \in Operations : o.op \notin {"report_id", "usb_cmd", "lock"}}
EndsInside(s) == s # <<>> /\ s[Len(s)].op \in {"unlock", "flash_range"}

FlashChecked ==
  todo \in Seq(NoFlash) \/ report.address + report.size <= FlashSize

UnlockAhead == locked => todo \in Seq(Inside) /\ EndsInside(todo)

ReportsInv == TypeOK /\ WindowInArray /\ FlashChecked /\ UnlockAhead

-----------------------------------------------------------------------------
(* Sequences of operations.                                                 *)

\* What is left of a sequence has its elements and its end.
LEMMA TailShape ==
  ASSUME NEW S, NEW s \in Seq(S), s # <<>>
  PROVE  /\ Tail(s) \in Seq(S)
         /\ Head(s) \in S
         /\ Head(s) = s[1]
         /\ Len(s) > 1 => Tail(s) # <<>> /\ Tail(s)[Len(Tail(s))] = s[Len(s)]
         /\ Len(s) \in Nat /\ Len(s) >= 1
<1>1. Len(s) \in Nat /\ Len(s) >= 1
  BY EmptySeq
<1>2. /\ Tail(s) \in Seq(S)
      /\ Head(s) \in S
      /\ Len(Tail(s)) = Len(s) - 1
      /\ \A i \in 1..Len(Tail(s)) : Tail(s)[i] = s[i + 1]
  BY HeadTailProperties
<1>3. Head(s) = s[1]
  OBVIOUS
<1>4. ASSUME Len(s) > 1
      PROVE  Tail(s) # <<>> /\ Tail(s)[Len(Tail(s))] = s[Len(s)]
  <2>1. Len(Tail(s)) \in 1..Len(Tail(s)) /\ Len(Tail(s)) + 1 = Len(s)
    BY <1>1, <1>2, <1>4
  <2>2. Tail(s)[Len(Tail(s))] = s[Len(Tail(s)) + 1]
    BY <1>2, <2>1
  <2>3. Len(<<>>) = 0
    BY EmptySeq
  <2>4. Tail(s) # <<>>
    <3> SUFFICES ASSUME Tail(s) = <<>> PROVE FALSE
      OBVIOUS
    <3>1. Len(Tail(s)) = Len(<<>>)
      BY Zenon
    <3>2. Len(Tail(s)) # 0
      BY <1>1, <1>2, <1>4
    <3>3. QED
      BY <2>3, <3>1, <3>2, Zenon
  <2>5. QED
    BY <2>1, <2>2, <2>4
<1>5. QED
  BY <1>1, <1>2, <1>3, <1>4

\* What follows the reset of an answer consists of operations on the buffer
\* and ends with the unlock.
LEMMA AnswerShape ==
  ASSUME NEW S, S \subseteq Inside, NEW body \in Seq(S),
         {Do("reset"), Add(1, "id"), Count, Add(11, "input"), Add(1, "ack"),
          Add(1, "cmd"), Resize(64), Do("write"), Do("unlock")} \subseteq S
  PROVE  SubcmdAnswer(body) \in Seq(S) /\ EndsInside(SubcmdAnswer(body))
<1>1. <<Do("reset")>> \in Seq(S) /\ Header \in Seq(S)
  BY DEF Header
<1>2. <<Resize(64), Do("write")>> \in Seq(S)
  OBVIOUS
<1>3. /\ Unlock \in Seq(S)
      /\ Len(Unlock) = 1
      /\ Unlock[1] = Do("unlock")
  BY DEF Unlock
<1> DEFINE front == <<Do("reset")>> \o Header \o body \o <<Resize(64), Do("write")>>
<1>4. front \in Seq(S)
  BY <1>1, <1>2
<1>5. SubcmdAnswer(body) = front \o Unlock
  BY <1>1, <1>2, <1>3 DEF SubcmdAnswer, Finish
<1> HIDE DEF front
<1>6. /\ front \o Unlock \in Seq(S)
      /\ Len(front \o Unlock) = Len(front) + 1
      /\ (front \o Unlock)[Len(front) + 1] = Do("unlock")
  <2>1. Len(front) \in Nat
    BY <1>4, LenProperties
  <2>2. /\ front \o Unlock \in Seq(S)
        /\ Len(front \o Unlock) = Len(front) + Len(Unlock)
        /\ \A i \in 1..(Len(front) + Len(Unlock)) :
             (front \o Unlock)[i] =
               IF i <= Len(front) THEN front[i] ELSE Unlock[i - Len(front)]
    BY <1>3, <1>4, ConcatProperties
  <2>3. (front \o Unlock)[Len(front) + 1] = Unlock[1]
    BY <1>3, <2>1, <2>2
  <2>4. QED
    BY <1>3, <2>2, <2>3
<1>7. front \o Unlock # <<>>
  BY <1>4, <1>6
<1>8. Do("unlock").op = "unlock"
  BY DEF Do
<1>9. QED
  BY <1>5, <1>6, <1>7, <1>8 DEF EndsInside

\* Every handler is made of operations, only the answer to a flash read copies
\* from the flash, and what runs with the mutex locked unlocks it.
LEMMA HandlerShapes ==
  ASSUME NEW r \in AllReports
  PROVE  /\ OnOutputReport \in Seq(NoFlash)
         /\ ReportHandler(r) \in Seq(NoFlash)
         /\ UsbHandler(r) \in Seq(NoFlash)
         /\ SubcmdHandler(r) \in Seq(NoFlash \cap Inside)
         /\ EndsInside(SubcmdHandler(r))
         /\ FlashAnswer(r) \in Seq(Inside)
         /\ EndsInside(FlashAnswer(r))
<1> DEFINE Common == NoFlash \cap Inside
<1>1. {Do("reset"), Add(1, "id"), Count, Add(11, "input"), Add(1, "ack"),
       Add(1, "cmd"), Resize(64), Do("write"), Do("unlock")} \subseteq Common
  BY DEF Do, Add, Count, Resize, NoFlash, Inside, Operations, Ops, Fields
<1>2. Common \subseteq Inside /\ Common \subseteq NoFlash
  OBVIOUS
<1>3. /\ Pull(1) \in Common /\ Pull(4) \in Common
      /\ Do("flash_range") \in Common
      /\ \A n \in Nat : Add(n, "value") \in Common
  BY DEF Pull, Do, Add, NoFlash, Inside, Operations, Ops, Fields
<1>4. Do("report_id") \in NoFlash /\ Do("usb_cmd") \in NoFlash /\ Do("lock") \in NoFlash
  BY DEF Do, NoFlash, Operations, Ops, Fields
<1>5. /\ Add(4, "address") \in Inside /\ Add(1, "size") \in Inside
      /\ Add(r.size, "flash") \in Inside
  BY OutputReportsAssumption DEF Add, Inside, Operations, Ops, Fields, AllReports
<1> HIDE DEF Common
<1>6. OnOutputReport \in Seq(NoFlash)
  BY <1>2, <1>3, <1>4 DEF OnOutputReport
<1>7. ReportHandler(r) \in Seq(NoFlash)
  BY <1>2, <1>3, <1>4 DEF ReportHandler
<1>8. UsbHandler(r) \in Seq(NoFlash)
  <2>1. Add(8, "value") \in NoFlash
    BY <1>2, <1>3
  <2>2. QED
    BY <1>1, <1>2, <2>1 DEF UsbHandler
<1>9. SubcmdHandler(r) \in Seq(Common) /\ EndsInside(SubcmdHandler(r))
  <2>0. <<>> \in Seq(Common)
    OBVIOUS
  <2>1. \A body \in Seq(Common) :
          SubcmdAnswer(body) \in Seq(Common) /\ EndsInside(SubcmdAnswer(body))
    BY <1>1, <1>2, AnswerShape
  <2>2. CASE r.cmd = "flash_read"
    <3>1. SubcmdHandler(r) = <<Pull(4), Pull(1), Do("flash_range")>>
      BY <2>2 DEF SubcmdHandler, FlashRead, WithOneParameter
    <3>2. Do("flash_range").op = "flash_range"
      BY DEF Do
    <3>3. QED
      BY <1>3, <3>1, <3>2 DEF EndsInside
  <2>3. CASE r.cmd \in WithOneParameter
    <3>1. SubcmdHandler(r) = <<Pull(1)>> \o SubcmdAnswer(<<>>)
      BY <2>3 DEF SubcmdHandler, WithOneParameter
    <3>2. SubcmdAnswer(<<>>) \in Seq(Common) /\ EndsInside(SubcmdAnswer(<<>>))
      BY <2>1, <2>0
    <3>3. <<Pull(1)>> \in Seq(Common)
      BY <1>3
    <3>4. QED
      BY <3>1, <3>2, <3>3 DEF EndsInside
  <2>4. CASE r.cmd = "req_devinfo"
    <3>1. SubcmdHandler(r) = SubcmdAnswer(Devinfo)
      BY <2>4 DEF SubcmdHandler, WithOneParameter
    <3>2. Devinfo \in Seq(Common)
      BY <1>3 DEF Devinfo
    <3>3. QED
      BY <2>1, <3>1, <3>2
  <2>5. CASE r.cmd \in {"manual_bt_pairing", "triggers_elapsed", "set_home_led"}
    <3>1. SubcmdHandler(r) = SubcmdAnswer(<<>>)
      BY <2>5 DEF SubcmdHandler, WithOneParameter
    <3>2. QED
      BY <2>0, <2>1, <3>1
  <2>6. CASE r.cmd \notin {"flash_read", "req_devinfo", "manual_bt_pairing",
                           "triggers_elapsed", "set_home_led"} \cup WithOneParameter
    <3>1. SubcmdHandler(r) = SubcmdAnswer(<<Add(1, "value")>>)
      BY <2>6 DEF SubcmdHandler
    <3>2. <<Add(1, "value")>> \in Seq(Common)
      BY <1>3
    <3>3. QED
      BY <2>1, <3>1, <3>2
  <2>7. QED
    BY <2>2, <2>3, <2>4, <2>5, <2>6
<1>10. FlashAnswer(r) \in Seq(Inside) /\ EndsInside(FlashAnswer(r))
  <2>1. <<Add(4, "address"), Add(1, "size"), Add(r.size, "flash")>> \in Seq(Inside)
    BY <1>5
  <2>2. QED
    BY <1>1, <1>2, <2>1, AnswerShape DEF FlashAnswer
<1>11. QED
  BY <1>6, <1>7, <1>8, <1>9, <1>10 DEF Common

-----------------------------------------------------------------------------
(* The inductive invariant.                                                 *)

LEMMA InitReportsInv == Init => ReportsInv
<1> SUFFICES ASSUME Init PROVE ReportsInv
  OBVIOUS
<1>1. TypeOK
  <2>1. report \in AllReports
    BY OutputReportsAssumption, BufAssumption
    DEF Init, NoReport, AllReports, ReportIds, UsbCmds, Subcmds
  <2>2. buf \in Buffer
    BY BufAssumption DEF Init, Buffer, Holding
  <2>3. array \in [0..(Capacity - 1) -> Fields]
    BY DEF Init, Fields
  <2>4. locked \in BOOLEAN /\ written \in BOOLEAN
    BY DEF Init
  <2>5. todo \in Seq(Operations) /\ timer \in 0..(TimerMod - 1)
    BY OutputReportsAssumption DEF Init
  <2>6. QED
    BY <2>1, <2>2, <2>3, <2>4, <2>5 DEF TypeOK
<1>2. WindowInArray
  BY BufAssumption DEF Init, WindowInArray, InArray, Holding
<1>3. FlashChecked /\ UnlockAhead
  BY DEF Init, FlashChecked, UnlockAhead
<1>4. QED
  BY <1>1, <1>2, <1>3 DEF ReportsInv

\* The timer stays within its byte.
LEMMA CountedType == timer \in 0..(TimerMod - 1) => Counted \in 0..(TimerMod - 1)
  BY OutputReportsAssumption DEF Counted

\* An array of fields stays one when some of them are set.
LEMMA SetType ==
  ASSUME array \in [0..(Capacity - 1) -> Fields], NEW field \in Fields,
         NEW from, NEW n
  PROVE  Set(from, n, field) \in [0..(Capacity - 1) -> Fields]
  BY DEF Set

\* What a step that takes the first operation away leaves of the invariant.
LEMMA StepsOn ==
  ASSUME ReportsInv, todo # <<>>, todo' = Tail(todo), report' = report,
         Head(todo).op \notin {"unlock", "flash_range"}, locked' = locked
  PROVE  /\ todo' \in Seq(Operations)
         /\ FlashChecked'
         /\ UnlockAhead'
<1> USE DEF ReportsInv, TypeOK
<1>1. todo' \in Seq(Operations)
  BY TailShape
<1>2. FlashChecked'
  <2>1. CASE todo \in Seq(NoFlash)
    BY <2>1, TailShape DEF FlashChecked
  <2>2. CASE report.address + report.size <= FlashSize
    BY <2>2 DEF FlashChecked
  <2>3. QED
    BY <2>1, <2>2 DEF FlashChecked
<1>3. UnlockAhead'
  <2> SUFFICES ASSUME locked PROVE todo' \in Seq(Inside) /\ EndsInside(todo')
    BY DEF UnlockAhead
  <2>1. todo \in Seq(Inside) /\ EndsInside(todo)
    BY DEF UnlockAhead
  <2>2. /\ Tail(todo) \in Seq(Inside)
        /\ Head(todo) = todo[1]
        /\ Len(todo) > 1 => Tail(todo) # <<>> /\ Tail(todo)[Len(Tail(todo))] = todo[Len(todo)]
        /\ Len(todo) \in Nat /\ Len(todo) >= 1
    BY <2>1, TailShape
  <2>3. Len(todo) > 1
    BY <2>1, <2>2 DEF EndsInside
  <2>4. QED
    BY <2>1, <2>2, <2>3 DEF EndsInside
<1>4. QED
  BY <1>1, <1>2, <1>3

\* What the first operation is when there is one.
LEMMA HeadIsOperation ==
  ASSUME TypeOK, todo # <<>>
  PROVE  /\ Head(todo).op \in Ops
         /\ Head(todo).n \in Nat
         /\ Head(todo).field \in Fields
<1>1. todo \in Seq(Operations)
  BY DEF TypeOK
<1>2. Head(todo) \in Operations
  BY <1>1, TailShape
<1>3. QED
  BY <1>2 DEF Operations

LEMMA NextReportsInv == ReportsInv /\ [Next]_vars => ReportsInv'
<1> SUFFICES ASSUME ReportsInv, [Next]_vars PROVE ReportsInv'
  OBVIOUS
<1> USE DEF ReportsInv
<1> USE BufAssumption, OutputReportsAssumption
<1>1. ASSUME NEW r \in Reports, Receive(r) PROVE ReportsInv'
  <2>1. r \in AllReports /\ r.len \in 0..Capacity
    BY DEF AllReports
  <2>2. OnOutputReport \in Seq(NoFlash) /\ NoFlash \subseteq Operations
    BY <2>1, HandlerShapes DEF NoFlash
  <2>3. TypeOK'
    <3>1. todo' \in Seq(Operations)
      BY <1>1, <2>2 DEF Receive
    <3>2. buf' \in Buffer
      BY <1>1, <2>1 DEF Receive, Buffer, Holding
    <3>3. array' \in [0..(Capacity - 1) -> Fields]
      BY <1>1 DEF Receive, Fields
    <3>4. written' \in BOOLEAN
      BY <1>1 DEF Receive
    <3>5. QED
      BY <1>1, <2>1, <3>1, <3>2, <3>3, <3>4 DEF Receive, TypeOK
  <2>4. WindowInArray'
    BY <1>1, <2>1 DEF Receive, WindowInArray, InArray, Holding
  <2>5. FlashChecked' /\ UnlockAhead'
    BY <1>1, <2>2 DEF Receive, FlashChecked, UnlockAhead, EndsInside
  <2>6. QED
    BY <2>3, <2>4, <2>5
<1>2. CASE PullStep
  <2>1. Head(todo).n \in Nat
    BY <1>2, HeadIsOperation DEF PullStep, NextIs
  <2>2. FlashChecked' /\ UnlockAhead' /\ todo' \in Seq(Operations)
    BY <1>2, StepsOn DEF PullStep, NextIs
  <2>3. Head(todo).n <= buf.size
    BY <1>2 DEF PullStep, NextIs, Fits, CanPull
  <2>4. buf' \in Buffer /\ WindowInArray'
    BY <1>2, <2>1, <2>3 DEF PullStep, TypeOK, Buffer, Pulled, WindowInArray, InArray
  <2>5. QED
    BY <1>2, <2>2, <2>4 DEF PullStep, TypeOK
<1>3. CASE AddStep
  <2>1. todo # <<>> /\ Head(todo).op \in {"add", "count"}
    BY <1>3 DEF AddStep, NextIs
  <2>2. Head(todo).n \in Nat /\ Head(todo).field \in Fields
    BY <2>1, HeadIsOperation
  <2>3. FlashChecked' /\ UnlockAhead' /\ todo' \in Seq(Operations)
    BY <1>3, <2>1, StepsOn DEF AddStep
  <2>4. Head(todo).n <= Tailroom(buf)
    BY <1>3, <2>1 DEF AddStep, Fits, CanAdd
  <2>5. buf' \in Buffer /\ WindowInArray'
    BY <1>3, <2>2, <2>4
    DEF AddStep, TypeOK, Buffer, Added, Tailroom, WindowInArray, InArray
  <2>6. array' \in [0..(Capacity - 1) -> Fields]
    BY <1>3, <2>2, SetType DEF AddStep, TypeOK
  <2>7. timer' \in 0..(TimerMod - 1)
    BY <1>3, CountedType DEF AddStep, TypeOK
  <2>8. QED
    BY <1>3, <2>3, <2>5, <2>6, <2>7 DEF AddStep, TypeOK
<1>4. CASE ResizeStep
  <2>1. todo # <<>> /\ Head(todo).op = "resize"
    BY <1>4 DEF ResizeStep, NextIs
  <2>2. Head(todo).n \in Nat /\ Head(todo).field \in Fields
    BY <2>1, HeadIsOperation
  <2>3. FlashChecked' /\ UnlockAhead' /\ todo' \in Seq(Operations)
    BY <1>4, <2>1, StepsOn DEF ResizeStep
  <2>4. Head(todo).n <= buf.size \/ Head(todo).n - buf.size <= Tailroom(buf)
    BY <1>4, <2>1 DEF ResizeStep, Fits, CanResize, CanAdd
  <2>5. buf' \in Buffer /\ WindowInArray'
    BY <1>4, <2>2, <2>4
    DEF ResizeStep, TypeOK, Buffer, Resized, Tailroom, WindowInArray, InArray
  <2>6. array' \in [0..(Capacity - 1) -> Fields]
    BY <1>4, <2>2, SetType DEF ResizeStep, TypeOK
  <2>7. QED
    BY <1>4, <2>3, <2>5, <2>6 DEF ResizeStep, TypeOK
<1>5. CASE Fails
  <2>1. timer' \in 0..(TimerMod - 1)
    BY <1>5, CountedType DEF Fails, TypeOK
  <2>2. todo' \in Seq(Operations) /\ todo' \in Seq(NoFlash)
    BY <1>5 DEF Fails
  <2>3. locked' = FALSE /\ locked' \in BOOLEAN
    BY <1>5 DEF Fails
  <2>4. FlashChecked' /\ UnlockAhead'
    BY <2>2, <2>3 DEF FlashChecked, UnlockAhead
  <2>5. QED
    BY <1>5, <2>1, <2>2, <2>3, <2>4 DEF Fails, TypeOK, WindowInArray
<1>6. CASE ResetStep
  <2>1. FlashChecked' /\ UnlockAhead' /\ todo' \in Seq(Operations)
    BY <1>6, StepsOn DEF ResetStep, NextIs
  <2>2. buf' \in Buffer /\ WindowInArray'
    BY <1>6 DEF ResetStep, Buffer, Reset, WindowInArray, InArray
  <2>3. QED
    BY <1>6, <2>1, <2>2 DEF ResetStep, TypeOK
<1>7. CASE SwitchReportId \/ SwitchUsbCmd
  <2>1. todo' \in Seq(NoFlash) /\ NoFlash \subseteq Operations
    BY <1>7, HandlerShapes DEF SwitchReportId, SwitchUsbCmd, TypeOK, NoFlash
  <2>2. ~locked
    <3>1. todo # <<>> /\ Head(todo).op \in {"report_id", "usb_cmd"}
      BY <1>7 DEF SwitchReportId, SwitchUsbCmd, NextIs
    <3>2. todo \in Seq(Inside) => Head(todo) \in Inside
      BY <3>1, TailShape
    <3>3. QED
      BY <3>1, <3>2 DEF UnlockAhead, Inside, TypeOK
  <2>3. TypeOK' /\ WindowInArray'
    BY <1>7, <2>1 DEF SwitchReportId, SwitchUsbCmd, TypeOK, WindowInArray
  <2>4. FlashChecked' /\ UnlockAhead'
    BY <1>7, <2>1, <2>2 DEF SwitchReportId, SwitchUsbCmd, FlashChecked, UnlockAhead
  <2>5. QED
    BY <2>3, <2>4
<1>8. CASE LockAndSwitchSubcmd
  <2>1. /\ SubcmdHandler(report) \in Seq(NoFlash \cap Inside)
        /\ EndsInside(SubcmdHandler(report))
    BY HandlerShapes DEF TypeOK
  <2>2. /\ todo' \in Seq(Operations) /\ todo' \in Seq(NoFlash)
        /\ todo' \in Seq(Inside)
    BY <1>8, <2>1, NoFlash \cap Inside \subseteq Operations,
       NoFlash \cap Inside \subseteq NoFlash, NoFlash \cap Inside \subseteq Inside
    DEF LockAndSwitchSubcmd, NoFlash
  <2>3. TypeOK' /\ WindowInArray'
    BY <1>8, <2>2 DEF LockAndSwitchSubcmd, TypeOK, WindowInArray
  <2>4. FlashChecked' /\ UnlockAhead'
    BY <1>8, <2>1, <2>2 DEF LockAndSwitchSubcmd, FlashChecked, UnlockAhead
  <2>5. QED
    BY <2>3, <2>4
<1>9. CASE FlashInRange
  <2>1. FlashAnswer(report) \in Seq(Inside) /\ EndsInside(FlashAnswer(report))
    BY HandlerShapes DEF TypeOK
  <2>2. todo' \in Seq(Operations) /\ todo' \in Seq(Inside) /\ EndsInside(todo')
    BY <1>9, <2>1, Inside \subseteq Operations DEF FlashInRange, Inside
  <2>3. report.address + report.size <= FlashSize
    <3>1. /\ report.address \in 0..(AddressMod - 1)
          /\ report.size \in 0..MaxSize
      BY DEF TypeOK, AllReports
    <3>2. report.address <= EndOf(report) /\ EndOf(report) <= FlashSize
      BY <1>9 DEF FlashInRange, InFlash
    <3>3. QED
      BY <3>1, <3>2 DEF EndOf
  <2>4. TypeOK' /\ WindowInArray'
    BY <1>9, <2>2 DEF FlashInRange, TypeOK, WindowInArray
  <2>5. FlashChecked' /\ UnlockAhead'
    BY <1>9, <2>2, <2>3 DEF FlashInRange, FlashChecked, UnlockAhead
  <2>6. QED
    BY <2>4, <2>5
<1>10. CASE FlashOutOfRange
  <2>1. todo' \in Seq(Operations) /\ todo' \in Seq(NoFlash)
    BY <1>10 DEF FlashOutOfRange
  <2>2. locked' = FALSE /\ locked' \in BOOLEAN
    BY <1>10 DEF FlashOutOfRange
  <2>3. FlashChecked' /\ UnlockAhead'
    BY <2>1, <2>2 DEF FlashChecked, UnlockAhead
  <2>4. QED
    BY <1>10, <2>1, <2>2, <2>3 DEF FlashOutOfRange, TypeOK, WindowInArray
<1>11. CASE WriteStep
  <2>1. FlashChecked' /\ UnlockAhead' /\ todo' \in Seq(Operations)
    BY <1>11, StepsOn DEF WriteStep, NextIs
  <2>2. QED
    BY <1>11, <2>1 DEF WriteStep, TypeOK, WindowInArray
<1>12. CASE UnlockStep
  <2>1. todo' \in Seq(Operations) /\ (todo \in Seq(NoFlash) => todo' \in Seq(NoFlash))
    BY <1>12, TailShape DEF UnlockStep, NextIs, TypeOK
  <2>2. QED
    BY <1>12, <2>1 DEF UnlockStep, TypeOK, WindowInArray, FlashChecked, UnlockAhead
<1>13. CASE OthersCount
  <2>1. timer' \in 0..(TimerMod - 1)
    BY <1>13, CountedType DEF OthersCount, TypeOK
  <2>2. QED
    BY <1>13, <2>1 DEF OthersCount, TypeOK, WindowInArray, FlashChecked, UnlockAhead
<1>14. CASE UNCHANGED vars
  BY <1>14 DEF vars, TypeOK, WindowInArray, FlashChecked, UnlockAhead
<1>15. QED
  BY <1>1, <1>2, <1>3, <1>4, <1>5, <1>6, <1>7, <1>8, <1>9, <1>10, <1>11, <1>12,
     <1>13, <1>14 DEF Next

\* The invariant holds in every state of every behaviour of the handler.
THEOREM ReportsInvariant == Spec => []ReportsInv
  BY InitReportsInv, NextReportsInv, PTL DEF Spec

-----------------------------------------------------------------------------
(* The properties.                                                          *)

\* on_output_report is type correct for any reports.
THEOREM ReportsTypeCorrect == Spec => []TypeOK
<1>1. ReportsInv => TypeOK
  BY DEF ReportsInv
<1>2. QED
  BY <1>1, ReportsInvariant, PTL

\* No report makes the buffer's window leave its array, for any capacity.
THEOREM WindowStaysInArray == Spec => []WindowInArray
<1>1. ReportsInv => WindowInArray
  BY DEF ReportsInv
<1>2. QED
  BY <1>1, ReportsInvariant, PTL

\* No flash read copies bytes from outside of the flash, although its range is
\* computed modulo 2^32, as long as a size is smaller than that.
THEOREM FlashReadsAreSafe == Spec => []FlashReadInBounds
<1>1. ReportsInv => FlashReadInBounds
  <2> SUFFICES ASSUME ReportsInv, todo # <<>>, Head(todo).field = "flash"
               PROVE  report.address + report.size <= FlashSize
    BY DEF FlashReadInBounds, NextIs
  <2>1. todo \notin Seq(NoFlash)
    BY TailShape DEF NoFlash
  <2>2. QED
    BY <2>1 DEF ReportsInv, FlashChecked
<1>2. QED
  BY <1>1, ReportsInvariant, PTL

\* on_output_report never returns with the mutex locked.
THEOREM MutexIsReleased == Spec => []MutexReleased
<1>1. ReportsInv => MutexReleased
  BY DEF ReportsInv, UnlockAhead, EndsInside, MutexReleased
<1>2. QED
  BY <1>1, ReportsInvariant, PTL

-----------------------------------------------------------------------------
(* What an answer is made of.                                               *)

NoParameter == {"manual_bt_pairing", "triggers_elapsed", "set_home_led"}

\* What the answer to a subcommand has after the header, and where in the array
\* each of its fields starts and the last one ends.
BodyOf(r) ==
  IF r.cmd = "flash_read"
    THEN <<Add(4, "address"), Add(1, "size"), Add(r.size, "flash")>>
  ELSE IF r.cmd = "req_devinfo" THEN Devinfo
  ELSE IF r.cmd \in WithOneParameter \cup NoParameter THEN <<>>
  ELSE <<Add(1, "value")>>

BodyStarts(r) ==
  IF r.cmd = "flash_read" THEN <<15, 19, 20, 20 + r.size>>
  ELSE IF r.cmd = "req_devinfo" THEN <<15, 17, 18, 19, 25, 26, 27>>
  ELSE IF r.cmd \in WithOneParameter \cup NoParameter THEN <<15>>
  ELSE <<15, 16>>

\* The answer, the size of the buffer before each of its operations and after
\* the last, and what the bytes are in the end.
AnswerTo(r) ==
  IF r.id = "usb_cmd" THEN UsbHandler(r) ELSE SubcmdAnswer(BodyOf(r))

SizeBefore(r) ==
  IF r.id = "usb_cmd"
    THEN CASE r.cmd = "conn_status" -> <<0, 0, 1, 2, 10, 64, 64>>
           [] r.cmd = "handshake" -> <<0, 0, 1, 2, 64, 64>>
           [] OTHER -> <<0, 0, 1, 2, 2>>
    ELSE [k \in 1..(Len(BodyOf(r)) + 10) |->
            IF k <= 6 THEN <<0, 0, 1, 2, 13, 14>>[k]
            ELSE IF k <= Len(BodyOf(r)) + 7 THEN BodyStarts(r)[k - 6] ELSE 64]

Layout(r) ==
  IF r.id = "usb_cmd"
    THEN [i \in Nat |-> IF i = 0 THEN "id" ELSE IF i = 1 THEN "cmd"
                        ELSE IF i < 10 /\ r.cmd = "conn_status" THEN "value"
                        ELSE "zero"]
    ELSE [i \in Nat |->
            IF i = 0 THEN "id"
            ELSE IF i = 1 THEN "timer"
            ELSE IF i <= 12 THEN "input"
            ELSE IF i = 13 THEN "ack"
            ELSE IF i = 14 THEN "cmd"
            ELSE IF i >= BodyStarts(r)[Len(BodyOf(r)) + 1] THEN "zero"
            ELSE IF r.cmd # "flash_read" THEN "value"
            ELSE IF i <= 18 THEN "address"
            ELSE IF i = 19 THEN "size" ELSE "flash"]

\* An answer is a reset, then operations that fill the array from its start.
Fills(s, size, layout) ==
  /\ s \in Seq(Operations)
  /\ Len(s) >= 2
  /\ s[1].op = "reset" /\ size[2] = 0
  /\ \A k \in 2..Len(s) :
       /\ s[k].op \in {"add", "count", "resize", "write", "unlock"}
       /\ size[k] \in Nat /\ size[k + 1] \in Nat
       /\ s[k].op \in {"add", "count"} => size[k + 1] = size[k] + s[k].n
       /\ s[k].op = "resize" => size[k + 1] = s[k].n
       /\ s[k].op \in {"write", "unlock"} => size[k + 1] = size[k]
       /\ \A i \in size[k]..(size[k + 1] - 1) : layout[i] = s[k].field

\* Where the operations that are more than filling have their places.
Ordered(s, r) ==
  \A k \in 1..Len(s) :
    /\ s[k].op = "count" <=> r.id # "usb_cmd" /\ k = 3
    /\ s[k].op = "unlock" <=> r.id # "usb_cmd" /\ k = Len(s)
    /\ s[k].op = "write" <=> k = IF r.id = "usb_cmd" THEN Len(s) ELSE Len(s) - 1

\* The size that is written.  An answer whose body ends within the 64 bytes
\* fits at every place, and any answer until its timer is counted.
Sized(s, r) ==
  LET end == BodyStarts(r)[Len(BodyOf(r)) + 1] IN
  /\ \A k \in 1..Len(s) :
       s[k].op = "write" =>
         /\ SizeBefore(r)[k] =
              IF r.id = "usb_cmd" /\ r.cmd = "baudrate_3m" THEN 2 ELSE 64
         /\ r.id # "usb_cmd" => k - 1 \in 2..k /\ SizeBefore(r)[k - 1] = end
  /\ \A k \in 2..4 : SizeBefore(r)[k] <= 64
  /\ r.id = "usb_cmd" \/ end <= 64 =>
       \A k \in 2..(Len(s) + 1) : SizeBefore(r)[k] <= 64

\* The elements of two sequences put together.
LEMMA JoinedElements ==
  ASSUME NEW S, NEW s \in Seq(S), NEW t \in Seq(S), NEW u, u = s \o t
  PROVE  /\ u \in Seq(S)
         /\ Len(s) \in Nat /\ Len(t) \in Nat
         /\ Len(u) = Len(s) + Len(t)
         /\ \A i \in 1..Len(s) : u[i] = s[i]
         /\ \A i \in 1..Len(t) : u[Len(s) + i] = t[i]
<1>1. Len(s) \in Nat /\ Len(t) \in Nat
  BY LenProperties
<1>2. /\ s \o t \in Seq(S)
      /\ Len(s \o t) = Len(s) + Len(t)
      /\ \A i \in 1..(Len(s) + Len(t)) :
           (s \o t)[i] = IF i <= Len(s) THEN s[i] ELSE t[i - Len(s)]
  BY ConcatProperties
<1>3. ASSUME NEW i \in 1..Len(s) PROVE u[i] = s[i]
  BY <1>1, <1>2
<1>4. ASSUME NEW i \in 1..Len(t) PROVE u[Len(s) + i] = t[i]
  <2>1. /\ Len(s) + i \in 1..(Len(s) + Len(t)) /\ ~(Len(s) + i <= Len(s))
        /\ Len(s) + i - Len(s) = i
    BY <1>1
  <2>2. QED
    BY <1>2, <2>1
<1>5. QED
  BY <1>1, <1>2, <1>3, <1>4

\* The operations of an answer to a subcommand, by their place.
LEMMA AnswerElements ==
  ASSUME NEW body \in Seq(Operations), NEW answer, answer = SubcmdAnswer(body)
  PROVE  /\ answer \in Seq(Operations)
         /\ Len(body) \in Nat
         /\ Len(answer) = Len(body) + 9
         /\ answer[1] = Do("reset") /\ answer[2] = Add(1, "id")
         /\ answer[3] = Count /\ answer[4] = Add(11, "input")
         /\ answer[5] = Add(1, "ack") /\ answer[6] = Add(1, "cmd")
         /\ \A j \in 1..Len(body) : answer[6 + j] = body[j]
         /\ answer[Len(body) + 7] = Resize(64)
         /\ answer[Len(body) + 8] = Do("write")
         /\ answer[Len(body) + 9] = Do("unlock")
<1>1. {Do("reset"), Add(1, "id"), Count, Add(11, "input"), Add(1, "ack"),
       Add(1, "cmd"), Resize(64), Do("write"), Do("unlock")} \subseteq Operations
  BY DEF Do, Add, Count, Resize, Operations, Ops, Fields
<1> DEFINE reset == <<Do("reset")>>
           fill == <<Resize(64), Do("write")>>
           start == reset \o Header
           end == fill \o Unlock
           front == start \o body
<1>2. /\ start = reset \o Header /\ end = fill \o Unlock
      /\ front = start \o body /\ answer = front \o end
  BY DEF SubcmdAnswer, Finish
<1>3. /\ reset \in Seq(Operations) /\ fill \in Seq(Operations)
      /\ Header \in Seq(Operations) /\ Unlock \in Seq(Operations)
  BY <1>1 DEF Header, Unlock
<1>4. /\ Len(reset) = 1 /\ reset[1] = Do("reset")
      /\ Len(Header) = 5
      /\ Header[1] = Add(1, "id") /\ Header[2] = Count
      /\ Header[3] = Add(11, "input") /\ Header[4] = Add(1, "ack")
      /\ Header[5] = Add(1, "cmd")
  BY DEF Header
<1>5. /\ Len(fill) = 2 /\ fill[1] = Resize(64) /\ fill[2] = Do("write")
      /\ Len(Unlock) = 1 /\ Unlock[1] = Do("unlock")
  BY DEF Unlock
<1> HIDE DEF reset, fill, start, end, front
<1>a. /\ start \in Seq(Operations) /\ end \in Seq(Operations)
      /\ front \in Seq(Operations) /\ answer \in Seq(Operations)
  BY <1>2, <1>3
<1>6. /\ Len(start) = Len(reset) + Len(Header)
      /\ \A i \in 1..Len(reset) : start[i] = reset[i]
      /\ \A i \in 1..Len(Header) : start[Len(reset) + i] = Header[i]
  BY <1>2, <1>3, JoinedElements
<1>7. /\ Len(end) = Len(fill) + Len(Unlock)
      /\ \A i \in 1..Len(fill) : end[i] = fill[i]
      /\ \A i \in 1..Len(Unlock) : end[Len(fill) + i] = Unlock[i]
  BY <1>2, <1>3, JoinedElements
<1>8. /\ Len(body) \in Nat
      /\ Len(front) = Len(start) + Len(body)
      /\ \A i \in 1..Len(start) : front[i] = start[i]
      /\ \A i \in 1..Len(body) : front[Len(start) + i] = body[i]
  BY <1>2, <1>a, JoinedElements
<1>9. /\ Len(answer) = Len(front) + Len(end)
      /\ \A i \in 1..Len(front) : answer[i] = front[i]
      /\ \A i \in 1..Len(end) : answer[Len(front) + i] = end[i]
  BY <1>2, <1>a, JoinedElements
<1>10. /\ Len(start) = 6
       /\ start[1] = Do("reset") /\ start[2] = Add(1, "id") /\ start[3] = Count
       /\ start[4] = Add(11, "input") /\ start[5] = Add(1, "ack")
       /\ start[6] = Add(1, "cmd")
  <2>1. start[1] = reset[1]
    BY <1>4, <1>6
  <2>2. /\ start[1 + 1] = Header[1] /\ start[1 + 2] = Header[2]
        /\ start[1 + 3] = Header[3] /\ start[1 + 4] = Header[4]
        /\ start[1 + 5] = Header[5]
    BY <1>4, <1>6
  <2>3. QED
    BY <1>4, <1>6, <2>1, <2>2
<1>11. /\ Len(end) = 3
       /\ end[1] = Resize(64) /\ end[2] = Do("write") /\ end[3] = Do("unlock")
  <2>1. end[1] = fill[1] /\ end[2] = fill[2] /\ end[2 + 1] = Unlock[1]
    BY <1>5, <1>7
  <2>2. QED
    BY <1>5, <1>7, <2>1
<1>12. Len(front) = Len(body) + 6 /\ Len(answer) = Len(body) + 9
  BY <1>8, <1>9, <1>10, <1>11
<1>13. \A i \in 1..6 : answer[i] = start[i]
  BY <1>8, <1>9, <1>10, <1>12
<1>14. ASSUME NEW j \in 1..Len(body) PROVE answer[6 + j] = body[j]
  <2>1. 6 + j \in 1..Len(front)
    BY <1>8, <1>12
  <2>2. QED
    BY <1>8, <1>9, <1>10, <2>1
<1>15. /\ answer[Len(body) + 6 + 1] = end[1]
       /\ answer[Len(body) + 6 + 2] = end[2]
       /\ answer[Len(body) + 6 + 3] = end[3]
  BY <1>9, <1>11, <1>12
<1>16. /\ Len(body) + 6 + 1 = Len(body) + 7 /\ Len(body) + 6 + 2 = Len(body) + 8
       /\ Len(body) + 6 + 3 = Len(body) + 9
  BY <1>8
<1>17. QED
  BY <1>a, <1>8, <1>9, <1>10, <1>11, <1>12, <1>13, <1>14, <1>15, <1>16

\* What comes after the header in the answer to a subcommand.
LEMMA BodyFills ==
  ASSUME NEW r \in AllReports, r.id # "usb_cmd", NEW n, n = Len(BodyOf(r))
  PROVE  /\ BodyOf(r) \in Seq(Operations)
         /\ n \in Nat
         /\ BodyStarts(r)[1] = 15
         /\ BodyStarts(r)[n + 1] \in Nat /\ BodyStarts(r)[n + 1] >= 15
         /\ \A j \in 1..n :
              /\ BodyOf(r)[j].op = "add"
              /\ BodyStarts(r)[j] \in Nat /\ BodyStarts(r)[j] >= 15
              /\ BodyStarts(r)[j + 1] \in Nat
              /\ BodyStarts(r)[j + 1] <= BodyStarts(r)[n + 1]
              /\ BodyStarts(r)[j + 1] = BodyStarts(r)[j] + BodyOf(r)[j].n
              /\ \A i \in BodyStarts(r)[j]..(BodyStarts(r)[j + 1] - 1) :
                   Layout(r)[i] = BodyOf(r)[j].field
<1>1. r.size \in Nat
  BY OutputReportsAssumption DEF AllReports
<1>2. CASE r.cmd = "flash_read"
  <2>1. /\ BodyOf(r) = <<Add(4, "address"), Add(1, "size"), Add(r.size, "flash")>>
        /\ BodyStarts(r) = <<15, 19, 20, 20 + r.size>>
        /\ n = 3
    <3>1. BodyOf(r) = <<Add(4, "address"), Add(1, "size"), Add(r.size, "flash")>>
      BY <1>2 DEF BodyOf
    <3>2. BodyStarts(r) = <<15, 19, 20, 20 + r.size>>
      BY <1>2 DEF BodyStarts
    <3>3. QED
      BY <3>1, <3>2
  <2>2. \A i \in Nat :
          /\ i \in 15..18 /\ i < 20 + r.size => Layout(r)[i] = "address"
          /\ i = 19 /\ i < 20 + r.size => Layout(r)[i] = "size"
          /\ i >= 20 /\ i < 20 + r.size => Layout(r)[i] = "flash"
    BY <1>1, <1>2, <2>1 DEF Layout
  <2>3. BodyOf(r) \in Seq(Operations)
    BY <1>1, <2>1 DEF Add, Operations, Ops, Fields
  <2>4. ASSUME NEW j \in 1..3
        PROVE  /\ BodyOf(r)[j].op = "add"
               /\ BodyStarts(r)[j] \in Nat /\ BodyStarts(r)[j] >= 15
               /\ BodyStarts(r)[j + 1] \in Nat
               /\ BodyStarts(r)[j + 1] <= 20 + r.size
               /\ BodyStarts(r)[j + 1] = BodyStarts(r)[j] + BodyOf(r)[j].n
               /\ \A i \in BodyStarts(r)[j]..(BodyStarts(r)[j + 1] - 1) :
                    Layout(r)[i] = BodyOf(r)[j].field
    <3>1. CASE j = 1
      BY <1>1, <2>1, <2>2, <3>1 DEF Add
    <3>2. CASE j = 2
      BY <1>1, <2>1, <2>2, <3>2 DEF Add
    <3>3. CASE j = 3
      BY <1>1, <2>1, <2>2, <3>3 DEF Add
    <3>4. QED
      BY <3>1, <3>2, <3>3
  <2>5. BodyStarts(r)[n + 1] = 20 + r.size /\ BodyStarts(r)[1] = 15
    BY <2>1
  <2>6. QED
    BY <1>1, <2>1, <2>3, <2>4, <2>5
<1>3. CASE r.cmd = "req_devinfo"
  <2>1. /\ BodyOf(r) = Devinfo
        /\ BodyStarts(r) = <<15, 17, 18, 19, 25, 26, 27>>
        /\ n = 6
    <3>1. BodyOf(r) = Devinfo
      BY <1>3 DEF BodyOf
    <3>2. BodyStarts(r) = <<15, 17, 18, 19, 25, 26, 27>>
      BY <1>3 DEF BodyStarts
    <3>3. Len(Devinfo) = 6
      BY DEF Devinfo
    <3>4. QED
      BY <3>1, <3>2, <3>3
  <2>3. BodyOf(r) \in Seq(Operations)
    BY <2>1 DEF Devinfo, Add, Operations, Ops, Fields
  <2>4. ASSUME NEW j \in 1..6
        PROVE  /\ BodyOf(r)[j].op = "add"
               /\ BodyStarts(r)[j] \in Nat /\ BodyStarts(r)[j] >= 15
               /\ BodyStarts(r)[j + 1] \in Nat
               /\ BodyStarts(r)[j + 1] <= 27
               /\ BodyStarts(r)[j + 1] = BodyStarts(r)[j] + BodyOf(r)[j].n
               /\ BodyOf(r)[j].field = "value"
    BY <2>1 DEF Devinfo, Add
  <2>5. BodyStarts(r)[n + 1] = 27 /\ BodyStarts(r)[1] = 15
    <3>1. n = 6
      BY <2>1
    <3>2. BodyStarts(r) = <<15, 17, 18, 19, 25, 26, 27>>
      BY <2>1
    <3>3. BodyStarts(r)[7] = 27 /\ BodyStarts(r)[1] = 15
      BY <3>2
    <3>4. QED
      BY <3>1, <3>3
  <2>2. \A i \in 15..26 : Layout(r)[i] = "value"
    <3>1. n = 6
      BY <2>1
    <3>2. BodyStarts(r)[Len(BodyOf(r)) + 1] = 27
      BY <2>5
    <3>3. QED
      BY <1>3, <3>2 DEF Layout
  <2>6. ASSUME NEW j \in 1..6,
               NEW i \in BodyStarts(r)[j]..(BodyStarts(r)[j + 1] - 1)
        PROVE  Layout(r)[i] = BodyOf(r)[j].field
    <3>1. i \in 15..26
      <4>1. /\ BodyStarts(r)[j] \in Nat /\ BodyStarts(r)[j] >= 15
            /\ BodyStarts(r)[j + 1] \in Nat /\ BodyStarts(r)[j + 1] <= 27
        BY <2>4
      <4>2. QED
        BY <4>1
    <3>2. QED
      BY <2>2, <2>4, <3>1
  <2>7. n = 6
    BY <2>1
  <2>8. QED
    BY <2>3, <2>4, <2>5, <2>6, <2>7
<1>4. CASE r.cmd \in WithOneParameter \cup NoParameter
  <2>1. BodyOf(r) = <<>> /\ BodyStarts(r) = <<15>> /\ n = 0
    BY <1>4 DEF BodyOf, BodyStarts, WithOneParameter, NoParameter
  <2>2. QED
    BY <2>1
<1>5. CASE r.cmd \notin {"flash_read", "req_devinfo"} \cup WithOneParameter
                           \cup NoParameter
  <2>1. /\ BodyOf(r) = <<Add(1, "value")>>
        /\ BodyStarts(r) = <<15, 16>>
        /\ n = 1
    BY <1>5 DEF BodyOf, BodyStarts
  <2>2. Layout(r)[15] = "value"
    BY <1>5, <2>1 DEF Layout
  <2>3. BodyOf(r) \in Seq(Operations)
    BY <2>1 DEF Add, Operations, Ops, Fields
  <2>4. QED
    BY <2>1, <2>2, <2>3 DEF Add
<1>6. QED
  BY <1>2, <1>3, <1>4, <1>5

\* What fills the array in the answer to a subcommand.
LEMMA SubcmdAnswersFill ==
  ASSUME NEW r \in AllReports, r.id # "usb_cmd",
         NEW s, s = AnswerTo(r)
  PROVE  Fills(s, SizeBefore(r), Layout(r)) /\ Ordered(s, r) /\ Sized(s, r)
<1> DEFINE body == BodyOf(r)
           n == Len(body)
           size == SizeBefore(r)
           layout == Layout(r)
           starts == BodyStarts(r)
<1>0. n = Len(body)
  OBVIOUS
<1> HIDE DEF n
<1>1. /\ body \in Seq(Operations) /\ n \in Nat /\ starts[1] = 15
      /\ starts[n + 1] \in Nat /\ starts[n + 1] >= 15
      /\ \A j \in 1..n :
           /\ body[j].op = "add"
           /\ starts[j] \in Nat /\ starts[j] >= 15
           /\ starts[j + 1] \in Nat
           /\ starts[j + 1] <= starts[n + 1]
           /\ starts[j + 1] = starts[j] + body[j].n
           /\ \A i \in starts[j]..(starts[j + 1] - 1) : layout[i] = body[j].field
  BY <1>0, BodyFills
<1>2. s = SubcmdAnswer(body)
  BY DEF AnswerTo
<1>3. /\ s \in Seq(Operations)
      /\ Len(s) = n + 9
      /\ s[1] = Do("reset") /\ s[2] = Add(1, "id")
      /\ s[3] = Count /\ s[4] = Add(11, "input")
      /\ s[5] = Add(1, "ack") /\ s[6] = Add(1, "cmd")
      /\ \A j \in 1..n : s[6 + j] = body[j]
      /\ s[n + 7] = Resize(64)
      /\ s[n + 8] = Do("write")
      /\ s[n + 9] = Do("unlock")
  BY <1>0, <1>1, <1>2, AnswerElements
<1>4. /\ size[1] = 0 /\ size[2] = 0 /\ size[3] = 1 /\ size[4] = 2
      /\ size[5] = 13 /\ size[6] = 14
      /\ \A j \in 1..(n + 1) : size[6 + j] = starts[j]
      /\ size[n + 8] = 64 /\ size[n + 9] = 64 /\ size[n + 10] = 64
  <2>1. size = [k \in 1..(n + 10) |->
                  IF k <= 6 THEN <<0, 0, 1, 2, 13, 14>>[k]
                  ELSE IF k <= n + 7 THEN starts[k - 6] ELSE 64]
    BY <1>0 DEF SizeBefore
  <2>2. \A k \in 1..6 : size[k] = <<0, 0, 1, 2, 13, 14>>[k]
    BY <1>1, <2>1
  <2>3. ASSUME NEW j \in 1..(n + 1) PROVE size[6 + j] = starts[j]
    <3>1. 6 + j \in 1..(n + 10) /\ ~(6 + j <= 6) /\ 6 + j <= n + 7 /\ (6 + j) - 6 = j
      BY <1>1
    <3>2. QED
      BY <2>1, <3>1
  <2>4. size[n + 8] = 64 /\ size[n + 9] = 64 /\ size[n + 10] = 64
    BY <1>1, <2>1
  <2>5. QED
    BY <2>2, <2>3, <2>4
<1>5. /\ layout[0] = "id" /\ layout[1] = "timer"
      /\ \A i \in 2..12 : layout[i] = "input"
      /\ layout[13] = "ack" /\ layout[14] = "cmd"
      /\ \A i \in Nat : i >= starts[n + 1] => layout[i] = "zero"
  BY <1>0, <1>1 DEF Layout
<1> HIDE DEF body, size, layout, starts
<1> DEFINE Good(k) ==
      /\ s[k].op \in {"add", "count", "resize", "write", "unlock"}
      /\ size[k] \in Nat /\ size[k + 1] \in Nat
      /\ s[k].op \in {"add", "count"} => size[k + 1] = size[k] + s[k].n
      /\ s[k].op = "resize" => size[k + 1] = s[k].n
      /\ s[k].op \in {"write", "unlock"} => size[k + 1] = size[k]
      /\ \A i \in size[k]..(size[k + 1] - 1) : layout[i] = s[k].field
      /\ k # 3 => s[k].op # "count"
      /\ s[k].op = "write" <=> k = n + 8
      /\ s[k].op = "unlock" <=> k = n + 9
<1>6. ASSUME NEW k \in 2..(n + 9) PROVE Good(k)
  <2>0. /\ size[2] = 0 /\ size[3] = 1 /\ size[4] = 2
        /\ size[5] = 13 /\ size[6] = 14 /\ size[7] = 15
    <3>1. 1 \in 1..(n + 1) /\ 6 + 1 = 7
      BY <1>1
    <3>2. size[7] = starts[1]
      BY <1>4, <3>1
    <3>3. QED
      BY <1>1, <1>4, <3>2
  <2>1. CASE k = 2
    <3>1. s[k] = Add(1, "id") /\ size[k] = 0 /\ size[k + 1] = 1
      BY <1>3, <2>0, <2>1
    <3>2. k # n + 8 /\ k # n + 9
      BY <1>1, <2>1
    <3>3. \A i \in 0..(1 - 1) : layout[i] = "id"
      BY <1>5
    <3>4. QED
      BY <2>1, <3>1, <3>2, <3>3 DEF Add
  <2>2. CASE k = 3
    <3>1. s[k] = Count /\ size[k] = 1 /\ size[k + 1] = 2
      BY <1>3, <2>0, <2>2
    <3>2. k # n + 8 /\ k # n + 9
      BY <1>1, <2>2
    <3>3. \A i \in 1..(2 - 1) : layout[i] = "timer"
      BY <1>5
    <3>4. QED
      BY <2>2, <3>1, <3>2, <3>3 DEF Count
  <2>3. CASE k = 4
    <3>1. s[k] = Add(11, "input") /\ size[k] = 2 /\ size[k + 1] = 13
      BY <1>3, <2>0, <2>3
    <3>2. k # n + 8 /\ k # n + 9
      BY <1>1, <2>3
    <3>3. \A i \in 2..(13 - 1) : layout[i] = "input"
      BY <1>5
    <3>4. QED
      BY <2>3, <3>1, <3>2, <3>3 DEF Add
  <2>4. CASE k = 5
    <3>1. s[k] = Add(1, "ack") /\ size[k] = 13 /\ size[k + 1] = 14
      BY <1>3, <2>0, <2>4
    <3>2. k # n + 8 /\ k # n + 9
      BY <1>1, <2>4
    <3>3. \A i \in 13..(14 - 1) : layout[i] = "ack"
      BY <1>5
    <3>4. QED
      BY <2>4, <3>1, <3>2, <3>3 DEF Add
  <2>5. CASE k = 6
    <3>1. s[k] = Add(1, "cmd") /\ size[k] = 14 /\ size[k + 1] = 15
      BY <1>3, <2>0, <2>5
    <3>2. k # n + 8 /\ k # n + 9
      BY <1>1, <2>5
    <3>3. \A i \in 14..(15 - 1) : layout[i] = "cmd"
      BY <1>5
    <3>4. QED
      BY <2>5, <3>1, <3>2, <3>3 DEF Add
  <2>6. ASSUME NEW j \in 1..n, k = 6 + j PROVE Good(k)
    <3>1. s[k] = body[j]
      BY <1>3, <2>6
    <3>2. size[k] = starts[j]
      BY <1>1, <1>4, <2>6
    <3>3. size[k + 1] = starts[j + 1]
      <4>1. j + 1 \in 1..(n + 1) /\ 6 + (j + 1) = k + 1
        BY <1>1, <2>6
      <4>2. QED
        BY <1>4, <4>1
    <3>4. k # n + 8 /\ k # n + 9
      BY <1>1, <2>6
    <3>5. QED
      BY <1>1, <3>1, <3>2, <3>3, <3>4
  <2>7. CASE k = n + 7
    <3>1. size[k] = starts[n + 1]
      <4>1. n + 1 \in 1..(n + 1) /\ 6 + (n + 1) = k
        BY <1>1, <2>7
      <4>2. QED
        BY <1>4, <4>1
    <3>2. s[k] = Resize(64) /\ size[k + 1] = 64
      BY <1>1, <1>3, <1>4, <2>7
    <3>3. k # n + 8 /\ k # n + 9
      BY <1>1, <2>7
    <3>4. ASSUME NEW i \in size[k]..(size[k + 1] - 1) PROVE layout[i] = "zero"
      <4>1. starts[n + 1] \in Nat /\ size[k + 1] = 64
        BY <1>1, <3>2
      <4>2. i \in Nat /\ i >= starts[n + 1]
        BY <3>1, <4>1
      <4>3. QED
        BY <1>5, <4>2
    <3>5. QED
      BY <1>1, <3>1, <3>2, <3>3, <3>4 DEF Resize
  <2>8. CASE k = n + 8
    <3>1. s[k] = Do("write") /\ size[k] = 64 /\ size[k + 1] = 64 /\ k # n + 9
      BY <1>1, <1>3, <1>4, <2>8
    <3>2. QED
      BY <2>8, <3>1 DEF Do
  <2>9. CASE k = n + 9
    <3>1. s[k] = Do("unlock") /\ size[k] = 64 /\ size[k + 1] = 64 /\ k # n + 8
      BY <1>1, <1>3, <1>4, <2>9
    <3>2. QED
      BY <2>9, <3>1 DEF Do
  <2>10. k \in 2..6 \/ k - 6 \in 1..n \/ k \in (n + 7)..(n + 9)
    BY <1>1
  <2>11. CASE k - 6 \in 1..n
    <3>1. k = 6 + (k - 6)
      OBVIOUS
    <3>2. QED
      BY <2>6, <2>11, <3>1
  <2>12. QED
    BY <1>1, <2>1, <2>2, <2>3, <2>4, <2>5, <2>7, <2>8, <2>9, <2>10, <2>11
<1>7. s[1].op = "reset"
  BY <1>3 DEF Do
<1>8. Fills(s, size, layout)
  <2>1. Len(s) >= 2 /\ 2..Len(s) = 2..(n + 9)
    BY <1>1, <1>3
  <2>2. \A k \in 2..Len(s) : Good(k)
    BY <1>6, <2>1, Zenon
  <2> HIDE DEF n
  <2>3. QED
    BY <1>3, <1>4, <1>7, <2>1, <2>2 DEF Fills
<1>9. size[n + 7] = starts[n + 1]
  <2>1. n + 1 \in 1..(n + 1) /\ 6 + (n + 1) = n + 7
    BY <1>1
  <2>2. QED
    BY <1>4, <2>1
<1>10. ASSUME NEW k \in 1..(n + 9)
       PROVE  /\ k # 3 => s[k].op # "count"
              /\ s[k].op = "write" <=> k = n + 8
              /\ s[k].op = "unlock" <=> k = n + 9
  <2>1. CASE k = 1
    BY <1>1, <1>7, <2>1
  <2>2. CASE k \in 2..(n + 9)
    BY <1>6, <2>2
  <2>3. QED
    BY <1>1, <2>1, <2>2
<1>11. ASSUME starts[n + 1] <= 64, NEW k \in 2..(n + 10) PROVE size[k] <= 64
  <2>1. CASE k \in 2..6
    BY <1>4, <2>1
  <2>2. CASE k \in 7..(n + 7)
    <3>1. k - 6 \in 1..(n + 1) /\ 6 + (k - 6) = k
      BY <1>1, <2>2
    <3>2. size[k] = starts[k - 6]
      BY <1>4, <3>1
    <3>3. CASE k - 6 = n + 1
      BY <1>11, <3>2, <3>3
    <3>4. CASE k - 6 \in 1..n
      <4>1. starts[k - 6] \in Nat
        BY <1>1, <3>4
      <4>2. /\ body[k - 6].n \in Nat
            /\ starts[(k - 6) + 1] <= starts[n + 1]
            /\ starts[(k - 6) + 1] = starts[k - 6] + body[k - 6].n
        <5>1. body[k - 6] \in Operations
          BY <1>0, <1>1, <3>4, ElementOfSeq
        <5>2. QED
          BY <1>1, <3>4, <5>1 DEF Operations
      <4>3. QED
        BY <1>1, <1>11, <3>2, <4>1, <4>2
    <3>5. QED
      BY <1>1, <3>1, <3>3, <3>4
  <2>3. CASE k \in (n + 8)..(n + 10)
    <3>1. k = n + 8 \/ k = n + 9 \/ k = n + 10
      BY <1>1, <2>3
    <3>2. size[n + 8] = 64 /\ size[n + 9] = 64 /\ size[n + 10] = 64
      BY <1>4
    <3>3. QED
      BY <3>1, <3>2
  <2>4. QED
    BY <1>1, <2>1, <2>2, <2>3
<1>12. ASSUME NEW k \in 1..Len(s), s[k].op = "write"
       PROVE  size[k] = 64 /\ k - 1 \in 2..k /\ size[k - 1] = starts[n + 1]
  <2>1. k = n + 8
    BY <1>3, <1>10, <1>12
  <2>2. (n + 8) - 1 = n + 7
    BY <1>1
  <2>3. k - 1 \in 2..k
    BY <1>1, <2>1
  <2>4. QED
    BY <1>4, <1>9, <2>1, <2>2, <2>3
<1>13. \A k \in 2..4 : size[k] <= 64
  BY <1>4
<1>14. starts[n + 1] <= 64 => \A k \in 2..(Len(s) + 1) : size[k] <= 64
  <2>1. Len(s) + 1 = n + 10
    BY <1>1, <1>3
  <2>2. QED
    BY <1>11, <2>1
<1>15. Sized(s, r)
  BY <1>0, <1>12, <1>13, <1>14 DEF Sized, size, starts, body
<1>16. Ordered(s, r)
  <2>1. s[3].op = "count"
    BY <1>3 DEF Count
  <2>2. Len(s) = n + 9 /\ Len(s) - 1 = n + 8
    BY <1>1, <1>3
  <2>3. QED
    BY <1>10, <2>1, <2>2 DEF Ordered
<1>17. QED
  BY <1>8, <1>15, <1>16 DEF size, layout

UsbQuestions == {"conn_status", "handshake", "baudrate_3m"}

\* What fills the array in the answer to a USB command.
LEMMA UsbAnswersFill ==
  ASSUME NEW r \in AllReports, r.id = "usb_cmd", r.cmd \in UsbQuestions,
         NEW s, s = AnswerTo(r)
  PROVE  Fills(s, SizeBefore(r), Layout(r)) /\ Ordered(s, r) /\ Sized(s, r)
<1> DEFINE size == SizeBefore(r)
           layout == Layout(r)
           n == Len(s)
<1>1. s = UsbHandler(r)
  BY DEF AnswerTo
<1>2. /\ layout[0] = "id" /\ layout[1] = "cmd"
      /\ r.cmd = "conn_status" => \A i \in 2..9 : layout[i] = "value"
      /\ r.cmd = "conn_status" => \A i \in 10..63 : layout[i] = "zero"
      /\ r.cmd = "handshake" => \A i \in 2..63 : layout[i] = "zero"
  BY DEF Layout
<1> HIDE DEF layout
<1>3. {Do("reset"), Add(1, "id"), Add(1, "cmd"), Add(8, "value"), Resize(64),
       Do("write")} \subseteq Operations
  BY DEF Do, Add, Resize, Operations, Ops, Fields
<1> DEFINE Good(k) ==
      /\ s[k].op \in {"add", "resize", "write"}
      /\ size[k] \in Nat /\ size[k + 1] \in Nat /\ size[k] <= 64
      /\ s[k].op = "add" => size[k + 1] = size[k] + s[k].n
      /\ s[k].op = "resize" => size[k + 1] = s[k].n
      /\ s[k].op = "write" => size[k + 1] = size[k]
      /\ \A i \in size[k]..(size[k + 1] - 1) : layout[i] = s[k].field
      /\ s[k].op = "write" <=> k = n
<1>4. CASE r.cmd = "conn_status"
  <2>0. (\A i \in 2..9 : layout[i] = "value") /\ (\A i \in 10..63 : layout[i] = "zero")
    BY <1>2, <1>4
  <2>1. s = <<Do("reset"), Add(1, "id"), Add(1, "cmd"), Add(8, "value"),
              Resize(64), Do("write")>>
    BY <1>1, <1>4 DEF UsbHandler
  <2>2. s \in Seq(Operations) /\ n = 6 /\ Len(s) = 6
    BY <1>3, <2>1
  <2>3. /\ s[1] = Do("reset") /\ s[2] = Add(1, "id") /\ s[3] = Add(1, "cmd")
        /\ s[4] = Add(8, "value") /\ s[5] = Resize(64) /\ s[6] = Do("write")
    BY <2>1
  <2>4. /\ size[2] = 0 /\ size[3] = 1 /\ size[4] = 2 /\ size[5] = 10
        /\ size[6] = 64 /\ size[7] = 64
    BY <1>4 DEF SizeBefore
  <2> HIDE DEF size, n
  <2>5. ASSUME NEW k \in 2..6 PROVE Good(k)
    <3>1. CASE k = 2
      BY <1>2, <2>2, <2>3, <2>4, <3>1 DEF Add
    <3>2. CASE k = 3
      BY <1>2, <2>2, <2>3, <2>4, <3>2 DEF Add
    <3>3. CASE k = 4
      <4>1. s[k] = Add(8, "value") /\ size[k] = 2 /\ size[k + 1] = 10
        BY <2>3, <2>4, <3>3
      <4>2. \A i \in 2..9 : layout[i] = "value"
        BY <2>0
      <4>3. QED
        BY <2>2, <3>3, <4>1, <4>2 DEF Add
    <3>4. CASE k = 5
      <4>1. s[k] = Resize(64) /\ size[k] = 10 /\ size[k + 1] = 64
        BY <2>3, <2>4, <3>4
      <4>2. \A i \in 10..63 : layout[i] = "zero"
        BY <2>0
      <4>3. QED
        BY <2>2, <3>4, <4>1, <4>2 DEF Resize
    <3>5. CASE k = 6
      BY <2>2, <2>3, <2>4, <3>5 DEF Do
    <3>6. QED
      BY <3>1, <3>2, <3>3, <3>4, <3>5
  <2>6. s[1].op = "reset"
    BY <2>3 DEF Do
  <2>7. Fills(s, size, layout)
    BY <2>2, <2>4, <2>5, <2>6 DEF Fills
  <2>8. \A k \in 1..n : /\ s[k].op \notin {"count", "unlock"}
                        /\ s[k].op = "write" <=> k = n
    <3>1. ASSUME NEW k \in 1..n
          PROVE  s[k].op \notin {"count", "unlock"} /\ (s[k].op = "write" <=> k = n)
      <4>1. CASE k = 1
        BY <2>2, <2>6, <4>1
      <4>2. CASE k \in 2..n
        BY <2>2, <2>5, <4>2
      <4>3. QED
        BY <2>2, <4>1, <4>2
    <3>2. QED
      BY <3>1
  <2>9. /\ \A k \in 2..(n + 1) : size[k] <= 64
        /\ \A k \in 2..4 : size[k] <= 64
        /\ size[n] = 64
    BY <2>2, <2>4, <2>5
  <2>10. Sized(s, r)
    BY <1>4, <2>2, <2>8, <2>9 DEF Sized, size
  <2>11. Ordered(s, r)
    BY <2>2, <2>8 DEF Ordered
  <2>12. QED
    BY <2>7, <2>10, <2>11 DEF size, layout
<1>5. CASE r.cmd = "handshake"
  <2>0. \A i \in 2..63 : layout[i] = "zero"
    BY <1>2, <1>5
  <2>1. s = <<Do("reset"), Add(1, "id"), Add(1, "cmd"), Resize(64), Do("write")>>
    BY <1>1, <1>5 DEF UsbHandler
  <2>2. s \in Seq(Operations) /\ n = 5 /\ Len(s) = 5
    BY <1>3, <2>1
  <2>3. /\ s[1] = Do("reset") /\ s[2] = Add(1, "id") /\ s[3] = Add(1, "cmd")
        /\ s[4] = Resize(64) /\ s[5] = Do("write")
    BY <2>1
  <2>4. /\ size[2] = 0 /\ size[3] = 1 /\ size[4] = 2 /\ size[5] = 64
        /\ size[6] = 64
    BY <1>5 DEF SizeBefore
  <2> HIDE DEF size, n
  <2>5. ASSUME NEW k \in 2..5 PROVE Good(k)
    <3>1. CASE k = 2
      BY <1>2, <2>2, <2>3, <2>4, <3>1 DEF Add
    <3>2. CASE k = 3
      BY <1>2, <2>2, <2>3, <2>4, <3>2 DEF Add
    <3>3. CASE k = 4
      <4>1. s[k] = Resize(64) /\ size[k] = 2 /\ size[k + 1] = 64
        BY <2>3, <2>4, <3>3
      <4>2. \A i \in 2..63 : layout[i] = "zero"
        BY <2>0
      <4>3. QED
        BY <2>2, <3>3, <4>1, <4>2 DEF Resize
    <3>4. CASE k = 5
      BY <2>2, <2>3, <2>4, <3>4 DEF Do
    <3>5. QED
      BY <3>1, <3>2, <3>3, <3>4
  <2>6. s[1].op = "reset"
    BY <2>3 DEF Do
  <2>7. Fills(s, size, layout)
    BY <2>2, <2>4, <2>5, <2>6 DEF Fills
  <2>8. \A k \in 1..n : /\ s[k].op \notin {"count", "unlock"}
                        /\ s[k].op = "write" <=> k = n
    <3>1. ASSUME NEW k \in 1..n
          PROVE  s[k].op \notin {"count", "unlock"} /\ (s[k].op = "write" <=> k = n)
      <4>1. CASE k = 1
        BY <2>2, <2>6, <4>1
      <4>2. CASE k \in 2..n
        BY <2>2, <2>5, <4>2
      <4>3. QED
        BY <2>2, <4>1, <4>2
    <3>2. QED
      BY <3>1
  <2>9. /\ \A k \in 2..(n + 1) : size[k] <= 64
        /\ \A k \in 2..4 : size[k] <= 64
        /\ size[n] = 64
    BY <2>2, <2>4, <2>5
  <2>10. Sized(s, r)
    BY <1>5, <2>2, <2>8, <2>9 DEF Sized, size
  <2>11. Ordered(s, r)
    BY <2>2, <2>8 DEF Ordered
  <2>12. QED
    BY <2>7, <2>10, <2>11 DEF size, layout
<1>6. CASE r.cmd = "baudrate_3m"
  <2>1. s = <<Do("reset"), Add(1, "id"), Add(1, "cmd"), Do("write")>>
    BY <1>1, <1>6 DEF UsbHandler
  <2>2. s \in Seq(Operations) /\ n = 4 /\ Len(s) = 4
    BY <1>3, <2>1
  <2>3. /\ s[1] = Do("reset") /\ s[2] = Add(1, "id") /\ s[3] = Add(1, "cmd")
        /\ s[4] = Do("write")
    BY <2>1
  <2>4. size[2] = 0 /\ size[3] = 1 /\ size[4] = 2 /\ size[5] = 2
    BY <1>6 DEF SizeBefore
  <2> HIDE DEF size, n
  <2>5. ASSUME NEW k \in 2..4 PROVE Good(k)
    <3>1. CASE k = 2
      BY <1>2, <2>2, <2>3, <2>4, <3>1 DEF Add
    <3>2. CASE k = 3
      <4>1. s[k] = Add(1, "cmd") /\ size[k] = 1 /\ size[k + 1] = 2
        BY <2>3, <2>4, <3>2
      <4>2. \A i \in 1..1 : layout[i] = "cmd"
        BY <1>2
      <4>3. QED
        BY <2>2, <3>2, <4>1, <4>2 DEF Add
    <3>3. CASE k = 4
      BY <2>2, <2>3, <2>4, <3>3 DEF Do
    <3>4. QED
      BY <3>1, <3>2, <3>3
  <2>6. s[1].op = "reset"
    BY <2>3 DEF Do
  <2>7. Fills(s, size, layout)
    BY <2>2, <2>4, <2>5, <2>6 DEF Fills
  <2>8. \A k \in 1..n : /\ s[k].op \notin {"count", "unlock"}
                        /\ s[k].op = "write" <=> k = n
    BY <2>2, <2>5, <2>6
  <2>9. /\ \A k \in 2..(n + 1) : size[k] <= 64
        /\ \A k \in 2..4 : size[k] <= 64
        /\ size[n] = 2
    BY <2>2, <2>4, <2>5
  <2>10. Sized(s, r)
    BY <1>6, <2>2, <2>8, <2>9 DEF Sized, size
  <2>11. Ordered(s, r)
    BY <2>2, <2>8 DEF Ordered
  <2>12. QED
    BY <2>7, <2>10, <2>11 DEF size, layout
<1>7. QED
  BY <1>4, <1>5, <1>6 DEF UsbQuestions

-----------------------------------------------------------------------------
(* The states of a handler that is answering.                               *)

IsAnswered(r) ==
  \/ IsUsbQuestion(r)
  \/ IsSubcmd(r) /\ IsComplete(r) /\ IsReadable(r)

\* The k-th operation of the answer is the next one, and what comes before it
\* has filled the array from its start.
AtAnswer(k) ==
  /\ todo = SubSeq(AnswerTo(report), k, Len(AnswerTo(report)))
  /\ written <=> AnswerTo(report)[k].op = "unlock"
  /\ k > 1 =>
       /\ buf = [data |-> 0, size |-> SizeBefore(report)[k]]
       /\ \A j \in 2..k : SizeBefore(report)[j] <= 64
       /\ \A i \in 0..(buf.size - 1) : array[i] = Layout(report)[i]

Answering ==
  /\ IsAnswered(report)
  /\ locked <=> report.id = "rumble_and_subcmd"
  /\ \E k \in 1..Len(AnswerTo(report)) : AtAnswer(k)

\* What an answer of either kind is made of, and that the unlock is its end.
LEMMA AnswersFill ==
  ASSUME NEW r \in AllReports, IsAnswered(r), NEW s, s = AnswerTo(r)
  PROVE  /\ Fills(s, SizeBefore(r), Layout(r)) /\ Ordered(s, r) /\ Sized(s, r)
         /\ s \in Seq(Operations)
         /\ Len(s) \in Nat /\ Len(s) >= 2
<1>1. CASE r.id = "usb_cmd" /\ r.cmd \in UsbQuestions
  BY <1>1, UsbAnswersFill DEF Fills
<1>2. CASE r.id = "rumble_and_subcmd"
  <2>1. r.id # "usb_cmd"
    BY <1>2
  <2>2. Fills(s, SizeBefore(r), Layout(r)) /\ Ordered(s, r) /\ Sized(s, r)
    BY <2>1, SubcmdAnswersFill, Zenon
  <2>3. QED
    BY <2>2 DEF Fills
<1>3. QED
  BY <1>1, <1>2 DEF IsAnswered, IsUsbQuestion, IsSubcmd, UsbQuestions

\* What is left of a sequence from its k-th element on.
LEMMA RestOf ==
  ASSUME NEW s \in Seq(Operations), NEW k \in 1..Len(s),
         NEW rest, rest = SubSeq(s, k, Len(s))
  PROVE  /\ rest # <<>>
         /\ Head(rest) = s[k]
         /\ Tail(rest) = SubSeq(s, k + 1, Len(s))
         /\ k = Len(s) => Tail(rest) = <<>>
<1>1. Len(s) \in Nat /\ k \in Nat /\ Len(s) \in k..Len(s)
  BY LenProperties
<1>2. Head(rest) = s[k] /\ Tail(rest) = SubSeq(s, k + 1, Len(s))
  BY <1>1, HeadTailOfSubSeq
<1>3. rest # <<>>
  <2>0. \A i \in k..Len(s) : s[i] \in Operations
    BY <1>1, ElementOfSeq
  <2>1. Len(rest) = Len(s) - k + 1
    BY <1>1, <2>0, SubSeqProperties
  <2>2. Len(rest) # 0
    BY <1>1, <2>1
  <2>3. QED
    BY <2>2, EmptySeq
<1>4. ASSUME k = Len(s) PROVE Tail(rest) = <<>>
  BY <1>1, <1>2, <1>4, SubSeqEmpty
<1>5. QED
  BY <1>2, <1>3, <1>4

\* A step of the handler while it is answering is the next operation of the
\* answer, or ends the handler.
LEMMA AnswerStep ==
  ASSUME Capacity = 64, ReportsInv, ReportsInv', Answering, [Next]_vars
  PROVE  todo' = <<>> \/ Answering'
<1> DEFINE A == AnswerTo(report)
           size == SizeBefore(report)
           layout == Layout(report)
<1>1. PICK k \in 1..Len(A) : AtAnswer(k)
  BY DEF Answering
<1>2. report \in AllReports /\ IsAnswered(report)
  BY DEF ReportsInv, TypeOK, Answering
<1>3. /\ Fills(A, size, layout) /\ Ordered(A, report)
      /\ A \in Seq(Operations)
      /\ Len(A) \in Nat /\ Len(A) >= 2
  BY <1>2, AnswersFill, Zenon
<1>b. /\ A[k].op = "unlock" => k = Len(A)
      /\ k < Len(A) => (A[k].op = "write" <=> A[k + 1].op = "unlock")
  BY <1>3 DEF Ordered
<1>4. /\ todo = SubSeq(A, k, Len(A))
      /\ written <=> A[k].op = "unlock"
      /\ k > 1 =>
           /\ buf = [data |-> 0, size |-> size[k]]
           /\ \A j \in 2..k : size[j] <= 64
           /\ \A i \in 0..(buf.size - 1) : array[i] = layout[i]
  BY <1>1 DEF AtAnswer
<1>5. /\ todo # <<>>
      /\ Head(todo) = A[k]
      /\ Tail(todo) = SubSeq(A, k + 1, Len(A))
      /\ k = Len(A) => Tail(todo) = <<>>
  BY <1>3, <1>4, RestOf
<1>6. /\ k = 1 => A[k].op = "reset" /\ size[k + 1] = 0
      /\ k > 1 =>
           /\ A[k].op \in {"add", "count", "resize", "write", "unlock"}
           /\ size[k] \in Nat /\ size[k + 1] \in Nat
           /\ A[k].op \in {"add", "count"} => size[k + 1] = size[k] + A[k].n
           /\ A[k].op = "resize" => size[k + 1] = A[k].n
           /\ A[k].op \in {"write", "unlock"} => size[k + 1] = size[k]
           /\ \A i \in size[k]..(size[k + 1] - 1) : layout[i] = A[k].field
  <2>1. ASSUME k > 1 PROVE k \in 2..Len(A)
    BY <1>3, <2>1
  <2>2. QED
    BY <1>3, <2>1 DEF Fills
<1>a. ASSUME NEW n, buf' = [data |-> 0, size |-> n]
      PROVE  n \in Nat /\ n <= 64 /\ 0..(n - 1) \subseteq 0..(Capacity - 1)
  <2>1. buf' \in Buffer
    BY DEF ReportsInv, TypeOK
  <2>2. buf'.size \in 0..64
    BY <2>1 DEF Buffer
  <2>3. n \in 0..64
    BY <1>a, <2>2
  <2>4. QED
    BY <2>3
<1>7. A[k] \in Operations
  BY <1>3, ElementOfSeq
\* The next place of the answer is reached by filling what the operation adds.
<1>8. ASSUME report' = report, locked' = locked, todo' = Tail(todo),
             buf' = [data |-> 0, size |-> size[k + 1]],
             written' <=> written \/ A[k].op = "write",
             \A i \in 0..(buf'.size - 1) : array'[i] = layout[i]
      PROVE  todo' = <<>> \/ Answering'
  <2> SUFFICES ASSUME k # Len(A) PROVE Answering'
    BY <1>5, <1>8
  <2>1. k + 1 \in 1..Len(A)
    BY <1>3
  <2>2. size[k + 1] <= 64
    BY <1>8, <1>a, Zenon
  <2>3. \A j \in 2..(k + 1) : size[j] <= 64
    <3> SUFFICES ASSUME NEW j \in 2..(k + 1), j # k + 1 PROVE size[j] <= 64
      BY <2>2
    <3>1. j \in 2..k /\ k > 1
      OBVIOUS
    <3>2. QED
      BY <1>4, <3>1
  <2>4. AtAnswer(k + 1)'
    <3>1. written' <=> A[k + 1].op = "unlock"
      BY <1>3, <1>4, <1>8, <1>b
    <3>2. QED
      BY <1>5, <1>8, <2>3, <3>1 DEF AtAnswer
  <2>5. QED
    BY <1>8, <2>1, <2>4 DEF Answering, IsAnswered
<1> HIDE DEF A, size, layout
<1>9. CASE PullStep \/ SwitchReportId \/ SwitchUsbCmd \/ LockAndSwitchSubcmd
           \/ FlashInRange \/ FlashOutOfRange
  BY <1>5, <1>6, <1>9 DEF PullStep, SwitchReportId, SwitchUsbCmd,
     LockAndSwitchSubcmd, FlashInRange, FlashOutOfRange, NextIs
<1>10. CASE Fails
  BY <1>10 DEF Fails
<1>11. CASE ResetStep
  <2>1. k = 1
    BY <1>5, <1>6, <1>11 DEF ResetStep, NextIs
  <2>2. /\ report' = report /\ locked' = locked /\ todo' = Tail(todo)
        /\ buf' = [data |-> 0, size |-> size[k + 1]]
    BY <1>6, <1>11, <2>1 DEF ResetStep, Reset
  <2>w. written' <=> written \/ A[k].op = "write"
    BY <1>6, <1>11, <2>1 DEF ResetStep
  <2>3. \A i \in 0..(buf'.size - 1) : array'[i] = layout[i]
    BY <1>6, <2>1, <2>2
  <2>4. QED
    BY <1>8, <2>2, <2>3, <2>w
<1>12. CASE AddStep
  <2>1. k > 1 /\ A[k].op \in {"add", "count"}
    BY <1>5, <1>6, <1>12 DEF AddStep, NextIs
  <2>2. /\ report' = report /\ locked' = locked /\ todo' = Tail(todo)
        /\ buf' = [data |-> 0, size |-> size[k + 1]]
        /\ array' = Set(size[k], A[k].n, A[k].field)
    BY <1>4, <1>5, <1>6, <1>12, <2>1 DEF AddStep, Added, TailOf
  <2>w. written' <=> written \/ A[k].op = "write"
    BY <1>12, <2>1 DEF AddStep
  <2>3. 0..(size[k + 1] - 1) \subseteq 0..(Capacity - 1)
    BY <1>a, <2>2, Zenon
  <2>4. ASSUME NEW i \in 0..(size[k + 1] - 1) PROVE array'[i] = layout[i]
    <3>1. /\ i \in 0..(Capacity - 1) /\ size[k + 1] = size[k] + A[k].n
          /\ size[k] \in Nat /\ A[k].n \in Nat
      <4>1. i \in 0..(Capacity - 1)
        BY <2>3
      <4>2. size[k] \in Nat /\ size[k + 1] = size[k] + A[k].n
        BY <1>6, <2>1
      <4>3. A[k].n \in Nat
        BY <1>7 DEF Operations
      <4>4. QED
        BY <4>1, <4>2, <4>3
    <3>2. array'[i] = IF size[k] <= i /\ i < size[k + 1] THEN A[k].field ELSE array[i]
      BY <2>2, <3>1 DEF Set
    <3>3. CASE i < size[k]
      BY <1>4, <2>1, <3>1, <3>2, <3>3
    <3>4. CASE i >= size[k]
      BY <1>6, <2>1, <3>1, <3>2, <3>4
    <3>5. QED
      BY <3>1, <3>3, <3>4
  <2>5. QED
    BY <1>8, <2>2, <2>4, <2>w
<1>13. CASE ResizeStep
  <2>1. k > 1 /\ A[k].op = "resize"
    BY <1>5, <1>6, <1>13 DEF ResizeStep, NextIs
  <2>2. /\ report' = report /\ locked' = locked /\ todo' = Tail(todo)
        /\ buf' = [data |-> 0, size |-> size[k + 1]]
        /\ array' = Set(size[k], size[k + 1] - size[k], A[k].field)
    BY <1>4, <1>5, <1>6, <1>13, <2>1 DEF ResizeStep, Resized, TailOf
  <2>w. written' <=> written \/ A[k].op = "write"
    BY <1>13, <2>1 DEF ResizeStep
  <2>3. 0..(size[k + 1] - 1) \subseteq 0..(Capacity - 1)
    BY <1>a, <2>2, Zenon
  <2>4. ASSUME NEW i \in 0..(size[k + 1] - 1) PROVE array'[i] = layout[i]
    <3>1. /\ i \in 0..(Capacity - 1) /\ size[k + 1] \in Nat /\ size[k] \in Nat
          /\ size[k] + (size[k + 1] - size[k]) = size[k + 1]
      <4>1. i \in 0..(Capacity - 1)
        BY <2>3
      <4>2. size[k + 1] \in Nat /\ size[k] \in Nat
        BY <1>6, <2>1
      <4>3. QED
        BY <4>1, <4>2
    <3>2. array'[i] = IF size[k] <= i /\ i < size[k + 1] THEN A[k].field ELSE array[i]
      BY <2>2, <3>1 DEF Set
    <3>3. CASE i < size[k]
      BY <1>4, <2>1, <3>1, <3>2, <3>3
    <3>4. CASE i >= size[k]
      BY <1>6, <2>1, <3>1, <3>2, <3>4
    <3>5. QED
      BY <3>1, <3>3, <3>4
  <2>5. QED
    BY <1>8, <2>2, <2>4, <2>w
<1>14. CASE WriteStep
  <2>1. k > 1 /\ size[k + 1] = size[k]
    BY <1>5, <1>6, <1>14 DEF WriteStep, NextIs
  <2>w. written' /\ A[k].op = "write"
    BY <1>5, <1>14 DEF WriteStep, NextIs
  <2>2. QED
    BY <1>4, <1>8, <1>14, <2>1, <2>w DEF WriteStep
<1>15. CASE UnlockStep
  BY <1>5, <1>b, <1>15 DEF UnlockStep, NextIs
<1>16. CASE OthersCount \/ UNCHANGED vars
  <2>1. UNCHANGED <<report, todo, buf, array, locked, written>>
    BY <1>16 DEF OthersCount, vars
  <2>2. QED
    BY <2>1 DEF Answering, AtAnswer, IsAnswered
<1>17. ASSUME NEW r \in Reports, Receive(r) PROVE FALSE
  BY <1>5, <1>17 DEF Receive
<1>18. QED
  BY <1>9, <1>10, <1>11, <1>12, <1>13, <1>14, <1>15, <1>16, <1>17 DEF Next

-----------------------------------------------------------------------------
(* The states of a handler that is still taking the request apart.           *)

RequestOps == {"pull", "report_id", "usb_cmd", "lock", "flash_range"}

\* A part of the handlers that pulls bytes and then may switch, with the number
\* of bytes that are gone before each of its operations.
Pulls(part, gone) ==
  /\ part \in Seq(Operations)
  /\ \A k \in 1..Len(part) :
       /\ gone[k] \in Nat
       /\ part[k].op \in RequestOps
       /\ k < Len(part) => part[k].op = "pull" /\ gone[k + 1] = gone[k] + part[k].n
       /\ gone[1] <= gone[k] /\ gone[k] <= gone[Len(part)]

\* The bytes gone before each operation of ReportHandler.
GoneIn(r) ==
  IF r.id = "rumble_and_subcmd" THEN <<1, 2, 6, 10, 11>>
  ELSE IF r.id = "rumble" THEN <<1, 2, 6>> ELSE <<1, 2>>

AtPart(part, gone) ==
  \E k \in 1..Len(part) :
    todo = SubSeq(part, k, Len(part)) /\ buf.data = gone[k]

Taking == ~written /\ buf.data + buf.size = report.len

ReadingId == ~locked /\ AtPart(OnOutputReport, <<0, 1>>)

ReadingReport == ~locked /\ AtPart(ReportHandler(report), GoneIn(report))

ReadingFlash ==
  /\ locked /\ report.id = "rumble_and_subcmd" /\ report.cmd = "flash_read"
  /\ AtPart(FlashRead(report), <<11, 15, 16>>)

ReadingParameter ==
  /\ locked /\ report.id = "rumble_and_subcmd" /\ report.cmd \in WithOneParameter
  /\ todo = <<Pull(1)>> \o AnswerTo(report)
  /\ buf.data = 11

Reading ==
  Taking /\ (ReadingId \/ ReadingReport \/ ReadingFlash \/ ReadingParameter)

Beginning ==
  /\ IsAnswered(report)
  /\ locked <=> report.id = "rumble_and_subcmd"
  /\ AtAnswer(1)

AnswerInv == ReportsInv /\ (todo = <<>> \/ Reading \/ Answering)

\* A handler that starts with the first operation of its answer is answering.
LEMMA AnswerBegins ==
  ASSUME ReportsInv', IsAnswered(report'), todo' = AnswerTo(report'),
         locked' <=> report'.id = "rumble_and_subcmd", ~written'
  PROVE  Beginning'
<1>1. report' \in AllReports
  BY DEF ReportsInv, TypeOK
<1>2. /\ AnswerTo(report') \in Seq(Operations)
      /\ Len(AnswerTo(report')) \in Nat /\ Len(AnswerTo(report')) >= 2
      /\ Fills(AnswerTo(report'), SizeBefore(report'), Layout(report'))
  BY <1>1, AnswersFill, Zenon
<1>3. SubSeq(AnswerTo(report'), 1, Len(AnswerTo(report'))) = AnswerTo(report')
  BY <1>2, SubSeqFull
<1>4. AnswerTo(report')[1].op = "reset"
  BY <1>2 DEF Fills
<1>5. AtAnswer(1)'
  BY <1>3, <1>4 DEF AtAnswer
<1>6. QED
  BY <1>5 DEF Beginning

\* The beginning is one of the places of an answer.
LEMMA BeginningIsAnswering == ReportsInv /\ Beginning => Answering
<1> SUFFICES ASSUME ReportsInv, Beginning PROVE Answering
  OBVIOUS
<1>1. report \in AllReports /\ IsAnswered(report)
  BY DEF ReportsInv, TypeOK, Beginning
<1>2. Len(AnswerTo(report)) \in Nat /\ Len(AnswerTo(report)) >= 2
  BY <1>1, AnswersFill, Zenon
<1>3. 1 \in 1..Len(AnswerTo(report))
  BY <1>2
<1>4. QED
  BY <1>3 DEF Beginning, Answering

\* The parts of the handlers that take a request apart, and how each ends.
LEMMA RequestShapes ==
  ASSUME NEW r \in AllReports
  PROVE  /\ Pulls(OnOutputReport, <<0, 1>>) /\ Len(OnOutputReport) = 2
         /\ OnOutputReport[2].op = "report_id"
         /\ r.id \in {"rumble_and_subcmd", "rumble", "usb_cmd"} =>
              Pulls(ReportHandler(r), GoneIn(r))
         /\ r.id = "rumble_and_subcmd" =>
              /\ Len(ReportHandler(r)) = 5 /\ ReportHandler(r)[5].op = "lock"
              /\ GoneIn(r)[5] = 11
         /\ r.id = "rumble" =>
              Len(ReportHandler(r)) = 3 /\ ReportHandler(r)[3].op = "pull"
         /\ r.id = "usb_cmd" =>
              /\ Len(ReportHandler(r)) = 2 /\ ReportHandler(r)[2].op = "usb_cmd"
              /\ GoneIn(r)[2] = 2
         /\ r.id \notin {"rumble_and_subcmd", "rumble", "usb_cmd"} =>
              ReportHandler(r) = <<>>
         /\ Pulls(FlashRead(r), <<11, 15, 16>>) /\ Len(FlashRead(r)) = 3
         /\ FlashRead(r)[3].op = "flash_range"
<1>1. /\ \A op \in RequestOps : Do(op) \in Operations /\ Do(op).op = op
      /\ \A n \in Nat : Pull(n) \in Operations /\ Pull(n).op = "pull" /\ Pull(n).n = n
  BY DEF RequestOps, Pull, Do, Operations, Ops, Fields
<1>2. /\ Pulls(OnOutputReport, <<0, 1>>) /\ Len(OnOutputReport) = 2
      /\ OnOutputReport[2].op = "report_id"
  BY <1>1 DEF OnOutputReport, Pulls, RequestOps
<1>3. ASSUME r.id = "rumble_and_subcmd"
      PROVE  /\ Pulls(ReportHandler(r), GoneIn(r))
             /\ Len(ReportHandler(r)) = 5 /\ ReportHandler(r)[5].op = "lock"
             /\ GoneIn(r)[5] = 11
  <2>1. /\ ReportHandler(r) = <<Pull(1), Pull(4), Pull(4), Pull(1), Do("lock")>>
        /\ GoneIn(r) = <<1, 2, 6, 10, 11>>
    BY <1>3 DEF ReportHandler, GoneIn
  <2>2. QED
    BY <1>1, <2>1 DEF Pulls, RequestOps
<1>4. ASSUME r.id = "rumble"
      PROVE  /\ Pulls(ReportHandler(r), GoneIn(r))
             /\ Len(ReportHandler(r)) = 3 /\ ReportHandler(r)[3].op = "pull"
  <2>1. /\ ReportHandler(r) = <<Pull(1), Pull(4), Pull(4)>>
        /\ GoneIn(r) = <<1, 2, 6>>
    BY <1>4 DEF ReportHandler, GoneIn
  <2>2. QED
    BY <1>1, <2>1 DEF Pulls, RequestOps
<1>5. ASSUME r.id = "usb_cmd"
      PROVE  /\ Pulls(ReportHandler(r), GoneIn(r))
             /\ Len(ReportHandler(r)) = 2 /\ ReportHandler(r)[2].op = "usb_cmd"
             /\ GoneIn(r)[2] = 2
  <2>1. /\ ReportHandler(r) = <<Pull(1), Do("usb_cmd")>>
        /\ GoneIn(r) = <<1, 2>>
    BY <1>5 DEF ReportHandler, GoneIn
  <2>2. QED
    BY <1>1, <2>1 DEF Pulls, RequestOps
<1>6. r.id \notin {"rumble_and_subcmd", "rumble", "usb_cmd"} =>
        ReportHandler(r) = <<>>
  BY DEF ReportHandler
<1>7. /\ Pulls(FlashRead(r), <<11, 15, 16>>) /\ Len(FlashRead(r)) = 3
      /\ FlashRead(r)[3].op = "flash_range"
  BY <1>1 DEF FlashRead, Pulls, RequestOps
<1>8. QED
  BY <1>2, <1>3, <1>4, <1>5, <1>6, <1>7

\* What a subcommand's or a USB command's handler is, with respect to its
\* answer.
LEMMA HandlersAnswer ==
  ASSUME NEW r \in AllReports
  PROVE  /\ r.id = "usb_cmd" =>
              UsbHandler(r) = IF r.cmd \in UsbQuestions THEN AnswerTo(r) ELSE <<>>
         /\ r.id = "rumble_and_subcmd" /\ r.cmd = "flash_read" =>
              SubcmdHandler(r) = FlashRead(r) /\ FlashAnswer(r) = AnswerTo(r)
         /\ r.id = "rumble_and_subcmd" /\ r.cmd \in WithOneParameter =>
              SubcmdHandler(r) = <<Pull(1)>> \o AnswerTo(r)
         /\ r.id = "rumble_and_subcmd"
                /\ r.cmd \notin WithOneParameter \cup {"flash_read"} =>
              SubcmdHandler(r) = AnswerTo(r)
<1>1. ASSUME r.id = "usb_cmd"
      PROVE  UsbHandler(r) = IF r.cmd \in UsbQuestions THEN AnswerTo(r) ELSE <<>>
  <2>1. AnswerTo(r) = UsbHandler(r)
    BY <1>1 DEF AnswerTo
  <2>2. r.cmd \notin UsbQuestions => UsbHandler(r) = <<>>
    BY DEF UsbHandler, UsbQuestions
  <2>3. QED
    BY <2>1, <2>2
<1>2. ASSUME r.id = "rumble_and_subcmd" PROVE AnswerTo(r) = SubcmdAnswer(BodyOf(r))
  BY <1>2 DEF AnswerTo
<1>3. ASSUME r.cmd = "flash_read"
      PROVE  /\ SubcmdHandler(r) = FlashRead(r)
             /\ FlashAnswer(r) = SubcmdAnswer(BodyOf(r))
  <2>1. SubcmdHandler(r) = FlashRead(r)
    BY <1>3 DEF SubcmdHandler, WithOneParameter
  <2>2. BodyOf(r) = <<Add(4, "address"), Add(1, "size"), Add(r.size, "flash")>>
    BY <1>3 DEF BodyOf
  <2>3. QED
    BY <2>1, <2>2, Zenon DEF FlashAnswer
<1>4. ASSUME r.cmd \in WithOneParameter
      PROVE  SubcmdHandler(r) = <<Pull(1)>> \o SubcmdAnswer(BodyOf(r))
  <2>1. SubcmdHandler(r) = <<Pull(1)>> \o SubcmdAnswer(<<>>)
    BY <1>4 DEF SubcmdHandler, WithOneParameter
  <2>2. BodyOf(r) = <<>>
    BY <1>4 DEF BodyOf, WithOneParameter
  <2>3. QED
    BY <2>1, <2>2, Zenon
<1>5. ASSUME r.cmd \notin WithOneParameter \cup {"flash_read"}
      PROVE  SubcmdHandler(r) = SubcmdAnswer(BodyOf(r))
  <2>1. CASE r.cmd = "req_devinfo"
    <3>1. SubcmdHandler(r) = SubcmdAnswer(Devinfo)
      BY <2>1 DEF SubcmdHandler, WithOneParameter
    <3>2. BodyOf(r) = Devinfo
      BY <2>1 DEF BodyOf
    <3>3. QED
      BY <3>1, <3>2, Zenon
  <2>2. CASE r.cmd \in NoParameter
    <3>1. SubcmdHandler(r) = SubcmdAnswer(<<>>)
      BY <2>2 DEF SubcmdHandler, WithOneParameter, NoParameter
    <3>2. BodyOf(r) = <<>>
      BY <2>2 DEF BodyOf, NoParameter
    <3>3. QED
      BY <3>1, <3>2, Zenon
  <2>3. CASE r.cmd \notin NoParameter \cup {"req_devinfo"}
    <3>1. SubcmdHandler(r) = SubcmdAnswer(<<Add(1, "value")>>)
      BY <1>5, <2>3 DEF SubcmdHandler, NoParameter
    <3>2. BodyOf(r) = <<Add(1, "value")>>
      BY <1>5, <2>3 DEF BodyOf
    <3>3. QED
      BY <3>1, <3>2, Zenon
  <2>4. QED
    BY <2>1, <2>2, <2>3
<1>6. QED
  BY <1>1, <1>2, <1>3, <1>4, <1>5, Zenon

\* The classes of reports that end early or are answered.
LEMMA ClassOf ==
  ASSUME NEW r \in AllReports
  PROVE  /\ IsUsbQuestion(r) => Class(r) = "usb"
         /\ IsSubcmd(r) /\ ~(IsComplete(r) /\ IsReadable(r)) => Class(r) = "rejected"
         /\ IsSubcmd(r) /\ IsComplete(r) /\ IsReadable(r) =>
              Class(r) = IF IsAnswerable(r) THEN "answered" ELSE "overflow"
         /\ ~IsUsbQuestion(r) /\ ~IsSubcmd(r) => Class(r) = "silent"
<1>1. ~(IsUsbQuestion(r) /\ IsSubcmd(r))
  BY DEF IsUsbQuestion, IsSubcmd
<1>2. QED
  BY <1>1 DEF Class

\* The steps that can be taken in such a part.
PartGoesOn(part, gone) ==
  \/ OthersCount /\ AtPart(part, gone)' /\ Taking'
  \/ /\ UNCHANGED <<report, locked, timer, written>>
     /\ \/ part[Len(part)].op = "pull" /\ todo' = <<>>
        \/ AtPart(part, gone)' /\ Taking'
  \/ /\ UNCHANGED <<report, timer, written>>
     /\ todo' = <<>> /\ report.len >= gone[1]
     /\ part[Len(part)].op = "pull" \/ report.len < gone[Len(part)]
  \/ /\ \/ SwitchReportId \/ SwitchUsbCmd \/ LockAndSwitchSubcmd
        \/ FlashInRange \/ FlashOutOfRange
     /\ UNCHANGED <<report, timer, written, buf>>
     /\ Head(todo) = part[Len(part)] /\ report.len >= gone[Len(part)]
     /\ buf.data = gone[Len(part)]

\* A part of a handler pulls its next bytes, finds too few of them, or has
\* come to its switch.
LEMMA PartStep ==
  ASSUME NEW part, NEW gone, Pulls(part, gone), part # <<>>,
         ReportsInv, Taking, AtPart(part, gone), Next
  PROVE  PartGoesOn(part, gone)
<1>1. PICK k \in 1..Len(part) :
        todo = SubSeq(part, k, Len(part)) /\ buf.data = gone[k]
  BY DEF AtPart
<1>2. /\ part \in Seq(Operations) /\ Len(part) \in Nat
      /\ gone[k] \in Nat /\ gone[Len(part)] \in Nat /\ gone[1] \in Nat
      /\ part[k].op \in RequestOps
      /\ k < Len(part) => part[k].op = "pull" /\ gone[k + 1] = gone[k] + part[k].n
      /\ k < Len(part) => k + 1 \in 1..Len(part)
                        /\ gone[k + 1] \in Nat /\ gone[k + 1] <= gone[Len(part)]
      /\ gone[1] <= gone[k]
  <2>1. part \in Seq(Operations) /\ Len(part) \in Nat
    BY LenProperties DEF Pulls
  <2>2. 1 \in 1..Len(part) /\ Len(part) \in 1..Len(part)
    BY <2>1
  <2>3. k < Len(part) => k + 1 \in 1..Len(part)
    BY <2>1
  <2>4. QED
    BY <2>1, <2>2, <2>3 DEF Pulls
<1>3. /\ todo # <<>> /\ Head(todo) = part[k]
      /\ Tail(todo) = SubSeq(part, k + 1, Len(part))
      /\ k = Len(part) => Tail(todo) = <<>>
  BY <1>1, <1>2, RestOf
<1>4. part[k] \in Operations /\ part[k].n \in Nat
  <2>1. part[k] \in Operations
    BY <1>2, ElementOfSeq
  <2>2. QED
    BY <2>1 DEF Operations
<1>5. /\ buf.data \in Nat /\ buf.size \in Nat /\ buf.data + buf.size = report.len
      /\ buf = [data |-> buf.data, size |-> buf.size]
  BY BufAssumption DEF ReportsInv, TypeOK, Buffer, Taking
<1>6. CASE OthersCount
  <2>1. UNCHANGED <<report, todo, buf, written>>
    BY <1>6 DEF OthersCount
  <2>2. QED
    BY <1>6, <2>1 DEF AtPart, Taking, PartGoesOn
<1>7. CASE PullStep
  <2>1. /\ buf' = [data |-> buf.data + part[k].n, size |-> buf.size - part[k].n]
        /\ todo' = Tail(todo) /\ UNCHANGED <<report, locked, timer, written>>
        /\ part[k].op = "pull"
    BY <1>3, <1>7 DEF PullStep, NextIs, Pulled
  <2>2. CASE k = Len(part)
    BY <1>3, <2>1, <2>2 DEF PartGoesOn
  <2>3. CASE k < Len(part)
    <3>1. buf'.data = gone[k + 1]
      BY <1>1, <1>2, <2>1, <2>3
    <3>2. AtPart(part, gone)'
      BY <1>2, <1>3, <2>1, <2>3, <3>1 DEF AtPart
    <3>3. Taking'
      BY <1>4, <1>5, <2>1 DEF Taking
    <3>4. QED
      BY <2>1, <3>2, <3>3 DEF PartGoesOn
  <2>4. QED
    BY <1>2, <2>2, <2>3
<1>8. CASE Fails
  <2>1. ~Fits(part[k])
    BY <1>3, <1>8 DEF Fails
  <2>2. part[k].op = "pull" /\ ~(part[k].n <= buf.size)
    BY <1>2, <2>1 DEF Fits, RequestOps, CanPull
  <2>3. UNCHANGED <<report, timer, written>> /\ todo' = <<>>
    BY <1>3, <1>8, <2>2 DEF Fails, NextIs
  <2>4. report.len >= gone[1]
    BY <1>1, <1>2, <1>5
  <2>5. part[Len(part)].op = "pull" \/ report.len < gone[Len(part)]
    <3>1. CASE k = Len(part)
      BY <2>2, <3>1
    <3>2. CASE k < Len(part)
      BY <1>1, <1>2, <1>4, <1>5, <2>2, <3>2
    <3>3. QED
      BY <1>2, <3>1, <3>2
  <2>6. QED
    BY <2>3, <2>4, <2>5 DEF PartGoesOn
<1>9. CASE \/ SwitchReportId \/ SwitchUsbCmd \/ LockAndSwitchSubcmd
           \/ FlashInRange \/ FlashOutOfRange
  <2>1. part[k].op # "pull"
    BY <1>3, <1>9 DEF SwitchReportId, SwitchUsbCmd, LockAndSwitchSubcmd,
       FlashInRange, FlashOutOfRange, NextIs
  <2>2. k = Len(part)
    BY <1>2, <2>1
  <2>3. UNCHANGED <<report, timer, written, buf>>
    BY <1>9 DEF SwitchReportId, SwitchUsbCmd, LockAndSwitchSubcmd,
       FlashInRange, FlashOutOfRange
  <2>4. report.len >= gone[Len(part)]
    BY <1>1, <1>2, <1>5, <2>2
  <2>5. QED
    BY <1>1, <1>3, <1>9, <2>2, <2>3, <2>4 DEF PartGoesOn
<1>10. ASSUME \/ \E r \in Reports : Receive(r)
              \/ AddStep \/ ResizeStep \/ ResetStep \/ WriteStep \/ UnlockStep
       PROVE  FALSE
  BY <1>2, <1>3, <1>10 DEF Receive, AddStep, ResizeStep, ResetStep, WriteStep,
     UnlockStep, NextIs, RequestOps
<1>11. QED
  BY <1>6, <1>7, <1>8, <1>9, <1>10 DEF Next

\* Reading a report goes on, ends early with a report that asks for nothing or
\* is rejected, or comes to the beginning of an answer.
ReadsOn ==
  \/ OthersCount /\ Reading'
  \/ /\ UNCHANGED <<report, timer, written>>
     /\ \/ todo' = <<>> /\ Class(report) \in {"silent", "rejected"}
        \/ Reading'
        \/ Beginning'

LEMMA ReadingIdStep ==
  ASSUME ReportsInv, Taking, ReadingId, Next PROVE ReadsOn
<1> DEFINE part == OnOutputReport
           gone == <<0, 1>>
<1>1. /\ report \in AllReports /\ report.len \in Nat
      /\ locked \in BOOLEAN
  BY BufAssumption DEF ReportsInv, TypeOK, AllReports
<1>2. /\ Pulls(part, gone) /\ Len(part) = 2 /\ part[2].op = "report_id"
      /\ part # <<>>
  BY <1>1, RequestShapes DEF OnOutputReport
<1>3. gone[1] = 0 /\ gone[2] = 1
  OBVIOUS
<1> HIDE DEF part, gone
<1>4. ~locked /\ AtPart(part, gone)
  BY DEF ReadingId, part, gone
<1>5. ASSUME AtPart(part, gone)', Taking', ~locked' PROVE Reading'
  BY <1>5 DEF Reading, ReadingId, part, gone
<1>6. \/ OthersCount /\ AtPart(part, gone)' /\ Taking'
      \/ /\ UNCHANGED <<report, locked, timer, written>>
         /\ AtPart(part, gone)' /\ Taking'
      \/ /\ UNCHANGED <<report, timer, written>>
         /\ todo' = <<>> /\ report.len < 1
      \/ /\ \/ SwitchReportId \/ SwitchUsbCmd \/ LockAndSwitchSubcmd
            \/ FlashInRange \/ FlashOutOfRange
         /\ UNCHANGED <<report, timer, written, buf>>
         /\ Head(todo).op = "report_id"
         /\ buf.data = 1
  <2>1. PartGoesOn(part, gone)
    BY <1>2, <1>4, PartStep, Zenon
  <2>2. QED
    BY <1>2, <1>3, <2>1 DEF PartGoesOn
<1>7. CASE OthersCount /\ AtPart(part, gone)' /\ Taking'
  BY <1>4, <1>5, <1>7 DEF OthersCount, ReadsOn
<1>8. CASE /\ UNCHANGED <<report, locked, timer, written>>
           /\ AtPart(part, gone)' /\ Taking'
  BY <1>4, <1>5, <1>8 DEF ReadsOn
<1>9. CASE /\ UNCHANGED <<report, timer, written>>
           /\ todo' = <<>> /\ report.len < 1
  <2>1. Class(report) = "silent"
    BY <1>1, <1>9, ClassOf DEF IsUsbQuestion, IsSubcmd, SubcmdOffset
  <2>2. QED
    BY <1>9, <2>1 DEF ReadsOn
<1>10. CASE /\ \/ SwitchReportId \/ SwitchUsbCmd \/ LockAndSwitchSubcmd
               \/ FlashInRange \/ FlashOutOfRange
            /\ UNCHANGED <<report, timer, written, buf>>
            /\ Head(todo).op = "report_id"
            /\ buf.data = 1
  <2>1. todo' = ReportHandler(report) /\ locked' = locked
    BY <1>10 DEF SwitchReportId, SwitchUsbCmd, LockAndSwitchSubcmd,
       FlashInRange, FlashOutOfRange, NextIs
  <2>2. CASE report.id \in {"rumble_and_subcmd", "rumble", "usb_cmd"}
    <3> DEFINE handler == ReportHandler(report)
    <3>1. handler \in Seq(Operations) /\ 1 \in 1..Len(handler)
      BY <1>1, <2>2, RequestShapes DEF Pulls
    <3>2. GoneIn(report)[1] = 1
      BY DEF GoneIn
    <3> HIDE DEF handler
    <3>3. handler = SubSeq(handler, 1, Len(handler))
      BY <3>1, SubSeqFull
    <3>4. AtPart(handler, GoneIn(report))'
      BY <1>10, <2>1, <3>1, <3>2, <3>3 DEF AtPart, handler
    <3>5. Reading'
      BY <1>4, <1>10, <2>1, <3>4 DEF Reading, ReadingReport, Taking, handler
    <3>6. QED
      BY <1>10, <3>5 DEF ReadsOn
  <2>3. CASE report.id \notin {"rumble_and_subcmd", "rumble", "usb_cmd"}
    <3>1. todo' = <<>>
      BY <1>1, <2>1, <2>3, RequestShapes
    <3>2. Class(report) = "silent"
      BY <1>1, <2>3, ClassOf DEF IsUsbQuestion, IsSubcmd
    <3>3. QED
      BY <1>10, <3>1, <3>2 DEF ReadsOn
  <2>4. QED
    BY <2>2, <2>3
<1>11. QED
  BY <1>6, <1>7, <1>8, <1>9, <1>10

LEMMA ReadingReportStep ==
  ASSUME ReportsInv, ReportsInv', Taking, ReadingReport, Next PROVE ReadsOn
<1> DEFINE part == ReportHandler(report)
           gone == GoneIn(report)
<1>1. /\ report \in AllReports /\ report.len \in Nat
      /\ locked \in BOOLEAN
  BY BufAssumption DEF ReportsInv, TypeOK, AllReports
<1>2. ~locked /\ AtPart(part, gone)
  BY DEF ReadingReport
<1>3. report.id \in {"rumble_and_subcmd", "rumble", "usb_cmd"} /\ part # <<>>
  <2>1. Len(<<>>) = 0
    OBVIOUS
  <2>2. part # <<>>
    BY <1>2, <2>1 DEF AtPart
  <2>3. QED
    BY <1>1, <2>2, RequestShapes
<1>4. Pulls(part, gone)
  BY <1>1, <1>3, RequestShapes
<1>5. PartGoesOn(part, gone)
  BY <1>2, <1>3, <1>4, PartStep, Zenon
\* The part goes on with the same report.
<1>6. ASSUME UNCHANGED <<report, locked>>, AtPart(part, gone)', Taking'
      PROVE  Reading'
  <2>1. part' = part /\ gone' = gone
    BY <1>6
  <2> HIDE DEF part, gone
  <2>2. AtPart(part, gone)'
    BY <1>6
  <2>3. ReadingReport'
    BY <1>2, <1>6, <2>2 DEF ReadingReport, part, gone
  <2>4. QED
    BY <1>6, <2>3 DEF Reading
<1>7. CASE OthersCount /\ AtPart(part, gone)' /\ Taking'
  <2>1. UNCHANGED <<report, locked>>
    BY <1>7 DEF OthersCount
  <2>2. QED
    BY <1>6, <1>7, <2>1 DEF ReadsOn
<1>8. CASE /\ UNCHANGED <<report, locked, timer, written>>
           /\ AtPart(part, gone)' /\ Taking'
  BY <1>6, <1>8 DEF ReadsOn
<1>9. CASE /\ UNCHANGED <<report, timer, written>> /\ todo' = <<>>
           /\ part[Len(part)].op = "pull" \/ report.len < gone[Len(part)]
  <2>1. Class(report) = "silent"
    <3>1. CASE report.id = "rumble_and_subcmd"
      <4>1. report.len < 11
        BY <1>1, <1>9, <3>1, RequestShapes
      <4>2. QED
        BY <1>1, <3>1, <4>1, ClassOf DEF IsUsbQuestion, IsSubcmd, SubcmdOffset
    <3>2. CASE report.id = "rumble"
      BY <1>1, <3>2, ClassOf DEF IsUsbQuestion, IsSubcmd
    <3>3. CASE report.id = "usb_cmd"
      <4>1. report.len < 2
        BY <1>1, <1>9, <3>3, RequestShapes
      <4>2. QED
        BY <1>1, <3>3, <4>1, ClassOf DEF IsUsbQuestion, IsSubcmd
    <3>4. QED
      BY <1>3, <3>1, <3>2, <3>3
  <2>2. QED
    BY <1>9, <2>1 DEF ReadsOn
<1>10. CASE /\ \/ SwitchReportId \/ SwitchUsbCmd \/ LockAndSwitchSubcmd
               \/ FlashInRange \/ FlashOutOfRange
            /\ UNCHANGED <<report, timer, written, buf>>
            /\ Head(todo) = part[Len(part)] /\ report.len >= gone[Len(part)]
            /\ buf.data = gone[Len(part)]
  <2>1. CASE report.id = "rumble"
    <3>1. Head(todo).op = "pull"
      BY <1>1, <1>10, <2>1, RequestShapes
    <3>2. QED
      BY <1>10, <3>1 DEF SwitchReportId, SwitchUsbCmd, LockAndSwitchSubcmd,
         FlashInRange, FlashOutOfRange, NextIs
  <2>2. CASE report.id = "usb_cmd"
    <3>1. Head(todo).op = "usb_cmd" /\ report.len >= 2
      BY <1>1, <1>10, <2>2, RequestShapes
    <3>2. todo' = UsbHandler(report) /\ locked' = locked
      BY <1>10, <3>1 DEF SwitchReportId, SwitchUsbCmd, LockAndSwitchSubcmd,
         FlashInRange, FlashOutOfRange, NextIs
    <3>3. CASE report.cmd \in UsbQuestions
      <4>1. todo' = AnswerTo(report)
        BY <1>1, <2>2, <3>2, <3>3, HandlersAnswer
      <4>2. IsAnswered(report)
        BY <2>2, <3>1, <3>3 DEF IsAnswered, IsUsbQuestion, UsbQuestions
      <4>3. Beginning'
        BY <1>2, <1>10, <2>2, <3>2, <4>1, <4>2, AnswerBegins DEF Taking
      <4>4. QED
        BY <1>10, <4>3 DEF ReadsOn
    <3>4. CASE report.cmd \notin UsbQuestions
      <4>1. todo' = <<>>
        BY <1>1, <2>2, <3>2, <3>4, HandlersAnswer
      <4>2. Class(report) = "silent"
        BY <1>1, <2>2, <3>4, ClassOf DEF IsUsbQuestion, IsSubcmd, UsbQuestions
      <4>3. QED
        BY <1>10, <4>1, <4>2 DEF ReadsOn
    <3>5. QED
      BY <3>3, <3>4
  <2>3. CASE report.id = "rumble_and_subcmd"
    <3>1. Head(todo).op = "lock" /\ report.len >= 11 /\ buf.data = 11
      BY <1>1, <1>10, <2>3, RequestShapes
    <3>2. todo' = SubcmdHandler(report) /\ locked' = TRUE
      BY <1>10, <3>1 DEF SwitchReportId, SwitchUsbCmd, LockAndSwitchSubcmd,
         FlashInRange, FlashOutOfRange, NextIs
    <3>3. Taking'
      BY <1>10 DEF Taking
    <3>4. CASE report.cmd = "flash_read"
      <4> DEFINE flash == FlashRead(report)
      <4>1. todo' = flash
        BY <1>1, <2>3, <3>2, <3>4, HandlersAnswer
      <4>2. flash \in Seq(Operations) /\ 1 \in 1..Len(flash)
        BY <1>1, RequestShapes DEF Pulls
      <4> HIDE DEF flash
      <4>3. flash = SubSeq(flash, 1, Len(flash))
        BY <4>2, SubSeqFull
      <4>4. buf'.data = <<11, 15, 16>>[1]
        BY <1>10, <3>1
      <4>5. AtPart(flash, <<11, 15, 16>>)'
        BY <1>10, <4>1, <4>2, <4>3, <4>4 DEF AtPart, flash
      <4>6. Reading'
        BY <1>10, <2>3, <3>2, <3>3, <3>4, <4>5 DEF Reading, ReadingFlash, flash
      <4>7. QED
        BY <1>10, <4>6 DEF ReadsOn
    <3>5. CASE report.cmd \in WithOneParameter
      <4>1. todo' = <<Pull(1)>> \o AnswerTo(report)
        BY <1>1, <2>3, <3>2, <3>5, HandlersAnswer
      <4>2. Reading'
        BY <1>10, <2>3, <3>1, <3>2, <3>3, <3>5, <4>1 DEF Reading, ReadingParameter
      <4>3. QED
        BY <1>10, <4>2 DEF ReadsOn
    <3>6. CASE report.cmd \notin WithOneParameter \cup {"flash_read"}
      <4>1. todo' = AnswerTo(report)
        BY <1>1, <2>3, <3>2, <3>6, HandlersAnswer
      <4>2. IsAnswered(report)
        <5>1. ParameterSize(report) = 0
          BY <3>6 DEF ParameterSize
        <5>2. IsSubcmd(report)
          BY <1>1, <2>3, <3>1 DEF IsSubcmd, SubcmdOffset
        <5>3. IsComplete(report)
          BY <1>1, <3>1, <5>1 DEF IsComplete, SubcmdOffset
        <5>4. IsReadable(report)
          BY <3>6 DEF IsReadable
        <5>5. QED
          BY <5>2, <5>3, <5>4 DEF IsAnswered
      <4>3. Beginning'
        BY <1>10, <2>3, <3>2, <4>1, <4>2, AnswerBegins DEF Taking
      <4>4. QED
        BY <1>10, <4>3 DEF ReadsOn
    <3>7. QED
      BY <3>4, <3>5, <3>6
  <2>4. QED
    BY <1>3, <2>1, <2>2, <2>3
<1>11. CASE /\ UNCHANGED <<report, locked, timer, written>>
            /\ part[Len(part)].op = "pull" /\ todo' = <<>>
  BY <1>9, <1>11
<1>12. QED
  BY <1>5, <1>7, <1>8, <1>9, <1>10, <1>11 DEF PartGoesOn

LEMMA ReadingFlashStep ==
  ASSUME ReportsInv, ReportsInv', Taking, ReadingFlash, Next PROVE ReadsOn
<1> DEFINE part == FlashRead(report)
           gone == <<11, 15, 16>>
<1>1. /\ report \in AllReports /\ report.len \in Nat
      /\ locked /\ report.id = "rumble_and_subcmd" /\ report.cmd = "flash_read"
      /\ AtPart(part, gone)
  BY BufAssumption DEF ReportsInv, TypeOK, AllReports, ReadingFlash
<1>2. /\ Pulls(part, gone) /\ Len(part) = 3 /\ part[3].op = "flash_range"
      /\ part # <<>>
  BY <1>1, RequestShapes DEF FlashRead
<1>3. gone[1] = 11 /\ gone[3] = 16
  OBVIOUS
<1>4. ASSUME UNCHANGED <<report, locked>>, AtPart(part, gone)', Taking'
      PROVE  Reading'
  BY <1>1, <1>4 DEF Reading, ReadingFlash
<1> HIDE DEF part, gone
<1>5. PartGoesOn(part, gone)
  BY <1>1, <1>2, PartStep, Zenon
<1>6. CASE OthersCount /\ AtPart(part, gone)' /\ Taking'
  <2>1. UNCHANGED <<report, locked>>
    BY <1>6 DEF OthersCount
  <2>2. QED
    BY <1>4, <1>6, <2>1 DEF ReadsOn
<1>7. CASE /\ UNCHANGED <<report, locked, timer, written>>
           /\ AtPart(part, gone)' /\ Taking'
  BY <1>4, <1>7 DEF ReadsOn
<1>8. (IsSubcmd(report) <=> report.len > 10) /\ ParameterSize(report) = 5
  <2>1. ParameterSize(report) = 5
    BY <1>1 DEF ParameterSize, WithOneParameter
  <2>2. QED
    BY <1>1, <2>1 DEF IsSubcmd, SubcmdOffset
<1>9. CASE /\ UNCHANGED <<report, timer, written>> /\ todo' = <<>>
           /\ report.len >= 11 /\ report.len < 16
  <2>1. IsSubcmd(report) /\ ~IsComplete(report)
    BY <1>1, <1>8, <1>9 DEF IsComplete, SubcmdOffset
  <2>2. Class(report) = "rejected"
    BY <1>1, <2>1, ClassOf
  <2>3. QED
    BY <1>9, <2>2 DEF ReadsOn
<1>10. CASE /\ \/ SwitchReportId \/ SwitchUsbCmd \/ LockAndSwitchSubcmd
               \/ FlashInRange \/ FlashOutOfRange
            /\ UNCHANGED <<report, timer, written, buf>>
            /\ Head(todo).op = "flash_range" /\ report.len >= 16
  <2>1. IsSubcmd(report) /\ IsComplete(report)
    BY <1>1, <1>8, <1>10 DEF IsComplete, SubcmdOffset
  <2>2. /\ report.address \in 0..(AddressMod - 1) /\ report.size \in 0..MaxSize
    BY <1>1 DEF AllReports
  <2>3. InFlash(report) <=> report.address + report.size <= FlashSize
    BY <2>2, OutputReportsAssumption DEF InFlash, EndOf
  <2>4. IsReadable(report) <=> report.address + report.size <= FlashSize
    BY <1>1 DEF IsReadable
  <2>5. FlashInRange \/ FlashOutOfRange
    BY <1>10 DEF SwitchReportId, SwitchUsbCmd, LockAndSwitchSubcmd, NextIs
  <2>6. CASE FlashInRange
    <3>1. IsAnswered(report)
      BY <2>1, <2>3, <2>4, <2>6 DEF FlashInRange, IsAnswered
    <3>2. todo' = AnswerTo(report) /\ locked' = locked
      BY <1>1, <2>6, HandlersAnswer DEF FlashInRange
    <3>3. Beginning'
      BY <1>1, <1>10, <3>1, <3>2, AnswerBegins DEF Taking
    <3>4. QED
      BY <1>10, <3>3 DEF ReadsOn
  <2>7. CASE FlashOutOfRange
    <3>1. ~IsReadable(report) /\ todo' = <<>>
      BY <2>3, <2>4, <2>7 DEF FlashOutOfRange
    <3>2. Class(report) = "rejected"
      BY <1>1, <2>1, <3>1, ClassOf
    <3>3. QED
      BY <1>10, <3>1, <3>2 DEF ReadsOn
  <2>8. QED
    BY <2>5, <2>6, <2>7
<1>11. QED
  BY <1>2, <1>3, <1>5, <1>6, <1>7, <1>9, <1>10 DEF PartGoesOn

LEMMA ReadingParameterStep ==
  ASSUME ReportsInv, ReportsInv', Taking, ReadingParameter, Next PROVE ReadsOn
<1> DEFINE A == AnswerTo(report)
<1>1. /\ report \in AllReports /\ report.len \in Nat
      /\ locked /\ report.id = "rumble_and_subcmd"
      /\ report.cmd \in WithOneParameter
      /\ todo = <<Pull(1)>> \o A /\ buf.data = 11
  BY BufAssumption DEF ReportsInv, TypeOK, AllReports, ReadingParameter
<1>2. /\ buf.size \in Nat /\ buf.data + buf.size = report.len
      /\ ParameterSize(report) = 1 /\ IsReadable(report)
  BY <1>1, BufAssumption DEF ReportsInv, TypeOK, Buffer, Taking, ParameterSize,
     IsReadable, WithOneParameter
<1>3. IsSubcmd(report) /\ (IsComplete(report) <=> buf.size >= 1)
  BY <1>1, <1>2 DEF IsSubcmd, IsComplete, SubcmdOffset
<1>4. A \in Seq(Operations)
  <2>1. BodyOf(report) = <<>>
    BY <1>1 DEF BodyOf, WithOneParameter
  <2>2. A = SubcmdAnswer(<<>>)
    BY <1>1, <2>1, Zenon DEF AnswerTo
  <2>3. <<>> \in Seq(Operations)
    OBVIOUS
  <2>4. QED
    BY <2>2, <2>3, AnswerElements
<1> HIDE DEF A
<1>5. todo # <<>> /\ Head(todo) = Pull(1) /\ Tail(todo) = A
  <2>1. Pull(1) \in Operations
    BY DEF Pull, Operations, Ops, Fields
  <2>2. /\ <<Pull(1)>> \o A # <<>> /\ Head(<<Pull(1)>> \o A) = Pull(1)
        /\ Tail(<<Pull(1)>> \o A) = A
    BY <1>4, <2>1
  <2>3. QED
    BY <1>1, <2>2
<1>6. Head(todo).op = "pull" /\ Head(todo).n = 1
  BY <1>5 DEF Pull
<1>7. CASE PullStep
  <2>1. buf.size >= 1
    BY <1>2, <1>6, <1>7 DEF PullStep, Fits, CanPull
  <2>2. IsAnswered(report)
    BY <1>2, <1>3, <2>1 DEF IsAnswered
  <2>3. /\ todo' = AnswerTo(report) /\ UNCHANGED <<report, locked, timer, written>>
    BY <1>5, <1>7 DEF PullStep, A
  <2>4. Beginning'
    BY <1>1, <2>2, <2>3, AnswerBegins DEF Taking
  <2>5. QED
    BY <2>3, <2>4 DEF ReadsOn
<1>8. CASE Fails
  <2>1. ~(buf.size >= 1)
    BY <1>2, <1>6, <1>8 DEF Fails, Fits, CanPull
  <2>2. Class(report) = "rejected"
    BY <1>1, <1>3, <2>1, ClassOf
  <2>3. UNCHANGED <<report, timer, written>> /\ todo' = <<>>
    BY <1>6, <1>8 DEF Fails, NextIs
  <2>4. QED
    BY <2>2, <2>3 DEF ReadsOn
<1>9. CASE OthersCount
  BY <1>1, <1>9 DEF OthersCount
<1>10. ASSUME \/ \E r \in Reports : Receive(r)
              \/ AddStep \/ ResizeStep \/ ResetStep \/ SwitchReportId
              \/ SwitchUsbCmd \/ LockAndSwitchSubcmd \/ FlashInRange
              \/ FlashOutOfRange \/ WriteStep \/ UnlockStep
       PROVE  FALSE
  BY <1>5, <1>6, <1>10 DEF Receive, AddStep, ResizeStep, ResetStep,
     SwitchReportId, SwitchUsbCmd, LockAndSwitchSubcmd, FlashInRange,
     FlashOutOfRange, WriteStep, UnlockStep, NextIs
<1>11. QED
  BY <1>7, <1>8, <1>9, <1>10 DEF Next

\* Every step of a handler that takes its report apart.
LEMMA ReadingStep ==
  ASSUME ReportsInv, ReportsInv', Reading, Next PROVE ReadsOn
BY ReadingIdStep, ReadingReportStep, ReadingFlashStep, ReadingParameterStep
DEF Reading

\* A handler starts with the whole report in its buffer.
LEMMA ReceiveReads ==
  ASSUME ReportsInv, NEW r \in Reports, Receive(r) PROVE Reading'
<1>1. ~locked /\ locked \in BOOLEAN
  BY DEF Receive, ReportsInv, TypeOK, UnlockAhead, EndsInside
<1>2. r \in AllReports /\ r.len \in Nat
  BY OutputReportsAssumption, BufAssumption DEF AllReports
<1>3. /\ todo' = OnOutputReport /\ report' = r /\ locked' = FALSE
      /\ written' = FALSE /\ buf' = [data |-> 0, size |-> r.len]
  BY <1>1 DEF Receive, Holding
<1>4. OnOutputReport \in Seq(Operations) /\ 1 \in 1..Len(OnOutputReport)
  BY <1>2, RequestShapes DEF Pulls
<1>5. OnOutputReport = SubSeq(OnOutputReport, 1, Len(OnOutputReport))
  BY <1>4, SubSeqFull
<1>6. buf'.data = <<0, 1>>[1]
  BY <1>3
<1>7. AtPart(OnOutputReport, <<0, 1>>)'
  BY <1>3, <1>4, <1>5, <1>6 DEF AtPart
<1>8. Taking'
  BY <1>2, <1>3 DEF Taking
<1>9. QED
  BY <1>3, <1>7, <1>8 DEF Reading, ReadingId

LEMMA InitAnswerInv == Init => AnswerInv
  BY InitReportsInv DEF AnswerInv, Init

\* A handler that has returned waits for the next report.
LEMMA IdleStep ==
  ASSUME ReportsInv, todo = <<>>, Next
  PROVE  OthersCount \/ \E r \in Reports : Receive(r)
  BY DEF Next, PullStep, AddStep, ResizeStep, Fails, ResetStep, SwitchReportId,
     SwitchUsbCmd, LockAndSwitchSubcmd, FlashInRange, FlashOutOfRange,
     WriteStep, UnlockStep, NextIs

LEMMA NextAnswerInv ==
  ASSUME Capacity = 64, AnswerInv, [Next]_vars PROVE AnswerInv'
<1>1. ReportsInv /\ ReportsInv'
  BY NextReportsInv DEF AnswerInv
<1>2. CASE todo = <<>> /\ Next
  <2>1. CASE OthersCount
    BY <1>1, <1>2, <2>1 DEF OthersCount, AnswerInv
  <2>2. CASE \E r \in Reports : Receive(r)
    BY <1>1, <2>2, ReceiveReads DEF AnswerInv
  <2>3. QED
    BY <1>1, <1>2, <2>1, <2>2, IdleStep
<1>3. CASE Reading /\ Next
  <2>1. Beginning' => Answering'
    BY <1>1, BeginningIsAnswering, PTL
  <2>2. ReadsOn
    BY <1>1, <1>3, ReadingStep
  <2>3. QED
    BY <1>1, <2>1, <2>2 DEF ReadsOn, AnswerInv
<1>4. CASE Answering
  BY <1>1, <1>4, AnswerStep DEF AnswerInv
<1>5. CASE UNCHANGED vars
  <2>1. UNCHANGED <<report, todo, buf, array, locked, written>>
    BY <1>5 DEF vars
  <2>2. Reading => Reading'
    BY <2>1 DEF Reading, Taking, ReadingId, ReadingReport, ReadingFlash,
       ReadingParameter, AtPart
  <2>3. Answering => Answering'
    BY <2>1 DEF Answering, AtAnswer
  <2>4. QED
    BY <1>1, <2>1, <2>2, <2>3 DEF AnswerInv
<1>6. QED
  BY <1>2, <1>3, <1>4, <1>5, Zenon DEF AnswerInv

-----------------------------------------------------------------------------
(* The answers, when they are written.                                      *)

\* A part of the handlers that is being executed goes on with one of its
\* operations.
LEMMA PartHead ==
  ASSUME NEW part, NEW gone, Pulls(part, gone), AtPart(part, gone)
  PROVE  todo # <<>> /\ Head(todo).op \in RequestOps
<1>1. PICK k \in 1..Len(part) : todo = SubSeq(part, k, Len(part))
  BY DEF AtPart
<1>2. todo # <<>> /\ Head(todo) = part[k]
  BY <1>1, RestOf DEF Pulls
<1>3. QED
  BY <1>2 DEF Pulls

\* A handler that takes its report apart does nothing else yet.
LEMMA ReadingHead ==
  ASSUME ReportsInv, Reading PROVE todo # <<>> /\ Head(todo).op \in RequestOps
<1>1. report \in AllReports
  BY DEF ReportsInv, TypeOK
<1>2. CASE ReadingId
  <2>1. Pulls(OnOutputReport, <<0, 1>>)
    BY <1>1, RequestShapes, Zenon
  <2>2. QED
    BY <1>2, <2>1, PartHead, Zenon DEF ReadingId
<1>3. CASE ReadingReport
  <2>1. AtPart(ReportHandler(report), GoneIn(report))
    BY <1>3 DEF ReadingReport
  <2>2. Len(<<>>) = 0
    OBVIOUS
  <2>3. ReportHandler(report) # <<>>
    BY <2>1, <2>2 DEF AtPart
  <2>4. Pulls(ReportHandler(report), GoneIn(report))
    BY <1>1, <2>3, RequestShapes
  <2>5. QED
    BY <2>1, <2>4, PartHead, Zenon
<1>4. CASE ReadingFlash
  <2>1. Pulls(FlashRead(report), <<11, 15, 16>>)
    BY <1>1, RequestShapes, Zenon
  <2>2. QED
    BY <1>4, <2>1, PartHead, Zenon DEF ReadingFlash
<1>5. CASE ReadingParameter
  <2>1. AnswerTo(report) \in Seq(Operations)
    <3>1. BodyOf(report) = <<>>
      BY <1>5 DEF ReadingParameter, BodyOf, WithOneParameter
    <3>2. AnswerTo(report) = SubcmdAnswer(<<>>)
      BY <1>5, <3>1, Zenon DEF AnswerTo, ReadingParameter
    <3>3. <<>> \in Seq(Operations)
      OBVIOUS
    <3>4. QED
      BY <3>2, <3>3, AnswerElements
  <2> DEFINE A == AnswerTo(report)
  <2>2. todo = <<Pull(1)>> \o A
    BY <1>5 DEF ReadingParameter
  <2> HIDE DEF A
  <2>3. Pull(1) \in Operations /\ Pull(1).op = "pull"
    BY DEF Pull, Operations, Ops, Fields
  <2>4. <<Pull(1)>> \o A # <<>> /\ Head(<<Pull(1)>> \o A) = Pull(1)
    BY <2>1, <2>3 DEF A
  <2>5. QED
    BY <2>2, <2>3, <2>4 DEF RequestOps
<1>6. QED
  BY <1>2, <1>3, <1>4, <1>5 DEF Reading

\* What the buffer holds when it is written.
LEMMA WrittenBytes ==
  ASSUME Capacity = 64, AnswerInv, NextIs("write"),
         NEW n, n = IF report.id = "usb_cmd" /\ report.cmd = "baudrate_3m" THEN 2 ELSE 64
  PROVE  /\ IsAnswered(report) /\ report \in AllReports
         /\ locked <=> report.id = "rumble_and_subcmd"
         /\ Window = 0..(n - 1)
         /\ \A i \in Window : i \in Nat /\ i < n /\ array[i] = Layout(report)[i]
         /\ report.id = "rumble_and_subcmd" =>
              BodyStarts(report)[Len(BodyOf(report)) + 1] <= 64
<1> DEFINE A == AnswerTo(report)
           size == SizeBefore(report)
           layout == Layout(report)
<1>1. todo # <<>> /\ Head(todo).op = "write" /\ report \in AllReports
  BY DEF NextIs, AnswerInv, ReportsInv, TypeOK
<1>2. ~Reading
  BY <1>1, ReadingHead DEF AnswerInv, RequestOps
<1>4. Answering
  BY <1>1, <1>2 DEF AnswerInv
<1>5. IsAnswered(report) /\ (locked <=> report.id = "rumble_and_subcmd")
  BY <1>4 DEF Answering
<1>6. PICK k \in 1..Len(A) : AtAnswer(k)
  BY <1>4 DEF Answering
<1>7. /\ Fills(A, size, layout) /\ Sized(A, report)
      /\ A \in Seq(Operations) /\ Len(A) \in Nat /\ Len(A) >= 2
  BY <1>1, <1>5, AnswersFill, Zenon
<1>8. A[k].op = "write"
  <2>1. todo = SubSeq(A, k, Len(A))
    BY <1>6 DEF AtAnswer
  <2>2. Head(todo) = A[k]
    BY <1>7, <2>1, RestOf
  <2>3. QED
    BY <1>1, <2>2
<1>9. k > 1
  BY <1>7, <1>8 DEF Fills
<1>10. /\ buf = [data |-> 0, size |-> size[k]]
       /\ \A j \in 2..k : size[j] <= 64
       /\ \A i \in 0..(size[k] - 1) : array[i] = layout[i]
  BY <1>6, <1>9 DEF AtAnswer
<1>11. /\ size[k] = n
       /\ report.id = "rumble_and_subcmd" =>
            /\ k - 1 \in 2..k
            /\ size[k - 1] = BodyStarts(report)[Len(BodyOf(report)) + 1]
  BY <1>7, <1>8 DEF Sized
<1>12. n \in Nat
  OBVIOUS
<1> HIDE DEF A, size, layout
<1>13. Window = 0..(n - 1)
  BY <1>10, <1>11, <1>12 DEF Window
<1>14. \A i \in 0..(n - 1) : array[i] = layout[i]
  BY <1>10, <1>11, Zenon
<1>15. \A i \in Window : i \in Nat /\ i < n /\ array[i] = layout[i]
  BY <1>12, <1>13, <1>14
<1>16. report.id = "rumble_and_subcmd" =>
         BodyStarts(report)[Len(BodyOf(report)) + 1] <= 64
  BY <1>10, <1>11, Zenon
<1>17. QED
  BY <1>1, <1>5, <1>13, <1>15, <1>16, Zenon DEF layout

\* A USB command's answer consists of its id, the command and what follows.
LEMMA UsbAnswerIsWhole ==
  ASSUME Capacity = 64, AnswerInv, NextIs("write"), report.id = "usb_cmd"
  PROVE  AnswersAreWhole
<1> DEFINE n == IF report.cmd = "baudrate_3m" THEN 2 ELSE 64
           layout == Layout(report)
<1>1. /\ ~locked
      /\ Window = 0..(n - 1)
      /\ \A i \in Window : i \in Nat /\ i < n /\ array[i] = layout[i]
  BY WrittenBytes
<1>2. /\ layout[0] = "id"
      /\ \A i \in Nat : i > 0 => layout[i] \in {"cmd", "value", "zero"}
  BY DEF Layout
<1>3. n \in Nat /\ n > 0
  OBVIOUS
<1> HIDE DEF n, layout
<1>4. 0 \in Window
  BY <1>1, <1>3
<1>5. \A i \in Window : /\ array[i] # "request" /\ array[i] # "unset"
                        /\ array[i] = "id" <=> i = 0
  BY <1>1, <1>2
<1>6. Places("request") = {} /\ Places("unset") = {}
  BY <1>5 DEF Places
<1>7. Places("id") = {0}
  BY <1>4, <1>5 DEF Places
<1>8. QED
  BY <1>1, <1>6, <1>7 DEF AnswersAreWhole, n

\* A subcommand's answer has every field of its header and of a flash read in
\* its place.
LEMMA SubcmdAnswerIsWhole ==
  ASSUME Capacity = 64, AnswerInv, NextIs("write"),
         report.id = "rumble_and_subcmd"
  PROVE  AnswersAreWhole
<1> DEFINE end == BodyStarts(report)[Len(BodyOf(report)) + 1]
           layout == Layout(report)
<1>1. /\ locked /\ report \in AllReports
      /\ Window = 0..(64 - 1)
      /\ \A i \in Window : i \in Nat /\ i < 64 /\ array[i] = layout[i]
      /\ end <= 64
  BY WrittenBytes
<1>2. end \in Nat /\ end >= 15
  <2>1. report.id # "usb_cmd"
    OBVIOUS
  <2>2. QED
    BY <1>1, <2>1, BodyFills, Zenon
<1>3. layout = [i \in Nat |->
        IF i = 0 THEN "id"
        ELSE IF i = 1 THEN "timer"
        ELSE IF i <= 12 THEN "input"
        ELSE IF i = 13 THEN "ack"
        ELSE IF i = 14 THEN "cmd"
        ELSE IF i >= end THEN "zero"
        ELSE IF report.cmd # "flash_read" THEN "value"
        ELSE IF i <= 18 THEN "address"
        ELSE IF i = 19 THEN "size" ELSE "flash"]
  BY DEF Layout
<1>4. ASSUME report.cmd = "flash_read" PROVE end = 20 + report.size
  <2>1. BodyStarts(report) = <<15, 19, 20, 20 + report.size>>
    BY <1>4 DEF BodyStarts
  <2>2. BodyOf(report) = <<Add(4, "address"), Add(1, "size"), Add(report.size, "flash")>>
    BY <1>4 DEF BodyOf
  <2>3. Len(BodyOf(report)) = 3
    BY <2>2
  <2>4. QED
    BY <2>1, <2>3
<1>5. report.size \in Nat
  BY <1>1, OutputReportsAssumption DEF AllReports
<1> HIDE DEF layout, end
<1>6. \A i : i \in Window <=> i \in Nat /\ i < 64
  BY <1>1
<1>7. ASSUME NEW i \in Window
      PROVE  /\ array[i] # "request" /\ array[i] # "unset"
             /\ array[i] = "id" <=> i = 0
             /\ array[i] = "timer" <=> i = 1
             /\ array[i] = "input" <=> i \in 2..12
             /\ array[i] = "ack" <=> i = 13
             /\ array[i] = "cmd" <=> i = 14
  BY <1>1, <1>2, <1>3
<1>8. ASSUME report.cmd = "flash_read", NEW i \in Window
      PROVE  /\ array[i] = "address" <=> i \in 15..18
             /\ array[i] = "size" <=> i = 19
             /\ array[i] = "flash" <=> i \in 20..(19 + report.size)
  BY <1>1, <1>2, <1>3, <1>4, <1>5, <1>8
<1>9. report.cmd = "flash_read" => 19 + report.size < 64
  BY <1>1, <1>4, <1>5
<1>10. Places("request") = {} /\ Places("unset") = {}
  BY <1>7 DEF Places
<1>11. Places("id") = {0} /\ Places("timer") = {1}
  BY <1>6, <1>7 DEF Places
<1>12. Places("input") = 2..12
  BY <1>6, <1>7 DEF Places
<1>13. Places("ack") = {13} /\ Places("cmd") = {14}
  BY <1>6, <1>7 DEF Places
<1>14. ASSUME report.cmd = "flash_read"
       PROVE  Places("address") = 15..18 /\ Places("size") = {19}
  BY <1>6, <1>8, <1>14 DEF Places
<1>15. ASSUME report.cmd = "flash_read"
       PROVE  Places("flash") = 20..(19 + report.size)
  BY <1>5, <1>6, <1>8, <1>9, <1>15 DEF Places
<1>16. QED
  BY <1>1, <1>10, <1>11, <1>12, <1>13, <1>14, <1>15 DEF AnswersAreWhole

\* Whatever the host asks, an answer is written as a whole and holds nothing of
\* the request, in the buffer of 64 bytes that the code has.
THEOREM EveryAnswerIsWhole ==
  ASSUME Capacity = 64 PROVE Spec => []AnswersAreWhole
<1>1. AnswerInv => AnswersAreWhole
  <2> SUFFICES ASSUME AnswerInv, NextIs("write") PROVE AnswersAreWhole
    BY DEF AnswersAreWhole
  <2>1. report.id \in {"usb_cmd", "rumble_and_subcmd"}
    BY WrittenBytes DEF IsAnswered, IsUsbQuestion, IsSubcmd
  <2>2. QED
    BY <2>1, UsbAnswerIsWhole, SubcmdAnswerIsWhole
<1>2. AnswerInv /\ [Next]_vars => AnswerInv'
  BY NextAnswerInv
<1>3. QED
  BY <1>1, <1>2, InitAnswerInv, PTL DEF Spec

-----------------------------------------------------------------------------
(* The contract of the answers.                                             *)

\* Every report has one of five classes; only a subcommand is answered with a
\* count of the timer.
LEMMA Classes ==
  ASSUME NEW r \in AllReports
  PROVE  /\ Class(r) \in {"usb", "rejected", "answered", "overflow", "silent"}
         /\ Class(r) \in {"answered", "overflow"} => r.id = "rumble_and_subcmd"
         /\ IsAnswered(r) /\ r.id = "usb_cmd" => Class(r) = "usb"
         /\ IsAnswered(r) /\ r.id # "usb_cmd" =>
              Class(r) = IF IsAnswerable(r) THEN "answered" ELSE "overflow"
<1>1. CASE IsUsbQuestion(r)
  <2>1. Class(r) = "usb" /\ r.id = "usb_cmd"
    BY <1>1, ClassOf DEF IsUsbQuestion
  <2>2. QED
    BY <2>1
<1>2. CASE IsSubcmd(r)
  <2>1. r.id = "rumble_and_subcmd"
    BY <1>2 DEF IsSubcmd
  <2>2. QED
    BY <1>2, <2>1, ClassOf DEF IsAnswered, IsUsbQuestion
<1>3. CASE ~IsUsbQuestion(r) /\ ~IsSubcmd(r)
  <2>1. Class(r) = "silent"
    BY <1>3, ClassOf
  <2>2. QED
    BY <1>3, <2>1 DEF IsAnswered
<1>4. QED
  BY <1>1, <1>2, <1>3

\* The answer is one that fits exactly if its body ends within the buffer.
LEMMA AnswerableEnds ==
  ASSUME Capacity = 64, NEW r \in AllReports
  PROVE  IsAnswerable(r) <=> BodyStarts(r)[Len(BodyOf(r)) + 1] <= 64
<1>1. r.size \in Nat
  BY OutputReportsAssumption DEF AllReports
<1>2. CASE r.cmd = "flash_read"
  <2>1. /\ BodyOf(r) = <<Add(4, "address"), Add(1, "size"), Add(r.size, "flash")>>
        /\ BodyStarts(r) = <<15, 19, 20, 20 + r.size>>
    BY <1>2 DEF BodyOf, BodyStarts
  <2>2. Len(BodyOf(r)) = 3
    BY <2>1
  <2>3. BodyStarts(r)[Len(BodyOf(r)) + 1] = 20 + r.size
    BY <2>1, <2>2
  <2>4. QED
    BY <1>1, <1>2, <2>3 DEF IsAnswerable, MaxFlashRead
<1>3. CASE r.cmd = "req_devinfo"
  <2>1. /\ BodyOf(r) = Devinfo
        /\ BodyStarts(r) = <<15, 17, 18, 19, 25, 26, 27>>
    BY <1>3 DEF BodyOf, BodyStarts
  <2>2. Len(BodyOf(r)) = 6
    BY <2>1 DEF Devinfo
  <2>3. BodyStarts(r)[Len(BodyOf(r)) + 1] = 27
    BY <2>1, <2>2
  <2>4. QED
    BY <1>3, <2>3 DEF IsAnswerable
<1>4. CASE r.cmd \in WithOneParameter \cup NoParameter
  <2>1. r.cmd # "flash_read" /\ r.cmd # "req_devinfo"
    BY <1>4 DEF WithOneParameter, NoParameter
  <2>2. BodyOf(r) = <<>> /\ BodyStarts(r) = <<15>>
    BY <1>4, <2>1 DEF BodyOf, BodyStarts
  <2>3. Len(BodyOf(r)) = 0
    BY <2>2
  <2>4. BodyStarts(r)[Len(BodyOf(r)) + 1] = 15
    BY <2>2, <2>3
  <2>5. QED
    BY <2>1, <2>4 DEF IsAnswerable
<1>5. CASE r.cmd \notin
             WithOneParameter \cup NoParameter \cup {"flash_read", "req_devinfo"}
  <2>1. BodyOf(r) = <<Add(1, "value")>> /\ BodyStarts(r) = <<15, 16>>
    BY <1>5 DEF BodyOf, BodyStarts
  <2>2. Len(BodyOf(r)) = 1
    BY <2>1
  <2>3. BodyStarts(r)[Len(BodyOf(r)) + 1] = 16
    BY <2>1, <2>2
  <2>4. QED
    BY <1>5, <2>3 DEF IsAnswerable
<1>6. QED
  BY <1>2, <1>3, <1>4, <1>5

\* What is left of a part of the handlers has the part's end in it.
LEMMA PartEnd ==
  ASSUME NEW part, NEW gone, Pulls(part, gone), AtPart(part, gone)
  PROVE  \E i \in DOMAIN todo : todo[i] = part[Len(part)]
<1>1. PICK k \in 1..Len(part) : todo = SubSeq(part, k, Len(part))
  BY DEF AtPart
<1>2. part \in Seq(Operations) /\ Len(part) \in Nat /\ k \in Nat
  BY LenProperties DEF Pulls
<1>3. \A i \in k..Len(part) : part[i] \in Operations
  BY <1>2, ElementOfSeq
<1>4. /\ todo \in Seq(Operations)
      /\ Len(todo) = Len(part) - k + 1
      /\ \A i \in 1..(Len(part) - k + 1) : todo[i] = part[k + i - 1]
  BY <1>1, <1>2, <1>3, SubSeqProperties
<1>5. Len(part) - k + 1 \in 1..(Len(part) - k + 1)
  BY <1>2
<1>6. todo[Len(part) - k + 1] = part[Len(part)]
  <2>1. k + (Len(part) - k + 1) - 1 = Len(part)
    BY <1>2
  <2>2. QED
    BY <1>4, <1>5, <2>1
<1>7. DOMAIN todo = 1..Len(todo)
  BY <1>4, LenProperties
<1>8. QED
  BY <1>4, <1>5, <1>6, <1>7

\* The timer is counted by the third operation of an answer to a subcommand.
LEMMA CountPlace ==
  ASSUME NEW r, r.id # "usb_cmd", NEW s,
         Fills(s, SizeBefore(r), Layout(r)), Ordered(s, r), Sized(s, r)
  PROVE  3 \in 1..Len(s) /\ s[3].op = "count"
<1>1. Len(s) \in Nat /\ Len(s) >= 2
  BY LenProperties DEF Fills
<1>2. Len(s) - 1 \in 1..Len(s)
  BY <1>1
<1>3. s[Len(s) - 1].op = "write"
  BY <1>2 DEF Ordered
<1>4. Len(s) - 1 - 1 \in 2..(Len(s) - 1)
  BY <1>2, <1>3 DEF Sized
<1>5. 3 \in 1..Len(s)
  BY <1>1, <1>4
<1>6. QED
  BY <1>5 DEF Ordered

\* A handler that still takes its report apart has done nothing that the
\* contract sees.
LEMMA ReadingStage ==
  ReportsInv /\ Reading =>
    /\ Stage = IF Class(report) = "silent" THEN "idle" ELSE Class(report)
    /\ ~written
<1> SUFFICES ASSUME ReportsInv, Reading
             PROVE  /\ Stage = IF Class(report) = "silent" THEN "idle" ELSE Class(report)
                    /\ ~written
  OBVIOUS
<1>1. report \in AllReports /\ ~written /\ todo # <<>>
  BY ReadingHead DEF ReportsInv, TypeOK, Reading, Taking
<1>2. ASSUME report.id = "rumble_and_subcmd" PROVE CountAhead
  <2>1. CASE ReadingId
    <3>1. /\ Pulls(OnOutputReport, <<0, 1>>)
          /\ OnOutputReport[Len(OnOutputReport)].op = "report_id"
      BY <1>1, RequestShapes
    <3>2. PICK i \in DOMAIN todo : todo[i] = OnOutputReport[Len(OnOutputReport)]
      BY <2>1, <3>1, PartEnd, Zenon DEF ReadingId
    <3>3. QED
      BY <3>1, <3>2 DEF CountAhead
  <2>2. CASE ReadingReport
    <3> DEFINE part == ReportHandler(report)
    <3>1. Pulls(part, GoneIn(report)) /\ part[Len(part)].op = "lock"
      BY <1>1, <1>2, RequestShapes
    <3>2. PICK i \in DOMAIN todo : todo[i] = part[Len(part)]
      BY <2>2, <3>1, PartEnd, Zenon DEF ReadingReport
    <3>3. QED
      BY <3>1, <3>2 DEF CountAhead
  <2>3. CASE ReadingFlash
    <3> DEFINE part == FlashRead(report)
    <3>1. Pulls(part, <<11, 15, 16>>) /\ part[Len(part)].op = "flash_range"
      BY <1>1, RequestShapes
    <3>2. PICK i \in DOMAIN todo : todo[i] = part[Len(part)]
      BY <2>3, <3>1, PartEnd, Zenon DEF ReadingFlash
    <3>3. QED
      BY <3>1, <3>2 DEF CountAhead
  <2>4. CASE ReadingParameter
    <3> DEFINE A == AnswerTo(report)
    <3>1. todo = <<Pull(1)>> \o A
      BY <2>4 DEF ReadingParameter
    <3>2. /\ A \in Seq(Operations) /\ Len(A) \in Nat
          /\ 3 \in 1..Len(A) /\ A[3].op = "count"
      BY <1>1, <1>2, CountPlace, SubcmdAnswersFill DEF Fills
    <3> HIDE DEF A
    <3>3. Pull(1) \in Operations
      BY DEF Pull, Operations, Ops, Fields
    <3>4. 4 \in DOMAIN todo /\ todo[4] = A[3]
      BY <3>1, <3>2, <3>3
    <3>5. QED
      BY <3>2, <3>4 DEF CountAhead
  <2>5. QED
    BY <2>1, <2>2, <2>3, <2>4 DEF Reading
<1>3. /\ Class(report) \in {"usb", "rejected", "answered", "overflow", "silent"}
      /\ Class(report) \in {"answered", "overflow"} => CountAhead
  BY <1>1, <1>2, Classes
<1>4. QED
  BY <1>1, <1>3 DEF Stage

\* Of an answer's operations, the count is the third one of a subcommand's.
LEMMA CountIn ==
  ASSUME NEW r \in AllReports, IsAnswered(r), NEW s, s = AnswerTo(r),
         NEW k \in 1..Len(s), NEW rest, rest = SubSeq(s, k, Len(s))
  PROVE  (\E i \in DOMAIN rest :
            rest[i].op \in {"report_id", "lock", "flash_range", "count"})
           <=> r.id # "usb_cmd" /\ k <= 3
<1>1. /\ Fills(s, SizeBefore(r), Layout(r)) /\ Ordered(s, r) /\ Sized(s, r)
      /\ s \in Seq(Operations) /\ Len(s) \in Nat
  BY AnswersFill, Zenon
<1>2. ASSUME NEW i \in 1..Len(s)
      PROVE  /\ s[i].op \in {"reset", "add", "count", "resize", "write", "unlock"}
             /\ s[i].op = "count" <=> r.id # "usb_cmd" /\ i = 3
  BY <1>1, <1>2 DEF Fills, Ordered
<1>3. \A i \in k..Len(s) : s[i] \in Operations
  BY <1>1, ElementOfSeq
<1>4. /\ rest \in Seq(Operations) /\ Len(rest) = Len(s) - k + 1
      /\ \A i \in 1..(Len(s) - k + 1) : rest[i] = s[k + i - 1]
  BY <1>1, <1>3, SubSeqProperties
<1>5. DOMAIN rest = 1..(Len(s) - k + 1)
  BY <1>4, LenProperties
<1>6. ASSUME NEW i \in DOMAIN rest,
             rest[i].op \in {"report_id", "lock", "flash_range", "count"}
      PROVE  r.id # "usb_cmd" /\ k <= 3
  <2>1. k + i - 1 \in 1..Len(s) /\ k <= k + i - 1 /\ rest[i] = s[k + i - 1]
    BY <1>1, <1>4, <1>5, <1>6
  <2>2. s[k + i - 1].op = "count"
    BY <1>2, <1>6, <2>1
  <2>3. QED
    BY <1>2, <2>1, <2>2
<1>7. ASSUME r.id # "usb_cmd", k <= 3
      PROVE  \E i \in DOMAIN rest : rest[i].op = "count"
  <2>1. 3 \in 1..Len(s)
    BY <1>1, <1>7, CountPlace, Zenon
  <2>2. 4 - k \in DOMAIN rest /\ k + (4 - k) - 1 = 3
    BY <1>1, <1>5, <1>7, <2>1
  <2>3. rest[4 - k] = s[3]
    BY <1>4, <1>5, <2>2
  <2>4. s[3].op = "count"
    BY <1>2, <1>7, <2>1
  <2>5. QED
    BY <2>2, <2>3, <2>4
<1>8. QED
  BY <1>6, <1>7

\* What the contract sees of a handler that is at the k-th operation of its
\* answer.
StageAt(k) ==
  IF report.id = "usb_cmd" THEN (IF written THEN "idle" ELSE "usb")
  ELSE IF k <= 3 THEN Class(report)
  ELSE IF Class(report) = "answered" /\ ~written THEN "counted" ELSE "idle"

LEMMA AnsweringStage ==
  (report \in AllReports /\ IsAnswered(report)) =>
    \A k \in 1..Len(AnswerTo(report)) :
      todo = SubSeq(AnswerTo(report), k, Len(AnswerTo(report))) =>
        Stage = StageAt(k)
<1> DEFINE A == AnswerTo(report)
<1> SUFFICES ASSUME report \in AllReports, IsAnswered(report),
                    NEW k \in 1..Len(A), todo = SubSeq(A, k, Len(A))
             PROVE  Stage = StageAt(k)
  OBVIOUS
<1>1. A \in Seq(Operations)
  BY AnswersFill, Zenon
<1>2. todo # <<>>
  BY <1>1, RestOf
<1>3. CountAhead <=> report.id # "usb_cmd" /\ k <= 3
  BY CountIn DEF CountAhead
<1>4. /\ report.id = "usb_cmd" => Class(report) = "usb"
      /\ report.id # "usb_cmd" => Class(report) \in {"answered", "overflow"}
  BY Classes
<1> HIDE DEF A
<1>5. QED
  BY <1>2, <1>3, <1>4 DEF Stage, StageAt

\* A step of a handler that takes its report apart, or ends with that.
LEMMA ReadingKeepsContract ==
  ASSUME ReportsInv, ReportsInv', Reading, ReadsOn,
         Reading' => /\ Stage' = IF Class(report') = "silent" THEN "idle"
                                                            ELSE Class(report')
                     /\ ~written',
         Beginning' => Stage' = StageAt(1)'
  PROVE  [Contract!Next]_(Contract!vars)
<1>1. /\ Stage = IF Class(report) = "silent" THEN "idle" ELSE Class(report)
      /\ ~written /\ report \in AllReports /\ written \in BOOLEAN
      /\ written' \in BOOLEAN
  BY ReadingStage DEF ReportsInv, TypeOK
<1>2. Class(report) \in {"usb", "rejected", "answered", "overflow", "silent"}
  BY <1>1, Classes
<1>3. CASE OthersCount /\ Reading'
  <2>1. UNCHANGED <<report, written>> /\ timer' = (timer + 1) % TimerMod
    BY <1>3 DEF OthersCount, Counted
  <2>2. Stage' = Stage /\ Stage # "counted"
    BY <1>1, <1>2, <1>3, <2>1
  <2>3. QED
    BY <2>1, <2>2 DEF Contract!Next, Contract!OthersCount, Contract!Counts
<1>4. CASE /\ UNCHANGED <<report, timer, written>>
           /\ todo' = <<>> /\ Class(report) \in {"silent", "rejected"}
  <2>1. Stage' = "idle"
    BY <1>4 DEF Stage
  <2>2. written' = FALSE /\ written = FALSE
    BY <1>1, <1>4
  <2>3. CASE Class(report) = "silent"
    BY <1>1, <1>4, <2>1, <2>3 DEF Contract!vars
  <2>4. CASE Class(report) = "rejected"
    <3>1. Stage = "rejected"
      BY <1>1, <2>4
    <3>2. QED
      BY <1>4, <2>1, <2>2, <3>1 DEF Contract!Next, Contract!Reject, Contract!Finishes
  <2>5. QED
    BY <1>4, <2>3, <2>4
<1>5. CASE UNCHANGED <<report, timer, written>> /\ Reading'
  <2>1. Stage' = Stage
    BY <1>1, <1>5
  <2>2. QED
    BY <1>5, <2>1 DEF Contract!vars
<1>6. CASE UNCHANGED <<report, timer, written>> /\ Beginning'
  <2>1. /\ IsAnswered(report) /\ ~written'
        /\ Stage' = IF report.id = "usb_cmd" THEN "usb" ELSE Class(report)
    BY <1>1, <1>6 DEF Beginning, StageAt, IsAnswered
  <2>2. Class(report) # "silent" /\ (report.id = "usb_cmd" => Class(report) = "usb")
    BY <1>1, <2>1, Classes
  <2>3. Stage' = Stage
    BY <1>1, <2>1, <2>2
  <2>4. QED
    BY <1>6, <2>3 DEF Contract!vars
<1>7. QED
  BY <1>3, <1>4, <1>5, <1>6 DEF ReadsOn

\* A step of a handler that is answering: the count, the write, an answer that
\* is too large, or nothing of the contract.
LEMMA AnsweringKeepsContract ==
  ASSUME Capacity = 64, ReportsInv, ReportsInv', Answering, Next,
         \A k \in 1..Len(AnswerTo(report')) :
           (report' \in AllReports /\ IsAnswered(report') /\
            todo' = SubSeq(AnswerTo(report'), k, Len(AnswerTo(report')))) =>
             Stage' = StageAt(k)'
  PROVE  [Contract!Next]_(Contract!vars)
<1> DEFINE A == AnswerTo(report)
           size == SizeBefore(report)
           end == BodyStarts(report)[Len(BodyOf(report)) + 1]
           sub == report.id # "usb_cmd"
<1>1. PICK k \in 1..Len(A) : AtAnswer(k)
  BY DEF Answering
<1>2. /\ report \in AllReports /\ IsAnswered(report)
      /\ written \in BOOLEAN
      /\ locked <=> report.id = "rumble_and_subcmd"
  BY DEF ReportsInv, TypeOK, Answering
<1>3. /\ Fills(A, size, Layout(report)) /\ Ordered(A, report) /\ Sized(A, report)
      /\ A \in Seq(Operations) /\ Len(A) \in Nat /\ Len(A) >= 2
  BY <1>2, AnswersFill, Zenon
<1>4. /\ todo = SubSeq(A, k, Len(A))
      /\ written <=> A[k].op = "unlock"
      /\ k > 1 => /\ buf = [data |-> 0, size |-> size[k]]
                  /\ \A j \in 2..k : size[j] <= 64
  BY <1>1 DEF AtAnswer
<1>5. /\ todo # <<>> /\ Head(todo) = A[k]
      /\ Tail(todo) = SubSeq(A, k + 1, Len(A))
      /\ k = Len(A) => Tail(todo) = <<>>
  BY <1>3, <1>4, RestOf
<1>6. /\ A[k].op = "count" <=> sub /\ k = 3
      /\ A[k].op = "unlock" <=> sub /\ k = Len(A)
      /\ A[k].op = "write" <=> k = IF sub THEN Len(A) - 1 ELSE Len(A)
  BY <1>3 DEF Ordered
<1>7. sub => Len(A) - 1 >= 4
  <2> SUFFICES ASSUME sub PROVE Len(A) - 1 >= 4
    OBVIOUS
  <2>1. Len(A) - 1 \in 1..Len(A)
    BY <1>3
  <2>2. A[Len(A) - 1].op = "write"
    BY <1>3, <2>1 DEF Ordered
  <2>3. A[3].op = "count"
    BY <1>3, CountPlace, Zenon
  <2>4. Len(A) - 1 - 1 \in 2..(Len(A) - 1)
    BY <1>3, <2>1, <2>2 DEF Sized
  <2> HIDE DEF A
  <2>5. Len(A) - 1 # 3
    BY <2>2, <2>3
  <2>6. \A n \in Nat : n - 1 - 1 \in 2..(n - 1) /\ n - 1 # 3 => n - 1 >= 4
    OBVIOUS
  <2>7. QED
    BY <1>3, <2>4, <2>5, <2>6
<1>8. /\ ~sub => Class(report) = "usb"
      /\ sub => Class(report) = IF end <= 64 THEN "answered" ELSE "overflow"
  BY <1>2, Classes, AnswerableEnds
<1>9. Stage = StageAt(k)
  BY <1>2, <1>4, AnsweringStage
\* The next operation of the same answer.
<1>10. ASSUME k # Len(A), report' = report, todo' = Tail(todo)
       PROVE  Stage' = StageAt(k + 1)'
  <2>1. k + 1 \in 1..Len(A) /\ todo' = SubSeq(A, k + 1, Len(A))
    BY <1>3, <1>5, <1>10
  <2>2. QED
    BY <1>2, <1>10, <2>1
<1>11. ASSUME todo' = <<>> PROVE Stage' = "idle"
  BY <1>11 DEF Stage
<1> HIDE DEF A, size, end
\* An operation that neither counts nor writes.
<1>12. ASSUME report' = report, todo' = Tail(todo), written' = written,
              timer' = timer, A[k].op \notin {"count", "write", "unlock"}
       PROVE  UNCHANGED Contract!vars
  <2>1. k # Len(A) /\ ~(sub /\ k = 3)
    BY <1>6, <1>12
  <2>2. Stage' = StageAt(k + 1)'
    BY <1>10, <1>12, <2>1
  <2>3. Stage' = Stage
    BY <1>9, <1>12, <2>1, <2>2 DEF StageAt
  <2>4. QED
    BY <1>12, <2>3 DEF Contract!vars
<1>13. CASE AddStep /\ A[k].op = "count"
  <2>1. /\ report' = report /\ todo' = Tail(todo) /\ written' = written
        /\ timer' = (timer + 1) % TimerMod
    BY <1>5, <1>13 DEF AddStep, Counted, NextIs
  <2>2. sub /\ k = 3 /\ k # Len(A) /\ ~written
    BY <1>4, <1>6, <1>7, <1>13
  <2>3. /\ Stage = Class(report)
        /\ Stage' = IF Class(report) = "answered" THEN "counted" ELSE "idle"
    BY <1>9, <1>10, <2>1, <2>2 DEF StageAt
  <2>4. CASE Class(report) = "answered"
    BY <2>1, <2>3, <2>4 DEF Contract!Next, Contract!Encode, Contract!Counts
  <2>5. CASE Class(report) = "overflow"
    <3>1. written' = FALSE
      BY <1>2, <2>1, <2>2
    <3>2. QED
      BY <2>1, <2>3, <2>5, <3>1
      DEF Contract!Next, Contract!Overflow, Contract!Counts, Contract!Finishes
  <2>6. QED
    BY <1>8, <2>2, <2>4, <2>5
<1>14. CASE WriteStep
  <2>1. /\ report' = report /\ todo' = Tail(todo) /\ written' = TRUE
        /\ timer' = timer /\ A[k].op = "write"
    BY <1>5, <1>14 DEF WriteStep, NextIs
  <2>2. ~written /\ Stage \in {"usb", "counted"}
    <3>1. ~written
      BY <1>4, <2>1
    <3>2. CASE sub
      <4>1. k = Len(A) - 1 /\ k >= 4
        BY <1>6, <1>7, <2>1, <3>2
      <4>2. k - 1 \in 2..k /\ size[k - 1] = end
        BY <1>3, <2>1, <3>2 DEF Sized, size, end
      <4>3. end <= 64
        BY <1>4, <4>1, <4>2
      <4>4. QED
        BY <1>8, <1>9, <3>1, <3>2, <4>1, <4>3 DEF StageAt
    <3>3. CASE ~sub
      BY <1>9, <3>1, <3>3 DEF StageAt
    <3>4. QED
      BY <3>1, <3>2, <3>3
  <2>3. Stage' = "idle"
    <3>1. CASE sub
      <4>1. k # Len(A) /\ ~(k + 1 <= 3)
        BY <1>3, <1>6, <1>7, <2>1, <3>1
      <4>2. Stage' = StageAt(k + 1)'
        BY <1>10, <2>1, <4>1
      <4>3. QED
        BY <2>1, <3>1, <4>1, <4>2 DEF StageAt
    <3>2. CASE ~sub
      BY <1>5, <1>6, <1>11, <2>1, <3>2
    <3>3. QED
      BY <3>1, <3>2
  <2>4. QED
    BY <2>1, <2>2, <2>3 DEF Contract!Next, Contract!Answer, Contract!Finishes
<1>15. CASE UnlockStep
  <2>1. /\ todo' = Tail(todo) /\ written' = written /\ timer' = timer
        /\ A[k].op = "unlock"
    BY <1>5, <1>15 DEF UnlockStep, NextIs
  <2>2. sub /\ k = Len(A) /\ written
    BY <1>4, <1>6, <2>1
  <2>3. Stage = "idle"
    BY <1>3, <1>7, <1>9, <2>2 DEF StageAt
  <2>4. Stage' = "idle"
    BY <1>5, <1>11, <2>1, <2>2
  <2>5. QED
    BY <2>1, <2>3, <2>4 DEF Contract!vars
<1>16. CASE Fails
  <2>1. k > 1 /\ A[k].op \in {"add", "count", "resize"} /\ ~Fits(A[k])
    <3>1. ~Fits(A[k])
      BY <1>5, <1>16 DEF Fails
    <3>2. A[k].op \in {"reset", "add", "count", "resize", "write", "unlock"}
          /\ (k = 1 => A[k].op = "reset")
      BY <1>3 DEF Fills
    <3>3. QED
      BY <3>1, <3>2 DEF Fits
  <2>2. /\ size[k] \in Nat /\ size[k + 1] \in Nat /\ A[k].n \in Nat
        /\ A[k].op \in {"add", "count"} => size[k + 1] = size[k] + A[k].n
        /\ A[k].op = "resize" => size[k + 1] = A[k].n
    <3>1. k \in 2..Len(A) /\ A[k] \in Operations
      BY <1>3, <2>1, ElementOfSeq
    <3>2. QED
      BY <1>3, <3>1 DEF Fills, Operations
  <2>3. size[k + 1] > 64
    BY <1>4, <2>1, <2>2 DEF Fits, CanAdd, CanResize, Tailroom
  <2>4. sub /\ ~(end <= 64) /\ k > 3
    <3>1. k + 1 \in 2..(Len(A) + 1)
      BY <1>3
    <3>2. sub /\ ~(end <= 64)
      BY <1>3, <2>2, <2>3, <3>1 DEF Sized, size, end
    <3>3. k + 1 \notin 2..4
      BY <1>3, <2>2, <2>3 DEF Sized, size
    <3>4. QED
      BY <2>1, <3>2, <3>3
  <2>5. Stage = "idle"
    BY <1>8, <1>9, <2>4 DEF StageAt
  <2>6. todo' = <<>> /\ timer' = timer /\ written' = written
    BY <1>5, <1>6, <1>16, <2>4 DEF Fails, NextIs
  <2>7. QED
    BY <1>11, <2>5, <2>6 DEF Contract!vars
<1>17. CASE OthersCount
  <2>1. ~sub
    BY <1>2, <1>17 DEF OthersCount, IsAnswered, IsUsbQuestion, IsSubcmd
  <2>2. Stage' = Stage /\ written' = written /\ timer' = (timer + 1) % TimerMod
    BY <1>17 DEF OthersCount, Counted, Stage, CountAhead
  <2>3. Stage # "counted"
    BY <1>9, <2>1 DEF StageAt
  <2>4. QED
    BY <2>2, <2>3 DEF Contract!Next, Contract!OthersCount, Contract!Counts
<1>18. CASE ResetStep
  <2>1. A[k].op = "reset"
    BY <1>5, <1>18 DEF ResetStep, NextIs
  <2>2. QED
    BY <1>12, <1>18, <2>1 DEF ResetStep
<1>19. CASE ResizeStep
  <2>1. A[k].op = "resize"
    BY <1>5, <1>19 DEF ResizeStep, NextIs
  <2>2. QED
    BY <1>12, <1>19, <2>1 DEF ResizeStep
<1>20. CASE AddStep /\ A[k].op # "count"
  <2>1. A[k].op = "add" /\ timer' = timer
    BY <1>5, <1>20 DEF AddStep, NextIs
  <2>2. QED
    BY <1>12, <1>20, <2>1 DEF AddStep
<1>21. ASSUME \/ \E r \in Reports : Receive(r)
              \/ PullStep \/ SwitchReportId \/ SwitchUsbCmd
              \/ LockAndSwitchSubcmd \/ FlashInRange \/ FlashOutOfRange
       PROVE  FALSE
  <2>1. A[k].op \in {"reset", "add", "count", "resize", "write", "unlock"}
    BY <1>3 DEF Fills
  <2>2. QED
    BY <1>5, <1>21, <2>1 DEF Receive, PullStep, SwitchReportId, SwitchUsbCmd,
       LockAndSwitchSubcmd, FlashInRange, FlashOutOfRange, NextIs
<1>22. QED
  BY <1>13, <1>14, <1>15, <1>16, <1>17, <1>18, <1>19, <1>20, <1>21 DEF Next

\* Every step of a handler is a step of the contract or nothing of it.
LEMMA NextKeepsContract ==
  ASSUME Capacity = 64, AnswerInv, AnswerInv', [Next]_vars
  PROVE  [Contract!Next]_(Contract!vars)
<1>1. ReportsInv /\ ReportsInv'
  BY DEF AnswerInv
<1>2. Reading' => /\ Stage' = IF Class(report') = "silent" THEN "idle"
                                                           ELSE Class(report')
                  /\ ~written'
  <2>1. (ReportsInv /\ Reading =>
          /\ Stage = IF Class(report) = "silent" THEN "idle" ELSE Class(report)
          /\ ~written)'
    BY ReadingStage, PTL
  <2>2. QED
    BY <1>1, <2>1
<1>3. ((report \in AllReports /\ IsAnswered(report)) =>
         \A k \in 1..Len(AnswerTo(report)) :
           todo = SubSeq(AnswerTo(report), k, Len(AnswerTo(report))) =>
             Stage = StageAt(k))'
  BY AnsweringStage, PTL
<1>4. CASE todo = <<>> /\ Next
  <2>1. Stage = "idle" /\ Stage # "counted"
    BY <1>4 DEF Stage
  <2>2. CASE OthersCount
    <3>1. Stage' = Stage /\ written' = written /\ timer' = (timer + 1) % TimerMod
      BY <2>2 DEF OthersCount, Counted, Stage, CountAhead
    <3>2. QED
      BY <2>1, <3>1 DEF Contract!Next, Contract!OthersCount, Contract!Counts
  <2>3. ASSUME NEW r \in Reports, Receive(r) PROVE Contract!Next
    <3>1. Reading' /\ written' = FALSE /\ timer' = timer
      BY <1>1, <2>3, ReceiveReads DEF Receive
    <3>2. report' \in AllReports
      BY <1>1 DEF ReportsInv, TypeOK
    <3>3. Class(report') \in {"usb", "rejected", "answered", "overflow", "silent"}
      BY <3>2, Classes
    <3>4. Stage' \in {"idle", "usb", "rejected", "answered", "overflow"}
      BY <1>2, <3>1, <3>3
    <3>5. QED
      BY <2>1, <3>1, <3>4
      DEF Contract!Next, Contract!Take, Contract!Return, Contract!Finishes
  <2>4. QED
    BY <1>1, <1>4, <2>2, <2>3, IdleStep
<1>5. CASE Reading /\ Next
  <2>1. ReadsOn
    BY <1>1, <1>5, ReadingStep
  <2>2. Beginning' => Stage' = StageAt(1)'
    <3> SUFFICES ASSUME Beginning' PROVE Stage' = StageAt(1)'
      OBVIOUS
    <3>1. /\ report' \in AllReports /\ IsAnswered(report')
          /\ todo' = SubSeq(AnswerTo(report'), 1, Len(AnswerTo(report')))
      BY <1>1 DEF Beginning, AtAnswer, ReportsInv, TypeOK, IsAnswered
    <3>2. Len(AnswerTo(report')) \in Nat /\ Len(AnswerTo(report')) >= 2
      BY <3>1, AnswersFill, Zenon
    <3>3. 1 \in 1..Len(AnswerTo(report'))
      BY <3>2
    <3>4. QED
      BY <1>3, <3>1, <3>3
  <2>3. QED
    BY <1>1, <1>2, <1>5, <2>1, <2>2, ReadingKeepsContract
<1>6. CASE Answering /\ Next
  BY <1>1, <1>3, <1>6, AnsweringKeepsContract
<1>7. CASE UNCHANGED vars
  BY <1>7 DEF vars, Contract!vars, Stage, CountAhead
<1>8. QED
  BY <1>4, <1>5, <1>6, <1>7 DEF AnswerInv

\* The handling of every report is one of the behaviours of the contract.
THEOREM ReportsKeepAnswerContract ==
  ASSUME Capacity = 64 PROVE Spec => ImplementsAnswerContract
<1>1. Init => Contract!Init
  BY DEF Init, Stage, Contract!Init
<1>2. AnswerInv /\ [Next]_vars => AnswerInv'
  BY NextAnswerInv
<1>3. AnswerInv /\ AnswerInv' /\ [Next]_vars => [Contract!Next]_(Contract!vars)
  BY NextKeepsContract
<1>4. QED
  BY <1>1, <1>2, <1>3, InitAnswerInv, PTL
  DEF Spec, ImplementsAnswerContract, Contract!Spec
===============================================================================
