--------------------------- MODULE OutputReportsProps --------------------------
(***************************************************************************)
(* What the handling of output reports must guarantee, whatever the host     *)
(* sends, and the abstract contract it implements.                          *)
(***************************************************************************)
EXTENDS OutputReports

\* Every variable has its type.
TypeOK ==
  /\ report \in AllReports
  /\ todo \in Seq(Operations)
  /\ buf \in Buffer
  /\ array \in [0..(Capacity - 1) -> Fields]
  /\ locked \in BOOLEAN
  /\ written \in BOOLEAN
  /\ timer \in 0..(TimerMod - 1)

-----------------------------------------------------------------------------
(* Memory.                                                                 *)

\* No sequence of pulls, resets, additions and resizes moves the window out of
\* the array: what is pulled and hexdumped was read, what is added has room,
\* however short the report and however large the answer (buf_p.h keeps the
\* headroom of pulled bytes out of the room for new ones).
WindowInArray == InArray(buf)

\* Whenever bytes of the flash are about to be copied into an answer, they are
\* bytes of the flash: address + size is compared without being fooled by the
\* 32-bit sum (switchpro.c:409-410), and before anything is copied.
FlashReadInBounds ==
  NextIs("add") /\ Head(todo).field = "flash"
    => report.address + report.size <= FlashSize

-----------------------------------------------------------------------------
(* Locking.                                                                *)

\* Every way out of on_output_report, the last one and each early return,
\* leaves the mutex unlocked.
MutexReleased == todo = <<>> => ~locked

-----------------------------------------------------------------------------
(* Answers.                                                                *)

Window == buf.data..(buf.data + buf.size - 1)

Places(field) == {i \in Window : array[i] = field}

\* An answer is written from the start of the array and every byte of it was
\* set for this answer: nothing of the request, which was in the same memory,
\* and nothing uninitialised reaches the host.  The answer to a subcommand
\* has its acknowledgement and the subcommand's id where the host looks for
\* them, after the timer and the eleven bytes of input.  It is 64 bytes long;
\* only the one to the baud rate is not.
AnswersAreWhole ==
  NextIs("write") =>
    /\ Window = 0..((IF report.cmd = "baudrate_3m" /\ ~locked THEN 2 ELSE 64) - 1)
    /\ Places("request") = {} /\ Places("unset") = {}
    /\ Places("id") = {0}
    /\ locked => /\ Places("timer") = {1}
                 /\ Places("input") = 2..12
                 /\ Places("ack") = {13}
                 /\ Places("cmd") = {14}
    /\ (locked /\ report.cmd = "flash_read") =>
                 /\ Places("address") = 15..18
                 /\ Places("size") = {19}
                 /\ Places("flash") = 20..(19 + report.size)

-----------------------------------------------------------------------------
(* The contract.                                                           *)

\* The bytes a report needs, and the largest flash read whose answer fits.
ReportIdSize == 1
SubcmdOffset == 1 + 1 + 8
ParameterSize(r) ==
  CASE r.cmd = "flash_read" -> 5
    [] r.cmd \in WithOneParameter -> 1
    [] OTHER -> 0
MaxFlashRead == Capacity - 20

IsUsbQuestion(r) ==
  /\ r.id = "usb_cmd" /\ r.len >= 2
  /\ r.cmd \in {"conn_status", "handshake", "baudrate_3m"}
IsSubcmd(r) == r.id = "rumble_and_subcmd" /\ r.len > SubcmdOffset

IsComplete(r) == r.len > SubcmdOffset + ParameterSize(r)
IsReadable(r) == r.cmd = "flash_read" => r.address + r.size <= FlashSize
IsAnswerable(r) == r.cmd = "flash_read" => r.size <= MaxFlashRead

\* The class of a report: the classes of SwitchPro!AllMsgClasses.
Class(r) ==
  CASE IsUsbQuestion(r) -> "usb"
    [] IsSubcmd(r) /\ ~(IsComplete(r) /\ IsReadable(r)) -> "rejected"
    [] IsSubcmd(r) /\ IsComplete(r) /\ IsReadable(r)
         -> IF IsAnswerable(r) THEN "answered" ELSE "overflow"
    [] OTHER -> "silent"

\* The timer has still to be counted, or may have to be.
CountAhead ==
  \E i \in DOMAIN todo :
    todo[i].op \in {"report_id", "lock", "flash_range", "count"}

Stage ==
  IF todo = <<>> THEN "idle"
  ELSE CASE Class(report) = "rejected" -> "rejected"
         [] Class(report) = "usb" /\ ~written -> "usb"
         [] Class(report) = "answered" /\ CountAhead -> "answered"
         [] Class(report) = "answered" /\ ~CountAhead /\ ~written -> "counted"
         [] Class(report) = "overflow" /\ CountAhead -> "overflow"
         [] OTHER -> "idle"

Contract == INSTANCE AnswerContract WITH stage <- Stage

\* The handling of any report, byte by byte, is one of the few behaviours of
\* AnswerContract, the one that belongs to its class: a complete and sensible
\* subcommand is answered once, with one count of the timer that nobody can
\* come between; a short or out-of-range one counts nothing; a flash read of
\* more than 44 bytes is counted and never answered.  These are the classes
\* with which SwitchPro models on_output_report.
ImplementsAnswerContract == Contract!Spec
===============================================================================
