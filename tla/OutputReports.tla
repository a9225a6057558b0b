----------------------------- MODULE OutputReports -----------------------------
(***************************************************************************)
(* on_output_report of src/gamepads/switchpro.c and the functions it calls,  *)
(* one operation on the buffer at a time: how an output report of any length *)
(* is taken apart, and how the answer is put together in the same 64 bytes.  *)
(*                                                                         *)
(* todo is what the handler has left to do.  A branch of the code (a switch  *)
(* over an id, the range check of a flash read) replaces todo by the         *)
(* operations of the branch that was chosen.  An operation that does not fit *)
(* into the buffer ends the handler: CHECKG jumps to a label that unlocks    *)
(* the mutex if it was locked, and returns.                                  *)
(***************************************************************************)
EXTENDS Buf, Sequences

CONSTANTS
  Reports,      \* the output reports the host sends
  FlashSize,    \* FLASH_SIZE
  AddressMod,   \* an address is a 32-bit number: 2^32
  MaxSize,      \* the largest size of a flash read, an 8-bit number
  TimerMod      \* input_report[1] counts modulo 256

ReportIds == {"zero", "rumble_and_subcmd", "rumble", "usb_cmd", "unsupported"}
UsbCmds == {"conn_status", "handshake", "baudrate_3m", "timeout_off",
            "timeout_on", "unsupported"}
Subcmds == {"manual_bt_pairing", "req_devinfo", "triggers_elapsed",
            "low_power_mode", "flash_read", "enable_imu", "set_report_mode",
            "enable_rumble", "set_player_leds", "set_home_led", "unsupported"}

\* A report of len bytes.  Of a short one, only the bytes it has are looked at.
AllReports ==
  [len : 0..Capacity, id : ReportIds, cmd : UsbCmds \cup Subcmds,
   address : 0..(AddressMod - 1), size : 0..MaxSize]

ASSUME OutputReportsAssumption ==
  /\ Reports \subseteq AllReports
  /\ FlashSize \in Nat
  /\ AddressMod \in Nat
  /\ FlashSize < AddressMod
  /\ MaxSize \in Nat
  /\ MaxSize < AddressMod
  /\ TimerMod \in Nat \ {0}

VARIABLES
  report,   \* the report that is or was handled last
  todo,     \* the operations its handler has left
  buf,      \* the buffer, of which report is the first content
  array,    \* what each byte of its array is
  locked,   \* the loop thread holds switchpro->mutex
  written,  \* history: the answer to report was given to write
  timer     \* input_report[1]

vars == <<report, todo, buf, array, locked, written, timer>>

-----------------------------------------------------------------------------
(* Operations and the handlers as sequences of them.                        *)

Fields == {"unset", "request", "id", "timer", "input", "ack", "cmd", "value",
           "address", "size", "flash", "zero"}
Ops == {"pull", "add", "count", "resize", "reset", "lock", "unlock", "write",
        "report_id", "usb_cmd", "flash_range"}
Operations == [op : Ops, n : Nat, field : Fields]

Do(op) == [op |-> op, n |-> 0, field |-> "unset"]
Pull(n) == [op |-> "pull", n |-> n, field |-> "request"]
Add(n, field) == [op |-> "add", n |-> n, field |-> field]
\* The old timer is added and input_report[1] incremented.
Count == [op |-> "count", n |-> 1, field |-> "timer"]
Resize(n) == [op |-> "resize", n |-> n, field |-> "zero"]

\* encode_subcmd_response_header
Header == <<Add(1, "id"), Count, Add(11, "input"), Add(1, "ack"), Add(1, "cmd")>>

Unlock == <<Do("unlock")>>
-----------------------------------------------------------------------------
(* Faulty variants, no part of the specification.                           *)

\* udcinput_buf_add instead of a resize: the bytes are not set.
FinishUnset == <<[Resize(64) EXCEPT !.field = "unset"], Do("write")>> \o Unlock

\* end is not compared with address, so that a sum beyond 2^32 looks small.
InFlashIgnoringWrap(r) == (r.address + r.size) % AddressMod <= FlashSize

-----------------------------------------------------------------------------
Finish == <<Resize(64), Do("write")>> \o Unlock

\* Another faulty variant: an answer appended to what is left of the request.
SubcmdAnswerWithoutReset(body) == Header \o body \o Finish

SubcmdAnswer(body) == <<Do("reset")>> \o Header \o body \o Finish

\* uint32_t end = address + size, and the condition of the early return.
EndOf(r) ==
  IF r.address + r.size < AddressMod THEN r.address + r.size
                                     ELSE r.address + r.size - AddressMod
InFlash(r) == r.address <= EndOf(r) /\ EndOf(r) <= FlashSize

FlashAnswer(r) ==
  SubcmdAnswer(<<Add(4, "address"), Add(1, "size"), Add(r.size, "flash")>>)

FlashRead(r) == <<Pull(4), Pull(1), Do("flash_range")>>

WithOneParameter == {"low_power_mode", "enable_imu", "set_report_mode",
                     "enable_rumble", "set_player_leds"}

\* The body of req_devinfo: version, type, MAC address, sensor and colors.
Devinfo == <<Add(2, "value"), Add(1, "value"), Add(1, "value"), Add(6, "value"),
             Add(1, "value"), Add(1, "value")>>

\* on_rumble_and_subcmd: the switch, with the mutex locked.
SubcmdHandler(r) ==
  CASE r.cmd = "flash_read" -> FlashRead(r)
    [] r.cmd \in WithOneParameter -> <<Pull(1)>> \o SubcmdAnswer(<<>>)
    [] r.cmd = "req_devinfo" -> SubcmdAnswer(Devinfo)
    [] r.cmd \in {"manual_bt_pairing", "triggers_elapsed", "set_home_led"}
         -> SubcmdAnswer(<<>>)
    [] OTHER -> SubcmdAnswer(<<Add(1, "value")>>)

\* on_usb_cmd: the switch.  Only the baud rate's answer is not filled up.
UsbHandler(r) ==
  CASE r.cmd = "conn_status"
         -> <<Do("reset"), Add(1, "id"), Add(1, "cmd"), Add(8, "value"),
              Resize(64), Do("write")>>
    [] r.cmd = "handshake"
         -> <<Do("reset"), Add(1, "id"), Add(1, "cmd"), Resize(64), Do("write")>>
    [] r.cmd = "baudrate_3m"
         -> <<Do("reset"), Add(1, "id"), Add(1, "cmd"), Do("write")>>
    [] OTHER -> <<>>

\* on_output_report: the switch.  The byte after the report id is the packet
\* number, then follow the two 32-bit numbers of on_rumble.
ReportHandler(r) ==
  CASE r.id = "rumble_and_subcmd"
         -> <<Pull(1), Pull(4), Pull(4), Pull(1), Do("lock")>>
    [] r.id = "rumble" -> <<Pull(1), Pull(4), Pull(4)>>
    [] r.id = "usb_cmd" -> <<Pull(1), Do("usb_cmd")>>
    [] OTHER -> <<>>

OnOutputReport == <<Pull(1), Do("report_id")>>

-----------------------------------------------------------------------------
NoReport == [len |-> 0, id |-> "zero", cmd |-> "unsupported", address |-> 0,
             size |-> 0]

Init ==
  /\ report = NoReport
  /\ todo = <<>>
  /\ buf = Holding(0)
  /\ array = [i \in 0..(Capacity - 1) |-> "unset"]
  /\ locked = FALSE
  /\ written = FALSE
  /\ timer = 0

NextIs(op) == todo # <<>> /\ Head(todo).op = op

Fits(operation) ==
  CASE operation.op = "pull" -> CanPull(buf, operation.n)
    [] operation.op \in {"add", "count"} -> CanAdd(buf, operation.n)
    [] operation.op = "resize" -> CanResize(buf, operation.n)
    [] OTHER -> TRUE

\* The array after n bytes were set from a place on.
Set(from, n, field) ==
  [i \in 0..(Capacity - 1) |-> IF from <= i /\ i < from + n THEN field ELSE array[i]]

-----------------------------------------------------------------------------
(* One action per kind of operation.                                        *)

Counted == (timer + 1) % TimerMod

\* process_datafd_events: a fresh array on the stack, filled by read.
Receive(r) ==
  /\ todo = <<>>
  /\ report' = r
  /\ todo' = OnOutputReport
  /\ buf' = Holding(r.len)
  /\ array' = [i \in 0..(Capacity - 1) |-> IF i < r.len THEN "request" ELSE "unset"]
  /\ written' = FALSE
  /\ UNCHANGED <<locked, timer>>

PullStep ==
  /\ NextIs("pull")
  /\ Fits(Head(todo))
  /\ buf' = Pulled(buf, Head(todo).n)
  /\ todo' = Tail(todo)
  /\ UNCHANGED <<report, array, locked, written, timer>>

AddStep ==
  /\ NextIs("add") \/ NextIs("count")
  /\ Fits(Head(todo))
  /\ buf' = Added(buf, Head(todo).n)
  /\ array' = Set(TailOf(buf), Head(todo).n, Head(todo).field)
  /\ timer' = IF NextIs("count") THEN Counted ELSE timer
  /\ todo' = Tail(todo)
  /\ UNCHANGED <<report, locked, written>>

ResizeStep ==
  /\ NextIs("resize")
  /\ Fits(Head(todo))
  /\ buf' = Resized(buf, Head(todo).n)
  /\ array' = Set(TailOf(buf), Head(todo).n - buf.size, Head(todo).field)
  /\ todo' = Tail(todo)
  /\ UNCHANGED <<report, locked, written, timer>>

\* CHECKG and its labels.  The argument of udcinput_buf_add_u8 is evaluated,
\* and the timer incremented, before the byte is found not to fit.
Fails ==
  /\ todo # <<>>
  /\ ~Fits(Head(todo))
  /\ todo' = <<>>
  /\ locked' = FALSE
  /\ timer' = IF NextIs("count") THEN Counted ELSE timer
  /\ UNCHANGED <<report, buf, array, written>>

ResetStep ==
  /\ NextIs("reset")
  /\ buf' = Reset(buf)
  /\ todo' = Tail(todo)
  /\ UNCHANGED <<report, array, locked, written, timer>>

SwitchReportId ==
  /\ NextIs("report_id")
  /\ todo' = ReportHandler(report)
  /\ UNCHANGED <<report, buf, array, locked, written, timer>>

SwitchUsbCmd ==
  /\ NextIs("usb_cmd")
  /\ todo' = UsbHandler(report)
  /\ UNCHANGED <<report, buf, array, locked, written, timer>>

\* The mutex is locked before the switch over the subcommand's id.
LockAndSwitchSubcmd ==
  /\ NextIs("lock")
  /\ locked' = TRUE
  /\ todo' = SubcmdHandler(report)
  /\ UNCHANGED <<report, buf, array, written, timer>>

FlashInRange ==
  /\ NextIs("flash_range")
  /\ InFlash(report)
  /\ todo' = FlashAnswer(report)
  /\ UNCHANGED <<report, buf, array, locked, written, timer>>

FlashOutOfRange ==
  /\ NextIs("flash_range")
  /\ ~InFlash(report)
  /\ todo' = <<>>
  /\ locked' = FALSE
  /\ UNCHANGED <<report, buf, array, written, timer>>

\* udcinput_hidg_write_input_report writes the window; its result is ignored.
WriteStep ==
  /\ NextIs("write")
  /\ written' = TRUE
  /\ todo' = Tail(todo)
  /\ UNCHANGED <<report, buf, array, locked, timer>>

UnlockStep ==
  /\ NextIs("unlock")
  /\ locked' = FALSE
  /\ todo' = Tail(todo)
  /\ UNCHANGED <<report, buf, array, written, timer>>

\* Another thread in set_state counts with the mutex locked.
OthersCount ==
  /\ ~locked
  /\ timer' = Counted
  /\ UNCHANGED <<report, todo, buf, array, locked, written>>

Next ==
  \/ \E r \in Reports : Receive(r)
  \/ PullStep \/ AddStep \/ ResizeStep \/ Fails \/ ResetStep
  \/ SwitchReportId \/ SwitchUsbCmd \/ LockAndSwitchSubcmd
  \/ FlashInRange \/ FlashOutOfRange
  \/ WriteStep \/ UnlockStep
  \/ OthersCount

Spec == Init /\ [][Next]_vars
===============================================================================
