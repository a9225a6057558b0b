----------------------------- MODULE AnswerContract ----------------------------
(***************************************************************************)
(* What the host and the other threads see of the handling of one output     *)
(* report, whatever its bytes are: the report belongs to a class, a          *)
(* subcommand counts the report timer at most once, just before its answer   *)
(* and with no other thread counting in between, an answer is written at     *)
(* most once, and a report that is rejected counts nothing.                  *)
(***************************************************************************)
EXTENDS Integers

CONSTANT TimerMod

VARIABLES
  stage,     \* "idle", the class of the report, or "counted"
  written,   \* the answer to the report was given to write
  timer      \* input_report[1]

vars == <<stage, written, timer>>

Counts == timer' = (timer + 1) % TimerMod
Finishes(answer) == stage' = "idle" /\ written' = answer

Init == stage = "idle" /\ written = FALSE /\ timer = 0

Take ==
  /\ stage = "idle"
  /\ stage' \in {"usb", "answered", "rejected", "overflow"}
  /\ written' = FALSE
  /\ timer' = timer

\* The answer to a subcommand is made, with the timer in it.
Encode == stage = "answered" /\ stage' = "counted" /\ Counts /\ written' = written

Answer == stage \in {"usb", "counted"} /\ Finishes(TRUE) /\ timer' = timer

Reject == stage = "rejected" /\ Finishes(FALSE) /\ timer' = timer

\* The answer turns out too large when the timer has been counted.
Overflow == stage = "overflow" /\ Finishes(FALSE) /\ Counts

\* The handler has returned; also a report that asks for nothing.
Return == stage = "idle" /\ Finishes(FALSE) /\ timer' = timer

\* set_state counts under the mutex that a counted answer still holds.
OthersCount ==
  stage # "counted" /\ Counts /\ UNCHANGED <<stage, written>>

\* A new gamepad starts from zero.
Restart == stage = "idle" /\ timer' = 0 /\ UNCHANGED <<stage, written>>

Next ==
  \/ Take \/ Encode \/ Answer \/ Reject \/ Overflow \/ Return
  \/ OthersCount \/ Restart

Spec == Init /\ [][Next]_vars
===============================================================================
