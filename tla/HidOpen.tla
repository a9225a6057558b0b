--------------------------------- MODULE HidOpen -------------------------------
(***************************************************************************)
(* udcinput_hidg_open of src/hid.c: how the device node of a HID function is *)
(* found and opened, with what it allocates and opens on the way, and        *)
(* udcinput_vsprintf_alloc of src/util.c, which makes its two paths.  The    *)
(* event loop calls it again and again until it succeeds.  A block of the    *)
(* heap and a descriptor are named by the variable of the code they are in.  *)
(***************************************************************************)
EXTENDS Integers, FiniteSets

CONSTANTS
  DevinfoSize,            \* sizeof(devinfo)
  MaxLength,              \* bound: the longest <function>/dev of the kernel
  MaxLost,                \* bound: blocks lost until the model stops counting
  VaListPassedByReference \* the ABI: a callee's va_arg moves the caller's va_list

ASSUME HidOpenAssumption ==
  /\ DevinfoSize \in Nat \ {0}
  /\ MaxLength \in Nat
  /\ MaxLost \in Nat \ {0}
  /\ VaListPassedByReference \in BOOLEAN

VARIABLES
  at,         \* the next step of the call
  heap,       \* blocks that were allocated and not freed
  fds,        \* descriptors that were opened and not closed
  length,     \* how many bytes <function>/dev has
  nread,      \* what read returned
  touched,    \* history: the bytes of devinfo that were written by index
  path,       \* history: whether the path of the next open says what it should
  result,     \* what the call returns
  lost        \* history: blocks that no variable points to any more

vars == <<at, heap, fds, length, nread, touched, path, result, lost>>

Returns(r) == at' = "returned" /\ result' = r

-----------------------------------------------------------------------------
(* udcinput_vsprintf_alloc formats twice: once to measure, and again into the *)
(* block, which it frees when the text does not have the measured length.    *)
(* Both passes are given ap, and not the copy made for the first: where a    *)
(* va_list is passed by reference, the second reads what follows the         *)
(* arguments.                                                               *)

Texts == IF VaListPassedByReference THEN {"right", "other"} ELSE {"right"}

SprintfAlloc(block, then) ==
  \/ /\ Returns("error")                       \* no memory, or a wrong length
     /\ UNCHANGED <<heap, path>>
  \/ /\ heap' = heap \cup {block}
     /\ path' \in Texts
     /\ at' = then
     /\ UNCHANGED result

-----------------------------------------------------------------------------
(* Faulty variants, no part of the code.                                    *)

\* A text that fills devinfo is taken for a complete one.
TooLongByOne(n) == n > DevinfoSize

\* A read error returns before the descriptor is closed.
ReadDevinfoKeepsDescriptor ==
  /\ at = "read"
  /\ nread' \in {-1, IF length < DevinfoSize THEN length ELSE DevinfoSize}
  /\ IF nread' < 0 \/ nread' >= DevinfoSize
       THEN Returns("error") /\ UNCHANGED fds
       ELSE at' = "terminate" /\ fds' = fds \ {"devinfo"} /\ UNCHANGED result
  /\ UNCHANGED <<heap, length, touched, path, lost>>

\* The path of <function>/dev is freed only when open fails.
OpenDevinfoKeepsPath ==
  /\ at = "open_devinfo"
  /\ \/ /\ fds' = fds \cup {"devinfo"}
        /\ at' = "read"
        /\ UNCHANGED <<result, heap>>
     \/ /\ Returns("error")
        /\ heap' = heap \ {"devinfo_path"}
        /\ UNCHANGED fds
  /\ UNCHANGED <<length, nread, touched, path, lost>>

-----------------------------------------------------------------------------
TooLong(n) == n >= DevinfoSize

Init ==
  /\ at = "start"
  /\ heap = {}
  /\ fds = {}
  /\ length \in 0..MaxLength
  /\ nread = 0
  /\ touched = {}
  /\ path = "right"
  /\ result = "none"
  /\ lost = 0

FormatDevinfoPath ==
  /\ at = "start"
  /\ SprintfAlloc("devinfo_path", "open_devinfo")
  /\ UNCHANGED <<fds, length, nread, touched, lost>>

\* The path is freed before the result of open is looked at.
OpenDevinfo ==
  /\ at = "open_devinfo"
  /\ heap' = heap \ {"devinfo_path"}
  /\ \/ /\ fds' = fds \cup {"devinfo"}
        /\ at' = "read"
        /\ UNCHANGED result
     \/ /\ Returns("error")
        /\ UNCHANGED fds
  /\ UNCHANGED <<length, nread, touched, path, lost>>

\* One read of at most sizeof(devinfo) bytes, and the descriptor is closed
\* whatever it returned.  What fills the array may have
\* been cut, and has no room for the terminator.
ReadDevinfo ==
  /\ at = "read"
  /\ nread' \in {-1, IF length < DevinfoSize THEN length ELSE DevinfoSize}
  /\ fds' = fds \ {"devinfo"}
  /\ IF nread' < 0 \/ TooLong(nread')
       THEN Returns("error")
       ELSE at' = "terminate" /\ UNCHANGED result
  /\ UNCHANGED <<heap, length, touched, path, lost>>

\* The terminator, and a second one in the place of a newline at the end.
TerminateDevinfo ==
  /\ at = "terminate"
  /\ touched' \in {{nread}} \cup {{nread, n} : n \in {nread - 1} \cap Nat}
  /\ at' = "format_path"
  /\ UNCHANGED <<heap, fds, length, nread, path, result, lost>>

FormatPath ==
  /\ at = "format_path"
  /\ SprintfAlloc("path", "open_node")
  /\ UNCHANGED <<fds, length, nread, touched, lost>>

\* The early return for ENOENT leaves path alone; the other two free it.
OpenNode ==
  /\ at = "open_node"
  /\ \/ /\ fds' = fds \cup {"hidg"}
        /\ heap' = heap \ {"path"}
        /\ Returns("fd")
     \/ /\ Returns("missing")
        /\ UNCHANGED <<heap, fds>>
     \/ /\ Returns("error")
        /\ heap' = heap \ {"path"}
        /\ UNCHANGED fds
  /\ UNCHANGED <<length, nread, touched, path, lost>>

\* The caller keeps the descriptor it was given, and calls again: after 500 ms
\* when there is none, for the second descriptor when there is one.
Again ==
  /\ at = "returned"
  /\ at' = "start"
  /\ fds' = fds \ {"hidg"}
  /\ heap' = {}
  /\ lost' = IF lost + Cardinality(heap) <= MaxLost THEN lost + Cardinality(heap) ELSE MaxLost
  /\ touched' = {}
  /\ nread' = 0
  /\ result' = "none"
  /\ path' = "right"
  /\ length' \in 0..MaxLength

Next ==
  \/ FormatDevinfoPath
  \/ OpenDevinfo
  \/ ReadDevinfo
  \/ TerminateDevinfo
  \/ FormatPath
  \/ OpenNode
  \/ Again

Spec == Init /\ [][Next]_vars
===============================================================================
