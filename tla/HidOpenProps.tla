------------------------------ MODULE HidOpenProps -----------------------------
(***************************************************************************)
(* What every way out of udcinput_hidg_open must leave behind, however often *)
(* it is tried.                                                             *)
(***************************************************************************)
EXTENDS HidOpen

\* Every variable has its type.
TypeOK ==
  /\ at \in {"start", "open_devinfo", "read", "terminate", "format_path", "open_node",
             "returned"}
  /\ heap \subseteq {"devinfo_path", "path"}
  /\ fds \subseteq {"devinfo", "hidg"}
  /\ length \in 0..MaxLength
  /\ nread \in -1..DevinfoSize
  /\ touched \subseteq 0..(DevinfoSize - 1)
  /\ path \in {"right", "other"}
  /\ result \in {"none", "fd", "missing", "error"}
  /\ lost \in 0..MaxLost

\* No return, early or not (hid.c:25, 33, 42, 47, 57, 78, 84 and 88), leaves a
\* descriptor open, except the one that is the result.
ReturnsOneDescriptor ==
  at = "returned" => fds = (IF result = "fd" THEN {"hidg"} ELSE {})

\* Blocks of the heap are lost in one case only: each time the device node does
\* not exist (hid.c:77-79) its path is, at most one block for each call.
OnlyMissingNodeLeaks ==
  [][/\ at = "returned" /\ lost' # lost => result = "missing"
     /\ lost' <= lost + 1]_vars

\* The node that was opened is the one that the kernel named: the number in
\* <function>/dev was read to its end, and is what the path was made from.
\* A number cut to the size of devinfo would name another device.
OpensTheFunctionsNode ==
  result = "fd" => path = "right" /\ nread = length

\* "Allocate memory and call vsprintf on it." (include-private/udcinput/util.h:112):
\* the text of the block is what the format and the arguments say.
FormatsItsArguments == heap # {} => path = "right"
===============================================================================
