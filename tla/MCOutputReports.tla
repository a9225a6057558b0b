----------------------------- MODULE MCOutputReports ---------------------------
(* An instance of OutputReports for TLC: the real buffer of 64 bytes, every    *)
(* kind of report at the lengths around each pull, and flash reads around both *)
(* ends of the flash, around the wrap of the address, and around the largest   *)
(* one that is answered.  Flash and addresses are scaled down from 2^19, 2^32. *)
EXTENDS OutputReportsProps

CONSTANTS Lengths, Addresses, Sizes

Kind(id, cmds, addresses, sizes) ==
  [len : Lengths, id : {id}, cmd : cmds, address : addresses, size : sizes]

MCReports ==
  Kind("rumble_and_subcmd", Subcmds \ {"flash_read"}, {0}, {0})
    \cup Kind("rumble_and_subcmd", {"flash_read"}, Addresses, Sizes)
    \cup Kind("usb_cmd", UsbCmds, {0}, {0})
    \cup UNION {Kind(id, {"unsupported"}, {0}, {0}) : id \in {"zero", "rumble", "unsupported"}}
===============================================================================
