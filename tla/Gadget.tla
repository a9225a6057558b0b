-------------------------------- MODULE Gadget --------------------------------
(***************************************************************************)
(* The life of a USB gadget in the kernel's configfs: the gadget and         *)
(* function calls of src/udcinput.c, and the parts of                        *)
(* src/gamepads/switchpro.c that configure a gadget and create a function.   *)
(*                                                                         *)
(* Every call is a script: the system calls it makes, in their order, each   *)
(* with what the code does when it fails (give up, or log and go on).  One   *)
(* step runs one system call, and the program may die between any two.  The  *)
(* tree in configfs belongs to the kernel and survives the program.          *)
(***************************************************************************)
EXTENDS Integers, Sequences

CONSTANTS
  MaxId,    \* bound on gadget->next_function_id
  Faults    \* the system calls that may fail although the kernel allows them

Operations ==
  {"mkdir", "rmdir", "write", "mkfunction", "rmfunction", "write_function",
   "link", "unlink", "bind", "unbind"}

ASSUME GadgetAssumption ==
  /\ MaxId \in Nat \ {0}
  /\ Faults \subseteq Operations

Ids == 1..MaxId

VARIABLES
  dirs,       \* directories the program made in configfs, see Parent
  functions,  \* the ids of functions/hid.<id>
  links,      \* the ids of the symlinks configs/c.1/<id>
  bound,      \* the gadget is bound to a UDC
  ram,        \* gadget->path: "none" (no gadget object), "created", "ready"
  next,       \* gadget->next_function_id
  pads,       \* the functions of gamepads that were created and not destroyed
  call,       \* the call in progress
  script,     \* the system calls it has left
  ret         \* the result of the last call: "none", "ok" or "error"

tree == <<dirs, functions, links, bound>>
vars == <<dirs, functions, links, bound, ram, next, pads, call, script, ret>>

Calls == {"none", "init", "init_cleanup", "configure", "create", "undo_create",
          "enable", "disable", "destroy_pad", "destroy_gadget"}

\* A system call whose failure ends the call, and one whose failure is ignored.
Must(op, arg) == [op |-> op, arg |-> arg, must |-> TRUE]
Try(op, arg) == [op |-> op, arg |-> arg, must |-> FALSE]

\* Each loop over a directory is a loop over all ids: to try one that is not
\* there changes nothing.
ForEachId(op) == [id \in Ids |-> Try(op, id)]

Init ==
  /\ dirs = {}
  /\ functions = {}
  /\ links = {}
  /\ bound = FALSE
  /\ ram = "none"
  /\ next = 1
  /\ pads = {}
  /\ call = "none"
  /\ script = <<>>
  /\ ret = "none"

-----------------------------------------------------------------------------
(* The kernel's configfs.                                                  *)

\* strings/0x409, configs/c.1 and configs/c.1/strings/0x409.
Parent(dir) ==
  CASE dir = "gadget" -> "usb_gadget"
    [] dir \in {"strings", "config"} -> "gadget"
    [] dir = "config_strings" -> "config"

IsEmpty(dir) ==
  /\ \A d \in dirs : Parent(d) # dir
  /\ dir = "gadget" => functions = {}
  /\ dir = "config" => links = {}

\* What the kernel lets the program do: linked functions are busy, and so is a
\* bound gadget for new links; a gadget without a linked function cannot bind.
Allowed(op, arg) ==
  CASE op = "mkdir" -> /\ arg \notin dirs
                       /\ Parent(arg) \in dirs \cup {"usb_gadget"}
    [] op = "rmdir" -> arg \in dirs /\ IsEmpty(arg)
    [] op = "write" -> arg \in dirs
    [] op = "mkfunction" -> "gadget" \in dirs /\ arg \notin functions
    [] op = "rmfunction" -> arg \in functions /\ arg \notin links
    [] op = "write_function" -> arg \in functions /\ arg \notin links
    [] op = "link" -> /\ arg \in functions /\ arg \notin links
                      /\ "config" \in dirs /\ ~bound
    [] op = "unlink" -> arg \in links
    [] op = "bind" -> "gadget" \in dirs /\ links # {} /\ ~bound
    [] op = "unbind" -> bound

\* Unlinking a function of a bound gadget unbinds it.
Effect(op, arg) ==
  /\ dirs' = CASE op = "mkdir" -> dirs \cup {arg}
               [] op = "rmdir" -> dirs \ {arg}
               [] OTHER -> dirs
  /\ functions' = CASE op = "mkfunction" -> functions \cup {arg}
                    [] op = "rmfunction" -> functions \ {arg}
                    [] OTHER -> functions
  /\ links' = CASE op = "link" -> links \cup {arg}
                [] op = "unlink" -> links \ {arg}
                [] OTHER -> links
  /\ bound' = CASE op = "bind" -> TRUE
                [] op \in {"unbind", "unlink"} -> FALSE
                [] OTHER -> bound

-----------------------------------------------------------------------------
(* Faulty variants of the scripts below, each a plausible slip in the code.   *)
(* They are no part of the specification: they show that the properties of    *)
(* GadgetProps can tell such a program from this one.                        *)

\* Functions removed while configurations still link to them.
RemovalFunctionsFirst ==
  <<Try("unbind", "gadget")>>
    \o ForEachId("rmfunction") \o ForEachId("unlink")
    \o <<Try("rmdir", "config_strings"), Try("rmdir", "config"),
         Try("rmdir", "strings"), Try("rmdir", "gadget")>>

\* The strings of the configuration forgotten.
RemovalWithoutConfigStrings ==
  <<Try("unbind", "gadget")>>
    \o ForEachId("unlink") \o <<Try("rmdir", "config")>>
    \o ForEachId("rmfunction")
    \o <<Try("rmdir", "strings"), Try("rmdir", "gadget")>>

\* An existing directory taken for a gadget of its own.
InitScriptIgnoringExisting(cleanup) == <<Try("mkdir", "gadget")>>

\* The result of udcinput_function_enable ignored.
CreateScriptIgnoringLink(id) ==
  <<Must("mkfunction", id), Must("write_function", id), Try("link", id)>>

\* No udcinput_function_destroy when init fails.
UndoCreateNothing == <<>>

-----------------------------------------------------------------------------
(* The scripts.                                                            *)

\* delete_sysfs_gadget with delete_config_contents.
Removal ==
  <<Try("unbind", "gadget")>>
    \o ForEachId("unlink")
    \o <<Try("rmdir", "config_strings"), Try("rmdir", "config")>>
    \o ForEachId("rmfunction")
    \o <<Try("rmdir", "strings"), Try("rmdir", "gadget")>>

InitScript(cleanup) ==
  (IF cleanup /\ "gadget" \in dirs THEN Removal ELSE <<>>)
    \o <<Must("mkdir", "gadget")>>

ConfigureScript ==
  <<Must("write", "gadget"),
    Must("mkdir", "strings"), Must("write", "strings"),
    Must("mkdir", "config"), Must("mkdir", "config_strings"),
    Must("write", "config")>>

\* udcinput_function_create, and init with udcinput_function_enable.
CreateScript(id) ==
  <<Must("mkfunction", id), Must("write_function", id), Must("link", id)>>

\* udcinput_function_destroy: a function that was not enabled has no symlink.
UndoCreateScript == <<Try("rmfunction", next - 1)>>
DestroyScript(id) == <<Try("unlink", id), Try("rmfunction", id)>>

-----------------------------------------------------------------------------
(* The calls.                                                              *)

Begin(name, steps) ==
  /\ call' = name
  /\ script' = steps
  /\ ret' = "none"

\* udcinput_gadget_create.  The program has destroyed the gamepads of an
\* earlier gadget: their ids would be given again.
GadgetCreate ==
  /\ call = "none"
  /\ ram = "none"
  /\ pads = {}
  /\ ram' = "created"
  /\ next' = 1
  /\ UNCHANGED <<tree, pads, call, script, ret>>

GadgetInit(cleanup) ==
  /\ call = "none"
  /\ ram = "created"
  /\ Begin(IF cleanup THEN "init_cleanup" ELSE "init", InitScript(cleanup))
  /\ UNCHANGED <<tree, ram, next, pads>>

GadgetConfigure ==
  /\ call = "none"
  /\ ram = "ready"
  /\ Begin("configure", ConfigureScript)
  /\ UNCHANGED <<tree, ram, next, pads>>

GadgetEnable ==
  /\ call = "none"
  /\ ram = "ready"
  /\ Begin("enable", <<Must("bind", "gadget")>>)
  /\ UNCHANGED <<tree, ram, next, pads>>

GadgetDisable ==
  /\ call = "none"
  /\ ram = "ready"
  /\ Begin("disable", <<Must("unbind", "gadget")>>)
  /\ UNCHANGED <<tree, ram, next, pads>>

\* udcinput_gamepad_switchpro_create.
PadCreate ==
  /\ call = "none"
  /\ ram = "ready"
  /\ next \in Ids
  /\ Begin("create", CreateScript(next))
  /\ UNCHANGED <<tree, ram, next, pads>>

\* The calls that need an initialised gadget or must not have one.
Refused ==
  /\ call = "none"
  /\ ram \in {"created", "ready"}
  /\ ret' = "error"
  /\ UNCHANGED <<tree, ram, next, pads, call, script>>

\* udcinput_gamepad_switchpro_destroy, also after the gadget's destruction.
PadDestroy(id) ==
  /\ call = "none"
  /\ id \in pads
  /\ pads' = pads \ {id}
  /\ Begin("destroy_pad", DestroyScript(id))
  /\ UNCHANGED <<tree, ram, next>>

\* udcinput_gadget_destroy; nothing in configfs is its own before init.
GadgetDestroy ==
  /\ call = "none"
  /\ ram = "ready"
  /\ ram' = "none"
  /\ Begin("destroy_gadget", Removal)
  /\ UNCHANGED <<tree, next, pads>>

GadgetDestroyUninitialised ==
  /\ call = "none"
  /\ ram = "created"
  /\ ram' = "none"
  /\ ret' = "ok"
  /\ UNCHANGED <<tree, next, pads, call, script>>

-----------------------------------------------------------------------------
(* Their steps.                                                            *)

\* The next system call succeeds.
StepSucceeds ==
  /\ script # <<>>
  /\ LET step == Head(script) IN
       /\ Allowed(step.op, step.arg)
       /\ Effect(step.op, step.arg)
       /\ next' = IF step.op = "mkfunction" THEN next + 1 ELSE next
  /\ script' = Tail(script)
  /\ UNCHANGED <<ram, pads, call, ret>>

CanFail(step) == ~Allowed(step.op, step.arg) \/ step.op \in Faults

\* It fails and is only logged.
StepIgnored ==
  /\ script # <<>>
  /\ ~Head(script).must
  /\ CanFail(Head(script))
  /\ script' = Tail(script)
  /\ UNCHANGED <<tree, ram, next, pads, call, ret>>

\* It fails and ends the call, after undoing udcinput_function_create.
StepAborts ==
  /\ script # <<>>
  /\ Head(script).must
  /\ CanFail(Head(script))
  /\ IF call = "create" /\ Head(script).op # "mkfunction"
       THEN call' = "undo_create" /\ script' = UndoCreateScript /\ UNCHANGED ret
       ELSE call' = "none" /\ script' = <<>> /\ ret' = "error"
  /\ UNCHANGED <<tree, ram, next, pads>>

\* The call has made its last system call.
Return ==
  /\ call # "none"
  /\ script = <<>>
  /\ call' = "none"
  /\ ret' = IF call = "undo_create" THEN "error" ELSE "ok"
  /\ ram' = IF call \in {"init", "init_cleanup"} THEN "ready" ELSE ram
  /\ pads' = IF call = "create" THEN pads \cup {next - 1} ELSE pads
  /\ UNCHANGED <<tree, next, script>>

\* The program dies; configfs stays as it is.
Crash ==
  /\ ram # "none" \/ pads # {} \/ call # "none"
  /\ ram' = "none"
  /\ next' = 1
  /\ pads' = {}
  /\ call' = "none"
  /\ script' = <<>>
  /\ ret' = "none"
  /\ UNCHANGED tree

-----------------------------------------------------------------------------
Next ==
  \/ GadgetCreate
  \/ \E cleanup \in BOOLEAN : GadgetInit(cleanup)
  \/ GadgetConfigure
  \/ GadgetEnable
  \/ GadgetDisable
  \/ PadCreate
  \/ Refused
  \/ \E id \in Ids : PadDestroy(id)
  \/ GadgetDestroy
  \/ GadgetDestroyUninitialised
  \/ StepSucceeds
  \/ StepIgnored
  \/ StepAborts
  \/ Return
  \/ Crash

Spec == Init /\ [][Next]_vars
=============================================================================
