----------------------------- MODULE GadgetProps -----------------------------
(***************************************************************************)
(* What the gadget and function calls promise of the configfs tree:          *)
(* invariants and action properties of module Gadget.                        *)
(***************************************************************************)
EXTENDS Gadget

\* Every variable has its type.
TypeOK ==
  /\ dirs \subseteq {"gadget", "strings", "config", "config_strings"}
  /\ functions \subseteq Ids
  /\ links \subseteq Ids
  /\ bound \in BOOLEAN
  /\ ram \in {"none", "created", "ready"}
  /\ next \in 1..(MaxId + 1)
  /\ pads \subseteq Ids
  /\ call \in Calls
  /\ ret \in {"none", "ok", "error"}

\* The program is told that udcinput_gadget_init succeeded only if the gadget is
\* a new one: nothing of an earlier process is left in it, whatever that
\* process was doing when it died and whatever failed in the removal.
FreshAfterInit ==
  [][ram # "ready" /\ ram' = "ready" =>
       dirs' = {"gadget"} /\ functions' = {} /\ links' = {} /\ ~bound']_vars

\* As long as no system call fails that the kernel would allow, init with
\* cleanup succeeds after a crash at any point of any call: delete_sysfs_gadget
\* removes every partial tree, in an order in which nothing is busy.
CleanupRecovers ==
  [][call = "init_cleanup" /\ call' = "none" =>
       ret' = "ok" \/ ram' = "none"]_vars

\* The same for udcinput_gadget_destroy, also with gamepads that exist.
DestroyLeavesNothing ==
  [][call = "destroy_gadget" /\ call' = "none" /\ ret' = "ok" =>
       dirs' = {} /\ functions' = {} /\ links' = {} /\ ~bound']_vars

\* The functions in the tree are those of the gamepads that exist: a create
\* that fails half-way (the gadget is bound, say) leaves no directory behind.
NoOrphanFunctions == ram = "ready" /\ call = "none" => functions = pads

\* A gamepad that was created is part of the configuration until it or its
\* gadget is destroyed, whatever else is created, destroyed or fails meanwhile.
PadsAreLinked == ram = "ready" => pads \subseteq functions \cap links

\* Creating a gamepad disturbs nobody: it neither unbinds the gadget from the
\* UDC nor unlinks another gamepad's function, also when it fails.
CreateDisturbsNobody ==
  [][call = "create" \/ call = "undo_create" =>
       bound' = bound /\ links \subseteq links']_vars
=============================================================================
