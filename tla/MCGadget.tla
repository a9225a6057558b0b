------------------------------ MODULE MCGadget ------------------------------
(* Instances of Gadget for TLC.  Three functions are enough for one that       *)
(* exists, one that is being created and one that was destroyed.               *)
EXTENDS GadgetProps
=============================================================================
