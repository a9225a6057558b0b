----------------------------- MODULE MCEventLoop -----------------------------
(* Instance of EventLoop for TLC: two descriptors, one of them 0, which      *)
(* udcinput_loop_destroy tells apart from the others, and a stop counter     *)
(* that saturates at its second increment.                                   *)
EXTENDS EventLoopProps
=============================================================================
