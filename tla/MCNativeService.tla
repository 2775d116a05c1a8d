-------------------------- MODULE MCNativeService --------------------------
(***************************************************************************)
(* With two requests for one slot, a timed-out operation competes with the *)
(* next caller, and the peer worker with both for the gate and the node.   *)
(***************************************************************************)
EXTENDS NativeService

=============================================================================
