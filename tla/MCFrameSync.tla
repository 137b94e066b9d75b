------------------------------ MODULE MCFrameSync ------------------------------
(***************************************************************************)
(* The sources of FrameSync for TLC: streams whose longest sequence fills  *)
(* the packet buffer and the pipe exactly.                                 *)
(***************************************************************************)
EXTENDS FrameSync

MCSources == {[last |-> 4, starts |-> {1, 2, 4}], [last |-> 2, starts |-> {1, 2}]}

=============================================================================
