------------------------------- MODULE MCSeqSync -------------------------------
(***************************************************************************)
(* The sequences of SeqSync for TLC, at 24000/1001 frames per second: the  *)
(* four telecined shapes, one that asks for nothing, one with too few and  *)
(* one with too many frames, a short one, and one with the clock set back. *)
(***************************************************************************)
EXTENDS SeqSync

MCInputs == {[pics |-> 15, ticks |-> 45045], [pics |-> 4, ticks |-> 6006],
             [pics |-> 11, ticks |-> 39039], [pics |-> 12, ticks |-> 45045],
             [pics |-> 5, ticks |-> 60060], [pics |-> 9, ticks |-> 15015],
             [pics |-> 2, ticks |-> 7508], [pics |-> 6, ticks |-> 0]}

=============================================================================
