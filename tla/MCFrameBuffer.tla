---------------------------- MODULE MCFrameBuffer ----------------------------
(* Instances of FrameBuffer for TLC: the values come from the .cfg files. *)
EXTENDS FrameBuffer, TLC

WorkerSymmetry == Permutations(Workers)

=============================================================================
