------------------------------- MODULE MCAviFile -------------------------------
(***************************************************************************)
(* AviFile for TLC, with the sizes of the code scaled down so that a file  *)
(* of a few chunks has several RIFF lists.                                 *)
(***************************************************************************)
EXTENDS AviFile

MCTracks == 1..2

=============================================================================
