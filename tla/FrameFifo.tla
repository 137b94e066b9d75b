------------------------------ MODULE FrameFifo ------------------------------
(***************************************************************************)
(* What the layers of transcode promise together for one medium: frames    *)
(* come in numbered from 0, some are dropped on the way, and the encoder   *)
(* gets the others in the order they came, each once.                      *)
(***************************************************************************)
EXTENDS Naturals, SequencesExt

VARIABLES
  queue,    \* the ids of the frames between decoder and encoder
  encoded,  \* the ids the encoder has got
  issued    \* the id of the next frame

fifoVars == <<queue, encoded, issued>>

FifoInit == queue = <<>> /\ encoded = <<>> /\ issued = 0

Put ==
  /\ queue' = Append(queue, issued)
  /\ issued' = issued + 1
  /\ UNCHANGED encoded

Drop ==
  /\ \E i \in DOMAIN queue : queue' = RemoveAt(queue, i)
  /\ UNCHANGED <<encoded, issued>>

Take ==
  /\ queue # <<>>
  /\ encoded' = Append(encoded, Head(queue))
  /\ queue' = Tail(queue)
  /\ UNCHANGED issued

FifoNext == Put \/ Drop \/ Take

FifoSpec == FifoInit /\ [][FifoNext]_fifoVars

=============================================================================
