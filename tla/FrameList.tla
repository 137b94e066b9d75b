------------------------------ MODULE FrameList ------------------------------
(***************************************************************************)
(* The frame list of src/framebuffer.c as a sequence, from head to tail,   *)
(* with the three operations its macros offer.  FrameChain shows that the  *)
(* pointers of the code implement them; FrameBuffer is built from them.    *)
(***************************************************************************)
EXTENDS Naturals, SequencesExt

VARIABLES
  chain,  \* the frames from head to tail
  stale   \* the frames whose prev pointer may pass over a duplicate

InChain(s) == \E i \in DOMAIN chain : chain[i] = s

\* The frame behind position i, if there is one.
Behind(i) == {chain[j] : j \in DOMAIN chain \cap {i + 1}}

\* LIST_FRAME_APPEND: a registered frame goes to the tail.
LinkLast(s) == chain' = Append(chain, s) /\ UNCHANGED stale

\* Mutant: the duplicate goes to the tail like a registered frame.
LinkDupLast(p, s) == InChain(p) /\ LinkLast(s)

\* LIST_FRAME_LINK: a duplicate s goes right behind its original p.  The prev
\* pointer of the frame behind it is left as it was.
LinkBehind(p, s) ==
  \E i \in DOMAIN chain :
    /\ chain[i] = p
    /\ chain' = InsertAt(chain, i + 1, s)
    /\ stale' = stale \cup Behind(i)

\* Mutants: the neighbours are not linked, the frame behind keeps its prev pointer.
UnlinkCut(s) ==
  /\ \E i \in DOMAIN chain : chain[i] = s /\ chain' = SubSeq(chain, 1, i - 1)
  /\ UNCHANGED stale

UnlinkForward(s) ==
  /\ \E i \in DOMAIN chain : chain[i] = s /\ chain' = RemoveAt(chain, i)
  /\ UNCHANGED stale

\* LIST_FRAME_REMOVE: the frame behind takes over the prev pointer.
Unlink(s) ==
  \E i \in DOMAIN chain :
    /\ chain[i] = s
    /\ chain' = RemoveAt(chain, i)
    /\ stale' = stale \ Behind(i)

-----------------------------------------------------------------------------
(* The list on its own, used on a set of frames. *)

ListInit == chain = <<>> /\ stale = {}

ListNext(frames) ==
  \/ \E s \in frames : ~InChain(s) /\ LinkLast(s)
  \/ \E p, s \in frames : ~InChain(s) /\ LinkBehind(p, s)
  \/ \E s \in frames : s \notin stale /\ Unlink(s)

=============================================================================
