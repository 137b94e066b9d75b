----------------------------- MODULE FrameChain ------------------------------
(***************************************************************************)
(* The frame list of src/framebuffer.c as the code keeps it: head and tail *)
(* pointers and the next and prev pointers of every frame, changed by the  *)
(* macros LIST_FRAME_APPEND, INSERT, LINK and REMOVE under the list lock.  *)
(* The macros are sequences of assignments; each primed value below is     *)
(* what they leave behind.                                                 *)
(***************************************************************************)
EXTENDS Naturals, Sequences, FiniteSets

CONSTANTS
  Frames,   \* the frames of the ring
  NoFrame   \* the NULL pointer

\* The frames are those of a ring of fixed size, and NULL is none of them.
ASSUME FramesOK == IsFiniteSet(Frames) /\ NoFrame \notin Frames

Pointers == Frames \cup {NoFrame}

VARIABLES
  head, tail,  \* {a,v}frame_list_head and _tail
  next, prev,  \* the pointers in every frame
  used,        \* the frames that are registered
  stale        \* history: the frames a duplicate was linked before

vars == <<head, tail, next, prev, used, stale>>

Init ==
  /\ head = NoFrame
  /\ tail = NoFrame
  /\ next = [f \in Frames |-> NoFrame]
  /\ prev = [f \in Frames |-> NoFrame]
  /\ used = {}
  /\ stale = {}

\* register_frame blanks the pointers of frame f, then APPEND and INSERT.
Register(f) ==
  /\ f \notin used
  /\ used' = used \cup {f}
  /\ next' = [g \in Frames |-> CASE g = f -> NoFrame
                                 [] g = tail /\ g # f -> f
                                 [] OTHER -> next[g]]
  /\ prev' = [prev EXCEPT ![f] = tail]
  /\ tail' = f
  /\ head' = IF head = NoFrame THEN f ELSE head
  /\ UNCHANGED stale

\* Mutant: the tail pointer does not follow a duplicate at the end.
DupKeepsTail(f, d) ==
  /\ f \in used /\ d \notin used
  /\ used' = used \cup {d}
  /\ next' = [next EXCEPT ![d] = next[f], ![f] = d]
  /\ prev' = [prev EXCEPT ![d] = f]
  /\ stale' = stale \cup ({next[f]} \ {NoFrame})
  /\ UNCHANGED <<head, tail>>

\* LINK puts the duplicate d right behind f.
Dup(f, d) ==
  /\ f \in used /\ d \notin used
  /\ used' = used \cup {d}
  /\ next' = [next EXCEPT ![d] = next[f], ![f] = d]
  /\ prev' = [prev EXCEPT ![d] = f]
  /\ tail' = IF next[f] = NoFrame THEN d ELSE tail
  /\ stale' = stale \cup ({next[f]} \ {NoFrame})
  /\ UNCHANGED head

\* Mutant: the frame behind keeps its prev pointer.
RemoveKeepsPrev(f) ==
  /\ f \in used
  /\ used' = used \ {f}
  /\ next' = IF prev[f] = NoFrame THEN next ELSE [next EXCEPT ![prev[f]] = next[f]]
  /\ head' = IF head = f THEN next[f] ELSE head
  /\ tail' = IF tail = f THEN prev[f] ELSE tail
  /\ stale' = stale \ {next[f]}
  /\ UNCHANGED prev

\* REMOVE links the neighbours, as f knows them, with each other.  The pointers
\* of f itself stay until it is registered again.
Remove(f) ==
  /\ f \in used
  /\ used' = used \ {f}
  /\ next' = IF prev[f] = NoFrame THEN next ELSE [next EXCEPT ![prev[f]] = next[f]]
  /\ prev' = IF next[f] = NoFrame THEN prev ELSE [prev EXCEPT ![next[f]] = prev[f]]
  /\ head' = IF head = f THEN next[f] ELSE head
  /\ tail' = IF tail = f THEN prev[f] ELSE tail
  /\ stale' = stale \ {next[f]}

-----------------------------------------------------------------------------
(* What the pointers stand for. *)

\* The way from frame h over the next pointers nx, for as many steps as there are frames.
Walk(h, nx) ==
  LET walk[n \in 0 .. Cardinality(Frames)] ==
        IF n = 0 THEN h
        ELSE IF walk[n - 1] = NoFrame THEN NoFrame ELSE nx[walk[n - 1]]
  IN  walk

\* The frames on that way, in their order.
FramesFrom(h, nx) ==
  LET walk == Walk(h, nx)
  IN  [i \in 1 .. Cardinality({n \in DOMAIN walk : walk[n] # NoFrame}) |-> walk[i - 1]]

\* The frames that the next pointers reach from head.
Forward == FramesFrom(head, next)

\* As the buffer is used while no filter drops a frame behind a duplicate.
Next ==
  \/ \E f \in Frames : Register(f)
  \/ \E f, d \in Frames : Dup(f, d)
  \/ \E f \in Frames : f \notin stale /\ Remove(f)

Spec == Init /\ [][Next]_vars

\* As frame_threads.c may use it: any locked frame may be dropped.
NextAnyDrop ==
  \/ \E f \in Frames : Register(f)
  \/ \E f, d \in Frames : Dup(f, d)
  \/ \E f \in Frames : Remove(f)

SpecAnyDrop == Init /\ [][NextAnyDrop]_vars

-----------------------------------------------------------------------------
(* Correctness. *)

\* Type correctness; the ends of the list are frames in use.
TypeOK ==
  /\ head \in used \cup {NoFrame} /\ tail \in used \cup {NoFrame}
  /\ next \in [Frames -> Pointers] /\ prev \in [Frames -> Pointers]
  /\ used \in SUBSET Frames
  /\ stale \in SUBSET used

\* The frames in use, and no other, are on the way from head, each of them once.
UsedIsReachable ==
  /\ used = {Forward[i] : i \in DOMAIN Forward}
  /\ Len(Forward) = Cardinality(used)

\* The list can be walked backwards: from the tail, where the next frame is appended,
\* over every frame that no duplicate was linked before.
PrevIsRight ==
  /\ tail = IF Forward = <<>> THEN NoFrame ELSE Forward[Len(Forward)]
  /\ \A i \in DOMAIN Forward :
       Forward[i] \notin stale => prev[Forward[i]] = IF i = 1 THEN NoFrame ELSE Forward[i - 1]

\* The macros implement the operations on a sequence that FrameBuffer uses.
List == INSTANCE FrameList WITH chain <- Forward
ListRefined == List!ListInit /\ [][List!ListNext(Frames)]_<<Forward, stale>>

=============================================================================
