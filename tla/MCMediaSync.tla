----------------------------- MODULE MCMediaSync -----------------------------
(* An instance of MediaSync.  A last frame of 9 is beyond every stream.      *)
EXTENDS MediaSync

OneRange  == << <<0, 9>> >>
TwoRanges == << <<0, 1>>, <<1, 9>> >>

Both(v, a) == [m \in Media |-> IF m = "video" THEN v ELSE a]
NoMarks == Both({}, {})

Job(l, p, f, d) == [length |-> l, plan |-> p, filters |-> f, delays |-> d]

\* Audio streams that end early, frames skipped or not, and one that fills its ring.
Ends ==
  {Job(l, p, NoMarks, FALSE) : l \in {Both(2, 0), Both(0, 2)}, p \in {OneRange, TwoRanges}}
  \cup {Job(Both(3, 1), OneRange, Both({}, s), FALSE) : s \in {{}, {"skip"}}}

\* Streams of the same length or a frame apart, and each mark on each medium.
Marks ==
  {Job(Both(2, 2), p, NoMarks, FALSE) : p \in {OneRange, TwoRanges}}
  \cup {Job(Both(2, 2), TwoRanges, NoMarks, TRUE),
        Job(Both(2, 3), TwoRanges, Both({"clone"}, {}), FALSE),
        Job(Both(2, 2), OneRange, Both({"skip"}, {}), FALSE),
        Job(Both(2, 1), TwoRanges, Both({}, {"skip", "clone"}), FALSE),
        Job(Both(1, 2), OneRange, Both({"clone"}, {"skip"}), FALSE),
        Job(Both(1, 2), OneRange, Both({"clone"}, {}), TRUE)}

MCJobs == Ends \cup Marks

=============================================================================
