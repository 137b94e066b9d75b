----------------------------- MODULE SeqSyncProofs -----------------------------
(***************************************************************************)
(* Proofs about SeqSync: the totals are well formed, the output stays      *)
(* within a sequence and a frame of the clock, the inverse telecine drops  *)
(* what was counted on, the records spread a correction evenly, and the    *)
(* totals are the frames that have come out, whatever the frame rate, the  *)
(* sequences and the rounding.                                             *)
(***************************************************************************)
EXTENDS SeqSync, FiniteSetTheorems, TLAPS

\* What the corrections rest on: the totals of the sequence before, which are 0 or those
\* of a sequence whose lag is bounded.
TotalsOK ==
  /\ id \in 0..MaxSequences
  /\ reset \in BOOLEAN /\ hardFps \in BOOLEAN /\ active \in BOOLEAN
  /\ counted \in BOOLEAN /\ steady \in BOOLEAN
  /\ total \in [dec : Int, pts : Nat, request : Nat]
  /\ sync \in [enc : Nat, adj : Int, pulldown : 0..4, active : BOOLEAN, skipped : BOOLEAN]
  /\ sync.skipped => total = Nothing

\* The lag that a correction leaves, before smoothing: none, less than a sequence, or
\* what half a sequence cannot make up for.
LEMMA LimitedLag ==
  ASSUME NEW delay \in Int, NEW pics \in Nat \ {0}
  PROVE  /\ Limited(delay, pics) \in Int
         /\ delay >= pics => delay - Limited(delay, pics) \in 0..pics - 1
         /\ (delay >= 0 /\ delay < pics) => Limited(delay, pics) = delay
         /\ delay < 0 => delay - Limited(delay, pics) <= 0
         /\ (delay < 0 /\ -delay < pics \div 2) => Limited(delay, pics) = delay
         /\ (delay < 0 /\ -delay >= pics \div 2) => Limited(delay, pics) = -(pics \div 2)
<1>1. delay >= pics => delay % pics \in 0..pics - 1
  OBVIOUS
<1>2. pics \div 2 \in Nat /\ 2 * (pics \div 2) <= pics /\ pics <= 2 * (pics \div 2) + 1
  OBVIOUS
<1>3. delay >= pics => delay % pics \in Int
  BY <1>1
<1> QED
  BY <1>1, <1>2, <1>3 DEF Limited

\* Smoothing changes a correction by at most two frames, and only small ones.
LEMMA SmoothLag ==
  ASSUME NEW adj \in Int
  PROVE  /\ Smooth(adj) \in Int
         /\ adj >= 0 => Smooth(adj) \in 0..adj /\ adj - Smooth(adj) <= 2
         /\ adj = -1 => Smooth(adj) = 0
         /\ adj < -1 => Smooth(adj) = adj
BY DEF Smooth

\* The clock never asks for a negative number of frames.
LEMMA RequestedNat ==
  ASSUME NEW t \in Nat \ {0}, NEW err \in {0, 1}
  PROVE  Requested(t, err) \in Nat
<1>1. FpsNum \in Nat \ {0} /\ FpsDen \in Nat \ {0}
  BY SeqConstants
<1>2. t * FpsNum \in Nat \ {0}
  BY <1>1
<1>3. t * FpsNum - err \in Nat
  BY <1>2
<1> DEFINE x == t * FpsNum - err
<1>4. x \in Nat
  BY <1>3
<1> HIDE DEF x
<1>5. x \div FpsDen \in Nat
  BY <1>1, <1>4
<1> QED
  BY <1>5 DEF Requested, x

\* What half a sequence is.
LEMMA HalfOf ==
  ASSUME NEW pics \in Nat \ {0}
  PROVE  /\ pics \div 2 \in Nat
         /\ 2 * (pics \div 2) <= pics /\ pics <= 2 * (pics \div 2) + 1
OBVIOUS

\* A correction that is not one of the telecined shapes is smoothed; in both cases the lag
\* that remains is bounded.
LEMMA CorrectionLag ==
  ASSUME NEW before \in Int, NEW asked \in Int, NEW seq \in [pics : Nat \ {0}, ticks : Int],
         NEW adj \in Int,
         adj = Limited(before + asked - seq.pics, seq.pics)
           \/ adj = Smooth(Limited(before + asked - seq.pics, seq.pics))
  PROVE  LET lag == before + asked - seq.pics - adj
         IN  /\ lag <= seq.pics + 1
             /\ (/\ before >= -1 /\ seq.pics - seq.pics \div 2 <= asked
                 /\ seq.pics >= 4 \/ adj = Limited(before + asked - seq.pics, seq.pics))
                => lag >= -1
<1> DEFINE delay == before + asked - seq.pics
           limited == Limited(delay, seq.pics)
           half == seq.pics \div 2
<1>1. seq.pics \in Nat \ {0} /\ delay \in Int
  OBVIOUS
<1>2. half \in Nat /\ 2 * half <= seq.pics /\ seq.pics <= 2 * half + 1
  BY <1>1, HalfOf
<1>3. /\ limited \in Int
      /\ delay >= seq.pics => delay - limited \in 0..seq.pics - 1
      /\ (delay >= 0 /\ delay < seq.pics) => limited = delay
      /\ delay < 0 => delay - limited <= 0
      /\ (delay < 0 /\ -delay < half) => limited = delay
      /\ (delay < 0 /\ -delay >= half) => limited = -half
  BY <1>1, LimitedLag
<1>4. /\ limited >= 0 => Smooth(limited) \in 0..limited /\ limited - Smooth(limited) <= 2
      /\ limited = -1 => Smooth(limited) = 0
      /\ limited < -1 => Smooth(limited) = limited
  BY <1>3, SmoothLag
<1>5. adj = limited \/ adj = Smooth(limited)
  OBVIOUS
<1> SUFFICES /\ delay - adj <= seq.pics + 1
             /\ (/\ before >= -1 /\ seq.pics - half <= asked
                 /\ seq.pics >= 4 \/ adj = limited) => delay - adj >= -1
  BY <1>1
<1>6. delay = before + asked - seq.pics
  OBVIOUS
<1> HIDE DEF delay, limited, half
<1>7. CASE delay >= seq.pics
  BY <1>1, <1>3, <1>4, <1>5, <1>7
<1>8. CASE delay >= 0 /\ delay < seq.pics
  BY <1>1, <1>3, <1>4, <1>5, <1>8
<1>9. CASE delay < 0 /\ -delay < half
  BY <1>1, <1>2, <1>3, <1>4, <1>5, <1>9
<1>10. CASE delay < 0 /\ -delay >= half
  BY <1>1, <1>2, <1>3, <1>4, <1>5, <1>6, <1>10
<1> QED
  BY <1>1, <1>2, <1>7, <1>8, <1>9, <1>10

\* A skipped sequence leaves no totals.
LEMMA SkipKeeps ==
  ASSUME TotalsOK, NEW seq \in Inputs, Skip(seq)
  PROVE  /\ total' = Nothing
         /\ sync' \in [enc : Nat, adj : Int, pulldown : 0..4, active : BOOLEAN, skipped : BOOLEAN]
         /\ sync'.skipped /\ counted' \in BOOLEAN /\ steady' \in BOOLEAN
BY SeqConstants DEF Skip, TotalsOK

\* A corrected sequence leaves totals whose lag is bounded.
LEMMA CorrectKeeps ==
  ASSUME TotalsOK, LagBounded, NEW seq \in Inputs, seq.ticks > 0, NEW err \in Rounding,
         Correct(seq, err)
  PROVE  /\ total' \in [dec : Int, pts : Nat, request : Nat]
         /\ sync' \in [enc : Nat, adj : Int, pulldown : 0..4, active : BOOLEAN, skipped : BOOLEAN]
         /\ ~sync'.skipped /\ counted' \in BOOLEAN /\ steady' \in BOOLEAN
         /\ LagBounded'
<1> DEFINE pts     == Before.pts + seq.ticks
           request == Requested(pts, err)
           limited == Limited(request - Before.dec - seq.pics, seq.pics)
           pulldown == IF hardFps THEN 0 ELSE Pulldown(limited, seq)
           adj     == IF hardFps \/ pulldown # 0 THEN limited ELSE Smooth(limited)
           before  == Before.request - Before.dec
           asked   == request - Before.request
<1>1. seq \in [pics : Nat \ {0}, ticks : Int] /\ err \in {0, 1}
  BY SeqConstants
<1>2. Before \in [dec : Int, pts : Nat, request : Nat]
  BY DEF TotalsOK, Before, Nothing
<1>3. pts \in Nat \ {0}
  BY <1>1, <1>2
<1>4. request \in Nat
  BY <1>1, <1>3, RequestedNat
<1>5. limited \in Int
  BY <1>1, <1>2, <1>4, LimitedLag
<1>6. Smooth(limited) \in Int
  BY <1>5, SmoothLag
<1>7. Pulldown(limited, seq) \in 0..4
  BY DEF Pulldown
<1>8. pulldown \in 0..4 /\ adj \in Int
  BY <1>5, <1>6, <1>7 DEF TotalsOK
<1>9. before \in Int /\ asked \in Int
  BY <1>2, <1>4
<1>10. before + asked - seq.pics = request - Before.dec - seq.pics
  BY <1>1, <1>2, <1>4
<1>11. ~Restarts /\ steady => before >= -1
  BY <1>2 DEF LagBounded, Before, Restarts, TotalsOK
<1>12. Restarts => before = 0
  BY DEF Before, Nothing
<1>13. /\ total' = [dec |-> Before.dec + seq.pics + adj, pts |-> pts, request |-> request]
       /\ sync' = [enc |-> seq.pics, adj |-> adj, pulldown |-> IF active THEN pulldown ELSE 0,
                   active |-> active, skipped |-> FALSE]
       /\ counted' = ((Restarts \/ counted) /\ active)
       /\ steady' = /\ Restarts \/ steady
                    /\ seq.pics - seq.pics \div 2 <= asked
                    /\ hardFps \/ seq.pics >= 4
  BY DEF Correct
<1>14. adj = limited \/ adj = Smooth(limited)
  OBVIOUS
<1>15. hardFps => adj = limited
  OBVIOUS
<1> HIDE DEF pts, request, limited, pulldown, adj
<1>16. /\ before + asked - seq.pics - adj <= seq.pics + 1
       /\ (/\ before >= -1 /\ seq.pics - seq.pics \div 2 <= asked
           /\ seq.pics >= 4 \/ adj = limited) => before + asked - seq.pics - adj >= -1
  <2>1. limited = Limited(before + asked - seq.pics, seq.pics)
    BY <1>10 DEF limited
  <2> QED
    BY <1>1, <1>8, <1>9, <1>14, <2>1, CorrectionLag
<1>17. total' \in [dec : Int, pts : Nat, request : Nat]
  BY <1>1, <1>2, <1>3, <1>4, <1>8, <1>13
<1>18. /\ sync' \in [enc : Nat, adj : Int, pulldown : 0..4, active : BOOLEAN, skipped : BOOLEAN]
       /\ ~sync'.skipped /\ counted' \in BOOLEAN /\ steady' \in BOOLEAN
  BY <1>1, <1>8, <1>13 DEF TotalsOK
<1>19. total'.request - total'.dec = before + asked - seq.pics - adj
  BY <1>1, <1>2, <1>4, <1>8, <1>13
<1>20. steady' => before >= -1 /\ seq.pics - seq.pics \div 2 <= asked /\ (hardFps \/ seq.pics >= 4)
  <2>1. steady' => /\ Restarts \/ steady
                   /\ seq.pics - seq.pics \div 2 <= asked
                   /\ hardFps \/ seq.pics >= 4
    BY <1>13, Zenon
  <2>2. Restarts \/ steady => before >= -1
    BY <1>11, <1>12
  <2> QED
    BY <2>1, <2>2, Zenon
<1>21. sync'.enc = seq.pics
  BY <1>13
<1> HIDE DEF before, asked
<1>22. LagBounded'
  BY <1>15, <1>16, <1>19, <1>20, <1>21 DEF LagBounded
<1> QED
  BY <1>17, <1>18, <1>22

\* The totals and the lag at the start.
LEMMA LagInit == Init => TotalsOK /\ LagBounded
BY SeqConstants DEF Init, TotalsOK, LagBounded, Nothing

\* Only NextSequence touches the totals.
LEMMA LagNext == TotalsOK /\ LagBounded /\ [Next]_vars => TotalsOK' /\ LagBounded'
<1> SUFFICES ASSUME TotalsOK, LagBounded, [Next]_vars PROVE TotalsOK' /\ LagBounded'
  OBVIOUS
<1>1. CASE NextSequence
  <2>1. PICK seq \in Inputs, err \in Rounding :
          IF seq.ticks <= 0 \/ id = 0 THEN Skip(seq) ELSE Correct(seq, err)
    BY <1>1 DEF NextSequence
  <2>2. /\ id' \in 0..MaxSequences /\ reset' \in BOOLEAN
        /\ hardFps' \in BOOLEAN /\ active' \in BOOLEAN
    BY <1>1, SeqConstants DEF NextSequence, TotalsOK
  <2>3. CASE seq.ticks <= 0 \/ id = 0
    BY <2>1, <2>2, <2>3, SkipKeeps DEF TotalsOK, LagBounded, Nothing
  <2>4. CASE ~(seq.ticks <= 0 \/ id = 0)
    <3>1. seq.ticks \in Int /\ seq.ticks > 0
      BY <2>4, SeqConstants
    <3> QED
      BY <2>1, <2>2, <2>4, <3>1, CorrectKeeps DEF TotalsOK
  <2> QED
    BY <2>3, <2>4
<1>2. CASE FirstAudio
  BY <1>2 DEF FirstAudio, TotalsOK, LagBounded, Nothing
<1>3. CASE PlainFrame \/ EndOfStream \/ UNCHANGED vars
  BY <1>3 DEF PlainFrame, EndOfStream, demuxVars, vars, TotalsOK, LagBounded, Nothing
<1>4. ASSUME NEW interlaced \in BOOLEAN, TelecinedFrame(interlaced) PROVE TotalsOK' /\ LagBounded'
  BY <1>4 DEF TelecinedFrame, demuxVars, TotalsOK, LagBounded, Nothing
<1> QED
  BY <1>1, <1>2, <1>3, <1>4 DEF Next

\* Whatever the sequences, the frame rate and the rounding, seq_update keeps the output
\* within a sequence and a frame behind the clock, and, without sequences that are too long,
\* within one frame ahead of it.
THEOREM OutputFollowsClock == Spec => []LagBounded
<1>1. TotalsOK /\ LagBounded /\ [][Next]_vars => [](TotalsOK /\ LagBounded)
  BY LagNext, PTL
<1> QED
  BY LagInit, <1>1, PTL DEF Spec

-----------------------------------------------------------------------------
(* The inverse telecine drops what the demultiplexer has counted on. *)

\* A telecined sequence that transcode has read lost the frames of its correction,
\* although ivtc chose them from the pictures.
TelecineExact == records = <<>> /\ sync.pulldown # 0 => out = sync.enc + sync.adj

\* Within a telecined sequence the counters of ivtc are in step with the records, and
\* the drops are between those of the checkpoints passed and those of the pattern.
TelecineInv ==
  /\ sync.pulldown \in 0..4 /\ records \in Seq(Nat)
  /\ frameCtr \in Nat /\ dropCtr \in Nat /\ out \in Int
  /\ sync.pulldown = 0 => frameCtr = 0 /\ dropCtr = 0
  /\ sync.pulldown # 0 =>
       LET p == sync.pulldown
       IN  /\ sync.enc = LastFrame[p] /\ sync.adj = -MustDrop[p]
           /\ records = <<>> => frameCtr = 0 /\ dropCtr = 0 /\ out = LastFrame[p] - MustDrop[p]
           /\ records # <<>> =>
                /\ Len(records) = LastFrame[p] - frameCtr
                /\ out = frameCtr - dropCtr
                /\ dropCtr <= MustDrop[p]
                /\ \A c \in Checkpoints[p] : c[1] <= frameCtr => dropCtr >= c[2]

\* seq_write writes one record per frame.
LEMMA CopiesType ==
  ASSUME NEW pics \in Nat \ {0}, NEW adj \in Int, NEW i \in 1..pics
  PROVE  CopiesOf(pics, adj)[i] \in Nat
<1> DEFINE n == IF adj < 0 THEN -adj ELSE adj
           inc == IF n = 0 \/ n >= pics THEN 1 ELSE pics \div n
           hit(j) == {k \in 1..n : (k * inc) % pics = j - 1}
<1>1. n \in Nat
  OBVIOUS
<1>2. IsFiniteSet(hit(i))
  <2>1. IsFiniteSet(1..n)
    BY <1>1, FS_Interval
  <2> QED
    BY <2>1, FS_Subset
<1>3. Cardinality(hit(i)) \in Nat
  BY <1>2, FS_CardinalityType
<1>4. CopiesOf(pics, adj)[i] = IF adj >= 0 THEN 1 + Cardinality(hit(i))
                               ELSE IF Cardinality(hit(i)) = 0 THEN 1 ELSE 0
  BY DEF CopiesOf
<1> QED
  BY <1>3, <1>4

\* The records of a sequence that is telecined are those of its shape.
LEMMA CorrectShape ==
  ASSUME NEW seq \in Inputs, NEW err \in Rounding, Correct(seq, err), sync'.pulldown # 0
  PROVE  /\ sync'.pulldown \in 1..4
         /\ sync'.enc = LastFrame[sync'.pulldown] /\ sync'.adj = -MustDrop[sync'.pulldown]
         /\ seq.pics = LastFrame[sync'.pulldown]
<1> DEFINE pts     == Before.pts + seq.ticks
           request == Requested(pts, err)
           limited == Limited(request - Before.dec - seq.pics, seq.pics)
           pulldown == IF hardFps THEN 0 ELSE Pulldown(limited, seq)
           adj     == IF hardFps \/ pulldown # 0 THEN limited ELSE Smooth(limited)
<1>1. sync' = [enc |-> seq.pics, adj |-> adj, pulldown |-> IF active THEN pulldown ELSE 0,
               active |-> active, skipped |-> FALSE]
  BY DEF Correct
<1>2. sync'.pulldown = Pulldown(limited, seq) /\ sync'.adj = limited /\ sync'.enc = seq.pics
  BY <1>1
<1> HIDE DEF limited
<1>3. CASE limited = -3 /\ seq = [pics |-> 15, ticks |-> 45045]
  BY <1>2, <1>3 DEF Pulldown, LastFrame, MustDrop
<1>4. CASE limited = -4 /\ seq = [pics |-> 15, ticks |-> 45045]
  BY <1>2, <1>4 DEF Pulldown, LastFrame, MustDrop
<1>5. CASE limited = -2 /\ seq = [pics |-> 4, ticks |-> 6006]
  BY <1>2, <1>5 DEF Pulldown, LastFrame, MustDrop
<1>6. CASE limited = -1 /\ seq = [pics |-> 11, ticks |-> 39039]
  BY <1>2, <1>6 DEF Pulldown, LastFrame, MustDrop
<1> QED
  BY <1>2, <1>3, <1>4, <1>5, <1>6 DEF Pulldown

\* At the start no sequence has been read.
LEMMA TelecineInit == Init => TelecineInv
BY DEF Init, TelecineInv

\* A new sequence meets counters that are 0.
LEMMA TelecineNextSequence ==
  ASSUME TotalsOK, LagBounded, TelecineInv, NextSequence PROVE TelecineInv'
<1>1. PICK seq \in Inputs, err \in Rounding :
        /\ IF seq.ticks <= 0 \/ id = 0 THEN Skip(seq) ELSE Correct(seq, err)
        /\ written' = [i \in 1..seq.pics |-> IF active THEN CopiesOf(seq.pics, sync'.adj)[i] ELSE 0]
  BY DEF NextSequence
<1>2. seq.pics \in Nat \ {0} /\ seq.ticks \in Int
  BY SeqConstants
<1>3. sync' \in [enc : Nat, adj : Int, pulldown : 0..4, active : BOOLEAN, skipped : BOOLEAN]
  <2>1. CASE seq.ticks <= 0 \/ id = 0
    BY <1>1, <2>1, SkipKeeps
  <2>2. CASE ~(seq.ticks <= 0 \/ id = 0)
    <3>1. seq.ticks > 0
      BY <1>2, <2>2
    <3> QED
      BY <1>1, <2>2, <3>1, CorrectKeeps
  <2> QED
    BY <2>1, <2>2
<1>4. records' \in Seq(Nat) /\ Len(records') = seq.pics /\ records' # <<>>
  <2>1. \A i \in 1..seq.pics : (IF active THEN CopiesOf(seq.pics, sync'.adj)[i] ELSE 0) \in Nat
    BY <1>2, <1>3, CopiesType
  <2>2. records' = [i \in 1..seq.pics |-> IF active THEN CopiesOf(seq.pics, sync'.adj)[i] ELSE 0]
    BY <1>1 DEF NextSequence
  <2> QED
    BY <1>2, <2>1, <2>2
<1>5. frameCtr = 0 /\ dropCtr = 0 /\ frameCtr' = 0 /\ dropCtr' = 0 /\ out' = 0
  BY DEF NextSequence, TelecineInv, ivtcVars
<1>6. CASE sync'.pulldown = 0
  BY <1>3, <1>4, <1>5, <1>6 DEF TelecineInv
<1>7. CASE sync'.pulldown # 0
  <2>1. Correct(seq, err)
    BY <1>1, <1>7 DEF Skip
  <2>2. /\ sync'.pulldown \in 1..4
        /\ sync'.enc = LastFrame[sync'.pulldown] /\ sync'.adj = -MustDrop[sync'.pulldown]
        /\ seq.pics = LastFrame[sync'.pulldown]
    BY <1>7, <2>1, CorrectShape
  <2>3. 0 <= MustDrop[sync'.pulldown] /\ \A c \in Checkpoints[sync'.pulldown] : c[1] > 0
    BY <2>2 DEF MustDrop, Checkpoints
  <2>4. \A c \in Checkpoints[sync'.pulldown] : ~(c[1] <= frameCtr')
    BY <1>5, <2>2, <2>3 DEF Checkpoints
  <2> QED
    BY <1>2, <1>4, <1>5, <2>2, <2>3, <2>4 DEF TelecineInv
<1> QED
  BY <1>6, <1>7

\* One frame of a pattern: h and f say whether it is held, and whether it is dropped by
\* force at a checkpoint.
LEMMA PatternStep ==
  ASSUME NEW p \in 1..4, NEW frame \in Nat, NEW drop \in Nat, NEW h \in {0, 1}, NEW f \in {0, 1},
         frame < LastFrame[p], drop <= MustDrop[p],
         \A c \in Checkpoints[p] : c[1] <= frame => drop >= c[2],
         f = 1 <=> \E c \in Checkpoints[p] : frame + 1 = c[1] /\ drop + h < c[2]
  PROVE  /\ drop + h + f - 1 <= MustDrop[p]
         /\ h = 1 => f = 0 \/ drop + h + f - 1 < 0
         /\ \A c \in Checkpoints[p] :
              c[1] <= frame + 1 => drop + h + f >= c[2] /\ MustDrop[p] >= c[2]
         /\ frame + 1 = LastFrame[p] => drop + h + f >= MustDrop[p]
<1>1. CASE p = 1
  <2>1. LastFrame[p] = 15 /\ MustDrop[p] = 3 /\ Checkpoints[p] = {<<5, 1>>, <<10, 2>>, <<15, 3>>}
    BY <1>1 DEF LastFrame, MustDrop, Checkpoints
  <2>2. /\ 5 <= frame => drop >= 1
        /\ 10 <= frame => drop >= 2
        /\ 15 <= frame => drop >= 3
    BY <2>1
  <2>3. f = 1 <=> \/ frame + 1 = 5 /\ drop + h < 1
                  \/ frame + 1 = 10 /\ drop + h < 2
                  \/ frame + 1 = 15 /\ drop + h < 3
    BY <2>1
  <2>4. /\ drop + h + f - 1 <= 3
        /\ h = 1 => f = 0 \/ drop + h + f - 1 < 0
        /\ 5 <= frame + 1 => drop + h + f >= 1
        /\ 10 <= frame + 1 => drop + h + f >= 2
        /\ 15 <= frame + 1 => drop + h + f >= 3
        /\ frame + 1 = 15 => drop + h + f >= 3
    BY <2>1, <2>2, <2>3
  <2>5. \A c \in Checkpoints[p] :
          c[1] <= frame + 1 => drop + h + f >= c[2] /\ MustDrop[p] >= c[2]
    BY <2>1, <2>4
  <2> QED
    BY <2>1, <2>4, <2>5
<1>2. CASE p = 2
  <2>1. LastFrame[p] = 15 /\ MustDrop[p] = 4 /\ Checkpoints[p] = {<<4, 1>>, <<8, 2>>, <<12, 3>>, <<15, 4>>}
    BY <1>2 DEF LastFrame, MustDrop, Checkpoints
  <2>2. /\ 4 <= frame => drop >= 1
        /\ 8 <= frame => drop >= 2
        /\ 12 <= frame => drop >= 3
        /\ 15 <= frame => drop >= 4
    BY <2>1
  <2>3. f = 1 <=> \/ frame + 1 = 4 /\ drop + h < 1
                  \/ frame + 1 = 8 /\ drop + h < 2
                  \/ frame + 1 = 12 /\ drop + h < 3
                  \/ frame + 1 = 15 /\ drop + h < 4
    BY <2>1
  <2>4. /\ drop + h + f - 1 <= 4
        /\ h = 1 => f = 0 \/ drop + h + f - 1 < 0
        /\ 4 <= frame + 1 => drop + h + f >= 1
        /\ 8 <= frame + 1 => drop + h + f >= 2
        /\ 12 <= frame + 1 => drop + h + f >= 3
        /\ 15 <= frame + 1 => drop + h + f >= 4
        /\ frame + 1 = 15 => drop + h + f >= 4
    BY <2>1, <2>2, <2>3
  <2>5. \A c \in Checkpoints[p] :
          c[1] <= frame + 1 => drop + h + f >= c[2] /\ MustDrop[p] >= c[2]
    BY <2>1, <2>4
  <2> QED
    BY <2>1, <2>4, <2>5
<1>3. CASE p = 3
  <2>1. LastFrame[p] = 4 /\ MustDrop[p] = 2 /\ Checkpoints[p] = {<<2, 1>>, <<4, 2>>}
    BY <1>3 DEF LastFrame, MustDrop, Checkpoints
  <2>2. /\ 2 <= frame => drop >= 1
        /\ 4 <= frame => drop >= 2
    BY <2>1
  <2>3. f = 1 <=> \/ frame + 1 = 2 /\ drop + h < 1
                  \/ frame + 1 = 4 /\ drop + h < 2
    BY <2>1
  <2>4. /\ drop + h + f - 1 <= 2
        /\ h = 1 => f = 0 \/ drop + h + f - 1 < 0
        /\ 2 <= frame + 1 => drop + h + f >= 1
        /\ 4 <= frame + 1 => drop + h + f >= 2
        /\ frame + 1 = 4 => drop + h + f >= 2
    BY <2>1, <2>2, <2>3
  <2>5. \A c \in Checkpoints[p] :
          c[1] <= frame + 1 => drop + h + f >= c[2] /\ MustDrop[p] >= c[2]
    BY <2>1, <2>4
  <2> QED
    BY <2>1, <2>4, <2>5
<1>4. CASE p = 4
  <2>1. LastFrame[p] = 11 /\ MustDrop[p] = 1 /\ Checkpoints[p] = {<<11, 1>>}
    BY <1>4 DEF LastFrame, MustDrop, Checkpoints
  <2>2. /\ 11 <= frame => drop >= 1
    BY <2>1
  <2>3. f = 1 <=> \/ frame + 1 = 11 /\ drop + h < 1
    BY <2>1
  <2>4. /\ drop + h + f - 1 <= 1
        /\ h = 1 => f = 0 \/ drop + h + f - 1 < 0
        /\ 11 <= frame + 1 => drop + h + f >= 1
        /\ frame + 1 = 11 => drop + h + f >= 1
    BY <2>1, <2>2, <2>3
  <2>5. \A c \in Checkpoints[p] :
          c[1] <= frame + 1 => drop + h + f >= c[2] /\ MustDrop[p] >= c[2]
    BY <2>1, <2>4
  <2> QED
    BY <2>1, <2>4, <2>5
<1> QED
  BY <1>1, <1>2, <1>3, <1>4

\* A frame of a telecined sequence.
LEMMA TelecineFrame ==
  ASSUME TelecineInv, NEW interlaced \in BOOLEAN, TelecinedFrame(interlaced) PROVE TelecineInv'
<1> DEFINE p     == sync.pulldown
           n     == frameCtr + 1
           hold  == interlaced /\ ~held
           h     == IF hold THEN 1 ELSE 0
           drops == dropCtr + h
           force == \E c \in Checkpoints[p] : n = c[1] /\ drops < c[2]
           f     == IF force THEN 1 ELSE 0
           all   == drops + f
           over  == all > MustDrop[p]
           kept  == IF over THEN all - 1 ELSE all
<1>1. p \in 1..4 /\ records # <<>> /\ records \in Seq(Nat)
  BY DEF TelecineInv, TelecinedFrame
<1>2. /\ sync' = sync
      /\ records' = Tail(records)
      /\ frameCtr' = IF n = LastFrame[p] THEN 0 ELSE n
      /\ dropCtr' = IF n = LastFrame[p] THEN 0 ELSE kept
      /\ out' = out + (IF over \/ ~(hold \/ force) THEN 1 ELSE 0)
  BY DEF TelecinedFrame, Use, demuxVars
<1>3. records' \in Seq(Nat) /\ Len(records') = Len(records) - 1 /\ Len(records) \in Nat \ {0}
  BY <1>1, <1>2
<1>4. /\ frameCtr \in Nat /\ dropCtr \in Nat /\ out = frameCtr - dropCtr
      /\ Len(records) = LastFrame[p] - frameCtr /\ dropCtr <= MustDrop[p]
      /\ \A c \in Checkpoints[p] : c[1] <= frameCtr => dropCtr >= c[2]
      /\ sync.enc = LastFrame[p] /\ sync.adj = -MustDrop[p]
  BY <1>1 DEF TelecineInv
<1>5. LastFrame[p] \in Nat \ {0} /\ MustDrop[p] \in Nat
  BY <1>1 DEF LastFrame, MustDrop
<1>6. h \in {0, 1} /\ f \in {0, 1} /\ (h = 1 <=> hold) /\ (f = 1 <=> force)
  OBVIOUS
<1>7. frameCtr < LastFrame[p]
  BY <1>3, <1>4, <1>5
<1>8. /\ dropCtr + h + f - 1 <= MustDrop[p]
      /\ h = 1 => f = 0 \/ dropCtr + h + f - 1 < 0
      /\ \A c \in Checkpoints[p] :
           c[1] <= frameCtr + 1 => dropCtr + h + f >= c[2] /\ MustDrop[p] >= c[2]
      /\ frameCtr + 1 = LastFrame[p] => dropCtr + h + f >= MustDrop[p]
  <2>1. f = 1 <=> \E c \in Checkpoints[p] : frameCtr + 1 = c[1] /\ dropCtr + h < c[2]
    BY <1>6
  <2> HIDE DEF h, f, p
  <2> QED
    BY <1>1, <1>4, <1>6, <1>7, <2>1, PatternStep
<1>9. out' = out + (IF over \/ (h = 0 /\ f = 0) THEN 1 ELSE 0)
  BY <1>2, <1>6
<1>10. all = dropCtr + h + f
  OBVIOUS
<1> HIDE DEF h, f, hold, force
<1>11. all \in Nat /\ kept \in Nat /\ kept <= MustDrop[p] /\ out' = n - kept
  <2>1. CASE over
    <3>1. all >= 1 /\ kept = all - 1 /\ out' = out + 1 /\ kept <= MustDrop[p]
      BY <1>4, <1>5, <1>6, <1>8, <1>9, <1>10, <2>1
    <3>2. h + f = 1
      BY <1>4, <1>5, <1>6, <1>8, <1>10, <2>1
    <3> HIDE DEF all, over, kept
    <3> QED
      BY <1>4, <1>6, <1>10, <3>1, <3>2
  <2>2. CASE ~over
    <3>1. kept = all /\ all <= MustDrop[p] /\ all \in Nat
      BY <1>4, <1>5, <1>6, <1>10, <2>2
    <3>2. out' = out + (IF h = 0 /\ f = 0 THEN 1 ELSE 0)
      BY <1>9, <2>2
    <3>3. h + f = IF h = 0 /\ f = 0 THEN 0 ELSE 1
      BY <1>4, <1>6, <1>8
    <3> HIDE DEF all, over, kept
    <3> QED
      BY <1>4, <1>6, <1>10, <3>1, <3>2, <3>3
  <2> QED
    BY <2>1, <2>2
<1>12. \A c \in Checkpoints[p] : c[2] \in Nat
  <2>1. CASE p = 1
    BY <2>1 DEF Checkpoints
  <2>2. CASE p = 2
    BY <2>2 DEF Checkpoints
  <2>3. CASE p = 3
    BY <2>3 DEF Checkpoints
  <2>4. CASE p = 4
    BY <2>4 DEF Checkpoints
  <2> QED
    BY <1>1, <2>1, <2>2, <2>3, <2>4
<1>13. \A c \in Checkpoints[p] : c[1] <= n => kept >= c[2]
  BY <1>4, <1>5, <1>6, <1>8, <1>12
<1>14. n = LastFrame[p] => kept = MustDrop[p]
  BY <1>4, <1>5, <1>6, <1>8
<1>15. n \in Nat /\ Len(records') = LastFrame[p] - n
  BY <1>3, <1>4, <1>5
<1> HIDE DEF n, kept, all, over
<1>16. CASE n = LastFrame[p]
  <2>1. records' = <<>>
    BY <1>3, <1>5, <1>15, <1>16
  <2>2. frameCtr' = 0 /\ dropCtr' = 0 /\ out' = LastFrame[p] - MustDrop[p]
    BY <1>2, <1>11, <1>14, <1>16
  <2>3. out' \in Int
    BY <1>5, <2>2
  <2>4. p' = p /\ sync'.enc = LastFrame[p] /\ sync'.adj = -MustDrop[p]
    BY <1>2, <1>4
  <2> HIDE DEF p
  <2>5. p' \in 0..4 /\ p' # 0
    BY <1>1, <2>4
  <2> QED
    BY <1>3, <2>1, <2>2, <2>3, <2>4, <2>5 DEF TelecineInv, p
<1>17. CASE n # LastFrame[p]
  <2>1. records' # <<>>
    BY <1>3, <1>5, <1>15, <1>17
  <2>2. frameCtr' = n /\ dropCtr' = kept
    BY <1>2, <1>17
  <2>3. out' \in Int
    BY <1>11, <1>15
  <2>4. p' = p /\ sync'.enc = LastFrame[p] /\ sync'.adj = -MustDrop[p]
    BY <1>2, <1>4
  <2>5. \A c \in Checkpoints[p] : c[1] <= frameCtr' => dropCtr' >= c[2]
    BY <1>13, <2>2
  <2>6. /\ Len(records') = LastFrame[p] - frameCtr' /\ out' = frameCtr' - dropCtr'
        /\ dropCtr' <= MustDrop[p] /\ frameCtr' \in Nat /\ dropCtr' \in Nat
    BY <1>11, <1>15, <2>2
  <2> HIDE DEF p
  <2>7. p' \in 0..4 /\ p' # 0
    BY <1>1, <2>4
  <2> QED
    BY <1>3, <2>1, <2>3, <2>4, <2>5, <2>6, <2>7 DEF TelecineInv, p
<1> QED
  BY <1>16, <1>17

\* Every step keeps the counters of ivtc in step with the records.
LEMMA TelecineNext ==
  TotalsOK /\ LagBounded /\ TelecineInv /\ [Next]_vars => TelecineInv'
<1> SUFFICES ASSUME TotalsOK, LagBounded, TelecineInv, [Next]_vars PROVE TelecineInv'
  OBVIOUS
<1>1. CASE NextSequence
  BY <1>1, TelecineNextSequence
<1>2. CASE FirstAudio
  BY <1>2 DEF FirstAudio, ivtcVars, TelecineInv
<1>3. CASE PlainFrame
  <2>1. /\ sync' = sync /\ frameCtr' = frameCtr /\ dropCtr' = dropCtr
        /\ sync.pulldown = 0 /\ records # <<>>
        /\ records' = Tail(records) /\ out' = out + Head(records)
    BY <1>3 DEF PlainFrame, demuxVars, ivtcVars, Use
  <2>2. records' \in Seq(Nat) /\ Head(records) \in Nat
    BY <2>1 DEF TelecineInv
  <2> QED
    BY <2>1, <2>2 DEF TelecineInv
<1>4. ASSUME NEW interlaced \in BOOLEAN, TelecinedFrame(interlaced) PROVE TelecineInv'
  BY <1>4, TelecineFrame
<1>5. CASE EndOfStream \/ UNCHANGED vars
  BY <1>5 DEF EndOfStream, vars, demuxVars, ivtcVars, TelecineInv
<1> QED
  BY <1>1, <1>2, <1>3, <1>4, <1>5 DEF Next

\* A telecined sequence loses exactly the frames that seq_update has subtracted from the
\* totals, whatever the pictures look like.
THEOREM TelecineDropsExactly == Spec => []TelecineExact
<1>1. Init => TotalsOK /\ LagBounded /\ TelecineInv
  BY LagInit, TelecineInit
<1>2. TotalsOK /\ LagBounded /\ TelecineInv /\ [Next]_vars
        => TotalsOK' /\ LagBounded' /\ TelecineInv'
  BY LagNext, TelecineNext
<1>3. TelecineInv => TelecineExact
  <2> SUFFICES ASSUME TelecineInv, records = <<>>, sync.pulldown # 0
               PROVE  out = sync.enc + sync.adj
    BY DEF TelecineExact
  <2>1. LastFrame[sync.pulldown] \in Nat /\ MustDrop[sync.pulldown] \in Nat
    BY DEF TelecineInv, LastFrame, MustDrop
  <2> QED
    BY <2>1 DEF TelecineInv
<1> QED
  BY <1>1, <1>2, <1>3, PTL DEF Spec

-----------------------------------------------------------------------------
(* What seq_write writes: the corrections are spread over the sequence, and *)
(* the records add up to the frames that seq_update has counted on.         *)

\* How often k times a distance hits a frame: the corrections that fall on frame i, and
\* those that fall before it.
Distance(pics, n) == IF n = 0 \/ n >= pics THEN 1 ELSE pics \div n
Size(adj) == IF adj < 0 THEN -adj ELSE adj
Hits(pics, adj, i) ==
  {k \in 1..Size(adj) : (k * Distance(pics, Size(adj))) % pics = i - 1}
HitsBelow(pics, adj, pos) ==
  {k \in 1..Size(adj) : (k * Distance(pics, Size(adj))) % pics < pos}

\* The corrections that seq_update makes: at most half of a sequence is dropped, and what
\* is cloned in excess of it is a multiple of it.
Spreadable(pics, adj) ==
  /\ adj < 0 => 2 * (-adj) <= pics
  /\ adj >= pics => adj % pics = 0

\* The records of seq_write are in step with the hits.
LEMMA CopiesAt ==
  ASSUME NEW pics \in Nat \ {0}, NEW adj \in Int, NEW i \in 1..pics
  PROVE  CopiesOf(pics, adj)[i] = IF adj >= 0 THEN 1 + Cardinality(Hits(pics, adj, i))
                                  ELSE IF Cardinality(Hits(pics, adj, i)) = 0 THEN 1 ELSE 0
BY DEF CopiesOf, Hits, Distance, Size

\* The hits are finite.
LEMMA HitsFinite ==
  ASSUME NEW pics \in Nat \ {0}, NEW adj \in Int, NEW i \in Int
  PROVE  /\ IsFiniteSet(Hits(pics, adj, i)) /\ Cardinality(Hits(pics, adj, i)) \in Nat
         /\ IsFiniteSet(HitsBelow(pics, adj, i)) /\ Cardinality(HitsBelow(pics, adj, i)) \in Nat
<1>1. Size(adj) \in Nat
  BY DEF Size
<1>2. IsFiniteSet(1..Size(adj))
  BY <1>1, FS_Interval
<1>3. Hits(pics, adj, i) \subseteq 1..Size(adj) /\ HitsBelow(pics, adj, i) \subseteq 1..Size(adj)
  BY DEF Hits, HitsBelow
<1>4. IsFiniteSet(Hits(pics, adj, i)) /\ IsFiniteSet(HitsBelow(pics, adj, i))
  BY <1>2, <1>3, FS_Subset
<1> QED
  BY <1>4, FS_CardinalityType

\* A correction of fewer frames than the sequence has hits different frames.
LEMMA FewHitsApart ==
  ASSUME NEW pics \in Nat \ {0}, NEW n \in 1..pics - 1, NEW k \in 1..n, NEW l \in 1..n, k < l
  PROVE  /\ (k * Distance(pics, n)) % pics # (l * Distance(pics, n)) % pics
         /\ (k * Distance(pics, n)) % pics = k * Distance(pics, n)
         /\ (l * Distance(pics, n)) % pics \in {0, l * Distance(pics, n)}
<1> DEFINE inc == Distance(pics, n)
<1>1. inc \in Nat /\ inc = pics \div n
  BY DEF Distance
<1>2. n * inc <= pics
  BY <1>1
<1>3. inc > 0
  BY <1>1
<1> HIDE DEF inc
<1>4. k * inc + inc <= l * inc
  BY <1>1
<1>5. l * inc <= n * inc
  BY <1>1
<1>6. k * inc \in Nat /\ l * inc \in Nat /\ k * inc > 0
  BY <1>1, <1>3
<1> DEFINE a == k * inc
           b == l * inc
<1>7. a \in Nat /\ b \in Nat /\ a > 0 /\ a < b /\ b <= pics
  BY <1>1, <1>2, <1>3, <1>4, <1>5, <1>6
<1> HIDE DEF a, b
<1>8. a % pics = a
  BY <1>7
<1>9. b % pics = b \/ b % pics = 0
  BY <1>7
<1> QED
  BY <1>7, <1>8, <1>9 DEF a, b, inc

\* A correction of fewer frames than the sequence has hits no frame twice.
LEMMA FewHitsOnce ==
  ASSUME NEW pics \in Nat \ {0}, NEW adj \in Int, Size(adj) < pics, NEW i \in 1..pics
  PROVE  Cardinality(Hits(pics, adj, i)) \in {0, 1}
<1>1. Size(adj) \in Nat
  BY DEF Size
<1>2. \A k, l \in Hits(pics, adj, i) : ~(k < l)
  <2> SUFFICES ASSUME NEW k \in Hits(pics, adj, i), NEW l \in Hits(pics, adj, i), k < l
               PROVE  FALSE
    OBVIOUS
  <2>1. /\ k \in 1..Size(adj) /\ l \in 1..Size(adj)
        /\ (k * Distance(pics, Size(adj))) % pics = (l * Distance(pics, Size(adj))) % pics
    BY DEF Hits
  <2>2. Size(adj) \in 1..pics - 1
    BY <1>1, <2>1
  <2> QED
    BY <2>1, <2>2, FewHitsApart
<1>3. \A k, l \in Hits(pics, adj, i) : k = l
  <2> SUFFICES ASSUME NEW k \in Hits(pics, adj, i), NEW l \in Hits(pics, adj, i) PROVE k = l
    OBVIOUS
  <2>1. k \in Nat /\ l \in Nat /\ ~(k < l) /\ ~(l < k)
    BY <1>1, <1>2 DEF Hits
  <2> QED
    BY <2>1
<1>4. CASE Hits(pics, adj, i) = {}
  BY <1>4, FS_EmptySet
<1>5. CASE Hits(pics, adj, i) # {}
  <2>1. PICK k : Hits(pics, adj, i) = {k}
    BY <1>3, <1>5
  <2> QED
    BY <2>1, FS_Singleton
<1> QED
  BY <1>4, <1>5

\* How the hits of the frames read so far grow with the next frame.
LEMMA HitsGrow ==
  ASSUME NEW pics \in Nat \ {0}, NEW adj \in Int, NEW pos \in 0..pics - 1
  PROVE  Cardinality(HitsBelow(pics, adj, pos + 1)) =
           Cardinality(HitsBelow(pics, adj, pos)) + Cardinality(Hits(pics, adj, pos + 1))
<1> DEFINE n == Size(adj)
           at(k) == (k * Distance(pics, n)) % pics
           older == HitsBelow(pics, adj, pos)
           new == Hits(pics, adj, pos + 1)
<1>1. n \in Nat /\ Distance(pics, n) \in Nat
  BY DEF Size, Distance
<1>2. \A k \in 1..n : at(k) \in Nat
  <2> SUFFICES ASSUME NEW k \in 1..n PROVE at(k) \in Nat
    OBVIOUS
  <2>1. k * Distance(pics, n) \in Nat
    BY <1>1
  <2> DEFINE x == k * Distance(pics, n)
  <2> HIDE DEF x
  <2>2. x % pics \in Nat
    BY <2>1 DEF x
  <2> QED
    BY <2>2 DEF x
<1>3. HitsBelow(pics, adj, pos + 1) = {k \in 1..n : at(k) < pos + 1}
  BY DEF HitsBelow
<1>4. older = {k \in 1..n : at(k) < pos} /\ new = {k \in 1..n : at(k) = pos}
  BY DEF HitsBelow, Hits
<1> HIDE DEF at, n
<1>5. \A k \in 1..n : at(k) < pos + 1 <=> at(k) < pos \/ at(k) = pos
  BY <1>2
<1>6. HitsBelow(pics, adj, pos + 1) = older \cup new
  BY <1>3, <1>4, <1>5
<1>7. older \cap new = {}
  BY <1>2, <1>4
<1>8. \A i \in Int : /\ IsFiniteSet(Hits(pics, adj, i)) /\ Cardinality(Hits(pics, adj, i)) \in Nat
                     /\ IsFiniteSet(HitsBelow(pics, adj, i))
                     /\ Cardinality(HitsBelow(pics, adj, i)) \in Nat
  BY HitsFinite
<1>9. /\ IsFiniteSet(older) /\ IsFiniteSet(new)
      /\ Cardinality(older) \in Nat /\ Cardinality(new) \in Nat
  <2>1. pos \in Int /\ pos + 1 \in Int
    OBVIOUS
  <2> QED
    BY <1>8, <2>1
<1> HIDE DEF older, new
<1>10. Cardinality(older \cup new) = Cardinality(older) + Cardinality(new)
  <2>1. Cardinality(older \cup new)
          = Cardinality(older) + Cardinality(new) - Cardinality(older \cap new)
    BY <1>9, FS_Union
  <2> QED
    BY <1>7, <1>9, <2>1, FS_EmptySet
<1> QED
  BY <1>6, <1>10 DEF older, new

\* All corrections fall on the sequence.
LEMMA HitsAll ==
  ASSUME NEW pics \in Nat \ {0}, NEW adj \in Int
  PROVE  /\ Cardinality(HitsBelow(pics, adj, 0)) = 0
         /\ Cardinality(HitsBelow(pics, adj, pics)) = Size(adj)
<1> DEFINE n == Size(adj)
<1>1. n \in Nat /\ Distance(pics, n) \in Nat
  BY DEF Size, Distance
<1>2. \A k \in 1..n : (k * Distance(pics, n)) % pics \in 0..pics - 1
  <2> SUFFICES ASSUME NEW k \in 1..n PROVE (k * Distance(pics, n)) % pics \in 0..pics - 1
    OBVIOUS
  <2> DEFINE x == k * Distance(pics, n)
  <2>1. x \in Nat
    BY <1>1
  <2> HIDE DEF x
  <2>2. x % pics \in 0..pics - 1
    BY <2>1
  <2> QED
    BY <2>2 DEF x
<1>3. HitsBelow(pics, adj, 0) = {}
  BY <1>2 DEF HitsBelow
<1>4. HitsBelow(pics, adj, pics) = 1..n
  BY <1>2 DEF HitsBelow
<1>5. Cardinality(1..n) = n
  BY <1>1, FS_Interval
<1> QED
  BY <1>3, <1>4, <1>5, FS_EmptySet

\* A sequence that is cloned as a whole: every frame is hit equally often.
LEMMA ManyHitsEven ==
  ASSUME NEW pics \in Nat \ {0}, NEW adj \in Nat, adj >= pics, adj % pics = 0, NEW i \in 1..pics
  PROVE  Cardinality(Hits(pics, adj, i)) = adj \div pics
<1> DEFINE m == adj \div pics
           first == IF i = 1 THEN 1 ELSE 0
           hit == [q \in 1..m |-> (q - 1 + first) * pics + (i - 1)]
<1>1. m \in Nat /\ adj = m * pics
  <2>1. adj = pics * (adj \div pics) + (adj % pics) /\ adj \div pics \in Nat
    OBVIOUS
  <2> QED
    BY <2>1
<1>2. Hits(pics, adj, i) = {k \in 1..adj : k % pics = i - 1}
  <2>1. Size(adj) = adj /\ Distance(pics, adj) = 1
    BY DEF Size, Distance
  <2>2. \A k \in 1..adj : k * 1 = k
    OBVIOUS
  <2> QED
    BY <2>1, <2>2 DEF Hits
<1>3. first \in {0, 1} /\ (first = 0 => i - 1 >= 1) /\ (first = 1 => i = 1)
  OBVIOUS
<1> HIDE DEF m, first
<1>4. \A q \in 1..m : hit[q] \in Hits(pics, adj, i)
  <2> SUFFICES ASSUME NEW q \in 1..m PROVE hit[q] \in Hits(pics, adj, i)
    OBVIOUS
  <2> DEFINE c == q - 1 + first
             r == i - 1
  <2>1. c \in Nat /\ r \in 0..pics - 1 /\ c <= m /\ (c = m => r = 0) /\ (c = 0 => r >= 1)
    BY <1>1, <1>3
  <2>2. hit[q] = c * pics + r
    OBVIOUS
  <2> HIDE DEF c, r, hit
  <2>3. (c * pics + r) % pics = r
    BY <2>1
  <2>4. c * pics + r >= 1
    <3>1. CASE c = 0
      BY <2>1, <3>1
    <3>2. CASE c > 0
      <4>1. 1 * pics <= c * pics
        BY <2>1, <3>2
      <4> QED
        BY <2>1, <4>1
    <3> QED
      BY <2>1, <3>1, <3>2
  <2>5. c * pics + r <= m * pics
    <3>1. CASE c = m
      BY <2>1, <3>1
    <3>2. CASE c < m
      <4>1. c * pics + pics <= m * pics
        BY <1>1, <2>1, <3>2
      <4>2. c * pics \in Nat
        BY <2>1
      <4> QED
        BY <1>1, <2>1, <4>1, <4>2
    <3> QED
      BY <1>1, <2>1, <3>1, <3>2
  <2>6. c * pics + r \in 1..adj
    <3>1. c * pics \in Nat /\ m * pics \in Nat
      BY <1>1, <2>1
    <3> QED
      BY <1>1, <2>1, <2>4, <2>5, <3>1
  <2> QED
    BY <1>2, <2>2, <2>3, <2>6 DEF r
<1>5. \A p, q \in 1..m : hit[p] = hit[q] => p = q
  <2> SUFFICES ASSUME NEW p \in 1..m, NEW q \in 1..m, p < q PROVE hit[p] < hit[q]
    <3>1. \A p, q \in 1..m : p < q => hit[p] < hit[q]
      OBVIOUS
    <3>2. \A q \in 1..m : hit[q] \in Int
      BY <1>3
    <3> HIDE DEF hit
    <3> QED
      BY <1>1, <3>1, <3>2
  <2> DEFINE a == p - 1 + first
             b == q - 1 + first
  <2>1. a \in Nat /\ b \in Nat /\ a < b
    BY <1>1, <1>3
  <2>2. hit[p] = a * pics + (i - 1) /\ hit[q] = b * pics + (i - 1)
    OBVIOUS
  <2> HIDE DEF a, b, hit
  <2>3. a * pics + pics <= b * pics
    BY <2>1
  <2>4. a * pics \in Nat /\ b * pics \in Nat
    BY <2>1
  <2> QED
    BY <2>2, <2>3, <2>4
<1>6. \A k \in Hits(pics, adj, i) : \E q \in 1..m : hit[q] = k
  <2> SUFFICES ASSUME NEW k \in 1..adj, k % pics = i - 1 PROVE \E q \in 1..m : hit[q] = k
    BY <1>2
  <2> DEFINE c == k \div pics
  <2>1. c \in Nat /\ k = pics * c + (i - 1)
    <3>1. k = pics * (k \div pics) + (k % pics) /\ k \div pics \in Nat
      OBVIOUS
    <3> QED
      BY <3>1
  <2> HIDE DEF c
  <2>2. c <= m /\ (first = 0 => c < m)
    <3>1. SUFFICES ASSUME c > m \/ (first = 0 /\ c = m) PROVE FALSE
      BY <1>1, <1>3, <2>1
    <3>2. m * pics <= c * pics
      BY <1>1, <2>1, <3>1
    <3>3. c > m => m * pics + pics <= c * pics
      BY <1>1, <2>1
    <3>4. m * pics \in Nat /\ c * pics \in Nat /\ pics * c = c * pics
      BY <1>1, <2>1
    <3> QED
      BY <1>1, <1>3, <2>1, <3>1, <3>2, <3>3, <3>4
  <2>3. first = 1 => c >= 1
    BY <1>3, <2>1
  <2> DEFINE q == c + 1 - first
  <2>4. q \in 1..m /\ q - 1 + first = c
    BY <1>1, <1>3, <2>1, <2>2, <2>3
  <2>5. hit[q] = c * pics + (i - 1)
    BY <2>4
  <2> HIDE DEF hit, q
  <2> QED
    BY <2>1, <2>4, <2>5
<1> HIDE DEF hit
<1>7. hit \in [1..m -> Hits(pics, adj, i)]
  BY <1>4 DEF hit
<1>8. hit \in Bijection(1..m, Hits(pics, adj, i))
  BY <1>5, <1>6, <1>7 DEF Bijection, Injection, Surjection, IsInjective
<1>9. IsFiniteSet(1..m) /\ Cardinality(1..m) = m
  BY <1>1, FS_Interval
<1> QED
  BY <1>8, <1>9, FS_Bijection DEF ExistsBijection, m

\* What the first pos frames of a sequence are used together.
Used(pics, adj, pos) ==
  IF adj >= 0 THEN pos + Cardinality(HitsBelow(pics, adj, pos))
  ELSE pos - Cardinality(HitsBelow(pics, adj, pos))

\* No frame is used before the first, and all of them make up the corrected sequence.
LEMMA UsedEnds ==
  ASSUME NEW pics \in Nat \ {0}, NEW adj \in Int
  PROVE  Used(pics, adj, 0) = 0 /\ Used(pics, adj, pics) = pics + adj
BY HitsAll DEF Used, Size

\* The next record adds its frame.
LEMMA UsedGrows ==
  ASSUME NEW pics \in Nat \ {0}, NEW adj \in Int, Spreadable(pics, adj), NEW pos \in 0..pics - 1
  PROVE  Used(pics, adj, pos + 1) = Used(pics, adj, pos) + CopiesOf(pics, adj)[pos + 1]
<1> DEFINE hits == Cardinality(Hits(pics, adj, pos + 1))
           below == Cardinality(HitsBelow(pics, adj, pos))
           grown == Cardinality(HitsBelow(pics, adj, pos + 1))
<1>1. pos + 1 \in 1..pics
  OBVIOUS
<1>2. grown = below + hits
  BY HitsGrow
<1>3. hits \in Nat /\ below \in Nat
  <2>1. \A i \in Int : Cardinality(Hits(pics, adj, i)) \in Nat
                         /\ Cardinality(HitsBelow(pics, adj, i)) \in Nat
    BY HitsFinite
  <2>2. pos \in Int /\ pos + 1 \in Int
    OBVIOUS
  <2> QED
    BY <2>1, <2>2
<1>4. CopiesOf(pics, adj)[pos + 1] = IF adj >= 0 THEN 1 + hits ELSE IF hits = 0 THEN 1 ELSE 0
  BY <1>1, CopiesAt
<1>5. adj < 0 => hits \in {0, 1}
  <2> SUFFICES ASSUME adj < 0 PROVE hits \in {0, 1}
    OBVIOUS
  <2>1. Size(adj) < pics
    BY DEF Size, Spreadable
  <2> QED
    BY <1>1, <2>1, FewHitsOnce
<1>6. CASE adj >= 0
  <2>1. Used(pics, adj, pos + 1) = pos + 1 + grown
    BY <1>6 DEF Used
  <2>2. Used(pics, adj, pos) = pos + below
    BY <1>6 DEF Used
  <2> HIDE DEF hits, below, grown
  <2> QED
    BY <1>2, <1>3, <1>4, <1>6, <2>1, <2>2
<1>7. CASE ~(adj >= 0)
  <2>1. \A c \in 0..pics : Used(pics, adj, c) = c - Cardinality(HitsBelow(pics, adj, c))
    BY <1>7 DEF Used
  <2>2. Used(pics, adj, pos + 1) = (pos + 1) - grown /\ Used(pics, adj, pos) = pos - below
    <3>1. pos \in 0..pics /\ pos + 1 \in 0..pics
      OBVIOUS
    <3> QED
      BY <2>1, <3>1
  <2>3. hits \in {0, 1}
    BY <1>5, <1>7
  <2> HIDE DEF hits, below, grown
  <2> QED
    BY <1>2, <1>3, <1>4, <1>7, <2>2, <2>3
<1> QED
  BY <1>6, <1>7

\* No record is larger than another by more than one.
LEMMA CopiesEven ==
  ASSUME NEW pics \in Nat \ {0}, NEW adj \in Int, Spreadable(pics, adj),
         NEW i \in 1..pics, NEW j \in 1..pics
  PROVE  CopiesOf(pics, adj)[i] <= CopiesOf(pics, adj)[j] + 1
<1> DEFINE c(k) == Cardinality(Hits(pics, adj, k))
<1>1. \A k \in 1..pics :
        CopiesOf(pics, adj)[k] = IF adj >= 0 THEN 1 + c(k) ELSE IF c(k) = 0 THEN 1 ELSE 0
  BY CopiesAt
<1>2. \A k \in Int : c(k) \in Nat
  BY HitsFinite
<1>3. CASE adj < 0
  <2>1. CopiesOf(pics, adj)[i] \in {0, 1} /\ CopiesOf(pics, adj)[j] \in {0, 1}
    <3>1. ~(adj >= 0)
      BY <1>3
    <3> HIDE DEF c
    <3> QED
      BY <1>1, <3>1, Zenon
  <2> QED
    BY <2>1
<1>4. CASE adj >= 0 /\ adj < pics
  <2>1. Size(adj) < pics
    BY <1>4 DEF Size
  <2>2. \A k \in 1..pics : c(k) \in {0, 1}
    BY <2>1, FewHitsOnce
  <2>3. c(i) \in {0, 1} /\ c(j) \in {0, 1}
    BY <2>2
  <2>4. CopiesOf(pics, adj)[i] = 1 + c(i) /\ CopiesOf(pics, adj)[j] = 1 + c(j)
    BY <1>1, <1>4
  <2> HIDE DEF c
  <2> QED
    BY <2>3, <2>4
<1>5. CASE adj >= pics
  <2>1. adj \in Nat /\ adj % pics = 0
    BY <1>5 DEF Spreadable
  <2>2. \A k \in 1..pics : c(k) = adj \div pics
    BY <1>5, <2>1, ManyHitsEven
  <2>3. CopiesOf(pics, adj)[i] = 1 + c(i) /\ CopiesOf(pics, adj)[j] = 1 + c(j)
    BY <1>1, <2>1
  <2>4. c(i) = c(j) /\ c(i) \in Nat
    BY <1>2, <2>2
  <2> HIDE DEF c
  <2> QED
    BY <2>3, <2>4
<1> QED
  BY <1>3, <1>4, <1>5

\* No two frames in a row are dropped.
LEMMA DropsApart ==
  ASSUME NEW pics \in Nat \ {0}, NEW adj \in Int, Spreadable(pics, adj), NEW i \in 1..pics - 1,
         CopiesOf(pics, adj)[i] = 0
  PROVE  CopiesOf(pics, adj)[i + 1] # 0
<1> SUFFICES ASSUME CopiesOf(pics, adj)[i + 1] = 0 PROVE FALSE
  OBVIOUS
<1> DEFINE n == Size(adj)
           inc == Distance(pics, n)
<1>1. i \in 1..pics /\ i + 1 \in 1..pics
  OBVIOUS
<1>2. /\ Cardinality(Hits(pics, adj, i)) \in Nat
      /\ Cardinality(Hits(pics, adj, i + 1)) \in Nat
  <2>1. \A k \in Int : Cardinality(Hits(pics, adj, k)) \in Nat
    BY HitsFinite
  <2>2. i \in Int /\ i + 1 \in Int
    OBVIOUS
  <2> QED
    BY <2>1, <2>2
<1>3. /\ adj < 0 /\ Cardinality(Hits(pics, adj, i)) # 0
      /\ Cardinality(Hits(pics, adj, i + 1)) # 0
  <2>1. \A k \in 1..pics :
          CopiesOf(pics, adj)[k] = IF adj >= 0 THEN 1 + Cardinality(Hits(pics, adj, k))
                                   ELSE IF Cardinality(Hits(pics, adj, k)) = 0 THEN 1 ELSE 0
    BY CopiesAt
  <2> QED
    BY <1>1, <1>2, <2>1
<1>4. PICK k : k \in Hits(pics, adj, i)
  <2>1. Hits(pics, adj, i) # {}
    BY <1>3, FS_EmptySet
  <2> QED
    BY <2>1
<1>5. PICK l : l \in Hits(pics, adj, i + 1)
  <2>1. Hits(pics, adj, i + 1) # {}
    BY <1>3, FS_EmptySet
  <2> QED
    BY <2>1
<1>6. k \in 1..n /\ (k * inc) % pics = i - 1 /\ l \in 1..n /\ (l * inc) % pics = i
  <2>1. i + 1 - 1 = i
    OBVIOUS
  <2> QED
    BY <1>4, <1>5, <2>1 DEF Hits
<1>7. n \in Nat /\ n >= 1 /\ 2 * n <= pics /\ n \in 1..pics - 1
  <2>1. n = -adj /\ 2 * (-adj) <= pics
    BY <1>3 DEF Size, Spreadable
  <2> QED
    BY <1>3, <2>1
<1>8. inc = pics \div n /\ inc \in Nat /\ inc >= 2
  <2> HIDE DEF n
  <2>1. inc = pics \div n
    BY <1>7 DEF Distance
  <2>2. pics \div n \in Nat /\ pics \div n >= 2
    BY <1>7
  <2> QED
    BY <2>1, <2>2
<1>9. n * inc <= pics
  <2> HIDE DEF n
  <2> QED
    BY <1>7, <1>8
<1> HIDE DEF n, inc
<1>10. k * inc <= n * inc /\ l * inc <= n * inc
  BY <1>6, <1>7, <1>8
<1> DEFINE a == k * inc
           b == l * inc
<1>11. a \in Nat /\ b \in Nat /\ a <= pics /\ b <= pics /\ a >= inc /\ b >= inc
  <2>1. a \in Nat /\ b \in Nat /\ n * inc \in Nat
    BY <1>6, <1>7, <1>8
  <2>2. 1 * inc <= k * inc /\ 1 * inc <= l * inc
    BY <1>6, <1>7, <1>8
  <2> QED
    BY <1>8, <1>9, <1>10, <2>1, <2>2
<1>12. a < b => a + inc <= b
  BY <1>6, <1>7, <1>8
<1>13. a % pics = i - 1 /\ b % pics = i
  BY <1>6
<1> HIDE DEF a, b
<1>14. b = i
  BY <1>11, <1>13
<1>15. CASE a = pics
  <2>1. i = 1
    BY <1>13, <1>15
  <2> QED
    BY <1>8, <1>11, <1>14, <2>1
<1>16. CASE a < pics
  <2>1. a = i - 1
    BY <1>11, <1>13, <1>16
  <2> QED
    BY <1>8, <1>11, <1>12, <1>14, <2>1
<1> QED
  BY <1>11, <1>15, <1>16

-----------------------------------------------------------------------------
(* The records in the states of the system. *)

\* The records are those of the last sequence; transcode has read all but the last ones,
\* has used what they say, and the totals are the output and what is still to come.
WrittenInv ==
  /\ written \in Seq(Nat) /\ Len(written) = sync.enc /\ sum \in Int
  /\ Len(records) <= sync.enc
  /\ \A i \in 1..Len(records) : records[i] = written[sync.enc - Len(records) + i]
  /\ sync.active =>
       /\ sync.enc > 0 /\ Spreadable(sync.enc, sync.adj)
       /\ \A i \in 1..sync.enc : written[i] = CopiesOf(sync.enc, sync.adj)[i]
  /\ sync.active /\ sync.pulldown = 0 => out = Used(sync.enc, sync.adj, sync.enc - Len(records))
  /\ ~sync.skipped /\ counted => sync.active /\ total.dec = (sum - out) + sync.enc + sync.adj

\* The inductive invariant of SeqSync.
SeqInv == TotalsOK /\ LagBounded /\ TelecineInv /\ WrittenInv

\* A correction can be spread, before it is smoothed and after.
LEMMA CorrectionSpreadable ==
  ASSUME NEW delay \in Int, NEW pics \in Nat \ {0}
  PROVE  /\ Spreadable(pics, Limited(delay, pics))
         /\ Spreadable(pics, Smooth(Limited(delay, pics)))
<1> DEFINE limited == Limited(delay, pics)
<1>1. limited \in Int
  BY LimitedLag
<1>2. 2 * (pics \div 2) <= pics /\ pics \div 2 \in Nat
  BY HalfOf
<1>3. CASE delay >= pics
  <2>1. delay = pics * (delay \div pics) + (delay % pics) /\ delay \div pics \in Nat
        /\ delay % pics \in 0..pics - 1
    BY <1>3
  <2> DEFINE q == delay \div pics
  <2>2. limited = q * pics
    BY <1>3, <2>1 DEF Limited
  <2>3. q \in Nat
    BY <2>1
  <2> HIDE DEF q, limited
  <2>4. (q * pics + 0) % pics = 0 /\ q * pics \in Nat
    BY <2>3
  <2>5. limited % pics = 0 /\ limited >= 0
    BY <2>2, <2>4
  <2>6. Smooth(limited) \in {0, 1, limited}
    BY <1>1, <2>5 DEF Smooth
  <2>7. 0 >= pics => 0 % pics = 0
    OBVIOUS
  <2>8. 1 >= pics => 1 % pics = 0
    OBVIOUS
  <2> QED
    BY <1>1, <2>5, <2>6, <2>7, <2>8 DEF Spreadable, limited
<1>4. CASE delay < pics
  <2>1. limited < pics /\ 2 * (-limited) <= pics
    BY <1>2, <1>4 DEF Limited
  <2> HIDE DEF limited
  <2>2. (Smooth(limited) \in {0, 1} /\ limited >= -1) \/ Smooth(limited) = limited
    BY <1>1 DEF Smooth
  <2>3. 1 >= pics => 1 % pics = 0
    OBVIOUS
  <2> QED
    BY <1>1, <2>1, <2>2, <2>3 DEF Spreadable, limited
<1> QED
  BY <1>3, <1>4

\* The totals that a correction leaves are those before it, the sequence and the correction.
LEMMA CorrectTotals ==
  ASSUME TotalsOK, NEW seq \in Inputs, seq.ticks > 0, NEW err \in Rounding, Correct(seq, err)
  PROVE  /\ sync'.enc = seq.pics /\ sync'.active = active /\ Spreadable(sync'.enc, sync'.adj)
         /\ sync'.adj \in Int /\ Before.dec \in Int
         /\ total'.dec = Before.dec + sync'.enc + sync'.adj
         /\ counted' => active /\ (Restarts \/ counted)
<1> DEFINE pts     == Before.pts + seq.ticks
           request == Requested(pts, err)
           delay   == request - Before.dec - seq.pics
           limited == Limited(delay, seq.pics)
           pulldown == IF hardFps THEN 0 ELSE Pulldown(limited, seq)
           adj     == IF hardFps \/ pulldown # 0 THEN limited ELSE Smooth(limited)
<1>1. seq \in [pics : Nat \ {0}, ticks : Int] /\ err \in {0, 1}
  BY SeqConstants
<1>2. Before \in [dec : Int, pts : Nat, request : Nat]
  BY DEF TotalsOK, Before, Nothing
<1>3. pts \in Nat \ {0}
  BY <1>1, <1>2
<1>4. request \in Nat
  BY <1>1, <1>3, RequestedNat
<1>5. delay \in Int
  BY <1>1, <1>2, <1>4
<1>6. /\ total' = [dec |-> Before.dec + seq.pics + adj, pts |-> pts, request |-> request]
      /\ sync' = [enc |-> seq.pics, adj |-> adj, pulldown |-> IF active THEN pulldown ELSE 0,
                  active |-> active, skipped |-> FALSE]
      /\ counted' = ((Restarts \/ counted) /\ active)
  BY DEF Correct
<1>7. adj = limited \/ adj = Smooth(limited)
  OBVIOUS
<1> HIDE DEF pts, request, delay, pulldown, adj
<1>8. limited \in Int /\ Smooth(limited) \in Int
  <2>1. limited \in Int
    BY <1>1, <1>5, LimitedLag
  <2> QED
    BY <2>1, SmoothLag
<1>9. Spreadable(seq.pics, adj) /\ adj \in Int
  BY <1>1, <1>5, <1>7, <1>8, CorrectionSpreadable
<1>10. counted' => active /\ (Restarts \/ counted)
  BY <1>6, Zenon
<1> QED
  BY <1>2, <1>6, <1>9, <1>10

\* Once all records of a sequence have been read, its output is the corrected sequence.
LEMMA SequenceOutput ==
  ASSUME SeqInv, records = <<>>, sync.active PROVE out = sync.enc + sync.adj
<1>1. sync.enc \in Nat \ {0} /\ sync.adj \in Int
  BY DEF SeqInv, TotalsOK, WrittenInv
<1>2. CASE sync.pulldown = 0
  <2>1. sync.enc - Len(records) = sync.enc
    BY <1>1
  <2>2. out = Used(sync.enc, sync.adj, sync.enc)
    BY <1>2, <2>1 DEF SeqInv, WrittenInv
  <2> QED
    BY <1>1, <2>2, UsedEnds
<1>3. CASE sync.pulldown # 0
  <2>1. LastFrame[sync.pulldown] \in Nat /\ MustDrop[sync.pulldown] \in Nat
    BY <1>3 DEF SeqInv, TelecineInv, LastFrame, MustDrop
  <2> QED
    BY <1>3, <2>1 DEF SeqInv, TelecineInv
<1> QED
  BY <1>2, <1>3

\* seq_write writes the records of the next sequence.
LEMMA WrittenNextSequence ==
  ASSUME SeqInv, NextSequence PROVE WrittenInv'
<1>1. PICK seq \in Inputs, err \in Rounding :
        /\ IF seq.ticks <= 0 \/ id = 0 THEN Skip(seq) ELSE Correct(seq, err)
        /\ written' = [i \in 1..seq.pics |-> IF active THEN CopiesOf(seq.pics, sync'.adj)[i] ELSE 0]
  BY DEF NextSequence
<1>2. /\ records = <<>> /\ records' = written' /\ out' = 0
      /\ sum' = IF Restarts THEN 0 ELSE sum
  BY DEF NextSequence
<1>3. seq.pics \in Nat \ {0} /\ seq.ticks \in Int
  BY SeqConstants
<1>4. /\ sync'.enc = seq.pics /\ sync'.active = active /\ Spreadable(sync'.enc, sync'.adj)
      /\ sync'.adj \in Int
      /\ ~sync'.skipped /\ counted' =>
           /\ active /\ (Restarts \/ counted)
           /\ total'.dec = Before.dec + sync'.enc + sync'.adj /\ Before.dec \in Int
  <2>1. CASE seq.ticks <= 0 \/ id = 0
    <3>1. /\ sync'.enc = seq.pics /\ sync'.active = active /\ sync'.adj = 0 /\ sync'.skipped
      BY <1>1, <2>1 DEF Skip
    <3> QED
      BY <1>3, <3>1 DEF Spreadable
  <2>2. CASE ~(seq.ticks <= 0 \/ id = 0)
    <3>1. seq.ticks > 0
      BY <1>3, <2>2
    <3> QED
      BY <1>1, <2>2, <3>1, CorrectTotals DEF SeqInv
  <2> QED
    BY <2>1, <2>2
<1>5. \A i \in 1..seq.pics : (IF active THEN CopiesOf(seq.pics, sync'.adj)[i] ELSE 0) \in Nat
  BY <1>3, <1>4, CopiesType
<1>6. written' \in Seq(Nat) /\ Len(written') = seq.pics
  BY <1>1, <1>3, <1>5
<1>7. sum' \in Int
  BY <1>2 DEF SeqInv, WrittenInv
<1>8. Len(records') = sync'.enc /\ \A i \in 1..Len(records') : sync'.enc - Len(records') + i = i
  BY <1>2, <1>3, <1>4, <1>6
<1>9. active => \A i \in 1..sync'.enc : written'[i] = CopiesOf(sync'.enc, sync'.adj)[i]
  BY <1>1, <1>4
<1>10. out' = Used(sync'.enc, sync'.adj, sync'.enc - Len(records'))
  <2>1. sync'.enc - Len(records') = 0
    BY <1>3, <1>4, <1>8
  <2> QED
    BY <1>2, <1>3, <1>4, <2>1, UsedEnds
<1>11. ASSUME ~sync'.skipped, counted'
       PROVE  active /\ total'.dec = (sum' - out') + sync'.enc + sync'.adj
  <2>1. /\ active /\ (Restarts \/ counted)
        /\ total'.dec = Before.dec + sync'.enc + sync'.adj /\ Before.dec \in Int
    BY <1>4, <1>11
  <2>2. Before.dec = sum'
    <3>1. CASE Restarts
      BY <1>2, <3>1 DEF Before, Nothing
    <3>2. CASE ~Restarts
      <4>1. ~sync.skipped /\ counted /\ Before = total /\ sum' = sum
        BY <1>2, <2>1, <3>2 DEF Restarts, Before
      <4>2. sync.active /\ total.dec = (sum - out) + sync.enc + sync.adj /\ sum \in Int
            /\ sync.enc \in Nat /\ sync.adj \in Int
        BY <4>1 DEF SeqInv, WrittenInv, TotalsOK
      <4>3. out = sync.enc + sync.adj
        BY <1>2, <4>2, SequenceOutput
      <4> QED
        BY <4>1, <4>2, <4>3
    <3> QED
      BY <3>1, <3>2
  <2>3. sum' - out' = sum'
    BY <1>2, <1>7
  <2> QED
    BY <2>1, <2>2, <2>3
<1>12. sync'.enc > 0
  BY <1>3, <1>4
<1>13. \A i \in 1..Len(records') : records'[i] = written'[sync'.enc - Len(records') + i]
  BY <1>2, <1>8
<1>14. Len(records') <= sync'.enc
  BY <1>3, <1>4, <1>8
<1> QED
  BY <1>4, <1>6, <1>7, <1>9, <1>10, <1>11, <1>12, <1>13, <1>14 DEF WrittenInv

\* The records that remain when one has been read.
LEMMA RecordsTail ==
  ASSUME SeqInv, records # <<>>, records' = Tail(records), sync' = sync, written' = written
  PROVE  /\ Len(records') = Len(records) - 1 /\ Len(records) \in 1..sync.enc
         /\ \A i \in 1..Len(records') : records'[i] = written'[sync'.enc - Len(records') + i]
         /\ Head(records) = written[sync.enc - Len(records) + 1]
<1> DEFINE n == Len(records)
<1>1. /\ records \in Seq(Nat) /\ n \in Nat /\ n <= sync.enc /\ sync.enc \in Nat
      /\ \A i \in 1..n : records[i] = written[sync.enc - n + i]
  BY DEF SeqInv, TelecineInv, WrittenInv, TotalsOK
<1>2. n >= 1 /\ Len(records') = n - 1 /\ \A i \in 1..n - 1 : records'[i] = records[i + 1]
  BY <1>1
<1>3. Head(records) = records[1]
  BY <1>1
<1> HIDE DEF n
<1>4. ASSUME NEW i \in 1..n - 1 PROVE records'[i] = written'[sync'.enc - Len(records') + i]
  <2>1. \A e \in Nat : e - n + (i + 1) = e - (n - 1) + i
    BY <1>1
  <2>2. sync.enc - n + (i + 1) = sync.enc - Len(records') + i /\ i + 1 \in 1..n
    <3>1. sync.enc - n + (i + 1) = sync.enc - (n - 1) + i
      BY <1>1, <2>1
    <3>2. Len(records') = n - 1
      BY <1>2
    <3>3. i + 1 \in 1..n
      BY <1>1
    <3> QED
      BY <3>1, <3>2, <3>3
  <2>3. records'[i] = records[i + 1] /\ records[i + 1] = written[sync.enc - n + (i + 1)]
    BY <1>1, <1>2, <2>2
  <2> QED
    BY <2>2, <2>3
<1>5. 1 \in 1..n /\ n \in 1..sync.enc
  BY <1>1, <1>2
<1>6. Head(records) = written[sync.enc - n + 1]
  BY <1>1, <1>3, <1>5
<1>7. \A i \in 1..Len(records') : records'[i] = written'[sync'.enc - Len(records') + i]
  BY <1>2, <1>4
<1> QED
  BY <1>2, <1>5, <1>6, <1>7 DEF n

\* Every step keeps the records and the output in step.
LEMMA WrittenNext == SeqInv /\ [Next]_vars => WrittenInv'
<1> SUFFICES ASSUME SeqInv, [Next]_vars PROVE WrittenInv'
  OBVIOUS
<1>0. /\ sync.enc \in Nat /\ sync.adj \in Int /\ out \in Int /\ sum \in Int
      /\ total.dec \in Int
  BY DEF SeqInv, TotalsOK, TelecineInv, WrittenInv
<1>1. CASE NextSequence
  BY <1>1, WrittenNextSequence
<1>2. CASE FirstAudio \/ EndOfStream \/ UNCHANGED vars
  <2>1. UNCHANGED <<written, records, sync, out, sum, total, counted>>
    BY <1>2 DEF FirstAudio, EndOfStream, vars, demuxVars, ivtcVars
  <2> QED
    BY <2>1 DEF SeqInv, WrittenInv
<1>3. CASE PlainFrame
  <2>1. /\ records # <<>> /\ sync.pulldown = 0 /\ records' = Tail(records)
        /\ UNCHANGED <<written, sync, total, counted>>
        /\ out' = out + Head(records) /\ sum' = sum + Head(records)
    BY <1>3 DEF PlainFrame, Use, demuxVars
  <2>2. /\ Len(records') = Len(records) - 1 /\ Len(records) \in 1..sync.enc
        /\ \A i \in 1..Len(records') : records'[i] = written'[sync'.enc - Len(records') + i]
        /\ Head(records) = written[sync.enc - Len(records) + 1]
    BY <2>1, RecordsTail
  <2>3. Head(records) \in Nat
    BY <2>1 DEF SeqInv, TelecineInv
  <2>4. out' \in Int /\ sum' \in Int /\ sum' - out' = sum - out
    <3>1. \A h \in Nat : out + h \in Int /\ sum + h \in Int /\ (sum + h) - (out + h) = sum - out
      BY <1>0
    <3> QED
      BY <2>1, <2>3, <3>1
  <2>5. ASSUME sync.active
        PROVE  out' = Used(sync.enc, sync.adj, sync.enc - Len(records'))
    <3> DEFINE pos == sync.enc - Len(records)
    <3>0. sync.enc > 0 /\ Spreadable(sync.enc, sync.adj)
      BY <2>5 DEF SeqInv, WrittenInv
    <3>1. sync.enc \in Nat \ {0} /\ pos \in 0..sync.enc - 1
      BY <1>0, <2>2, <3>0
    <3>2. out = Used(sync.enc, sync.adj, pos)
      BY <2>1, <2>5 DEF SeqInv, WrittenInv
    <3>3. pos + 1 \in 1..sync.enc /\ sync.enc - Len(records') = pos + 1
      BY <1>0, <2>2
    <3>4. Head(records) = CopiesOf(sync.enc, sync.adj)[pos + 1]
      BY <2>2, <2>5, <3>3 DEF SeqInv, WrittenInv
    <3> HIDE DEF pos
    <3>5. Used(sync.enc, sync.adj, pos + 1)
            = Used(sync.enc, sync.adj, pos) + CopiesOf(sync.enc, sync.adj)[pos + 1]
      BY <1>0, <3>0, <3>1, UsedGrows
    <3> QED
      BY <2>1, <3>2, <3>3, <3>4, <3>5
  <2>6. Len(records') <= sync.enc
    BY <1>0, <2>2
  <2> QED
    BY <2>1, <2>2, <2>4, <2>5, <2>6 DEF SeqInv, WrittenInv
<1>4. ASSUME NEW interlaced \in BOOLEAN, TelecinedFrame(interlaced) PROVE WrittenInv'
  <2>1. PICK n \in {0, 1} : out' = out + n /\ sum' = sum + n
    BY <1>4 DEF TelecinedFrame, Use
  <2>2. /\ records # <<>> /\ sync.pulldown # 0 /\ records' = Tail(records)
        /\ UNCHANGED <<written, sync, total, counted>>
    BY <1>4 DEF TelecinedFrame, demuxVars
  <2>3. /\ Len(records') = Len(records) - 1 /\ Len(records) \in 1..sync.enc
        /\ \A i \in 1..Len(records') : records'[i] = written'[sync'.enc - Len(records') + i]
    BY <2>2, RecordsTail
  <2>4. out' \in Int /\ sum' \in Int /\ sum' - out' = sum - out
    BY <1>0, <2>1
  <2>5. Len(records') <= sync.enc
    BY <1>0, <2>3
  <2> QED
    BY <2>2, <2>3, <2>4, <2>5 DEF SeqInv, WrittenInv
<1> QED
  BY <1>1, <1>2, <1>3, <1>4 DEF Next

\* Initially nothing has been written.
LEMMA SeqInit == Init => SeqInv
<1> SUFFICES ASSUME Init PROVE WrittenInv
  BY LagInit, TelecineInit DEF SeqInv
<1>1. /\ written = <<>> /\ records = <<>> /\ sum = 0
      /\ sync.enc = 0 /\ ~sync.active /\ sync.skipped
  BY DEF Init
<1> QED
  BY <1>1 DEF WrittenInv

\* The invariant of the demultiplexer's corrections holds in every reachable state.
THEOREM SeqSyncInvariant == Spec => []SeqInv
<1>1. SeqInv /\ [Next]_vars => SeqInv'
  BY LagNext, TelecineNext, WrittenNext DEF SeqInv
<1> QED
  BY SeqInit, <1>1, PTL DEF Spec

\* The totals that the next correction of seq_update is computed from are the frames that
\* transcode has used, for every frame rate, every stream and whatever ivtc has found.
THEOREM TotalsAreOutput == Spec => []TotalsMatchOutput
<1>1. SeqInv => TotalsMatchOutput
  <2> SUFFICES ASSUME SeqInv, records = <<>>, ~sync.skipped, counted
               PROVE  sum = total.dec
    BY DEF TotalsMatchOutput
  <2>1. /\ sync.active /\ total.dec = (sum - out) + sync.enc + sync.adj
        /\ sum \in Int /\ sync.enc \in Nat /\ sync.adj \in Int
    BY DEF SeqInv, WrittenInv, TotalsOK
  <2>2. out = sync.enc + sync.adj
    BY <2>1, SequenceOutput
  <2> QED
    BY <2>1, <2>2
<1> QED
  BY <1>1, SeqSyncInvariant, PTL

\* The records of seq_write spread the correction over the sequence: none is used more than
\* once more often than another, and no two frames in a row are dropped.
THEOREM RecordsSpread == Spec => []CorrectionIsSpread
<1>1. SeqInv => CorrectionIsSpread
  <2> SUFFICES ASSUME SeqInv, sync.active
               PROVE  /\ \A i, j \in DOMAIN written : written[i] <= written[j] + 1
                      /\ \A i \in DOMAIN written :
                           written[i] = 0 /\ i < Len(written) => written[i + 1] # 0
    BY DEF CorrectionIsSpread
  <2>1. /\ sync.enc \in Nat \ {0} /\ sync.adj \in Int /\ Spreadable(sync.enc, sync.adj)
        /\ DOMAIN written = 1..sync.enc /\ Len(written) = sync.enc
        /\ \A i \in 1..sync.enc : written[i] = CopiesOf(sync.enc, sync.adj)[i]
    BY DEF SeqInv, WrittenInv, TotalsOK
  <2>2. ASSUME NEW i \in DOMAIN written, NEW j \in DOMAIN written
        PROVE  written[i] <= written[j] + 1
    BY <2>1, CopiesEven
  <2>3. ASSUME NEW i \in DOMAIN written, written[i] = 0, i < Len(written)
        PROVE  written[i + 1] # 0
    <3>1. i \in 1..sync.enc - 1 /\ i + 1 \in 1..sync.enc
      BY <2>1, <2>3
    <3>2. CopiesOf(sync.enc, sync.adj)[i] = 0
      BY <2>1, <2>3
    <3>3. CopiesOf(sync.enc, sync.adj)[i + 1] # 0
      BY <2>1, <3>1, <3>2, DropsApart
    <3> QED
      BY <2>1, <3>1, <3>3
  <2> QED
    BY <2>2, <2>3
<1> QED
  BY <1>1, SeqSyncInvariant, PTL

=============================================================================
