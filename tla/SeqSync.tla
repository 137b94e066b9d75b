-------------------------------- MODULE SeqSync --------------------------------
(***************************************************************************)
(* How often the frames of a program stream are used.  For every MPEG      *)
(* sequence the demultiplexer compares the frames that the clock asks for  *)
(* with the frames it has let through (seq_update of seqinfo.c), drops or  *)
(* clones some of the sequence and writes one record per frame             *)
(* (seq_write).  Where the records say that a sequence has been telecined, *)
(* the inverse telecine of transcode (ivtc.c) picks the frames to drop     *)
(* itself, by looking at the pictures.                                     *)
(*                                                                         *)
(* The list of seqinfo.c never holds more than the registered sequence and *)
(* the one before it: they are id, reset and total.                        *)
(***************************************************************************)
EXTENDS Integers, Sequences, FiniteSets, SequencesExt

CONSTANTS
  FpsNum, FpsDen,   \* fps, as frames per tick of the 90 kHz clock
  Rounding,         \* 1: the product may be rounded below a whole number of frames
  Inputs,           \* [pics, ticks] of the sequences: pictures and presentation time
  MaxSequences      \* bound: the sequences of the stream

ASSUME SeqConstants ==
  /\ FpsNum \in Nat \ {0} /\ FpsDen \in Nat \ {0}
  /\ Rounding \subseteq {0, 1}
  /\ Inputs \subseteq [pics : Nat \ {0}, ticks : Int]
  /\ MaxSequences \in Nat

VARIABLES
  hardFps,     \* hard_fps: no smoothing and no inverse telecine
  active,      \* flag_sync_active: there has been an audio packet
  id, reset,   \* the registered sequence: its number, sync_reset
  total,       \* of the sequence before it: tot_dec_pics, tot_pts, request_pics
  sync,        \* the last sequence written: enc_pics, adj_pics, pulldown, ...
  written,     \* its records: how often each frame is used
  records,     \* those that transcode has not yet read
  frameCtr,    \* pulldown_frame_ctr
  dropCtr,     \* pulldown_drop_ctr
  held,        \* pulldown_buffer_flag: the first frame of an interlaced pair is held
  out,         \* history: the frames used of this sequence
  sum,         \* history: the frames used since the totals began at 0
  counted,     \* history: all sequences since then were in sync
  steady       \* history: none of them was too long to be corrected

demuxVars == <<hardFps, active, id, reset, total, sync, written, counted, steady>>
ivtcVars  == <<frameCtr, dropCtr, held>>
vars == <<demuxVars, records, ivtcVars, out, sum>>

Nothing == [dec |-> 0, pts |-> 0, request |-> 0]

Init ==
  /\ hardFps \in BOOLEAN /\ active \in BOOLEAN
  /\ id = 0 /\ reset \in BOOLEAN
  /\ total = Nothing
  /\ sync = [enc |-> 0, adj |-> 0, pulldown |-> 0, active |-> FALSE, skipped |-> TRUE]
  /\ written = <<>> /\ records = <<>>
  /\ frameCtr = 0 /\ dropCtr = 0 /\ held = FALSE
  /\ out = 0 /\ sum = 0 /\ counted = TRUE /\ steady = TRUE

-----------------------------------------------------------------------------
(* seq_update and seq_write *)

\* The frames the clock has asked for after t ticks, computed in floating point.
Requested(t, err) == (t * FpsNum - err) \div FpsDen

\* Mutant: a frame is cloned at most once.
LimitedOnce(delay, pics) ==
  IF delay >= pics THEN pics
  ELSE IF -delay >= pics \div 2 THEN -(pics \div 2) ELSE delay

\* The correction of a sequence: at most half of it is dropped, and what is cloned
\* in excess of the sequence is a multiple of it.
Limited(delay, pics) ==
  IF delay >= pics THEN delay - (delay % pics)
  ELSE IF -delay >= pics \div 2 THEN -(pics \div 2) ELSE delay

\* The four shapes of a telecined sequence.
Pulldown(adj, seq) ==
  CASE adj = -3 /\ seq = [pics |-> 15, ticks |-> 45045] -> 1
    [] adj = -4 /\ seq = [pics |-> 15, ticks |-> 45045] -> 2
    [] adj = -2 /\ seq = [pics |-> 4,  ticks |-> 6006]  -> 3
    [] adj = -1 /\ seq = [pics |-> 11, ticks |-> 39039] -> 4
    [] OTHER -> 0

\* The smooth drop/copy algorithm.
Smooth(adj) == IF adj \in {-1, 1, 2} THEN 0 ELSE IF adj = 3 THEN 1 ELSE adj

\* Mutant: the dropped frames are the first of the sequence.
CopiesOfFirst(pics, adj) ==
  LET n    == IF adj < 0 THEN -adj ELSE adj
      hits(i) == Cardinality({k \in 1..n : k % pics = i - 1})
  IN  [i \in 1..pics |-> IF adj >= 0 THEN 1 + hits(i) ELSE IF hits(i) = 0 THEN 1 ELSE 0]

\* seq_write: the frames at a distance of inc are dropped or used once more.
CopiesOf(pics, adj) ==
  LET n    == IF adj < 0 THEN -adj ELSE adj
      inc  == IF n = 0 \/ n >= pics THEN 1 ELSE pics \div n
      hits(i) == Cardinality({k \in 1..n : (k * inc) % pics = i - 1})
  IN  [i \in 1..pics |-> IF adj >= 0 THEN 1 + hits(i) ELSE IF hits(i) = 0 THEN 1 ELSE 0]

\* The totals begin at 0 with the first sequence, with a new unit and after a
\* sequence without them.
Restarts == reset \/ id = 0 \/ sync.skipped
Before   == IF Restarts THEN Nothing ELSE total

\* The first sequence and one that the clock went backwards in are not corrected,
\* and have no totals.
Skip(seq) ==
  /\ total' = Nothing
  /\ sync' = [enc |-> seq.pics, adj |-> 0, pulldown |-> 0, active |-> active, skipped |-> TRUE]
  /\ counted' = TRUE /\ steady' = TRUE

Correct(seq, err) ==
  LET pts      == Before.pts + seq.ticks
      request  == Requested(pts, err)
      limited  == Limited(request - Before.dec - seq.pics, seq.pics)
      pulldown == IF hardFps THEN 0 ELSE Pulldown(limited, seq)
      adj      == IF hardFps \/ pulldown # 0 THEN limited ELSE Smooth(limited)
  IN  /\ total' = [dec |-> Before.dec + seq.pics + adj, pts |-> pts, request |-> request]
      /\ sync' = [enc |-> seq.pics, adj |-> adj, pulldown |-> IF active THEN pulldown ELSE 0,
                  active |-> active, skipped |-> FALSE]
      /\ counted' = ((Restarts \/ counted) /\ active)
      /\ steady' = /\ Restarts \/ steady
                   /\ seq.pics - seq.pics \div 2 <= request - Before.request
                   /\ hardFps \/ seq.pics >= 4

\* The demultiplexer meets the next sequence: seq_register for that one, seq_update,
\* seq_flush_thread and seq_write for the one that is complete.
NextSequence ==
  /\ records = <<>> /\ id < MaxSequences
  /\ \E seq \in Inputs, err \in Rounding :
       /\ IF seq.ticks <= 0 \/ id = 0 THEN Skip(seq) ELSE Correct(seq, err)
       /\ written' = [i \in 1..seq.pics |-> IF active THEN CopiesOf(seq.pics, sync'.adj)[i] ELSE 0]
  /\ records' = written'
  /\ id' = id + 1 /\ reset' \in BOOLEAN
  /\ out' = 0
  /\ sum' = IF Restarts THEN 0 ELSE sum
  /\ UNCHANGED <<hardFps, active, ivtcVars>>

\* The first packet of the audio track.
FirstAudio ==
  /\ ~active /\ active' = TRUE
  /\ UNCHANGED <<hardFps, id, reset, total, sync, written, counted, steady, records, ivtcVars,
                 out, sum>>

-----------------------------------------------------------------------------
(* transcode: a frame of get_next_frame, and ivtc *)

Use(n) == out' = out + n /\ sum' = sum + n

\* A frame of a sequence that is not telecined.
PlainFrame ==
  /\ records # <<>> /\ sync.pulldown = 0
  /\ Use(Head(records))
  /\ records' = Tail(records)
  /\ UNCHANGED <<demuxVars, ivtcVars>>

\* The drops that ivtc enforces: <<frame, drops until then>>.
Checkpoints == <<{<<5, 1>>, <<10, 2>>, <<15, 3>>},
                 {<<4, 1>>, <<8, 2>>, <<12, 3>>, <<15, 4>>},
                 {<<2, 1>>, <<4, 2>>},
                 {<<11, 1>>}>>
LastFrame == <<15, 15, 4, 11>>
MustDrop  == <<3, 4, 2, 1>>

\* Mutant: a frame too many is dropped when the pairs are found after a checkpoint.
TelecinedFrameOverDrop(interlaced) ==
  LET pattern == sync.pulldown
      n     == frameCtr + 1
      hold  == interlaced /\ ~held
      drops == dropCtr + (IF hold THEN 1 ELSE 0)
      force == \E c \in Checkpoints[pattern] : n = c[1] /\ drops < c[2]
      all   == drops + (IF force THEN 1 ELSE 0)
  IN  /\ records # <<>> /\ pattern # 0
      /\ records' = Tail(records)
      /\ held' = hold
      /\ frameCtr' = IF n = LastFrame[pattern] THEN 0 ELSE n
      /\ dropCtr' = IF n = LastFrame[pattern] THEN 0 ELSE all
      /\ Use(IF hold \/ force THEN 0 ELSE 1)
      /\ UNCHANGED demuxVars

\* The first frame of an interlaced pair is held and dropped; the demultiplexer's
\* choice is ignored.
TelecinedFrame(interlaced) ==
  LET pattern == sync.pulldown
      n     == frameCtr + 1
      hold  == interlaced /\ ~held
      drops == dropCtr + (IF hold THEN 1 ELSE 0)
      force == \E c \in Checkpoints[pattern] : n = c[1] /\ drops < c[2]
      all   == drops + (IF force THEN 1 ELSE 0)
      over  == all > MustDrop[pattern]
  IN  /\ records # <<>> /\ pattern # 0
      /\ records' = Tail(records)
      /\ held' = hold
      /\ frameCtr' = IF n = LastFrame[pattern] THEN 0 ELSE n
      /\ dropCtr' = IF n = LastFrame[pattern] THEN 0 ELSE IF over THEN all - 1 ELSE all
      /\ Use(IF over \/ ~(hold \/ force) THEN 1 ELSE 0)
      /\ UNCHANGED demuxVars

EndOfStream == records = <<>> /\ id = MaxSequences /\ UNCHANGED vars

Next ==
  \/ NextSequence \/ FirstAudio \/ PlainFrame
  \/ \E interlaced \in BOOLEAN : TelecinedFrame(interlaced)
  \/ EndOfStream

Spec == Init /\ [][Next]_vars

-----------------------------------------------------------------------------
(* Properties *)

TypeOK ==
  /\ hardFps \in BOOLEAN /\ active \in BOOLEAN /\ reset \in BOOLEAN
  /\ id \in 0..MaxSequences
  /\ total \in [dec : Int, pts : Nat, request : Nat]
  /\ sync \in [enc : Nat, adj : Int, pulldown : 0..4, active : BOOLEAN, skipped : BOOLEAN]
  /\ counted \in BOOLEAN /\ steady \in BOOLEAN

\* The totals that the next correction is computed from are the frames that transcode
\* has really used, whatever the inverse telecine found in the pictures: a telecined
\* sequence loses exactly as many frames as seq_update has counted on.
TotalsMatchOutput ==
  (records = <<>> /\ ~sync.skipped /\ counted) => sum = total.dec

\* A correction is spread over the sequence: no frame is used more than once more
\* often than another, and no two frames in a row are dropped.
CorrectionIsSpread ==
  sync.active =>
    /\ \A i, j \in DOMAIN written : written[i] <= written[j] + 1
    /\ \A i \in DOMAIN written : written[i] = 0 /\ i < Len(written) => written[i + 1] # 0

\* The output follows the clock: after a sequence it is behind by at most one frame more
\* than the sequence has, and, if no sequence was too long for a correction by half, it
\* is ahead by at most the one frame that smoothing tolerates.
LagBounded ==
  ~sync.skipped =>
    LET lag == total.request - total.dec
    IN  lag <= sync.enc + 1 /\ (steady => lag >= -1)

=============================================================================
