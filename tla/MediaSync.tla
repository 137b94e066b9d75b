------------------------------ MODULE MediaSync ------------------------------
(***************************************************************************)
(* Video and audio together: the two import loops of decoder.c, the        *)
(* encoder loop of encoder.c, which pairs the frames of the two media, the *)
(* frame ranges and the shutdown of transcode_mode_default, and a signal.  *)
(*                                                                         *)
(* There are no filter threads here, so the frame buffer of a medium is a  *)
(* queue (VideoPipeline shows that it is one): its last frame is the one   *)
(* that the importer fills, if it is filling one.  A filter of any stage   *)
(* may mark a frame as skipped or as cloned; what becomes of the marks is  *)
(* decided when the encoder retrieves and disposes of the frame, so that   *)
(* is where they are set here.                                             *)
(*                                                                         *)
(* Left out: frames that the importer marks as skipped between two files   *)
(* of a source, and the cluster case of is_last_frame.  The attributes     *)
(* that the old encoder hands back (OLD_encoder_export) carry the delay    *)
(* only, because no export module of the repository marks a frame as       *)
(* cloned.                                                                 *)
(***************************************************************************)
EXTENDS Integers, Sequences

CONSTANTS
  RingSize,  \* frames in the ring of each medium
  Jobs,      \* bound: the sources and the settings that are looked at
  Repeats    \* bound: how often filters have one frame cloned

Media    == {"video", "audio"}
Threads  == Media \cup {"main", "event"}   \* an import thread is named for its medium

PlanIsSorted(p) ==
  /\ \A i \in DOMAIN p : p[i][1] < p[i][2]
  /\ \A i \in 1 .. Len(p) - 1 : p[i][2] <= p[i + 1][1]

\* The number of frames in the source of each medium, the frame ranges <<first, last>>
\* that are asked for, what the filters of each medium may do to a frame, and whether the
\* video encoder may delay its output.
Settings == [length  : [Media -> Nat],
             plan    : Seq(Nat \X Nat),
             filters : [Media -> SUBSET {"skip", "clone"}],
             delays  : BOOLEAN]

ASSUME MediaConstants ==
  /\ RingSize \in Nat \ {0} /\ Repeats \in Nat
  /\ Jobs \subseteq Settings
  /\ \A j \in Jobs : j.plan # <<>> /\ PlanIsSorted(j.plan)

VARIABLES
  length,    \* the number of frames in the source of each medium
  plan,      \* the ranges asked for
  filters,   \* what the filters may do
  factory,   \* whether a multiplex module was given: the new encoder is used
  delays,    \* whether the video encoder may delay its output
  buffer,    \* per medium the frames of its ring, oldest first
  active,    \* per medium the active flag of its import thread
  imported,  \* per medium vframecount or aframecount
  asleep,    \* the threads in pthread_cond_wait
  woken,     \* the threads that a signal has taken out of it
  status,    \* the run status
  pc,        \* where each thread is
  todo,      \* the ranges that are left, the current one first
  error,     \* encdata.error_flag
  reason,    \* history: why the last encoder loop ended
  shift,     \* tc_get_frames_skipped_cloned: the frames that were cloned
  encoded,   \* history: the pairs of ids handed to the encoders
  lag        \* history: how far marks have put the video ahead of the audio

input  == <<length, plan, filters, factory, delays>>
sync   == <<asleep, woken>>
frames == <<buffer, active, imported>>
loop   == <<todo, error, reason, shift, encoded, lag>>
vars   == <<input, frames, sync, status, pc, loop>>

\* fc_time_contains
InPlan(i) == \E k \in DOMAIN plan : plan[k][1] <= i /\ i < plan[k][2]

\* A frame as it is registered: out is TC_FRAME_IS_OUT_OF_RANGE (MARK_TIME_RANGE), and
\* again, the number of times it has been kept, is above 0 for TC_FRAME_WAS_CLONED.
Frame(i) == [id |-> i, ready |-> FALSE, eos |-> FALSE, out |-> ~InPlan(i),
             skipped |-> FALSE, cloned |-> FALSE, again |-> 0]

Init ==
  /\ \E j \in Jobs : /\ length = j.length /\ plan = j.plan
                    /\ filters = j.filters /\ delays = j.delays
  /\ factory \in BOOLEAN
  /\ buffer = [m \in Media |-> <<>>]
  /\ active = [m \in Media |-> TRUE]
  /\ imported = [m \in Media |-> 0]
  /\ asleep = {} /\ woken = {}
  /\ status = "RUNNING"
  /\ pc = [t \in Threads |-> "top"]
  /\ todo = plan
  /\ error = FALSE /\ reason = "none"
  /\ shift = 0 /\ encoded = <<>> /\ lag = 0

Goto(t, label) == pc' = [pc EXCEPT ![t] = label]

running == status = "RUNNING"

-----------------------------------------------------------------------------
(* Condition variables: an import thread waits for a free frame of its      *)
(* medium, the main thread for the frame of the medium it wants.            *)

Interrupted(t) == t \in woken /\ ~running

Sleep(t)  == asleep' = asleep \cup {t} /\ woken' = woken \ {t}
Return(t) == asleep' = asleep /\ woken' = woken \ {t}
Wake(S)   == asleep' = asleep \ S /\ woken' = woken \cup (asleep \cap S)

\* The main thread sleeps on the export condition of one medium at a time.
Retrieving(m) == IF pc["main"] = m THEN {"main"} ELSE {}

-----------------------------------------------------------------------------
(* The import loops. *)

ImportTop(m) ==
  /\ pc[m] = "top"
  /\ Goto(m, IF running /\ active[m] THEN "register" ELSE "exit")
  /\ UNCHANGED <<input, frames, sync, status, loop>>

Full(m) == Len(buffer[m]) = RingSize

RegisterWait(m) ==
  /\ ~Interrupted(m) /\ active[m] /\ Full(m)
  /\ Sleep(m)
  /\ UNCHANGED <<pc, buffer>>

RegisterFrame(m) ==
  /\ ~Interrupted(m) /\ ~Full(m)
  /\ buffer' = [buffer EXCEPT ![m] = Append(@, Frame(imported[m]))]
  /\ Return(m)
  /\ Goto(m, "fill")

RegisterNull(m) ==
  /\ Interrupted(m) \/ (~active[m] /\ Full(m))
  /\ Return(m)
  /\ Goto(m, "exit")
  /\ UNCHANGED buffer

ImportRegister(m) ==
  /\ pc[m] = "register" /\ m \notin asleep
  /\ RegisterWait(m) \/ RegisterFrame(m) \/ RegisterNull(m)
  /\ UNCHANGED <<input, active, imported, status, loop>>

\* At the end of the stream the flag replaces all other attributes.
Filled(f, eos) == [f EXCEPT !.ready = TRUE, !.eos = eos, !.out = @ /\ ~eos]

\* Mutant: the encoder is not told.
PushSilently(m, eos) ==
  /\ buffer' = [buffer EXCEPT ![m][Len(buffer[m])] = Filled(@, eos)]
  /\ UNCHANGED sync

\* The filled frame is ready; the encoder is told if it is the oldest.
Push(m, eos) ==
  /\ buffer' = [buffer EXCEPT ![m][Len(buffer[m])] = Filled(@, eos)]
  /\ IF Len(buffer[m]) = 1 THEN Wake(Retrieving(m)) ELSE UNCHANGED sync

ImportPush(m) ==
  /\ pc[m] = "fill" /\ imported[m] < length[m]
  /\ Push(m, FALSE)
  /\ imported' = [imported EXCEPT ![m] = @ + 1]
  /\ Goto(m, "top")
  /\ UNCHANGED <<input, active, status, loop>>

\* The read failed.
ImportPushEos(m) ==
  /\ pc[m] = "fill" /\ imported[m] = length[m]
  /\ Push(m, TRUE)
  /\ Goto(m, "eos")
  /\ UNCHANGED <<input, active, imported, status, loop>>

\* At the end of either stream it is the audio thread that is told to stop.
ImportEnd(m) ==
  /\ pc[m] = "eos"
  /\ active' = [active EXCEPT !["audio"] = FALSE]
  /\ Goto(m, "exit")
  /\ UNCHANGED <<input, buffer, imported, sync, status, loop>>

Import(m) ==
  \/ ImportTop(m) \/ ImportRegister(m)
  \/ ImportPush(m) \/ ImportPushEos(m) \/ ImportEnd(m)

-----------------------------------------------------------------------------
(* The encoder loop. *)

first == Head(todo)[1]
last  == Head(todo)[2]
video == Head(buffer["video"])
audio == Head(buffer["audio"])

\* buffer->frame_id
number == video.id + shift

LoopEnds(why) == Goto("main", "next") /\ reason' = why

\* need_stop reads the run status, the two video flags, aframe_have_more, the
\* active flag of the audio thread and the error of the previous round, in this
\* order.  The video flag is never cleared while the encoder runs.
EncodeTop ==
  /\ pc["main"] = "top"
  /\ IF ~running \/ (buffer["video"] = <<>> /\ ~active["video"])
     THEN LoopEnds("need stop")
     ELSE /\ Goto("main", IF buffer["audio"] = <<>> THEN "audio active" ELSE "error")
          /\ UNCHANGED reason
  /\ UNCHANGED <<input, frames, sync, status, todo, error, shift, encoded, lag>>

EncodeAudioActive ==
  /\ pc["main"] = "audio active"
  /\ IF active["audio"] THEN Goto("main", "error") /\ UNCHANGED reason
                        ELSE LoopEnds("need stop")
  /\ UNCHANGED <<input, frames, sync, status, todo, error, shift, encoded, lag>>

EncodeError ==
  /\ pc["main"] = "error"
  /\ IF error THEN LoopEnds("error") ELSE Goto("main", "video") /\ UNCHANGED reason
  /\ UNCHANGED <<input, frames, sync, status, todo, error, shift, encoded, lag>>

\* The head of a medium's buffer can be retrieved.
HeadReady(m) == buffer[m] # <<>> /\ Head(buffer[m]).ready

RetrieveNull ==
  /\ Interrupted("main")
  /\ Return("main") /\ LoopEnds("interrupted")
  /\ UNCHANGED <<buffer, shift, lag>>

RetrieveWait(m) ==
  /\ ~Interrupted("main") /\ ~HeadReady(m)
  /\ Sleep("main")
  /\ UNCHANGED <<pc, reason, buffer, shift, lag>>

\* What the filters may make of a frame, if it needs processing at all: one that is out of
\* range or carries the end does not (TC_FRAME_NEED_PROCESSING, of a header outside the
\* repository).
May(m, f, mark) ==
  IF mark \in filters[m] /\ ~f.eos /\ ~f.out THEN BOOLEAN ELSE {FALSE}

Mark(f, skip, clone) ==
  [f EXCEPT !.skipped = @ \/ skip, !.cloned = @ \/ (clone /\ f.again < Repeats)]

Filtered(m, f) ==
  {Mark(f, skip, clone) : skip \in May(m, f, "skip"), clone \in May(m, f, "clone")}

\* History: a mark changes the number of rounds that a frame is good for.
Turns(f) == IF f.skipped THEN 0 ELSE IF f.cloned THEN 2 ELSE 1

Marked(m, f, g) ==
  lag' = IF m = "video" THEN lag + Turns(f) - Turns(g) ELSE lag - Turns(f) + Turns(g)

\* A cloned frame is kept for another round.
Again(f) == [f EXCEPT !.cloned = FALSE, !.again = @ + 1]

Counted(m) == shift' = IF m = "video" /\ Head(buffer[m]).again > 0 THEN shift + 1 ELSE shift

RetrieveFrame(m, f, label) ==
  /\ ~f.skipped
  /\ buffer' = [buffer EXCEPT ![m][1] = f]
  /\ Return("main") /\ Goto("main", label)
  /\ UNCHANGED <<reason, shift>>

\* A skipped frame is removed and the next one is retrieved.  An audio frame that is
\* also cloned comes again first, but it is still marked as skipped.  Retrieving, filtering
\* and removing are one step: the importer sees the removal only.
RetrieveSkipped(m, f) ==
  /\ f.skipped
  /\ IF m = "audio" /\ f.cloned
     THEN buffer' = [buffer EXCEPT ![m][1] = Again(f)] /\ Return("main")
     ELSE /\ buffer' = [buffer EXCEPT ![m] = Tail(@)]
          /\ asleep' = asleep \ {m}
          /\ woken' = (woken \cup (asleep \cap {m})) \ {"main"}
  /\ Counted(m)
  /\ UNCHANGED <<pc, reason>>

Retrieve(m, label) ==
  /\ pc["main"] = m /\ "main" \notin asleep
  /\ \/ RetrieveNull
     \/ RetrieveWait(m)
     \/ /\ ~Interrupted("main") /\ HeadReady(m)
        /\ \E f \in Filtered(m, Head(buffer[m])) :
             /\ RetrieveFrame(m, f, label) \/ RetrieveSkipped(m, f)
             /\ Marked(m, Head(buffer[m]), f)
  /\ UNCHANGED <<input, active, imported, status, todo, error, encoded>>

\* is_last_frame: the loop ends, the flags are consumed, and both frames stay.
EncodeLast ==
  /\ pc["main"] = "got" /\ (video.eos \/ audio.eos \/ number = last)
  /\ LoopEnds(IF video.eos \/ audio.eos THEN "eos" ELSE "last frame")
  /\ buffer' = [m \in Media |-> [buffer[m] EXCEPT ![1].eos = FALSE]]
  /\ UNCHANGED <<input, active, imported, sync, status, todo, error, shift, encoded, lag>>

\* Mutants: the flags of the end of a stream are overlooked, the first frame of a range is
\* left out.
BetweenIgnoresEos == pc["main"] = "got" /\ number # last
InRangeOpen       == first < number /\ number < last

Between == pc["main"] = "got" /\ ~(video.eos \/ audio.eos \/ number = last)
InRange == first <= number /\ number < last

\* An encoder or the multiplexer may fail.  The new encoder ends with the rotation,
\* whose result replaces the error flag.
Result == \E failed \in BOOLEAN : error' = (error \/ (failed /\ ~factory))

\* The marks of the frames at hand count from the next round on.
EncodeExport ==
  /\ Between /\ InRange
  /\ encoded' = Append(encoded, [v |-> video.id, a |-> audio.id, again |-> video.again,
                                  lag |-> lag + Turns(video) - Turns(audio)])
  /\ Result
  /\ Goto("main", "dispose video")
  /\ UNCHANGED <<input, frames, sync, status, todo, reason, shift, lag>>

\* The video encoder keeps the frame, and the audio frame has to come again.
EncodeDelayed ==
  /\ Between /\ InRange /\ delays
  /\ buffer' = [buffer EXCEPT !["audio"][1].cloned = TRUE]
  /\ Marked("audio", audio, [audio EXCEPT !.cloned = TRUE])
  /\ Result
  /\ Goto("main", "dispose video")
  /\ UNCHANGED <<input, active, imported, sync, status, todo, reason, shift, encoded>>

EncodeSkip ==
  /\ Between /\ ~InRange
  /\ buffer' = [m \in Media |-> [buffer[m] EXCEPT ![1].out = TRUE]]
  /\ Goto("main", "dispose video")
  /\ UNCHANGED <<input, active, imported, sync, status, loop>>

\* Mutant: a frame that was marked as cloned is removed all the same.
DisposeAlways(m, here, label) ==
  /\ pc["main"] = here
  /\ buffer' = [buffer EXCEPT ![m] = Tail(@)] /\ Wake({m})
  /\ Counted(m)
  /\ Goto("main", label)
  /\ UNCHANGED <<input, active, imported, status, todo, error, reason, encoded, lag>>

\* A cloned frame stays for the next round, any other makes room.
Dispose(m, here, label) ==
  /\ pc["main"] = here
  /\ IF Head(buffer[m]).cloned
     THEN buffer' = [buffer EXCEPT ![m][1] = Again(@)] /\ UNCHANGED sync
     ELSE buffer' = [buffer EXCEPT ![m] = Tail(@)] /\ Wake({m})
  /\ Counted(m)
  /\ Goto("main", label)
  /\ UNCHANGED <<input, active, imported, status, todo, error, reason, encoded, lag>>

Encode ==
  \/ EncodeTop \/ EncodeAudioActive \/ EncodeError
  \/ Retrieve("video", "audio") \/ Retrieve("audio", "got")
  \/ EncodeLast \/ EncodeExport \/ EncodeDelayed \/ EncodeSkip
  \/ Dispose("video", "dispose video", "dispose audio")
  \/ Dispose("audio", "dispose audio", "top")

-----------------------------------------------------------------------------
(* transcode_mode_default after an encoder loop. *)

NextRange ==
  /\ pc["main"] = "next"
  /\ IF status = "INTERRUPTED" \/ Len(todo) = 1
     THEN Goto("main", "stop") /\ UNCHANGED <<todo, error>>
     ELSE Goto("main", "top") /\ todo' = Tail(todo) /\ error' = FALSE
  /\ UNCHANGED <<input, frames, sync, status, reason, shift, encoded, lag>>

Stop ==
  /\ pc["main"] = "stop"
  /\ status' = IF running THEN "STOPPED" ELSE status
  /\ Goto("main", "interrupt")
  /\ UNCHANGED <<input, frames, sync, loop>>

InterruptAll(t, label) ==
  /\ pc[t] = "interrupt"
  /\ Wake(asleep)
  /\ Goto(t, label)
  /\ UNCHANGED <<input, frames, status, loop>>

\* Mutant: only the video thread is cancelled.
CancelVideo ==
  /\ pc["main"] = "cancel"
  /\ active' = [active EXCEPT !["video"] = FALSE]
  /\ Goto("main", "wake import")
  /\ UNCHANGED <<input, buffer, imported, sync, status, loop>>

Cancel ==
  /\ pc["main"] = "cancel"
  /\ active' = [m \in Media |-> FALSE]
  /\ Goto("main", "wake import")
  /\ UNCHANGED <<input, buffer, imported, sync, status, loop>>

WakeImport ==
  /\ pc["main"] = "wake import"
  /\ Wake(Media)
  /\ Goto("main", "join")
  /\ UNCHANGED <<input, frames, status, loop>>

Join ==
  /\ pc["main"] = "join" /\ \A m \in Media : pc[m] = "exit"
  /\ Goto("main", "end")
  /\ UNCHANGED <<input, frames, sync, status, loop>>

Main ==
  Encode \/ NextRange \/ Stop \/ InterruptAll("main", "cancel")
  \/ Cancel \/ WakeImport \/ Join

\* The signal handler.  Bound: one signal.
Signal ==
  /\ pc["event"] = "top"
  /\ status' = "INTERRUPTED"
  /\ Goto("event", "interrupt")
  /\ UNCHANGED <<input, frames, sync, loop>>

Next ==
  \/ \E m \in Media : Import(m)
  \/ Main
  \/ Signal \/ InterruptAll("event", "exit")

Fairness ==
  /\ \A m \in Media : WF_vars(Import(m))
  /\ WF_vars(Main)
  /\ WF_vars(InterruptAll("event", "exit"))

Spec == Init /\ [][Next]_vars /\ Fairness

-----------------------------------------------------------------------------
(* Correctness. *)

TypeOK ==
  /\ [length |-> length, plan |-> plan, filters |-> filters, delays |-> delays] \in Jobs
  /\ factory \in BOOLEAN
  /\ \A m \in Media :
       /\ buffer[m] \in Seq([id : Nat, ready : BOOLEAN, eos : BOOLEAN, out : BOOLEAN,
                            skipped : BOOLEAN, cloned : BOOLEAN, again : Nat])
       /\ Len(buffer[m]) <= RingSize
  /\ active \in [Media -> BOOLEAN] /\ imported \in [Media -> Nat]
  /\ asleep \in SUBSET Threads /\ woken \in SUBSET Threads
  /\ status \in {"RUNNING", "STOPPED", "INTERRUPTED"}
  /\ pc \in [Threads ->
               {"top", "register", "fill", "eos", "exit", "audio active", "error", "video",
                "audio", "got", "dispose video", "dispose audio", "next", "stop",
                "interrupt", "cancel", "wake import", "join", "end"}]
  /\ todo # <<>> /\ error \in BOOLEAN
  /\ reason \in {"none", "need stop", "error", "interrupted", "eos", "last frame"}
  /\ encoded \in Seq([v : Nat, a : Nat, again : Nat, lag : Int])
  /\ shift \in Nat /\ lag \in Int

\* Audio and video stay together: each video frame is encoded with the audio frame
\* that is due, whatever ranges were left early and in whatever order the streams came.
\* That is the one of the same number, but for the marks so far: a skipped frame of one
\* medium and a cloned frame of the other, or a delayed video frame, each moves it by one.
InStep == \A i \in DOMAIN encoded : encoded[i].v - encoded[i].a = encoded[i].lag

\* No filter skips or clones frames.
Unmarked == \A m \in Media : filters[m] = {}

\* The plan goes on with a range that begins at id i.
StartsAgain(i) == \E k \in 2 .. Len(plan) : plan[k][1] = i

\* The frames are encoded in order and each at most once, and once more each time that it
\* was kept because it was cloned, although the frame on which a range ends comes again in
\* the next one.  A frame that only carries the end of a stream has lost its flag by then;
\* as long as no filter marks frames it is encoded only when the next range begins exactly
\* where the stream ends, and an audio frame again for each delay from there.
EncodedOnce ==
  \A i \in DOMAIN encoded :
    LET e == encoded[i] IN
    /\ i > 1 => \/ encoded[i - 1].v < e.v
                \/ encoded[i - 1].v = e.v /\ encoded[i - 1].again < e.again
    /\ Unmarked =>
         /\ e.v < length["video"] \/ (e.v = length["video"] /\ StartsAgain(e.v))
         /\ \/ e.a < length["audio"]
            \/ /\ e.a = length["audio"]
               /\ StartsAgain(e.v) \/ (delays /\ \E s \in e.a .. e.v : StartsAgain(s))

\* encoder.h: the first frame of a range is encoded and the last is not.  A range
\* that ended on its last frame has been encoded as a whole, if no filter skips or
\* clones frames (HaltsAtLast shows what happens otherwise) and no frame is delayed.
RangeExact ==
  /\ Unmarked /\ reason = "last frame" /\ pc["main"] = "next" =>
       \A v \in first .. last - 1 :
         delays \/ \E i \in DOMAIN encoded : encoded[i].v = v
  /\ \A i \in DOMAIN encoded : encoded[i].v # last

\* encoder.h: encoding halts when the last frame of the range is acquired.  So no frame
\* behind it gets to the range test.  This does not hold: the number of a frame counts
\* the clones before it, but only when the second copy is disposed of, so the number after
\* a cloned frame is left out, and the test for the last frame is an equality.
HaltsAtLast == pc["main"] = "dispose video" => number < last

\* With one range, an audio stream so much shorter that its end is reached first, no
\* delays, no marks on video frames and no clones of audio frames, the encoder comes to
\* that end, unless a signal stops it.  (Delays, skipped video frames and cloned audio
\* frames use up video without audio; the end of the video may then stop the audio
\* importer before it has told of its own, and the encoder waits for ever.)
AudioIsShort ==
  /\ Len(todo) = 1 /\ length["audio"] + RingSize <= length["video"]
  /\ ~delays /\ filters["video"] = {} /\ "clone" \notin filters["audio"]

ShortAudioEnds ==
  AudioIsShort =>
    <>(pc["main"] \in {"stop", "interrupt", "cancel", "wake import", "join", "end"}
       \/ pc["event"] # "top")

\* Both importers can be joined whatever they are doing when they are cancelled.
ImportersJoined == pc["main"] = "cancel" ~> pc["main"] = "end"

\* encoder.h: the loop halts when the last frame in range is encountered, if some
\* error happens when acquiring frames, or on a stop request.  So without an error
\* and a stop request it leaves no frame of the range behind.  This does not hold:
\* the end of the video stream stops the audio importer, and from then on an audio
\* buffer that is empty for the moment ends the loop.
NoFrameLeftBehind ==
  pc["main"] = "next" /\ running /\ ~error /\ reason = "need stop" =>
    \A i \in DOMAIN buffer["video"] :
      LET f == buffer["video"][i] IN
      ~(f.ready /\ ~f.eos /\ f.id + shift \in first .. last - 1 /\ f.id < length["audio"])

=============================================================================
