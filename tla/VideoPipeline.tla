---------------------------- MODULE VideoPipeline ----------------------------
(***************************************************************************)
(* One video stream through transcode: the import loop of decoder.c, the   *)
(* filter threads of frame_threads.c, the encoder loop of encoder.c with   *)
(* the shutdown of transcode.c, and the event thread, around the frame     *)
(* buffer.  FrameBuffer lets every thread call at any time what its layer  *)
(* may call; here each thread calls it where its loop does.                *)
(*                                                                         *)
(* One loop iteration of a thread is several actions: what it reads before *)
(* it takes a lock may have changed when it has the lock.                  *)
(***************************************************************************)
EXTENDS FrameBuffer

CONSTANT EventThread   \* the thread that handles SIGINT and SIGTERM

ASSUME EventThreadIsNew == EventThread \notin Threads

VARIABLES
  pc,           \* where each thread is in its loop
  pool,         \* the filter threads that tc_frame_threads_init has started
  poolRunning,  \* video_threads.running
  dropping,     \* whether some filter marks frames as skipped
  eos,          \* the frames with TC_FRAME_IS_END_OF_STREAM
  encoded,      \* history: the ids of the frames handed to the encoder
  dropped       \* history: the ids of the frames that filters dropped

flow         == <<pool, poolRunning, dropping, eos, encoded, dropped>>
pipelineVars == <<vars, pc, flow>>

PipelineInit ==
  /\ Init
  /\ pool \in SUBSET Workers
  /\ pooled = (pool # {})
  /\ poolRunning = pooled
  /\ dropping \in BOOLEAN
  /\ pc = [t \in Threads \cup {EventThread} |->
             IF t \in Workers \ pool THEN "exit" ELSE "top"]
  /\ eos = {}
  /\ encoded = <<>>
  /\ dropped = {}

Goto(t, label) == pc' = [pc EXCEPT ![t] = label]

\* Where a claiming function leaves t: asleep in it, with a frame, or without.
Claimed(t, frame, null) ==
  IF ~Awake(t)' THEN pc[t] ELSE IF ptr'[t] # NoFrame THEN frame ELSE null

-----------------------------------------------------------------------------
(* The import loop. *)

ImportTop ==
  /\ pc[Importer] = "top"
  /\ Goto(Importer, IF running /\ importing THEN "register" ELSE "exit")
  /\ UNCHANGED <<vars, flow>>

ImportRegister ==
  /\ pc[Importer] = "register"
  /\ Register
  /\ Goto(Importer, Claimed(Importer, "fill", "exit"))
  /\ UNCHANGED flow

\* A frame has been read and filtered.  Bound: the stream ends at id MaxId.
ImportPush ==
  /\ pc[Importer] = "fill" /\ frameCount < MaxId
  /\ \E new \in {"WAIT", "READY"} : PushImported(new)
  /\ frameCount' = frameCount + 1
  /\ Goto(Importer, "top")
  /\ UNCHANGED flow

\* Mutant: the import loop does not end with the stream.
ImportPushEosGoesOn ==
  /\ pc[Importer] = "fill"
  /\ \E new \in {"WAIT", "READY"} : PushImported(new)
  /\ frameCount' = frameCount
  /\ eos' = eos \cup {ptr[Importer]}
  /\ Goto(Importer, "top")
  /\ UNCHANGED <<pool, poolRunning, dropping, encoded, dropped>>

\* The read failed: the frame only carries the end of the stream.
ImportPushEos ==
  /\ pc[Importer] = "fill"
  /\ \E new \in {"WAIT", "READY"} : PushImported(new)
  /\ frameCount' = frameCount
  /\ eos' = eos \cup {ptr[Importer]}
  /\ Goto(Importer, "exit")
  /\ UNCHANGED <<pool, poolRunning, dropping, encoded, dropped>>

Import == ImportTop \/ ImportRegister \/ ImportPush \/ ImportPushEos

-----------------------------------------------------------------------------
(* The filter threads. *)

WorkerTop(w) ==
  /\ pc[w] = "top"
  /\ Goto(w, IF running /\ poolRunning THEN "reserve" ELSE "exit")
  /\ UNCHANGED <<vars, flow>>

WorkerReserve(w) ==
  /\ pc[w] = "reserve"
  /\ Reserve(w)
  /\ Goto(w, Claimed(w, "got", "quit"))
  /\ UNCHANGED flow

WorkerQuit(w) ==
  /\ pc[w] = "quit"
  /\ poolRunning' = FALSE
  /\ Goto(w, "exit")
  /\ UNCHANGED <<vars, pool, dropping, eos, encoded, dropped>>

\* The thread that gets the end of the stream stops the pool.
WorkerGot(w) ==
  /\ pc[w] = "got"
  /\ poolRunning' = (poolRunning /\ ptr[w] \notin eos)
  /\ Goto(w, "filter")
  /\ UNCHANGED <<vars, pool, dropping, eos, encoded, dropped>>

WorkerDrop(w) ==
  /\ pc[w] = "filter" /\ dropping /\ ptr[w] \notin eos
  /\ RemoveFrame(w)
  /\ dropped' = dropped \cup {id[ptr[w]]}
  /\ Goto(w, "top")
  /\ UNCHANGED <<pool, poolRunning, dropping, eos, encoded>>

WorkerPush(w) ==
  /\ pc[w] = "filter"
  /\ PushFiltered(w)
  /\ Goto(w, "top")
  /\ UNCHANGED flow

Worker(w) ==
  \/ WorkerTop(w) \/ WorkerReserve(w) \/ WorkerQuit(w)
  \/ WorkerGot(w) \/ WorkerDrop(w) \/ WorkerPush(w)

-----------------------------------------------------------------------------
(* The encoder loop. *)

\* need_stop, but for the error of the previous round.
EncodeTop ==
  /\ pc[Exporter] = "top"
  /\ Goto(Exporter, IF running /\ (importing \/ chain # <<>>) THEN "retrieve" ELSE "stop")
  /\ UNCHANGED <<vars, flow>>

EncodeRetrieve ==
  /\ pc[Exporter] = "retrieve"
  /\ Retrieve
  /\ Goto(Exporter, Claimed(Exporter, "got", "stop"))
  /\ UNCHANGED flow

\* The loop ends at the end of the stream and keeps that frame.
EncodeEos ==
  /\ pc[Exporter] = "got" /\ ptr[Exporter] \in eos
  /\ Goto(Exporter, "stop")
  /\ UNCHANGED <<vars, flow>>

EncodeDrop ==
  /\ pc[Exporter] = "got" /\ dropping /\ ptr[Exporter] \notin eos
  /\ RemoveFrame(Exporter)
  /\ dropped' = dropped \cup {id[ptr[Exporter]]}
  /\ Goto(Exporter, "retrieve")
  /\ UNCHANGED <<pool, poolRunning, dropping, eos, encoded>>

\* The frame is encoded, or fails to and ends the loop, and is disposed of.
EncodeFrame ==
  /\ pc[Exporter] = "got" /\ ptr[Exporter] \notin eos
  /\ RemoveFrame(Exporter)
  /\ encoded' = Append(encoded, id[ptr[Exporter]])
  /\ \E label \in {"top", "stop"} : Goto(Exporter, label)
  /\ UNCHANGED <<pool, poolRunning, dropping, eos, dropped>>

-----------------------------------------------------------------------------
(* Shutdown by the main thread: tc_stop_all, tc_import_threads_cancel and *)
(* tc_frame_threads_close.                                                 *)

Stop ==
  /\ pc[Exporter] = "stop"
  /\ ChangeRunning /\ running' = FALSE
  /\ Goto(Exporter, "interrupt")
  /\ UNCHANGED flow

Interrupt ==
  /\ pc[Exporter] = "interrupt"
  /\ InterruptAll
  /\ Goto(Exporter, "cancel")
  /\ UNCHANGED flow

\* Mutant: the active flag of the import thread is not cleared.
CancelWithoutFlag ==
  /\ pc[Exporter] = "cancel"
  /\ Goto(Exporter, "wake import")
  /\ UNCHANGED <<vars, flow>>

Cancel ==
  /\ pc[Exporter] = "cancel"
  /\ ChangeImporting /\ importing' = FALSE
  /\ Goto(Exporter, "wake import")
  /\ UNCHANGED flow

WakeImport ==
  /\ pc[Exporter] = "wake import"
  /\ InterruptImport
  /\ Goto(Exporter, "join import")
  /\ UNCHANGED flow

JoinImport ==
  /\ pc[Exporter] = "join import" /\ pc[Importer] = "exit"
  /\ Goto(Exporter, IF pooled THEN "close pool" ELSE "end")
  /\ UNCHANGED <<vars, flow>>

ClosePool ==
  /\ pc[Exporter] = "close pool"
  /\ poolRunning' = FALSE
  /\ Goto(Exporter, "join pool")
  /\ UNCHANGED <<vars, pool, dropping, eos, encoded, dropped>>

JoinPool ==
  /\ pc[Exporter] = "join pool" /\ \A w \in pool : pc[w] = "exit"
  /\ Goto(Exporter, "end")
  /\ UNCHANGED <<vars, flow>>

Main ==
  \/ EncodeTop \/ EncodeRetrieve \/ EncodeEos \/ EncodeDrop \/ EncodeFrame
  \/ Stop \/ Interrupt \/ Cancel \/ WakeImport
  \/ JoinImport \/ ClosePool \/ JoinPool

-----------------------------------------------------------------------------
(* The signal handler.  Bound: one signal. *)

SignalStop ==
  /\ pc[EventThread] = "top"
  /\ ChangeRunning /\ running' = FALSE
  /\ Goto(EventThread, "interrupt")
  /\ UNCHANGED flow

SignalInterrupt ==
  /\ pc[EventThread] = "interrupt"
  /\ InterruptAll
  /\ Goto(EventThread, "exit")
  /\ UNCHANGED flow

Spurious == SpuriousWakeup /\ UNCHANGED <<pc, flow>>

-----------------------------------------------------------------------------
PipelineNext ==
  \/ Import
  \/ \E w \in pool : Worker(w)
  \/ Main
  \/ SignalStop \/ SignalInterrupt
  \/ Spurious

\* Threads that can run do run; no signal and no spurious wakeup is owed.
Fairness ==
  /\ WF_pipelineVars(Import)
  /\ \A w \in Workers : WF_pipelineVars(w \in pool /\ Worker(w))
  /\ WF_pipelineVars(Main)
  /\ WF_pipelineVars(SignalInterrupt)

PipelineSpec == PipelineInit /\ [][PipelineNext]_pipelineVars /\ Fairness

-----------------------------------------------------------------------------
(* Correctness. *)

Encoding == pc[Exporter] \in {"top", "retrieve", "got"}

PipelineTypeOK ==
  /\ TypeOK
  /\ pc \in [Threads \cup {EventThread} ->
               {"top", "register", "fill", "reserve", "got", "filter", "quit",
                "retrieve", "stop", "interrupt", "cancel", "wake import",
                "join import", "close pool", "join pool", "end", "exit"}]
  /\ pool \in SUBSET Workers
  /\ poolRunning \in BOOLEAN /\ dropping \in BOOLEAN
  /\ eos \in SUBSET Slots
  /\ encoded \in Seq(Nat)
  /\ dropped \in SUBSET Nat

\* While the program runs, the pool only stops once every frame of the stream
\* has found a filter thread: none is left waiting for a thread that has gone.
PoolStopsLast ==
  running /\ pooled /\ ~poolRunning => \A s \in Slots : status[s] # "WAIT"

\* When the encoder sees the end of the stream, every frame before it has been
\* encoded or dropped by a filter, and nothing is behind it in the buffer.
NothingBehindEos ==
  pc[Exporter] = "got" /\ ptr[Exporter] \in eos =>
    /\ Len(chain) = 1
    /\ 0 .. (id[ptr[Exporter]] - 1) = {encoded[i] : i \in DOMAIN encoded} \cup dropped

\* The threads together keep the promise of FrameFifo.
Fifo == INSTANCE FrameFifo WITH
  queue  <- [i \in DOMAIN chain |-> id[chain[i]]],
  issued <- frameCount + (IF ptr[Importer] # NoFrame THEN 1 ELSE 0)
                       + Cardinality(eos)

FifoImplemented == Fifo!FifoSpec

\* Without a signal the encoder comes to the end of the stream, unless two filter
\* threads drop frames.
StreamEnds ==
  ~dropping \/ Cardinality(pool) < 2
    => <>(~Encoding \/ pc[EventThread] # "top")

\* Whatever the importer is doing when it is cancelled, it can be joined.
ImporterJoined ==
  pc[Exporter] = "cancel" ~> pc[Exporter] \notin {"cancel", "wake import", "join import"}

\* framebuffer.h: after tc_framebuffer_interrupt every frame-claiming function
\* fails.  So the threads that claim frames all come to an end.
ShutdownEnds == pc[Exporter] = "stop" ~> pc[Exporter] = "end"

=============================================================================
