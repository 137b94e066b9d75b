# Verification of transcode and of the capture screen

The repository is an Android study app, `src/app`, that carries the sources of
transcode 1.1.7 below `src/app/src/main/jni/transcode-1.1.7`. The logic of the
repository that is concurrent, and hard to test, is the core of transcode in its
directory `src/` (short: **T**), the synchronisation of MPEG program streams in `import/`
(**I**), the AVI library (`avilib/avilib.c`, **A**), and one screen of the app,
`VideoCaptureActivity` (short: **V**). This directory holds TLA+ modules of both, TLC
configurations that check them on small instances, and TLAPS proofs.

Run everything in this directory: `tlc -config X.cfg M` for a run of `PROJECT.json`,
`tlapm M.tla` for a proof module.

## 1. Inventory

How a file is transcoded: one **import thread** per medium reads frames into the
**frame buffer** of that medium; **filter threads** take frames out of the middle of it,
send them through the **filter table** and put them back; the main thread, in the
**encoder loop**, takes the oldest video and audio frame, encodes and multiplexes them
and removes them. An **event thread** handles signals and the **control socket**. The
main thread calls the encoder loop for one frame range after the other and then shuts
everything down.

Where the frames of a DVD come from: the process tcdemux reads a program stream. Its
demultiplexer submits the packets to a buffer, from which a **flush thread** writes them to the
pipe of the decoder, and writes one record per frame to a fifo: how often the frame is used so that
the video follows the clock. In transcode a **reader thread** drains the fifo into a list, and the
import thread pairs the frames of the pipe with the records of the list.

| component (code) | state | operations | who calls it | what makes it hard, what is correct |
|---|---|---|---|---|
| frame buffer (`T/framebuffer.c`) | per medium: ring of preallocated frames, list of the frames in use, five counters, three condition variables, one mutex | register, push_next, reserve, dup, retrieve, remove, flush, interrupt | import threads, filter threads, encoder, shutdown | no frame lost, linked twice or owned by two threads; order of decoding kept; counters exact; every sleeper is woken when it can go on |
| filter threads (`T/frame_threads.c`) | pool: thread ids, count, running flag | init, the loop, stop, close | main thread starts and closes; the loops run alone | the pool stops itself at the end of the stream: no frame may be left; close must be able to join |
| decoder (`T/decoder.c`) | per medium: active flag, frame counter, thread, module handle | create, cancel, the two loops, status | main thread; encoder reads the flags | end of one stream against the other; cancel against any position of the loop |
| encoder (`T/encoder.c`, `T/encoder-buffer.c`) | the two current frames, range, error flag, fill flag, rotor | tc_encoder_loop, need_stop, export, skip, is_last_frame, rotation | main thread | pairs of video and audio stay pairs through delays, ranges and early ends |
| run status (`T/encoder-common.c`) | run status under a lock, pause flag, counters | start, stop, interrupt, running, pause | everybody | tested without being held: every test may be stale when it is used |
| main program (`T/transcode.c`) | mode, ranges, event thread | modes, event_handler, shutdown | - | order of the shutdown, signals at any time |
| filter table (`T/filter.c`) | slots: name, id, enabled, entry point; no lock at all | init, fini, process, add, find, remove, enable, disable, configure | filter, import and main threads (process); event thread (the rest); main (fini) | frames meet the right filters, in the state they expect |
| control socket (`T/socket.c`) | connection | load, enable, disable, config, list, ... | event thread | its commands change the filter table while it is in use |
| progress counter, probing, command line | local | sequential | main thread | - |
| transformations (`libtcvideo`, `libtcaudio`, `aclib`) | none | sample arithmetic | filter threads | - |
| frame synchronisation (**I** `clone.c`, `frame_info.c`, `packets.c`, `seqinfo.c`, `demuxer.c`, `ivtc.c`) | packet buffer, list and counter; totals of the last sequence; record list and counter, clone counter; counters of the inverse telecine: all static, across sessions | submit, flush, write records; read records; take a frame, drop it or use it again; open, close | demultiplexer and flush thread of tcdemux, reader thread and import thread of transcode | frames meet their own records over two channels that fill up; helpers die; corrections follow the clock and are really made |
| AVI files (**A**) | position, old index, nested indices, lengths; when read, an index and a position per track | open, write frame or audio, close; open, seek, read audio | import and export modules, tools | both indices lead to the chunks over several RIFF lists and when the disk fills up; lengths fit; reading crosses chunks |
| other containers and codecs (`wavlib`, `import`, `export`, `encode`, `multiplex`, `filter`) | files, codec contexts | plug-ins | the core | the core sees a source that ends, a sink that fails, a filter that drops or clones |
| cluster mode (`pvm3`) | PVM tasks and messages | distribution of work | separate programs | message protocol |
| capture screen (**V**) | camera, recorder, player, flags, views, timer, count | touch, clicks, life cycle, surface callbacks, timer | Android's main thread and a timer thread | the resources are taken and released in any order of callbacks; recordings end |
| other screens, JNI glue | views | layout | main thread | - |

`PROJECT.json` lists every component with its status, and under `hazards` each place
of this code that a test would hardly reach, at its line, with the properties that
cover it.

## 2. The modules

| module | models | lines of code behind it |
|---|---|---|
| `FrameList` | the list of frames in use as a sequence: append, insert behind a frame, unlink | macros `LIST_FRAME_*`, `T/framebuffer.c` 594-707, 777-791 |
| `FrameChain` | the same list with its real pointers, refined to `FrameList` | the same |
| `FrameChainProofs` | its inductive invariant, that it implements `FrameList`, and theorems | |
| `FrameBuffer` (extends `FrameList`) | the frame buffer of one medium: each critical section of the list lock is an action | `T/framebuffer.c` |
| `MCFrameBuffer` | symmetry of the filter threads | |
| `FrameFifo` | abstract: what the encoder may see of a video stream, a queue that may lose dropped frames | |
| `VideoPipeline` (extends `FrameBuffer`) | import loop, filter threads, encoder loop, shutdown, signal for one video stream | `T/decoder.c`, `T/frame_threads.c`, `T/encoder.c`, `T/transcode.c` |
| `VideoPipelineProofs` | the inductive invariants of `FrameBuffer` and `VideoPipeline`, that the pipeline implements `FrameFifo`, and theorems | |
| `MediaSync`, `MCMediaSync` | both media: two import loops, encoder with ranges and delayed frames, shutdown, signal | the same, `T/encoder-buffer.c` |
| `MediaSyncProofs` | its inductive invariant and theorems | |
| `FilterTable` | the filter table, its frame threads, the socket's commands, the unloading | `T/filter.c`, `T/socket.c`, `T/transcode.c` |
| `FilterTableProofs` | its inductive invariants and theorems | |
| `FrameSync`, `MCFrameSync` | four threads of two processes between a program stream and its frames | **I** `packets.c`, `seqinfo.c`, `frame_info.c`, `clone.c`, the calls in `demuxer.c` |
| `FrameSyncProofs` | its inductive invariant and theorems | |
| `SeqSync`, `MCSeqSync` | how often each frame is used: correction of a sequence, its records, inverse telecine | **I** `seqinfo.c`, `ivtc.c`, `clone.c`, the calls in `demuxer.c` |
| `SeqSyncProofs` | its inductive invariants and theorems | |
| `AviFile`, `MCAviFile` | an AVI file written, closed, opened and read | **A** |
| `AviFileProofs` | its inductive invariant and theorems | |
| `VideoCapture` | the capture screen and its timer | **V** |
| `VideoCaptureProofs` | its inductive invariant and theorems | |

**Steps.** Code under a lock is one action; code without a lock is split wherever another
thread can see or change what it has read: `WorkerTop`, `WorkerReserve` and `WorkerGot`
are three, `need_stop` is three (`EncodeTop`, `EncodeAudioActive`, `EncodeError`),
the search of the filter table is one action for the id and one for the enabled flag of
every slot (`ScanId`, `ScanEnabled`), and `mTimeCount++` is a read and a write. Callbacks
of Android run to their end on the main thread and are one action each.

**Condition variables.** A thread in `pthread_cond_wait` is in `asleep`, one that has been
signalled but has not run again in `woken`. A signal takes one sleeper, any of them, a
broadcast all. `FrameBuffer` also has spurious wakeups. The claiming functions look at
`tc_running()` only after a wait, as in the code (`Interrupted`).

**Data.** A frame is its slot, status and id; its contents are left out. A source is the
number of its frames. A filter may drop frames (`dropping`, "skip" in
`MediaSync`), clone them (`cloning`, "clone"), be missing, or reject its options. An encoder may fail, and may delay a video frame.

**History variables** (marked so in the modules) are never read by an action's guard:
`encoded`, `dropped`, `lag`, `reason`, `open`, `inited`, `failed`, `seen`, `owed`, `overtaken`,
`log`, `delivered`, `clean`, `killed` in `FrameSync` (`log` also counts the records written
for `WriteRecord`), `out`, `sum`, `counted`, `steady` in `SeqSync`, `wrote` and `byte` in `AviFile` (where
`wrote` also numbers and bounds the chunks). (`shift` in `MediaSync` is a variable of the program.)

`stale` in the list modules is not in the program either, but it is more than a record: it guards the drop in `FrameChain!Spec`, the unlinking
in `FrameList`, and `RemoveFrame` of a filter thread in `FrameBuffer`. `vframe_remove` has no such test. So everything that is checked and proved
of `FrameBuffer` is about filter threads that drop no frame behind a duplicate, and `ChainIsFramesInUse` and
`ChainSound` say so (`VideoPipeline` has no duplicates, so there the guard is always true); `SpecAnyDrop` of `FrameChain` is without the guard, and there the order that leaks a frame is found (finding 2).

### FrameChain and FrameList

`LIST_FRAME_LINK` inserts a duplicate behind a frame and leaves the `prev` pointer of the
frame after it wrong. `FrameChain` has the pointers and shows what that means: the
sequence operations of `FrameList` are implemented (`ListRefined`, with `PrevIsRight`) as long as nobody unlinks such a frame from inside the list.
What the pointers stand for is `Forward`: the frames on the way from `head` over `next`, for as many steps as there are
frames, so that it is defined whatever the pointers are.
The exporter only unlinks at the head, where it does no harm (`HeadLinkedRight` in
`FrameBuffer`); a filter that drops a frame there loses the duplicate (`UsedIsReachable`, finding 2).

### FrameBuffer

Every thread may call, at any time, what its layer may call: this is the interface that the other threads
rely on, and the strongest environment the code can be in. The invariants: the list links
the frames in use, once, in order (`ChainIsFramesInUse`, `ChainSorted`,
`HeadLinkedRight`); the counters are exact (`StageCountersExact`, `ReserveFindsFrame`);
claims are exclusive and match the status (`ClaimsExclusive`, `ClaimsMatchStatus`); the
importer does not sleep beside a free frame (`ImporterNotStranded`). Filter threads drop a frame only while its `prev` pointer is right
(`RemoveFrame`; see *History variables*).

### VideoPipeline

The threads with their loops. `FifoImplemented` is the refinement: the detailed system,
with the list as `queue`, implements `FrameFifo`. `PoolStopsLast` and `NothingBehindEos`
are about the end of the stream, which stops the pool while other threads still filter;
`StreamEnds` and `ImporterJoined` are liveness.

### MediaSync

`VideoPipeline` shows that a frame buffer is a queue, so here each medium is one, and
the question is about two of them: `InStep`, `EncodedOnce`, `RangeExact`, `ShortAudioEnds`, `ImportersJoined`, and `HaltsAtLast`, which does not hold.

A filter of any stage may mark a frame of either medium as skipped or cloned, also inside the encoder
(`T/encoder-buffer.c` 135-191). `filters` says which marks the filters of a medium use; the filters of the repository that
do are `filter_modfps` (563, 692), `filter_fps` (150) and `filter_slowmo` (112), which clone and skip video frames, `filter_doublefps`
(427), which clones audio frames, and `filter_decimate`, which skips video frames. The marks are set when the encoder has retrieved the
frame (`Filtered`). A skipped frame is removed and the next one retrieved (`RetrieveSkipped`); a cloned one stays for another round when it is disposed of
(`Dispose`), and comes back as one that was cloned (`again`). `shift` is `tc_get_frames_skipped_cloned()`, and the range is tested with `number`, the
id plus the shift, as in `T/encoder-buffer.c:205`.

A video frame is in general not encoded with the audio frame of its number: a skipped or a cloned frame moves the media
against each other, and so does a delayed one. `lag` records by how much each of those decisions does, at the moment
it is made, and `InStep` says that nothing else ever does: ranges left early, ends of streams, the order in which
frames come, the two disposals one after the other. `EncodedOnce` says that frames are encoded in order, and one again only if it was kept
in between because it was cloned. What is encoded of a range, `RangeExact`, is as documented only if no filter skips or
clones and no frame is delayed (`Unmarked`, `delays`); `HaltsAtLast` states what `encoder.h` says, which a cloned
frame breaks (section 4).

A frame that only carries the end of a stream has no data. `is_last_frame` takes its flag and leaves it
in the ring, so that a range that begins there gets it as a picture or as sound; `EncodedOnce`
says exactly when, and that an encoder with delays then gets the sound again for each delay.

### FilterTable

`TableIsPrefix` and `FindsLoaded` are about the table that the event thread changes;
`FramesAfterInit` and `FrameMeetsFilters` about frames that pass it meanwhile without a lock. Both
of the latter exclude histories in which a loaded filter has rejected its options:
`tc_filter_add` then enables the slot it has just freed (`LoadEnable`), and a search that
has read the id before reads the flag after and takes the slot.

### FrameSync

A packet is one picture, and what lies in the pipe between the flush thread and the import thread
(tcextract, tcdecode) is one bounded queue. The two processes share nothing else. Each access to a
shared variable is a step: registering, filling and counting a packet are three, and so are those of a
record. `OutputFollowsLog` and `OnlyLastSequenceMissing` say what transcode gets: every
frame as often as its own record says, in order, and when a session ends by itself everything
but the last sequence, for which tcdemux writes no records. `PacketSlotFree` and
`RecordBehindCounter` are about the two counters that stand for lists: whoever trusts them finds
what they promise. `SessionEnds` is liveness: the four threads and three bounded channels form a
ring, and it never stands still. Static variables survive `Close` and `Open`, as in the
code.

### SeqSync

`FrameSync` leaves open how often a frame is used; `SeqSync` computes it, with the totals that
are carried from sequence to sequence. Floating point appears as a product that may come out just
below a whole number (`Rounding`). What the inverse telecine sees in a picture is any
choice. `TotalsMatchOutput` relates the two processes: the drops that `seq_update` has added to its totals are
those that `ivtc` makes later. `CorrectionIsSpread` is about the arithmetic of
`seq_write`, `LagBounded` about the sum of all corrections.

### AviFile

A file is a sequence of chunks at positions; chunks that hold an index keep its entries. The positions and
lengths are those of the code, its sizes are constants. `RoundTrip` compares what the
reader's index leads to with what was written, over both indices, the search
without one, and a disk that fills up. `RiffsTile` is about the lengths that are written last,
`AudioInOrder` about the position in a track over searches and reads.

### VideoCapture

`RecorderHasCamera`, `CameraOrPlayer`, `ButtonHasCamera` relate camera, recorder, player
and button over all orders of callbacks; `RecordingEnds` is liveness. Android's part is
external: touches and clicks reach a resumed activity with a surface, a surface is taken
from a paused activity and given to a resumed one, clicks are posted behind what is
in the queue and touches are not, an uncaught exception ends the process (`alive`).

## 3. The runs

| run | result | shows |
|---|---|---|
| `FrameBuffer` | passes | 9 invariants of the frame buffer: 3 slots, 2 filter threads, ids 0 and 1, cloning |
| `FrameChain` | passes | the pointers implement the sequence, 4 frames |
| `VideoPipeline` | passes | the threads implement the queue; end of stream, cancelling: 2 slots, 0-2 filter threads, 3 frames, a signal |
| `MediaSync` | passes | pairs, order, ranges and ends: 2 slots per medium, sources of 0 to 3 frames, 1 or 2 ranges, both encoders, delays, frames of either medium skipped and cloned, a signal |
| `FilterTable` | passes | 3 slots, 2 names, 1 frame thread |
| `VideoCapture` | passes | a recording of 3 ticks, 2 timers |
| `FrameSync` | passes | frames and records stay paired, sessions end: buffer of 1, pipe of 1, fifo of 1, streams of 2 and 4 pictures, frames dropped or doubled, helpers die, 2 sessions |
| `SeqSync` | passes | 4 sequences out of 8 shapes, both roundings, with and without smoothing |
| `AviFile` | passes | 5 chunks of 3 streams, up to 3 RIFF lists, 2 reads |
| `FrameBufferExport` | violated | finding 1 |
| `FrameChainDrop` | violated | finding 2 |
| `VideoPipelineShutdown` | violated | finding 3 |

Each property of a passing run has a mutant, an operator beside the one it replaces,
which breaks it.

**Bounds.** Three slots are the fewest in which a frame, its duplicate and another frame
are in the ring together; two slots are full with one frame in work and one waiting,
which is what `VideoPipeline` and `MediaSync` need for the importer to sleep while the
encoder holds a frame. Two filter threads overtake each other. `MaxId` is the
last id of a source: with 2 in `VideoPipeline` a source has one frame more than
its ring, so that the ring wraps; `MCJobs` of `MediaSync` are the cases that matter, not all combinations, which are too many for liveness: without marks, sources of the same length with one and two ranges, with and
without delays, audio that ends before the video by the ring, and audio that fills its ring behind an empty video; with marks, sources of the same length or one frame apart in both orders, with skipping and cloning on
each medium, video cloned against audio skipped, and cloned while others are delayed. (The invariants alone have been checked over all combinations of such marks and lengths, with
one and two ranges, with and without delays, in 7.5 million states; they are theorems anyway.) `Repeats` is 1: a frame is cloned once, and what it is the second time is what it would be the third; in `FrameBuffer` two ids and their duplicates fill the
ring of 3. `MaxWait` stops duplication, which is
otherwise unbounded because the wait counter drifts with it (see below). Two ranges
are the fewest that touch. Three filter slots have one before and one behind a slot that
is freed and reused; `Ids` is larger than the ids that occur. `MaxTime` is 1000 in
the code and only compared with a counter, of which 3 values lie in between. One timer can
be in its last run while the next starts, so there are two. One signal: a second changes
nothing more than the first. In `FrameSync` a sequence fills the packet buffer and the pipe
exactly, every channel of one place is full and empty in turn, and the ring of packet buffers, which has
two places more than may be filled, wraps; the second session starts with what the
first leaves. The sequences of `SeqSync` are the four telecined shapes at 24000/1001 frames per second and
one for each kind of correction; after four of them any two kinds have followed
each other with totals. In `AviFile` the threshold for a new list is scaled down so that the third chunk
may need one; lengths of 0 and an odd number cover empty chunks and padding. The filter threads are symmetric, and symmetry is used in
the runs without liveness only.

**Deadlock** is not checked where the system stops: at the end of the shutdown, after an
uncaught exception in the capture screen, and in the filter table when the program has
ended. `FrameBuffer` and `FrameChain` run on for ever and are checked, and so are `FrameSync`,
`SeqSync` and `AviFile`, whose last step (`Finished`, `EndOfStream`, `Done`) says where they may stop.

**Fairness** is weak fairness of each thread: the operating system runs every thread that
can run, and a mutex is held for a short time. A thread asleep on a condition variable
has no step until it is woken. In the pipelines the event thread is fair only once a signal has come
(`SignalInterrupt`, `InterruptAll`), for nobody has to send one. In `FrameSync` each of the four threads is
fair; nobody has to close the source while frames come, but it is closed when the import has failed. In `VideoCapture` time
passes, timers run and the main thread handles its queue; no fairness is assumed of
the user or the life cycle.

**Conditions in the liveness properties.** `StreamEnds` excludes two filter threads that
drop frames, where finding 1 strikes. `ShortAudioEnds` is for one range, no delays, no skipped or cloned video frames, no cloned
audio frames, and an audio stream shorter by at least the ring: there the end of the audio is always met. Each of the others uses up video without audio,
and the end of the video may then stop the audio importer first. `RecordingEnds`
excludes a `recordStop` in the middle of a timer's run, whose write then undoes the reset
of the counter, so that the next recording is stopped too early or, if the counter has passed
`MAX_TIME`, never. `SessionEnds` excludes an import thread that is `Forgotten`, and streams with a sequence that
does not fit into the buffer and the pipe (`SequencesFit`); both are real, see below.

## 4. The findings

1. `vframe_remove` of a skipped frame at the head does not wake the encoder
   (`T/framebuffer.c:825`), which sleeps although the new head is ready.
2. `LIST_FRAME_LINK` leaves a `prev` pointer stale (`T/framebuffer.c:697`); dropping that
   frame loses the duplicate.
3. `tc_framebuffer_interrupt` leaves no trace (`T/framebuffer.c:78`): a filter thread that
   goes to sleep after it is never woken, and the shutdown waits for it for ever.

Met while modelling, but without a run. In the core:

- `vframe_dup` counts a frame in `wait` that is `LOCKED` (`T/framebuffer.c:764`), and
  `vframe_reserve` returns NULL without an interruption. `ReserveNeverNull` in `FrameBuffer` states the
  opposite, which TLC refutes.
- The end of the video stream stops the audio importer (`T/decoder.c:530`), and the encoder
  ends as soon as the audio buffer is empty for a moment, with frames left (`NoFrameLeftBehind`
  in `MediaSync`, refuted).
- The end of a range is found by an equality (`T/encoder.c:495`) with a number that counts cloned frames, but only when the second
  copy is disposed of (`T/encoder-buffer.c` 205, 325-327). The number after a cloned frame is left out; if it is the last of
  the range, the encoder goes on, throws away what follows, the next range too, and ends with the stream. `encoder.h:274` says that
  encoding halts when the last frame is acquired (`HaltsAtLast` in `MediaSync`, refuted).
- `tc_filter_configure` closes and reopens a filter that frame threads are calling
  (`T/filter.c:482`; `FramesToOpenFilters` in `FilterTable`, refuted).
- `handle_config` (`T/socket.c:323`) returns success when configuring failed and failure when it worked;
  `tc_filter_add` returns 1 and not the id its comment promises, also after a failed INIT.
- A rejected load leaves its freed slot enabled (`T/filter.c:326`), see *FilterTable* above.
- `transcode_fini` unloads filters before the event thread is stopped (`T/transcode.c:2788`);
  the model reaches a call through the missing entry point (`Crash`).
- With two ranges, with delays, skipped video frames or cloned audio frames the encoder can wait for ever for audio that does not come, because the end of
  the video has stopped the audio importer; a signal between `need_stop` and the wait has the same effect.
- A range that begins where a stream ends encodes the frame that carried the end (`SpentInv`, *MediaSync* above).
- A thread that duplicates a frame while the ring is full sleeps for a free frame while it holds the head of
  the list; when it is interrupted there, the macro dereferences NULL (`T/frame_threads.c:123`).
- `error_flag` is overwritten by the rotation (`T/encoder.c:873`).

In the synchronisation of program streams:

- The reader thread signals nobody at the end of the log (`I/clone.c:375`): an import thread that
  waits there sleeps for ever (`Forgotten`).
- A sequence longer than the packet buffer and the pipes stops demultiplexer, flush thread and import thread
  on each other (`I/packets.c:476`), because its records come only with the next sequence.
- The last sequence never gets records, so its frames are never used.
- `clone_close` leaves counters and list (`I/clone.c:282`): if frames were due or records unread,
  the next unit starts with copies of a frame it has not read or pairs its frames with old records. The
  counters of `ivtc` survive a session in the same way.
- `seq_write` has room for 256 pictures of a sequence (`clone[256]`).
- A sequence in which the clock goes backwards is skipped, and the totals begin again
  at 0 behind it: the delay until then is forgotten. With smoothing, sequences of 2 or 3 pictures are never shortened.
- A log that ends within a record is taken as its end; `packet_register` may return NULL and is
  used untested, which the fill counter prevents (`PacketSlotFree`).

In the AVI library:

- The index entries are added before the chunk (`A` 1681). After a failed write the last entry leads
  nowhere and is read back as a chunk; the first new list leaves such an entry in the old
  index. `RoundTrip` allows for one.
- A track whose first chunk comes after the first list has been left gets indices that do not match those of the
  video. More than 32 lists fail (`NR_IXNN_CHUNKS`).
- When the disk is full at closing and some of the nested indices fit but not the first,
  the index of one stream is found where that of another is looked for.
- The position after the last chunk of an OpenDML track reads behind the index (`A` 3121).
- A file that is not closed has a header of zeros and cannot be opened.

In **V**: a failed `prepare` and a short touch take a picture with a camera that is
unlocked or missing; the destroyed surface does not cancel the timer, so that a video starts playing in the
background; a second `recordStop` starts the video again; a camera opened in `onResume`
is kept if the activity is paused before its surface comes.

## 5. What is proved

The theorems hold for every value of the constants that satisfies the named assumption
of the module: `ConstantsOK`, `EventThreadIsNew`, `FilterConstants`, `CaptureConstants`, `SeqConstants`,
`MediaConstants`, `SyncConstants`, `AviConstants`, `FramesOK` (a finite set of frames, and NULL is none of them).

**VideoPipelineProofs, the frame buffer.** `IndInv == TypeOK /\ RingInv /\ ClaimInv /\ WaitInv`. The invariants
are not inductive alone: that the list stays sorted needs to know that no frame in it is
younger than the import counter (`IdsIssued`) and that a duplicate lies beside its
original (`ClonesPaired`); exact counters need exclusive claims, because a push changes
the counters of the status the frame had; that a signal wakes the importer needs that nobody else sleeps on
its condition (`OnlyImporterWaits`). One lemma per operation (`RegisterStep`, ...) rests
on lemmas about the ring search, unlinking and cardinalities. Results: `FrameBufferTypeOK`,
`ChainSound`, `ChainInOrder`, `HeadSound`, `CountersSound`, `ReserveSound`, `ClaimsSound`,
`ClaimsFollowStatus`, `ImporterWakes`.

**FrameChainProofs.** The invariant names a sequence that the pointers stand for (`Holds`): `head` is its first frame,
`next` leads from each frame to the one behind it, `tail` is the last, its frames are those in use, each once, and `prev` is right
at every frame that is not stale. `Walk` over such pointers passes over the sequence and stays at NULL (`WalkOfChain`), so `Forward` is
the sequence (`FramesOfChain`); this is an induction along the way. Then each macro changes the sequence as `FrameList` does
(`RegisterHolds`, `DupHolds`, `RemoveHolds`). Results: `PrevPointersRight`, `UsedFramesReachable`, and the refinement `PointersImplementList`.
`UsedFramesReachable` is about the use without drops behind a duplicate; the run `FrameChainDrop` refutes the same property
without that condition.

**VideoPipelineProofs, the pipeline.** Every step of a loop is a step of `FrameBuffer` or leaves it alone
(`BufferStep`), so that the pipeline implements it (`PipelineUsesBuffer`) and `IndInv` is
at hand. `PipelineInv` adds, in `FlowInv`, that the frame being imported is the last of
the chain with the next id (`FreshIsLast`), that the end of the stream is the last and is claimed
only when nothing else waits (`EosIsLast`), and that every id given out is encoded, dropped or
on its way (`Accounted`); and, in `RunInv`, why a thread has come to an end: the
importer after the end of the stream, a filter thread that got no frame because the program stops.
One lemma says what each kind of step does to the frames (`RegisterFlow`, `RelabelFlow`,
`PushImportedFlow`, `ReleaseFlow`), one for each loop that it keeps `PipelineInv`. Results:
`PoolSound`, `EosSound`, and the refinement `PipelineIsFifo`: registering is `Put`, encoding is
`Take`, a dropped frame is `Drop`, every other step leaves queue, encoded and issued alone.

**MediaSyncProofs.** `MediaInv == General /\ (Unmarked => Plain)`: one part holds whatever the filters do, the other only without marks.
Audio and video stay together because the heads of the two buffers are `lag` apart
(`StepInv`), but for what the marks of the two heads themselves are still good for (`Extra`): a head that is cloned is
due once more, and between the two disposals the video is one round ahead (`Balance`). Only a head can be marked (`MarksInv`).
The ids in a buffer are consecutive up to the import counter (`BufferInv`), so
that what follows a disposed frame, in the ring or not yet read, is one above it. Each pair that has been encoded lies behind the one before
(`Later`) and behind the head that comes next (`Passed`), and below the last frame of its range (`OrderInv`).
Without marks the shift stays 0 (`PlainMarks`), and the encoder does not
pass the last frame of a range (`LimitInv`), so the next range, which begins there or later, finds nothing of
it gone, and what lies between its first frame and the head has been encoded (`CoverInv`). A frame that only carries an end keeps its flag until a range
ends with it, and afterwards lies at the head and not behind the start of the range (`SpentInv`).
`GrowthKeeps` says once what every step of an importer leaves alone; then there is one lemma per step of the
encoder. Results: `AudioVideoInStep`, `EncodedInOrder`, `RangesExact`.

**FilterTableProofs.** First the table: `TableInv == Types /\ TableIsPrefix /\ LoadFillsLast /\
LoadedHasEntry`. A load that is under way is for the first free slot with an id above all
others (`LoadFillsLast`), so that filling the slot extends the prefix and undoing it
removes its last element. That the highest id exists is `GreatestOfSlots`, by the least counterexample over
the number of slots. Results: `TableSafe`, and `LoadedFound`, because names that failed loads leave behind are
behind the prefix. Then the frames: `FrameInv` adds that frames
pass only while the program runs and then no command crashes (`PassesWhileRunning`), that enabled filters
are initialized (`EnabledInited`), and where a search stands (`SearchInv`): every filter
owed to the frame has been called, or is still enabled and either not behind the search
or not lower than what the search has found. Results: `InitFirst`, `NoFilterSkipped`.

**VideoCaptureProofs.** `CaptureInv` adds to the three properties that the button is
visible exactly while nothing is shown (`ButtonMatchesFlags`), that a surface with nothing
shown has a camera (`CameraComesBack`), and that a player or a recorder agrees with the flags
(`ShownOrRecorded`). Results: `RecorderSafe`, `CameraReleasedForPlayer`, `ButtonSafe`.

**FrameSyncProofs.** `IndInv == Types /\ PacketInv /\ PipeInv /\ LogInv /\ InfoInv /\ CleanInv`, one part for each
channel. `PacketInv`: the list of packets is a section of the ring that ends before the next place to be taken, all of it is ready but the
packet that is being filled, all other places are free, and its length is the fill counter, give or take the packet that one of the two threads is about to
count; so a fill counter below the size of the buffer leaves the next place empty. `PipeInv`: the pictures
in the pipe and in the buffer are consecutive, up to the last one submitted. `LogInv`: the records written, those in the fifo, and those of
the list are consecutive pieces of the log. `InfoInv`: the counter of ready records never exceeds them, with the one that a thread is about to
count and the one about to be taken. `CleanInv` holds while nothing has been left over from a session before: the next
picture to be read and the next record to be taken have the same number, and what has been delivered, with the copies that are still due, is the expansion of the
records that have been used; and when a session ends by itself, all have been.
One lemma per part (`PacketNext`, `PipeNext`, ...) has a step for each action that can disturb it. That
`Expand` grows with the log (`ExpandOf`, `ExpandPrefix`) is an induction over its length.
Results: `FrameSyncOutput`, `FrameSyncSlotFree`, `FrameSyncRecords`, `FrameSyncComplete`.

**SeqSyncProofs.** `OutputFollowsClock`: the lag after a sequence is what the limit on corrections
(`LimitedLag`) and smoothing (`SmoothLag`) leave of it. That a short sequence can be corrected
needs that the clock asked for at least half its pictures, which `steady` records and
`TotalsOK` carries over. `TelecineDropsExactly`: the counters of `ivtc` and the records that are left
determine each other (`TelecineInv`), for each of the four patterns and each frame of it (`PatternStep`).
`WrittenInv` is about the records and the output: the records left are the end of what `seq_write` has written, what has come out is what the records before
them say, and the totals are the output of all sequences before plus this one's pictures and correction. That the loop of `seq_write`,
which adds or drops where an accumulator passes the number of pictures, does so as often as it should and
never twice in a row (`ManyHitsEven`, `DropsApart`, `UsedGrows`) is an induction over the pictures. Results: `TotalsAreOutput`, `RecordsSpread`.

**AviFileProofs.** `AviInv` says of a file in progress (`Sound`, for the file, position and superindices that a call passes along):
the chunks lie one behind the other at even positions (`Tiled`); every RIFF list but the first begins where its indices count from and
the old index ends where the second begins (`ListsInv`); the indices of the lists before the last are in the file where the superindices point to (`IxInv`);
and for each stream, the data that lies in the file is what was written, in order, and what the indices say is that, with one entry more, which leads to no
data, only if the disk is full (`StreamInv`). As long as there is one list, the old index says the same (`WriteInv`). One lemma per call says
what it does to a sound file: `BeginIs`, `WriteIndicesIs`, `NewRiffIs`, `AddIs`. Closing turns this into what the reader will meet (`ClosedInv`): every
index chunk is where it is looked for, but for those of the last list if the disk is full, and behind the first movi list there is the old index or
nothing. Then whatever the reader follows, it finds the same entries (`FoundLeads`), and an entry leads to one chunk, because no two are at
one position (`OneAtPosition`, `EntryIs`). While audio is read, the totals are the sums of the lengths before (`Summed`), a pass of the search keeps the byte
between its two chunks and brings them closer (`HalveKeeps`), and every step keeps the position at the byte that is due (`AudioStep`).
Results: `WrittenIsReadBack`, `ListsTileTheFile`, `AudioIsInOrder`. The bounds on chunks and reads are not used; what is assumed
is that the header's length is even, that tracks are numbered, and that lengths are natural numbers (`AviConstants`).

**Induction.** The induction theorems of the library take an operator as a parameter, which the provers cannot
instantiate. Where a recursive definition has to be followed (`Expand`, `Walk`, the greatest id of the filter table, `Sums`, `Pick`, the search), the proof takes the least element of a
set of numbers, which exists because the numbers are well founded (`LeastNatural`, from `WFMin`), and shows that there
cannot be a least counterexample (`SetInduction`).

Every invariant of a passing run and both refinements are theorems.

**Only model-checked:** every liveness property (`StreamEnds`, `ImporterJoined`, `ShortAudioEnds`, `ImportersJoined`,
`SessionEnds`, `RecordingEnds`: the prover has no liveness under fairness and no ENABLED); what the three runs that are
violated show.

The type invariants of `MediaSync`, `FilterTable` and `VideoCapture` are stated for the reader; no run checks them,
and the proofs carry the parts they need (`Types`).

## 6. What is not modelled

- Allocation failures, logging, statistics and `*_fini` of the frame buffer; the dynamic
  buffer build (`STATBUFFER` is the default).
- The rotation of output files, cluster mode, `vob_offset` restarts, the modes avi_split, directory, psu and dvd;
  the import thread that switches between sources.
- In the frame buffer: a filter that drops a frame behind a duplicate (`stale` in `RemoveFrame`), which `FrameChain` has.
- In `MediaSync`: frames that the importer marks as skipped between two files of a source (`T/decoder.c:491`); the cluster case of `is_last_frame`
  (`T/encoder.c:484`); a clone mark that an export module sets (`T/encoder.c` 1213, 1235): those of the repository set
  `TC_FRAME_IS_DELAYED` at most (`export/export_xvid4.c:443`, `encode/encode_xvid.c:368`); a frame that is cloned more than `Repeats` times
  (`filter_fps` and `filter_slowmo` may clone one again that was cloned; the proofs are for every `Repeats`). Retrieving, filtering
  and removing a skipped frame are one step, of which the importer sees the removal. Which frames need processing is defined in
  a header that is not in the repository (`TC_FRAME_NEED_PROCESSING`): here those that are neither out of range nor carry the end.
- Pausing, and the socket's commands that only read or that set parameters of other parts.
- In the synchronisation: finding packets, pictures and time stamps in the stream, the other modes
  of the demultiplexer, a record that is cut off.
- In the AVI library: stream headers, keyframe flags, widths of lengths and offsets (a list is shorter than 2^31),
  index files, files of other programs (their reconstruction, idx1 from the movi list), reads of no bytes and seeks behind the end.
  The model assumes that a list with several streams begins with them all in it, that the first list has a frame, that the disk does
  not fill up just when a new list begins, and that of the indices at closing all fit or none.
- Codecs, other containers, sample and pixel arithmetic; PVM; the command line tools; the
  other screens of the app. They are sequential, or outside what the core sees of them.

Most of the repository's 165,000 lines are of the last kind: tables and arithmetic of codecs, assembler in C,
filters on the pixels of one frame, option parsing and printing. They have no protocol, and a model of them
would repeat the arithmetic. The modules therefore cover a small share of the lines, and most of
the lines where threads, processes, files and sessions meet.

## 7. Plan

Done: the modules above. Next, in this order:

1. `Modes` (composes `VideoPipeline`): restarting the pool and the importers as `transcode_mode_psu`, the directory mode
   and the `vob_offset` restart do, with flush; is a frame of the last unit ever in the next one?
2. `Rotation`: output limits, widths and the error flag (`T/encoder.c` 840-1000), integers with
   their width.
3. `SignalHandler`: the event thread's handler on its own stack and the locks it takes.
4. `SourceSwitch`: the import thread for several sources (`T/decoder.c` 1004-1063).
5. `Cluster`: the PVM message protocol, with an abstract specification of a work queue.

The runs are at 2 slots, 2 or 3 frames, 2 units or files. The number of questions a run can hold is limited
by its time, so a new module takes the place of a run that has told what it can (the three violated ones first).
