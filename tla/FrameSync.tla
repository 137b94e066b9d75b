------------------------------- MODULE FrameSync -------------------------------
(***************************************************************************)
(* The frames of a program stream and the records that say how often each  *)
(* is used.  In the process tcdemux a demultiplexer (demuxer.c) submits    *)
(* packets to a buffer, which a flush thread writes to the decoder's pipe  *)
(* (packets.c), and writes the records of a sequence to a fifo when it     *)
(* meets the next one (seqinfo.c).  In transcode a reader thread drains    *)
(* the fifo into a list (frame_info.c) and the import thread pairs the     *)
(* frames from the pipe with the records of the list (clone.c).            *)
(*                                                                         *)
(* A packet is one picture; tcextract and tcdecode are part of the pipe.   *)
(* How often a frame is used is a choice here and is computed in SeqSync.  *)
(***************************************************************************)
EXTENDS Naturals, Sequences, FiniteSets, SequencesExt

CONSTANTS
  MaxFill,      \* FLUSH_BUFFER_MAX, the packets that may wait for the flush thread
  PipeMax,      \* the frames that fit into the pipes to the import thread
  FifoMax,      \* the records that fit into the fifo
  Sources,      \* the streams: [last, starts], the first pictures of the sequences
  Copies,       \* how often a frame may be used
  MaxSessions   \* bound: how often the source is opened

\* No sequence has more pictures than the buffer and the pipes hold.
SequencesFit(src) ==
  \A p \in 1..src.last :
    p + MaxFill + PipeMax <= src.last => \E q \in 1..MaxFill + PipeMax : p + q \in src.starts

ASSUME SyncConstants ==
  /\ MaxFill \in Nat \ {0} /\ PipeMax \in Nat \ {0} /\ FifoMax \in Nat \ {0}
  /\ MaxSessions \in Nat
  /\ Copies \subseteq Nat
  /\ \A src \in Sources :
       /\ src.last \in Nat /\ 1 \in src.starts /\ src.starts \subseteq 1..src.last
       /\ SequencesFit(src)

VARIABLES
  \* tcdemux
  source,       \* the stream of this session
  packet,       \* the packets read
  demux,        \* where the demultiplexer is
  slot,         \* sbuf_ptr: the status of the packet buffers and the frame in them
  sbufNext,     \* sbuf_next
  packets,      \* the packet list: its buffers, in order
  packFill,     \* pack_fill_ctr
  flush,        \* where the flush thread is
  \* between the processes
  pipe, pipeOpen,   \* the frames on their way to the import thread
  fifo, fifoOpen,   \* the records on their way to the reader thread
  \* transcode: static variables, which survive a session
  infos,        \* the frame_info list
  fillCtr,      \* buffer_fill_ctr
  readFlag,     \* clone_read_thread_flag
  reader,       \* where clone_read_thread is
  cloneCtr,     \* clone_ctr
  fiptr,        \* the record the import thread works with
  frame,        \* the frame in its buffer
  import,       \* where the import thread is
  session,
  log,          \* history: the copies of the frames of this session, as recorded
  delivered,    \* history: the frames of this session handed to transcode
  clean,        \* history: nothing was left over when this session began
  killed        \* history: the helper processes of this session have died

demuxVars == <<source, packet, demux, log>>
packVars  == <<slot, sbufNext, packets, packFill, flush>>
pipeVars  == <<pipe, pipeOpen>>
fifoVars  == <<fifo, fifoOpen>>
infoVars  == <<infos, fillCtr, readFlag, reader>>
cloneVars == <<cloneCtr, fiptr, frame, import, delivered>>
runVars   == <<session, clean, killed>>
vars == <<demuxVars, packVars, pipeVars, fifoVars, infoVars, cloneVars, runVars>>

Slots == 0..MaxFill + 1
Free  == [status |-> "NULL", frame |-> 0]
None  == [session |-> 0, id |-> 0, copies |-> 0, status |-> "EMPTY"]

Ready(s) == [s EXCEPT !.status = "READY"]

Init ==
  /\ source \in Sources /\ packet = 0 /\ demux = "read" /\ log = <<>>
  /\ slot = [k \in Slots |-> Free] /\ sbufNext = 0 /\ packets = <<>>
  /\ packFill = 0 /\ flush = "top"
  /\ pipe = <<>> /\ pipeOpen = TRUE /\ fifo = <<>> /\ fifoOpen = TRUE
  /\ infos = <<>> /\ fillCtr = 0 /\ readFlag = TRUE /\ reader = "register"
  /\ cloneCtr = 0 /\ fiptr = None /\ frame = 0 /\ import = "top" /\ delivered = <<>>
  /\ session = 1 /\ clean = TRUE /\ killed = FALSE

-----------------------------------------------------------------------------
(* The demultiplexer: tcdemux_thread and flush_buffer_write. *)

\* The first packet of a sequence completes the one before it.
ReadPacket ==
  /\ demux = "read" /\ packet < source.last
  /\ packet' = packet + 1
  /\ demux' = IF packet' \in source.starts /\ packet > 0 THEN "records" ELSE "submit"
  /\ UNCHANGED <<source, log, packVars, pipeVars, fifoVars, infoVars, cloneVars, runVars>>

\* seq_write, for one frame.  It blocks while the fifo is full.
WriteRecord ==
  /\ demux = "records" /\ Len(fifo) < FifoMax
  /\ \E c \in Copies :
       /\ fifo' = Append(fifo, c)
       /\ log' = Append(log, c)
  /\ demux' = IF Len(log') = packet - 1 THEN "submit" ELSE "records"
  /\ UNCHANGED <<source, packet, fifoOpen, packVars, pipeVars, infoVars, cloneVars, runVars>>

\* The wait for room in the buffer; a signal of the flush thread leads back here.
AwaitRoom ==
  /\ demux = "submit"
  /\ demux' = IF packFill = MaxFill THEN "asleep" ELSE "register"
  /\ UNCHANGED <<source, packet, log, packVars, pipeVars, fifoVars, infoVars, cloneVars, runVars>>

\* packet_register; the result of sbuf_retrieve is used without a test.
RegisterPacket ==
  /\ demux = "register"
  /\ slot' = [slot EXCEPT ![sbufNext] = [status |-> "EMPTY", frame |-> packet]]
  /\ packets' = Append(packets, sbufNext)
  /\ sbufNext' = (sbufNext + 1) % (MaxFill + 2)
  /\ demux' = "fill"
  /\ UNCHANGED <<source, packet, log, packFill, flush, pipeVars, fifoVars, infoVars, cloneVars, runVars>>

FillPacket ==
  /\ demux = "fill"
  /\ slot' = [slot EXCEPT ![Last(packets)] = Ready(@)]
  /\ demux' = "count"
  /\ UNCHANGED <<source, packet, log, sbufNext, packets, packFill, flush, pipeVars, fifoVars,
                 infoVars, cloneVars, runVars>>

CountPacket ==
  /\ demux = "count"
  /\ packFill' = packFill + 1
  /\ flush' = IF flush = "asleep" THEN "top" ELSE flush
  /\ demux' = "read"
  /\ UNCHANGED <<source, packet, log, slot, sbufNext, packets, pipeVars, fifoVars, infoVars,
                 cloneVars, runVars>>

\* The end of the stream: seq_close.  The last sequence is never completed.
DemuxEof ==
  /\ demux = "read" /\ packet = source.last
  /\ fifoOpen' = FALSE
  /\ demux' = "drain"
  /\ UNCHANGED <<source, packet, log, fifo, packVars, pipeVars, infoVars, cloneVars, runVars>>

\* flush_buffer_close, which polls, and the end of the process.
DemuxExit ==
  /\ demux = "drain" /\ packFill = 0
  /\ demux' = "exit" /\ flush' = "exit"
  /\ pipeOpen' = FALSE
  /\ UNCHANGED <<source, packet, log, slot, sbufNext, packets, packFill, pipe, fifoVars,
                 infoVars, cloneVars, runVars>>

Demux ==
  \/ ReadPacket \/ WriteRecord \/ AwaitRoom \/ RegisterPacket \/ FillPacket
  \/ CountPacket \/ DemuxEof \/ DemuxExit

-----------------------------------------------------------------------------
(* The flush thread: flush_buffer_thread and packet_buffer_flush. *)

\* packet_retrieve: the first packet of the list that is ready.
ReadyPackets == {i \in DOMAIN packets : slot[packets[i]].status = "READY"}
FirstPacket  == Min(ReadyPackets)

FlushTest ==
  /\ flush = "top"
  /\ flush' = IF packFill = 0 THEN "asleep" ELSE "write"
  /\ UNCHANGED <<slot, sbufNext, packets, packFill, demuxVars, pipeVars, fifoVars, infoVars,
                 cloneVars, runVars>>

FlushWrite ==
  /\ flush = "write" /\ Len(pipe) < PipeMax
  /\ pipe' = Append(pipe, slot[packets[FirstPacket]].frame)
  /\ flush' = "remove"
  /\ UNCHANGED <<slot, sbufNext, packets, packFill, pipeOpen, demuxVars, fifoVars, infoVars,
                 cloneVars, runVars>>

\* Mutant: the packet stays linked until the next one is written.
FlushRemoveKeepsSlot ==
  /\ flush = "remove"
  /\ packets' = RemoveAt(packets, FirstPacket)
  /\ slot' = [slot EXCEPT ![packets[FirstPacket]].status = "EMPTY"]
  /\ flush' = "count"
  /\ UNCHANGED <<sbufNext, packFill, demuxVars, pipeVars, fifoVars, infoVars, cloneVars, runVars>>

\* packet_remove and sbuf_release.
FlushRemove ==
  /\ flush = "remove"
  /\ packets' = RemoveAt(packets, FirstPacket)
  /\ slot' = [slot EXCEPT ![packets[FirstPacket]] = Free]
  /\ flush' = "count"
  /\ UNCHANGED <<sbufNext, packFill, demuxVars, pipeVars, fifoVars, infoVars, cloneVars, runVars>>

\* Mutant: the test looks at the counter after it has been decremented.
FlushCountAfter ==
  /\ flush = "count"
  /\ packFill' = packFill - 1
  /\ demux' = IF demux = "asleep" /\ packFill' = MaxFill THEN "submit" ELSE demux
  /\ flush' = "top"
  /\ UNCHANGED <<slot, sbufNext, packets, source, packet, log, pipeVars, fifoVars, infoVars,
                 cloneVars, runVars>>

\* Only the packet that makes room in a full buffer wakes the demultiplexer.
FlushCount ==
  /\ flush = "count"
  /\ packFill' = packFill - 1
  /\ demux' = IF demux = "asleep" /\ packFill = MaxFill THEN "submit" ELSE demux
  /\ flush' = "top"
  /\ UNCHANGED <<slot, sbufNext, packets, source, packet, log, pipeVars, fifoVars, infoVars,
                 cloneVars, runVars>>

Flush == FlushTest \/ FlushWrite \/ FlushRemove \/ FlushCount

\* A helper process dies, and with it the others: what is in the pipes stays
\* readable.
HelpersDie ==
  /\ demux # "exit"
  /\ demux' = "exit" /\ flush' = "exit"
  /\ pipeOpen' = FALSE /\ fifoOpen' = FALSE /\ killed' = TRUE
  /\ UNCHANGED <<source, packet, log, slot, sbufNext, packets, packFill, pipe, fifo, infoVars,
                 cloneVars, session, clean>>

-----------------------------------------------------------------------------
(* The reader thread: clone_read_thread. *)

RecordsRead == Len(log) - Len(fifo)

RegisterInfo ==
  /\ reader = "register"
  /\ infos' = Append(infos, [session |-> session, id |-> RecordsRead, copies |-> 0,
                             status |-> "EMPTY"])
  /\ reader' = "read"
  /\ UNCHANGED <<fillCtr, readFlag, demuxVars, packVars, pipeVars, fifoVars, cloneVars, runVars>>

\* Mutant: the record is counted before it is filled in.
ReadInfoCounted ==
  /\ reader = "read" /\ fifo # <<>>
  /\ infos' = [infos EXCEPT ![Len(infos)].copies = Head(fifo)]
  /\ fifo' = Tail(fifo)
  /\ fillCtr' = fillCtr + 1
  /\ reader' = "ready"
  /\ UNCHANGED <<readFlag, fifoOpen, demuxVars, packVars, pipeVars, cloneVars, runVars>>

ReadInfo ==
  /\ reader = "read" /\ fifo # <<>>
  /\ infos' = [infos EXCEPT ![Len(infos)].copies = Head(fifo)]
  /\ fifo' = Tail(fifo)
  /\ reader' = "ready"
  /\ UNCHANGED <<fillCtr, readFlag, fifoOpen, demuxVars, packVars, pipeVars, cloneVars, runVars>>

\* The end of the log: the flag falls and nobody is told; the record stays EMPTY.
ReadEof ==
  /\ reader = "read" /\ fifo = <<>> /\ ~fifoOpen
  /\ readFlag' = FALSE
  /\ reader' = "exit"
  /\ UNCHANGED <<infos, fillCtr, demuxVars, packVars, pipeVars, fifoVars, cloneVars, runVars>>

InfoReady ==
  /\ reader = "ready"
  /\ infos' = [infos EXCEPT ![Len(infos)] = Ready(@)]
  /\ reader' = "count"
  /\ UNCHANGED <<fillCtr, readFlag, demuxVars, packVars, pipeVars, fifoVars, cloneVars, runVars>>

CountInfo ==
  /\ reader = "count"
  /\ fillCtr' = fillCtr + 1
  /\ import' = IF import = "asleep" THEN "woken" ELSE import
  /\ reader' = "register"
  /\ UNCHANGED <<infos, readFlag, cloneCtr, fiptr, frame, delivered, demuxVars, packVars,
                 pipeVars, fifoVars, runVars>>

Reader == RegisterInfo \/ ReadInfo \/ ReadEof \/ InfoReady \/ CountInfo

-----------------------------------------------------------------------------
(* The import thread: clone_frame, get_next_frame, buffered_p_read. *)

\* frame_info_retrieve: the first record of the list that is ready.
ReadyInfos == {i \in DOMAIN infos : infos[i].status = "READY"}

\* frame_info_remove, for the record the pointer leads to.
RemoveInfo == \E i \in DOMAIN infos : infos[i] = fiptr /\ infos' = RemoveAt(infos, i)

\* A copy of the previous frame is due.
ImportCopy ==
  /\ import = "top" /\ cloneCtr > 0
  /\ cloneCtr' = cloneCtr - 1
  /\ delivered' = Append(delivered, frame)
  /\ UNCHANGED <<fiptr, frame, import, demuxVars, packVars, pipeVars, fifoVars, infoVars, runVars>>

\* Mutant: the end of the log ends the import at once.
ImportTestFlagOnly ==
  /\ import = "next" \/ (import = "top" /\ cloneCtr = 0)
  /\ import' = IF ~readFlag THEN "ended" ELSE IF fillCtr = 0 THEN "asleep" ELSE "retrieve"
  /\ fillCtr' = IF fillCtr = 0 THEN 0 ELSE fillCtr - 1
  /\ UNCHANGED <<infos, readFlag, reader, cloneCtr, fiptr, frame, delivered, demuxVars, packVars,
                 pipeVars, fifoVars, runVars>>

\* The flag is tested once, before the wait.
ImportTest ==
  /\ import = "next" \/ (import = "top" /\ cloneCtr = 0)
  /\ import' = IF fillCtr = 0 /\ ~readFlag THEN "ended"
               ELSE IF fillCtr = 0 THEN "asleep" ELSE "retrieve"
  /\ fillCtr' = IF fillCtr = 0 THEN 0 ELSE fillCtr - 1
  /\ UNCHANGED <<infos, readFlag, reader, cloneCtr, fiptr, frame, delivered, demuxVars, packVars,
                 pipeVars, fifoVars, runVars>>

ImportWoken ==
  /\ import = "woken"
  /\ import' = IF fillCtr = 0 THEN "asleep" ELSE "retrieve"
  /\ fillCtr' = IF fillCtr = 0 THEN 0 ELSE fillCtr - 1
  /\ UNCHANGED <<infos, readFlag, reader, cloneCtr, fiptr, frame, delivered, demuxVars, packVars,
                 pipeVars, fifoVars, runVars>>

ImportRetrieve ==
  /\ import = "retrieve"
  /\ fiptr' = infos[Min(ReadyInfos)]
  /\ import' = "read"
  /\ UNCHANGED <<cloneCtr, frame, delivered, demuxVars, packVars, pipeVars, fifoVars, infoVars,
                 runVars>>

ImportRead ==
  /\ import = "read" /\ pipe # <<>>
  /\ frame' = Head(pipe)
  /\ pipe' = Tail(pipe)
  /\ import' = "remove"
  /\ UNCHANGED <<pipeOpen, cloneCtr, fiptr, delivered, demuxVars, packVars, fifoVars, infoVars,
                 runVars>>

\* There is a record and no frame: the record stays in the list.
ImportReadFails ==
  /\ import = "read" /\ pipe = <<>> /\ ~pipeOpen
  /\ import' = "ended"
  /\ UNCHANGED <<cloneCtr, fiptr, frame, delivered, demuxVars, packVars, pipeVars, fifoVars,
                 infoVars, runVars>>

\* Mutant: the master is not counted among the copies.
ImportFrameExtraCopy ==
  /\ import = "remove"
  /\ RemoveInfo
  /\ fiptr' = None
  /\ import' = IF fiptr.copies = 0 THEN "next" ELSE "top"
  /\ cloneCtr' = IF fiptr.copies > 1 THEN fiptr.copies ELSE cloneCtr
  /\ delivered' = IF fiptr.copies = 0 THEN delivered ELSE Append(delivered, frame)
  /\ UNCHANGED <<frame, fillCtr, readFlag, reader, demuxVars, packVars, pipeVars, fifoVars, runVars>>

\* 0 copies: the frame is dropped and the next one is looked for.
ImportFrame ==
  /\ import = "remove"
  /\ RemoveInfo
  /\ fiptr' = None
  /\ import' = IF fiptr.copies = 0 THEN "next" ELSE "top"
  /\ cloneCtr' = IF fiptr.copies > 1 THEN fiptr.copies - 1 ELSE cloneCtr
  /\ delivered' = IF fiptr.copies = 0 THEN delivered ELSE Append(delivered, frame)
  /\ UNCHANGED <<frame, fillCtr, readFlag, reader, demuxVars, packVars, pipeVars, fifoVars, runVars>>

Import ==
  \/ ImportCopy \/ ImportTest \/ ImportWoken \/ ImportRetrieve \/ ImportRead
  \/ ImportReadFails \/ ImportFrame

\* transcode has its frames, or the import has failed: clone_close cancels the reader,
\* which ends when it reads the next time, and the helpers die with the pipes.
Close ==
  /\ import \in {"top", "ended"}
  /\ import' = "closing"
  /\ UNCHANGED <<cloneCtr, fiptr, frame, delivered, demuxVars, packVars, pipeVars, fifoVars,
                 infoVars, runVars>>

Join ==
  /\ import = "closing" /\ reader \in {"read", "exit"}
  /\ import' = "closed" /\ reader' = "exit" /\ demux' = "exit" /\ flush' = "exit"
  /\ UNCHANGED <<source, packet, log, slot, sbufNext, packets, packFill, pipeVars, fifoVars,
                 infos, fillCtr, readFlag, cloneCtr, fiptr, frame, delivered, runVars>>

\* clone_init for the next unit: new helpers, but the static variables stay.
Open ==
  /\ import = "closed" /\ session < MaxSessions
  /\ session' = session + 1
  /\ clean' = (fillCtr = 0 /\ cloneCtr = 0 /\ ReadyInfos = {})
  /\ killed' = FALSE
  /\ source' \in Sources /\ packet' = 0 /\ demux' = "read" /\ log' = <<>>
  /\ slot' = [k \in Slots |-> Free] /\ sbufNext' = 0 /\ packets' = <<>>
  /\ packFill' = 0 /\ flush' = "top"
  /\ pipe' = <<>> /\ pipeOpen' = TRUE /\ fifo' = <<>> /\ fifoOpen' = TRUE
  /\ readFlag' = TRUE /\ reader' = "register"
  /\ import' = "top" /\ frame' = 0 /\ delivered' = <<>>
  /\ UNCHANGED <<infos, fillCtr, cloneCtr, fiptr>>

\* The import thread sleeps for a record after the end of the log.
Forgotten == import \in {"asleep", "woken"} /\ fillCtr = 0 /\ ~readFlag

\* Where the system stops: every session is over, or the import thread is Forgotten.
Finished == (Forgotten \/ (import = "closed" /\ session = MaxSessions)) /\ UNCHANGED vars

Next == Demux \/ Flush \/ HelpersDie \/ Reader \/ Import \/ Close \/ Join \/ Open \/ Finished

Fairness ==
  /\ WF_vars(Demux) /\ WF_vars(Flush) /\ WF_vars(Reader) /\ WF_vars(Import)
  /\ WF_vars(import = "ended" /\ Close) /\ WF_vars(Join)

Spec == Init /\ [][Next]_vars /\ Fairness

-----------------------------------------------------------------------------
(* Properties *)

\* What transcode should see of the frames with a record.
Expand(copies) ==
  LET out[n \in 0..Len(copies)] ==
        IF n = 0 THEN <<>> ELSE out[n - 1] \o [i \in 1..copies[n] |-> n]
  IN  out[Len(copies)]

\* Every frame is used as often as its own record says, in order, over a fifo, a
\* pipe and two lists: transcode gets a prefix of the frames that the log so far
\* describes.  A session that begins with leftovers of the one before is excluded
\* (clone_close resets neither counter and leaves the list).
OutputFollowsLog == clean => IsPrefix(delivered, Expand(log))

\* The packet buffer that flush_buffer_write takes next, without testing the
\* result, is free, and the flush thread finds a packet whenever it is counted.
PacketSlotFree ==
  /\ demux = "register" => slot[sbufNext] = Free
  /\ flush \in {"write", "remove"} => ReadyPackets # {}

\* Every counted record can be retrieved: buffered_p_read uses the result of
\* frame_info_retrieve without a test, in a first and in any later session.
RecordBehindCounter ==
  fillCtr + (IF import = "retrieve" THEN 1 ELSE 0) + (IF import \in {"read", "remove"} THEN 1 ELSE 0)
    <= Cardinality(ReadyInfos)

\* A session that ends by itself has used every frame before the last sequence.
OnlyLastSequenceMissing ==
  (import = "ended" /\ clean /\ ~killed) =>
    /\ delivered = Expand(log)
    /\ \A p \in source.starts : p <= Len(log) + 1

\* Transcode gets its frames to the end, through all the pipes, and can close the
\* source, also when a helper dies, unless it is Forgotten (nobody signals the end of
\* the log, clone.c:375): no cycle of full and empty pipes stops the threads.
SessionEnds == <>Forgotten \/ []<>(import \in {"closing", "closed", "top"})

=============================================================================
