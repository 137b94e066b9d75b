-------------------------------- MODULE AviFile --------------------------------
(***************************************************************************)
(* An AVI file of avilib: written chunk by chunk with an index that is     *)
(* kept in memory and a second, nested one (OpenDML) that is written       *)
(* whenever the file goes on in a new RIFF list, closed by writing the     *)
(* header and the lengths that were not known, opened again by following   *)
(* those lengths to an index or by looking for the chunks, and read.       *)
(*                                                                         *)
(* A chunk is a record at its position; what is in it is the number of the *)
(* chunk in its stream.  Positions and lengths are those of the code.      *)
(***************************************************************************)
EXTENDS Integers, Sequences, FiniteSets, SequencesExt

CONSTANTS
  HeaderBytes,   \* HEADERBYTES, which include the start of the movi list
  RiffThres,     \* NEW_RIFF_THRES
  Tracks,        \* the audio tracks, 1..n
  Lengths,       \* the lengths of the chunks
  Wants,         \* how many bytes of audio are read at a time
  MaxChunks,     \* bound: the chunks written
  MaxReads       \* bound: the calls that read audio

Video   == 0
Streams == {Video} \cup Tracks

ASSUME AviConstants ==
  /\ IsFiniteSet(Tracks) /\ Tracks = 1..Cardinality(Tracks)
  /\ HeaderBytes \in Nat /\ HeaderBytes % 2 = 0 /\ RiffThres \in Nat
  /\ Lengths \subseteq Nat /\ Wants \subseteq Nat \ {0}

VARIABLES
  mode,       \* "write", "closed", "read", or "failed": it cannot be opened
  file,       \* the chunks behind the header, in the order of the file
  pos,        \* pos: where the next chunk goes
  idx,        \* idx: the entries of idx1
  super,      \* the superindices, <<>> if there is none: base, entries, and where it is written
  isOpendml,
  full,       \* the disk has no room for another frame
  header,     \* what the header says: lengths, and whether there are superindices
  lens,       \* the lengths of the later RIFF lists, in the order of the file
  wrote,      \* history: the lengths of the chunks of a stream whose writing succeeded
  index,      \* video_index and the audio_index of the tracks: [pos, len, tot]
  track,      \* aptr, when the file is read
  posc, posb, \* audio_posc, audio_posb: the chunk and the byte in it
  want,       \* the bytes that AVI_read_audio has still to read
  byte,       \* history: the byte of the track that is due
  reads       \* the calls that read audio

writeVars == <<file, pos, idx, super, isOpendml, full, header, lens, wrote>>
readVars  == <<index, track, posc, posb, want, byte, reads>>
vars == <<mode, writeVars, readVars>>

Even(n) == n + (n % 2)

\* The sums of the first 0, 1, ... numbers of a sequence, and that of all.
Sums(l)  == LET sum[n \in 0..Len(l)] == IF n = 0 THEN 0 ELSE sum[n - 1] + l[n] IN sum
Total(l) == Sums(l)[Len(l)]
LensOf(l) == [i \in DOMAIN l |-> l[i].len]

\* The elements of a sequence at some of its positions.
Pick(l, I) ==
  LET some[n \in 0..Len(l)] ==
        IF n = 0 THEN <<>> ELSE IF n \in I THEN Append(some[n - 1], l[n]) ELSE some[n - 1]
  IN  some[Len(l)]
OfStream(l, s) == Pick(l, {i \in DOMAIN l : l[i].stream = s})
OfTag(l, tag)  == Pick(l, {i \in DOMAIN l : l[i].chunk.tag = tag})

NoHeader == [riffLen |-> 0, moviLen |-> 0, opendml |-> FALSE]

Init ==
  /\ mode = "write" /\ file = <<>> /\ pos = HeaderBytes
  /\ idx = <<>> /\ super = [s \in Streams |-> <<>>] /\ isOpendml = FALSE /\ full = FALSE
  /\ header = NoHeader /\ lens = <<>> /\ wrote = [s \in Streams |-> <<>>]
  /\ index = [s \in Streams |-> <<>>] /\ track = 1 /\ posc = 1 /\ posb = 0
  /\ want = 0 /\ byte = 0 /\ reads = 0

-----------------------------------------------------------------------------
(* Writing.  A file in progress is a record [file, pos, super].            *)

Chunk(tag, len) == [tag |-> tag, len |-> len, stream |-> 0, no |-> 0, base |-> 0, entries |-> <<>>]
DataChunk(s, len, no) == [Chunk("data", len) EXCEPT !.stream = s, !.no = no]
Index(tag, s, base, entries, len) ==
  [Chunk(tag, len) EXCEPT !.stream = s, !.base = base, !.entries = entries]

\* avi_add_chunk: a chunk that does not fit leaves the position.
AddChunk(w, chunk, ok) ==
  IF ok THEN [w EXCEPT !.file = Append(@, [pos |-> w.pos, chunk |-> chunk]),
                       !.pos = @ + 8 + Even(chunk.len)]
        ELSE w

OldIndex(entries) == Index("idx1", Video, 0, entries, 16 * Len(entries))

\* avi_ixnn_entry: the k-th index of a stream that has one goes to the file.
WriteIndex(w, s, k, ok) ==
  IF w.super[s] = <<>> THEN w
  ELSE LET std == w.super[s][k]
       IN  AddChunk([w EXCEPT !.super[s][k].offset = w.pos],
                    Index("ix", s, std.base, std.entries, 24 + 8 * Len(std.entries)), ok)

\* The video's index is written first.
WriteIndices(w, k, ok) ==
  LET done[n \in 0..Cardinality(Streams)] ==
        IF n = 0 THEN w ELSE WriteIndex(done[n - 1], n - 1, k, ok)
  IN  done[Cardinality(Streams)]

Std(base) == [base |-> base, entries |-> <<>>, offset |-> 0]

\* What avi_add_odml_index_entry expects to be written until the file can be closed.
ToWrite(sup, n, len) ==
  LET last(s) == IF sup[s] = <<>> THEN 0 ELSE 32 + 8 * Len(Last(sup[s]).entries)
  IN  Total([i \in 1..Cardinality(Streams) |-> last(i - 1)])
        + (IF Len(sup[Video]) = 1 THEN 16 * n + 8 + HeaderBytes ELSE 0)
        + Even(len) + 8

NeedsRiff(sup, n, len) ==
  sup[Video] # <<>> /\ pos + ToWrite(sup, n, len) > RiffThres * Len(sup[Video])

\* The indices of this RIFF list, the old index after the first one, the next list.
NewRiff(w, entries) ==
  LET k == Len(w.super[Video])
      a == WriteIndices(w, k, TRUE)
      b == IF k = 1 THEN AddChunk(a, OldIndex(entries), TRUE) ELSE a
      c == AddChunk(b, Chunk("RIFF", 16), TRUE)
  IN  [c EXCEPT !.super = [s \in Streams |->
                             IF w.super[s] = <<>> THEN <<>> ELSE Append(@[s], Std(b.pos))]]

\* Mutant: the position is the one before a new list was begun.
EntryOfOldPos(w, s, len) == [off |-> pos - Last(w.super[s]).base + 8, len |-> len]

\* avi_add_odml_index_entry_core: where the chunk that is about to be written will be.
EntryOf(w, s, len) == [off |-> w.pos - Last(w.super[s]).base + 8, len |-> len]

\* AVI_write_frame and AVI_write_audio: both indices, then the chunk, whose entries stay
\* when it does not fit.  A track begins in the first RIFF list, which has a frame, and
\* the disk does not fill up just when a new list is begun.
Write(s, len, ok) ==
  LET entries == IF isOpendml THEN idx ELSE Append(idx, [stream |-> s, pos |-> pos, len |-> len])
      begun   == IF super[s] = <<>> THEN [super EXCEPT ![s] = <<Std(0)>>] ELSE super
      new     == NeedsRiff(begun, Len(entries), len)
      here    == [file |-> file, pos |-> pos, super |-> begun]
      w       == IF new THEN NewRiff(here, entries) ELSE here
      last    == Len(w.super[s])
      v       == AddChunk([w EXCEPT !.super[s][last].entries = Append(@, EntryOf(w, s, len))],
                          DataChunk(s, len, Len(wrote[s]) + 1), ok)
  IN  /\ mode = "write" /\ ~full
      /\ Total([i \in 1..Cardinality(Streams) |-> Len(wrote[i - 1])]) < MaxChunks
      /\ super[s] = <<>> => ~isOpendml
      /\ new => ok /\ super[Video] # <<>>
      /\ idx' = entries /\ file' = v.file /\ pos' = v.pos /\ super' = v.super
      /\ isOpendml' = (isOpendml \/ new)
      /\ full' = ~ok
      /\ wrote' = IF ok THEN [wrote EXCEPT ![s] = Append(@, len)] ELSE wrote
      /\ UNCHANGED <<mode, header, lens, readVars>>

\* Mutant: the index belongs to the list.
FirstMoviLenWhole(next, n) == next - HeaderBytes + 4

\* The length of the first movi list of several, which the old index of n entries follows.
FirstMoviLen(next, n) == next - HeaderBytes + 4 - 16 * n - 8

\* avi_close_output_file: the remaining indices, which may still fit (all or none), the
\* header, the lengths of the other lists.
Close ==
  /\ mode = "write" /\ mode' = "closed"
  /\ \E ok \in IF full THEN BOOLEAN ELSE {TRUE} :
       LET here  == [file |-> file, pos |-> pos, super |-> super]
           lists == Len(super[Video])
           w     == IF isOpendml THEN WriteIndices(here, lists, ok)
                                 ELSE AddChunk(here, OldIndex(idx), ok)
           start(k) == IF k > lists THEN w.pos ELSE super[Video][k].base
       IN  /\ file' = w.file /\ pos' = w.pos /\ super' = w.super
           /\ header' = IF isOpendml
                        THEN [riffLen |-> start(2) - 8, moviLen |-> FirstMoviLen(start(2), Len(idx)),
                              opendml |-> TRUE]
                        ELSE [riffLen |-> w.pos - 8, moviLen |-> pos - HeaderBytes + 4,
                              opendml |-> FALSE]
           /\ lens' = [k \in 1..IF isOpendml THEN lists - 1 ELSE 0 |->
                         LET len == start(k + 2) - start(k + 1) - 8
                         IN  [riff |-> len, movi |-> len - 12]]
  /\ UNCHANGED <<idx, isOpendml, full, wrote, readVars>>

-----------------------------------------------------------------------------
(* Opening: avi_parse_input_file *)

ChunksAt(p) == {file[i].chunk : i \in {j \in DOMAIN file : file[j].pos = p}}
Data        == OfTag(file, "data")

\* The old index, found behind the movi list, is used if its first video entry is right.
IndexBehindMovi ==
  {c \in ChunksAt(HeaderBytes - 4 + Even(header.moviLen)) : c.tag = "idx1"}
FirstVideo(entries) == OfStream(entries, Video)[1]
Trusted(c) ==
  /\ \E e \in Range(c.entries) : e.stream = Video
  /\ \E d \in ChunksAt(FirstVideo(c.entries).pos) :
       d.tag = "data" /\ d.stream = Video /\ d.len = FirstVideo(c.entries).len

\* The nested index: what is not in the file is left out.
EntriesAt(p) ==
  IF ChunksAt(p) = {} THEN <<>>
  ELSE LET c == CHOOSE d \in ChunksAt(p) : TRUE
       IN  [i \in DOMAIN c.entries |-> [pos |-> c.base + c.entries[i].off, len |-> c.entries[i].len]]
Nested(s) == FlattenSeq([k \in DOMAIN super[s] |-> EntriesAt(super[s][k].offset)])

\* The old one, or the result of the search for chunks.
Flat(s, entries) ==
  LET mine == OfStream(entries, s)
  IN  [i \in DOMAIN mine |-> [pos |-> mine[i].pos + 8, len |-> mine[i].len]]
Searched ==
  [i \in DOMAIN Data |-> [stream |-> Data[i].chunk.stream, pos |-> Data[i].pos, len |-> Data[i].chunk.len]]

Found(s) ==
  IF header.opendml THEN Nested(s)
  ELSE IF \E c \in IndexBehindMovi : Trusted(c)
       THEN Flat(s, (CHOOSE c \in IndexBehindMovi : Trusted(c)).entries)
  ELSE Flat(s, Searched)

\* tot: the bytes of the track before a chunk.
WithTotals(l) ==
  [i \in DOMAIN l |-> [pos |-> l[i].pos, len |-> l[i].len, tot |-> Sums(LensOf(l))[i - 1]]]

Open ==
  /\ mode = "closed"
  /\ LET found == [s \in Streams |-> Found(s)]
     IN  IF found[Video] = <<>> THEN mode' = "failed" /\ UNCHANGED index
         ELSE mode' = "read" /\ index' = [s \in Streams |-> WithTotals(found[s])]
  /\ track' \in Tracks
  /\ UNCHANGED <<writeVars, posc, posb, want, byte, reads>>

-----------------------------------------------------------------------------
(* Reading audio *)

chunks == Len(index[track])
Bytes  == Total(LensOf(index[track]))

\* The binary search for a byte between chunks n0 and n1: a pass of its loop, and where
\* it is after so many passes that there is nothing left between them.
Halve(b, r) ==
  LET n == (r.n0 + r.n1) \div 2
  IN  IF r.n0 >= r.n1 - 1 THEN r
      ELSE IF index[track][n + 1].tot > b THEN [r EXCEPT !.n1 = n] ELSE [r EXCEPT !.n0 = n]
Search(b) ==
  LET pass[k \in 0..chunks] == IF k = 0 THEN [n0 |-> 0, n1 |-> chunks] ELSE Halve(b, pass[k - 1])
  IN  pass[chunks].n0

\* AVI_set_audio_position, to a byte that the track has.
SetAudioPosition ==
  /\ mode = "read" /\ want = 0 /\ chunks > 0 /\ reads < MaxReads
  /\ \E b \in 0..Bytes :
       /\ posc' = Search(b) + 1
       /\ posb' = b - index[track][posc'].tot
       /\ byte' = b
  /\ reads' = reads + 1
  /\ UNCHANGED <<mode, writeVars, index, track, want>>

\* AVI_read_audio: a pass of its loop per step, unless the chunks have all been read.
ReadAudio ==
  /\ mode = "read" /\ want = 0 /\ posc <= chunks /\ reads < MaxReads
  /\ want' \in Wants /\ reads' = reads + 1
  /\ UNCHANGED <<mode, writeVars, index, track, posc, posb, byte>>

Left == index[track][posc].len - posb

\* So many bytes more are in the file, of whatever kind, which ends at pos.
InFile(n) == index[track][posc].pos + posb + n <= pos

\* AVI_read_audio_chunk: what is left of a chunk at once.
ReadChunk ==
  /\ mode = "read" /\ want = 0 /\ posc <= chunks /\ reads < MaxReads
  /\ IF Left = 0 \/ InFile(Left)
     THEN posc' = posc + 1 /\ posb' = 0 /\ byte' = byte + Left
     ELSE UNCHANGED <<posc, posb, byte>>
  /\ reads' = reads + 1
  /\ UNCHANGED <<mode, writeVars, index, track, want>>

\* A read that fails ends the call.
ReadPart ==
  /\ mode = "read" /\ want > 0 /\ Left > 0
  /\ LET todo == IF want < Left THEN want ELSE Left
     IN  IF InFile(todo) THEN posb' = posb + todo /\ byte' = byte + todo /\ want' = want - todo
         ELSE want' = 0 /\ UNCHANGED <<posb, byte>>
  /\ UNCHANGED <<mode, writeVars, index, track, posc, reads>>

\* Mutant: the byte in the chunk is kept.
NextChunkKeepsByte ==
  /\ mode = "read" /\ want > 0 /\ Left = 0
  /\ IF posc >= chunks THEN want' = 0 /\ UNCHANGED <<posc, posb>>
     ELSE posc' = posc + 1 /\ UNCHANGED <<posb, want>>
  /\ UNCHANGED <<mode, writeVars, index, track, byte, reads>>

NextChunk ==
  /\ mode = "read" /\ want > 0 /\ Left = 0
  /\ IF posc >= chunks THEN want' = 0 /\ UNCHANGED <<posc, posb>>
     ELSE posc' = posc + 1 /\ posb' = 0 /\ UNCHANGED want
  /\ UNCHANGED <<mode, writeVars, index, track, byte, reads>>

Done == mode \in {"read", "failed"} /\ want = 0 /\ UNCHANGED vars

Next ==
  \/ \E s \in Streams, len \in Lengths, ok \in BOOLEAN : Write(s, len, ok)
  \/ Close \/ Open
  \/ SetAudioPosition \/ ReadAudio \/ ReadPart \/ NextChunk \/ ReadChunk
  \/ Done

Spec == Init /\ [][Next]_vars

-----------------------------------------------------------------------------
(* Properties *)

\* The chunk that an entry of the reader's index leads to: its number, or 0.
Entry(s, e) ==
  LET c == {d \in ChunksAt(e.pos - 8) : d.tag = "data" /\ d.stream = s /\ d.len = e.len}
  IN  IF c = {} THEN 0 ELSE (CHOOSE d \in c : TRUE).no

ReadBack(s) == [i \in DOMAIN index[s] |-> Entry(s, index[s][i])]
Written(s)  == [i \in DOMAIN wrote[s] |-> i]

\* What was written is found again, in order, from either index and from none, in one
\* RIFF list and in several.  A frame that no longer fitted may leave one last entry that
\* leads nowhere (plat_write_data adds the entry first); with several lists, frames of the
\* last one are lost if its index does not fit either.
RoundTrip ==
  /\ mode = "read" =>
       \A s \in Streams :
         /\ ~full => ReadBack(s) = Written(s)
         /\ full => /\ IsPrefix(Written(s), ReadBack(s)) \/ (isOpendml /\ IsPrefix(ReadBack(s), Written(s)))
                    /\ Len(ReadBack(s)) <= Len(Written(s)) + 1
                    /\ \A i \in DOMAIN ReadBack(s) \ DOMAIN Written(s) : ReadBack(s)[i] = 0
  /\ mode = "failed" => wrote[Video] = <<>>

\* The lengths written when the file is closed tile it: each RIFF list ends where the next
\* begins or the file ends, and so does each movi list but the first, behind which the old
\* index lies unless the disk had no room for it.
RiffsTile ==
  mode \in {"closed", "read"} =>
    LET riffs == OfTag(file, "RIFF")
        start(k) == IF k > Len(riffs) THEN pos ELSE riffs[k].pos
        behind == HeaderBytes - 4 + header.moviLen
    IN  /\ 8 + header.riffLen = start(1)
        /\ \/ full /\ behind = start(1)
           \/ \E c \in ChunksAt(behind) : c.tag = "idx1" /\ behind + 8 + c.len = start(1)
        /\ Len(lens) = Len(riffs)
        /\ \A k \in DOMAIN riffs : /\ riffs[k].pos + 8 + lens[k].riff = start(k + 1)
                                   /\ riffs[k].pos + 20 + lens[k].movi = start(k + 1)

\* Audio is read byte after byte, across chunks and after a search: the position in the
\* index is that of the byte that is due.
AudioInOrder ==
  (mode = "read" /\ chunks > 0) =>
    IF posc > chunks THEN byte = Bytes /\ want = 0
    ELSE posb \in 0..index[track][posc].len /\ index[track][posc].tot + posb = byte

=============================================================================
