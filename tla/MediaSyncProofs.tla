--------------------------- MODULE MediaSyncProofs ---------------------------
(* Proofs that audio and video stay together and that frames and ranges are *)
(* encoded as they should be, for every ring, every length of the two       *)
(* streams, every plan, all marks of filters and every interleaving of the  *)
(* importers, the encoder and a signal.                                     *)
EXTENDS MediaSync, SequenceTheorems, TLAPS

-----------------------------------------------------------------------------
(* The inductive invariant. *)

Labels == {"top", "register", "fill", "eos", "exit", "audio active", "error", "video",
           "audio", "got", "dispose video", "dispose audio", "next", "stop",
           "interrupt", "cancel", "wake import", "join", "end"}

Rec  == [id : Nat, ready : BOOLEAN, eos : BOOLEAN, out : BOOLEAN,
         skipped : BOOLEAN, cloned : BOOLEAN, again : Nat]
Pair == [v : Nat, a : Nat, again : Nat, lag : Int]

Types ==
  /\ buffer \in [Media -> Seq(Rec)] /\ imported \in [Media -> Nat]
  /\ length \in [Media -> Nat] /\ delays \in BOOLEAN
  /\ pc \in [Threads -> Labels] /\ encoded \in Seq(Pair)
  /\ shift \in Nat /\ lag \in Int

\* A range that is left begins where another ends or later, and goes on with a plan.
TodoInv ==
  /\ todo \in Seq(Nat \X Nat) /\ todo # <<>> /\ PlanIsSorted(todo)
  /\ \A k \in 2 .. Len(todo) : StartsAgain(todo[k][1])

\* The frames of a buffer are numbered one by one up to the one that was imported last.
BufferInv(m) ==
  LET b == buffer[m] IN
  /\ imported[m] <= length[m]
  /\ \A i \in 1 .. Len(b) : b[i].id <= length[m]
  /\ \A i \in 1 .. (Len(b) - 1) : b[i + 1].id = b[i].id + 1
  /\ pc[m] \in {"top", "register"} /\ b # <<>> => b[Len(b)].id = imported[m] - 1
  /\ pc[m] = "fill" => /\ b # <<>> /\ b[Len(b)].id = imported[m]
                       /\ b[Len(b)].ready = FALSE

\* What the encoder has retrieved is still there, and is not to be skipped.
Held(m) ==
  buffer[m] # <<>> /\ buffer[m][1].ready = TRUE /\ buffer[m][1].skipped = FALSE

HeldInv ==
  /\ pc["main"] \in {"audio", "got", "dispose video"} => Held("video")
  /\ pc["main"] \in {"got", "dispose video", "dispose audio"} => Held("audio")

\* Only the first frame of a buffer has been through the filters of the encoder.
MarksInv ==
  \A m \in Media : \A i \in 2 .. Len(buffer[m]) :
    buffer[m][i].skipped = FALSE /\ buffer[m][i].cloned = FALSE

\* The next frame that the encoder gets of a medium, if there is another.
More(m) == buffer[m] # <<>> \/ pc[m] \in {"top", "register"}
Pos(m)  == IF buffer[m] = <<>> THEN imported[m] ELSE buffer[m][1].id

\* The rounds that marks have put on the frame at the head, or taken from it.
Extra(m)  == IF buffer[m] = <<>> THEN 0 ELSE Turns(buffer[m][1]) - 1
VideoGone == IF pc["main"] = "dispose audio" THEN 1 ELSE 0
Balance   == lag + Extra("video") - Extra("audio") + VideoGone

\* The heads of the buffers are as far apart as the marks of the frames before them say,
\* but for the marks of the heads and for what is being disposed of.
StepInv == More("video") /\ More("audio") => Pos("video") - Pos("audio") = Balance

\* A pair lies behind the video frame that comes next.
Passed(e) ==
  \/ e.v < Pos("video")
  \/ /\ e.v = Pos("video") /\ buffer["video"] # <<>>
     /\ \/ e.again < buffer["video"][1].again
        \/ e.again = buffer["video"][1].again /\ pc["main"] = "dispose video"

Later(d, e) == d.v < e.v \/ (d.v = e.v /\ d.again < e.again)

OrderInv ==
  /\ InStep
  /\ \A i \in DOMAIN encoded : i > 1 => Later(encoded[i - 1], encoded[i])
  /\ \A i \in DOMAIN encoded : encoded[i].v < last
  /\ More("video") => \A i \in DOMAIN encoded : Passed(encoded[i])

\* Without marks by filters, only the audio frame at hand is kept for another round, and
\* only with delays.
PlainMarks ==
  /\ shift = 0 /\ lag >= 0
  /\ \A m \in Media : \A i \in 1 .. Len(buffer[m]) :
       /\ buffer[m][i].skipped = FALSE
       /\ m = "video" => buffer[m][i].again = 0
       /\ buffer[m][i].cloned = TRUE =>
            /\ m = "audio" /\ i = 1 /\ delays = TRUE
            /\ pc["main"] \in {"dispose video", "dispose audio"}

\* The encoder does not get past the last frame of the range.
LimitInv ==
  /\ \A m \in Media : More(m) => Pos(m) <= last
  /\ pc["main"] = "dispose video" => Pos("video") < last
  /\ pc["main"] \in {"dispose video", "dispose audio"} => Pos("audio") < last

\* A frame that only carries the end of its stream keeps the flag until a range ends
\* with it.
Ended == pc["main"] \in {"next", "stop", "interrupt", "cancel", "wake import", "join", "end"}

Spent(m) ==
  /\ buffer[m] # <<>> /\ buffer[m][1].ready = TRUE
  /\ buffer[m][1].id = length[m] /\ buffer[m][1].eos = FALSE

SpentInv ==
  /\ \A m \in Media : \A i \in 2 .. Len(buffer[m]) :
       buffer[m][i].ready = TRUE /\ buffer[m][i].id = length[m] => buffer[m][i].eos = TRUE
  /\ \A m \in Media :
       Spent(m) => Ended \/ (StartsAgain(first) /\ length[m] <= first)
  /\ Spent("audio") /\ delays = FALSE =>
       Ended \/ pc["main"] = "dispose audio" \/ (More("video") => Pos("video") <= first)

VideoAtHand == IF pc["main"] = "dispose video" THEN 1 ELSE 0

\* What is encoded is a frame of its stream but in the known cases.
Known(e) ==
  /\ e.v < length["video"] \/ (e.v = length["video"] /\ StartsAgain(e.v))
  /\ \/ e.a < length["audio"]
     \/ /\ e.a = length["audio"]
        /\ StartsAgain(e.v) \/ (delays /\ \E s \in e.a .. e.v : StartsAgain(s))

\* What of the range is behind the encoder has been encoded.
CoverInv ==
  /\ \A i \in DOMAIN encoded : Known(encoded[i])
  /\ More("video") /\ delays = FALSE =>
       \A v \in first .. (Pos("video") + VideoAtHand - 1) :
         \E i \in DOMAIN encoded : encoded[i].v = v
  /\ reason = "last frame" /\ pc["main"] = "next" =>
       buffer["video"] # <<>> /\ Pos("video") = last

General ==
  /\ Types /\ TodoInv
  /\ \A m \in Media : BufferInv(m)
  /\ HeldInv /\ MarksInv /\ StepInv /\ OrderInv

Plain == PlainMarks /\ LimitInv /\ SpentInv /\ CoverInv

MediaInv == General /\ (Unmarked => Plain)

-----------------------------------------------------------------------------
(* The importers. *)

\* The threads are different.
LEMMA Cast ==
  /\ "main" \in Threads /\ "event" \in Threads /\ "main" \notin Media /\ "event" \notin Media
  /\ "main" # "event" /\ "video" \in Media /\ "audio" \in Media
  /\ \A m \in Media : m \in Threads /\ m # "main" /\ m # "event"
  /\ \A m \in Media : m = "video" \/ m = "audio"
BY DEF Threads, Media

\* Thread t moves, and leaves the others where they are.
Moves(t) ==
  /\ pc' \in [Threads -> Labels]
  /\ \A u \in Threads : u # t => pc'[u] = pc[u]

LEMMA GotoMoves ==
  ASSUME pc \in [Threads -> Labels], NEW t \in Threads, NEW l \in Labels, Goto(t, l)
  PROVE  Moves(t) /\ pc'[t] = l
BY DEF Goto, Moves

\* An index of a sequence that has grown from x to y.
LEMMA Split ==
  ASSUME NEW x \in Nat, NEW y \in Nat
  PROVE  /\ \A i \in 1 .. y : i \in 1 .. x \/ i \in (x + 1) .. y
         /\ \A i \in 2 .. y : i \in 2 .. x \/ i \in (x + 1) .. y
OBVIOUS

\* What all steps leave alone.
Given == <<length, plan, filters, delays>>

\* What a step may do to the buffer of medium n while the encoder stands still: frames are
\* added behind or become ready, but for a frame that has just carried the end of a stream.
Grows(n) ==
  LET b == buffer[n]
      c == buffer'[n]
  IN  /\ Len(b) <= Len(c)
      /\ \A i \in 1 .. Len(b) :
           /\ c[i].id = b[i].id /\ c[i].cloned = b[i].cloned
           /\ c[i].skipped = b[i].skipped /\ c[i].again = b[i].again
           /\ b[i].ready = TRUE => c[i].ready = TRUE
           /\ c[i].ready = TRUE /\ c[i].id = length[n] /\ c[i].eos = FALSE =>
                b[i].ready = TRUE /\ b[i].eos = FALSE
      /\ \A i \in (Len(b) + 1) .. Len(c) :
           c[i].ready = FALSE /\ c[i].cloned = FALSE /\ c[i].skipped = FALSE /\ c[i].again = 0
      /\ More(n)' => More(n) /\ Pos(n)' = Pos(n)

\* A step of an importer that only lets the buffers grow keeps the invariant.
LEMMA GrowthKeeps ==
  ASSUME MediaInv, Types', \A n \in Media : BufferInv(n)' /\ Grows(n),
         pc'["main"] = pc["main"],
         UNCHANGED <<Given, shift, lag, encoded, todo, reason>>
  PROVE  MediaInv'
<1>0. UNCHANGED <<length, plan, filters, delays>>
  BY DEF Given
<1>1. General /\ Types /\ "video" \in Media /\ "audio" \in Media
  BY Cast DEF MediaInv, General
<1>2. \A n \in Media : /\ Len(buffer[n]) \in Nat /\ Len(buffer'[n]) \in Nat
                       /\ (buffer[n] = <<>> <=> Len(buffer[n]) = 0)
                       /\ (buffer'[n] = <<>> <=> Len(buffer'[n]) = 0)
  <2> SUFFICES ASSUME NEW n \in Media
      PROVE  /\ Len(buffer[n]) \in Nat /\ Len(buffer'[n]) \in Nat
             /\ (buffer[n] = <<>> <=> Len(buffer[n]) = 0)
             /\ (buffer'[n] = <<>> <=> Len(buffer'[n]) = 0)
    OBVIOUS
  <2>1. buffer[n] \in Seq(Rec) /\ buffer'[n] \in Seq(Rec)
    BY <1>1 DEF Types
  <2> QED
    BY <2>1, EmptySeq, LenProperties
<1>3. \A n \in Media : Held(n) => Held(n)'
  BY <1>2 DEF Grows, Held
<1>4. HeldInv'
  BY <1>1, <1>3 DEF General, HeldInv
<1>5. TodoInv'
  BY <1>0, <1>1 DEF General, TodoInv, StartsAgain, PlanIsSorted
<1>6. MarksInv'
  <2> SUFFICES ASSUME NEW n \in Media, NEW i \in 2 .. Len(buffer'[n])
      PROVE  buffer'[n][i].skipped = FALSE /\ buffer'[n][i].cloned = FALSE
    BY DEF MarksInv
  <2>1. CASE i \in 2 .. Len(buffer[n])
    <3>1. i \in 1 .. Len(buffer[n])
      BY <2>1
    <3>2. buffer[n][i].skipped = FALSE /\ buffer[n][i].cloned = FALSE
      BY <1>1, <2>1 DEF General, MarksInv
    <3> QED
      BY <3>1, <3>2 DEF Grows
  <2>2. CASE i \in (Len(buffer[n]) + 1) .. Len(buffer'[n])
    BY <2>2 DEF Grows
  <2> QED
    BY <1>2, <2>1, <2>2, Split
<1>7. \A n \in Media : Extra(n)' = Extra(n)
  <2> SUFFICES ASSUME NEW n \in Media PROVE Extra(n)' = Extra(n)
    OBVIOUS
  <2>1. CASE buffer[n] # <<>>
    <3>1. /\ buffer'[n] # <<>> /\ buffer'[n][1].skipped = buffer[n][1].skipped
          /\ buffer'[n][1].cloned = buffer[n][1].cloned
      BY <2>1, <1>2 DEF Grows
    <3> QED
      BY <2>1, <3>1 DEF Extra, Turns
  <2>2. CASE buffer[n] = <<>> /\ buffer'[n] # <<>>
    <3>1. buffer'[n][1].skipped = FALSE /\ buffer'[n][1].cloned = FALSE
      BY <2>2, <1>2 DEF Grows
    <3>2. Turns(buffer'[n][1]) = 1
      BY <3>1 DEF Turns
    <3> QED
      BY <2>2, <3>2 DEF Extra, Turns
  <2>3. CASE buffer[n] = <<>> /\ buffer'[n] = <<>>
    BY <2>3 DEF Extra
  <2> QED
    BY <2>1, <2>2, <2>3
<1>8. StepInv'
  <2>1. Balance' = Balance
    BY <1>1, <1>7 DEF Balance, VideoGone
  <2> QED
    BY <1>1, <2>1 DEF General, StepInv, Grows
<1>9. OrderInv'
  <2>1. InStep' /\ \A i \in DOMAIN encoded' : i > 1 => Later(encoded'[i - 1], encoded'[i])
    BY <1>1 DEF General, OrderInv, InStep, Later
  <2>2. \A i \in DOMAIN encoded' : encoded'[i].v < last'
    BY <1>1 DEF General, OrderInv, last
  <2>3. ASSUME More("video")', NEW i \in DOMAIN encoded' PROVE Passed(encoded[i])'
    <3>1. Passed(encoded[i]) /\ Pos("video")' = Pos("video")
      BY <1>1, <2>3 DEF General, OrderInv, Grows
    <3>2. buffer["video"] # <<>> =>
            buffer'["video"] # <<>> /\ buffer'["video"][1].again = buffer["video"][1].again
      BY <1>1, <1>2 DEF Grows
    <3> QED
      BY <3>1, <3>2 DEF Passed
  <2> QED
    BY <2>1, <2>2, <2>3 DEF OrderInv, Passed
<1>10. ASSUME Unmarked' PROVE Plain'
  <2>0. Plain
    BY <1>0, <1>10 DEF MediaInv, Unmarked
  <2>1. PlainMarks'
    <3>1. shift' = 0 /\ lag' >= 0 /\ delays' = delays /\ pc'["main"] = pc["main"]
      BY <1>0, <2>0 DEF Plain, PlainMarks
    <3>2. \A n \in Media : \A i \in 1 .. Len(buffer'[n]) :
            /\ buffer'[n][i].skipped = FALSE
            /\ n = "video" => buffer'[n][i].again = 0
            /\ buffer'[n][i].cloned = TRUE =>
                 /\ n = "audio" /\ i = 1 /\ delays = TRUE
                 /\ pc["main"] \in {"dispose video", "dispose audio"}
      <4> SUFFICES ASSUME NEW n \in Media, NEW i \in 1 .. Len(buffer'[n])
          PROVE  /\ buffer'[n][i].skipped = FALSE
                 /\ n = "video" => buffer'[n][i].again = 0
                 /\ buffer'[n][i].cloned = TRUE =>
                      /\ n = "audio" /\ i = 1 /\ delays = TRUE
                      /\ pc["main"] \in {"dispose video", "dispose audio"}
        OBVIOUS
      <4>1. CASE i \in 1 .. Len(buffer[n])
        <5>1. /\ buffer[n][i].skipped = FALSE
              /\ n = "video" => buffer[n][i].again = 0
              /\ buffer[n][i].cloned = TRUE =>
                   /\ n = "audio" /\ i = 1 /\ delays = TRUE
                   /\ pc["main"] \in {"dispose video", "dispose audio"}
          BY <2>0, <4>1 DEF Plain, PlainMarks
        <5>2. /\ buffer'[n][i].skipped = buffer[n][i].skipped
              /\ buffer'[n][i].again = buffer[n][i].again
              /\ buffer'[n][i].cloned = buffer[n][i].cloned
          BY <4>1 DEF Grows
        <5> QED
          BY <5>1, <5>2
      <4>2. CASE i \in (Len(buffer[n]) + 1) .. Len(buffer'[n])
        BY <4>2 DEF Grows
      <4> QED
        BY <1>2, <4>1, <4>2, Split
    <3> QED
      BY <3>1, <3>2 DEF PlainMarks
  <2>2. LimitInv'
    <3>1. \A n \in Media : Held(n) => Pos(n)' = Pos(n)
      BY <1>2 DEF Held, Grows, Pos
    <3>2. /\ pc["main"] = "dispose video" => Held("video")
          /\ pc["main"] \in {"dispose video", "dispose audio"} => Held("audio")
      BY <1>1 DEF General, HeldInv
    <3>3. last' = last /\ LimitInv
      BY <2>0 DEF last, Plain
    <3>4. \A n \in Media : More(n)' => Pos(n)' <= last'
      BY <3>3 DEF LimitInv, Grows
    <3>5. /\ pc["main"] = "dispose video" => Pos("video")' < last'
          /\ pc["main"] \in {"dispose video", "dispose audio"} => Pos("audio")' < last'
      BY <1>1, <3>1, <3>2, <3>3 DEF LimitInv
    <3> QED
      BY <3>4, <3>5 DEF LimitInv
  <2>3. SpentInv'
    <3>1. \A n \in Media : Spent(n)' => Spent(n)
      BY <1>0, <1>2 DEF Grows, Spent
    <3>2. \A n \in Media : \A i \in 2 .. Len(buffer'[n]) :
            buffer'[n][i].ready = TRUE /\ buffer'[n][i].id = length'[n] =>
              buffer'[n][i].eos = TRUE
      <4> SUFFICES ASSUME NEW n \in Media, NEW i \in 2 .. Len(buffer'[n]),
                          buffer'[n][i].ready = TRUE, buffer'[n][i].id = length[n]
                   PROVE  buffer'[n][i].eos = TRUE
        BY <1>0
      <4>1. i \in 2 .. Len(buffer[n])
        BY <1>2 DEF Grows
      <4>2. buffer'[n][i].eos \in BOOLEAN
        <5>1. buffer'[n] \in Seq(Rec) /\ i \in 1 .. Len(buffer'[n])
          BY <1>2 DEF Types
        <5>2. buffer'[n][i] \in Rec
          BY <5>1, ElementOfSeq
        <5> QED
          BY <5>2 DEF Rec
      <4>3. ASSUME buffer'[n][i].eos = FALSE PROVE FALSE
        <5>1. buffer[n][i].ready = TRUE /\ buffer[n][i].eos = FALSE
              /\ buffer[n][i].id = length[n]
          BY <4>1, <4>3, <1>2 DEF Grows
        <5> QED
          BY <2>0, <4>1, <5>1 DEF Plain, SpentInv
      <4> QED
        BY <4>2, <4>3
    <3>3. first' = first /\ (Ended' <=> Ended) /\ SpentInv
      BY <2>0 DEF first, Ended, Plain
    <3>4. StartsAgain(first)' <=> StartsAgain(first)
      BY <1>0, <3>3 DEF StartsAgain
    <3>5. \A n \in Media : Spent(n)' => Ended' \/ (StartsAgain(first)' /\ length'[n] <= first')
      BY <1>0, <3>1, <3>3, <3>4 DEF SpentInv
    <3>6. (Spent("audio") /\ delays = FALSE)' =>
            Ended' \/ pc'["main"] = "dispose audio"
              \/ (More("video")' => Pos("video")' <= first')
      <4>1. Spent("audio")' => Spent("audio")
        BY <3>1, Cast
      <4>2. More("video")' => More("video") /\ Pos("video")' = Pos("video")
        BY <1>2, Cast DEF Grows
      <4>3. Spent("audio") /\ delays = FALSE =>
              Ended \/ pc["main"] = "dispose audio"
                \/ (More("video") => Pos("video") <= first)
        BY <3>3 DEF SpentInv
      <4> QED
        BY <1>0, <3>3, <4>1, <4>2, <4>3
    <3> QED
      BY <3>2, <3>5, <3>6 DEF SpentInv
  <2>4. CoverInv'
    <3>1. \A i \in DOMAIN encoded' : Known(encoded[i])'
      <4> SUFFICES ASSUME NEW i \in DOMAIN encoded PROVE Known(encoded[i])'
        OBVIOUS
      <4>1. Known(encoded[i])
        BY <2>0 DEF Plain, CoverInv
      <4> QED
        BY <1>0, <4>1, Zenon DEF Known, StartsAgain
    <3>2. VideoAtHand' = VideoAtHand /\ last' = last /\ first' = first
      BY DEF VideoAtHand, last, first
    <3>3. buffer["video"] # <<>> => buffer'["video"] # <<>> /\ Pos("video")' = Pos("video")
      BY <1>1, <1>2 DEF Grows, Pos
    <3>4. More("video")' => More("video") /\ Pos("video")' = Pos("video")
      BY <1>1 DEF Grows
    <3> QED
      BY <1>0, <2>0, <3>1, <3>2, <3>3, <3>4 DEF Plain, CoverInv
  <2> QED
    BY <2>1, <2>2, <2>3, <2>4 DEF Plain
<1> QED
  BY <1>4, <1>5, <1>6, <1>8, <1>9, <1>10 DEF MediaInv, General

\* No importer has begun with another frame.
NothingBegun ==
  \A n \in Media : /\ pc'[n] \in {"top", "register"} => pc[n] \in {"top", "register"}
                   /\ pc'[n] = "fill" => pc[n] = "fill"

\* So does a step that leaves the buffers alone.
LEMMA StandingKeeps ==
  ASSUME MediaInv, pc' \in [Threads -> Labels], pc'["main"] = pc["main"], NothingBegun,
         UNCHANGED <<buffer, imported, Given, shift, lag, encoded, todo, reason>>
  PROVE  MediaInv'
<1>0. length' = length /\ delays' = delays
  BY DEF Given
<1>1. Types /\ Types'
  BY <1>0 DEF MediaInv, General, Types
<1>2. ASSUME NEW n \in Media PROVE BufferInv(n)' /\ Grows(n)
  <2>1. BufferInv(n)
    BY <1>2 DEF MediaInv, General
  <2>2. BufferInv(n)'
    BY <1>0, <1>2, <2>1 DEF BufferInv, NothingBegun
  <2>3. Len(buffer[n]) \in Nat
    BY <1>1, <1>2, LenProperties DEF Types
  <2>4. Pos(n)' = Pos(n) /\ (More(n)' => More(n))
    BY <1>2 DEF More, Pos, NothingBegun
  <2> QED
    BY <2>2, <2>3, <2>4 DEF Grows
<1> QED
  BY <1>1, <1>2, GrowthKeeps

\* A new frame is one above its neighbour, and the first of an empty buffer is the next.
LEMMA RegisterKeeps ==
  ASSUME MediaInv, NEW m \in Media, pc[m] = "register", RegisterFrame(m),
         UNCHANGED <<imported, Given, shift, lag, encoded, todo, reason>>
  PROVE  MediaInv'
<1> DEFINE b == buffer[m]
           r == Frame(imported[m])
           c == Append(b, r)
<1>1. Types /\ BufferInv(m)
  BY DEF MediaInv, General
<1>2. Moves(m) /\ pc'[m] = "fill"
  BY <1>1, Cast, GotoMoves DEF RegisterFrame, Types, Labels
<1>3. /\ b \in Seq(Rec) /\ r \in Rec /\ r.id = imported[m] /\ r.ready = FALSE
      /\ r.cloned = FALSE /\ r.skipped = FALSE /\ r.again = 0
  <2>1. b \in Seq(Rec) /\ imported[m] \in Nat /\ (~InPlan(imported[m])) \in BOOLEAN
    BY <1>1 DEF Types
  <2> QED
    BY <2>1 DEF Frame, Rec
<1>4. buffer' = [buffer EXCEPT ![m] = c]
  BY DEF RegisterFrame
<1>5. /\ c \in Seq(Rec) /\ Len(c) = Len(b) + 1 /\ c # <<>>
      /\ \A i \in 1 .. Len(b) : c[i] = b[i]
      /\ c[Len(b) + 1] = r
  <2> HIDE DEF r, b
  <2>1. c \in Seq(Rec) /\ Len(c) = Len(b) + 1 /\ c[Len(b) + 1] = r
        /\ \A i \in 1 .. Len(b) : c[i] = b[i]
    BY <1>3, AppendProperties
  <2> QED
    BY <2>1, <1>3, LenProperties, EmptySeq
<1>6. buffer'[m] = c /\ \A n \in Media : n # m => buffer'[n] = buffer[n]
  BY <1>1, <1>4 DEF Types
<1>20. length' = length
  BY DEF Given
<1>7. Types'
  BY <1>1, <1>2, <1>4, <1>5 DEF Types, Moves, Given
<1> HIDE DEF r, c
<1>8. Len(b) \in Nat /\ (b = <<>> <=> Len(b) = 0) /\ imported[m] \in Nat /\ length[m] \in Nat
  BY <1>1, <1>3, LenProperties, EmptySeq DEF Types
<1>9. \A i \in 1 .. Len(b) : b[i].id \in Nat
  <2>1. \A i \in 1 .. Len(b) : b[i] \in Rec
    BY <1>3, ElementOfSeq
  <2> QED
    BY <2>1 DEF Rec
<1>10. /\ imported[m] <= length[m]
       /\ \A i \in 1 .. Len(b) : b[i].id <= length[m]
       /\ \A i \in 1 .. (Len(b) - 1) : b[i + 1].id = b[i].id + 1
       /\ b # <<>> => b[Len(b)].id = imported[m] - 1
  BY <1>1 DEF BufferInv
<1> HIDE DEF b
<1>11. BufferInv(m)'
  <2>1. \A i \in 1 .. Len(c) : c[i].id <= length[m]
    <3> SUFFICES ASSUME NEW i \in 1 .. Len(c) PROVE c[i].id <= length[m]
      OBVIOUS
    <3>1. CASE i \in 1 .. Len(b)
      BY <3>1, <1>5, <1>10
    <3>2. CASE i = Len(b) + 1
      BY <3>2, <1>3, <1>5, <1>10
    <3> QED
      BY <3>1, <3>2, <1>5, <1>8
  <2>2. \A i \in 1 .. (Len(c) - 1) : c[i + 1].id = c[i].id + 1
    <3> SUFFICES ASSUME NEW i \in 1 .. (Len(c) - 1) PROVE c[i + 1].id = c[i].id + 1
      OBVIOUS
    <3>1. CASE i \in 1 .. (Len(b) - 1)
      <4>1. c[i] = b[i] /\ c[i + 1] = b[i + 1]
        BY <3>1, <1>5, <1>8
      <4> QED
        BY <3>1, <4>1, <1>10
    <3>2. CASE i = Len(b)
      <4>1. c[i] = b[i] /\ c[i + 1] = r /\ b # <<>>
        BY <3>2, <1>5, <1>8
      <4>2. b[i].id = imported[m] - 1
        BY <3>2, <4>1, <1>10
      <4> QED
        BY <4>1, <4>2, <1>3, <1>8
    <3> QED
      BY <3>1, <3>2, <1>5, <1>8
  <2>3. c[Len(c)].id = imported[m] /\ c[Len(c)].ready = FALSE
    BY <1>3, <1>5
  <2> QED
    BY <2>1, <2>2, <2>3, <1>2, <1>5, <1>6, <1>10, <1>20 DEF BufferInv
<1>12. Grows(m)
  <2>1. Pos(m) = IF b = <<>> THEN imported[m] ELSE b[1].id
    BY DEF Pos, b
  <2>2. Pos(m)' = c[1].id
    BY <1>5, <1>6 DEF Pos
  <2>3. Pos(m)' = Pos(m)
    BY <2>1, <2>2, <1>3, <1>5, <1>8
  <2>4. More(m)
    BY DEF More
  <2>5. \A i \in 1 .. Len(b) : c[i] = b[i]
    BY <1>5
  <2>6. \A i \in (Len(b) + 1) .. Len(c) :
          c[i].ready = FALSE /\ c[i].cloned = FALSE /\ c[i].skipped = FALSE /\ c[i].again = 0
    BY <1>3, <1>5, <1>8
  <2> QED
    BY <2>3, <2>4, <2>5, <2>6, <1>5, <1>6, <1>8 DEF Grows, b
<1>13. ASSUME NEW n \in Media, n # m PROVE BufferInv(n)' /\ Grows(n)
  <2>1. pc'[n] = pc[n] /\ buffer'[n] = buffer[n] /\ BufferInv(n)
    BY <1>2, <1>6, <1>13, Cast DEF Moves, MediaInv, General
  <2>2. Len(buffer[n]) \in Nat
    BY <1>1, <1>13, LenProperties DEF Types
  <2>3. BufferInv(n)'
    BY <1>20, <2>1 DEF BufferInv
  <2>4. Pos(n)' = Pos(n) /\ (More(n)' => More(n))
    BY <2>1 DEF More, Pos
  <2> QED
    BY <2>1, <2>2, <2>3, <2>4 DEF Grows
<1>14. pc'["main"] = pc["main"]
  BY <1>2, Cast DEF Moves
<1> QED
  BY <1>7, <1>11, <1>12, <1>13, <1>14, GrowthKeeps

\* A filled frame becomes ready.  It is above the last frame of the source only with the flag
\* of the end.
LEMMA PushKeeps ==
  ASSUME MediaInv, NEW m \in Media, NEW e \in BOOLEAN, NEW l \in Labels,
         pc[m] = "fill", Push(m, e), Goto(m, l), l # "fill",
         e = FALSE => imported[m] < length[m],
         imported' \in [Media -> Nat],
         \A n \in Media : n # m => imported'[n] = imported[n],
         imported'[m] <= length[m],
         l \in {"top", "register"} => imported'[m] = imported[m] + 1,
         UNCHANGED <<Given, shift, lag, encoded, todo, reason>>
  PROVE  MediaInv'
<1> DEFINE b == buffer[m]
           k == Len(b)
           r == Filled(b[k], e)
           c == [b EXCEPT ![k] = r]
<1>1. Types /\ BufferInv(m)
  BY DEF MediaInv, General
<1>2. Moves(m) /\ pc'[m] = l
  BY <1>1, Cast, GotoMoves DEF Types
<1>3. /\ b \in Seq(Rec) /\ b # <<>> /\ b[k].id = imported[m] /\ b[k].ready = FALSE
  BY <1>1 DEF Types, BufferInv
<1>4. buffer' = [buffer EXCEPT ![m] = c]
  <2>1. buffer' = [buffer EXCEPT ![m][k] = Filled(@, e)]
    BY DEF Push
  <2>2. buffer \in [Media -> Seq(Rec)]
    BY <1>1 DEF Types
  <2>3. k \in 1 .. Len(b) /\ DOMAIN b = 1 .. Len(b)
    BY <1>3, EmptySeq, LenProperties
  <2> QED
    BY <2>1, <2>2, <2>3
<1>5. /\ k \in Nat \ {0} /\ b[k] \in Rec /\ DOMAIN b = 1 .. k
      /\ \A i \in 1 .. k : b[i] \in Rec
  BY <1>3, EmptySeq, LenProperties, ElementOfSeq
<1>6. /\ r \in Rec /\ r.id = imported[m] /\ r.ready = TRUE /\ r.eos = e
      /\ r.cloned = b[k].cloned /\ r.skipped = b[k].skipped /\ r.again = b[k].again
  <2> HIDE DEF k, b
  <2> QED
    BY <1>3, <1>5 DEF Rec, Filled
<1>7. /\ c \in Seq(Rec) /\ Len(c) = k /\ c # <<>> /\ c[k] = r
      /\ \A i \in 1 .. k : i # k => c[i] = b[i]
  <2> HIDE DEF r
  <2>1. c \in Seq(Rec) /\ Len(c) = Len(b) /\ c[k] = r
        /\ \A i \in 1 .. k : i # k => c[i] = b[i]
    BY <1>3, <1>5, <1>6, ExceptSeq
  <2> QED
    BY <2>1, <1>3, <1>5, EmptySeq
<1>8. buffer'[m] = c /\ \A n \in Media : n # m => buffer'[n] = buffer[n]
  BY <1>1, <1>4 DEF Types
<1>9. Types'
  BY <1>1, <1>2, <1>4, <1>7 DEF Types, Moves, Given
<1>10. /\ imported[m] \in Nat /\ imported'[m] \in Nat /\ length[m] \in Nat
       /\ imported[m] <= length[m]
       /\ \A i \in 1 .. k : b[i].id <= length[m]
       /\ \A i \in 1 .. (k - 1) : b[i + 1].id = b[i].id + 1
  BY <1>1 DEF BufferInv, Types
<1> HIDE DEF r, c
<1>11. \A i \in 1 .. k :
         /\ c[i].id = b[i].id /\ c[i].cloned = b[i].cloned
         /\ c[i].skipped = b[i].skipped /\ c[i].again = b[i].again
  BY <1>3, <1>6, <1>7
<1>12. length' = length
  BY DEF Given
<1>13. BufferInv(m)'
  <2>1. \A i \in 1 .. Len(c) : c[i].id <= length[m]
    BY <1>7, <1>10, <1>11
  <2>2. \A i \in 1 .. (Len(c) - 1) : c[i + 1].id = c[i].id + 1
    <3> SUFFICES ASSUME NEW i \in 1 .. (Len(c) - 1) PROVE c[i + 1].id = c[i].id + 1
      OBVIOUS
    <3>1. i \in 1 .. (k - 1) /\ i \in 1 .. k /\ i + 1 \in 1 .. k
      BY <1>5, <1>7
    <3> QED
      BY <3>1, <1>10, <1>11
  <2>3. l \in {"top", "register"} => c[Len(c)].id = imported'[m] - 1
    BY <1>6, <1>7, <1>10
  <2> QED
    BY <2>1, <2>2, <2>3, <1>2, <1>8, <1>12 DEF BufferInv
<1>14. Grows(m)
  <2>1. Pos(m) = b[1].id /\ Pos(m)' = c[1].id
    BY <1>3, <1>7, <1>8 DEF Pos
  <2>2. Pos(m)' = Pos(m) /\ More(m)
    BY <2>1, <1>3, <1>5, <1>11 DEF More
  <2>3. ASSUME NEW i \in 1 .. k
        PROVE  /\ b[i].ready = TRUE => c[i].ready = TRUE
               /\ c[i].ready = TRUE /\ c[i].id = length[m] /\ c[i].eos = FALSE =>
                    b[i].ready = TRUE /\ b[i].eos = FALSE
    <3>1. CASE i = k
      BY <3>1, <1>6, <1>7, <1>10
    <3>2. CASE i # k
      BY <3>2, <1>7
    <3> QED
      BY <3>1, <3>2
  <2>4. k <= Len(c) /\ \A i \in (k + 1) .. Len(c) : FALSE
    BY <1>5, <1>7
  <2>5. \A i \in 1 .. k :
          /\ c[i].id = b[i].id /\ c[i].cloned = b[i].cloned
          /\ c[i].skipped = b[i].skipped /\ c[i].again = b[i].again
          /\ b[i].ready = TRUE => c[i].ready = TRUE
          /\ c[i].ready = TRUE /\ c[i].id = length[m] /\ c[i].eos = FALSE =>
               b[i].ready = TRUE /\ b[i].eos = FALSE
    BY <2>3, <1>11
  <2>6. buffer'[m] = c
    BY <1>8
  <2> QED
    BY <2>2, <2>4, <2>5, <2>6 DEF Grows
<1>15. ASSUME NEW n \in Media, n # m PROVE BufferInv(n)' /\ Grows(n)
  <2>1. /\ pc'[n] = pc[n] /\ buffer'[n] = buffer[n] /\ imported'[n] = imported[n]
        /\ BufferInv(n)
    BY <1>2, <1>8, <1>15, Cast DEF Moves, MediaInv, General
  <2>2. Len(buffer[n]) \in Nat
    BY <1>1, <1>15, LenProperties DEF Types
  <2>3. BufferInv(n)'
    BY <1>12, <2>1 DEF BufferInv
  <2>4. Pos(n)' = Pos(n) /\ (More(n)' => More(n))
    BY <2>1 DEF More, Pos
  <2> QED
    BY <2>1, <2>2, <2>3, <2>4 DEF Grows
<1>16. pc'["main"] = pc["main"]
  BY <1>2, Cast DEF Moves
<1> QED
  BY <1>9, <1>13, <1>14, <1>15, <1>16, GrowthKeeps

\* An importer keeps the invariant whatever it does.
LEMMA ImportKeeps ==
  ASSUME MediaInv, NEW m \in Media, Import(m)
  PROVE  MediaInv'
<1>1. Types /\ BufferInv(m) /\ m \in Threads /\ m # "main"
  BY Cast DEF MediaInv, General
<1>2. ASSUME NEW l \in Labels, Goto(m, l), l # "fill",
             l \in {"top", "register"} => pc[m] \in {"top", "register"},
             UNCHANGED <<buffer, imported, input, loop>>
      PROVE  MediaInv'
  <2>1. Moves(m) /\ pc'[m] = l
    BY <1>1, <1>2, GotoMoves DEF Types
  <2>2. pc'["main"] = pc["main"] /\ \A n \in Media : n # m => pc'[n] = pc[n]
    BY <1>1, <2>1, Cast DEF Moves
  <2>3. NothingBegun
    BY <1>2, <2>1, <2>2 DEF NothingBegun
  <2>4. UNCHANGED <<buffer, imported, Given, shift, lag, encoded, todo, reason>>
    BY <1>2 DEF input, loop, Given
  <2>5. pc' \in [Threads -> Labels] /\ pc'["main"] = pc["main"]
    BY <2>1, <2>2 DEF Moves
  <2> QED
    BY <2>3, <2>4, <2>5, StandingKeeps
<1>3. CASE ImportTop(m)
  <2> DEFINE l == IF running /\ active[m] THEN "register" ELSE "exit"
  <2>1. l \in Labels /\ l # "fill" /\ pc[m] = "top" /\ Goto(m, l)
        /\ UNCHANGED <<buffer, imported, input, loop>>
    BY <1>3 DEF ImportTop, Labels, frames
  <2> HIDE DEF l
  <2> QED
    BY <2>1, <1>2
<1>4. CASE ImportRegister(m)
  <2>1. pc[m] = "register" /\ UNCHANGED <<imported, input, loop>>
    BY <1>4 DEF ImportRegister
  <2>2. CASE RegisterWait(m)
    <3>1. pc' = pc /\ buffer' = buffer
      BY <2>2 DEF RegisterWait
    <3>2. pc' \in [Threads -> Labels] /\ NothingBegun
      BY <1>1, <3>1 DEF Types, NothingBegun
    <3>3. UNCHANGED <<buffer, imported, Given, shift, lag, encoded, todo, reason>>
      BY <2>1, <3>1 DEF input, loop, Given
    <3> QED
      BY <3>1, <3>2, <3>3, StandingKeeps
  <2>3. CASE RegisterFrame(m)
    BY <2>1, <2>3, RegisterKeeps DEF input, loop, Given
  <2>4. CASE RegisterNull(m)
    BY <2>1, <2>4, <1>2 DEF RegisterNull, Labels
  <2> QED
    BY <1>4, <2>2, <2>3, <2>4 DEF ImportRegister
<1>5. CASE ImportPush(m)
  <2>1. /\ pc[m] = "fill" /\ Push(m, FALSE) /\ Goto(m, "top") /\ imported[m] < length[m]
        /\ imported' = [imported EXCEPT ![m] = @ + 1]
        /\ UNCHANGED <<Given, shift, lag, encoded, todo, reason>>
    BY <1>5 DEF ImportPush, input, loop, Given
  <2>2. /\ imported' \in [Media -> Nat] /\ imported'[m] = imported[m] + 1
        /\ \A n \in Media : n # m => imported'[n] = imported[n]
        /\ imported[m] \in Nat /\ length[m] \in Nat
    BY <1>1, <2>1 DEF Types
  <2>3. imported'[m] <= length[m]
    BY <2>1, <2>2
  <2> QED
    BY <2>1, <2>2, <2>3, PushKeeps DEF Labels
<1>6. CASE ImportPushEos(m)
  <2>1. /\ pc[m] = "fill" /\ Push(m, TRUE) /\ Goto(m, "eos") /\ imported' = imported
        /\ UNCHANGED <<Given, shift, lag, encoded, todo, reason>>
    BY <1>6 DEF ImportPushEos, input, loop, Given
  <2>2. imported' \in [Media -> Nat] /\ imported'[m] <= length[m]
    BY <1>1, <2>1 DEF Types, BufferInv
  <2> QED
    BY <2>1, <2>2, PushKeeps DEF Labels
<1>7. CASE ImportEnd(m)
  BY <1>7, <1>2 DEF ImportEnd, Labels
<1> QED
  BY <1>3, <1>4, <1>5, <1>6, <1>7 DEF Import

-----------------------------------------------------------------------------
(* The encoder: what a step at the heads of the buffers keeps. *)

LEMMA RangeType ==
  ASSUME TodoInv
  PROVE  first \in Nat /\ last \in Nat /\ first < last
<1>1. todo \in Seq(Nat \X Nat) /\ todo # <<>> /\ PlanIsSorted(todo)
  BY DEF TodoInv
<1>2. Len(todo) \in Nat \ {0} /\ DOMAIN todo = 1 .. Len(todo)
  BY <1>1, EmptySeq, LenProperties
<1>3. todo[1] \in Nat \X Nat
  BY <1>1, <1>2, ElementOfSeq
<1>4. todo[1][1] < todo[1][2] /\ Head(todo) = todo[1]
  BY <1>1, <1>2 DEF PlanIsSorted
<1> QED
  BY <1>3, <1>4 DEF first, last

LEMMA PairType ==
  ASSUME Types, NEW i \in DOMAIN encoded
  PROVE  encoded[i] \in Pair /\ encoded[i].v \in Nat /\ encoded[i].again \in Nat
<1>1. encoded \in Seq(Pair)
  BY DEF Types
<1>2. encoded[i] \in Pair
  BY <1>1, LenProperties, ElementOfSeq
<1> QED
  BY <1>2 DEF Pair

\* A buffer that is not empty has a head.
LEMMA HeadOf ==
  ASSUME Types, NEW m \in Media, buffer[m] # <<>>
  PROVE  /\ buffer[m] \in Seq(Rec) /\ 1 \in 1 .. Len(buffer[m]) /\ Len(buffer[m]) \in Nat
         /\ Head(buffer[m]) = buffer[m][1] /\ buffer[m][1] \in Rec
<1>1. buffer[m] \in Seq(Rec) /\ buffer[m] # <<>>
  BY DEF Types
<1>2. Len(buffer[m]) \in Nat \ {0}
  BY <1>1, EmptySeq, LenProperties
<1> QED
  BY <1>1, <1>2, ElementOfSeq, HeadTailProperties

LEMMA PosType ==
  ASSUME Types, NEW m \in Media
  PROVE  Pos(m) \in Nat
<1>1. CASE buffer[m] = <<>>
  BY <1>1 DEF Pos, Types
<1>2. CASE buffer[m] # <<>>
  BY <1>2, HeadOf DEF Pos, Rec
<1> QED
  BY <1>1, <1>2

\* What a step at the head of a buffer leaves: the numbers and what is ready, and all of
\* the frames behind the head.
SameFrames(n) ==
  LET b == buffer[n]
      c == buffer'[n]
  IN  /\ c \in Seq(Rec) /\ Len(c) = Len(b)
      /\ \A i \in 1 .. Len(b) : c[i].id = b[i].id /\ c[i].ready = b[i].ready
      /\ \A i \in 2 .. Len(b) : c[i] = b[i]

LEMMA HeadStays ==
  ASSUME Types, NEW n \in Media, BufferInv(n), SameFrames(n),
         pc'[n] = pc[n], imported'[n] = imported[n], length' = length
  PROVE  /\ BufferInv(n)' /\ Pos(n)' = Pos(n) /\ (More(n)' <=> More(n))
         /\ (buffer'[n] = <<>> <=> buffer[n] = <<>>)
         /\ buffer[n] # <<>> =>
              buffer'[n][1].id = buffer[n][1].id /\ buffer'[n][1].ready = buffer[n][1].ready
<1> DEFINE b == buffer[n]
           c == buffer'[n]
<1>1. b \in Seq(Rec) /\ c \in Seq(Rec) /\ Len(c) = Len(b)
  BY DEF Types, SameFrames
<1>2. Len(b) \in Nat /\ (b = <<>> <=> Len(b) = 0) /\ (c = <<>> <=> Len(b) = 0)
  BY <1>1, LenProperties, EmptySeq
<1>3. \A i \in 1 .. Len(b) : c[i].id = b[i].id /\ c[i].ready = b[i].ready
  BY DEF SameFrames
<1>4. BufferInv(n)'
  <2>1. \A i \in 1 .. Len(c) : c[i].id <= length[n]
    BY <1>1, <1>3 DEF BufferInv
  <2>2. \A i \in 1 .. (Len(c) - 1) : c[i + 1].id = c[i].id + 1
    <3> SUFFICES ASSUME NEW i \in 1 .. (Len(b) - 1) PROVE c[i + 1].id = c[i].id + 1
      BY <1>1
    <3>1. i \in 1 .. Len(b) /\ i + 1 \in 1 .. Len(b)
      BY <1>2
    <3>2. b[i + 1].id = b[i].id + 1
      BY DEF BufferInv
    <3> QED
      BY <1>3, <3>1, <3>2
  <2>3. b # <<>> => c # <<>> /\ Len(b) \in 1 .. Len(b)
    BY <1>2
  <2> QED
    BY <1>1, <1>2, <1>3, <2>1, <2>2, <2>3 DEF BufferInv
<1>5. b # <<>> => 1 \in 1 .. Len(b)
  BY <1>2
<1> QED
  BY <1>2, <1>3, <1>4, <1>5 DEF Pos, More

LEMMA HeadChanges ==
  ASSUME Types, NEW m \in Media, buffer[m] # <<>>, NEW r \in Rec,
         r.id = buffer[m][1].id, r.ready = buffer[m][1].ready,
         buffer'[m] = [buffer[m] EXCEPT ![1] = r]
  PROVE  SameFrames(m) /\ buffer'[m][1] = r
<1> DEFINE b == buffer[m]
           c == buffer'[m]
<1>1. b \in Seq(Rec) /\ 1 \in 1 .. Len(b) /\ Len(b) \in Nat
  BY HeadOf
<1>2. /\ c \in Seq(Rec) /\ Len(c) = Len(b)
      /\ \A i \in 1 .. Len(b) : c[i] = IF i = 1 THEN r ELSE b[i]
  BY <1>1, ExceptSeq
<1>3. c[1] = r /\ \A i \in 2 .. Len(b) : c[i] = b[i]
  BY <1>1, <1>2
<1>4. \A i \in 1 .. Len(b) : c[i].id = b[i].id /\ c[i].ready = b[i].ready
  BY <1>2
<1> QED
  BY <1>2, <1>3, <1>4 DEF SameFrames

LEMMA NothingChanges ==
  ASSUME Types, NEW m \in Media, buffer'[m] = buffer[m]
  PROVE  SameFrames(m)
BY DEF Types, SameFrames

\* The main thread moves from here to label l.
Goes(l) ==
  /\ pc' \in [Threads -> Labels] /\ pc'["main"] = l /\ \A m \in Media : pc'[m] = pc[m]

LEMMA MainGoes ==
  ASSUME Types, NEW l \in Labels, Goto("main", l)
  PROVE  Goes(l)
<1>1. Moves("main") /\ pc'["main"] = l
  BY Cast, GotoMoves DEF Types
<1> QED
  BY <1>1, Cast DEF Moves, Goes

\* The general part, when the step keeps the balance and the order.
LEMMA HeadsGeneral ==
  ASSUME General, NEW l, Goes(l), \A m \in Media : SameFrames(m),
         buffer' = [m \in Media |-> buffer'[m]],
         UNCHANGED <<imported, Given, todo>>,
         lag' \in Int, shift' \in Nat, encoded' \in Seq(Pair),
         Balance' = Balance, HeldInv', OrderInv'
  PROVE  /\ General'
         /\ \A m \in Media : /\ Pos(m)' = Pos(m) /\ (More(m)' <=> More(m))
                             /\ (buffer'[m] = <<>> <=> buffer[m] = <<>>)
<1>1. /\ Types /\ TodoInv /\ MarksInv /\ StepInv /\ \A m \in Media : BufferInv(m)
      /\ length' = length /\ delays' = delays /\ plan' = plan
  BY DEF General, Given
<1>2. Types'
  <2>1. buffer' \in [Media -> Seq(Rec)]
    BY DEF SameFrames
  <2> QED
    BY <1>1, <2>1 DEF Types, Goes
<1>3. TodoInv'
  BY <1>1 DEF TodoInv, StartsAgain, PlanIsSorted
<1>4. \A m \in Media : /\ BufferInv(m)' /\ Pos(m)' = Pos(m) /\ (More(m)' <=> More(m))
                       /\ (buffer'[m] = <<>> <=> buffer[m] = <<>>)
  BY <1>1, HeadStays DEF Goes
<1>5. MarksInv'
  <2> SUFFICES ASSUME NEW m \in Media, NEW i \in 2 .. Len(buffer'[m])
      PROVE  buffer'[m][i].skipped = FALSE /\ buffer'[m][i].cloned = FALSE
    BY DEF MarksInv
  <2>1. i \in 2 .. Len(buffer[m]) /\ buffer'[m][i] = buffer[m][i]
    BY DEF SameFrames
  <2> QED
    BY <1>1, <2>1 DEF MarksInv
<1>6. StepInv'
  BY <1>1, <1>4, Cast DEF StepInv
<1> QED
  BY <1>2, <1>3, <1>4, <1>5, <1>6 DEF General

\* The order is kept by a step that encodes nothing, while no video frame is disposed of.
LEMMA OrderStays ==
  ASSUME General, NEW l, Goes(l), SameFrames("video"), pc["main"] # "dispose video",
         buffer["video"] # <<>> => buffer'["video"][1].again = buffer["video"][1].again,
         UNCHANGED <<imported, Given, todo, encoded>>
  PROVE  OrderInv'
<1>1. Types /\ OrderInv /\ BufferInv("video") /\ length' = length /\ "video" \in Media
  BY Cast DEF General, Given
<1>2. /\ Pos("video")' = Pos("video") /\ (More("video")' <=> More("video"))
      /\ (buffer'["video"] = <<>> <=> buffer["video"] = <<>>)
  BY <1>1, HeadStays DEF Goes
<1>3. \A i \in DOMAIN encoded : Passed(encoded[i]) => Passed(encoded[i])'
  BY <1>2 DEF Passed
<1>4. InStep' /\ last' = last
  BY <1>1 DEF OrderInv, InStep, last
<1> QED
  BY <1>1, <1>2, <1>3, <1>4 DEF OrderInv, Later

\* The encoder moves between two rounds or between two frames, or the main thread shuts down:
\* a frame may have been marked, and the flags of an end may have been consumed.
LEMMA HeadsKeep ==
  ASSUME MediaInv, NEW l, Goes(l),
         pc["main"] \notin {"dispose video", "dispose audio"},
         l \notin {"dispose video", "dispose audio"},
         buffer' = [m \in Media |-> buffer'[m]],
         \A m \in Media : /\ SameFrames(m)
                          /\ buffer[m] # <<>> =>
                               /\ m = "video" => buffer'[m][1].again = buffer[m][1].again
                               /\ Ended' \/ buffer'[m][1].eos = buffer[m][1].eos,
         lag' \in Int, Balance' = Balance, HeldInv', Unmarked => PlainMarks',
         Ended => Ended',
         Unmarked /\ reason' = "last frame" /\ l = "next" =>
           buffer["video"] # <<>> /\ Pos("video") = last,
         UNCHANGED <<imported, Given, shift, todo, encoded>>
  PROVE  MediaInv'
<1>1. /\ General /\ Types /\ "video" \in Media /\ "audio" \in Media
      /\ length' = length /\ delays' = delays /\ plan' = plan /\ filters' = filters
  BY Cast DEF MediaInv, General, Given
<1>2. OrderInv'
  BY <1>1, OrderStays
<1>3. shift' \in Nat /\ encoded' \in Seq(Pair)
  BY <1>1 DEF Types
<1>4. /\ General'
      /\ \A m \in Media : /\ Pos(m)' = Pos(m) /\ (More(m)' <=> More(m))
                          /\ (buffer'[m] = <<>> <=> buffer[m] = <<>>)
  BY <1>1, <1>2, <1>3, HeadsGeneral
<1>5. ASSUME Unmarked' PROVE Plain'
  <2>1. Unmarked /\ Plain /\ PlainMarks'
    BY <1>1, <1>5 DEF MediaInv, Unmarked
  <2>2. last' = last /\ first' = first /\ pc'["main"] = l /\ VideoAtHand = 0 /\ VideoAtHand' = 0
        /\ (StartsAgain(first)' <=> StartsAgain(first))
    BY <1>1 DEF last, first, Goes, VideoAtHand, StartsAgain
  <2>3. LimitInv'
    BY <1>1, <1>4, <2>1, <2>2 DEF Plain, LimitInv
  <2>4. SpentInv'
    <3>1. \A m \in Media : \A i \in 2 .. Len(buffer'[m]) :
            buffer'[m][i].ready = TRUE /\ buffer'[m][i].id = length'[m] =>
              buffer'[m][i].eos = TRUE
      <4> SUFFICES ASSUME NEW m \in Media, NEW i \in 2 .. Len(buffer'[m]),
                          buffer'[m][i].ready = TRUE, buffer'[m][i].id = length'[m]
                   PROVE  buffer'[m][i].eos = TRUE
        OBVIOUS
      <4>1. i \in 2 .. Len(buffer[m]) /\ buffer'[m][i] = buffer[m][i]
        BY DEF SameFrames
      <4> QED
        BY <1>1, <2>1, <4>1 DEF Plain, SpentInv
    <3>2. \A m \in Media : Spent(m)' => Ended' \/ Spent(m)
      <4> SUFFICES ASSUME NEW m \in Media, Spent(m)', ~Ended' PROVE Spent(m)
        OBVIOUS
      <4>1. buffer'[m] # <<>> /\ buffer[m] # <<>>
        BY <1>4 DEF Spent
      <4>2. 1 \in 1 .. Len(buffer[m])
        BY <1>1, <4>1, HeadOf
      <4>3. /\ buffer'[m][1].id = buffer[m][1].id /\ buffer'[m][1].ready = buffer[m][1].ready
            /\ buffer'[m][1].eos = buffer[m][1].eos
        BY <4>1, <4>2 DEF SameFrames
      <4> QED
        BY <1>1, <4>1, <4>3 DEF Spent
    <3>3. SpentInv
      BY <2>1 DEF Plain
    <3>4. \A m \in Media : Spent(m)' => Ended' \/ (StartsAgain(first)' /\ length'[m] <= first')
      BY <1>1, <2>2, <3>2, <3>3 DEF SpentInv
    <3>5. (Spent("audio") /\ delays = FALSE)' =>
            Ended' \/ (More("video")' => Pos("video")' <= first')
      BY <1>1, <1>4, <2>2, <3>2, <3>3 DEF SpentInv
    <3> QED
      BY <3>1, <3>4, <3>5 DEF SpentInv
  <2>5. CoverInv'
    <3>1. \A i \in DOMAIN encoded' : Known(encoded[i])'
      <4> SUFFICES ASSUME NEW i \in DOMAIN encoded PROVE Known(encoded[i])'
        OBVIOUS
      <4>1. Known(encoded[i])
        BY <2>1 DEF Plain, CoverInv
      <4> QED
        BY <1>1, <4>1, Zenon DEF Known, StartsAgain
    <3>2. CoverInv
      BY <2>1 DEF Plain
    <3> QED
      BY <1>1, <1>4, <2>1, <2>2, <3>1, <3>2 DEF CoverInv
  <2> QED
    BY <2>1, <2>3, <2>4, <2>5 DEF Plain
<1> QED
  BY <1>4, <1>5 DEF MediaInv

-----------------------------------------------------------------------------
(* The encoder: the moves, the retrieval and the end of a loop. *)

\* The encoder moves without touching the buffers, or the main thread shuts down.
LEMMA MainMoveKeeps ==
  ASSUME MediaInv, NEW l \in Labels, Goto("main", l),
         pc["main"] \notin {"dispose video", "dispose audio"},
         l \notin {"dispose video", "dispose audio"},
         l \in {"audio", "got"} => Held("video"), l = "got" => Held("audio"),
         Ended => Ended', reason' = "last frame" => l # "next",
         UNCHANGED <<buffer, imported, Given, shift, lag, encoded, todo>>
  PROVE  MediaInv'
<1>1. Types /\ Goes(l)
  BY MainGoes DEF MediaInv, General
<1>2. buffer' = [m \in Media |-> buffer'[m]] /\ \A m \in Media : SameFrames(m)
  <2>1. buffer' = buffer /\ buffer = [m \in Media |-> buffer[m]]
    BY <1>1 DEF Types
  <2> QED
    BY <1>1, <2>1, NothingChanges
<1>3. lag' \in Int /\ Balance' = Balance /\ HeldInv'
  BY <1>1 DEF Types, Balance, Extra, VideoGone, HeldInv, Held, Goes
<1>4. Unmarked => PlainMarks'
  BY <1>1 DEF MediaInv, Plain, PlainMarks, Given
<1>5. \A m \in Media : buffer'[m][1] = buffer[m][1]
  OBVIOUS
<1> QED
  BY <1>1, <1>2, <1>3, <1>4, <1>5, HeadsKeep

\* What the filters make of a frame, and what comes of it in the balance.
LEMMA FilteredFrame ==
  ASSUME Types, NEW m \in Media, NEW h \in Rec, NEW f \in Filtered(m, h)
  PROVE  /\ f \in Rec /\ f.id = h.id /\ f.ready = h.ready /\ f.eos = h.eos /\ f.again = h.again
         /\ h.skipped = TRUE => f.skipped = TRUE
         /\ Unmarked => f.skipped = h.skipped /\ f.cloned = h.cloned
<1>1. PICK skip \in May(m, h, "skip"), clone \in May(m, h, "clone") : f = Mark(h, skip, clone)
  BY DEF Filtered
<1>2. skip \in BOOLEAN /\ clone \in BOOLEAN
  BY DEF May
<1>3. Unmarked => skip = FALSE /\ clone = FALSE
  BY DEF May, Unmarked
<1>4. /\ f \in Rec /\ f.id = h.id /\ f.ready = h.ready /\ f.eos = h.eos /\ f.again = h.again
      /\ f.skipped = (h.skipped \/ skip)
      /\ f.cloned = (h.cloned \/ (clone /\ h.again < Repeats))
  <2>1. (h.skipped \/ skip) \in BOOLEAN /\ (h.cloned \/ (clone /\ h.again < Repeats)) \in BOOLEAN
    OBVIOUS
  <2> QED
    BY <1>1, <2>1 DEF Rec, Mark
<1>5. h.skipped \in BOOLEAN /\ h.cloned \in BOOLEAN
  BY DEF Rec
<1> QED
  BY <1>3, <1>4, <1>5

LEMMA TurnsType ==
  ASSUME NEW f
  PROVE  Turns(f) \in Int
BY DEF Turns

LEMMA GoneType == VideoGone \in Int
BY DEF VideoGone

\* The marks of a head are moved into the history and back.
LEMMA MarkedBalance ==
  ASSUME lag \in Int, NEW m \in Media, NEW h, NEW f, Marked(m, h, f),
         buffer[m] # <<>>, buffer[m][1] = h, buffer'[m] # <<>>, Turns(buffer'[m][1]) = Turns(f),
         \A n \in Media : n # m => buffer'[n] = buffer[n],
         VideoGone' = VideoGone
  PROVE  Balance' = Balance /\ lag' \in Int
<1>1. Turns(h) \in Int /\ Turns(f) \in Int
  BY TurnsType
<1>2. Extra(m) = Turns(h) - 1 /\ Extra(m)' = Turns(f) - 1
  BY DEF Extra, Turns
<1>3. \A n \in Media : n # m => Extra(n)' = Extra(n)
  BY DEF Extra, Turns
<1>4. \A n \in Media : Extra(n) \in Int
  <2> SUFFICES ASSUME NEW n \in Media PROVE Extra(n) \in Int
    OBVIOUS
  <2> DEFINE t == Turns(buffer[n][1])
  <2>1. t \in Int
    BY TurnsType
  <2> HIDE DEF t
  <2>2. Extra(n) = IF buffer[n] = <<>> THEN 0 ELSE t - 1
    BY Zenon DEF Extra, t
  <2> QED
    BY <2>1, <2>2
<1>5. VideoGone \in Int
  BY GoneType
<1> HIDE DEF Extra, VideoGone, Turns
<1>6. CASE m = "video"
  <2>1. lag' = lag + Turns(h) - Turns(f)
    BY <1>6 DEF Marked
  <2>2. Extra("audio")' = Extra("audio")
    BY <1>3, <1>6, Cast
  <2>3. Balance' = lag' + Extra("video")' - Extra("audio")' + VideoGone'
    BY DEF Balance
  <2>4. Balance = lag + Extra("video") - Extra("audio") + VideoGone
    BY DEF Balance
  <2>5. Extra("audio") \in Int
    BY <1>4, Cast
  <2>6. Extra("video") = Turns(h) - 1 /\ Extra("video")' = Turns(f) - 1
    BY <1>2, <1>6
  <2> QED
    BY <1>1, <1>5, <2>1, <2>2, <2>3, <2>4, <2>5, <2>6, SMTT(30)
<1>7. CASE m = "audio"
  <2>1. lag' = lag - Turns(h) + Turns(f)
    BY <1>7 DEF Marked
  <2>2. Extra("video")' = Extra("video")
    BY <1>3, <1>7, Cast
  <2>3. Balance' = lag' + Extra("video")' - Extra("audio")' + VideoGone'
    BY DEF Balance
  <2>4. Balance = lag + Extra("video") - Extra("audio") + VideoGone
    BY DEF Balance
  <2>5. Extra("video") \in Int
    BY <1>4, Cast
  <2>6. Extra("audio") = Turns(h) - 1 /\ Extra("audio")' = Turns(f) - 1
    BY <1>2, <1>7
  <2> QED
    BY <1>1, <1>5, <2>1, <2>2, <2>3, <2>4, <2>5, <2>6, SMTT(30)
<1> QED
  BY <1>6, <1>7, Cast

LEMMA FilteredHead ==
  ASSUME Types, NEW m \in Media, buffer[m] # <<>>, NEW f \in Filtered(m, Head(buffer[m]))
  PROVE  /\ f \in Rec /\ f.id = buffer[m][1].id /\ f.ready = buffer[m][1].ready
         /\ f.eos = buffer[m][1].eos /\ f.again = buffer[m][1].again
         /\ buffer[m][1].skipped = TRUE => f.skipped = TRUE
         /\ Unmarked => f.skipped = buffer[m][1].skipped /\ f.cloned = buffer[m][1].cloned
<1> DEFINE h == buffer[m][1]
<1>1. Head(buffer[m]) = h /\ h \in Rec
  BY HeadOf
<1>2. f \in Filtered(m, h)
  BY <1>1, Zenon
<1> HIDE DEF h
<1>3. /\ f \in Rec /\ f.id = h.id /\ f.ready = h.ready /\ f.eos = h.eos /\ f.again = h.again
      /\ h.skipped = TRUE => f.skipped = TRUE
      /\ Unmarked => f.skipped = h.skipped /\ f.cloned = h.cloned
  BY <1>1, <1>2, FilteredFrame, Zenon
<1> QED
  BY <1>3 DEF h

LEMMA AgainFrame ==
  ASSUME NEW f \in Rec
  PROVE  /\ Again(f) \in Rec /\ Again(f).id = f.id /\ Again(f).ready = f.ready
         /\ Again(f).eos = f.eos /\ Again(f).skipped = f.skipped
         /\ Again(f).cloned = FALSE /\ Again(f).again = f.again + 1
<1> DEFINE k == f.again + 1
<1>1. k \in Nat
  BY DEF Rec
<1>2. Again(f) = [f EXCEPT !.cloned = FALSE, !.again = k]
  BY DEF Again
<1> HIDE DEF k
<1>3. /\ Again(f) \in Rec /\ Again(f).id = f.id /\ Again(f).ready = f.ready
      /\ Again(f).eos = f.eos /\ Again(f).skipped = f.skipped
      /\ Again(f).cloned = FALSE /\ Again(f).again = k
  BY <1>1, <1>2 DEF Rec
<1> QED
  BY <1>3 DEF k

\* A frame is marked by the filters when it is retrieved.
LEMMA MarkKeeps ==
  ASSUME MediaInv, NEW m \in Media, pc["main"] = m, HeadReady(m),
         NEW f \in Filtered(m, Head(buffer[m])), Marked(m, Head(buffer[m]), f),
         NEW g \in Rec, g.id = f.id, g.ready = f.ready, g.eos = f.eos,
         m = "video" \/ Unmarked => g = f, Turns(g) = Turns(f),
         buffer' = [buffer EXCEPT ![m][1] = g],
         NEW l \in {"video", "audio", "got"}, Goes(l), HeldInv',
         UNCHANGED <<imported, Given, shift, todo, encoded, reason>>
  PROVE  MediaInv'
<1> DEFINE h == buffer[m][1]
<1>1. /\ General /\ Types /\ buffer[m] # <<>> /\ Head(buffer[m]) = h /\ h \in Rec
      /\ 1 \in 1 .. Len(buffer[m]) /\ length' = length /\ delays' = delays /\ filters' = filters
  BY HeadOf DEF MediaInv, General, HeadReady, Given
<1>2. /\ f \in Rec /\ f.id = h.id /\ f.ready = h.ready /\ f.eos = h.eos /\ f.again = h.again
      /\ Unmarked => f.skipped = h.skipped /\ f.cloned = h.cloned
  BY <1>1, FilteredHead
<1>3. /\ buffer'[m] = [buffer[m] EXCEPT ![1] = g]
      /\ \A n \in Media : n # m => buffer'[n] = buffer[n]
      /\ buffer' = [n \in Media |-> buffer'[n]]
  BY <1>1 DEF Types
<1>4. SameFrames(m) /\ buffer'[m][1] = g
  BY <1>1, <1>2, <1>3, HeadChanges
<1>5. \A n \in Media : SameFrames(n)
  BY <1>1, <1>3, <1>4, NothingChanges
<1>6. m # "dispose video" /\ m # "dispose audio" /\ m # "got" /\ ~Ended
  BY Cast DEF Ended
<1>7. Balance' = Balance /\ lag' \in Int
  <2>1. VideoGone' = VideoGone
    BY <1>6 DEF VideoGone, Goes
  <2>2. buffer'[m] # <<>>
    BY <1>1, <1>4, EmptySeq, LenProperties DEF SameFrames
  <2>3. lag \in Int
    BY <1>1 DEF Types
  <2> QED
    BY <1>1, <1>3, <1>4, <2>1, <2>2, <2>3, MarkedBalance
<1>8. ASSUME Unmarked PROVE PlainMarks'
  <2>1. PlainMarks
    BY <1>8 DEF MediaInv, Plain
  <2>2. g = f /\ f.skipped = h.skipped /\ f.cloned = h.cloned
    BY <1>2, <1>8
  <2>3. lag' = lag
    <3>1. Turns(f) = Turns(h)
      BY <2>2 DEF Turns
    <3>2. Turns(h) \in Int /\ lag \in Int
      BY <1>1, TurnsType DEF Types
    <3>3. lag' = lag + Turns(h) - Turns(f) \/ lag' = lag - Turns(h) + Turns(f)
      BY <1>1 DEF Marked
    <3> QED
      BY <3>1, <3>2, <3>3
  <2>4. \A n \in Media : \A i \in 1 .. Len(buffer'[n]) :
          /\ i \in 1 .. Len(buffer[n])
          /\ buffer'[n][i].skipped = buffer[n][i].skipped
          /\ buffer'[n][i].cloned = buffer[n][i].cloned
          /\ buffer'[n][i].again = buffer[n][i].again
    <3> SUFFICES ASSUME NEW n \in Media, NEW i \in 1 .. Len(buffer'[n])
                 PROVE  /\ i \in 1 .. Len(buffer[n])
                        /\ buffer'[n][i].skipped = buffer[n][i].skipped
                        /\ buffer'[n][i].cloned = buffer[n][i].cloned
                        /\ buffer'[n][i].again = buffer[n][i].again
      OBVIOUS
    <3>1. CASE n # m
      BY <1>3, <3>1
    <3>2. CASE n = m
      <4>1. i \in 1 .. Len(buffer[m]) /\ (i \in 2 .. Len(buffer[m]) => buffer'[m][i] = buffer[m][i])
        BY <1>4, <3>2 DEF SameFrames
      <4>2. i = 1 \/ i \in 2 .. Len(buffer[m])
        <5>1. Len(buffer[m]) \in Nat
          BY <1>1, HeadOf
        <5> QED
          BY <4>1, <5>1
      <4> QED
        BY <1>2, <1>4, <2>2, <3>2, <4>1, <4>2
    <3> QED
      BY <3>1, <3>2
  <2>5. \A n \in Media : \A i \in 1 .. Len(buffer[n]) :
          /\ buffer[n][i].skipped = FALSE
          /\ n = "video" => buffer[n][i].again = 0
          /\ buffer[n][i].cloned # TRUE
    BY <1>6, <2>1, Cast DEF PlainMarks
  <2>6. shift' = 0 /\ lag' >= 0
    BY <2>1, <2>3 DEF PlainMarks
  <2>7. \A n \in Media : \A i \in 1 .. Len(buffer'[n]) :
          /\ buffer'[n][i].skipped = FALSE
          /\ n = "video" => buffer'[n][i].again = 0
          /\ buffer'[n][i].cloned # TRUE
    <3> SUFFICES ASSUME NEW n \in Media, NEW i \in 1 .. Len(buffer'[n])
                 PROVE  /\ buffer'[n][i].skipped = FALSE
                        /\ n = "video" => buffer'[n][i].again = 0
                        /\ buffer'[n][i].cloned # TRUE
      OBVIOUS
    <3>1. /\ i \in 1 .. Len(buffer[n])
          /\ buffer'[n][i].skipped = buffer[n][i].skipped
          /\ buffer'[n][i].cloned = buffer[n][i].cloned
          /\ buffer'[n][i].again = buffer[n][i].again
      BY <2>4
    <3>2. /\ buffer[n][i].skipped = FALSE
          /\ n = "video" => buffer[n][i].again = 0
          /\ buffer[n][i].cloned # TRUE
      BY <2>5, <3>1
    <3> QED
      BY <3>1, <3>2
  <2> QED
    BY <2>6, <2>7, Zenon DEF PlainMarks
<1>9. \A n \in Media :
        buffer[n] # <<>> => /\ n = "video" => buffer'[n][1].again = buffer[n][1].again
                            /\ buffer'[n][1].eos = buffer[n][1].eos
  BY <1>2, <1>3, <1>4
<1>10. pc["main"] \notin {"dispose video", "dispose audio"} /\ l \notin {"dispose video", "dispose audio"}
       /\ l # "next"
  BY <1>6
<1> HIDE DEF h
<1> QED
  BY <1>3, <1>5, <1>6, <1>7, <1>8, <1>9, <1>10, HeadsKeep

\* A frame that is not to be skipped is retrieved.
LEMMA RetrieveFrameKeeps ==
  ASSUME MediaInv, NEW m \in Media, pc["main"] = m, HeadReady(m),
         NEW f \in Filtered(m, Head(buffer[m])), Marked(m, Head(buffer[m]), f),
         NEW l, l = IF m = "video" THEN "audio" ELSE "got", RetrieveFrame(m, f, l),
         UNCHANGED <<imported, Given, todo, encoded>>
  PROVE  MediaInv'
<1>1. /\ Types /\ HeldInv /\ buffer[m] # <<>> /\ Head(buffer[m]) = buffer[m][1]
      /\ buffer[m][1] \in Rec /\ buffer[m][1].ready = TRUE
  BY HeadOf DEF MediaInv, General, HeadReady, Rec
<1>2. f \in Rec /\ f.ready = TRUE /\ f.skipped = FALSE
  <2>1. f \in Rec /\ f.ready = TRUE
    BY <1>1, FilteredHead
  <2> QED
    BY <2>1 DEF RetrieveFrame, Rec
<1>3. l \in Labels /\ l \in {"video", "audio", "got"} /\ Goes(l)
  <2>1. l \in Labels /\ l \in {"video", "audio", "got"}
    BY DEF Labels
  <2> QED
    BY <1>1, <2>1, MainGoes DEF RetrieveFrame
<1>4. /\ buffer' = [buffer EXCEPT ![m][1] = f]
      /\ buffer'[m] = [buffer[m] EXCEPT ![1] = f]
      /\ \A n \in Media : n # m => buffer'[n] = buffer[n]
  BY <1>1 DEF RetrieveFrame, Types
<1>5. HeldInv'
  <2>1. SameFrames(m) /\ buffer'[m][1] = f
    <3>1. f.id = buffer[m][1].id /\ f.ready = buffer[m][1].ready
      BY <1>1, FilteredHead
    <3> QED
      BY <1>1, <1>2, <1>4, <3>1, HeadChanges
  <2>2. buffer'[m] # <<>>
    BY <1>1, <2>1, HeadOf, EmptySeq, LenProperties DEF SameFrames
  <2>3. Held(m)'
    BY <1>2, <2>1, <2>2 DEF Held
  <2>4. m = "audio" => Held("video")'
    BY <1>1, <1>4, Cast DEF HeldInv, Held
  <2> QED
    BY <1>3, <2>3, <2>4, Cast DEF HeldInv, Goes
<1> QED
  BY <1>2, <1>3, <1>4, <1>5, MarkKeeps DEF RetrieveFrame

\* An audio frame that is to be skipped and was cloned stays at the head.
LEMMA RetrieveAgainKeeps ==
  ASSUME MediaInv, pc["main"] = "audio", HeadReady("audio"),
         NEW f \in Filtered("audio", Head(buffer["audio"])),
         Marked("audio", Head(buffer["audio"]), f), f.skipped,
         buffer' = [buffer EXCEPT !["audio"][1] = Again(f)], pc' = pc,
         UNCHANGED <<imported, Given, shift, todo, encoded, reason>>
  PROVE  MediaInv'
<1>1. /\ Types /\ HeldInv /\ "audio" \in Media /\ "video" \in Media /\ buffer["audio"] # <<>>
  BY Cast DEF MediaInv, General, HeadReady
<1>2. /\ Head(buffer["audio"]) = buffer["audio"][1] /\ buffer["audio"][1] \in Rec
      /\ 1 \in 1 .. Len(buffer["audio"])
  BY <1>1, HeadOf
<1>3. /\ f \in Rec /\ f.skipped = TRUE
      /\ Unmarked => f.skipped = buffer["audio"][1].skipped
  <2>1. f \in Rec /\ (Unmarked => f.skipped = buffer["audio"][1].skipped)
    BY <1>1, FilteredHead
  <2> QED
    BY <2>1 DEF Rec
<1>4. /\ Again(f) \in Rec /\ Again(f).id = f.id /\ Again(f).ready = f.ready
      /\ Again(f).eos = f.eos /\ Again(f).skipped = f.skipped
  BY <1>3, AgainFrame
<1>5. Turns(Again(f)) = Turns(f)
  BY <1>3, <1>4 DEF Turns
<1>6. ~Unmarked
  BY <1>1, <1>2, <1>3 DEF MediaInv, Plain, PlainMarks
<1>7. Goes("audio")
  BY <1>1 DEF Goes, Types
<1>8. HeldInv'
  <2>1. buffer'["video"] = buffer["video"]
    BY <1>1 DEF Types
  <2> QED
    BY <1>1, <2>1 DEF HeldInv, Held
<1> QED
  BY <1>1, <1>4, <1>5, <1>6, <1>7, <1>8, MarkKeeps

\* What the encoder has at hand between the ends of a range.
LEMMA AtHand ==
  ASSUME General, pc["main"] = "got"
  PROVE  /\ Held("video") /\ Held("audio") /\ More("video") /\ More("audio")
         /\ video = buffer["video"][1] /\ audio = buffer["audio"][1]
         /\ video \in Rec /\ audio \in Rec
         /\ Pos("video") = video.id /\ Pos("audio") = audio.id
         /\ VideoGone = 0 /\ VideoAtHand = 0 /\ ~Ended
         /\ lag \in Int /\ shift \in Nat /\ last \in Nat /\ first \in Nat /\ first < last
         /\ video.id - audio.id = lag + Turns(video) - Turns(audio)
         /\ video.id <= length["video"] /\ audio.id <= length["audio"]
         /\ length["video"] \in Nat /\ length["audio"] \in Nat
<1>1. /\ Types /\ TodoInv /\ HeldInv /\ StepInv
      /\ BufferInv("video") /\ BufferInv("audio") /\ "video" \in Media /\ "audio" \in Media
  BY Cast DEF General
<1>2. Held("video") /\ Held("audio")
  BY <1>1 DEF HeldInv
<1>3. ASSUME NEW m \in Media, Held(m)
      PROVE  /\ Head(buffer[m]) = buffer[m][1] /\ buffer[m][1] \in Rec
             /\ 1 \in 1 .. Len(buffer[m]) /\ More(m) /\ Pos(m) = buffer[m][1].id
             /\ Extra(m) = Turns(buffer[m][1]) - 1
  <2>1. buffer[m] # <<>>
    BY <1>3 DEF Held
  <2>2. Head(buffer[m]) = buffer[m][1] /\ buffer[m][1] \in Rec /\ 1 \in 1 .. Len(buffer[m])
    BY <1>1, <2>1, HeadOf
  <2> QED
    BY <2>1, <2>2 DEF More, Pos, Extra
<1>4. /\ video = buffer["video"][1] /\ audio = buffer["audio"][1]
      /\ video \in Rec /\ audio \in Rec /\ More("video") /\ More("audio")
      /\ Pos("video") = video.id /\ Pos("audio") = audio.id
      /\ Extra("video") = Turns(video) - 1 /\ Extra("audio") = Turns(audio) - 1
      /\ 1 \in 1 .. Len(buffer["video"]) /\ 1 \in 1 .. Len(buffer["audio"])
  BY <1>1, <1>2, <1>3 DEF video, audio
<1>5. VideoGone = 0 /\ VideoAtHand = 0 /\ ~Ended
  BY DEF VideoGone, VideoAtHand, Ended
<1>6. video.id - audio.id = lag + Turns(video) - Turns(audio)
  <2>1. Pos("video") - Pos("audio") = Balance
    BY <1>1, <1>4 DEF StepInv
  <2>2. Turns(video) \in Int /\ Turns(audio) \in Int
    BY TurnsType
  <2>3. lag \in Int
    BY <1>1 DEF Types
  <2>4. Balance = lag + (Turns(video) - 1) - (Turns(audio) - 1) + 0
    BY <1>4, <1>5 DEF Balance
  <2>5. \A x, y, z \in Int : x + (y - 1) - (z - 1) + 0 = x + y - z
    OBVIOUS
  <2> QED
    BY <1>4, <2>1, <2>2, <2>3, <2>4, <2>5
<1>7. video.id <= length["video"] /\ audio.id <= length["audio"]
  BY <1>1, <1>4 DEF BufferInv
<1> QED
  BY <1>1, <1>2, <1>4, <1>5, <1>6, <1>7, RangeType DEF Types

\* Without marks these are two frames that are lag apart, not above the last of the range.
LEMMA PlainAtHand ==
  ASSUME MediaInv, pc["main"] = "got", Unmarked
  PROVE  /\ Plain /\ video.id \in Nat /\ audio.id \in Nat /\ number = video.id /\ lag \in Nat
         /\ video.cloned = FALSE /\ audio.cloned = FALSE
         /\ Turns(video) = 1 /\ Turns(audio) = 1
         /\ video.id - audio.id = lag /\ video.id <= last /\ audio.id <= video.id
<1>1. /\ General /\ Plain /\ PlainMarks /\ LimitInv /\ "video" \in Media /\ "audio" \in Media
      /\ Types
  BY Cast DEF MediaInv, Plain, General
<1>2. /\ Held("video") /\ Held("audio") /\ video = buffer["video"][1] /\ audio = buffer["audio"][1]
      /\ video \in Rec /\ audio \in Rec /\ More("video") /\ Pos("video") = video.id
      /\ lag \in Int /\ last \in Nat
      /\ video.id - audio.id = lag + Turns(video) - Turns(audio)
  BY <1>1, AtHand
<1>3. /\ video.id \in Nat /\ audio.id \in Nat /\ video.cloned \in BOOLEAN /\ audio.cloned \in BOOLEAN
  BY <1>2 DEF Rec
<1>4. 1 \in 1 .. Len(buffer["video"]) /\ 1 \in 1 .. Len(buffer["audio"])
  BY <1>1, <1>2, HeadOf DEF Held
<1>5. video.cloned # TRUE /\ audio.cloned # TRUE /\ video.skipped = FALSE /\ audio.skipped = FALSE
      /\ shift = 0 /\ lag >= 0
  BY <1>1, <1>2, <1>4 DEF PlainMarks
<1>6. Turns(video) = 1 /\ Turns(audio) = 1
  BY <1>3, <1>5 DEF Turns
<1>7. number = video.id
  BY <1>3, <1>5 DEF number
<1>8. video.id <= last
  BY <1>1, <1>2 DEF LimitInv
<1>9. video.id - audio.id = lag /\ lag \in Nat
  BY <1>2, <1>3, <1>5, <1>6
<1>10. audio.id <= video.id
  BY <1>3, <1>9
<1> QED
  BY <1>1, <1>3, <1>5, <1>6, <1>7, <1>8, <1>9, <1>10

\* At the last frame of a range or the end of a stream the loop ends, and the flags are gone.
LEMMA LastKeeps ==
  ASSUME MediaInv, EncodeLast
  PROVE  MediaInv'
<1> DEFINE r(m) == [buffer[m][1] EXCEPT !.eos = FALSE]
<1>1. General /\ Types
  BY DEF MediaInv, General
<1>2. /\ pc["main"] = "got" /\ Goto("main", "next")
      /\ buffer' = [m \in Media |-> [buffer[m] EXCEPT ![1].eos = FALSE]]
      /\ UNCHANGED <<imported, Given, shift, lag, todo, encoded>>
  BY DEF EncodeLast, LoopEnds, input, Given
<1>3. Held("video") /\ Held("audio") /\ Pos("video") = video.id /\ ~Ended
  BY <1>1, <1>2, AtHand
<1>4. Goes("next")
  BY <1>1, <1>2, MainGoes DEF Labels
<1>5. reason' = "last frame" => number = last
  BY DEF EncodeLast, LoopEnds
<1>6. ASSUME NEW m \in Media
      PROVE  /\ SameFrames(m) /\ buffer'[m] # <<>>
             /\ buffer'[m][1].again = buffer[m][1].again
             /\ buffer'[m][1].skipped = buffer[m][1].skipped
             /\ buffer'[m][1].cloned = buffer[m][1].cloned
             /\ buffer[m] # <<>> /\ Len(buffer[m]) \in Nat
  <2>1. buffer[m] # <<>>
    BY <1>3, <1>6, Cast DEF Held
  <2>2. 1 \in 1 .. Len(buffer[m]) /\ buffer[m][1] \in Rec /\ Len(buffer[m]) \in Nat
        /\ buffer[m] \in Seq(Rec)
    BY <1>1, <1>6, <2>1, HeadOf
  <2>3. buffer'[m] = [buffer[m] EXCEPT ![1] = r(m)]
    BY <1>2, <1>6, <2>2
  <2>4. /\ r(m) \in Rec /\ r(m).id = buffer[m][1].id /\ r(m).ready = buffer[m][1].ready
        /\ r(m).cloned = buffer[m][1].cloned /\ r(m).skipped = buffer[m][1].skipped
        /\ r(m).again = buffer[m][1].again
    BY <2>2 DEF Rec
  <2> HIDE DEF r
  <2>5. SameFrames(m) /\ buffer'[m][1] = r(m)
    BY <1>1, <1>6, <2>1, <2>3, <2>4, HeadChanges
  <2>6. buffer'[m] # <<>>
    BY <2>1, <2>2, <2>5, EmptySeq, LenProperties DEF SameFrames
  <2> QED
    BY <2>1, <2>2, <2>4, <2>5, <2>6
<1>7. lag' \in Int /\ Balance' = Balance
  <2>1. \A m \in Media : Extra(m)' = Extra(m)
    BY <1>6 DEF Extra, Turns
  <2>2. VideoGone' = VideoGone
    BY <1>2, <1>4 DEF VideoGone, Goes
  <2> QED
    BY <1>1, <1>2, <2>1, <2>2, Cast DEF Balance, Types
<1>8. HeldInv' /\ Ended'
  BY <1>4 DEF HeldInv, Ended, Goes
<1>9. ASSUME Unmarked
      PROVE  /\ PlainMarks'
             /\ reason' = "last frame" => buffer["video"] # <<>> /\ Pos("video") = last
  <2>1. PlainMarks /\ number = video.id
    BY <1>2, <1>9, PlainAtHand DEF Plain
  <2>2. \A m \in Media : \A i \in 1 .. Len(buffer'[m]) :
          /\ i \in 1 .. Len(buffer[m])
          /\ buffer'[m][i].skipped = buffer[m][i].skipped
          /\ buffer'[m][i].cloned = buffer[m][i].cloned
          /\ buffer'[m][i].again = buffer[m][i].again
    <3> SUFFICES ASSUME NEW m \in Media, NEW i \in 1 .. Len(buffer'[m])
                 PROVE  /\ i \in 1 .. Len(buffer[m])
                        /\ buffer'[m][i].skipped = buffer[m][i].skipped
                        /\ buffer'[m][i].cloned = buffer[m][i].cloned
                        /\ buffer'[m][i].again = buffer[m][i].again
      OBVIOUS
    <3>1. i \in 1 .. Len(buffer[m]) /\ (i \in 2 .. Len(buffer[m]) => buffer'[m][i] = buffer[m][i])
      BY <1>6 DEF SameFrames
    <3>2. i = 1 \/ i \in 2 .. Len(buffer[m])
      BY <1>6, <3>1
    <3> QED
      BY <1>6, <3>1, <3>2
  <2>3. \A m \in Media : \A i \in 1 .. Len(buffer[m]) :
          /\ buffer[m][i].skipped = FALSE
          /\ m = "video" => buffer[m][i].again = 0
          /\ buffer[m][i].cloned # TRUE
    BY <1>2, <2>1 DEF PlainMarks
  <2>4. \A m \in Media : \A i \in 1 .. Len(buffer'[m]) :
          /\ buffer'[m][i].skipped = FALSE
          /\ m = "video" => buffer'[m][i].again = 0
          /\ buffer'[m][i].cloned # TRUE
    <3> SUFFICES ASSUME NEW m \in Media, NEW i \in 1 .. Len(buffer'[m])
                 PROVE  /\ buffer'[m][i].skipped = FALSE
                        /\ m = "video" => buffer'[m][i].again = 0
                        /\ buffer'[m][i].cloned # TRUE
      OBVIOUS
    <3>1. /\ i \in 1 .. Len(buffer[m])
          /\ buffer'[m][i].skipped = buffer[m][i].skipped
          /\ buffer'[m][i].cloned = buffer[m][i].cloned
          /\ buffer'[m][i].again = buffer[m][i].again
      BY <2>2
    <3> QED
      BY <2>3, <3>1
  <2>5. shift' = 0 /\ lag' >= 0
    BY <1>2, <2>1 DEF PlainMarks
  <2>6. PlainMarks'
    BY <2>4, <2>5, Zenon DEF PlainMarks
  <2> QED
    BY <1>3, <1>5, <2>1, <2>6 DEF Held
<1>10. buffer' = [m \in Media |-> buffer'[m]]
  BY <1>2
<1>11. \A m \in Media : /\ SameFrames(m)
                        /\ buffer[m] # <<>> =>
                             /\ m = "video" => buffer'[m][1].again = buffer[m][1].again
                             /\ Ended' \/ buffer'[m][1].eos = buffer[m][1].eos
  BY <1>6, <1>8
<1> HIDE DEF r
<1> QED
  BY <1>2, <1>3, <1>4, <1>7, <1>8, <1>9, <1>10, <1>11, HeadsKeep

-----------------------------------------------------------------------------
(* The encoder: what becomes of a pair. *)

\* What is needed of numbers.
LEMMA Arithmetic ==
  /\ \A x, y, z \in Nat : x <= y /\ y < z => x < z
  /\ \A x \in Nat : x + 1 - 1 = x /\ (x + 1) - 1 = x
  /\ \A x, y, z \in Nat : x + y < z => x < z
  /\ \A x, y \in Nat : x < y \/ x = y => x < y + 1
  /\ \A x, y \in Nat : \A z \in Int :
       x - y = z => (x + 1) - y = z + 1 /\ x - (y + 1) = z - 1
  /\ \A x \in Nat : \A i \in 1 .. x : i > 1 => i - 1 \in 1 .. x
  /\ \A x \in Nat : x + 1 > 1 => x \in 1 .. x
  /\ \A x \in Nat : \A i \in 1 .. (x + 1) : i \in 1 .. x \/ i = x + 1
OBVIOUS

\* From the test of the range to the disposal: the heads may be marked, and a pair encoded.
LEMMA PassKeeps ==
  ASSUME MediaInv, pc["main"] = "got", Goto("main", "dispose video"),
         buffer' = [m \in Media |-> buffer'[m]],
         \A m \in Media : /\ SameFrames(m)
                          /\ buffer'[m][1].skipped = buffer[m][1].skipped
                          /\ buffer'[m][1].eos = buffer[m][1].eos,
         lag' \in Int, Balance' = Balance, encoded' \in Seq(Pair), OrderInv',
         UNCHANGED <<imported, Given, shift, todo, reason>>,
         Unmarked =>
           /\ PlainMarks' /\ video.id < last
           /\ \A i \in DOMAIN encoded' : Known(encoded'[i])
           /\ delays = FALSE => \A v \in first .. video.id : \E i \in DOMAIN encoded' :
                                  encoded'[i].v = v
  PROVE  MediaInv'
<1>1. /\ General /\ Types /\ "video" \in Media /\ "audio" \in Media
      /\ length' = length /\ delays' = delays /\ plan' = plan /\ filters' = filters
      /\ \A m \in Media : BufferInv(m)
  BY Cast DEF MediaInv, General, Given
<1>2. Goes("dispose video")
  BY <1>1, MainGoes DEF Labels
<1>3. Held("video") /\ Held("audio") /\ Pos("video") = video.id /\ Pos("audio") = audio.id /\ ~Ended
  BY <1>1, AtHand
<1>4. HeldInv'
  <2> SUFFICES ASSUME NEW m \in Media PROVE Held(m)'
    BY <1>1 DEF HeldInv
  <2>1. /\ buffer[m] # <<>> /\ buffer[m][1].ready = TRUE /\ buffer[m][1].skipped = FALSE
    BY <1>3, Cast DEF Held
  <2>2. buffer'[m] # <<>> /\ buffer'[m][1].ready = TRUE
    BY <1>1, <1>2, <2>1, HeadStays DEF Goes
  <2> QED
    BY <2>1, <2>2 DEF Held
<1>5. shift' \in Nat
  BY <1>1 DEF Types
<1>6. /\ General'
      /\ \A m \in Media : /\ Pos(m)' = Pos(m) /\ (More(m)' <=> More(m))
                          /\ (buffer'[m] = <<>> <=> buffer[m] = <<>>)
  BY <1>1, <1>2, <1>4, <1>5, HeadsGeneral
<1>7. ASSUME Unmarked' PROVE Plain'
  <2>1. /\ Unmarked /\ Plain /\ PlainMarks' /\ video.id < last
        /\ \A i \in DOMAIN encoded' : Known(encoded'[i])
        /\ delays = FALSE => \A v \in first .. video.id : \E i \in DOMAIN encoded' :
                                  encoded'[i].v = v
    BY <1>1, <1>7 DEF MediaInv, Unmarked
  <2>2. video.id \in Nat /\ audio.id \in Nat /\ audio.id <= video.id /\ last \in Nat
    BY <1>1, <2>1, PlainAtHand, AtHand
  <2>3. last' = last /\ first' = first /\ pc'["main"] = "dispose video" /\ VideoAtHand' = 1
        /\ (StartsAgain(first)' <=> StartsAgain(first))
    BY <1>1, <1>2 DEF last, first, Goes, VideoAtHand, StartsAgain
  <2>4. audio.id < last
    BY <2>1, <2>2, Arithmetic
  <2>5. LimitInv'
    BY <1>1, <1>3, <1>6, <2>1, <2>3, <2>4 DEF Plain, LimitInv
  <2>6. SpentInv'
    <3>1. \A m \in Media : \A i \in 2 .. Len(buffer'[m]) :
            buffer'[m][i].ready = TRUE /\ buffer'[m][i].id = length'[m] =>
              buffer'[m][i].eos = TRUE
      <4> SUFFICES ASSUME NEW m \in Media, NEW i \in 2 .. Len(buffer'[m]),
                          buffer'[m][i].ready = TRUE, buffer'[m][i].id = length'[m]
                   PROVE  buffer'[m][i].eos = TRUE
        OBVIOUS
      <4>1. i \in 2 .. Len(buffer[m]) /\ buffer'[m][i] = buffer[m][i]
        BY DEF SameFrames
      <4> QED
        BY <1>1, <2>1, <4>1 DEF Plain, SpentInv
    <3>2. \A m \in Media : Spent(m)' => Spent(m)
      <4> SUFFICES ASSUME NEW m \in Media, Spent(m)' PROVE Spent(m)
        OBVIOUS
      <4>1. buffer'[m] # <<>> /\ buffer[m] # <<>>
        BY <1>6 DEF Spent
      <4>2. buffer'[m][1].id = buffer[m][1].id /\ buffer'[m][1].ready = buffer[m][1].ready
        BY <1>1, <1>2, <4>1, HeadStays DEF Goes
      <4> QED
        BY <1>1, <4>1, <4>2 DEF Spent
    <3>3. SpentInv
      BY <2>1 DEF Plain
    <3>4. \A m \in Media : Spent(m)' => StartsAgain(first)' /\ length'[m] <= first'
      BY <1>1, <1>3, <2>3, <3>2, <3>3 DEF SpentInv
    <3>5. (Spent("audio") /\ delays = FALSE)' => (More("video")' => Pos("video")' <= first')
      BY <1>1, <1>3, <1>6, <2>3, <3>2, <3>3 DEF SpentInv
    <3> QED
      BY <3>1, <3>4, <3>5 DEF SpentInv
  <2>7. CoverInv'
    <3>1. \A i \in DOMAIN encoded' : Known(encoded[i])'
      <4> SUFFICES ASSUME NEW i \in DOMAIN encoded' PROVE Known(encoded[i])'
        OBVIOUS
      <4>1. Known(encoded'[i])
        BY <2>1
      <4> QED
        BY <1>1, <4>1, Zenon DEF Known, StartsAgain
    <3>2. Pos("video")' + VideoAtHand' - 1 = video.id
      <4>1. Pos("video")' = video.id /\ VideoAtHand' = 1
        BY <1>1, <1>3, <1>6, <2>3
      <4> QED
        BY <2>2, <4>1, Arithmetic
    <3>3. pc'["main"] # "next"
      BY <2>3
    <3>4. delays' = FALSE => \A v \in first' .. (Pos("video")' + VideoAtHand' - 1) :
                               \E i \in DOMAIN encoded' : encoded'[i].v = v
      BY <1>1, <2>1, <2>3, <3>2
    <3> QED
      BY <3>1, <3>3, <3>4 DEF CoverInv
  <2> QED
    BY <2>1, <2>5, <2>6, <2>7 DEF Plain
<1> QED
  BY <1>6, <1>7 DEF MediaInv

\* A frame outside of the range is passed over.
LEMMA SkipKeeps ==
  ASSUME MediaInv, EncodeSkip
  PROVE  MediaInv'
<1> DEFINE r(m) == [buffer[m][1] EXCEPT !.out = TRUE]
<1>1. General /\ Types /\ MarksInv
  BY DEF MediaInv, General
<1>2. /\ pc["main"] = "got" /\ ~InRange /\ number # last /\ Goto("main", "dispose video")
      /\ buffer' = [m \in Media |-> [buffer[m] EXCEPT ![1].out = TRUE]]
      /\ UNCHANGED <<imported, Given, shift, lag, todo, reason, encoded>>
  BY DEF EncodeSkip, Between, input, loop, Given
<1>3. /\ Held("video") /\ Held("audio") /\ first \in Nat /\ last \in Nat /\ first < last
  BY <1>1, <1>2, AtHand
<1>4. Goes("dispose video")
  BY <1>1, <1>2, MainGoes DEF Labels
<1>5. ASSUME NEW m \in Media
      PROVE  /\ SameFrames(m) /\ buffer[m] # <<>> /\ buffer'[m] # <<>>
             /\ buffer'[m][1].again = buffer[m][1].again
             /\ buffer'[m][1].skipped = buffer[m][1].skipped
             /\ buffer'[m][1].cloned = buffer[m][1].cloned
             /\ buffer'[m][1].eos = buffer[m][1].eos
             /\ Len(buffer[m]) \in Nat
  <2>1. buffer[m] # <<>>
    BY <1>3, <1>5, Cast DEF Held
  <2>2. 1 \in 1 .. Len(buffer[m]) /\ buffer[m][1] \in Rec /\ Len(buffer[m]) \in Nat
        /\ buffer[m] \in Seq(Rec)
    BY <1>1, <1>5, <2>1, HeadOf
  <2>3. buffer'[m] = [buffer[m] EXCEPT ![1] = r(m)]
    BY <1>2, <1>5, <2>2
  <2>4. /\ r(m) \in Rec /\ r(m).id = buffer[m][1].id /\ r(m).ready = buffer[m][1].ready
        /\ r(m).cloned = buffer[m][1].cloned /\ r(m).skipped = buffer[m][1].skipped
        /\ r(m).again = buffer[m][1].again /\ r(m).eos = buffer[m][1].eos
    BY <2>2 DEF Rec
  <2> HIDE DEF r
  <2>5. SameFrames(m) /\ buffer'[m][1] = r(m)
    BY <1>1, <1>5, <2>1, <2>3, <2>4, HeadChanges
  <2>6. buffer'[m] # <<>>
    BY <2>1, <2>2, <2>5, EmptySeq, LenProperties DEF SameFrames
  <2> QED
    BY <2>1, <2>2, <2>4, <2>5, <2>6
<1> HIDE DEF r
<1>6. lag' \in Int /\ Balance' = Balance
  <2>1. \A m \in Media : Extra(m)' = Extra(m)
    BY <1>5 DEF Extra, Turns
  <2>2. VideoGone' = VideoGone
    BY <1>2, <1>4 DEF VideoGone, Goes
  <2> QED
    BY <1>1, <1>2, <2>1, <2>2, Cast DEF Balance, Types
<1>7. encoded' \in Seq(Pair)
  BY <1>1, <1>2 DEF Types
<1>8. OrderInv'
  <2>1. pc["main"] # "dispose video" /\ SameFrames("video")
        /\ buffer'["video"][1].again = buffer["video"][1].again
    BY <1>2, <1>5, Cast
  <2> QED
    BY <1>1, <1>2, <1>4, <2>1, OrderStays
<1>9. ASSUME Unmarked
      PROVE  /\ PlainMarks' /\ video.id < last
             /\ \A i \in DOMAIN encoded' : Known(encoded'[i])
             /\ first .. video.id = {}
  <2>1. Plain /\ PlainMarks /\ number = video.id /\ video.id <= last /\ video.id \in Nat
    BY <1>2, <1>9, PlainAtHand DEF Plain
  <2>2. video.id < last /\ video.id < first
    <3>1. \A v, y, z \in Nat : /\ v <= z /\ v # z => v < z
                               /\ v < z /\ ~(y <= v /\ v < z) => v < y
      OBVIOUS
    <3>2. video.id # last /\ ~(first <= video.id /\ video.id < last)
      BY <1>2, <2>1 DEF InRange
    <3> QED
      BY <1>3, <2>1, <3>1, <3>2
  <2>3. \A i \in DOMAIN encoded' : Known(encoded'[i])
    BY <1>2, <2>1 DEF Plain, CoverInv
  <2>4. \A m \in Media : \A i \in 1 .. Len(buffer'[m]) :
          /\ buffer'[m][i].skipped = FALSE
          /\ m = "video" => buffer'[m][i].again = 0
          /\ buffer'[m][i].cloned # TRUE
    <3> SUFFICES ASSUME NEW m \in Media, NEW i \in 1 .. Len(buffer'[m])
                 PROVE  /\ buffer'[m][i].skipped = FALSE
                        /\ m = "video" => buffer'[m][i].again = 0
                        /\ buffer'[m][i].cloned # TRUE
      OBVIOUS
    <3>1. i \in 1 .. Len(buffer[m]) /\ (i \in 2 .. Len(buffer[m]) => buffer'[m][i] = buffer[m][i])
      BY <1>5 DEF SameFrames
    <3>2. i = 1 \/ i \in 2 .. Len(buffer[m])
      BY <1>5, <3>1
    <3>3. /\ buffer[m][i].skipped = FALSE
          /\ m = "video" => buffer[m][i].again = 0
          /\ buffer[m][i].cloned # TRUE
      BY <1>2, <2>1, <3>1 DEF PlainMarks
    <3> QED
      BY <1>5, <3>1, <3>2, <3>3
  <2>5. shift' = 0 /\ lag' >= 0
    BY <1>2, <2>1 DEF PlainMarks
  <2>6. PlainMarks'
    BY <2>4, <2>5, Zenon DEF PlainMarks
  <2>7. first .. video.id = {}
    BY <1>3, <2>1, <2>2
  <2> QED
    BY <2>2, <2>3, <2>6, <2>7
<1>10. buffer' = [m \in Media |-> buffer'[m]]
  BY <1>2
<1> QED
  BY <1>2, <1>5, <1>6, <1>7, <1>8, <1>9, <1>10, PassKeeps

\* A frame that the video encoder keeps puts the audio one further behind, and the audio
\* frame is marked to come again.
LEMMA DelayedKeeps ==
  ASSUME MediaInv, EncodeDelayed
  PROVE  MediaInv'
<1> DEFINE r == [audio EXCEPT !.cloned = TRUE]
<1>1. General /\ Types /\ "video" \in Media /\ "audio" \in Media
  BY Cast DEF MediaInv, General
<1>2. /\ pc["main"] = "got" /\ delays /\ number < last /\ Marked("audio", audio, r)
      /\ buffer' = [buffer EXCEPT !["audio"][1].cloned = TRUE]
      /\ Goto("main", "dispose video")
      /\ UNCHANGED <<imported, Given, shift, todo, reason, encoded>>
  BY DEF EncodeDelayed, Between, InRange, input, Given
<1>3. /\ Held("video") /\ Held("audio") /\ audio = buffer["audio"][1] /\ audio \in Rec
      /\ lag \in Int /\ VideoGone = 0 /\ buffer["audio"] # <<>> /\ buffer["video"] # <<>>
  BY <1>1, <1>2, AtHand DEF Held
<1>4. Goes("dispose video") /\ delays = TRUE
  BY <1>1, <1>2, MainGoes DEF Labels, Types
<1>5. /\ r \in Rec /\ r.id = audio.id /\ r.ready = audio.ready /\ r.eos = audio.eos
      /\ r.cloned = TRUE /\ r.skipped = audio.skipped /\ r.again = audio.again
  BY <1>3 DEF Rec
<1>6. /\ buffer' = [buffer EXCEPT !["audio"] = [buffer["audio"] EXCEPT ![1] = r]]
      /\ buffer'["audio"] = [buffer["audio"] EXCEPT ![1] = r]
      /\ buffer'["video"] = buffer["video"]
      /\ buffer' = [m \in Media |-> buffer'[m]]
  BY <1>1, <1>2, <1>3 DEF Types
<1> HIDE DEF r
<1>7. SameFrames("audio") /\ buffer'["audio"][1] = r /\ SameFrames("video")
  BY <1>1, <1>3, <1>5, <1>6, HeadChanges, NothingChanges
<1>8. buffer'["audio"] # <<>>
  BY <1>1, <1>3, <1>7, HeadOf, EmptySeq, LenProperties DEF SameFrames
<1>9. Balance' = Balance /\ lag' \in Int
  <2>1. VideoGone' = VideoGone
    BY <1>2, <1>4 DEF VideoGone, Goes
  <2>2. \A m \in Media : m # "audio" => buffer'[m] = buffer[m]
    BY <1>6, Cast
  <2> QED
    BY <1>1, <1>2, <1>3, <1>7, <1>8, <2>1, <2>2, MarkedBalance
<1>10. \A m \in Media : /\ SameFrames(m)
                        /\ buffer'[m][1].skipped = buffer[m][1].skipped
                        /\ buffer'[m][1].eos = buffer[m][1].eos
  BY <1>3, <1>5, <1>6, <1>7, Cast
<1>11. encoded' \in Seq(Pair)
  BY <1>1, <1>2 DEF Types
<1>12. OrderInv'
  <2>1. pc["main"] # "dispose video" /\ buffer'["video"][1].again = buffer["video"][1].again
    BY <1>2, <1>6
  <2> QED
    BY <1>1, <1>2, <1>4, <1>7, <2>1, OrderStays
<1>13. ASSUME Unmarked
       PROVE  /\ PlainMarks' /\ video.id < last
              /\ \A i \in DOMAIN encoded' : Known(encoded'[i])
  <2>1. Plain /\ PlainMarks /\ number = video.id /\ lag \in Nat /\ Turns(audio) = 1
    BY <1>2, <1>13, PlainAtHand DEF Plain
  <2>2. audio.skipped = FALSE
    BY <1>1, <1>3, <2>1, HeadOf DEF PlainMarks
  <2>3. Turns(r) = 2
    BY <1>5, <2>2 DEF Turns
  <2>4. lag' = lag - 1 + 2
    BY <1>2, <2>1, <2>3 DEF Marked
  <2>5. lag' >= 0
    BY <2>1, <2>4
  <2>6. \A m \in Media : \A i \in 1 .. Len(buffer'[m]) :
          /\ buffer'[m][i].skipped = FALSE
          /\ m = "video" => buffer'[m][i].again = 0
          /\ buffer'[m][i].cloned = TRUE => m = "audio" /\ i = 1
    <3> SUFFICES ASSUME NEW m \in Media, NEW i \in 1 .. Len(buffer'[m])
                 PROVE  /\ buffer'[m][i].skipped = FALSE
                        /\ m = "video" => buffer'[m][i].again = 0
                        /\ buffer'[m][i].cloned = TRUE => m = "audio" /\ i = 1
      OBVIOUS
    <3>0. Len(buffer[m]) \in Nat
      BY <1>1, <1>3, HeadOf, Cast
    <3>1. i \in 1 .. Len(buffer[m]) /\ (i \in 2 .. Len(buffer[m]) => buffer'[m][i] = buffer[m][i])
      BY <1>10 DEF SameFrames
    <3>2. i = 1 \/ i \in 2 .. Len(buffer[m])
      BY <3>0, <3>1
    <3>3. /\ buffer[m][i].skipped = FALSE
          /\ m = "video" => buffer[m][i].again = 0
          /\ buffer[m][i].cloned # TRUE
      BY <1>2, <2>1, <3>1 DEF PlainMarks
    <3>4. CASE m = "video"
      BY <1>6, <3>3, <3>4
    <3>5. CASE m = "audio"
      BY <1>5, <1>7, <2>2, <3>1, <3>2, <3>3, <3>5
    <3> QED
      BY <3>4, <3>5, Cast
  <2>7. PlainMarks'
    <3>1. shift' = 0 /\ delays' = TRUE /\ pc'["main"] = "dispose video"
      BY <1>2, <1>4, <2>1 DEF PlainMarks, Given, Goes
    <3> QED
      BY <2>5, <2>6, <3>1, Zenon DEF PlainMarks
  <2>8. \A i \in DOMAIN encoded' : Known(encoded'[i])
    BY <1>2, <2>1 DEF Plain, CoverInv
  <2> QED
    BY <1>2, <2>1, <2>7, <2>8
<1> QED
  BY <1>2, <1>4, <1>6, <1>9, <1>10, <1>11, <1>12, <1>13, PassKeeps

\* What the encoder may take to be frames of the streams although they only carry an end.
LEMMA SpentAtHand ==
  ASSUME MediaInv, Between, InRange, Unmarked
  PROVE  /\ video.id = length["video"] => StartsAgain(video.id)
         /\ audio.id = length["audio"] =>
              \/ StartsAgain(video.id)
              \/ delays = TRUE /\ \E s \in audio.id .. video.id : StartsAgain(s)
<1>1. /\ pc["main"] = "got" /\ video.eos # TRUE /\ audio.eos # TRUE /\ first <= video.id
      /\ SpentInv /\ Types /\ General /\ "video" \in Media /\ "audio" \in Media
  BY PlainAtHand, Cast DEF Between, InRange, MediaInv, General, Plain
<1>2. /\ Held("video") /\ Held("audio") /\ ~Ended /\ More("video")
      /\ video = buffer["video"][1] /\ audio = buffer["audio"][1]
      /\ video \in Rec /\ audio \in Rec /\ Pos("video") = video.id /\ first \in Nat
  BY <1>1, AtHand
<1>3. /\ video.id \in Nat /\ audio.id \in Nat /\ video.eos = FALSE /\ audio.eos = FALSE
  BY <1>1, <1>2 DEF Rec
<1>4. pc["main"] # "dispose audio"
  BY <1>1
<1>5. ASSUME video.id = length["video"] PROVE StartsAgain(video.id)
  <2>1. Spent("video")
    BY <1>2, <1>3, <1>5 DEF Spent, Held
  <2>2. StartsAgain(first) /\ length["video"] <= first
    BY <1>1, <1>2, <2>1 DEF SpentInv
  <2>3. first = video.id
    BY <1>1, <1>2, <1>3, <1>5, <2>2, Arithmetic
  <2> QED
    BY <2>2, <2>3
<1>6. ASSUME audio.id = length["audio"]
      PROVE  \/ StartsAgain(video.id)
             \/ delays = TRUE /\ \E s \in audio.id .. video.id : StartsAgain(s)
  <2>1. Spent("audio")
    BY <1>2, <1>3, <1>6 DEF Spent, Held
  <2>2. StartsAgain(first) /\ length["audio"] <= first
    BY <1>1, <1>2, <2>1 DEF SpentInv
  <2>3. CASE delays = TRUE
    <3>1. first \in audio.id .. video.id
      BY <1>1, <1>2, <1>3, <1>6, <2>2
    <3> QED
      BY <2>2, <2>3, <3>1
  <2>4. CASE delays = FALSE
    <3>1. video.id <= first
      BY <1>1, <1>2, <1>4, <2>1, <2>4 DEF SpentInv
    <3>2. first = video.id
      BY <1>1, <1>2, <1>3, <3>1, Arithmetic
    <3> QED
      BY <2>2, <3>2
  <2> QED
    BY <1>1, <2>3, <2>4 DEF Types
<1> QED
  BY <1>5, <1>6

\* The history has grown by one pair.
LEMMA AppendFacts ==
  ASSUME encoded \in Seq(Pair), NEW e \in Pair, encoded' = Append(encoded, e),
         NEW n, n = Len(encoded)
  PROVE  /\ encoded' \in Seq(Pair) /\ n \in Nat
         /\ DOMAIN encoded = 1 .. n /\ DOMAIN encoded' = 1 .. (n + 1)
         /\ \A i \in 1 .. n : encoded'[i] = encoded[i]
         /\ encoded'[n + 1] = e
<1>1. encoded' \in Seq(Pair) /\ Len(encoded') = n + 1
  BY AppendProperties
<1>2. encoded'[n + 1] = e /\ \A i \in 1 .. n : encoded'[i] = encoded[i]
  BY AppendProperties
<1>3. n \in Nat /\ DOMAIN encoded = 1 .. n /\ DOMAIN encoded' = 1 .. (n + 1)
  BY <1>1, LenProperties
<1> QED
  BY <1>1, <1>2, <1>3

\* A pair that is encoded is new, in step, and in front of the end of the range.
LEMMA ExportOrder ==
  ASSUME General, pc["main"] = "got", Goes("dispose video"), number < last,
         NEW e \in Pair, e.v = video.id, e.a = audio.id, e.again = video.again,
         e.lag = lag + Turns(video) - Turns(audio), encoded' = Append(encoded, e),
         UNCHANGED <<buffer, imported, Given, shift, todo>>
  PROVE  encoded' \in Seq(Pair) /\ OrderInv'
<1> DEFINE n == Len(encoded)
<1>1. /\ Types /\ OrderInv /\ encoded \in Seq(Pair) /\ "video" \in Media
  BY Cast DEF General, Types
<1>2. /\ More("video") /\ video = buffer["video"][1] /\ video \in Rec /\ buffer["video"] # <<>>
      /\ Pos("video") = video.id /\ last \in Nat /\ shift \in Nat
      /\ video.id - audio.id = lag + Turns(video) - Turns(audio)
  BY AtHand DEF Held
<1>3. video.id \in Nat /\ e.v \in Nat /\ e.again \in Nat
  BY <1>2 DEF Rec, Pair
<1>4. /\ encoded' \in Seq(Pair) /\ n \in Nat /\ DOMAIN encoded = 1 .. n
      /\ DOMAIN encoded' = 1 .. (n + 1)
      /\ \A i \in 1 .. n : encoded'[i] = encoded[i]
      /\ encoded'[n + 1] = e
  BY <1>1, AppendFacts
<1> HIDE DEF n
<1>5. /\ Pos("video")' = Pos("video") /\ last' = last /\ (More("video")' <=> More("video"))
  BY <1>1 DEF Pos, last, More, Goes
<1>6. e.v < last
  <2>1. video.id + shift < last
    BY DEF number
  <2> QED
    BY <1>2, <1>3, <2>1, Arithmetic
<1>7. \A i \in 1 .. (n + 1) : i \in 1 .. n \/ i = n + 1
  BY <1>4, Arithmetic
<1>8. InStep'
  <2> SUFFICES ASSUME NEW i \in 1 .. (n + 1)
               PROVE  encoded'[i].v - encoded'[i].a = encoded'[i].lag
    BY <1>4 DEF InStep
  <2>1. CASE i \in 1 .. n
    BY <1>1, <1>4, <2>1 DEF InStep, OrderInv
  <2>2. CASE i = n + 1
    BY <1>2, <1>4, <2>2
  <2> QED
    BY <1>7, <2>1, <2>2
<1>9. \A i \in 1 .. n : Passed(encoded[i])
  BY <1>1, <1>2, <1>4 DEF OrderInv
<1>10. \A i \in DOMAIN encoded' : i > 1 => Later(encoded'[i - 1], encoded'[i])
  <2> SUFFICES ASSUME NEW i \in 1 .. (n + 1), i > 1
               PROVE  Later(encoded'[i - 1], encoded'[i])
    BY <1>4
  <2>1. CASE i \in 1 .. n
    <3>1. i - 1 \in 1 .. n
      BY <1>4, <2>1, Arithmetic
    <3>2. Later(encoded[i - 1], encoded[i])
      BY <1>1, <1>4, <2>1 DEF OrderInv
    <3>3. encoded'[i - 1] = encoded[i - 1] /\ encoded'[i] = encoded[i]
      BY <1>4, <2>1, <3>1
    <3> QED
      BY <3>2, <3>3
  <2>2. CASE i = n + 1
    <3>1. n \in 1 .. n /\ i - 1 = n
      <4>1. i - 1 = (n + 1) - 1
        BY <2>2, Zenon
      <4>2. n + 1 > 1
        BY <2>2, Zenon
      <4> QED
        BY <1>4, <4>1, <4>2, Arithmetic
    <3>2. Passed(encoded[n])
      BY <1>9, <3>1
    <3>3. Later(encoded[n], e)
      BY <1>2, <3>2 DEF Passed, Later
    <3> QED
      BY <1>4, <2>2, <3>1, <3>3
  <2> QED
    BY <1>7, <2>1, <2>2
<1>11. \A i \in DOMAIN encoded' : encoded'[i].v < last' /\ Passed(encoded[i])'
  <2> SUFFICES ASSUME NEW i \in 1 .. (n + 1)
               PROVE  encoded'[i].v < last' /\ Passed(encoded[i])'
    BY <1>4
  <2>1. CASE i \in 1 .. n
    <3>1. encoded'[i] = encoded[i] /\ encoded[i].v < last /\ Passed(encoded[i])
      BY <1>1, <1>4, <1>9, <2>1 DEF OrderInv
    <3> QED
      BY <1>5, <3>1 DEF Passed
  <2>2. CASE i = n + 1
    <3>1. encoded'[i] = e /\ pc'["main"] = "dispose video"
      BY <1>4, <2>2 DEF Goes
    <3> QED
      BY <1>2, <1>5, <1>6, <3>1 DEF Passed
  <2> QED
    BY <1>7, <2>1, <2>2
<1> QED
  BY <1>4, <1>8, <1>10, <1>11 DEF OrderInv

LEMMA ExportKeeps ==
  ASSUME MediaInv, EncodeExport
  PROVE  MediaInv'
<1> DEFINE e == [v |-> video.id, a |-> audio.id, again |-> video.again,
                 lag |-> lag + Turns(video) - Turns(audio)]
           n == Len(encoded)
<1>1. /\ General /\ Types /\ "video" \in Media /\ "audio" \in Media /\ encoded \in Seq(Pair)
  BY Cast DEF MediaInv, General, Types
<1>2. /\ pc["main"] = "got" /\ Between /\ InRange /\ number < last /\ first <= number
      /\ Goto("main", "dispose video") /\ encoded' = Append(encoded, e)
      /\ UNCHANGED <<buffer, imported, Given, shift, lag, todo, reason>>
  BY DEF EncodeExport, Between, InRange, input, frames, Given
<1>3. /\ video \in Rec /\ audio \in Rec /\ lag \in Int /\ VideoGone = 0
      /\ Turns(video) \in Int /\ Turns(audio) \in Int
  BY <1>1, <1>2, AtHand, TurnsType
<1>4. Goes("dispose video")
  BY <1>1, <1>2, MainGoes DEF Labels
<1>5. /\ e \in Pair /\ e.v = video.id /\ e.a = audio.id /\ e.again = video.again
      /\ e.lag = lag + Turns(video) - Turns(audio)
  <2>1. video.id \in Nat /\ audio.id \in Nat /\ video.again \in Nat
    BY <1>3 DEF Rec
  <2>2. \A x, y, z \in Int : x + y - z \in Int
    OBVIOUS
  <2> QED
    BY <1>3, <2>1, <2>2 DEF Pair
<1> HIDE DEF e
<1>6. encoded' \in Seq(Pair) /\ OrderInv'
  BY <1>1, <1>2, <1>4, <1>5, ExportOrder
<1>7. /\ n \in Nat /\ DOMAIN encoded = 1 .. n /\ DOMAIN encoded' = 1 .. (n + 1)
      /\ \A i \in 1 .. n : encoded'[i] = encoded[i]
      /\ encoded'[n + 1] = e
  BY <1>1, <1>2, <1>5, AppendFacts
<1> HIDE DEF n
<1>8. buffer' = [m \in Media |-> buffer'[m]] /\ \A m \in Media : SameFrames(m)
  <2>1. buffer' = buffer /\ buffer = [m \in Media |-> buffer[m]]
    BY <1>1, <1>2 DEF Types
  <2> QED
    BY <1>1, <2>1, NothingChanges
<1>9. lag' \in Int /\ Balance' = Balance
  BY <1>2, <1>3, <1>4 DEF Balance, Extra, VideoGone, Goes
<1>10. \A m \in Media : /\ buffer'[m][1].skipped = buffer[m][1].skipped
                        /\ buffer'[m][1].eos = buffer[m][1].eos
  BY <1>2
<1>11. ASSUME Unmarked
       PROVE  /\ PlainMarks' /\ video.id < last
              /\ \A i \in DOMAIN encoded' : Known(encoded'[i])
              /\ delays = FALSE => \A v \in first .. video.id : \E i \in DOMAIN encoded' :
                                     encoded'[i].v = v
  <2>1. /\ Plain /\ PlainMarks /\ number = video.id /\ video.id \in Nat /\ first \in Nat
    BY <1>1, <1>2, <1>11, PlainAtHand, AtHand DEF Plain
  <2>2. PlainMarks'
    <3>1. delays' = delays /\ shift' = shift /\ lag' = lag /\ buffer' = buffer
          /\ pc'["main"] = "dispose video"
      BY <1>2, <1>4 DEF Given, Goes
    <3>2. pc["main"] \notin {"dispose video", "dispose audio"}
      BY <1>2
    <3> QED
      BY <2>1, <3>1, <3>2, Zenon DEF PlainMarks
  <2>3. \A i \in DOMAIN encoded' : Known(encoded'[i])
    <3> SUFFICES ASSUME NEW i \in 1 .. (n + 1) PROVE Known(encoded'[i])
      BY <1>7
    <3>1. CASE i \in 1 .. n
      BY <1>7, <2>1, <3>1 DEF Plain, CoverInv
    <3>2. CASE i = n + 1
      <4>1. /\ video.id = length["video"] => StartsAgain(video.id)
            /\ audio.id = length["audio"] =>
                \/ StartsAgain(video.id)
                \/ delays = TRUE /\ \E s \in audio.id .. video.id : StartsAgain(s)
        BY <1>2, <1>11, SpentAtHand
      <4>2. /\ video.id < length["video"] \/ video.id = length["video"]
            /\ audio.id < length["audio"] \/ audio.id = length["audio"]
        <5>1. /\ video.id <= length["video"] /\ audio.id <= length["audio"]
              /\ length["video"] \in Nat /\ length["audio"] \in Nat
              /\ video.id \in Nat /\ audio.id \in Nat
          BY <1>1, <1>2, <1>3, AtHand DEF Rec
        <5> QED
          BY <5>1
      <4>3. encoded'[i].v = video.id /\ encoded'[i].a = audio.id
        BY <1>5, <1>7, <3>2
      <4> QED
        BY <4>1, <4>2, <4>3, Zenon DEF Known
    <3> QED
      BY <1>7, <3>1, <3>2
  <2>4. ASSUME delays = FALSE, NEW v \in first .. video.id
        PROVE  \E i \in DOMAIN encoded' : encoded'[i].v = v
    <3>1. CASE v = video.id
      <4>1. n + 1 \in DOMAIN encoded' /\ encoded'[n + 1].v = v
        BY <1>5, <1>7, <3>1
      <4> QED
        BY <4>1
    <3>2. CASE v # video.id
      <4>1. v \in first .. (Pos("video") + VideoAtHand - 1)
        <5>1. Pos("video") = video.id /\ VideoAtHand = 0
          BY <1>1, <1>2, AtHand
        <5> QED
          BY <2>1, <2>4, <3>2, <5>1
      <4>2. PICK i \in 1 .. n : encoded[i].v = v
        BY <1>1, <1>2, <1>7, <2>1, <2>4, <4>1, AtHand DEF Plain, CoverInv
      <4> QED
        BY <1>7, <4>2
    <3> QED
      BY <3>1, <3>2
  <2> QED
    BY <1>2, <2>1, <2>2, <2>3, <2>4
<1> QED
  BY <1>2, <1>6, <1>8, <1>9, <1>10, <1>11, PassKeeps

\* A frame that is removed brings the next one to the head.
LEMMA TailOf ==
  ASSUME Types, NEW m \in Media, BufferInv(m), buffer[m] # <<>>, buffer[m][1].ready = TRUE,
         buffer'[m] = Tail(buffer[m]),
         pc'[m] = pc[m], imported'[m] = imported[m], length' = length
  PROVE  /\ buffer'[m] \in Seq(Rec) /\ BufferInv(m)'
         /\ \A i \in 1 .. Len(buffer'[m]) :
              i + 1 \in 2 .. Len(buffer[m]) /\ buffer'[m][i] = buffer[m][i + 1]
         /\ buffer'[m] # <<>> => 1 \in 1 .. Len(buffer'[m])
         /\ More(m) /\ Pos(m) = buffer[m][1].id
         /\ More(m)' => Pos(m)' = Pos(m) + 1
<1> DEFINE b == buffer[m]
           c == buffer'[m]
<1>1. /\ b \in Seq(Rec) /\ b # <<>> /\ Len(b) \in Nat /\ 1 \in 1 .. Len(b)
      /\ \A i \in 1 .. Len(b) : b[i].id \in Nat
      /\ b[1].ready = TRUE /\ imported[m] \in Nat /\ length[m] \in Nat
  <2>1. b \in Seq(Rec) /\ b # <<>> /\ b[1].ready = TRUE /\ imported[m] \in Nat /\ length[m] \in Nat
    BY DEF Types
  <2>2. Len(b) \in Nat /\ 1 \in 1 .. Len(b)
    BY HeadOf
  <2>3. \A i \in 1 .. Len(b) : b[i] \in Rec
    BY <2>1, ElementOfSeq
  <2> QED
    BY <2>1, <2>2, <2>3 DEF Rec
<1>2. /\ c \in Seq(Rec) /\ Len(c) = Len(b) - 1
      /\ \A i \in 1 .. Len(c) : c[i] = b[i + 1]
  BY <1>1, HeadTailProperties
<1>3. Len(c) \in Nat /\ (c = <<>> <=> Len(c) = 0)
  BY <1>2, LenProperties, EmptySeq
<1>4. /\ imported[m] <= length[m]
      /\ \A i \in 1 .. Len(b) : b[i].id <= length[m]
      /\ \A i \in 1 .. (Len(b) - 1) : b[i + 1].id = b[i].id + 1
      /\ pc[m] \in {"top", "register"} => b[Len(b)].id = imported[m] - 1
      /\ pc[m] = "fill" => b[Len(b)].id = imported[m] /\ b[Len(b)].ready = FALSE
  BY <1>1 DEF BufferInv
<1> HIDE DEF b, c
<1>5. \A i \in 1 .. Len(c) : i + 1 \in 2 .. Len(b) /\ i + 1 \in 1 .. Len(b)
  BY <1>1, <1>2, <1>3
<1>6. c # <<>> => 1 \in 1 .. Len(c) /\ Len(c) \in 1 .. Len(c) /\ c[Len(c)] = b[Len(b)]
  BY <1>1, <1>2, <1>3
<1>7. BufferInv(m)'
  <2>1. \A i \in 1 .. Len(c) : c[i].id <= length[m]
    BY <1>2, <1>4, <1>5
  <2>2. \A i \in 1 .. (Len(c) - 1) : c[i + 1].id = c[i].id + 1
    <3> SUFFICES ASSUME NEW i \in 1 .. (Len(c) - 1) PROVE c[i + 1].id = c[i].id + 1
      OBVIOUS
    <3>1. i \in 1 .. Len(c) /\ i + 1 \in 1 .. Len(c) /\ i + 1 \in 1 .. (Len(b) - 1)
      BY <1>1, <1>2, <1>3
    <3>2. c[i] = b[i + 1] /\ c[i + 1] = b[(i + 1) + 1]
      BY <1>2, <3>1
    <3> QED
      BY <1>4, <3>1, <3>2
  <2>3. pc[m] = "fill" => c # <<>>
    <3>1. pc[m] = "fill" => Len(b) # 1
      BY <1>1, <1>4
    <3> QED
      BY <1>1, <1>2, <1>3, <3>1
  <2> QED
    BY <1>4, <1>6, <2>1, <2>2, <2>3 DEF BufferInv, c
<1>8. More(m) /\ Pos(m) = b[1].id
  BY <1>1 DEF More, Pos, b
<1>9. ASSUME More(m)' PROVE Pos(m)' = Pos(m) + 1
  <2>1. CASE c = <<>>
    <3>1. pc[m] \in {"top", "register"} /\ Pos(m)' = imported[m]
      BY <1>9, <2>1 DEF More, Pos, c
    <3>2. Len(b) = 1
      BY <1>1, <1>2, <1>3, <2>1
    <3>3. b[1].id = imported[m] - 1
      BY <1>4, <3>1, <3>2
    <3> QED
      BY <1>1, <1>8, <3>1, <3>3
  <2>2. CASE c # <<>>
    <3>1. Pos(m)' = c[1].id
      BY <2>2 DEF Pos, c
    <3>2. c[1] = b[1 + 1] /\ 1 \in 1 .. (Len(b) - 1)
      BY <1>1, <1>2, <1>3, <1>6, <2>2
    <3> QED
      BY <1>4, <1>8, <3>1, <3>2
  <2> QED
    BY <2>1, <2>2
<1> QED
  BY <1>2, <1>5, <1>6, <1>7, <1>8, <1>9 DEF b, c

LEMMA ExtraType ==
  ASSUME NEW n
  PROVE  Extra(n) \in Int
<1> DEFINE t == Turns(buffer[n][1])
<1>1. t \in Int
  BY TurnsType
<1> HIDE DEF t
<1>2. Extra(n) = IF buffer[n] = <<>> THEN 0 ELSE t - 1
  BY Zenon DEF Extra, t
<1> QED
  BY <1>1, <1>2

\* The head of a buffer is removed.
HeadGoes(m) ==
  /\ buffer[m] # <<>> /\ buffer[m][1].ready = TRUE
  /\ buffer' = [buffer EXCEPT ![m] = Tail(buffer[m])]
  /\ UNCHANGED <<imported, Given, todo, encoded>>

\* The frame that comes to the head has not been through the filters.
LEMMA NextHead ==
  ASSUME General, NEW m \in Media, HeadGoes(m), NEW l, Goes(l)
  PROVE  /\ buffer'[m] = Tail(buffer[m]) /\ \A n \in Media : n # m => buffer'[n] = buffer[n]
         /\ buffer'[m] \in Seq(Rec) /\ BufferInv(m)'
         /\ \A i \in 1 .. Len(buffer'[m]) :
              i + 1 \in 2 .. Len(buffer[m]) /\ buffer'[m][i] = buffer[m][i + 1]
         /\ \A i \in 1 .. Len(buffer'[m]) :
              buffer'[m][i].skipped = FALSE /\ buffer'[m][i].cloned = FALSE
         /\ buffer'[m] # <<>> => 1 \in 1 .. Len(buffer'[m])
         /\ Extra(m)' = 0 /\ \A n \in Media : n # m => Extra(n)' = Extra(n)
         /\ More(m) /\ Pos(m) = buffer[m][1].id
         /\ More(m)' => Pos(m)' = Pos(m) + 1
<1>1. /\ Types /\ MarksInv /\ BufferInv(m) /\ buffer[m] # <<>> /\ buffer[m][1].ready = TRUE
      /\ length' = length /\ imported' = imported /\ pc'[m] = pc[m]
  BY DEF General, HeadGoes, Given, Goes
<1>2. /\ buffer'[m] = Tail(buffer[m]) /\ \A n \in Media : n # m => buffer'[n] = buffer[n]
  BY <1>1 DEF HeadGoes, Types
<1>3. /\ buffer'[m] \in Seq(Rec) /\ BufferInv(m)'
      /\ \A i \in 1 .. Len(buffer'[m]) :
           i + 1 \in 2 .. Len(buffer[m]) /\ buffer'[m][i] = buffer[m][i + 1]
      /\ buffer'[m] # <<>> => 1 \in 1 .. Len(buffer'[m])
      /\ More(m) /\ Pos(m) = buffer[m][1].id
      /\ More(m)' => Pos(m)' = Pos(m) + 1
  BY <1>1, <1>2, TailOf
<1>4. \A i \in 1 .. Len(buffer'[m]) :
        buffer'[m][i].skipped = FALSE /\ buffer'[m][i].cloned = FALSE
  <2> SUFFICES ASSUME NEW i \in 1 .. Len(buffer'[m])
               PROVE  buffer'[m][i].skipped = FALSE /\ buffer'[m][i].cloned = FALSE
    OBVIOUS
  <2>1. i + 1 \in 2 .. Len(buffer[m]) /\ buffer'[m][i] = buffer[m][i + 1]
    BY <1>3
  <2> QED
    BY <1>1, <2>1 DEF MarksInv
<1>5. Extra(m)' = 0
  <2>1. CASE buffer'[m] = <<>>
    BY <2>1 DEF Extra
  <2>2. CASE buffer'[m] # <<>>
    <3>1. buffer'[m][1].skipped = FALSE /\ buffer'[m][1].cloned = FALSE
      BY <1>3, <1>4, <2>2
    <3>2. Turns(buffer'[m][1]) = 1
      BY <3>1 DEF Turns
    <3> QED
      BY <2>2, <3>2 DEF Extra, Turns
  <2> QED
    BY <2>1, <2>2
<1>6. \A n \in Media : n # m => Extra(n)' = Extra(n)
  BY <1>2 DEF Extra, Turns
<1> QED
  BY <1>2, <1>3, <1>4, <1>5, <1>6

LEMMA BalanceType ==
  ASSUME Types
  PROVE  Balance \in Int
<1>1. Extra("video") \in Int /\ Extra("audio") \in Int /\ VideoGone \in Int /\ lag \in Int
  BY ExtraType, GoneType DEF Types
<1> QED
  BY <1>1 DEF Balance

\* The next video frame is one further ahead, the next audio frame one less behind.
BalanceMoves(m) == Balance' = IF m = "video" THEN Balance + 1 ELSE Balance - 1

\* No audio frame is removed while a video frame is disposed of.
OneAtATime(m) == m = "audio" => pc["main"] # "dispose video"

LEMMA RemovedGeneral ==
  ASSUME General, NEW m \in Media, HeadGoes(m), NEW l, Goes(l),
         OneAtATime(m),
         lag' \in Int, shift' \in Nat, HeldInv',
         BalanceMoves(m)
  PROVE  General'
<1>1. /\ Types /\ TodoInv /\ MarksInv /\ StepInv /\ OrderInv /\ \A n \in Media : BufferInv(n)
      /\ length' = length /\ delays' = delays /\ plan' = plan /\ imported' = imported
      /\ todo' = todo /\ encoded' = encoded
      /\ "video" \in Media /\ "audio" \in Media
  BY Cast DEF General, HeadGoes, Given
<1>2. /\ \A n \in Media : n # m => buffer'[n] = buffer[n]
      /\ buffer'[m] \in Seq(Rec) /\ BufferInv(m)'
      /\ \A i \in 1 .. Len(buffer'[m]) :
           buffer'[m][i].skipped = FALSE /\ buffer'[m][i].cloned = FALSE
      /\ More(m) /\ Pos(m) = buffer[m][1].id
      /\ More(m)' => Pos(m)' = Pos(m) + 1
  BY NextHead
<1>3. Types'
  <2>1. buffer' \in [Media -> Seq(Rec)]
    <3>1. buffer' = [n \in Media |-> buffer'[n]]
      BY <1>1 DEF HeadGoes, Types
    <3>2. \A n \in Media : buffer'[n] \in Seq(Rec)
      BY <1>1, <1>2 DEF Types
    <3> QED
      BY <3>1, <3>2
  <2> QED
    BY <1>1, <2>1 DEF Types, Goes
<1>4. TodoInv'
  BY <1>1 DEF TodoInv, StartsAgain, PlanIsSorted
<1>5. ASSUME NEW n \in Media, n # m
      PROVE  /\ BufferInv(n)' /\ SameFrames(n) /\ Pos(n)' = Pos(n) /\ (More(n)' <=> More(n))
             /\ buffer'[n] = buffer[n]
  <2>1. buffer'[n] = buffer[n]
    BY <1>2, <1>5
  <2>2. SameFrames(n)
    BY <1>1, <1>5, <2>1, NothingChanges
  <2> QED
    BY <1>1, <1>5, <2>1, <2>2, HeadStays DEF Goes
<1>6. \A n \in Media : BufferInv(n)'
  BY <1>2, <1>5
<1>7. MarksInv'
  <2> SUFFICES ASSUME NEW n \in Media, NEW i \in 2 .. Len(buffer'[n])
      PROVE  buffer'[n][i].skipped = FALSE /\ buffer'[n][i].cloned = FALSE
    BY DEF MarksInv
  <2>1. CASE n = m
    <3>1. Len(buffer'[m]) \in Nat
      BY <1>2, LenProperties
    <3>2. i \in 2 .. Len(buffer'[m])
      BY <2>1
    <3>3. i \in 1 .. Len(buffer'[m])
      BY <3>1, <3>2
    <3> QED
      BY <1>2, <2>1, <3>3
  <2>2. CASE n # m
    BY <1>1, <1>5, <2>2 DEF MarksInv
  <2> QED
    BY <2>1, <2>2
<1>8. /\ Pos("video") \in Nat /\ Pos("audio") \in Nat /\ Balance \in Int
  BY <1>1, BalanceType, PosType
<1>9. StepInv'
  <2> SUFFICES ASSUME More("video")', More("audio")'
               PROVE  Pos("video")' - Pos("audio")' = Balance'
    BY DEF StepInv
  <2>1. CASE m = "video"
    <3>1. /\ Pos("video")' = Pos("video") + 1 /\ Pos("audio")' = Pos("audio")
          /\ More("video") /\ More("audio") /\ Balance' = Balance + 1
      BY <1>1, <1>2, <1>5, <2>1 DEF BalanceMoves
    <3>2. Pos("video") - Pos("audio") = Balance
      BY <1>1, <3>1 DEF StepInv
    <3> QED
      BY <1>8, <3>1, <3>2, Arithmetic
  <2>2. CASE m = "audio"
    <3>1. /\ Pos("audio")' = Pos("audio") + 1 /\ Pos("video")' = Pos("video")
          /\ More("video") /\ More("audio") /\ Balance' = Balance - 1
      BY <1>1, <1>2, <1>5, <2>2 DEF BalanceMoves
    <3>2. Pos("video") - Pos("audio") = Balance
      BY <1>1, <3>1 DEF StepInv
    <3> QED
      BY <1>8, <3>1, <3>2, Arithmetic
  <2> QED
    BY <2>1, <2>2, Cast
<1>10. OrderInv'
  <2>1. CASE m = "audio"
    <3>1. /\ SameFrames("video") /\ buffer'["video"] = buffer["video"]
          /\ pc["main"] # "dispose video"
      BY <1>1, <1>5, <2>1 DEF OneAtATime
    <3>2. UNCHANGED <<imported, Given, todo, encoded>>
      BY DEF HeadGoes
    <3> QED
      BY <3>1, <3>2, OrderStays
  <2>2. CASE m = "video"
    <3>1. InStep' /\ last' = last
      BY <1>1 DEF OrderInv, InStep, last
    <3>2. ASSUME More("video")', NEW i \in DOMAIN encoded PROVE Passed(encoded[i])'
      <4>1. Pos("video")' = Pos("video") + 1 /\ Passed(encoded[i])
        BY <1>1, <1>2, <2>2, <3>2 DEF OrderInv
      <4>2. encoded[i].v \in Nat
        BY <1>1, <3>2, PairType
      <4>3. encoded[i].v < Pos("video") \/ encoded[i].v = Pos("video")
        BY <4>1 DEF Passed
      <4>4. encoded[i].v < Pos("video")'
        BY <1>8, <4>1, <4>2, <4>3, Arithmetic
      <4>5. encoded' = encoded
        BY <1>1
      <4> QED
        BY <4>4, <4>5 DEF Passed
    <3> QED
      BY <1>1, <3>1, <3>2 DEF OrderInv, Later
  <2> QED
    BY <2>1, <2>2, Cast
<1> QED
  BY <1>3, <1>4, <1>6, <1>7, <1>9, <1>10 DEF General

\* The shift of the numbers.
LEMMA CountedType ==
  ASSUME Types, NEW m, Counted(m)
  PROVE  shift' \in Nat
BY DEF Types, Counted

LEMMA BalanceArithmetic ==
  \A b, t, v, g \in Int :
    b - t + 0 \in Int /\ (b - t + 0) + v - 0 + g = (b + v - (t - 1) + g) - 1
OBVIOUS

\* The marks of a frame that is to be skipped are moved into the history.
LEMMA SkippedBalance ==
  ASSUME General, NEW m \in Media, HeadGoes(m), NEW l, Goes(l), VideoGone' = VideoGone,
         NEW h, h = buffer[m][1], NEW f, f.skipped = TRUE, Marked(m, h, f)
  PROVE  lag' \in Int /\ BalanceMoves(m)
<1>1. lag \in Int /\ buffer[m] # <<>> /\ "video" \in Media /\ "audio" \in Media
  BY Cast DEF General, Types, HeadGoes
<1>2. Extra(m)' = 0 /\ \A n \in Media : n # m => Extra(n)' = Extra(n)
  BY NextHead
<1>3. /\ Turns(f) = 0 /\ Turns(h) \in Int /\ Extra(m) = Turns(h) - 1
      /\ VideoGone \in Int /\ Extra("video") \in Int /\ Extra("audio") \in Int
  BY <1>1, TurnsType, GoneType, ExtraType DEF Turns, Extra
<1>4. /\ Balance' = lag' + Extra("video")' - Extra("audio")' + VideoGone'
      /\ Balance = lag + Extra("video") - Extra("audio") + VideoGone
  BY DEF Balance
<1>5. CASE m = "video"
  <2>1. lag' = lag + Turns(h) - 0
    BY <1>3, <1>5 DEF Marked
  <2>2. Extra("video")' = 0 /\ Extra("video") = Turns(h) - 1 /\ Extra("audio")' = Extra("audio")
    BY <1>1, <1>2, <1>3, <1>5
  <2>3. /\ Balance' = (lag + Turns(h) - 0) + 0 - Extra("audio") + VideoGone
        /\ Balance = lag + (Turns(h) - 1) - Extra("audio") + VideoGone
    BY <1>4, <2>1, <2>2
  <2>5. /\ lag + Turns(h) - 0 \in Int
        /\ (lag + Turns(h) - 0) + 0 - Extra("audio") + VideoGone =
             (lag + (Turns(h) - 1) - Extra("audio") + VideoGone) + 1
    <3> DEFINE b == lag
               t == Turns(h)
               a == Extra("audio")
               g == VideoGone
    <3>1. b \in Int /\ t \in Int /\ a \in Int /\ g \in Int
      BY <1>1, <1>3
    <3> HIDE DEF b, t, a, g
    <3>2. b + t - 0 \in Int /\ (b + t - 0) + 0 - a + g = (b + (t - 1) - a + g) + 1
      BY <3>1
    <3> QED
      BY <3>2 DEF b, t, a, g
  <2>4. lag' \in Int /\ Balance' = Balance + 1
    BY <2>1, <2>3, <2>5, Zenon
  <2> QED
    BY <1>5, <2>4 DEF BalanceMoves
<1>6. CASE m = "audio"
  <2>1. lag' = lag - Turns(h) + 0
    BY <1>3, <1>6 DEF Marked
  <2>2. Extra("audio")' = 0 /\ Extra("audio") = Turns(h) - 1 /\ Extra("video")' = Extra("video")
    BY <1>1, <1>2, <1>3, <1>6
  <2>3. /\ Balance' = (lag - Turns(h) + 0) + Extra("video") - 0 + VideoGone
        /\ Balance = lag + Extra("video") - (Turns(h) - 1) + VideoGone
    BY <1>4, <2>1, <2>2
  <2>5. /\ lag - Turns(h) + 0 \in Int
        /\ (lag - Turns(h) + 0) + Extra("video") - 0 + VideoGone =
             (lag + Extra("video") - (Turns(h) - 1) + VideoGone) - 1
    BY <1>1, <1>3, BalanceArithmetic
  <2>4. lag' \in Int /\ Balance' = Balance - 1
    BY <2>1, <2>3, <2>5, Zenon
  <2> QED
    BY <1>6, <2>4 DEF BalanceMoves
<1> QED
  BY <1>5, <1>6, Cast

\* A frame that is to be skipped is removed.
LEMMA RetrieveSkippedKeeps ==
  ASSUME MediaInv, NEW m \in Media, pc["main"] = m, HeadReady(m),
         NEW f \in Filtered(m, Head(buffer[m])), Marked(m, Head(buffer[m]), f), f.skipped,
         buffer' = [buffer EXCEPT ![m] = Tail(@)], pc' = pc, shift' \in Nat,
         UNCHANGED <<imported, Given, todo, encoded>>
  PROVE  MediaInv'
<1> DEFINE h == buffer[m][1]
<1>1. /\ General /\ Types /\ HeldInv /\ buffer[m] # <<>> /\ Head(buffer[m]) = h /\ h \in Rec
      /\ 1 \in 1 .. Len(buffer[m]) /\ h.ready = TRUE /\ filters' = filters
  BY HeadOf DEF MediaInv, General, HeadReady, Given, Rec
<1>2. f.skipped = TRUE /\ (Unmarked => f.skipped = h.skipped)
  <2>1. f \in Rec /\ (Unmarked => f.skipped = h.skipped)
    BY <1>1, FilteredHead
  <2> QED
    BY <2>1 DEF Rec
<1>3. ~Unmarked /\ ~Unmarked'
  BY <1>1, <1>2 DEF MediaInv, Plain, PlainMarks, Unmarked
<1>4. Goes(m) /\ m # "dispose video" /\ m # "dispose audio" /\ m # "got"
  BY <1>1, Cast DEF Goes, Types
<1>5. HeadGoes(m) /\ Marked(m, h, f)
  BY <1>1 DEF HeadGoes
<1>6. VideoGone' = VideoGone /\ OneAtATime(m)
  BY <1>4 DEF VideoGone, OneAtATime
<1>7. HeldInv'
  <2>1. m = "audio" => buffer'["video"] = buffer["video"]
    BY <1>1, Cast DEF Types
  <2> QED
    BY <1>1, <1>4, <2>1, Cast DEF HeldInv, Held
<1> HIDE DEF h
<1>8. lag' \in Int /\ BalanceMoves(m)
  BY <1>1, <1>2, <1>4, <1>5, <1>6, SkippedBalance, Zenon DEF h
<1>9. General'
  BY <1>1, <1>4, <1>5, <1>6, <1>7, <1>8, RemovedGeneral, Zenon
<1> QED
  BY <1>3, <1>9 DEF MediaInv

LEMMA RetrieveKeeps ==
  ASSUME MediaInv, NEW m \in Media, NEW l, l = IF m = "video" THEN "audio" ELSE "got",
         Retrieve(m, l)
  PROVE  MediaInv'
<1>1. /\ Types /\ pc["main"] = m /\ m # "dispose video" /\ m # "dispose audio"
      /\ UNCHANGED <<imported, Given, todo, encoded>>
  BY Cast DEF MediaInv, General, Retrieve, input, Given
<1>2. CASE RetrieveNull
  <2>1. /\ Goto("main", "next") /\ reason' = "interrupted" /\ "next" \in Labels
        /\ UNCHANGED <<buffer, shift, lag>>
    BY <1>2 DEF RetrieveNull, LoopEnds, Labels
  <2>2. ~Ended
    BY <1>1, Cast DEF Ended
  <2> QED
    BY <1>1, <2>1, <2>2, MainMoveKeeps
<1>3. CASE RetrieveWait(m)
  <2>1. UNCHANGED <<pc, reason, buffer, shift, lag>>
    BY <1>3 DEF RetrieveWait
  <2>2. pc' \in [Threads -> Labels] /\ NothingBegun
    BY <1>1, <2>1 DEF Types, NothingBegun
  <2> QED
    BY <1>1, <2>1, <2>2, StandingKeeps
<1>4. ASSUME HeadReady(m), NEW f \in Filtered(m, Head(buffer[m])), Marked(m, Head(buffer[m]), f),
             RetrieveFrame(m, f, l) \/ RetrieveSkipped(m, f)
      PROVE  MediaInv'
  <2>1. CASE RetrieveFrame(m, f, l)
    BY <1>1, <1>4, <2>1, RetrieveFrameKeeps
  <2>2. CASE RetrieveSkipped(m, f)
    <3>1. /\ f.skipped /\ UNCHANGED <<pc, reason>> /\ Counted(m) /\ shift' \in Nat
      BY <1>1, <2>2, CountedType DEF RetrieveSkipped
    <3>2. CASE m = "audio" /\ f.cloned
      <4>1. buffer' = [buffer EXCEPT !["audio"][1] = Again(f)] /\ shift' = shift
        BY <2>2, <3>1, <3>2 DEF RetrieveSkipped, Counted
      <4> QED
        BY <1>1, <1>4, <3>1, <3>2, <4>1, RetrieveAgainKeeps
    <3>3. CASE ~(m = "audio" /\ f.cloned)
      <4>1. buffer' = [buffer EXCEPT ![m] = Tail(@)]
        BY <2>2, <3>3 DEF RetrieveSkipped
      <4> QED
        BY <1>1, <1>4, <3>1, <4>1, RetrieveSkippedKeeps
    <3> QED
      BY <3>2, <3>3
  <2> QED
    BY <1>4, <2>1, <2>2
<1> QED
  BY <1>2, <1>3, <1>4 DEF Retrieve

LEMMA EncoderMoveKeeps ==
  ASSUME MediaInv, EncodeTop \/ EncodeAudioActive \/ EncodeError
  PROVE  MediaInv'
<1>1. UNCHANGED <<buffer, imported, Given, shift, lag, encoded, todo>>
  BY DEF EncodeTop, EncodeAudioActive, EncodeError, input, frames, Given
<1>2. ASSUME NEW l \in Labels, Goto("main", l), reason' = "last frame" => l # "next",
             l \in {"audio active", "error", "video", "next"},
             pc["main"] \in {"top", "audio active", "error"}
      PROVE  MediaInv'
  <2>1. Ended => Ended'
    BY <1>2 DEF Ended
  <2> QED
    BY <1>1, <1>2, <2>1, MainMoveKeeps
<1>3. CASE EncodeTop
  <2> DEFINE l == IF buffer["audio"] = <<>> THEN "audio active" ELSE "error"
  <2>1. CASE LoopEnds("need stop")
    BY <1>2, <1>3, <2>1 DEF EncodeTop, LoopEnds, Labels
  <2>2. CASE Goto("main", l)
    <3>1. l \in {"audio active", "error"} /\ pc["main"] = "top"
      BY <1>3 DEF EncodeTop
    <3> HIDE DEF l
    <3> QED
      BY <1>2, <2>2, <3>1 DEF Labels
  <2> QED
    BY <1>3, <2>1, <2>2 DEF EncodeTop
<1>4. CASE EncodeAudioActive
  BY <1>2, <1>4 DEF EncodeAudioActive, LoopEnds, Labels
<1>5. CASE EncodeError
  BY <1>2, <1>5 DEF EncodeError, LoopEnds, Labels
<1> QED
  BY <1>3, <1>4, <1>5

VideoGoes == Dispose("video", "dispose video", "dispose audio")
AudioGoes == Dispose("audio", "dispose audio", "top")

\* A video frame that was cloned stays for another round.
VideoKept ==
  /\ pc["main"] = "dispose video" /\ Goes("dispose audio")
  /\ buffer["video"][1].cloned = TRUE /\ shift' \in Nat /\ lag' = lag
  /\ buffer' = [buffer EXCEPT !["video"][1] = Again(@)]
  /\ UNCHANGED <<imported, Given, todo, encoded, reason>>

LEMMA VideoStays ==
  ASSUME MediaInv, VideoKept
  PROVE  MediaInv'
<1> DEFINE h == buffer["video"][1]
           r == Again(h)
<1>1. /\ General /\ Types /\ OrderInv /\ HeldInv /\ "video" \in Media /\ "audio" \in Media
      /\ lag \in Int /\ encoded \in Seq(Pair) /\ length' = length /\ filters' = filters
      /\ BufferInv("video") /\ imported' = imported /\ todo' = todo /\ encoded' = encoded
      /\ lag' = lag /\ shift' \in Nat /\ Goes("dispose audio")
      /\ pc["main"] = "dispose video"
      /\ UNCHANGED <<imported, Given, todo, encoded, reason>>
  BY Cast DEF MediaInv, General, Types, Given, VideoKept
<1>2. Held("video") /\ Held("audio") /\ buffer["video"] # <<>> /\ buffer["audio"] # <<>>
  BY <1>1 DEF HeldInv, Held
<1>3. h \in Rec /\ 1 \in 1 .. Len(buffer["video"]) /\ buffer["video"] \in Seq(Rec)
  BY <1>1, <1>2, HeadOf
<1>4. ~Unmarked /\ ~Unmarked'
  BY <1>1, <1>3 DEF MediaInv, Plain, PlainMarks, Unmarked, VideoKept
<1>5. /\ r \in Rec /\ r.id = h.id /\ r.ready = h.ready /\ r.skipped = h.skipped
      /\ r.cloned = FALSE /\ r.again = h.again + 1
  BY <1>3, AgainFrame
<1>6. /\ buffer'["video"] = [buffer["video"] EXCEPT ![1] = r]
      /\ buffer'["audio"] = buffer["audio"]
      /\ buffer' = [m \in Media |-> buffer'[m]]
  BY <1>1, <1>3 DEF Types, VideoKept
<1>7. h.skipped = FALSE /\ h.ready = TRUE /\ h.cloned = TRUE
  BY <1>2 DEF Held, VideoKept
<1> HIDE DEF h, r
<1>8. SameFrames("video") /\ buffer'["video"][1] = r /\ SameFrames("audio")
  BY <1>1, <1>2, <1>5, <1>6, HeadChanges, NothingChanges DEF h
<1>9. /\ buffer'["video"] # <<>> /\ Pos("video")' = Pos("video")
      /\ (More("video")' <=> More("video"))
  BY <1>1, <1>2, <1>8, HeadStays DEF Goes
<1>10. HeldInv'
  BY <1>1, <1>2, <1>5, <1>6, <1>7, <1>8, <1>9 DEF HeldInv, Held, Goes
<1>0. lag' = lag /\ lag \in Int
  BY <1>1
<1>11. lag' \in Int /\ Balance' = Balance
  <2>1. Extra("video") = 1 /\ Extra("video")' = 0
    BY <1>2, <1>5, <1>7, <1>8, <1>9 DEF Extra, Turns, h
  <2>2. VideoGone = 0 /\ VideoGone' = 1 /\ Extra("audio")' = Extra("audio")
    BY <1>1, <1>6 DEF VideoGone, Goes, Extra, Turns
  <2>3. Extra("audio") \in Int
    BY ExtraType
  <2>4. /\ Balance' = lag + 0 - Extra("audio") + 1
        /\ Balance = lag + 1 - Extra("audio") + 0
    BY <1>0, <2>1, <2>2 DEF Balance
  <2> QED
    BY <1>0, <2>3, <2>4
<1>12. OrderInv'
  <2>1. InStep' /\ last' = last
    BY <1>1 DEF OrderInv, InStep, last
  <2>2. ASSUME More("video")', NEW i \in DOMAIN encoded PROVE Passed(encoded[i])'
    <3>1. Passed(encoded[i]) /\ encoded[i].again \in Nat /\ h.again \in Nat
      BY <1>1, <1>3, <1>9, <2>2, PairType DEF OrderInv, Rec
    <3>2. \/ encoded[i].v < Pos("video")
          \/ /\ encoded[i].v = Pos("video")
             /\ encoded[i].again < h.again \/ encoded[i].again = h.again
      BY <3>1, Zenon DEF Passed, h
    <3>3. encoded[i].again < h.again \/ encoded[i].again = h.again => encoded[i].again < r.again
      <4>1. encoded[i].again \in Nat /\ h.again \in Nat /\ r.again = h.again + 1
        BY <1>5, <3>1
      <4> QED
        BY <4>1, Arithmetic
    <3>4. encoded' = encoded
      BY <1>1
    <3> QED
      BY <1>8, <1>9, <3>2, <3>3, <3>4 DEF Passed
  <2> QED
    BY <1>1, <2>1, <2>2 DEF OrderInv, Later
<1>13. General'
  <2>1. (\A m \in Media : SameFrames(m)) /\ encoded' \in Seq(Pair)
    BY <1>1, <1>8, Cast
  <2> QED
    BY <1>1, <1>6, <1>10, <1>11, <1>12, <2>1, HeadsGeneral
<1> QED
  BY <1>4, <1>13 DEF MediaInv

\* A video frame goes, and the next one is ahead of the audio frame by one more.
VideoDropped ==
  /\ pc["main"] = "dispose video" /\ Goes("dispose audio")
  /\ buffer["video"][1].cloned = FALSE /\ Counted("video") /\ lag' = lag
  /\ buffer' = [buffer EXCEPT !["video"] = Tail(@)]
  /\ UNCHANGED <<imported, Given, todo, encoded, reason>>

LEMMA VideoRemoved ==
  ASSUME MediaInv, VideoDropped
  PROVE  MediaInv'
<1>1. /\ General /\ Types /\ HeldInv /\ "video" \in Media /\ "audio" \in Media /\ lag \in Int
      /\ length' = length /\ delays' = delays /\ plan' = plan /\ filters' = filters
      /\ imported' = imported /\ todo' = todo /\ encoded' = encoded /\ lag' = lag
      /\ Counted("video") /\ Goes("dispose audio") /\ pc["main"] = "dispose video"
  BY Cast DEF MediaInv, General, Types, Given, VideoDropped
<1>0. lag' = lag /\ lag \in Int /\ Types
  BY <1>1
<1>2. /\ Held("video") /\ Held("audio") /\ buffer["video"] # <<>>
      /\ buffer["video"][1].skipped = FALSE /\ buffer["video"][1].cloned = FALSE
  BY <1>1 DEF HeldInv, Held, VideoDropped
<1>3. HeadGoes("video")
  BY <1>2 DEF HeadGoes, Held, VideoDropped
<1>4. /\ buffer'["video"] = Tail(buffer["video"]) /\ buffer'["audio"] = buffer["audio"]
      /\ buffer'["video"] \in Seq(Rec)
      /\ Extra("video")' = 0 /\ Extra("audio")' = Extra("audio")
      /\ More("video") /\ Pos("video") = buffer["video"][1].id
      /\ More("video")' => Pos("video")' = Pos("video") + 1
      /\ buffer'["video"] # <<>> => 1 \in 1 .. Len(buffer'["video"])
  BY <1>1, <1>3, NextHead
<1>5. \A i \in 1 .. Len(buffer'["video"]) :
        /\ i + 1 \in 2 .. Len(buffer["video"]) /\ buffer'["video"][i] = buffer["video"][i + 1]
        /\ buffer'["video"][i].skipped = FALSE /\ buffer'["video"][i].cloned = FALSE
  BY <1>1, <1>3, NextHead
<1>6. /\ Pos("audio")' = Pos("audio") /\ (More("audio")' <=> More("audio"))
  BY <1>1, <1>4 DEF Pos, More, Goes
<1>7. /\ VideoGone = 0 /\ VideoGone' = 1 /\ VideoAtHand = 1 /\ VideoAtHand' = 0 /\ ~Ended
      /\ last' = last /\ first' = first /\ (StartsAgain(first)' <=> StartsAgain(first))
  BY <1>1 DEF VideoGone, VideoAtHand, Goes, Ended, last, first, StartsAgain
<1>8. BalanceMoves("video")
  <2>1. Extra("video") = 0
    BY <1>2 DEF Extra, Turns
  <2>2. Extra("audio") \in Int
    BY ExtraType
  <2>3. /\ Balance' = lag + 0 - Extra("audio") + 1
        /\ Balance = lag + 0 - Extra("audio") + 0
    BY <1>0, <1>4, <1>7, <2>1 DEF Balance
  <2>4. Balance' = Balance + 1
    BY <1>0, <2>2, <2>3
  <2> QED
    BY <2>4 DEF BalanceMoves
<1>9. HeldInv' /\ lag' \in Int /\ shift' \in Nat /\ OneAtATime("video")
  BY <1>1, <1>2, <1>4, CountedType DEF HeldInv, Held, Goes, OneAtATime
<1>10. General'
  BY <1>1, <1>3, <1>8, <1>9, RemovedGeneral
<1>11. ASSUME Unmarked PROVE Plain'
  <2>1. Plain /\ PlainMarks /\ LimitInv /\ SpentInv /\ CoverInv
    BY <1>11 DEF MediaInv, Plain
  <2>2. PlainMarks'
    <3>1. shift' = 0 /\ lag' >= 0
      <4>1. 1 \in 1 .. Len(buffer["video"]) /\ Head(buffer["video"]) = buffer["video"][1]
        BY <1>1, <1>2, HeadOf DEF Held
      <4>2. \A i \in 1 .. Len(buffer["video"]) : buffer["video"][i].again = 0
        BY <1>1, <2>1, Zenon DEF PlainMarks
      <4>6. Head(buffer["video"]).again = 0
        BY <4>1, <4>2
      <4>3. ~(Head(buffer["video"]).again > 0)
        BY <4>6
      <4>4. shift' = shift
        BY <1>1, <4>3, Zenon DEF Counted
      <4>5. shift = 0 /\ lag >= 0
        BY <2>1 DEF PlainMarks
      <4> QED
        BY <1>0, <4>4, <4>5
    <3>2. \A i \in 1 .. Len(buffer["video"]) : buffer["video"][i].again = 0
      BY <1>1, <2>1 DEF PlainMarks
    <3>3. \A i \in 1 .. Len(buffer'["video"]) : buffer'["video"][i].again = 0
      <4> SUFFICES ASSUME NEW i \in 1 .. Len(buffer'["video"])
                   PROVE  buffer'["video"][i].again = 0
        OBVIOUS
      <4>1. i + 1 \in 2 .. Len(buffer["video"]) /\ buffer'["video"][i] = buffer["video"][i + 1]
        BY <1>5
      <4>2. i + 1 \in 1 .. Len(buffer["video"])
        BY <4>1
      <4> QED
        BY <3>2, <4>1, <4>2
    <3>4. \A i \in 1 .. Len(buffer["audio"]) :
            /\ buffer["audio"][i].skipped = FALSE
            /\ buffer["audio"][i].cloned = TRUE => i = 1 /\ delays = TRUE
      BY <1>1, <2>1 DEF PlainMarks
    <3>5. pc'["main"] = "dispose audio"
      BY <1>1 DEF Goes
    <3>6. \A m \in Media : \A i \in 1 .. Len(buffer'[m]) :
            /\ buffer'[m][i].skipped = FALSE
            /\ m = "video" => buffer'[m][i].again = 0
            /\ buffer'[m][i].cloned = TRUE =>
                 /\ m = "audio" /\ i = 1 /\ delays' = TRUE
                 /\ pc'["main"] \in {"dispose video", "dispose audio"}
      <4> SUFFICES ASSUME NEW m \in Media, NEW i \in 1 .. Len(buffer'[m])
                   PROVE  /\ buffer'[m][i].skipped = FALSE
                          /\ m = "video" => buffer'[m][i].again = 0
                          /\ buffer'[m][i].cloned = TRUE =>
                               /\ m = "audio" /\ i = 1 /\ delays' = TRUE
                               /\ pc'["main"] \in {"dispose video", "dispose audio"}
        OBVIOUS
      <4>1. CASE m = "video"
        BY <1>5, <3>3, <4>1
      <4>2. CASE m = "audio"
        BY <1>1, <1>4, <3>4, <3>5, <4>2
      <4> QED
        BY <4>1, <4>2, Cast
    <3> QED
      BY <3>1, <3>6 DEF PlainMarks
  <2>3. /\ Pos("video") \in Nat /\ Pos("audio") \in Nat /\ last \in Nat
        /\ Pos("video") < last /\ Pos("audio") < last
    <3>0. pc["main"] = "dispose video" /\ LimitInv
      BY <1>1, <2>1
    <3>4. pc["main"] \in {"dispose video", "dispose audio"}
      BY <3>0
    <3>1. Pos("video") < last /\ Pos("audio") < last
      BY <3>0, <3>4, Zenon DEF LimitInv
    <3>2. last \in Nat
      BY <1>1, RangeType DEF General
    <3> QED
      BY <1>1, <3>1, <3>2, PosType
  <2>4. LimitInv'
    <3>1. More("video")' => Pos("video")' <= last'
      BY <1>4, <1>7, <2>3, Arithmetic
    <3>2. More("audio")' => Pos("audio")' <= last'
      BY <1>1, <1>6, <1>7, <2>1 DEF LimitInv
    <3>3. Pos("audio")' < last' /\ pc'["main"] # "dispose video"
      BY <1>1, <1>6, <1>7, <2>3 DEF Goes
    <3> QED
      BY <3>1, <3>2, <3>3, Cast DEF LimitInv
  <2>5. SpentInv'
    <3>1. \A m \in Media : \A i \in 2 .. Len(buffer[m]) :
            buffer[m][i].ready = TRUE /\ buffer[m][i].id = length[m] => buffer[m][i].eos = TRUE
      BY <2>1 DEF SpentInv
    <3>2. ~Spent("video")'
      <4> SUFFICES ASSUME Spent("video")' PROVE FALSE
        OBVIOUS
      <4>1. /\ buffer'["video"] # <<>> /\ buffer'["video"][1].ready = TRUE
            /\ buffer'["video"][1].id = length["video"] /\ buffer'["video"][1].eos = FALSE
        BY <1>1 DEF Spent
      <4>2. /\ 1 + 1 \in 2 .. Len(buffer["video"])
            /\ buffer'["video"][1] = buffer["video"][1 + 1]
        BY <1>4, <1>5, <4>1
      <4>3. buffer["video"][1 + 1].eos = TRUE
        BY <1>1, <3>1, <4>1, <4>2
      <4> QED
        BY <4>1, <4>2, <4>3
    <3>3. \A m \in Media : \A i \in 2 .. Len(buffer'[m]) :
            buffer'[m][i].ready = TRUE /\ buffer'[m][i].id = length'[m] => buffer'[m][i].eos = TRUE
      <4> SUFFICES ASSUME NEW m \in Media, NEW i \in 2 .. Len(buffer'[m]),
                          buffer'[m][i].ready = TRUE, buffer'[m][i].id = length[m]
                   PROVE  buffer'[m][i].eos = TRUE
        BY <1>1
      <4>1. CASE m = "video"
        <5>0. Len(buffer'["video"]) \in Nat /\ i \in 2 .. Len(buffer'["video"])
          BY <1>4, <4>1, LenProperties
        <5>1. i \in 1 .. Len(buffer'["video"])
          BY <5>0
        <5>2. i + 1 \in 2 .. Len(buffer["video"]) /\ buffer'["video"][i] = buffer["video"][i + 1]
          BY <1>5, <5>1
        <5> QED
          BY <1>1, <3>1, <4>1, <5>2
      <4>2. CASE m = "audio"
        BY <1>4, <3>1, <4>2
      <4> QED
        BY <4>1, <4>2, Cast
    <3>4. Spent("audio")' => StartsAgain(first)' /\ length'["audio"] <= first'
      <4>1. Spent("audio")' => Spent("audio")
        BY <1>1, <1>4 DEF Spent
      <4> QED
        BY <1>1, <1>7, <2>1, <4>1 DEF SpentInv
    <3>5. pc'["main"] = "dispose audio"
      BY <1>1 DEF Goes
    <3>6. \A m \in Media : Spent(m)' => StartsAgain(first)' /\ length'[m] <= first'
      BY <3>2, <3>4, Cast
    <3> QED
      BY <3>3, <3>5, <3>6 DEF SpentInv
  <2>6. CoverInv'
    <3>1. \A i \in DOMAIN encoded' : Known(encoded[i])'
      <4> SUFFICES ASSUME NEW i \in DOMAIN encoded PROVE Known(encoded[i])'
        BY <1>1
      <4>1. Known(encoded[i])
        BY <2>1 DEF CoverInv
      <4> QED
        BY <1>1, <4>1, Zenon DEF Known, StartsAgain
    <3>2. More("video")' => Pos("video")' + VideoAtHand' - 1 = Pos("video") + VideoAtHand - 1
      <4> SUFFICES ASSUME More("video")'
                   PROVE  Pos("video")' + VideoAtHand' - 1 = Pos("video") + VideoAtHand - 1
        OBVIOUS
      <4>1. Pos("video")' = Pos("video") + 1 /\ VideoAtHand' = 0 /\ VideoAtHand = 1
        BY <1>4, <1>7
      <4> QED
        BY <2>3, <4>1
    <3>3. pc'["main"] # "next"
      BY <1>1 DEF Goes
    <3> QED
      BY <1>1, <1>4, <1>7, <2>1, <3>1, <3>2, <3>3 DEF CoverInv
  <2> QED
    BY <2>2, <2>4, <2>5, <2>6 DEF Plain
<1>12. Unmarked' => Unmarked
  BY <1>1 DEF Unmarked
<1> QED
  BY <1>10, <1>11, <1>12 DEF MediaInv

LEMMA DisposeVideoKeeps ==
  ASSUME MediaInv, VideoGoes
  PROVE  MediaInv'
<1>1. /\ Types /\ HeldInv /\ "video" \in Media /\ pc["main"] = "dispose video"
      /\ Counted("video") /\ Goto("main", "dispose audio") /\ lag' = lag
      /\ UNCHANGED <<imported, Given, todo, encoded, reason>>
  BY Cast DEF MediaInv, General, VideoGoes, Dispose, input, Given
<1>2. Held("video")
  BY <1>1 DEF HeldInv
<1>3. /\ Head(buffer["video"]) = buffer["video"][1] /\ buffer["video"][1].cloned \in BOOLEAN
  BY <1>1, <1>2, HeadOf DEF Held, Rec
<1>4. Goes("dispose audio") /\ shift' \in Nat
  BY <1>1, MainGoes, CountedType DEF Labels
<1>5. CASE buffer["video"][1].cloned = TRUE
  <2>1. buffer' = [buffer EXCEPT !["video"][1] = Again(@)]
    BY <1>3, <1>5 DEF VideoGoes, Dispose
  <2> QED
    BY <1>1, <1>4, <1>5, <2>1, VideoStays DEF VideoKept
<1>6. CASE buffer["video"][1].cloned = FALSE
  <2>1. buffer' = [buffer EXCEPT !["video"] = Tail(@)]
    BY <1>3, <1>6 DEF VideoGoes, Dispose
  <2> QED
    BY <1>1, <1>4, <1>6, <2>1, VideoRemoved DEF VideoDropped
<1> QED
  BY <1>3, <1>5, <1>6

\* An audio frame that was cloned, by a filter or for a delay, stays for another round.
AudioKept ==
  /\ pc["main"] = "dispose audio" /\ Goes("top")
  /\ buffer["audio"][1].cloned = TRUE /\ shift' = shift /\ lag' = lag
  /\ buffer' = [buffer EXCEPT !["audio"][1] = Again(@)]
  /\ UNCHANGED <<imported, Given, todo, encoded, reason>>

\* What the two ways of disposing of an audio frame have in common.
AudioSettles ==
  /\ pc["main"] = "dispose audio" /\ Goes("top")
  /\ buffer'["video"] = buffer["video"] /\ shift' = shift /\ lag' = lag
  /\ UNCHANGED <<imported, Given, todo, encoded, reason>>

\* No copy of an audio frame is left.
NoneCloned ==
  \A i \in 1 .. Len(buffer'["audio"]) :
    buffer'["audio"][i].skipped = FALSE /\ buffer'["audio"][i].cloned = FALSE

AudioMoves == More("audio")' => Pos("audio")' = Pos("audio") \/ Pos("audio")' = Pos("audio") + 1

\* A spent frame stays at the head only for a delay.
AudioSpent ==
  /\ Spent("audio")' => Spent("audio") /\ delays = TRUE
  /\ \A i \in 2 .. Len(buffer'["audio"]) :
       buffer'["audio"][i].ready = TRUE /\ buffer'["audio"][i].id = length["audio"] =>
         buffer'["audio"][i].eos = TRUE

LEMMA AudioPlain ==
  ASSUME General, Plain, AudioSettles, More("audio"), NoneCloned, AudioMoves, AudioSpent
  PROVE  Plain'
<1>1. /\ Types /\ TodoInv /\ "video" \in Media /\ "audio" \in Media
      /\ length' = length /\ delays' = delays /\ plan' = plan
      /\ imported' = imported /\ todo' = todo /\ encoded' = encoded /\ reason' = reason
      /\ PlainMarks /\ LimitInv /\ SpentInv /\ CoverInv
      /\ pc["main"] = "dispose audio" /\ Goes("top") /\ buffer'["video"] = buffer["video"]
      /\ shift' = shift /\ lag' = lag
  BY Cast DEF General, Plain, Given, AudioSettles
<1>2. /\ Pos("video")' = Pos("video") /\ (More("video")' <=> More("video"))
      /\ (Spent("video")' <=> Spent("video"))
  BY <1>1 DEF Pos, More, Spent, Goes
<1>3. pc'["main"] = "top"
  BY <1>1 DEF Goes
<1>4. /\ VideoAtHand = 0 /\ VideoAtHand' = 0 /\ ~Ended /\ last' = last /\ first' = first
      /\ (StartsAgain(first)' <=> StartsAgain(first))
  BY <1>1, <1>3 DEF VideoAtHand, Ended, last, first, StartsAgain
<1>5. Pos("video") \in Nat /\ Pos("audio") \in Nat /\ last \in Nat /\ Pos("audio") < last
  <2>1. last \in Nat /\ Pos("video") \in Nat /\ Pos("audio") \in Nat
    BY <1>1, RangeType, PosType
  <2>2. pc["main"] \in {"dispose video", "dispose audio"} /\ LimitInv
    BY <1>1
  <2>3. Pos("audio") < last
    BY <2>2, Zenon DEF LimitInv
  <2> QED
    BY <2>1, <2>3
<1>6. PlainMarks'
  <2>1. /\ shift = 0 /\ lag >= 0
        /\ \A i \in 1 .. Len(buffer["video"]) :
             /\ buffer["video"][i].skipped = FALSE /\ buffer["video"][i].again = 0
             /\ ~(buffer["video"][i].cloned = TRUE)
    BY <1>1 DEF PlainMarks
  <2>2. shift' = 0 /\ lag' >= 0
    BY <1>1, <2>1
  <2>3. \A i \in 1 .. Len(buffer'["video"]) :
             /\ buffer'["video"][i].skipped = FALSE /\ buffer'["video"][i].again = 0
             /\ ~(buffer'["video"][i].cloned = TRUE)
    BY <1>1, <2>1
  <2>4. \A i \in 1 .. Len(buffer'["audio"]) :
             buffer'["audio"][i].skipped = FALSE /\ ~(buffer'["audio"][i].cloned = TRUE)
    BY DEF NoneCloned
  <2>5. \A m \in Media : \A i \in 1 .. Len(buffer'[m]) :
          /\ buffer'[m][i].skipped = FALSE
          /\ m = "video" => buffer'[m][i].again = 0
          /\ ~(buffer'[m][i].cloned = TRUE)
    <3> SUFFICES ASSUME NEW m \in Media, NEW i \in 1 .. Len(buffer'[m])
                 PROVE  /\ buffer'[m][i].skipped = FALSE
                        /\ m = "video" => buffer'[m][i].again = 0
                        /\ ~(buffer'[m][i].cloned = TRUE)
      OBVIOUS
    <3>1. CASE m = "video"
      BY <2>3, <3>1
    <3>2. CASE m = "audio"
      BY <2>4, <3>2
    <3> QED
      BY <3>1, <3>2, Cast
  <2> QED
    BY <2>2, <2>5, Zenon DEF PlainMarks
<1>7. LimitInv'
  <2>1. More("audio")' => Pos("audio")' <= last'
    <3>1. ASSUME More("audio")' PROVE Pos("audio")' <= last
      <4>1. Pos("audio")' = Pos("audio") \/ Pos("audio")' = Pos("audio") + 1
        BY <3>1 DEF AudioMoves
      <4> QED
        BY <1>5, <4>1
    <3> QED
      BY <1>4, <3>1
  <2>2. More("video")' => Pos("video")' <= last'
    BY <1>1, <1>2, <1>4 DEF LimitInv
  <2> QED
    BY <1>3, <2>1, <2>2, Cast DEF LimitInv
<1>8. SpentInv'
  <2>1. \A m \in Media : \A i \in 2 .. Len(buffer'[m]) :
          buffer'[m][i].ready = TRUE /\ buffer'[m][i].id = length'[m] => buffer'[m][i].eos = TRUE
    <3> SUFFICES ASSUME NEW m \in Media, NEW i \in 2 .. Len(buffer'[m]),
                        buffer'[m][i].ready = TRUE, buffer'[m][i].id = length[m]
                 PROVE  buffer'[m][i].eos = TRUE
      BY <1>1
    <3>1. CASE m = "video"
      BY <1>1, <3>1 DEF SpentInv
    <3>2. CASE m = "audio"
      BY <3>2 DEF AudioSpent
    <3> QED
      BY <3>1, <3>2, Cast
  <2>2. \A m \in Media : Spent(m)' => Spent(m)
    BY <1>2, Cast DEF AudioSpent
  <2>3. \A m \in Media : Spent(m)' => StartsAgain(first)' /\ length'[m] <= first'
    BY <1>1, <1>4, <2>2 DEF SpentInv
  <2>4. ~(Spent("audio") /\ delays = FALSE)'
    BY <1>1 DEF AudioSpent
  <2> QED
    BY <2>1, <2>3, <2>4 DEF SpentInv
<1>9. CoverInv'
  <2>1. \A i \in DOMAIN encoded' : Known(encoded[i])'
    <3> SUFFICES ASSUME NEW i \in DOMAIN encoded PROVE Known(encoded[i])'
      BY <1>1
    <3>1. Known(encoded[i])
      BY <1>1 DEF CoverInv
    <3> QED
      BY <1>1, <3>1, Zenon DEF Known, StartsAgain
  <2> QED
    BY <1>1, <1>2, <1>3, <1>4, <2>1 DEF CoverInv
<1> QED
  BY <1>6, <1>7, <1>8, <1>9 DEF Plain

LEMMA AudioStays ==
  ASSUME MediaInv, AudioKept
  PROVE  MediaInv'
<1> DEFINE h == buffer["audio"][1]
           r == Again(h)
<1>1. /\ General /\ Types /\ OrderInv /\ HeldInv /\ MarksInv
      /\ "video" \in Media /\ "audio" \in Media
      /\ lag \in Int /\ encoded \in Seq(Pair) /\ length' = length /\ filters' = filters
      /\ BufferInv("audio") /\ shift' \in Nat /\ Goes("top")
      /\ lag' = lag /\ pc["main"] = "dispose audio"
      /\ UNCHANGED <<imported, Given, todo, encoded, reason>>
  BY Cast DEF MediaInv, General, Types, Given, AudioKept
<1>0. lag' = lag /\ lag \in Int
  BY <1>1
<1>2. Held("audio") /\ buffer["audio"] # <<>>
  BY <1>1 DEF HeldInv, Held
<1>3. h \in Rec /\ 1 \in 1 .. Len(buffer["audio"]) /\ Len(buffer["audio"]) \in Nat
  BY <1>1, <1>2, HeadOf
<1>4. /\ r \in Rec /\ r.id = h.id /\ r.ready = h.ready /\ r.skipped = h.skipped
      /\ r.cloned = FALSE /\ r.eos = h.eos
  BY <1>3, AgainFrame
<1>5. h.skipped = FALSE /\ h.ready = TRUE /\ h.cloned = TRUE
  BY <1>2 DEF Held, AudioKept
<1>6. /\ buffer'["audio"] = [buffer["audio"] EXCEPT ![1] = r]
      /\ buffer'["video"] = buffer["video"]
      /\ buffer' = [m \in Media |-> buffer'[m]]
  BY <1>1, <1>3 DEF Types, AudioKept
<1> HIDE DEF h, r
<1>7. SameFrames("audio") /\ buffer'["audio"][1] = r /\ SameFrames("video")
  BY <1>1, <1>2, <1>4, <1>6, HeadChanges, NothingChanges DEF h
<1>8. /\ buffer'["audio"] # <<>> /\ Pos("audio")' = Pos("audio")
      /\ (More("audio")' <=> More("audio"))
  BY <1>1, <1>2, <1>7, HeadStays DEF Goes
<1>9. HeldInv'
  BY <1>1 DEF HeldInv, Goes
<1>10. lag' \in Int /\ Balance' = Balance
  <2>1. Extra("audio") = 1 /\ Extra("audio")' = 0
    BY <1>2, <1>4, <1>5, <1>7, <1>8 DEF Extra, Turns, h
  <2>2. VideoGone = 1 /\ VideoGone' = 0 /\ Extra("video")' = Extra("video")
    BY <1>1, <1>6 DEF VideoGone, Goes, Extra, Turns
  <2>3. Extra("video") \in Int
    BY ExtraType
  <2>4. /\ Balance' = lag + Extra("video") - 0 + 0
        /\ Balance = lag + Extra("video") - 1 + 1
    BY <1>0, <2>1, <2>2 DEF Balance
  <2> QED
    BY <1>0, <2>3, <2>4
<1>11. OrderInv'
  BY <1>1, <1>6, <1>7, OrderStays
<1>12. General'
  <2>1. (\A m \in Media : SameFrames(m)) /\ encoded' \in Seq(Pair)
    BY <1>1, <1>7, Cast
  <2> QED
    BY <1>1, <1>6, <1>9, <1>10, <1>11, <2>1, HeadsGeneral
<1>13. ASSUME Unmarked PROVE Plain'
  <2>1. Plain /\ PlainMarks /\ SpentInv
    BY <1>13 DEF MediaInv, Plain
  <2>2. AudioSettles
    BY <1>1, <1>6 DEF AudioSettles, AudioKept
  <2>3. More("audio") /\ AudioMoves
    BY <1>2, <1>8 DEF More, AudioMoves
  <2>4. /\ \A i \in 1 .. Len(buffer["audio"]) : buffer["audio"][i].skipped = FALSE
        /\ delays = TRUE
    BY <1>1, <1>3, <1>5, <2>1 DEF PlainMarks, h
  <2>5. /\ \A i \in 2 .. Len(buffer["audio"]) : buffer["audio"][i].cloned = FALSE
        /\ Len(buffer'["audio"]) = Len(buffer["audio"])
        /\ \A i \in 2 .. Len(buffer["audio"]) : buffer'["audio"][i] = buffer["audio"][i]
    BY <1>1, <1>7 DEF MarksInv, SameFrames
  <2>6. NoneCloned
    <3> SUFFICES ASSUME NEW i \in 1 .. Len(buffer'["audio"])
                 PROVE  /\ buffer'["audio"][i].skipped = FALSE
                        /\ buffer'["audio"][i].cloned = FALSE
      BY DEF NoneCloned
    <3>1. CASE i = 1
      BY <1>4, <1>5, <1>7, <3>1
    <3>2. CASE i # 1
      <4>1. i \in 2 .. Len(buffer["audio"]) /\ i \in 1 .. Len(buffer["audio"])
        BY <1>3, <2>5, <3>2
      <4> QED
        BY <2>4, <2>5, <4>1
    <3> QED
      BY <3>1, <3>2
  <2>7. AudioSpent
    <3>1. Spent("audio")' => Spent("audio")
      BY <1>1, <1>2, <1>4, <1>5, <1>7 DEF Spent, h
    <3>2. \A i \in 2 .. Len(buffer["audio"]) :
            buffer["audio"][i].ready = TRUE /\ buffer["audio"][i].id = length["audio"] =>
              buffer["audio"][i].eos = TRUE
      BY <1>1, <2>1 DEF SpentInv
    <3> QED
      BY <2>4, <2>5, <3>1, <3>2 DEF AudioSpent
  <2> QED
    BY <1>1, <2>1, <2>2, <2>3, <2>6, <2>7, AudioPlain
<1>14. Unmarked' => Unmarked
  BY <1>1 DEF Unmarked
<1> QED
  BY <1>12, <1>13, <1>14 DEF MediaInv

\* An audio frame goes, as the video frame before it has gone.
AudioDropped ==
  /\ pc["main"] = "dispose audio" /\ Goes("top")
  /\ buffer["audio"][1].cloned = FALSE /\ shift' = shift /\ lag' = lag
  /\ buffer' = [buffer EXCEPT !["audio"] = Tail(@)]
  /\ UNCHANGED <<imported, Given, todo, encoded, reason>>

LEMMA AudioRemoved ==
  ASSUME MediaInv, AudioDropped
  PROVE  MediaInv'
<1>1. /\ General /\ Types /\ HeldInv /\ "video" \in Media /\ "audio" \in Media /\ lag \in Int
      /\ length' = length /\ filters' = filters /\ shift' \in Nat
      /\ lag' = lag /\ Goes("top") /\ pc["main"] = "dispose audio"
  BY Cast DEF MediaInv, General, Types, Given, AudioDropped
<1>0. lag' = lag /\ lag \in Int /\ Types
  BY <1>1
<1>2. /\ Held("audio") /\ buffer["audio"] # <<>>
      /\ buffer["audio"][1].skipped = FALSE /\ buffer["audio"][1].cloned = FALSE
  BY <1>1 DEF HeldInv, Held, AudioDropped
<1>3. HeadGoes("audio")
  BY <1>2 DEF HeadGoes, Held, AudioDropped
<1>4. /\ buffer'["video"] = buffer["video"] /\ buffer'["audio"] \in Seq(Rec)
      /\ Extra("audio")' = 0 /\ Extra("video")' = Extra("video")
      /\ More("audio") /\ Pos("audio") = buffer["audio"][1].id
      /\ More("audio")' => Pos("audio")' = Pos("audio") + 1
      /\ buffer'["audio"] # <<>> => 1 \in 1 .. Len(buffer'["audio"])
  BY <1>1, <1>3, NextHead
<1>5. \A i \in 1 .. Len(buffer'["audio"]) :
        /\ i + 1 \in 2 .. Len(buffer["audio"]) /\ buffer'["audio"][i] = buffer["audio"][i + 1]
        /\ buffer'["audio"][i].skipped = FALSE /\ buffer'["audio"][i].cloned = FALSE
  BY <1>1, <1>3, NextHead
<1>6. VideoGone = 1 /\ VideoGone' = 0
  BY <1>1 DEF VideoGone, Goes
<1>7. BalanceMoves("audio")
  <2>1. Extra("audio") = 0
    BY <1>2 DEF Extra, Turns
  <2>2. Extra("video") \in Int
    BY ExtraType
  <2>3. /\ Balance' = lag + Extra("video") - 0 + 0
        /\ Balance = lag + Extra("video") - 0 + 1
    BY <1>0, <1>4, <1>6, <2>1 DEF Balance
  <2>4. Balance' = Balance - 1
    BY <1>0, <2>2, <2>3
  <2> QED
    BY <2>4 DEF BalanceMoves
<1>8. HeldInv' /\ lag' \in Int /\ OneAtATime("audio")
  BY <1>1 DEF HeldInv, Goes, OneAtATime
<1>9. General'
  BY <1>1, <1>3, <1>7, <1>8, RemovedGeneral
<1>10. ASSUME Unmarked PROVE Plain'
  <2>1. Plain /\ SpentInv
    BY <1>10 DEF MediaInv, Plain
  <2>2. AudioSettles
    BY <1>1, <1>4 DEF AudioSettles, AudioDropped
  <2>3. AudioMoves /\ NoneCloned
    BY <1>4, <1>5 DEF AudioMoves, NoneCloned
  <2>4. \A i \in 1 .. Len(buffer'["audio"]) :
          buffer'["audio"][i].ready = TRUE /\ buffer'["audio"][i].id = length["audio"] =>
            buffer'["audio"][i].eos = TRUE
    <3>1. \A i \in 2 .. Len(buffer["audio"]) :
            buffer["audio"][i].ready = TRUE /\ buffer["audio"][i].id = length["audio"] =>
              buffer["audio"][i].eos = TRUE
      BY <1>1, <2>1 DEF SpentInv
    <3> QED
      BY <1>5, <3>1
  <2>5. AudioSpent
    <3>1. ~Spent("audio")'
      <4> SUFFICES ASSUME Spent("audio")' PROVE FALSE
        OBVIOUS
      <4>1. /\ buffer'["audio"] # <<>> /\ buffer'["audio"][1].ready = TRUE
            /\ buffer'["audio"][1].id = length["audio"] /\ buffer'["audio"][1].eos = FALSE
        BY <1>1 DEF Spent
      <4>2. buffer'["audio"][1].eos = TRUE
        BY <1>4, <2>4, <4>1
      <4> QED
        BY <4>1, <4>2
    <3>2. \A i \in 2 .. Len(buffer'["audio"]) : i \in 1 .. Len(buffer'["audio"])
      BY <1>4, LenProperties
    <3> QED
      BY <2>4, <3>1, <3>2 DEF AudioSpent
  <2> QED
    BY <1>1, <1>4, <2>1, <2>2, <2>3, <2>5, AudioPlain
<1>11. Unmarked' => Unmarked
  BY <1>1 DEF Unmarked
<1> QED
  BY <1>9, <1>10, <1>11 DEF MediaInv

LEMMA DisposeAudioKeeps ==
  ASSUME MediaInv, AudioGoes
  PROVE  MediaInv'
<1>1. /\ Types /\ HeldInv /\ "audio" \in Media /\ pc["main"] = "dispose audio"
      /\ shift' = shift /\ Goto("main", "top") /\ lag' = lag
      /\ UNCHANGED <<imported, Given, todo, encoded, reason>>
  BY Cast DEF MediaInv, General, AudioGoes, Dispose, Counted, input, Given
<1>2. Held("audio")
  BY <1>1 DEF HeldInv
<1>3. /\ Head(buffer["audio"]) = buffer["audio"][1] /\ buffer["audio"][1].cloned \in BOOLEAN
  BY <1>1, <1>2, HeadOf DEF Held, Rec
<1>4. Goes("top")
  BY <1>1, MainGoes DEF Labels
<1>5. CASE buffer["audio"][1].cloned = TRUE
  <2>1. buffer' = [buffer EXCEPT !["audio"][1] = Again(@)]
    BY <1>3, <1>5 DEF AudioGoes, Dispose
  <2> QED
    BY <1>1, <1>4, <1>5, <2>1, AudioStays DEF AudioKept
<1>6. CASE buffer["audio"][1].cloned = FALSE
  <2>1. buffer' = [buffer EXCEPT !["audio"] = Tail(@)]
    BY <1>3, <1>6 DEF AudioGoes, Dispose
  <2> QED
    BY <1>1, <1>4, <1>6, <2>1, AudioRemoved DEF AudioDropped
<1> QED
  BY <1>3, <1>5, <1>6

LEMMA EncodeKeeps ==
  ASSUME MediaInv, Encode
  PROVE  MediaInv'
<1>1. CASE EncodeTop \/ EncodeAudioActive \/ EncodeError
  BY <1>1, EncoderMoveKeeps
<1>2. CASE Retrieve("video", "audio")
  <2>1. "video" \in Media
    BY Cast
  <2> QED
    BY <1>2, <2>1, RetrieveKeeps
<1>3. CASE Retrieve("audio", "got")
  <2>1. "audio" \in Media /\ "audio" # "video"
    BY Cast
  <2> QED
    BY <1>3, <2>1, RetrieveKeeps
<1>4. CASE EncodeLast
  BY <1>4, LastKeeps
<1>5. CASE EncodeExport
  BY <1>5, ExportKeeps
<1>6. CASE EncodeDelayed
  BY <1>6, DelayedKeeps
<1>7. CASE EncodeSkip
  BY <1>7, SkipKeeps
<1>8. CASE VideoGoes
  BY <1>8, DisposeVideoKeeps
<1>9. CASE AudioGoes
  BY <1>9, DisposeAudioKeeps
<1> QED
  BY <1>1, <1>2, <1>3, <1>4, <1>5, <1>6, <1>7, <1>8, <1>9 DEF Encode, VideoGoes, AudioGoes

-----------------------------------------------------------------------------
(* The ranges, the shutdown and the signal. *)

\* A range begins where the one before ended or later, so nothing of it has gone by.
RangeBegins ==
  /\ pc["main"] = "next" /\ Len(todo) # 1 /\ Goto("main", "top") /\ todo' = Tail(todo)
  /\ UNCHANGED <<buffer, imported, Given, shift, lag, encoded, reason>>

LEMMA RangeKeeps ==
  ASSUME MediaInv, RangeBegins
  PROVE  MediaInv'
<1>0. /\ pc["main"] = "next" /\ Len(todo) # 1 /\ todo' = Tail(todo)
      /\ UNCHANGED <<buffer, imported, Given, shift, lag, encoded, reason>>
      /\ length' = length /\ delays' = delays /\ plan' = plan /\ filters' = filters
  BY DEF RangeBegins, Given
<1>1. /\ General /\ Types /\ TodoInv /\ MarksInv /\ StepInv /\ OrderInv
      /\ \A m \in Media : BufferInv(m)
      /\ "video" \in Media /\ "audio" \in Media
  BY Cast DEF MediaInv, General
<1>2. Goes("top")
  BY <1>1, MainGoes DEF RangeBegins, Labels
<1>3. /\ todo \in Seq(Nat \X Nat) /\ todo # <<>> /\ Len(todo) \in Nat /\ Len(todo) >= 2
      /\ PlanIsSorted(todo) /\ \A k \in 2 .. Len(todo) : StartsAgain(todo[k][1])
      /\ Head(todo) = todo[1] /\ todo[1] \in Nat \X Nat /\ todo[2] \in Nat \X Nat
  <2>1. /\ todo \in Seq(Nat \X Nat) /\ todo # <<>>
        /\ PlanIsSorted(todo) /\ \A k \in 2 .. Len(todo) : StartsAgain(todo[k][1])
    BY <1>1 DEF TodoInv
  <2>2. Len(todo) \in Nat /\ Len(todo) # 0 /\ Len(todo) # 1
    BY <1>0, <2>1, EmptySeq, LenProperties
  <2>3. Len(todo) >= 2
    <3>1. \A n \in Nat : n # 0 /\ n # 1 => n >= 2
      OBVIOUS
    <3> QED
      BY <2>2, <3>1
  <2>4. todo[1] \in Nat \X Nat /\ todo[2] \in Nat \X Nat
    BY <2>1, <2>2, <2>3, ElementOfSeq
  <2>5. Head(todo) = todo[1]
    BY <2>1, <2>2, <2>3
  <2> QED
    BY <2>1, <2>2, <2>3, <2>4, <2>5
<1>4. /\ todo' \in Seq(Nat \X Nat) /\ Len(todo') = Len(todo) - 1
      /\ \A i \in 1 .. Len(todo') : todo'[i] = todo[i + 1]
  BY <1>0, <1>3, HeadTailProperties
<1>5. /\ todo' # <<>> /\ todo'[1] = todo[2] /\ Head(todo') = todo[2]
      /\ DOMAIN todo' = 1 .. Len(todo') /\ DOMAIN todo = 1 .. Len(todo)
  <2>1. Len(todo') \in Nat \ {0} /\ 1 + 1 = 2
    <3>1. \A n \in Nat : n >= 2 => n - 1 \in Nat \ {0}
      OBVIOUS
    <3>2. Len(todo) - 1 \in Nat \ {0}
      BY <1>3, <3>1
    <3> QED
      BY <1>4, <3>2
  <2>2. todo' # <<>> /\ todo'[1] = todo[2]
    BY <1>4, <2>1, EmptySeq
  <2>3. Head(todo') = todo'[1]
    BY <1>4, <2>1, <2>2
  <2> QED
    BY <1>3, <1>4, <2>2, <2>3, LenProperties
<1>6. TodoInv'
  <2>1. \A i \in 1 .. Len(todo') :
          i + 1 \in 2 .. Len(todo) /\ i + 1 \in 1 .. Len(todo) /\ todo'[i] = todo[i + 1]
    <3>1. \A n \in Nat : \A i \in 1 .. n - 1 : i + 1 \in 2 .. n /\ i + 1 \in 1 .. n
      OBVIOUS
    <3> QED
      BY <1>3, <1>4, <3>1
  <2>2. \A i \in 1 .. Len(todo') : todo'[i][1] < todo'[i][2]
    BY <1>3, <1>5, <2>1 DEF PlanIsSorted
  <2>3. \A i \in 1 .. Len(todo') - 1 : todo'[i][2] <= todo'[i + 1][1]
    <3> SUFFICES ASSUME NEW i \in 1 .. Len(todo') - 1
                 PROVE  todo'[i][2] <= todo'[i + 1][1]
      OBVIOUS
    <3>1. /\ i \in 1 .. Len(todo') /\ i + 1 \in 1 .. Len(todo')
          /\ i + 1 \in 1 .. Len(todo) - 1
      BY <1>3, <1>4
    <3>2. todo[i + 1][2] <= todo[(i + 1) + 1][1]
      BY <1>3, <3>1 DEF PlanIsSorted
    <3> QED
      BY <2>1, <3>1, <3>2
  <2>4. \A k \in 2 .. Len(todo') : StartsAgain(todo'[k][1])
    <3> SUFFICES ASSUME NEW k \in 2 .. Len(todo') PROVE StartsAgain(todo'[k][1])
      OBVIOUS
    <3>1. k \in 1 .. Len(todo')
      BY <1>3, <1>4
    <3> QED
      BY <1>3, <2>1, <3>1
  <2>5. PlanIsSorted(todo')
    BY <1>5, <2>2, <2>3 DEF PlanIsSorted
  <2> QED
    BY <1>0, <1>4, <1>5, <2>4, <2>5 DEF TodoInv, StartsAgain, PlanIsSorted
<1>7. /\ last \in Nat /\ first' \in Nat /\ last' \in Nat
      /\ last <= first' /\ first' < last' /\ StartsAgain(first)'
  <2>1. last = todo[1][2] /\ first' = todo[2][1] /\ last' = todo[2][2]
    BY <1>3, <1>5 DEF last, first
  <2>2. 1 \in 1 .. Len(todo) - 1 /\ 2 \in 2 .. Len(todo) /\ 2 \in DOMAIN todo /\ 1 + 1 = 2
    BY <1>3, <1>5
  <2>3. todo[1][2] <= todo[2][1] /\ todo[2][1] < todo[2][2]
    BY <1>3, <2>2 DEF PlanIsSorted
  <2>4. StartsAgain(todo[2][1])
    BY <1>3, <2>2
  <2> QED
    BY <1>0, <1>3, <2>1, <2>3, <2>4 DEF StartsAgain
<1>8. \A m \in Media : /\ Pos(m)' = Pos(m) /\ (More(m)' <=> More(m))
                       /\ (Spent(m)' <=> Spent(m)) /\ BufferInv(m)'
  BY <1>0, <1>1, <1>2 DEF Pos, More, Spent, BufferInv, Goes
<1>9. \A m \in Media : Pos(m) \in Nat
  BY <1>1, PosType
<1>10. Types'
  BY <1>0, <1>1, <1>2 DEF Types, Goes
<1>11. HeldInv' /\ MarksInv'
  BY <1>0, <1>1, <1>2 DEF HeldInv, MarksInv, Goes
<1>12. /\ Balance' = Balance /\ VideoAtHand' = 0 /\ VideoAtHand = 0
       /\ pc'["main"] = "top" /\ pc["main"] = "next"
  BY <1>0, <1>2 DEF Balance, Extra, Turns, VideoGone, VideoAtHand, Goes
<1>13. StepInv'
  BY <1>0, <1>1, <1>8, <1>12 DEF StepInv
<1>14. OrderInv'
  <2>1. InStep'
    BY <1>0, <1>1 DEF OrderInv, InStep
  <2>2. \A i \in DOMAIN encoded' : encoded'[i].v < last'
    <3> SUFFICES ASSUME NEW i \in DOMAIN encoded PROVE encoded[i].v < last'
      BY <1>0
    <3>1. encoded[i].v \in Nat
      BY <1>1, PairType
    <3>2. encoded[i].v < last
      BY <1>1 DEF OrderInv
    <3>3. last \in Nat /\ first' \in Nat /\ last' \in Nat /\ last <= first' /\ first' < last'
      BY <1>7
    <3> QED
      BY <3>1, <3>2, <3>3
  <2>3. \A i \in DOMAIN encoded : Passed(encoded[i]) => Passed(encoded[i])'
    BY <1>0, <1>1, <1>8, <1>12 DEF Passed
  <2>4. More("video")' <=> More("video")
    BY <1>1, <1>8
  <2> QED
    BY <1>0, <1>1, <2>1, <2>2, <2>3, <2>4 DEF OrderInv, Later
<1>15. General'
  BY <1>6, <1>8, <1>10, <1>11, <1>13, <1>14 DEF General
<1>16. ASSUME Unmarked PROVE Plain'
  <2>1. PlainMarks /\ LimitInv /\ SpentInv /\ CoverInv
    BY <1>16 DEF MediaInv, Plain
  <2>2. \A m \in Media : More(m) => Pos(m) <= first' /\ Pos(m) <= last'
    <3>1. \A p, x, y, z \in Nat : p <= x /\ x <= y /\ y < z => p <= y /\ p <= z
      OBVIOUS
    <3>2. \A m \in Media : More(m) => Pos(m) <= last
      BY <2>1 DEF LimitInv
    <3> QED
      BY <1>7, <1>9, <3>1, <3>2
  <2>3. LimitInv'
    BY <1>8, <1>12, <2>2 DEF LimitInv
  <2>4. PlainMarks'
    BY <1>0, <1>12, <2>1 DEF PlainMarks
  <2>5. SpentInv'
    <3>1. \A m \in Media : Spent(m) => More(m) /\ length[m] = Pos(m)
      BY DEF Spent, More, Pos
    <3>2. \A m \in Media : Spent(m)' => StartsAgain(first)' /\ length'[m] <= first'
      BY <1>0, <1>7, <1>8, <2>2, <3>1
    <3>3. More("video")' => Pos("video")' <= first'
      BY <1>1, <1>8, <2>2
    <3>4. \A m \in Media : \A i \in 2 .. Len(buffer'[m]) :
            buffer'[m][i].ready = TRUE /\ buffer'[m][i].id = length'[m] => buffer'[m][i].eos = TRUE
      BY <1>0, <2>1 DEF SpentInv
    <3> QED
      BY <3>2, <3>3, <3>4 DEF SpentInv
  <2>6. CoverInv'
    <3>1. \A i \in DOMAIN encoded' : Known(encoded[i])'
      <4> SUFFICES ASSUME NEW i \in DOMAIN encoded PROVE Known(encoded[i])'
        BY <1>0
      <4>1. Known(encoded[i])
        BY <2>1 DEF CoverInv
      <4> QED
        BY <1>0, <4>1, Zenon DEF Known, StartsAgain
    <3>2. Pos("video")' = Pos("video") /\ (More("video")' <=> More("video"))
      BY <1>1, <1>8
    <3>3. More("video") => first' .. (Pos("video") + 0 - 1) = {}
      BY <1>1, <1>7, <1>9, <2>2
    <3> QED
      BY <1>0, <1>12, <3>1, <3>2, <3>3 DEF CoverInv
  <2> QED
    BY <2>3, <2>4, <2>5, <2>6 DEF Plain
<1>17. Unmarked' => Unmarked
  BY <1>0 DEF Unmarked
<1> QED
  BY <1>15, <1>16, <1>17 DEF MediaInv

LEMMA MainKeeps ==
  ASSUME MediaInv, Main
  PROVE  MediaInv'
<1>1. CASE Encode
  BY <1>1, EncodeKeeps
<1>2. ASSUME NEW l \in {"stop", "interrupt", "cancel", "wake import", "join", "end"},
             Goto("main", l), Ended,
             UNCHANGED <<buffer, imported, Given, shift, lag, encoded, todo>>
      PROVE  MediaInv'
  <2>1. l \in Labels /\ l \notin {"dispose video", "dispose audio", "audio", "got", "next"}
    BY DEF Labels
  <2>2. pc["main"] \notin {"dispose video", "dispose audio"}
    BY <1>2 DEF Ended
  <2>3. Ended'
    <3>1. pc'["main"] = l
      BY <1>2, <2>1, MainGoes DEF MediaInv, General, Goes
    <3> QED
      BY <3>1 DEF Ended
  <2> QED
    BY <1>2, <2>1, <2>2, <2>3, MainMoveKeeps
<1>3. CASE NextRange
  <2>1. pc["main"] = "next"
        /\ UNCHANGED <<buffer, imported, Given, shift, lag, encoded, reason>>
    BY <1>3 DEF NextRange, input, frames, Given
  <2>2. CASE status = "INTERRUPTED" \/ Len(todo) = 1
    BY <1>2, <1>3, <2>1, <2>2 DEF NextRange, Ended
  <2>3. CASE ~(status = "INTERRUPTED" \/ Len(todo) = 1)
    BY <1>3, <2>1, <2>3, RangeKeeps DEF NextRange, RangeBegins
  <2> QED
    BY <2>2, <2>3
<1>4. CASE Stop \/ InterruptAll("main", "cancel") \/ Cancel \/ WakeImport \/ Join
  <2>1. UNCHANGED <<buffer, imported, Given, shift, lag, encoded, todo>>
    BY <1>4 DEF Stop, InterruptAll, Cancel, WakeImport, Join, input, frames, loop, Given
  <2> QED
    BY <1>2, <1>4, <2>1 DEF Stop, InterruptAll, Cancel, WakeImport, Join, Ended
<1> QED
  BY <1>1, <1>3, <1>4 DEF Main

\* The signal handler changes the run status and wakes everybody: no frame is touched.
LEMMA EventKeeps ==
  ASSUME MediaInv, Signal \/ InterruptAll("event", "exit")
  PROVE  MediaInv'
<1>1. Types /\ UNCHANGED <<buffer, imported, Given, shift, lag, encoded, todo, reason>>
  BY DEF MediaInv, General, Signal, InterruptAll, input, frames, loop, Given
<1>2. PICK l \in Labels : Goto("event", l)
  BY DEF Signal, InterruptAll, Labels
<1>3. Moves("event")
  BY <1>1, <1>2, GotoMoves, Cast DEF Types
<1>4. /\ pc' \in [Threads -> Labels] /\ pc'["main"] = pc["main"]
      /\ \A n \in Media : pc'[n] = pc[n]
  BY <1>3, Cast DEF Moves
<1>5. NothingBegun
  BY <1>4 DEF NothingBegun
<1> QED
  BY <1>1, <1>4, <1>5, StandingKeeps

-----------------------------------------------------------------------------
(* The theorems. *)

LEMMA InitMediaInv == Init => MediaInv
<1> SUFFICES ASSUME Init PROVE MediaInv
  OBVIOUS
<1>1. /\ length \in [Media -> Nat] /\ delays \in BOOLEAN /\ lag = 0 /\ encoded = <<>>
      /\ buffer = [m \in Media |-> <<>>] /\ imported = [m \in Media |-> 0]
      /\ pc = [t \in Threads |-> "top"] /\ plan \in Seq(Nat \X Nat) /\ plan # <<>>
      /\ PlanIsSorted(plan) /\ todo = plan /\ reason = "none" /\ shift = 0
  BY MediaConstants DEF Init, Settings
<1>2. \A m \in Media : buffer[m] = <<>> /\ Len(buffer[m]) = 0 /\ imported[m] = 0 /\ Pos(m) = 0
  BY <1>1 DEF Pos
<1>3. "video" \in Media /\ "audio" \in Media /\ pc["main"] = "top"
  BY <1>1, Cast
<1>4. Types
  BY <1>1 DEF Types, Labels
<1>5. TodoInv
  <2>1. todo \in Seq(Nat \X Nat) /\ todo # <<>> /\ PlanIsSorted(todo)
    BY <1>1
  <2> QED
    BY <1>1, <2>1 DEF TodoInv, StartsAgain
<1>6. first \in Nat /\ last \in Nat /\ first < last
  BY <1>5, RangeType
<1>7. ASSUME NEW m \in Media PROVE BufferInv(m)
  <2>1. /\ buffer[m] = <<>> /\ Len(buffer[m]) = 0 /\ imported[m] = 0 /\ length[m] \in Nat
        /\ pc[m] = "top"
    BY <1>1, <1>2, Cast
  <2>2. imported[m] <= length[m] /\ 1 .. Len(buffer[m]) = {} /\ 1 .. (Len(buffer[m]) - 1) = {}
    BY <2>1
  <2> QED
    BY <2>1, <2>2 DEF BufferInv
<1>8. \A m \in Media : 1 .. Len(buffer[m]) = {} /\ 2 .. Len(buffer[m]) = {}
  <2>1. 1 .. 0 = {} /\ 2 .. 0 = {}
    OBVIOUS
  <2> QED
    BY <1>2, <2>1
<1>9. HeldInv /\ MarksInv
  BY <1>3, <1>8 DEF HeldInv, MarksInv
<1>10. StepInv
  <2>1. /\ Pos("video") = 0 /\ Pos("audio") = 0 /\ VideoGone = 0 /\ lag = 0
        /\ Extra("video") = 0 /\ Extra("audio") = 0
    BY <1>1, <1>2, <1>3 DEF Extra, VideoGone
  <2> QED
    BY <2>1 DEF StepInv, Balance
<1>11. OrderInv
  BY <1>1 DEF OrderInv, InStep
<1>12. Plain
  <2>1. PlainMarks
    BY <1>1, <1>8 DEF PlainMarks
  <2>2. LimitInv
    BY <1>2, <1>3, <1>6 DEF LimitInv
  <2>3. SpentInv
    BY <1>2, <1>3, <1>8 DEF SpentInv, Spent
  <2>4. CoverInv
    <3>1. first .. (Pos("video") + VideoAtHand - 1) = {}
      BY <1>2, <1>3, <1>6 DEF VideoAtHand
    <3> QED
      BY <1>1, <3>1 DEF CoverInv
  <2> QED
    BY <2>1, <2>2, <2>3, <2>4 DEF Plain
<1> QED
  BY <1>4, <1>5, <1>7, <1>9, <1>10, <1>11, <1>12 DEF MediaInv, General

LEMMA NextMediaInv == MediaInv /\ [Next]_vars => MediaInv'
<1> SUFFICES ASSUME MediaInv, [Next]_vars PROVE MediaInv'
  OBVIOUS
<1>1. ASSUME NEW m \in Media, Import(m) PROVE MediaInv'
  BY <1>1, ImportKeeps
<1>2. CASE Main
  BY <1>2, MainKeeps
<1>3. CASE Signal \/ InterruptAll("event", "exit")
  BY <1>3, EventKeeps
<1>4. CASE UNCHANGED vars
  <2>1. pc' = pc
        /\ UNCHANGED <<buffer, imported, Given, shift, lag, encoded, todo, reason>>
    BY <1>4 DEF vars, input, frames, loop, Given
  <2>2. pc' \in [Threads -> Labels] /\ NothingBegun
    BY <2>1 DEF NothingBegun, MediaInv, General, Types
  <2> QED
    BY <2>1, <2>2, StandingKeeps
<1> QED
  BY <1>1, <1>2, <1>3, <1>4 DEF Next

\* The threads of decoder.c, encoder.c and transcode.c keep the heads of the two buffers as far
\* apart as the frames that were skipped, cloned or delayed before them say, and hand out the
\* frames in order.
THEOREM MediaIndInv == Spec => []MediaInv
<1>1. Init => MediaInv
  BY InitMediaInv
<1>2. MediaInv /\ [Next]_vars => MediaInv'
  BY NextMediaInv
<1> QED
  BY <1>1, <1>2, PTL DEF Spec

\* encoder.c: each video frame is encoded with the audio frame that is due, the one of the same
\* number but for each frame that a filter has skipped or cloned and each delay, whatever was
\* left early and in whatever order the streams came.
THEOREM AudioVideoInStep == Spec => []InStep
<1>1. MediaInv => InStep
  BY DEF MediaInv, General, OrderInv
<1> QED
  BY <1>1, MediaIndInv, PTL

\* encoder.c and transcode_mode_default: frames are encoded in order, none twice unless it was
\* kept because it was cloned, although the one that ends a range comes again in the next; what
\* only carries an end is encoded in the known cases only, as long as no filter marks frames.
THEOREM EncodedInOrder == Spec => []EncodedOnce
<1>1. ASSUME MediaInv PROVE EncodedOnce
  <2>1. \A i \in DOMAIN encoded : i > 1 => Later(encoded[i - 1], encoded[i])
    BY <1>1 DEF MediaInv, General, OrderInv
  <2>2. Unmarked => \A i \in DOMAIN encoded : Known(encoded[i])
    BY <1>1 DEF MediaInv, Plain, CoverInv
  <2> SUFFICES ASSUME NEW i \in DOMAIN encoded
               PROVE  /\ i > 1 => Later(encoded[i - 1], encoded[i])
                      /\ Unmarked => Known(encoded[i])
    BY Zenon DEF EncodedOnce, Later, Known
  <2> QED
    BY <2>1, <2>2
<1> QED
  BY <1>1, MediaIndInv, PTL

\* encoder.h: the last frame of a range is not encoded, and a range that ended on its last frame
\* has been encoded as a whole, if no filter skips or clones frames and none is delayed.
THEOREM RangesExact == Spec => []RangeExact
<1>1. ASSUME MediaInv PROVE RangeExact
  <2>1. General /\ Types /\ OrderInv /\ TodoInv
    BY <1>1 DEF MediaInv, General
  <2>2. last \in Nat
    BY <2>1, RangeType
  <2>3. \A i \in DOMAIN encoded : encoded[i].v # last
    <3> SUFFICES ASSUME NEW i \in DOMAIN encoded, encoded[i].v = last PROVE FALSE
      OBVIOUS
    <3>1. encoded[i].v < last
      BY <2>1 DEF OrderInv
    <3> QED
      BY <2>2, <3>1
  <2>4. ASSUME Unmarked, reason = "last frame", pc["main"] = "next", delays = FALSE,
               NEW v \in first .. last - 1
        PROVE  \E i \in DOMAIN encoded : encoded[i].v = v
    <3>0. CoverInv
      BY <1>1, <2>4 DEF MediaInv, Plain
    <3>1. buffer["video"] # <<>> /\ Pos("video") = last
      BY <2>4, <3>0 DEF CoverInv
    <3>2. More("video") /\ VideoAtHand = 0
      BY <2>4, <3>1 DEF More, VideoAtHand
    <3>3. v \in first .. (Pos("video") + VideoAtHand - 1)
      BY <2>2, <3>1, <3>2
    <3> QED
      BY <2>4, <3>0, <3>2, <3>3 DEF CoverInv
  <2>5. delays \in BOOLEAN
    BY <2>1 DEF Types
  <2> QED
    BY <2>3, <2>4, <2>5 DEF RangeExact
<1> QED
  BY <1>1, MediaIndInv, PTL

=============================================================================
