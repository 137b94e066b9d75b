---------------------------- MODULE FrameChainProofs ----------------------------
(***************************************************************************)
(* Proofs about FrameChain, for a ring of any size: while no filter drops  *)
(* a frame behind a duplicate, the pointers of framebuffer.c stay those of *)
(* a list, forwards and backwards, and the macros implement the operations *)
(* on a sequence that FrameBuffer is built from.                           *)
(***************************************************************************)
EXTENDS FrameChain, Integers, FiniteSetTheorems, SequenceTheorems, WellFoundedInduction, TLAPS

-----------------------------------------------------------------------------
(* Naturals and sequences *)

\* A set of natural numbers that holds 0 and is closed under successor holds them all.
LEMMA NatClosed ==
  ASSUME NEW T, 0 \in T, \A n \in Nat : n \in T => n + 1 \in T
  PROVE  Nat \subseteq T
<1> SUFFICES ASSUME Nat \ T # {} PROVE FALSE
  OBVIOUS
<1> DEFINE R == {pair \in Nat \X Nat : pair[1] < pair[2]}
<1>1. IsWellFoundedOn(R, Nat)
  BY NatLessThanWellFounded DEF OpToRel
<1>2. \E n \in Nat \ T : \A m \in Nat \ T : ~ (<<m, n>> \in R)
  <2> HIDE DEF R
  <2>1. Nat \ T \subseteq Nat
    OBVIOUS
  <2> QED
    BY <1>1, <2>1, WFMin
<1>3. PICK n \in Nat \ T : \A m \in Nat \ T : ~ (<<m, n>> \in R)
  BY <1>2
<1>4. n # 0 /\ n - 1 \in Nat
  OBVIOUS
<1>5. <<n - 1, n>> \in R
  <2>1. <<n - 1, n>> \in Nat \X Nat /\ <<n - 1, n>>[1] = n - 1 /\ <<n - 1, n>>[2] = n
    BY <1>4
  <2>2. n - 1 < n
    OBVIOUS
  <2> QED
    BY <2>1, <2>2
<1>6. n - 1 \in T
  BY <1>3, <1>4, <1>5
<1> QED
  BY <1>4, <1>6

\* new is the list seq with s linked behind position i.
Linked(new, seq, i, s) ==
  /\ new \in Seq(Frames) /\ Len(new) = Len(seq) + 1
  /\ \A j \in 1..Len(seq) + 1 :
       new[j] = IF j <= i THEN seq[j] ELSE IF j = i + 1 THEN s ELSE seq[j - 1]

\* new is the list seq without position i.
Unlinked(new, seq, i) ==
  /\ new \in Seq(Frames) /\ Len(new) = Len(seq) - 1
  /\ \A j \in 1..Len(seq) - 1 : new[j] = IF j < i THEN seq[j] ELSE seq[j + 1]

\* InsertAt links a frame behind another one.
LEMMA InsertAtLinks ==
  ASSUME NEW seq \in Seq(Frames), NEW i \in 1..Len(seq), NEW s \in Frames
  PROVE  Linked(List!InsertAt(seq, i + 1, s), seq, i, s)
<1> DEFINE n == Len(seq)
           a == SubSeq(seq, 1, i)
           b == SubSeq(seq, i + 1, n)
           c == a \o <<s>>
           d == c \o b
<1>1. n \in Nat /\ i \in 1..n
  OBVIOUS
<1>2. a \in Seq(Frames) /\ Len(a) = i /\ \A j \in 1..i : a[j] = seq[j]
  BY <1>1
<1>3. b \in Seq(Frames) /\ Len(b) = n - i /\ \A j \in 1..n - i : b[j] = seq[i + j]
  BY <1>1
<1>4. List!InsertAt(seq, i + 1, s) = d
  <2>1. (i + 1) - 1 = i
    BY <1>1
  <2>2. List!InsertAt(seq, i + 1, s) = SubSeq(seq, 1, i) \o <<s>> \o SubSeq(seq, i + 1, Len(seq))
    BY <2>1, Zenon DEF List!InsertAt
  <2> QED
    BY <2>2
<1> HIDE DEF a, b, n
<1>5. c \in Seq(Frames) /\ Len(c) = i + 1
      /\ \A j \in 1..i + 1 : c[j] = IF j <= i THEN seq[j] ELSE s
  BY <1>1, <1>2
<1> HIDE DEF c
<1>6. /\ d \in Seq(Frames) /\ Len(d) = Len(c) + Len(b)
      /\ \A j \in 1..Len(c) + Len(b) : d[j] = IF j <= Len(c) THEN c[j] ELSE b[j - Len(c)]
  BY <1>3, <1>5, ConcatProperties
<1> HIDE DEF d
<1>7. Len(d) = n + 1
  BY <1>1, <1>3, <1>5, <1>6
<1>8. ASSUME NEW j \in 1..n + 1
      PROVE  d[j] = IF j <= i THEN seq[j] ELSE IF j = i + 1 THEN s ELSE seq[j - 1]
  <2>1. j \in 1..Len(c) + Len(b)
    BY <1>6, <1>7
  <2>2. CASE j <= i + 1
    <3>1. d[j] = c[j]
      BY <1>5, <1>6, <2>1, <2>2
    <3> QED
      BY <1>1, <1>5, <2>2, <3>1
  <2>3. CASE j > i + 1
    <3>1. j - (i + 1) \in 1..n - i /\ i + (j - (i + 1)) = j - 1
      BY <1>1, <2>3
    <3>2. d[j] = b[j - (i + 1)]
      BY <1>1, <1>5, <1>6, <2>1, <2>3
    <3>3. d[j] = seq[j - 1]
      BY <1>3, <3>1, <3>2
    <3> QED
      BY <1>1, <2>3, <3>3
  <2> QED
    BY <1>1, <2>2, <2>3
<1> QED
  BY <1>4, <1>6, <1>7, <1>8 DEF Linked, n

\* RemoveAt links the neighbours of a frame with each other.
LEMMA RemoveAtUnlinks ==
  ASSUME NEW seq \in Seq(Frames), NEW i \in 1..Len(seq)
  PROVE  Unlinked(List!RemoveAt(seq, i), seq, i)
<1> DEFINE n == Len(seq)
           a == SubSeq(seq, 1, i - 1)
           b == SubSeq(seq, i + 1, n)
           d == a \o b
<1>1. n \in Nat /\ i \in 1..n
  OBVIOUS
<1>2. a \in Seq(Frames) /\ Len(a) = i - 1 /\ \A j \in 1..i - 1 : a[j] = seq[j]
  BY <1>1
<1>3. b \in Seq(Frames) /\ Len(b) = n - i /\ \A j \in 1..n - i : b[j] = seq[i + j]
  BY <1>1
<1>4. List!RemoveAt(seq, i) = d
  BY DEF List!RemoveAt
<1> HIDE DEF a, b, n
<1>5. /\ d \in Seq(Frames) /\ Len(d) = Len(a) + Len(b)
      /\ \A j \in 1..Len(a) + Len(b) : d[j] = IF j <= Len(a) THEN a[j] ELSE b[j - Len(a)]
  BY <1>2, <1>3, ConcatProperties
<1> HIDE DEF d
<1>6. Len(d) = n - 1
  BY <1>1, <1>2, <1>3, <1>5
<1>7. ASSUME NEW j \in 1..n - 1 PROVE d[j] = IF j < i THEN seq[j] ELSE seq[j + 1]
  <2>1. j \in 1..Len(a) + Len(b)
    BY <1>5, <1>6
  <2>2. CASE j < i
    <3>1. d[j] = a[j] /\ j \in 1..i - 1
      BY <1>1, <1>2, <1>5, <2>1, <2>2
    <3> QED
      BY <1>2, <2>2, <3>1
  <2>3. CASE ~ (j < i)
    <3>1. j - (i - 1) \in 1..n - i /\ i + (j - (i - 1)) = j + 1
      BY <1>1, <2>3
    <3>2. d[j] = b[j - (i - 1)]
      BY <1>1, <1>2, <1>5, <2>1, <2>3
    <3> DEFINE k == j - (i - 1)
    <3>3. k \in 1..n - i /\ i + k = j + 1 /\ d[j] = b[k]
      BY <3>1, <3>2
    <3> HIDE DEF k
    <3>4. b[k] = seq[i + k]
      BY <1>3, <3>3
    <3>5. seq[i + k] = seq[j + 1]
      BY <3>3
    <3>6. d[j] = seq[j + 1]
      BY <3>3, <3>4, <3>5
    <3> QED
      BY <2>3, <3>6
  <2> QED
    BY <2>2, <2>3
<1> QED
  BY <1>4, <1>5, <1>6, <1>7 DEF Unlinked, n
-----------------------------------------------------------------------------
(* The way over the next pointers *)

\* The pointers h and nx are those of the list c, and every frame is in it once.
IsChain(c, h, nx) ==
  /\ c \in Seq(Frames)
  /\ \A i, j \in 1..Len(c) : c[i] = c[j] => i = j
  /\ h = IF c = <<>> THEN NoFrame ELSE c[1]
  /\ \A i \in 1..Len(c) : nx[c[i]] = IF i = Len(c) THEN NoFrame ELSE c[i + 1]

\* A list holds at most as many frames as there are.
LEMMA ChainFits ==
  ASSUME NEW c, NEW h, NEW nx, IsChain(c, h, nx)
  PROVE  /\ Len(c) \in Nat /\ Cardinality(Frames) \in Nat /\ Len(c) <= Cardinality(Frames)
         /\ Cardinality({c[i] : i \in 1..Len(c)}) = Len(c)
<1>1. c \in Seq(Frames) /\ Len(c) \in Nat /\ \A i, j \in 1..Len(c) : c[i] = c[j] => i = j
  BY DEF IsChain
<1>2. IsFiniteSet(1..Len(c)) /\ Cardinality(1..Len(c)) = Len(c)
  <2>1. \A b \in Nat : IsFiniteSet(1..b) /\ Cardinality(1..b) = b
    BY FS_Interval
  <2> QED
    BY <1>1, <2>1
<1> DEFINE S == {c[i] : i \in 1..Len(c)}
           f == [i \in 1..Len(c) |-> c[i]]
<1>3. f \in [1..Len(c) -> S] /\ \A i \in 1..Len(c) : f[i] = c[i]
  OBVIOUS
<1>4. \A s \in S : \E i \in 1..Len(c) : f[i] = s
  OBVIOUS
<1>5. S \subseteq Frames
  BY <1>1
<1> HIDE DEF f, S
<1>6. f \in Bijection(1..Len(c), S)
  BY <1>1, <1>3, <1>4, Zenon DEF Bijection, Injection, Surjection, IsInjective
<1>7. Cardinality(S) = Len(c)
  BY <1>2, <1>6, FS_Bijection DEF ExistsBijection
<1>8. Cardinality(S) <= Cardinality(Frames) /\ Cardinality(Frames) \in Nat
  BY <1>5, FramesOK, FS_Subset, FS_CardinalityType
<1>9. Cardinality({c[i] : i \in 1..Len(c)}) = Len(c)
  BY <1>7, Zenon DEF S
<1>10. Len(c) <= Cardinality(Frames)
  BY <1>7, <1>8
<1> QED
  BY <1>1, <1>8, <1>9, <1>10, Zenon

\* The recursion of Walk.
IsWalk(w, h, nx) ==
  w = [n \in 0..Cardinality(Frames) |->
         IF n = 0 THEN h
         ELSE IF w[n - 1] = NoFrame THEN NoFrame ELSE nx[w[n - 1]]]

\* Over the pointers of a list, Walk passes over its frames and then stays at the end.
LEMMA WalkOfChain ==
  ASSUME NEW c, NEW h, NEW nx, IsChain(c, h, nx)
  PROVE  Walk(h, nx) = [n \in 0..Cardinality(Frames) |-> IF n < Len(c) THEN c[n + 1] ELSE NoFrame]
<1> DEFINE N == Cardinality(Frames)
           way == [n \in 0..N |-> IF n < Len(c) THEN c[n + 1] ELSE NoFrame]
<1>1. N \in Nat /\ Len(c) \in Nat /\ c \in Seq(Frames)
  BY ChainFits DEF IsChain
<1>2. /\ h = IF c = <<>> THEN NoFrame ELSE c[1]
      /\ \A i \in 1..Len(c) : nx[c[i]] = IF i = Len(c) THEN NoFrame ELSE c[i + 1]
  BY DEF IsChain
<1>3. \A i \in 1..Len(c) : c[i] # NoFrame
  BY <1>1, FramesOK
<1>4. IsWalk(way, h, nx)
  <2>1. ASSUME NEW n \in 0..N
        PROVE  way[n] = IF n = 0 THEN h
                        ELSE IF way[n - 1] = NoFrame THEN NoFrame ELSE nx[way[n - 1]]
    <3>1. way[n] = IF n < Len(c) THEN c[n + 1] ELSE NoFrame
      OBVIOUS
    <3>2. CASE n = 0
      <4>1. c = <<>> <=> ~ (0 < Len(c))
        BY <1>1
      <4> HIDE DEF way
      <4> QED
        BY <1>2, <3>1, <3>2, <4>1
    <3>3. CASE n # 0
      <4>1. n - 1 \in 0..N /\ n - 1 < n /\ (n - 1) + 1 = n
        BY <1>1, <3>3
      <4>2. way[n - 1] = IF n - 1 < Len(c) THEN c[n] ELSE NoFrame
        BY <4>1
      <4> HIDE DEF way
      <4>3. CASE n - 1 < Len(c)
        <5>1. n \in 1..Len(c)
          BY <1>1, <3>3, <4>3
        <5>2. way[n - 1] = c[n] /\ c[n] # NoFrame
          BY <1>3, <4>2, <4>3, <5>1
        <5>3. nx[c[n]] = way[n]
          BY <1>1, <1>2, <3>1, <5>1
        <5> QED
          BY <3>3, <5>2, <5>3
      <4>4. CASE ~ (n - 1 < Len(c))
        BY <1>1, <3>1, <3>3, <4>1, <4>2, <4>4
      <4> QED
        BY <4>3, <4>4
    <3> QED
      BY <3>2, <3>3
  <2>2. way = [n \in 0..N |-> way[n]]
    OBVIOUS
  <2> HIDE DEF way
  <2> QED
    BY <2>1, <2>2 DEF IsWalk
<1> HIDE DEF way
<1>5. ASSUME NEW w, IsWalk(w, h, nx) PROVE w = way
  <2> HIDE DEF N
  <2> DEFINE T == {n \in Nat : n <= N => w[n] = way[n]}
  <2>0. /\ \A n \in 0..N : w[n] = IF n = 0 THEN h
                                  ELSE IF w[n - 1] = NoFrame THEN NoFrame ELSE nx[w[n - 1]]
        /\ \A n \in 0..N : way[n] = IF n = 0 THEN h
                                    ELSE IF way[n - 1] = NoFrame THEN NoFrame ELSE nx[way[n - 1]]
        /\ w = [n \in 0..N |-> w[n]] /\ way = [n \in 0..N |-> way[n]]
    BY <1>4, <1>5 DEF IsWalk, N
  <2>1. 0 \in T
    <3>1. 0 \in 0..N
      BY <1>1
    <3> QED
      BY <2>0, <3>1
  <2>2. ASSUME NEW n \in Nat, n \in T PROVE n + 1 \in T
    <3> SUFFICES ASSUME n + 1 <= N PROVE w[n + 1] = way[n + 1]
      OBVIOUS
    <3>1. w[n] = way[n]
      BY <1>1, <2>2
    <3>2. n + 1 \in 0..N /\ n + 1 # 0 /\ (n + 1) - 1 = n
      BY <1>1
    <3>3. /\ w[n + 1] = IF w[n] = NoFrame THEN NoFrame ELSE nx[w[n]]
          /\ way[n + 1] = IF way[n] = NoFrame THEN NoFrame ELSE nx[way[n]]
      BY <2>0, <3>2
    <3> QED
      BY <3>1, <3>3
  <2> HIDE DEF T
  <2>3. Nat \subseteq T
    BY <2>1, <2>2, NatClosed
  <2>4. \A n \in 0..N : w[n] = way[n]
    BY <1>1, <2>3 DEF T
  <2> QED
    BY <2>0, <2>4
<1>6. Walk(h, nx) = CHOOSE w : IsWalk(w, h, nx)
  BY DEF Walk, IsWalk
<1> QED
  BY <1>4, <1>5, <1>6 DEF way

\* What the pointers of a list stand for is the list.
LEMMA FramesOfChain ==
  ASSUME NEW c, NEW h, NEW nx, IsChain(c, h, nx) PROVE FramesFrom(h, nx) = c
<1> DEFINE N == Cardinality(Frames)
           w == Walk(h, nx)
           n == Len(c)
<1>1. N \in Nat /\ n \in Nat /\ c \in Seq(Frames) /\ n <= N
  <2>1. N \in Nat /\ n \in Nat /\ n <= N
    BY ChainFits
  <2>2. c \in Seq(Frames)
    BY DEF IsChain
  <2> QED
    BY <2>1, <2>2
<1>2. DOMAIN w = 0..N /\ \A k \in 0..N : w[k] = IF k < n THEN c[k + 1] ELSE NoFrame
  <2>1. w = [k \in 0..N |-> IF k < n THEN c[k + 1] ELSE NoFrame]
    BY WalkOfChain
  <2> HIDE DEF w, N, n
  <2> QED
    BY <2>1
<1>3. \A i \in 1..n : c[i] # NoFrame
  BY <1>1, FramesOK
<1> HIDE DEF w, N
<1>4. {k \in DOMAIN w : w[k] # NoFrame} = 0..n - 1
  <2>1. ASSUME NEW k \in 0..N PROVE w[k] # NoFrame <=> k \in 0..n - 1
    <3>1. CASE k < n
      <4>1. k + 1 \in 1..n
        BY <1>1, <3>1
      <4> QED
        BY <1>1, <1>2, <1>3, <3>1, <4>1
    <3>2. CASE ~ (k < n)
      BY <1>1, <1>2, <3>2
    <3> QED
      BY <3>1, <3>2
  <2>2. 0..n - 1 \subseteq 0..N
    BY <1>1
  <2> QED
    BY <1>2, <2>1, <2>2
<1>5. Cardinality(0..n - 1) = n
  <2>1. \A b \in Nat : Cardinality(0..b - 1) = b
    BY FS_Interval
  <2> QED
    BY <1>1, <2>1
<1>6. FramesFrom(h, nx) = [i \in 1..n |-> w[i - 1]]
  BY <1>4, <1>5 DEF FramesFrom, w
<1>7. ASSUME NEW i \in 1..n PROVE w[i - 1] = c[i]
  <2>1. i - 1 \in 0..N /\ i - 1 < n /\ (i - 1) + 1 = i
    BY <1>1
  <2> QED
    BY <1>2, <2>1
<1>8. c = [i \in 1..n |-> c[i]]
  BY <1>1
<1> HIDE DEF n
<1> QED
  BY <1>6, <1>7, <1>8
-----------------------------------------------------------------------------
(* The invariant *)

\* c is the list that the pointers stand for, forwards and, but for the frames behind a
\* duplicate, backwards; its frames are those in use.
Holds(c) ==
  /\ IsChain(c, head, next)
  /\ used = {c[i] : i \in 1..Len(c)}
  /\ tail = IF c = <<>> THEN NoFrame ELSE c[Len(c)]
  /\ \A i \in 1..Len(c) : c[i] \notin stale => prev[c[i]] = IF i = 1 THEN NoFrame ELSE c[i - 1]

\* The types of the pointers.
PointerTypes ==
  /\ next \in [Frames -> Pointers] /\ prev \in [Frames -> Pointers]
  /\ used \in SUBSET Frames /\ stale \in SUBSET used

\* The inductive invariant of FrameChain.
ChainInv == PointerTypes /\ \E c : Holds(c)

\* What Forward is, before a step and after it.
LEMMA ForwardIs ==
  ASSUME NEW c
  PROVE  (Holds(c) => Forward = c) /\ (Holds(c)' => Forward' = c)
BY FramesOfChain DEF Holds, Forward

\* Initially the list is empty.
LEMMA ChainInit == Init => PointerTypes /\ Holds(<<>>)
<1> SUFFICES ASSUME Init PROVE PointerTypes /\ Holds(<<>>)
  OBVIOUS
<1>1. <<>> \in Seq(Frames) /\ Len(<<>>) = 0
  OBVIOUS
<1>2. PointerTypes
  BY DEF Init, PointerTypes, Pointers
<1>3. used = {<<>>[i] : i \in 1..Len(<<>>)}
  BY <1>1 DEF Init
<1>4. IsChain(<<>>, head, next)
  BY <1>1 DEF Init, IsChain
<1> QED
  BY <1>1, <1>2, <1>3, <1>4 DEF Init, Holds

\* What Holds says of the frames of the list.
LEMMA HoldsFacts ==
  ASSUME NEW c, Holds(c)
  PROVE  /\ c \in Seq(Frames) /\ Len(c) \in Nat
         /\ \A i \in 1..Len(c) : c[i] \in Frames /\ c[i] # NoFrame /\ c[i] \in used
         /\ \A i, j \in 1..Len(c) : c[i] = c[j] => i = j
         /\ \A f \in used : \E i \in 1..Len(c) : c[i] = f
         /\ head = IF Len(c) = 0 THEN NoFrame ELSE c[1]
         /\ tail = IF Len(c) = 0 THEN NoFrame ELSE c[Len(c)]
         /\ \A i \in 1..Len(c) : next[c[i]] = IF i = Len(c) THEN NoFrame ELSE c[i + 1]
<1>1. c \in Seq(Frames) /\ Len(c) \in Nat
  BY DEF Holds, IsChain
<1>2. \A i \in 1..Len(c) : c[i] \in Frames /\ c[i] # NoFrame
  BY <1>1, FramesOK
<1>3. c = <<>> <=> Len(c) = 0
  BY <1>1
<1> QED
  BY <1>1, <1>2, <1>3 DEF Holds, IsChain

\* aframe_register: the frame is appended.
LEMMA RegisterHolds ==
  ASSUME PointerTypes, NEW c, Holds(c), NEW f \in Frames, Register(f)
  PROVE  PointerTypes' /\ Holds(Append(c, f))'
<1> DEFINE d == Append(c, f)
           n == Len(c)
<1>1. /\ f \notin used /\ used' = used \cup {f}
      /\ next' = [g \in Frames |-> CASE g = f -> NoFrame
                                     [] g = tail /\ g # f -> f
                                     [] OTHER -> next[g]]
      /\ prev' = [prev EXCEPT ![f] = tail]
      /\ tail' = f /\ head' = (IF head = NoFrame THEN f ELSE head) /\ stale' = stale
  BY DEF Register
<1>2. /\ c \in Seq(Frames) /\ n \in Nat
      /\ \A i \in 1..n : c[i] \in Frames /\ c[i] # NoFrame /\ c[i] \in used
      /\ \A i, j \in 1..n : c[i] = c[j] => i = j
      /\ \A g \in used : \E i \in 1..n : c[i] = g
      /\ head = IF n = 0 THEN NoFrame ELSE c[1]
      /\ tail = IF n = 0 THEN NoFrame ELSE c[n]
      /\ \A i \in 1..n : next[c[i]] = IF i = n THEN NoFrame ELSE c[i + 1]
  BY HoldsFacts
<1>3. d \in Seq(Frames) /\ Len(d) = n + 1 /\ d[n + 1] = f /\ \A i \in 1..n : d[i] = c[i]
  BY <1>2, AppendProperties
<1>4. \A i \in 1..n : c[i] \notin stale => prev[c[i]] = IF i = 1 THEN NoFrame ELSE c[i - 1]
  BY DEF Holds
<1>5. \A i \in 1..n : c[i] # f
  BY <1>1, <1>2
<1> HIDE DEF d, n
<1>6. \A i \in 1..n + 1 : i \in 1..n \/ i = n + 1
  BY <1>2
<1>7. PointerTypes'
  <2>1. tail \in Pointers
    <3>1. n # 0 => n \in 1..n
      BY <1>2
    <3> QED
      BY <1>2, <3>1 DEF Pointers
  <2>2. next' \in [Frames -> Pointers]
    BY <1>1 DEF PointerTypes, Pointers
  <2>3. prev' \in [Frames -> Pointers]
    BY <1>1, <2>1 DEF PointerTypes
  <2> QED
    BY <1>1, <2>2, <2>3 DEF PointerTypes
<1>8. \A i, j \in 1..Len(d) : d[i] = d[j] => i = j
  BY <1>2, <1>3, <1>5, <1>6
<1>9. used' = {d[i] : i \in 1..Len(d)}
  <2>1. \A g \in used' : \E i \in 1..Len(d) : d[i] = g
    <3>1. n + 1 \in 1..n + 1 /\ \A i \in 1..n : i \in 1..n + 1
      BY <1>2
    <3> QED
      BY <1>1, <1>2, <1>3, <3>1
  <2>2. \A i \in 1..Len(d) : d[i] \in used'
    BY <1>1, <1>2, <1>3, <1>6
  <2> QED
    BY <2>1, <2>2
<1>10. d # <<>> /\ head' = d[1]
  <2>1. CASE n = 0
    BY <1>1, <1>2, <1>3, <2>1
  <2>2. CASE n # 0
    <3>1. 1 \in 1..n
      BY <1>2, <2>2
    <3> QED
      BY <1>1, <1>2, <1>3, <2>2, <3>1
  <2> QED
    BY <2>1, <2>2
<1>11. ASSUME NEW i \in 1..Len(d)
       PROVE  next'[d[i]] = IF i = Len(d) THEN NoFrame ELSE d[i + 1]
  <2>1. CASE i = n + 1
    BY <1>1, <1>3, <2>1
  <2>2. CASE i \in 1..n
    <3>1. d[i] = c[i] /\ c[i] \in Frames /\ c[i] # f /\ i # Len(d)
      BY <1>2, <1>3, <1>5, <2>2
    <3>2. CASE i = n
      <4>1. tail = c[i]
        BY <1>2, <2>2, <3>2
      <4>2. next'[c[i]] = f
        BY <1>1, <3>1, <4>1
      <4> QED
        BY <1>3, <3>1, <3>2, <4>2
    <3>3. CASE i # n
      <4>1. i + 1 \in 1..n /\ n \in 1..n
        BY <1>2, <2>2, <3>3
      <4>2. tail # c[i]
        BY <1>2, <2>2, <3>3, <4>1
      <4>3. next'[c[i]] = next[c[i]]
        BY <1>1, <3>1, <4>2
      <4> QED
        BY <1>2, <1>3, <2>2, <3>1, <3>3, <4>1, <4>3
    <3> QED
      BY <3>2, <3>3
  <2> QED
    BY <1>3, <1>6, <2>1, <2>2
<1>12. ASSUME NEW i \in 1..Len(d), d[i] \notin stale'
       PROVE  prev'[d[i]] = IF i = 1 THEN NoFrame ELSE d[i - 1]
  <2>1. CASE i = n + 1
    <3>1. prev'[f] = tail
      BY <1>1 DEF PointerTypes
    <3>2. n # 0 => n \in 1..n /\ i # 1 /\ i - 1 = n
      BY <1>2, <2>1
    <3>3. n = 0 => i = 1
      BY <2>1
    <3> QED
      BY <1>2, <1>3, <2>1, <3>1, <3>2, <3>3
  <2>2. CASE i \in 1..n
    <3>1. d[i] = c[i] /\ c[i] \in Frames /\ c[i] # f
      BY <1>2, <1>3, <1>5, <2>2
    <3>2. prev'[c[i]] = prev[c[i]]
      BY <1>1, <3>1 DEF PointerTypes
    <3>3. i # 1 => i - 1 \in 1..n
      BY <1>2, <2>2
    <3> QED
      BY <1>1, <1>3, <1>4, <1>12, <2>2, <3>1, <3>2, <3>3
  <2> QED
    BY <1>3, <1>6, <2>1, <2>2
<1>13. tail' = d[Len(d)]
  BY <1>1, <1>3
<1>14. IsChain(d, head', next')
  BY <1>3, <1>8, <1>10, <1>11 DEF IsChain
<1>15. Holds(d)'
  BY <1>9, <1>10, <1>12, <1>13, <1>14 DEF Holds
<1> QED
  BY <1>7, <1>15 DEF d
\* aframe_dup: the duplicate is linked behind its original.
LEMMA DupHolds ==
  ASSUME PointerTypes, NEW c, Holds(c), NEW f \in Frames, NEW s \in Frames, Dup(f, s),
         NEW p \in 1..Len(c), c[p] = f
  PROVE  PointerTypes' /\ Holds(List!InsertAt(c, p + 1, s))'
<1> DEFINE d == List!InsertAt(c, p + 1, s)
           n == Len(c)
<1>1. /\ f \in used /\ s \notin used /\ used' = used \cup {s}
      /\ next' = [next EXCEPT ![s] = next[f], ![f] = s]
      /\ prev' = [prev EXCEPT ![s] = f]
      /\ tail' = (IF next[f] = NoFrame THEN s ELSE tail)
      /\ stale' = stale \cup ({next[f]} \ {NoFrame}) /\ head' = head
  BY DEF Dup
<1>2. /\ c \in Seq(Frames) /\ n \in Nat /\ p \in 1..n
      /\ \A i \in 1..n : c[i] \in Frames /\ c[i] # NoFrame /\ c[i] \in used
      /\ \A i, j \in 1..n : c[i] = c[j] => i = j
      /\ \A g \in used : \E i \in 1..n : c[i] = g
      /\ head = IF n = 0 THEN NoFrame ELSE c[1]
      /\ tail = IF n = 0 THEN NoFrame ELSE c[n]
      /\ \A i \in 1..n : next[c[i]] = IF i = n THEN NoFrame ELSE c[i + 1]
  BY HoldsFacts
<1>3. Linked(d, c, p, s)
  BY <1>2, InsertAtLinks
<1>4. \A i \in 1..n : c[i] \notin stale => prev[c[i]] = IF i = 1 THEN NoFrame ELSE c[i - 1]
  BY DEF Holds
<1>5. (\A i \in 1..n : c[i] # s) /\ f # s
  BY <1>1, <1>2
<1> HIDE DEF d, n
<1>6. /\ d \in Seq(Frames) /\ Len(d) = n + 1 /\ d[p + 1] = s
      /\ \A i \in 1..p : d[i] = c[i]
      /\ \A i \in p + 1..n : d[i + 1] = c[i]
  <2>1. /\ d \in Seq(Frames) /\ Len(d) = n + 1
        /\ \A j \in 1..n + 1 : d[j] = IF j <= p THEN c[j] ELSE IF j = p + 1 THEN s ELSE c[j - 1]
    BY <1>3 DEF Linked, n
  <2>2. d[p + 1] = s
    <3>1. p + 1 \in 1..n + 1 /\ ~ (p + 1 <= p)
      BY <1>2
    <3> QED
      BY <2>1, <3>1
  <2>3. ASSUME NEW i \in p + 1..n PROVE d[i + 1] = c[i]
    <3>1. i + 1 \in 1..n + 1 /\ ~ (i + 1 <= p) /\ i + 1 # p + 1 /\ (i + 1) - 1 = i
      BY <1>2
    <3> QED
      BY <2>1, <3>1
  <2>4. \A i \in 1..p : i \in 1..n + 1 /\ i <= p
    BY <1>2
  <2> QED
    BY <2>1, <2>2, <2>3, <2>4
<1>7. ASSUME NEW i \in 1..n + 1
      PROVE  i \in 1..p \/ i = p + 1 \/ (i - 1 \in p + 1..n /\ i = (i - 1) + 1)
  BY <1>2
<1>8. /\ \A i \in 1..p : i \in 1..n
      /\ \A i \in p + 1..n : i \in 1..n /\ i # p
      /\ \A i \in 1..n : i \in 1..p \/ i \in p + 1..n
  BY <1>2
<1>9. next[f] = IF p = n THEN NoFrame ELSE c[p + 1]
  BY <1>2
<1>10. PointerTypes'
  <2>1. next[f] \in Pointers /\ f \in Pointers /\ s \in Pointers
    BY DEF PointerTypes, Pointers
  <2>2. next' \in [Frames -> Pointers] /\ prev' \in [Frames -> Pointers]
    BY <1>1, <2>1 DEF PointerTypes
  <2>3. next[f] # NoFrame => next[f] \in used
    <3>1. p # n => p + 1 \in 1..n
      BY <1>2
    <3> QED
      BY <1>2, <1>9, <3>1
  <2> QED
    BY <1>1, <2>2, <2>3 DEF PointerTypes
<1>11. ASSUME NEW i \in 1..n + 1, NEW j \in 1..n + 1, d[i] = d[j] PROVE i = j
  <2>1. CASE i \in 1..p
    <3>1. d[i] = c[i] /\ i \in 1..n /\ d[i] # s
      BY <1>5, <1>6, <1>8, <2>1
    <3>2. CASE j \in 1..p
      <4>1. d[j] = c[j] /\ j \in 1..n
        BY <1>6, <1>8, <3>2
      <4>2. c[i] = c[j]
        BY <1>11, <3>1, <4>1
      <4> QED
        BY <1>2, <3>1, <4>1, <4>2
    <3>3. CASE j - 1 \in p + 1..n /\ j = (j - 1) + 1
      <4>1. d[j] = c[j - 1] /\ j - 1 \in 1..n
        BY <1>6, <1>8, <3>3
      <4>2. i = j - 1
        BY <1>2, <1>11, <3>1, <4>1
      <4> QED
        BY <1>2, <2>1, <3>3, <4>2
    <3> QED
      BY <1>6, <1>7, <1>11, <3>1, <3>2, <3>3
  <2>2. CASE i = p + 1
    <3>1. CASE j \in 1..p
      BY <1>5, <1>6, <1>8, <1>11, <2>2, <3>1
    <3>2. CASE j - 1 \in p + 1..n /\ j = (j - 1) + 1
      <4>1. d[j] = c[j - 1] /\ j - 1 \in 1..n
        BY <1>6, <1>8, <3>2
      <4> QED
        BY <1>5, <1>6, <1>11, <2>2, <4>1
    <3> QED
      BY <1>7, <2>2, <3>1, <3>2
  <2>3. CASE i - 1 \in p + 1..n /\ i = (i - 1) + 1
    <3>1. d[i] = c[i - 1] /\ i - 1 \in 1..n /\ d[i] # s
      BY <1>5, <1>6, <1>8, <2>3
    <3>2. CASE j \in 1..p
      <4>1. d[j] = c[j] /\ j \in 1..n
        BY <1>6, <1>8, <3>2
      <4>2. i - 1 = j
        BY <1>2, <1>11, <3>1, <4>1
      <4> QED
        BY <1>2, <2>3, <3>2, <4>2
    <3>3. CASE j - 1 \in p + 1..n /\ j = (j - 1) + 1
      <4>1. d[j] = c[j - 1] /\ j - 1 \in 1..n
        BY <1>6, <1>8, <3>3
      <4>2. i - 1 = j - 1
        BY <1>2, <1>11, <3>1, <4>1
      <4> QED
        BY <2>3, <3>3, <4>2
    <3> QED
      BY <1>6, <1>7, <1>11, <3>1, <3>2, <3>3
  <2> QED
    BY <1>7, <2>1, <2>2, <2>3
<1>12. used' = {d[i] : i \in 1..Len(d)}
  <2>1. ASSUME NEW g \in used' PROVE \E i \in 1..Len(d) : d[i] = g
    <3>1. CASE g = s
      <4>1. p + 1 \in 1..n + 1
        BY <1>2
      <4> QED
        BY <1>6, <3>1, <4>1
    <3>2. CASE g # s
      <4>1. PICK i \in 1..n : c[i] = g
        BY <1>1, <1>2, <3>2
      <4>2. CASE i \in 1..p
        <5>1. i \in 1..n + 1
          BY <1>2
        <5> QED
          BY <1>6, <4>1, <4>2, <5>1
      <4>3. CASE i \in p + 1..n
        <5>1. i + 1 \in 1..n + 1
          BY <1>2
        <5> QED
          BY <1>6, <4>1, <4>3, <5>1
      <4> QED
        BY <1>8, <4>2, <4>3
    <3> QED
      BY <3>1, <3>2
  <2>2. ASSUME NEW i \in 1..n + 1 PROVE d[i] \in used'
    <3>1. CASE i \in 1..p
      BY <1>1, <1>2, <1>6, <1>8, <3>1
    <3>2. CASE i = p + 1
      BY <1>1, <1>6, <3>2
    <3>3. CASE i - 1 \in p + 1..n /\ i = (i - 1) + 1
      <4>1. d[i] = c[i - 1] /\ i - 1 \in 1..n
        BY <1>6, <1>8, <3>3
      <4> QED
        BY <1>1, <1>2, <4>1
    <3> QED
      BY <1>7, <3>1, <3>2, <3>3
  <2> QED
    BY <1>6, <2>1, <2>2
<1>13. d # <<>> /\ head' = d[1]
  <2>1. 1 \in 1..p /\ n # 0 /\ Len(d) # 0
    BY <1>2, <1>6
  <2>2. d[1] = c[1] /\ head' = c[1]
    BY <1>1, <1>2, <1>6, <2>1
  <2> QED
    BY <2>1, <2>2
<1>14. tail' = d[Len(d)]
  <2>1. CASE p = n
    BY <1>1, <1>6, <1>9, <2>1
  <2>2. CASE p # n
    <3>1. p + 1 \in 1..n /\ n \in p + 1..n /\ n # 0
      BY <1>2, <2>2
    <3>2. tail' = tail
      BY <1>1, <1>2, <1>9, <2>2, <3>1
    <3> QED
      BY <1>2, <1>6, <3>1, <3>2
  <2> QED
    BY <2>1, <2>2
<1>15. ASSUME NEW i \in 1..n + 1
       PROVE  next'[d[i]] = IF i = Len(d) THEN NoFrame ELSE d[i + 1]
  <2>1. /\ next'[f] = s /\ next'[s] = next[f]
        /\ \A g \in Frames : g # f /\ g # s => next'[g] = next[g]
    BY <1>1, <1>5 DEF PointerTypes
  <2>2. CASE i \in 1..p
    <3>1. d[i] = c[i] /\ i \in 1..n /\ c[i] \in Frames /\ c[i] # s /\ i # Len(d)
      BY <1>2, <1>5, <1>6, <1>8, <2>2
    <3>2. CASE i = p
      BY <1>6, <2>1, <3>1, <3>2
    <3>3. CASE i # p
      <4>1. i + 1 \in 1..p /\ i # n
        BY <1>2, <2>2, <3>3
      <4>2. c[i] # f
        BY <1>2, <3>1, <3>3
      <4>3. next'[c[i]] = c[i + 1]
        BY <1>2, <2>1, <3>1, <4>1, <4>2
      <4> QED
        BY <1>6, <3>1, <4>1, <4>3
    <3> QED
      BY <3>2, <3>3
  <2>3. CASE i = p + 1
    <3>1. d[i] = s /\ next'[d[i]] = next[f]
      BY <1>6, <2>1, <2>3
    <3>2. CASE p = n
      BY <1>6, <1>9, <2>3, <3>1, <3>2
    <3>3. CASE p # n
      <4>1. p + 1 \in p + 1..n /\ i # Len(d)
        BY <1>2, <1>6, <2>3, <3>3
      <4> QED
        BY <1>6, <1>9, <2>3, <3>1, <3>3, <4>1
    <3> QED
      BY <3>2, <3>3
  <2>4. CASE i - 1 \in p + 1..n /\ i = (i - 1) + 1
    <3> DEFINE k == i - 1
    <3>1. k \in 1..n /\ k \in p + 1..n /\ k # p /\ i = k + 1
      BY <1>8, <2>4
    <3> HIDE DEF k
    <3>2. d[i] = c[k] /\ c[k] \in Frames /\ c[k] # s /\ c[k] # f
      BY <1>2, <1>5, <1>6, <3>1
    <3>3. next'[d[i]] = IF k = n THEN NoFrame ELSE c[k + 1]
      <4>1. next'[c[k]] = next[c[k]]
        BY <2>1, <3>2
      <4>2. next[c[k]] = IF k = n THEN NoFrame ELSE c[k + 1]
        BY <1>2, <3>1
      <4> QED
        BY <3>2, <4>1, <4>2
    <3>4. CASE k = n
      <4>1. i = Len(d)
        BY <1>6, <3>1, <3>4
      <4>2. next'[d[i]] = NoFrame
        BY <3>3, <3>4
      <4> QED
        BY <4>1, <4>2
    <3>5. CASE k # n
      <4>1. k + 1 \in p + 1..n /\ i # n + 1 /\ i + 1 = (k + 1) + 1
        BY <1>2, <3>1, <3>5
      <4>2. d[(k + 1) + 1] = c[k + 1]
        BY <1>6, <4>1
      <4>3. i # Len(d)
        BY <1>6, <4>1
      <4> QED
        BY <3>3, <3>5, <4>1, <4>2, <4>3
    <3> QED
      BY <3>4, <3>5
  <2> QED
    BY <1>7, <2>2, <2>3, <2>4
<1>16. ASSUME NEW i \in 1..n + 1, d[i] \notin stale'
       PROVE  prev'[d[i]] = IF i = 1 THEN NoFrame ELSE d[i - 1]
  <2>1. prev'[s] = f /\ \A g \in Frames : g # s => prev'[g] = prev[g]
    BY <1>1 DEF PointerTypes
  <2>2. CASE i \in 1..p
    <3>1. d[i] = c[i] /\ i \in 1..n /\ c[i] \in Frames /\ c[i] # s /\ c[i] \notin stale
      BY <1>1, <1>2, <1>5, <1>6, <1>8, <1>16, <2>2
    <3>2. i # 1 => i - 1 \in 1..p
      BY <1>2, <2>2
    <3> QED
      BY <1>4, <1>6, <2>1, <3>1, <3>2
  <2>3. CASE i = p + 1
    <3>1. i # 1 /\ i - 1 = p /\ p \in 1..p
      BY <1>2, <2>3
    <3> QED
      BY <1>6, <2>1, <2>3, <3>1
  <2>4. CASE i - 1 \in p + 1..n /\ i = (i - 1) + 1
    <3> DEFINE k == i - 1
    <3>1. k \in 1..n /\ k \in p + 1..n /\ k # p /\ i = k + 1
      BY <1>8, <2>4
    <3>2. i # 1 /\ k # 1
      BY <1>2, <2>4
    <3> HIDE DEF k
    <3>3. d[i] = c[k] /\ c[k] \in Frames /\ c[k] # s /\ c[k] # NoFrame
      BY <1>2, <1>5, <1>6, <3>1
    <3>4. k # p + 1
      <4>1. SUFFICES ASSUME k = p + 1 PROVE FALSE
        OBVIOUS
      <4>2. p # n
        BY <1>2, <3>1, <4>1
      <4>3. next[f] = c[k]
        BY <1>9, <4>1, <4>2
      <4> QED
        BY <1>1, <1>16, <3>3, <4>3
    <3>5. prev'[d[i]] = c[k - 1]
      BY <1>1, <1>4, <1>16, <2>1, <3>1, <3>2, <3>3
    <3>6. k - 1 \in p + 1..n /\ (k - 1) + 1 = i - 1
      BY <1>2, <3>1, <3>4
    <3> QED
      BY <1>6, <3>2, <3>5, <3>6
  <2> QED
    BY <1>7, <2>2, <2>3, <2>4
<1>17. IsChain(d, head', next')
  BY <1>6, <1>11, <1>13, <1>15 DEF IsChain
<1>18. Holds(d)'
  BY <1>6, <1>12, <1>13, <1>14, <1>16, <1>17 DEF Holds
<1> QED
  BY <1>10, <1>18 DEF d
\* aframe_remove: the neighbours of the frame are linked with each other.
LEMMA RemoveHolds ==
  ASSUME PointerTypes, NEW c, Holds(c), NEW f \in Frames, f \notin stale, Remove(f),
         NEW p \in 1..Len(c), c[p] = f
  PROVE  PointerTypes' /\ Holds(List!RemoveAt(c, p))'
<1> DEFINE d == List!RemoveAt(c, p)
           n == Len(c)
<1>1. /\ f \in used /\ used' = used \ {f}
      /\ next' = (IF prev[f] = NoFrame THEN next ELSE [next EXCEPT ![prev[f]] = next[f]])
      /\ prev' = (IF next[f] = NoFrame THEN prev ELSE [prev EXCEPT ![next[f]] = prev[f]])
      /\ head' = (IF head = f THEN next[f] ELSE head)
      /\ tail' = (IF tail = f THEN prev[f] ELSE tail)
      /\ stale' = stale \ {next[f]}
  BY DEF Remove
<1>2. /\ c \in Seq(Frames) /\ n \in Nat /\ p \in 1..n
      /\ \A i \in 1..n : c[i] \in Frames /\ c[i] # NoFrame /\ c[i] \in used
      /\ \A i, j \in 1..n : c[i] = c[j] => i = j
      /\ \A g \in used : \E i \in 1..n : c[i] = g
      /\ head = IF n = 0 THEN NoFrame ELSE c[1]
      /\ tail = IF n = 0 THEN NoFrame ELSE c[n]
      /\ \A i \in 1..n : next[c[i]] = IF i = n THEN NoFrame ELSE c[i + 1]
  BY HoldsFacts
<1>3. Unlinked(d, c, p)
  BY <1>2, RemoveAtUnlinks
<1>4. \A i \in 1..n : c[i] \notin stale => prev[c[i]] = IF i = 1 THEN NoFrame ELSE c[i - 1]
  BY DEF Holds
<1> HIDE DEF d, n
<1>5. d \in Seq(Frames) /\ Len(d) = n - 1
  BY <1>3 DEF Unlinked, n
<1>6. /\ \A i \in 1..p - 1 : d[i] = c[i] /\ i \in 1..n - 1 /\ i \in 1..n /\ i # p
      /\ \A i \in p..n - 1 : d[i] = c[i + 1] /\ i \in 1..n - 1 /\ i + 1 \in 1..n /\ i + 1 # p
  <2>1. \A j \in 1..n - 1 : d[j] = IF j < p THEN c[j] ELSE c[j + 1]
    BY <1>3 DEF Unlinked, n
  <2>2. ASSUME NEW i \in 1..p - 1 PROVE d[i] = c[i] /\ i \in 1..n - 1 /\ i \in 1..n /\ i # p
    <3>1. i \in 1..n - 1 /\ i < p /\ i \in 1..n /\ i # p
      BY <1>2
    <3> QED
      BY <2>1, <3>1
  <2>3. ASSUME NEW i \in p..n - 1
        PROVE  d[i] = c[i + 1] /\ i \in 1..n - 1 /\ i + 1 \in 1..n /\ i + 1 # p
    <3>1. i \in 1..n - 1 /\ ~ (i < p) /\ i + 1 \in 1..n /\ i + 1 # p
      BY <1>2
    <3> QED
      BY <2>1, <3>1
  <2> QED
    BY <2>2, <2>3
<1>7. \A i \in 1..n - 1 : i \in 1..p - 1 \/ i \in p..n - 1
  BY <1>2
<1>8. /\ next[f] = IF p = n THEN NoFrame ELSE c[p + 1]
      /\ prev[f] = IF p = 1 THEN NoFrame ELSE c[p - 1]
  BY <1>2, <1>4
<1>9. /\ p # n => p + 1 \in 1..n /\ p \in p..n - 1 /\ p + 1 # p
      /\ p # 1 => p - 1 \in 1..n /\ p - 1 \in 1..p - 1 /\ p - 1 # p
  BY <1>2
<1>10. /\ p = n => prev' = prev
       /\ p # n => prev' = [prev EXCEPT ![c[p + 1]] = prev[f]]
       /\ p = 1 => next' = next
       /\ p # 1 => next' = [next EXCEPT ![c[p - 1]] = next[f]]
  BY <1>1, <1>2, <1>8, <1>9
<1>11. PointerTypes'
  <2>1. next[f] \in Pointers /\ prev[f] \in Pointers
    BY DEF PointerTypes
  <2>2. next' \in [Frames -> Pointers] /\ prev' \in [Frames -> Pointers]
    BY <1>1, <2>1 DEF PointerTypes
  <2> QED
    BY <1>1, <2>2 DEF PointerTypes
<1>12. \A i \in 1..n - 1 : \E k \in 1..n : k # p /\ d[i] = c[k]
  BY <1>6, <1>7
<1>13. ASSUME NEW i \in 1..n - 1, NEW j \in 1..n - 1, d[i] = d[j] PROVE i = j
  <2>1. CASE i \in 1..p - 1 /\ j \in 1..p - 1
    BY <1>2, <1>6, <1>13, <2>1
  <2>2. CASE i \in p..n - 1 /\ j \in p..n - 1
    <3>1. i + 1 = j + 1
      BY <1>2, <1>6, <1>13, <2>2
    <3> QED
      BY <3>1
  <2>3. CASE i \in 1..p - 1 /\ j \in p..n - 1
    <3>1. i = j + 1
      BY <1>2, <1>6, <1>13, <2>3
    <3> QED
      BY <1>2, <2>3, <3>1
  <2>4. CASE i \in p..n - 1 /\ j \in 1..p - 1
    <3>1. i + 1 = j
      BY <1>2, <1>6, <1>13, <2>4
    <3> QED
      BY <1>2, <2>4, <3>1
  <2> QED
    BY <1>7, <2>1, <2>2, <2>3, <2>4
<1>14. used' = {d[i] : i \in 1..Len(d)}
  <2>1. ASSUME NEW g \in used' PROVE \E i \in 1..n - 1 : d[i] = g
    <3>1. PICK k \in 1..n : c[k] = g
      BY <1>1, <1>2
    <3>2. k # p
      BY <1>1, <3>1
    <3>3. CASE k < p
      <4>1. k \in 1..p - 1
        BY <1>2, <3>3
      <4> QED
        BY <1>6, <3>1, <4>1
    <3>4. CASE k > p
      <4>1. k - 1 \in p..n - 1 /\ (k - 1) + 1 = k
        BY <1>2, <3>4
      <4> QED
        BY <1>6, <3>1, <4>1
    <3> QED
      BY <1>2, <3>2, <3>3, <3>4
  <2>2. ASSUME NEW i \in 1..n - 1 PROVE d[i] \in used'
    <3>1. PICK k \in 1..n : k # p /\ d[i] = c[k]
      BY <1>12
    <3>2. c[k] # c[p]
      BY <1>2, <3>1
    <3> QED
      BY <1>1, <1>2, <3>1, <3>2
  <2> QED
    BY <1>5, <2>1, <2>2
<1>15. d = <<>> <=> n = 1
  BY <1>2, <1>5
<1>16. head' = IF d = <<>> THEN NoFrame ELSE d[1]
  <2>1. n # 0 /\ 1 \in 1..n
    BY <1>2
  <2>2. CASE p = 1
    <3>1. head' = next[f]
      BY <1>1, <1>2, <2>1, <2>2
    <3> QED
      BY <1>6, <1>8, <1>9, <1>15, <2>2, <3>1
  <2>3. CASE p # 1
    <3>1. head' = c[1]
      BY <1>1, <1>2, <2>1, <2>3
    <3>2. 1 \in 1..p - 1 /\ n # 1
      BY <1>2, <2>3
    <3> QED
      BY <1>6, <1>15, <3>1, <3>2
  <2> QED
    BY <2>2, <2>3
<1>17. tail' = IF d = <<>> THEN NoFrame ELSE d[Len(d)]
  <2>1. n # 0 /\ n \in 1..n
    BY <1>2
  <2>2. CASE p = n
    <3>1. tail' = prev[f]
      BY <1>1, <1>2, <2>1, <2>2
    <3> QED
      BY <1>5, <1>6, <1>8, <1>9, <1>15, <2>2, <3>1
  <2>3. CASE p # n
    <3>1. tail' = c[n]
      BY <1>1, <1>2, <2>1, <2>3
    <3>2. n - 1 \in p..n - 1 /\ n # 1 /\ (n - 1) + 1 = n
      BY <1>2, <2>3
    <3> QED
      BY <1>5, <1>6, <1>15, <3>1, <3>2
  <2> QED
    BY <2>2, <2>3
<1>18. ASSUME NEW i \in 1..n - 1
       PROVE  next'[d[i]] = IF i = Len(d) THEN NoFrame ELSE d[i + 1]
  <2>1. CASE i \in 1..p - 1
    <3>1. d[i] = c[i] /\ i \in 1..n /\ p # 1
      BY <1>2, <1>6, <2>1
    <3>2. CASE i = p - 1
      <4>1. next'[d[i]] = next[f]
        BY <1>2, <1>10, <3>1, <3>2 DEF PointerTypes
      <4>2. i + 1 = p
        BY <1>2, <3>2
      <4>3. i = Len(d) <=> p = n
        BY <1>2, <1>5, <3>2
      <4> QED
        BY <1>6, <1>8, <1>9, <4>1, <4>2, <4>3
    <3>3. CASE i # p - 1
      <4>1. i + 1 \in 1..p - 1 /\ i # n /\ i # Len(d)
        BY <1>2, <1>5, <2>1, <3>3
      <4>2. c[i] # c[p - 1]
        BY <1>2, <1>9, <3>1, <3>3
      <4>3. next'[c[i]] = next[c[i]]
        BY <1>2, <1>10, <3>1, <4>2 DEF PointerTypes
      <4> QED
        BY <1>2, <1>6, <3>1, <4>1, <4>3
    <3> QED
      BY <3>2, <3>3
  <2>2. CASE i \in p..n - 1
    <3>1. d[i] = c[i + 1] /\ i + 1 \in 1..n
      BY <1>6, <2>2
    <3>2. p # 1 => c[i + 1] # c[p - 1]
      <4>1. i + 1 # p - 1
        BY <1>2, <2>2
      <4> QED
        BY <1>2, <1>9, <3>1, <4>1
    <3>3. next'[c[i + 1]] = next[c[i + 1]]
      BY <1>2, <1>10, <3>1, <3>2 DEF PointerTypes
    <3>4. next[c[i + 1]] = IF i + 1 = n THEN NoFrame ELSE c[(i + 1) + 1]
      BY <1>2, <3>1
    <3>5. CASE i + 1 = n
      <4>1. i = Len(d)
        BY <1>2, <1>5, <3>5
      <4> QED
        BY <3>1, <3>3, <3>4, <3>5, <4>1
    <3>6. CASE i + 1 # n
      <4>1. i + 1 \in p..n - 1 /\ i # Len(d)
        BY <1>2, <1>5, <2>2, <3>6
      <4> QED
        BY <1>6, <3>1, <3>3, <3>4, <3>6, <4>1
    <3> QED
      BY <3>5, <3>6
  <2> QED
    BY <1>7, <2>1, <2>2
<1>19. ASSUME NEW i \in 1..n - 1, d[i] \notin stale'
       PROVE  prev'[d[i]] = IF i = 1 THEN NoFrame ELSE d[i - 1]
  <2>1. CASE i \in 1..p - 1
    <3>1. d[i] = c[i] /\ i \in 1..n
      BY <1>6, <2>1
    <3>2. p # n => c[i] # c[p + 1]
      <4>1. i # p + 1
        BY <1>2, <2>1
      <4> QED
        BY <1>2, <1>9, <3>1, <4>1
    <3>3. prev'[c[i]] = prev[c[i]]
      BY <1>2, <1>10, <3>1, <3>2 DEF PointerTypes
    <3>4. c[i] \notin stale
      BY <1>1, <1>2, <1>8, <1>19, <3>1, <3>2
    <3>5. i # 1 => i - 1 \in 1..p - 1
      BY <1>2, <2>1
    <3> QED
      BY <1>4, <1>6, <3>1, <3>3, <3>4, <3>5
  <2>2. CASE i = p /\ p \in p..n - 1
    <3>1. d[i] = c[p + 1] /\ p # n /\ c[p + 1] \in Frames
      BY <1>2, <1>6, <2>2
    <3>2. prev'[d[i]] = prev[f]
      BY <1>10, <3>1 DEF PointerTypes
    <3> QED
      BY <1>6, <1>8, <1>9, <2>2, <3>2
  <2>3. CASE i \in p..n - 1 /\ i # p
    <3>1. d[i] = c[i + 1] /\ i + 1 \in 1..n /\ p # n
      BY <1>2, <1>6, <2>3
    <3>2. c[i + 1] # c[p + 1]
      <4>1. i + 1 # p + 1
        BY <1>2, <2>3
      <4> QED
        BY <1>2, <1>9, <3>1, <4>1
    <3>3. prev'[c[i + 1]] = prev[c[i + 1]]
      BY <1>2, <1>10, <3>1, <3>2 DEF PointerTypes
    <3>4. c[i + 1] \notin stale
      BY <1>1, <1>8, <1>19, <3>1, <3>2
    <3>5. i - 1 \in p..n - 1 /\ i # 1 /\ i + 1 # 1 /\ (i + 1) - 1 = i /\ (i - 1) + 1 = i
      BY <1>2, <2>3
    <3>6. prev[c[i + 1]] = c[i]
      BY <1>4, <3>1, <3>4, <3>5
    <3> QED
      BY <1>6, <3>1, <3>3, <3>5, <3>6
  <2> QED
    BY <1>7, <2>1, <2>2, <2>3
<1>20. IsChain(d, head', next')
  BY <1>5, <1>13, <1>16, <1>18 DEF IsChain
<1>21. Holds(d)'
  BY <1>5, <1>14, <1>17, <1>19, <1>20 DEF Holds
<1> QED
  BY <1>11, <1>21 DEF d
-----------------------------------------------------------------------------
(* The theorems *)

\* A registration keeps the list and appends to it.
LEMMA RegisterStep ==
  ASSUME ChainInv, NEW f \in Frames, Register(f)
  PROVE  ChainInv' /\ ~List!InChain(f) /\ List!LinkLast(f)
<1>1. PICK c : Holds(c)
  BY DEF ChainInv
<1>2. PointerTypes' /\ Holds(Append(c, f))'
  BY <1>1, RegisterHolds DEF ChainInv
<1>3. Forward = c
  BY <1>1, ForwardIs
<1>4. Forward' = Append(c, f)
  <2> DEFINE d == Append(c, f)
  <2>1. Holds(d)'
    BY <1>2
  <2> HIDE DEF d
  <2>2. Forward' = d
    BY <2>1, ForwardIs
  <2> QED
    BY <2>2 DEF d
<1>5. ~List!InChain(f)
  <2>1. c \in Seq(Frames) /\ \A i \in 1..Len(c) : c[i] \in used
    BY <1>1, HoldsFacts
  <2>2. f \notin used
    BY DEF Register
  <2> QED
    BY <1>3, <2>1, <2>2 DEF List!InChain
<1>6. List!LinkLast(f)
  BY <1>3, <1>4 DEF List!LinkLast, Register
<1>7. ChainInv'
  BY <1>2 DEF ChainInv
<1> QED
  BY <1>5, <1>6, <1>7

\* A duplicate is linked behind its original.
LEMMA DupStep ==
  ASSUME ChainInv, NEW f \in Frames, NEW s \in Frames, Dup(f, s)
  PROVE  ChainInv' /\ ~List!InChain(s) /\ List!LinkBehind(f, s)
<1>1. PICK c : Holds(c)
  BY DEF ChainInv
<1>2. /\ f \in used /\ s \notin used
      /\ stale' = stale \cup ({next[f]} \ {NoFrame})
  BY DEF Dup
<1>3. /\ c \in Seq(Frames) /\ Len(c) \in Nat
      /\ \A i \in 1..Len(c) : c[i] \in Frames /\ c[i] # NoFrame /\ c[i] \in used
      /\ \A g \in used : \E i \in 1..Len(c) : c[i] = g
      /\ \A i \in 1..Len(c) : next[c[i]] = IF i = Len(c) THEN NoFrame ELSE c[i + 1]
  BY <1>1, HoldsFacts
<1>4. PICK p \in 1..Len(c) : c[p] = f
  BY <1>2, <1>3
<1> DEFINE d == List!InsertAt(c, p + 1, s)
<1>5. PointerTypes' /\ Holds(d)'
  BY <1>1, <1>4, DupHolds DEF ChainInv
<1> HIDE DEF d
<1>6. Forward = c /\ Forward' = d
  BY <1>1, <1>5, ForwardIs
<1>7. ~List!InChain(s)
  BY <1>2, <1>3, <1>6 DEF List!InChain
<1>8. stale' = stale \cup List!Behind(p)
  <2>1. DOMAIN Forward = 1..Len(c)
    BY <1>3, <1>6
  <2>2. CASE p = Len(c)
    <3>1. 1..Len(c) \cap {p + 1} = {}
      BY <1>3, <2>2
    <3>2. List!Behind(p) = {}
      BY <2>1, <3>1 DEF List!Behind
    <3> QED
      BY <1>2, <1>3, <1>4, <2>2, <3>2
  <2>3. CASE p # Len(c)
    <3>1. 1..Len(c) \cap {p + 1} = {p + 1} /\ p + 1 \in 1..Len(c)
      BY <1>3, <2>3
    <3>2. List!Behind(p) = {c[p + 1]}
      BY <1>6, <2>1, <3>1 DEF List!Behind
    <3>3. next[f] = c[p + 1] /\ c[p + 1] # NoFrame
      BY <1>3, <1>4, <2>3, <3>1
    <3> QED
      BY <1>2, <3>2, <3>3
  <2> QED
    BY <2>2, <2>3
<1>9. List!LinkBehind(f, s)
  <2>1. p \in DOMAIN Forward /\ Forward[p] = f
    BY <1>3, <1>4, <1>6
  <2>2. Forward' = List!InsertAt(Forward, p + 1, s)
    BY <1>6 DEF d
  <2> QED
    BY <1>8, <2>1, <2>2 DEF List!LinkBehind
<1> QED
  BY <1>5, <1>7, <1>9 DEF ChainInv

\* A frame is cut out of the list.
LEMMA RemoveStep ==
  ASSUME ChainInv, NEW f \in Frames, f \notin stale, Remove(f)
  PROVE  ChainInv' /\ List!Unlink(f)
<1>1. PICK c : Holds(c)
  BY DEF ChainInv
<1>2. f \in used /\ stale' = stale \ {next[f]}
  BY DEF Remove
<1>3. /\ c \in Seq(Frames) /\ Len(c) \in Nat
      /\ \A i \in 1..Len(c) : c[i] \in Frames /\ c[i] # NoFrame /\ c[i] \in used
      /\ \A g \in used : \E i \in 1..Len(c) : c[i] = g
      /\ \A i \in 1..Len(c) : next[c[i]] = IF i = Len(c) THEN NoFrame ELSE c[i + 1]
  BY <1>1, HoldsFacts
<1>4. PICK p \in 1..Len(c) : c[p] = f
  BY <1>2, <1>3
<1> DEFINE d == List!RemoveAt(c, p)
<1>5. PointerTypes' /\ Holds(d)'
  BY <1>1, <1>4, RemoveHolds DEF ChainInv
<1> HIDE DEF d
<1>6. Forward = c /\ Forward' = d
  BY <1>1, <1>5, ForwardIs
<1>7. stale' = stale \ List!Behind(p)
  <2>1. DOMAIN Forward = 1..Len(c)
    BY <1>3, <1>6
  <2>2. CASE p = Len(c)
    <3>1. 1..Len(c) \cap {p + 1} = {}
      BY <1>3, <2>2
    <3>2. List!Behind(p) = {}
      BY <2>1, <3>1 DEF List!Behind
    <3>3. NoFrame \notin stale
      BY FramesOK DEF ChainInv, PointerTypes
    <3> QED
      BY <1>2, <1>3, <1>4, <2>2, <3>2, <3>3
  <2>3. CASE p # Len(c)
    <3>1. 1..Len(c) \cap {p + 1} = {p + 1} /\ p + 1 \in 1..Len(c)
      BY <1>3, <2>3
    <3>2. List!Behind(p) = {c[p + 1]}
      BY <1>6, <2>1, <3>1 DEF List!Behind
    <3>3. next[f] = c[p + 1]
      BY <1>3, <1>4, <2>3
    <3> QED
      BY <1>2, <3>2, <3>3
  <2> QED
    BY <2>2, <2>3
<1>8. List!Unlink(f)
  <2>1. p \in DOMAIN Forward /\ Forward[p] = f
    BY <1>3, <1>4, <1>6
  <2>2. Forward' = List!RemoveAt(Forward, p)
    BY <1>6 DEF d
  <2> QED
    BY <1>7, <2>1, <2>2 DEF List!Unlink
<1> QED
  BY <1>5, <1>8 DEF ChainInv

\* Every step keeps the invariant and is one of the list.
LEMMA ChainNext ==
  ChainInv /\ [Next]_vars => ChainInv' /\ [List!ListNext(Frames)]_<<Forward, stale>>
<1> SUFFICES ASSUME ChainInv, [Next]_vars
             PROVE  ChainInv' /\ [List!ListNext(Frames)]_<<Forward, stale>>
  OBVIOUS
<1>1. ASSUME NEW f \in Frames, Register(f) PROVE ChainInv' /\ List!ListNext(Frames)
  BY <1>1, RegisterStep DEF List!ListNext
<1>2. ASSUME NEW f \in Frames, NEW s \in Frames, Dup(f, s)
      PROVE  ChainInv' /\ List!ListNext(Frames)
  BY <1>2, DupStep DEF List!ListNext
<1>3. ASSUME NEW f \in Frames, f \notin stale, Remove(f)
      PROVE  ChainInv' /\ List!ListNext(Frames)
  BY <1>3, RemoveStep DEF List!ListNext
<1>4. CASE UNCHANGED vars
  <2>1. ChainInv'
    BY <1>4 DEF vars, ChainInv, PointerTypes, Holds
  <2>2. UNCHANGED <<Forward, stale>>
    BY <1>4 DEF vars, Forward
  <2> QED
    BY <2>1, <2>2
<1> QED
  BY <1>1, <1>2, <1>3, <1>4 DEF Next

\* While no filter drops a frame behind a duplicate, the pointers stay those of one list, which
\* can be walked forwards, and backwards over every frame that no duplicate was linked before.
THEOREM ChainInvariant == Spec => []ChainInv
<1>1. Init => ChainInv
  BY ChainInit DEF ChainInv
<1>2. ChainInv /\ [Next]_vars => ChainInv'
  BY ChainNext
<1> QED
  BY <1>1, <1>2, PTL DEF Spec

\* The tail and the prev pointers of framebuffer.c lead from every frame to the one before it.
THEOREM PrevPointersRight == Spec => []PrevIsRight
<1>1. ChainInv => PrevIsRight
  <2> SUFFICES ASSUME ChainInv PROVE PrevIsRight
    OBVIOUS
  <2>1. PICK c : Holds(c)
    BY DEF ChainInv
  <2>2. Forward = c
    BY <2>1, ForwardIs
  <2>3. DOMAIN c = 1..Len(c)
    BY <2>1, HoldsFacts
  <2> QED
    BY <2>1, <2>2, <2>3 DEF PrevIsRight, Holds
<1> QED
  BY <1>1, ChainInvariant, PTL

\* No frame in use is lost from the list and none is in it twice, as the violation of the same
\* invariant with any drop shows that it can be.
THEOREM UsedFramesReachable == Spec => []UsedIsReachable
<1>1. ChainInv => UsedIsReachable
  <2> SUFFICES ASSUME ChainInv PROVE UsedIsReachable
    OBVIOUS
  <2>1. PICK c : Holds(c)
    BY DEF ChainInv
  <2>2. Forward = c
    BY <2>1, ForwardIs
  <2>3. DOMAIN c = 1..Len(c)
    BY <2>1, HoldsFacts
  <2>4. used = {c[i] : i \in 1..Len(c)}
    BY <2>1 DEF Holds
  <2>5. Cardinality(used) = Len(c)
    BY <2>1, <2>4, ChainFits DEF Holds
  <2> QED
    BY <2>2, <2>3, <2>4, <2>5 DEF UsedIsReachable
<1> QED
  BY <1>1, ChainInvariant, PTL

\* LIST_FRAME_APPEND, INSERT, LINK and REMOVE implement the operations on a sequence of frames:
\* the pointers start as the empty list, and every step is one of FrameList or changes nothing
\* that it sees.
THEOREM PointersImplementList == Spec => ListRefined
<1>1. Init => ChainInv /\ List!ListInit
  <2> SUFFICES ASSUME Init PROVE ChainInv /\ List!ListInit
    OBVIOUS
  <2>1. PointerTypes /\ Holds(<<>>)
    BY ChainInit
  <2>2. Forward = <<>>
    BY <2>1, ForwardIs
  <2> QED
    BY <2>1, <2>2 DEF ChainInv, List!ListInit, Init
<1>2. ChainInv /\ [Next]_vars => ChainInv' /\ [List!ListNext(Frames)]_<<Forward, stale>>
  BY ChainNext
<1> QED
  BY <1>1, <1>2, PTL DEF Spec, ListRefined
=================================================================================
