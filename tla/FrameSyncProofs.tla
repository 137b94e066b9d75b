---------------------------- MODULE FrameSyncProofs ----------------------------
(***************************************************************************)
(* Proofs about FrameSync, for every size of the packet buffer, the pipes  *)
(* and the fifo, every stream and any number of sessions.                  *)
(***************************************************************************)
EXTENDS FrameSync, FiniteSetTheorems, SequenceTheorems, WellFoundedInduction,
        FunctionTheorems, TLAPS

-----------------------------------------------------------------------------
(* Naturals and sequences *)

\* The natural numbers are well founded.
LEMMA LeastNatural ==
  ASSUME NEW T \in SUBSET Nat, T # {}
  PROVE  \E n \in T : \A m \in T : n <= m
<1> DEFINE R == {pair \in Nat \X Nat : pair[1] < pair[2]}
<1>1. IsWellFoundedOn(R, Nat)
  BY NatLessThanWellFounded DEF OpToRel
<1>2. \E n \in T : \A m \in T : ~ (<<m, n>> \in R)
  <2> HIDE DEF R
  <2> QED
    BY <1>1, WFMin
<1>3. PICK n \in T : \A m \in T : ~ (<<m, n>> \in R)
  BY <1>2
<1>4. ASSUME NEW m \in T PROVE n <= m
  <2>1. m \in Nat /\ n \in Nat
    OBVIOUS
  <2>2. <<m, n>> \in Nat \X Nat /\ <<m, n>>[1] = m /\ <<m, n>>[2] = n
    BY <2>1
  <2>3. ~ (m < n)
    BY <1>3, <2>2
  <2> QED
    BY <2>1, <2>3
<1> QED
  BY <1>4

\* A set of natural numbers that holds 0 and is closed under successor holds them all.
LEMMA SetInduction ==
  ASSUME NEW T, 0 \in T, \A n \in Nat : n \in T => n + 1 \in T
  PROVE  Nat \subseteq T
<1> SUFFICES ASSUME Nat \ T # {} PROVE FALSE
  OBVIOUS
<1>1. PICK n \in Nat \ T : \A m \in Nat \ T : n <= m
  BY LeastNatural
<1>2. n # 0 /\ n - 1 \in Nat
  OBVIOUS
<1>3. n - 1 \in T
  BY <1>1, <1>2
<1> QED
  BY <1>2, <1>3

\* The first position of a list that has what is looked for.
LEMMA MinIs ==
  ASSUME NEW T \in SUBSET Nat, NEW n \in T, \A m \in T : n <= m
  PROVE  Min(T) = n
<1>1. \A k \in T : (\A m \in T : k <= m) => k = n
  OBVIOUS
<1> QED
  BY <1>1 DEF Min

\* There is a first position if there is any.
LEMMA MinExists ==
  ASSUME NEW T \in SUBSET Nat, T # {}
  PROVE  Min(T) \in T
<1>1. PICK n \in T : \A m \in T : n <= m
  BY LeastNatural
<1> QED
  BY <1>1, MinIs

\* Removing position i from a sequence keeps the others in their order.
LEMMA RemoveAtElements ==
  ASSUME NEW S, NEW seq \in Seq(S), NEW i \in 1..Len(seq)
  PROVE  /\ RemoveAt(seq, i) \in Seq(S)
         /\ Len(RemoveAt(seq, i)) = Len(seq) - 1
         /\ \A j \in 1..(Len(seq) - 1) :
              RemoveAt(seq, i)[j] = IF j < i THEN seq[j] ELSE seq[j + 1]
<1> DEFINE a == SubSeq(seq, 1, i - 1)
           b == SubSeq(seq, i + 1, Len(seq))
<1>1. i \in 1..Len(seq) /\ Len(seq) \in Nat
  OBVIOUS
<1>2. a \in Seq(S) /\ Len(a) = i - 1 /\ \A j \in 1..(i - 1) : a[j] = seq[j]
  BY <1>1
<1>3. b \in Seq(S) /\ Len(b) = Len(seq) - i
      /\ \A j \in 1..(Len(seq) - i) : b[j] = seq[i + j]
  BY <1>1
<1> HIDE DEF a, b
<1>4. a \o b \in Seq(S) /\ Len(a \o b) = Len(seq) - 1
  <2>1. a \o b \in Seq(S) /\ Len(a \o b) = Len(a) + Len(b)
    BY <1>2, <1>3, ConcatProperties
  <2> QED
    BY <1>1, <1>2, <1>3, <2>1
<1>5. ASSUME NEW j \in 1..(Len(seq) - 1)
      PROVE  (a \o b)[j] = IF j < i THEN seq[j] ELSE seq[j + 1]
  <2>1. (a \o b)[j] = IF j <= Len(a) THEN a[j] ELSE b[j - Len(a)]
    BY <1>1, <1>2, <1>3
  <2>2. CASE j < i
    BY <1>1, <1>2, <2>1, <2>2
  <2>3. CASE ~ (j < i)
    <3>1. j - Len(a) \in 1..(Len(seq) - i) /\ i + (j - Len(a)) = j + 1
      BY <1>1, <1>2, <2>3
    <3> QED
      BY <1>1, <1>2, <1>3, <2>1, <2>3, <3>1
  <2> QED
    BY <2>2, <2>3
<1> QED
  BY <1>4, <1>5 DEF RemoveAt, a, b

-----------------------------------------------------------------------------
(* Expand *)

\* The recursion that Expand is defined by, up to n.
Expansion(out, l, n) ==
  out = [m \in 0..n |-> IF m = 0 THEN <<>> ELSE out[m - 1] \o [i \in 1..l[m] |-> m]]

\* The recursion has a solution up to every n.
LEMMA ExpansionExists ==
  ASSUME NEW l
  PROVE  \A n \in Nat : \E out : Expansion(out, l, n)
<1> DEFINE T == {n \in Nat : \E out : Expansion(out, l, n)}
<1>1. 0 \in T
  <2> DEFINE out == [m \in 0..0 |-> <<>>]
  <2>1. Expansion(out, l, 0)
    BY DEF Expansion
  <2> QED
    BY <2>1
<1>2. ASSUME NEW n \in Nat, n \in T PROVE n + 1 \in T
  <2>1. PICK old : Expansion(old, l, n)
    BY <1>2
  <2> DEFINE out == [m \in 0..n + 1 |-> IF m <= n THEN old[m]
                                        ELSE old[n] \o [i \in 1..l[n + 1] |-> n + 1]]
  <2>2. ASSUME NEW m \in 0..n + 1
        PROVE  out[m] = IF m = 0 THEN <<>> ELSE out[m - 1] \o [i \in 1..l[m] |-> m]
    <3>1. CASE m = 0
      BY <2>1, <3>1 DEF Expansion
    <3>2. CASE m # 0 /\ m <= n
      <4>1. m \in 0..n /\ m - 1 \in 0..n /\ m - 1 \in 0..n + 1
        BY <3>2
      <4>2. old[m] = old[m - 1] \o [i \in 1..l[m] |-> m]
        BY <2>1, <3>2, <4>1 DEF Expansion
      <4>3. out[m] = old[m] /\ out[m - 1] = old[m - 1]
        BY <3>2, <4>1
      <4> QED
        BY <3>2, <4>2, <4>3
    <3>3. CASE m = n + 1
      <4>1. m - 1 = n /\ m # 0 /\ ~ (m <= n) /\ n \in 0..n + 1
        BY <3>3
      <4>2. out[m - 1] = old[n]
        BY <4>1
      <4>3. out[m] = old[n] \o [i \in 1..l[n + 1] |-> n + 1]
        BY <4>1
      <4> QED
        BY <3>3, <4>1, <4>2, <4>3
    <3> QED
      BY <3>1, <3>2, <3>3
  <2>3. out = [m \in 0..n + 1 |-> out[m]]
    OBVIOUS
  <2> HIDE DEF out
  <2>4. Expansion(out, l, n + 1)
    BY <2>2, <2>3 DEF Expansion
  <2> QED
    BY <2>4
<1> HIDE DEF T
<1>3. Nat \subseteq T
  BY <1>1, <1>2, SetInduction
<1> QED
  BY <1>3 DEF T

Agree(k, l, n) == \A m \in 1..n : k[m] = l[m]

\* Two solutions for lists that agree, agree as far as both go.
LEMMA ExpansionUnique ==
  ASSUME NEW l, NEW k, NEW a, NEW b, NEW n \in Nat, NEW o \in Nat, n <= o,
         Expansion(a, k, n), Expansion(b, l, o), Agree(k, l, n)
  PROVE  \A m \in 0..n : a[m] = b[m]
<1> DEFINE T == {m \in Nat : m <= n => a[m] = b[m]}
<1>1. 0 \in T
  BY DEF Expansion
<1>2. ASSUME NEW m \in Nat, m \in T PROVE m + 1 \in T
  <2> SUFFICES ASSUME m + 1 <= n PROVE a[m + 1] = b[m + 1]
    OBVIOUS
  <2>1. a[m] = b[m]
    BY <1>2
  <2>2. m + 1 \in 0..n /\ m + 1 \in 0..o /\ m + 1 # 0 /\ (m + 1) - 1 = m /\ m + 1 \in 1..n
    OBVIOUS
  <2>3. a[m + 1] = a[m] \o [i \in 1..k[m + 1] |-> m + 1]
    BY <2>2 DEF Expansion
  <2>4. b[m + 1] = b[m] \o [i \in 1..l[m + 1] |-> m + 1]
    BY <2>2 DEF Expansion
  <2> QED
    BY <2>1, <2>2, <2>3, <2>4 DEF Agree
<1> HIDE DEF T
<1>3. Nat \subseteq T
  BY <1>1, <1>2, SetInduction
<1> QED
  BY <1>3 DEF T

\* Expand satisfies its recursion.
LEMMA ExpandRecursion ==
  ASSUME NEW l \in Seq(Nat)
  PROVE  \E out : /\ Expansion(out, l, Len(l)) /\ Expand(l) = out[Len(l)]
<1> DEFINE c == CHOOSE out : Expansion(out, l, Len(l))
<1>1. Len(l) \in Nat
  OBVIOUS
<1>2. \E out : Expansion(out, l, Len(l))
  BY <1>1, ExpansionExists
<1>3. Expansion(c, l, Len(l))
  BY <1>2
<1>4. Expand(l) = c[Len(l)]
  BY DEF Expand, Expansion
<1> HIDE DEF c
<1> QED
  BY <1>3, <1>4

\* Expand works on a list from its beginning to its end.
LEMMA ExpandOf ==
  ASSUME NEW l \in Seq(Nat)
  PROVE  /\ Expand(SubSeq(l, 1, 0)) = <<>>
         /\ \A k \in 0..(Len(l) - 1) :
              Expand(SubSeq(l, 1, k + 1)) = Expand(SubSeq(l, 1, k)) \o [i \in 1..l[k + 1] |-> k + 1]
         /\ Expand(SubSeq(l, 1, Len(l))) = Expand(l)
<1>1. PICK out : Expansion(out, l, Len(l)) /\ Expand(l) = out[Len(l)]
  BY ExpandRecursion
<1>2. ASSUME NEW k \in 0..Len(l) PROVE Expand(SubSeq(l, 1, k)) = out[k]
  <2> DEFINE sub == SubSeq(l, 1, k)
             n == Len(l)
  <2>1. sub \in Seq(Nat) /\ Len(sub) = k /\ Agree(sub, l, k)
    BY DEF Agree
  <2>2. k \in Nat /\ n \in Nat /\ k <= n /\ k \in 0..k
    OBVIOUS
  <2>3. Expansion(out, l, n)
    BY <1>1
  <2> HIDE DEF sub, n
  <2>4. PICK part : Expansion(part, sub, k) /\ Expand(sub) = part[k]
    BY <2>1, ExpandRecursion
  <2>5. \A m \in 0..k : part[m] = out[m]
    BY <2>1, <2>2, <2>3, <2>4, ExpansionUnique
  <2> QED
    BY <2>2, <2>4, <2>5 DEF sub
<1>3. Len(l) \in Nat
  OBVIOUS
<1>4. out[0] = <<>>
  BY <1>1, <1>3 DEF Expansion
<1>5. ASSUME NEW k \in 0..(Len(l) - 1)
      PROVE  out[k + 1] = out[k] \o [i \in 1..l[k + 1] |-> k + 1]
  <2>1. k + 1 \in 0..Len(l) /\ k + 1 # 0 /\ (k + 1) - 1 = k
    BY <1>3
  <2> QED
    BY <1>1, <2>1 DEF Expansion
<1>6. \A k \in 0..(Len(l) - 1) : k \in 0..Len(l) /\ k + 1 \in 0..Len(l)
  BY <1>3
<1>7. Expand(SubSeq(l, 1, 0)) = <<>>
  BY <1>2, <1>3, <1>4
<1>8. Expand(SubSeq(l, 1, Len(l))) = Expand(l)
  BY <1>1, <1>2, <1>3
<1>9. \A k \in 0..(Len(l) - 1) :
        Expand(SubSeq(l, 1, k + 1)) = Expand(SubSeq(l, 1, k)) \o [i \in 1..l[k + 1] |-> k + 1]
  BY <1>2, <1>5, <1>6
<1> QED
  BY <1>7, <1>8, <1>9

\* The copies of one frame.
LEMMA CopiesSeq ==
  ASSUME NEW n \in Nat, NEW k \in Nat
  PROVE  /\ [i \in 1..n |-> k] \in Seq(Nat) /\ Len([i \in 1..n |-> k]) = n
         /\ [i \in 1..0 |-> k] = <<>>
OBVIOUS

\* Elementwise form of IsPrefix.
LEMMA PrefixElements ==
  ASSUME NEW s \in Seq(Nat), NEW t \in Seq(Nat)
  PROVE  IsPrefix(s, t) <=> Len(s) <= Len(t) /\ \A i \in 1..Len(s) : s[i] = t[i]
<1> SUFFICES ASSUME Len(s) <= Len(t)
             PROVE  (SubSeq(s, 1, Len(s)) = SubSeq(t, 1, Len(s))) <=> \A i \in 1..Len(s) : s[i] = t[i]
  BY DEF IsPrefix
<1>1. SubSeq(s, 1, Len(s)) = s
  OBVIOUS
<1>2. ASSUME NEW n \in Nat, n <= Len(t)
      PROVE  /\ SubSeq(t, 1, n) \in Seq(Nat) /\ Len(SubSeq(t, 1, n)) = n
             /\ \A i \in 1..n : SubSeq(t, 1, n)[i] = t[i]
  BY <1>2
<1>3. (\A i \in 1..Len(s) : s[i] = t[i]) => s = SubSeq(t, 1, Len(s))
  BY <1>2, SeqEqual
<1> QED
  BY <1>1, <1>2, <1>3

\* A sequence is a prefix of what is appended to it.
LEMMA PrefixOfConcat ==
  ASSUME NEW s \in Seq(Nat), NEW t \in Seq(Nat)
  PROVE  IsPrefix(s, s \o t)
<1>1. /\ s \o t \in Seq(Nat) /\ Len(s \o t) = Len(s) + Len(t)
      /\ \A i \in 1..Len(s) : (s \o t)[i] = s[i]
  BY ConcatProperties
<1>2. Len(s) <= Len(s) + Len(t)
  OBVIOUS
<1> QED
  BY <1>1, <1>2, PrefixElements

\* A prefix of a prefix is a prefix.
LEMMA PrefixTransitive ==
  ASSUME NEW s \in Seq(Nat), NEW t \in Seq(Nat), NEW u \in Seq(Nat), IsPrefix(s, t), IsPrefix(t, u)
  PROVE  IsPrefix(s, u)
<1>1. Len(s) <= Len(t) /\ \A i \in 1..Len(s) : s[i] = t[i]
  BY PrefixElements
<1>2. Len(t) <= Len(u) /\ \A i \in 1..Len(t) : t[i] = u[i]
  BY PrefixElements
<1>3. Len(s) <= Len(u) /\ \A i \in 1..Len(s) : i \in 1..Len(t)
  BY <1>1, <1>2
<1> QED
  BY <1>1, <1>2, <1>3, PrefixElements

\* What the beginning of the log says is the beginning of what all of it says.
LEMMA ExpandPrefix ==
  ASSUME NEW l \in Seq(Nat), NEW k \in 0..Len(l)
  PROVE  Expand(SubSeq(l, 1, k)) \in Seq(Nat) /\ IsPrefix(Expand(SubSeq(l, 1, k)), Expand(l))
<1> DEFINE e(m) == Expand(SubSeq(l, 1, m))
           P(m) == m <= Len(l) => /\ e(m) \in Seq(Nat)
                                  /\ k <= m => e(k) \in Seq(Nat) /\ IsPrefix(e(k), e(m))
           T == {m \in Nat : P(m)}
<1>1. Len(l) \in Nat /\ k \in Nat /\ k <= Len(l)
  OBVIOUS
<1>2. 0 \in T
  <2>1. e(0) = <<>>
    BY ExpandOf
  <2>2. k <= 0 => k = 0
    BY <1>1
  <2>3. IsPrefix(<<>>, <<>>) /\ <<>> \in Seq(Nat)
    BY DEF IsPrefix
  <2>4. e(0) \in Seq(Nat) /\ (k <= 0 => e(k) \in Seq(Nat) /\ IsPrefix(e(k), e(0)))
    BY <2>1, <2>2, <2>3
  <2> QED
    BY <2>4
<1>3. ASSUME NEW m \in Nat, m \in T PROVE m + 1 \in T
  <2> SUFFICES ASSUME m + 1 <= Len(l)
               PROVE  /\ e(m + 1) \in Seq(Nat)
                      /\ k <= m + 1 => e(k) \in Seq(Nat) /\ IsPrefix(e(k), e(m + 1))
    OBVIOUS
  <2>1. m <= Len(l) /\ m \in 0..(Len(l) - 1) /\ m + 1 \in 1..Len(l)
    BY <1>1
  <2> HIDE DEF e
  <2>2. e(m) \in Seq(Nat) /\ (k <= m => e(k) \in Seq(Nat) /\ IsPrefix(e(k), e(m)))
    <3>1. P(m)
      BY <1>3, Zenon
    <3> QED
      BY <2>1, <3>1
  <2>3. e(m + 1) = e(m) \o [i \in 1..l[m + 1] |-> m + 1]
    BY <2>1, ExpandOf DEF e
  <2>4. l[m + 1] \in Nat
    BY <2>1
  <2> DEFINE c == [i \in 1..l[m + 1] |-> m + 1]
  <2>5. c \in Seq(Nat)
    BY <2>4, CopiesSeq
  <2> HIDE DEF c
  <2>6. e(m + 1) \in Seq(Nat) /\ IsPrefix(e(m), e(m + 1))
    <3>1. e(m) \in Seq(Nat) /\ e(m + 1) = e(m) \o c
      BY <2>2, <2>3 DEF c
    <3> HIDE DEF e
    <3>2. e(m) \o c \in Seq(Nat)
      BY <2>5, <3>1, ConcatProperties
    <3>3. IsPrefix(e(m), e(m) \o c)
      BY <2>5, <3>1, PrefixOfConcat
    <3> QED
      BY <3>1, <3>2, <3>3
  <2>7. CASE k <= m
    BY <2>2, <2>6, <2>7, PrefixTransitive
  <2>8. CASE k = m + 1
    <3>1. IsPrefix(e(m + 1), e(m + 1))
      BY <2>6, PrefixElements
    <3> QED
      BY <2>6, <2>8, <3>1
  <2> QED
    BY <1>1, <2>6, <2>7, <2>8
<1> HIDE DEF T
<1>4. Nat \subseteq T
  BY <1>2, <1>3, SetInduction
<1>5. k \in T /\ Len(l) \in T
  BY <1>1, <1>4
<1>6. e(Len(l)) = Expand(l)
  BY ExpandOf
<1> HIDE DEF e
<1>7. e(k) \in Seq(Nat) /\ IsPrefix(e(k), e(Len(l)))
  <2>1. P(Len(l))
    BY <1>5, Zenon DEF T
  <2> QED
    BY <1>1, <2>1
<1> QED
  BY <1>6, <1>7 DEF e

-----------------------------------------------------------------------------
(* The inductive invariant *)

Info == [session : Nat, id : Nat, copies : Nat, status : {"EMPTY", "READY"}]

\* What the variables hold.
DemuxTypes ==
  /\ source \in Sources /\ packet \in 0..source.last
  /\ demux \in {"read", "records", "submit", "asleep", "register", "fill", "count", "drain", "exit"}
  /\ log \in Seq(Nat)
PackTypes ==
  /\ slot \in [Slots -> [status : {"NULL", "EMPTY", "READY"}, frame : Nat]]
  /\ sbufNext \in Slots /\ packets \in Seq(Slots) /\ packFill \in Nat
  /\ flush \in {"top", "asleep", "write", "remove", "count", "exit"}
PipeTypes ==
  /\ pipe \in Seq(Nat) /\ pipeOpen \in BOOLEAN /\ fifo \in Seq(Nat) /\ fifoOpen \in BOOLEAN
InfoTypes ==
  /\ infos \in Seq(Info) /\ fillCtr \in Nat /\ readFlag \in BOOLEAN
  /\ reader \in {"register", "read", "ready", "count", "exit"}
CloneTypes ==
  /\ cloneCtr \in Nat /\ fiptr \in Info /\ frame \in Nat /\ delivered \in Seq(Nat)
  /\ import \in {"top", "next", "asleep", "woken", "retrieve", "read", "remove", "ended",
                 "closing", "closed"}
  /\ session \in Nat /\ clean \in BOOLEAN /\ killed \in BOOLEAN
Types == DemuxTypes /\ PackTypes /\ PipeTypes /\ InfoTypes /\ CloneTypes

\* The last packet that is in the list or has left it.
Submitted == IF demux \in {"records", "submit", "asleep", "register"} THEN packet - 1 ELSE packet

\* The buffer of the i-th packet of the list: the list is a section of the ring.
Place(i) ==
  LET d == sbufNext - Len(packets) + i - 1 IN IF d < 0 THEN d + MaxFill + 2 ELSE d

\* The threads at the ends of the packet list count what is in it.
PacketCount ==
  /\ (flush = "exit") = (demux = "exit")
  /\ demux # "exit" =>
       /\ packFill <= MaxFill
       /\ demux \in {"register", "fill", "count"} => packFill < MaxFill
       /\ demux \in {"records", "submit", "asleep", "register", "fill", "count"} => packet > 0
       /\ flush \in {"write", "remove", "count"} => packFill > 0
       /\ Len(packets) = packFill + (IF demux \in {"fill", "count"} THEN 1 ELSE 0)
                                  - (IF flush = "count" THEN 1 ELSE 0)

\* The i-th packet of the list has its place in the ring and is the i-th of those that
\* have not left; it is ready unless the demultiplexer is filling it.
PacketAt(i) ==
  /\ packets[i] = Place(i)
  /\ slot[packets[i]].frame = Submitted - Len(packets) + i
  /\ (slot[packets[i]].status = "READY") = (demux # "fill" \/ i < Len(packets))

\* The buffers that no packet of the list is in are free.
OthersFree == \A k \in Slots : (\A i \in 1..Len(packets) : packets[i] # k) => slot[k] = Free

\* The list is a section of the ring that ends before sbufNext.
PacketInv ==
  /\ PacketCount
  /\ demux # "exit" => (\A i \in 1..Len(packets) : PacketAt(i)) /\ OthersFree

\* The frames in the pipe follow the one that has been read, and nothing is lost between
\* the list and the pipe.
PipeInv ==
  /\ \A i \in 1..Len(pipe) : pipe[i] = frame + i
  /\ demux # "exit" =>
       frame + Len(pipe) = Submitted - Len(packets) + (IF flush = "remove" THEN 1 ELSE 0)

\* The sequences that begin up to here have their records, but for the last one.
Recorded(n) == \A p \in source.starts : p <= n => p <= Len(log) + 1

\* The log is complete up to the sequence of the last packet, and the process ends behind
\* the last packet or is killed.
LogInv ==
  /\ Len(log) = 0 \/ Len(log) < packet
  /\ demux = "records" => Len(log) < packet - 1 /\ packet \in source.starts
  /\ demux # "exit" => Recorded(IF demux = "records" THEN packet - 1 ELSE packet)
  /\ demux = "drain" => packet = source.last
  /\ demux # "exit" => pipeOpen /\ (fifoOpen \/ demux = "drain")
  /\ demux = "exit" /\ import # "closed" /\ ~killed =>
       /\ packet = source.last /\ Recorded(packet)
       /\ frame + Len(pipe) = packet

Waiting  == IF reader \in {"read", "ready", "exit"} THEN 1 ELSE 0
Counting == IF reader = "count" THEN 1 ELSE 0
Taking   == IF import \in {"retrieve", "read", "remove"} THEN 1 ELSE 0

\* The records in the fifo are those of the log that the reader has not read.
FifoInv ==
  /\ Len(fifo) <= Len(log)
  /\ \A i \in 1..Len(fifo) : fifo[i] = log[RecordsRead + i]

\* The reader works at the end of the list, until the end of the log.
ReaderInv ==
  /\ ~readFlag => reader = "exit" /\ fifo = <<>> /\ ~fifoOpen
  /\ \A i \in 1..Len(infos) : infos[i].session <= session
  /\ Waiting = 1 => /\ Len(infos) > 0 /\ infos[Len(infos)].session = session
                    /\ infos[Len(infos)].status = "EMPTY"
  /\ reader = "ready" => RecordsRead > 0 /\ infos[Len(infos)].copies = log[RecordsRead]
  /\ reader = "count" => RecordsRead > 0

\* The import thread works with a record of the list that is ready.
TakenInv ==
  import \in {"read", "remove"} =>
    fiptr.status = "READY" /\ \E i \in 1..Len(infos) : infos[i] = fiptr

\* No record is counted before it is ready.
CountedInv == fillCtr + Counting + Taking <= Cardinality(ReadyInfos)

InfoInv == FifoInv /\ ReaderInv /\ TakenInv /\ CountedInv

\* The frames whose records have left the list.
Used == IF import = "remove" THEN frame - 1 ELSE frame

\* The number of the last record registered, and how many records of the session are left.
LastInfo == IF reader \in {"read", "exit"} THEN RecordsRead ELSE RecordsRead - 1
Own      == LastInfo - Used + 1

\* The records of a session that began without leftovers are those of the frames that have
\* not been used, in order, behind the empty ones of other sessions; all but the one that
\* the reader works with are ready.
OwnAt(i) ==
  IF i <= Len(infos) - Own
  THEN infos[i].session < session /\ infos[i].status = "EMPTY"
  ELSE /\ infos[i].session = session
       /\ infos[i].id = LastInfo - Len(infos) + i
       /\ (infos[i].status = "READY") = (Waiting = 0 \/ i < Len(infos))
       /\ infos[i].id < RecordsRead => infos[i].copies = log[infos[i].id + 1]
CleanList == 0 <= Own /\ Own <= Len(infos) /\ \A i \in 1..Len(infos) : OwnAt(i)

\* They are counted.
CleanCount ==
  import \notin {"ended", "closing", "closed"} => fillCtr = Own - Waiting - Counting - Taking

\* The record at work is that of the next frame.
CleanTaken ==
  /\ import = "remove" => frame > 0
  /\ import \in {"read", "remove"} =>
       /\ fiptr.session = session /\ fiptr.id = Used
       /\ Used < RecordsRead /\ fiptr.copies = log[Used + 1]

\* What is delivered and due is what the log says of the frames used.
CleanOut ==
  /\ cloneCtr > 0 => import \in {"top", "closing", "closed"}
  /\ delivered \o [i \in 1..cloneCtr |-> frame] = Expand(SubSeq(log, 1, Used))

\* When the import thread ends by itself, everything is delivered.
CleanEnd ==
  import = "ended" /\ ~killed => delivered = Expand(log) /\ Recorded(source.last)

CleanInv == clean => CleanList /\ CleanCount /\ CleanTaken /\ CleanOut /\ CleanEnd

IndInv == Types /\ PacketInv /\ PipeInv /\ LogInv /\ InfoInv /\ CleanInv
-----------------------------------------------------------------------------
(* The ready records of a list *)

ReadyOf(list) == {i \in DOMAIN list : list[i].status = "READY"}

\* They can be counted.
LEMMA ReadyFinite ==
  ASSUME NEW list \in Seq(Info)
  PROVE  /\ IsFiniteSet(ReadyOf(list)) /\ Cardinality(ReadyOf(list)) \in Nat
         /\ ReadyOf(list) \subseteq 1..Len(list)
<1>1. ReadyOf(list) \subseteq 1..Len(list) /\ Len(list) \in Nat
  BY DEF ReadyOf
<1>2. IsFiniteSet(1..Len(list))
  BY <1>1, FS_Interval
<1> QED
  BY <1>1, <1>2, FS_Subset, FS_CardinalityType

\* A new record is not ready.
LEMMA ReadyAppend ==
  ASSUME NEW list \in Seq(Info), NEW r \in Info, r.status = "EMPTY"
  PROVE  ReadyOf(Append(list, r)) = ReadyOf(list)
<1>1. /\ DOMAIN Append(list, r) = 1..Len(list) + 1 /\ DOMAIN list = 1..Len(list)
      /\ Len(list) \in Nat
      /\ \A i \in 1..Len(list) : Append(list, r)[i] = list[i]
      /\ Append(list, r)[Len(list) + 1] = r
  OBVIOUS
<1>2. ASSUME NEW i PROVE i \in ReadyOf(Append(list, r)) <=> i \in ReadyOf(list)
  <2>1. CASE i = Len(list) + 1
    BY <1>1, <2>1 DEF ReadyOf
  <2>2. CASE i # Len(list) + 1
    <3>1. i \in 1..Len(list) + 1 <=> i \in 1..Len(list)
      BY <1>1, <2>2
    <3> QED
      BY <1>1, <3>1 DEF ReadyOf
  <2> QED
    BY <2>1, <2>2
<1> QED
  BY <1>2

\* A record becomes ready.
LEMMA ReadyMore ==
  ASSUME NEW list \in Seq(Info), NEW k \in 1..Len(list), list[k].status = "EMPTY",
         NEW new \in Seq(Info), Len(new) = Len(list), new[k].status = "READY",
         \A i \in 1..Len(list) : i # k => new[i] = list[i]
  PROVE  Cardinality(ReadyOf(new)) = Cardinality(ReadyOf(list)) + 1
<1>1. DOMAIN new = 1..Len(list) /\ DOMAIN list = 1..Len(list)
  OBVIOUS
<1>2. ReadyOf(new) = ReadyOf(list) \cup {k} /\ k \notin ReadyOf(list)
  BY <1>1 DEF ReadyOf
<1> QED
  BY <1>2, ReadyFinite, FS_AddElement

\* A ready record leaves the list.
LEMMA ReadyLess ==
  ASSUME NEW list \in Seq(Info), NEW k \in 1..Len(list), list[k].status = "READY"
  PROVE  Cardinality(ReadyOf(RemoveAt(list, k))) = Cardinality(ReadyOf(list)) - 1
<1> DEFINE new == RemoveAt(list, k)
           S   == ReadyOf(new)
           T   == ReadyOf(list) \ {k}
           f   == [i \in S |-> IF i < k THEN i ELSE i + 1]
<1>1. /\ new \in Seq(Info) /\ Len(new) = Len(list) - 1
      /\ \A i \in 1..(Len(list) - 1) : new[i] = IF i < k THEN list[i] ELSE list[i + 1]
  BY RemoveAtElements
<1>2. Len(list) \in Nat /\ DOMAIN list = 1..Len(list)
  OBVIOUS
<1> HIDE DEF new
<1>3. DOMAIN new = 1..(Len(list) - 1)
  BY <1>1
<1>4. f \in [S -> T]
  <2>1. ASSUME NEW i \in S PROVE (IF i < k THEN i ELSE i + 1) \in T
    <3>1. i \in 1..(Len(list) - 1) /\ new[i].status = "READY"
      BY <1>3 DEF ReadyOf
    <3>2. CASE i < k
      BY <1>1, <1>2, <3>1, <3>2 DEF ReadyOf
    <3>3. CASE ~ (i < k)
      <4>1. i + 1 \in 1..Len(list) /\ i + 1 # k /\ new[i] = list[i + 1]
        BY <1>1, <1>2, <3>1, <3>3
      <4> QED
        BY <1>2, <3>1, <3>3, <4>1 DEF ReadyOf
    <3> QED
      BY <3>2, <3>3
  <2> QED
    BY <2>1
<1>5. ASSUME NEW a \in S, NEW b \in S, f[a] = f[b] PROVE a = b
  <2>1. a \in Nat /\ b \in Nat
    BY <1>3 DEF ReadyOf
  <2> QED
    BY <1>5, <2>1
<1>6. ASSUME NEW t \in T PROVE \E s \in S : f[s] = t
  <2>1. t \in 1..Len(list) /\ t # k /\ list[t].status = "READY"
    BY <1>2 DEF ReadyOf
  <2>2. CASE t < k
    <3>1. t \in 1..(Len(list) - 1) /\ new[t] = list[t]
      BY <1>1, <1>2, <2>1, <2>2
    <3>2. t \in S
      BY <1>3, <2>1, <3>1 DEF ReadyOf
    <3> QED
      BY <2>2, <3>2
  <2>3. CASE t > k
    <3>1. t - 1 \in 1..(Len(list) - 1) /\ ~ (t - 1 < k) /\ (t - 1) + 1 = t
      BY <1>2, <2>1, <2>3
    <3>2. new[t - 1] = list[t]
      BY <1>1, <3>1
    <3>3. t - 1 \in S
      BY <1>3, <2>1, <3>1, <3>2 DEF ReadyOf
    <3> QED
      BY <3>1, <3>3
  <2> QED
    BY <2>1, <2>2, <2>3
<1>7. f \in Bijection(S, T)
  <2> HIDE DEF f, S, T
  <2> QED
    BY <1>4, <1>5, <1>6, Fun_IsBij
<1>8. IsFiniteSet(S)
  BY <1>1, ReadyFinite
<1>9. Cardinality(T) = Cardinality(S)
  BY <1>7, <1>8, FS_Bijection, Fun_ExistsBij
<1>10. k \in ReadyOf(list)
  BY <1>2 DEF ReadyOf
<1>11. Cardinality(T) = Cardinality(ReadyOf(list)) - 1
  BY <1>10, ReadyFinite, FS_RemoveElement
<1> QED
  BY <1>9, <1>11 DEF new

-----------------------------------------------------------------------------
(* The first states *)

\* A source has a first picture.
LEMMA SourceIs ==
  ASSUME Types
  PROVE  /\ source.last \in Nat /\ source.starts \subseteq 1..source.last
         /\ MaxFill \in Nat \ {0} /\ packet \in Nat
BY SyncConstants DEF Types, DemuxTypes

LEMMA InitIndInv == Init => IndInv
<1> SUFFICES ASSUME Init PROVE IndInv
  OBVIOUS
<1>1. source.last \in Nat /\ source.starts \subseteq 1..source.last /\ MaxFill \in Nat \ {0}
  BY SyncConstants DEF Init
<1>2. Types
  <2>1. /\ slot \in [Slots -> [status : {"NULL", "EMPTY", "READY"}, frame : Nat]]
        /\ sbufNext \in Slots /\ packets \in Seq(Slots)
    BY <1>1 DEF Init, Slots, Free
  <2>2. infos \in Seq(Info) /\ fiptr \in Info /\ pipe \in Seq(Nat) /\ fifo \in Seq(Nat)
        /\ log \in Seq(Nat) /\ delivered \in Seq(Nat)
    BY DEF Init, None, Info
  <2> QED
    BY <2>1, <2>2 DEF Init, Types, DemuxTypes, PackTypes, PipeTypes, InfoTypes, CloneTypes
<1>3. PacketInv
  <2>1. PacketCount
    BY <1>1 DEF Init, PacketCount
  <2>2. OthersFree /\ Len(packets) = 0
    BY DEF Init, OthersFree
  <2> QED
    BY <2>1, <2>2 DEF PacketInv
<1>4. PipeInv
  BY DEF Init, PipeInv, Submitted
<1>5. LogInv
  BY <1>1 DEF Init, LogInv, Recorded
<1>6. ReadyInfos = {}
  BY DEF Init, ReadyInfos
<1>7. InfoInv
  BY <1>6, FS_EmptySet DEF Init, InfoInv, FifoInv, ReaderInv, TakenInv, CountedInv, RecordsRead,
    Waiting, Counting, Taking
<1>8. CleanInv
  <2>1. Expand(SubSeq(log, 1, 0)) = <<>> /\ [i \in 1..0 |-> 0] = <<>>
    BY <1>2, ExpandOf, CopiesSeq DEF Types, DemuxTypes
  <2>2. Used = 0 /\ LastInfo = -1 /\ Own = 0
    BY DEF Init, Used, LastInfo, Own, RecordsRead
  <2>3. Waiting = 0 /\ Counting = 0 /\ Taking = 0
    BY DEF Init, Waiting, Counting, Taking
  <2>4. delivered \o [i \in 1..cloneCtr |-> frame] = Expand(SubSeq(log, 1, Used))
    BY <2>1, <2>2 DEF Init
  <2> QED
    BY <2>2, <2>3, <2>4 DEF Init, CleanInv, CleanList, CleanCount, CleanTaken, CleanOut, CleanEnd
<1> QED
  BY <1>2, <1>3, <1>4, <1>5, <1>7, <1>8 DEF IndInv

-----------------------------------------------------------------------------
(* The packet list *)

\* Register counts sbufNext round the ring.
LEMMA NextSlot ==
  ASSUME NEW n \in Nat, NEW k \in Nat, k < n
  PROVE  (k + 1) % n = IF k = n - 1 THEN 0 ELSE k + 1
OBVIOUS

\* The list never fills the ring.
LEMMA PacketRoom ==
  ASSUME Types, PacketCount, demux # "exit"
  PROVE  /\ Len(packets) \in Nat /\ Len(packets) < MaxFill + 2 /\ MaxFill \in Nat
         /\ sbufNext \in 0..MaxFill + 1 /\ packFill \in Nat /\ packet \in Nat
         /\ DOMAIN packets = 1..Len(packets)
         /\ \A i \in 1..Len(packets) : packets[i] \in Slots
<1>1. /\ Len(packets) \in Nat /\ MaxFill \in Nat /\ packet \in Nat
      /\ sbufNext \in 0..MaxFill + 1 /\ packFill \in Nat
      /\ DOMAIN packets = 1..Len(packets)
      /\ \A i \in 1..Len(packets) : packets[i] \in Slots
  BY SourceIs DEF Types, PackTypes, Slots
<1> DEFINE n == Len(packets)
<1>2. n = packFill + (IF demux \in {"fill", "count"} THEN 1 ELSE 0)
                   - (IF flush = "count" THEN 1 ELSE 0)
      /\ packFill <= MaxFill
  BY DEF PacketCount
<1>3. n \in Nat
  BY <1>1
<1> HIDE DEF n
<1>4. n < MaxFill + 2
  BY <1>1, <1>2, <1>3
<1> QED
  BY <1>1, <1>4 DEF n

\* The buffer that is taken next is free, for no packet of the list is in it.
LEMMA PacketFree ==
  ASSUME Types, PacketInv, demux # "exit"
  PROVE  /\ slot[sbufNext] = Free
         /\ \A i \in 1..Len(packets) : packets[i] # sbufNext
<1> DEFINE n == Len(packets)
<1>1. /\ n \in Nat /\ n < MaxFill + 2 /\ MaxFill \in Nat
      /\ sbufNext \in 0..MaxFill + 1
  BY PacketRoom DEF PacketInv
<1>2. ASSUME NEW i \in 1..n PROVE packets[i] # sbufNext
  <2>1. packets[i] = LET d == sbufNext - n + i - 1 IN IF d < 0 THEN d + MaxFill + 2 ELSE d
    BY <1>2 DEF PacketInv, PacketAt, Place
  <2> HIDE DEF n
  <2> QED
    BY <1>1, <2>1
<1> QED
  BY <1>1, <1>2 DEF PacketInv, OthersFree, Slots

\* The packets of the list are in different buffers.
LEMMA PacketsApart ==
  ASSUME Types, PacketInv, demux # "exit",
         NEW i \in 1..Len(packets), NEW j \in 1..Len(packets), packets[i] = packets[j]
  PROVE  i = j
<1> DEFINE n == Len(packets)
<1>1. /\ n \in Nat /\ n < MaxFill + 2 /\ MaxFill \in Nat
      /\ sbufNext \in 0..MaxFill + 1
  BY PacketRoom DEF PacketInv
<1> DEFINE at(k) == IF sbufNext - n + k - 1 < 0 THEN sbufNext - n + k + MaxFill + 1
                    ELSE sbufNext - n + k - 1
<1>2. ASSUME NEW k \in 1..n PROVE packets[k] = at(k)
  <2>1. packets[k] = Place(k)
    BY DEF PacketInv, PacketAt
  <2>2. k \in Int
    BY <1>1
  <2> HIDE DEF n
  <2>3. (sbufNext - n + k - 1) + MaxFill + 2 = sbufNext - n + k + MaxFill + 1
    BY <1>1, <2>2
  <2> QED
    BY <2>1, <2>3 DEF Place, n
<1>3. i \in 1..n /\ j \in 1..n /\ at(i) = at(j)
  BY <1>2
<1> HIDE DEF n
<1> QED
  BY <1>1, <1>3

\* The flush thread takes the first packet of the list.
LEMMA FirstPacketIs ==
  ASSUME Types, PacketInv, flush \in {"write", "remove"}
  PROVE  /\ ReadyPackets # {} /\ FirstPacket = 1 /\ Len(packets) > 0
         /\ demux = "fill" => Len(packets) > 1
<1>1. demux # "exit" /\ Len(packets) \in Nat /\ packFill \in Nat /\ packFill > 0
  BY DEF Types, PackTypes, PacketInv, PacketCount
<1>2. Len(packets) > 0 /\ (demux = "fill" => Len(packets) > 1)
  BY <1>1 DEF PacketInv, PacketCount
<1>3. slot[packets[1]].status = "READY"
  <2>1. PacketAt(1)
    BY <1>1, <1>2 DEF PacketInv
  <2> QED
    BY <1>2, <2>1 DEF PacketAt
<1>4. 1 \in ReadyPackets /\ ReadyPackets \in SUBSET Nat /\ \A i \in ReadyPackets : 1 <= i
  BY <1>1, <1>2, <1>3 DEF ReadyPackets, Types, PackTypes
<1>5. FirstPacket = 1
  BY <1>4, MinIs DEF FirstPacket
<1> QED
  BY <1>2, <1>4, <1>5

\* The counters are right, whichever thread moves.
LEMMA PacketCountNext ==
  ASSUME Types, PacketInv, [Next]_vars PROVE PacketCount'
<1> USE DEF PacketCount
<1>1. /\ Len(packets) \in Nat /\ packFill \in Nat /\ MaxFill \in Nat \ {0} /\ packet \in Nat
      /\ PacketCount
  BY SourceIs DEF Types, PackTypes, PacketInv
<1>2. CASE ReadPacket
  BY <1>1, <1>2 DEF ReadPacket, packVars
<1>3. CASE WriteRecord
  BY <1>1, <1>3 DEF WriteRecord, packVars
<1>4. CASE AwaitRoom
  BY <1>1, <1>4 DEF AwaitRoom, packVars
<1>5. CASE RegisterPacket
  <2>1. Len(packets') = Len(packets) + 1
    BY <1>5 DEF RegisterPacket, Types, PackTypes
  <2> QED
    BY <1>1, <1>5, <2>1 DEF RegisterPacket
<1>6. CASE FillPacket
  BY <1>1, <1>6 DEF FillPacket
<1>7. CASE CountPacket
  BY <1>1, <1>7 DEF CountPacket
<1>8. CASE DemuxEof
  BY <1>1, <1>8 DEF DemuxEof, packVars
<1>9. CASE DemuxExit
  BY <1>1, <1>9 DEF DemuxExit
<1>10. CASE FlushTest
  BY <1>1, <1>10 DEF FlushTest, demuxVars
<1>11. CASE FlushWrite
  BY <1>1, <1>11 DEF FlushWrite, demuxVars
<1>12. CASE FlushRemove
  <2>1. Len(packets') = Len(packets) - 1
    <3>1. FirstPacket = 1 /\ Len(packets) > 0
      BY <1>12, FirstPacketIs DEF FlushRemove
    <3>2. packets' = RemoveAt(packets, 1)
      BY <1>12, <3>1 DEF FlushRemove
    <3>3. packets \in Seq(Slots) /\ 1 \in 1..Len(packets)
      BY <1>1, <3>1 DEF Types, PackTypes
    <3> QED
      BY <3>2, <3>3, RemoveAtElements
  <2>2. flush = "remove" /\ flush' = "count"
        /\ UNCHANGED <<demux, packFill, packet>>
    BY <1>12 DEF FlushRemove, demuxVars
  <2> QED
    BY <1>1, <2>1, <2>2
<1>13. CASE FlushCount
  BY <1>1, <1>13 DEF FlushCount
<1>14. CASE HelpersDie \/ Join
  BY <1>14 DEF HelpersDie, Join
<1>15. CASE Open
  <2>1. Len(packets') = 0
    BY <1>15 DEF Open
  <2> QED
    BY <1>1, <1>15, <2>1 DEF Open
<1>16. CASE Reader \/ Import \/ Close \/ UNCHANGED vars
  <2>1. UNCHANGED <<packVars, demux, packet>>
    BY <1>16 DEF Reader, Import, Close, RegisterInfo, ReadInfo, ReadEof, InfoReady, CountInfo,
      ImportCopy, ImportTest, ImportWoken, ImportRetrieve, ImportRead, ImportReadFails,
      ImportFrame, vars, demuxVars
  <2> QED
    BY <1>1, <2>1 DEF packVars
<1> QED
  BY <1>2, <1>3, <1>4, <1>5, <1>6, <1>7, <1>8, <1>9, <1>10, <1>11, <1>12, <1>13, <1>14, <1>15,
     <1>16 DEF Next, Demux, Flush, Finished
\* The list and its buffers are as they should be.
ListInv == (\A i \in 1..Len(packets) : PacketAt(i)) /\ OthersFree

\* Steps that leave the list alone.
LEMMA ListKept ==
  ASSUME ListInv, UNCHANGED <<slot, packets, sbufNext, Submitted>>,
         (demux' = "fill") = (demux = "fill")
  PROVE  ListInv'
<1>1. ASSUME NEW i \in 1..Len(packets) PROVE PacketAt(i)'
  <2>1. PacketAt(i)
    BY DEF ListInv
  <2> QED
    BY <2>1 DEF PacketAt, Place
<1> QED
  BY <1>1 DEF ListInv, OthersFree

LEMMA RegisterPacketList ==
  ASSUME Types, PacketInv, RegisterPacket PROVE ListInv'
<1> DEFINE n == Len(packets)
<1>1. /\ demux = "register" /\ demux' = "fill" /\ packet' = packet
      /\ slot' = [slot EXCEPT ![sbufNext] = [status |-> "EMPTY", frame |-> packet]]
      /\ packets' = Append(packets, sbufNext)
      /\ sbufNext' = (sbufNext + 1) % (MaxFill + 2)
  BY DEF RegisterPacket
<1>2. /\ n \in Nat /\ n < MaxFill + 2 /\ MaxFill \in Nat /\ sbufNext \in 0..MaxFill + 1
      /\ packet \in Nat /\ \A i \in 1..n : packets[i] \in Slots
  BY <1>1, PacketRoom DEF PacketInv
<1>3. /\ slot \in [Slots -> [status : {"NULL", "EMPTY", "READY"}, frame : Nat]]
      /\ packets \in Seq(Slots) /\ sbufNext \in Slots
  BY DEF Types, PackTypes
<1>4. sbufNext' = IF sbufNext = MaxFill + 1 THEN 0 ELSE sbufNext + 1
  BY <1>1, <1>2, NextSlot
<1>5. /\ Len(packets') = n + 1 /\ packets'[n + 1] = sbufNext
      /\ \A i \in 1..n : packets'[i] = packets[i]
  BY <1>1, <1>3
<1>6. slot[sbufNext] = Free /\ \A i \in 1..n : packets[i] # sbufNext
  BY <1>1, PacketFree
<1>7. Submitted = packet - 1 /\ Submitted' = packet
  BY <1>1 DEF Submitted
<1>8. ASSUME NEW i \in 1..n + 1 PROVE packets'[i] = Place(i)'
  <2>1. CASE i = n + 1
    <3>1. Place(i)' = IF sbufNext' - (n + 1) + i - 1 < 0
                      THEN sbufNext' - (n + 1) + i - 1 + MaxFill + 2
                      ELSE sbufNext' - (n + 1) + i - 1
      BY <1>5 DEF Place
    <3> HIDE DEF n
    <3> QED
      BY <1>2, <1>4, <1>5, <2>1, <3>1
  <2>2. CASE i # n + 1
    <3>1. i \in 1..n /\ packets'[i] = packets[i]
      BY <1>2, <1>5, <2>2
    <3>2. packets[i] = IF sbufNext - n + i - 1 < 0 THEN sbufNext - n + i - 1 + MaxFill + 2
                       ELSE sbufNext - n + i - 1
      BY <1>1, <3>1 DEF PacketInv, PacketAt, Place
    <3>3. Place(i)' = IF sbufNext' - (n + 1) + i - 1 < 0
                      THEN sbufNext' - (n + 1) + i - 1 + MaxFill + 2
                      ELSE sbufNext' - (n + 1) + i - 1
      BY <1>5 DEF Place
    <3> HIDE DEF n
    <3> QED
      BY <1>2, <1>4, <3>1, <3>2, <3>3
  <2> QED
    BY <2>1, <2>2
<1>9. ASSUME NEW i \in 1..n + 1
      PROVE  /\ slot'[packets'[i]].frame = packet - (n + 1) + i
             /\ (slot'[packets'[i]].status = "READY") = (i < n + 1)
  <2>1. CASE i = n + 1
    <3>1. slot'[packets'[i]] = [status |-> "EMPTY", frame |-> packet]
      BY <1>1, <1>3, <1>5, <2>1
    <3>2. packet - (n + 1) + i = packet /\ ~ (i < n + 1)
      BY <1>2, <2>1
    <3> QED
      BY <3>1, <3>2
  <2>2. CASE i # n + 1
    <3>1. i \in 1..n /\ packets'[i] = packets[i] /\ packets[i] # sbufNext /\ i < n + 1
      BY <1>2, <1>5, <1>6, <2>2
    <3>2. slot'[packets'[i]] = slot[packets[i]]
      BY <1>1, <1>2, <1>3, <3>1
    <3>3. PacketAt(i)
      BY <1>1, <3>1 DEF PacketInv
    <3>4. slot[packets[i]].frame = packet - 1 - n + i /\ slot[packets[i]].status = "READY"
      BY <1>1, <1>7, <3>3 DEF PacketAt
    <3>5. packet - 1 - n + i = packet - (n + 1) + i
      BY <1>2
    <3> QED
      BY <3>1, <3>2, <3>4, <3>5
  <2> QED
    BY <2>1, <2>2
<1>10. ASSUME NEW k \in Slots, \A i \in 1..n + 1 : packets'[i] # k
       PROVE  slot'[k] = Free
  <2>1. k # sbufNext /\ \A i \in 1..n : packets[i] # k
    BY <1>2, <1>5, <1>10
  <2>2. slot[k] = Free
    BY <1>1, <2>1 DEF PacketInv, OthersFree
  <2> QED
    BY <1>1, <1>3, <2>1, <2>2
<1>11. OthersFree'
  BY <1>5, <1>10 DEF OthersFree
<1>12. ASSUME NEW i \in 1..n + 1 PROVE PacketAt(i)'
  BY <1>1, <1>5, <1>7, <1>8, <1>9 DEF PacketAt
<1> QED
  BY <1>5, <1>11, <1>12 DEF ListInv

LEMMA FillPacketList ==
  ASSUME Types, PacketInv, FillPacket PROVE ListInv'
<1> DEFINE n == Len(packets)
<1>1. /\ demux = "fill" /\ demux' = "count" /\ packet' = packet /\ packets' = packets
      /\ sbufNext' = sbufNext /\ slot' = [slot EXCEPT ![Last(packets)] = Ready(@)]
  BY DEF FillPacket
<1>2. n \in Nat /\ \A i \in 1..n : packets[i] \in Slots
  BY <1>1, PacketRoom DEF PacketInv
<1>3. slot \in [Slots -> [status : {"NULL", "EMPTY", "READY"}, frame : Nat]]
  BY DEF Types, PackTypes
<1>4. n > 0 /\ n \in 1..n /\ Last(packets) = packets[n]
  <2>1. n > 0
    <3>1. n = packFill + 1 - (IF flush = "count" THEN 1 ELSE 0) /\ packFill \in Nat
          /\ (flush = "count" => packFill > 0)
      BY <1>1 DEF PacketInv, PacketCount, Types, PackTypes
    <3> HIDE DEF n
    <3> QED
      BY <3>1
  <2> QED
    BY <1>2, <2>1 DEF Last
<1>5. Submitted' = Submitted
  BY <1>1 DEF Submitted
<1>6. ASSUME NEW i \in 1..n PROVE PacketAt(i)'
  <2>1. PacketAt(i)
    BY <1>1 DEF PacketInv
  <2>2. slot'[packets'[i]].frame = slot[packets[i]].frame
    BY <1>1, <1>2, <1>3, <1>4 DEF Ready
  <2>3. slot'[packets'[i]].status = "READY"
    <3>1. CASE i = n
      BY <1>1, <1>2, <1>3, <1>4, <3>1 DEF Ready
    <3>2. CASE i # n
      <4>1. slot[packets[i]].status = "READY"
        BY <1>1, <1>2, <2>1, <3>2 DEF PacketAt
      <4> QED
        BY <1>1, <1>2, <1>3, <1>4, <4>1 DEF Ready
    <3> QED
      BY <3>1, <3>2
  <2>4. Place(i)' = Place(i)
    BY <1>1 DEF Place
  <2> QED
    BY <1>1, <1>5, <2>1, <2>2, <2>3, <2>4 DEF PacketAt
<1>7. ASSUME NEW k \in Slots, \A i \in 1..n : packets[i] # k PROVE slot'[k] = Free
  <2>1. slot[k] = Free /\ k # packets[n]
    BY <1>1, <1>4, <1>7 DEF PacketInv, OthersFree
  <2> QED
    BY <1>1, <1>3, <1>4, <2>1
<1> QED
  BY <1>1, <1>6, <1>7 DEF ListInv, OthersFree

LEMMA FlushRemoveList ==
  ASSUME Types, PacketInv, FlushRemove PROVE ListInv'
<1> DEFINE n == Len(packets)
<1>1. FirstPacket = 1 /\ n > 0 /\ (demux = "fill" => n > 1)
  BY FirstPacketIs DEF FlushRemove
<1>2. /\ flush = "remove" /\ demux' = demux /\ packet' = packet /\ sbufNext' = sbufNext
      /\ packets' = RemoveAt(packets, 1) /\ slot' = [slot EXCEPT ![packets[1]] = Free]
  BY <1>1 DEF FlushRemove, demuxVars
<1>3. demux # "exit"
  BY <1>2 DEF PacketInv, PacketCount
<1>4. n \in Nat /\ (\A i \in 1..n : packets[i] \in Slots) /\ sbufNext \in Nat
      /\ packets \in Seq(Slots)
  BY <1>3, PacketRoom DEF PacketInv, Types, PackTypes
<1>5. slot \in [Slots -> [status : {"NULL", "EMPTY", "READY"}, frame : Nat]]
  BY DEF Types, PackTypes
<1>6. 1 \in 1..n
  BY <1>1, <1>4
<1>7. Len(packets') = n - 1 /\ \A i \in 1..n - 1 : packets'[i] = packets[i + 1]
  <2>1. \A i \in 1..n - 1 : ~ (i < 1)
    BY <1>4
  <2> QED
    BY <1>2, <1>4, <1>6, <2>1, RemoveAtElements
<1>8. Submitted' = Submitted
  BY <1>2 DEF Submitted
<1>9. Submitted \in Int
  BY SourceIs DEF Submitted
<1>10. ASSUME NEW i \in 1..n - 1 PROVE PacketAt(i)'
  <2>1. i + 1 \in 1..n /\ i \in Nat /\ i + 1 # 1
    BY <1>4
  <2>2. PacketAt(i + 1)
    BY <1>3, <2>1 DEF PacketInv
  <2>3. packets[i + 1] # packets[1]
    BY <1>3, <1>6, <2>1, PacketsApart
  <2>4. packets'[i] = packets[i + 1] /\ slot'[packets'[i]] = slot[packets[i + 1]]
    BY <1>2, <1>4, <1>5, <1>6, <1>7, <2>1, <2>3
  <2>5. Place(i)' = Place(i + 1)
    <3>1. sbufNext' - Len(packets') + i - 1 = sbufNext - n + (i + 1) - 1
      <4>1. sbufNext' = sbufNext /\ Len(packets') = n - 1
        BY <1>2, <1>7
      <4>2. n \in Nat /\ sbufNext \in Nat /\ i \in Nat
        BY <1>4, <2>1
      <4> HIDE DEF n
      <4>3. sbufNext - (n - 1) + i - 1 = sbufNext - n + (i + 1) - 1
        BY <4>2
      <4> QED
        BY <4>1, <4>3
    <3> QED
      BY <3>1 DEF Place
  <2>6. Submitted' - Len(packets') + i = Submitted - n + (i + 1)
        /\ (i < Len(packets') <=> i + 1 < n)
    <3> HIDE DEF n
    <3> QED
      BY <1>4, <1>7, <1>8, <1>9, <2>1
  <2> QED
    BY <1>2, <2>2, <2>4, <2>5, <2>6 DEF PacketAt
<1>11. ASSUME NEW k \in Slots, \A i \in 1..n - 1 : packets'[i] # k PROVE slot'[k] = Free
  <2>1. CASE k = packets[1]
    BY <1>2, <1>5, <2>1
  <2>2. CASE k # packets[1]
    <3>1. ASSUME NEW i \in 1..n PROVE packets[i] # k
      <4>1. CASE i = 1
        BY <2>2, <4>1
      <4>2. CASE i # 1
        <5>1. i - 1 \in 1..n - 1 /\ (i - 1) + 1 = i
          BY <1>4, <4>2
        <5>2. packets'[i - 1] = packets[i]
          BY <1>7, <5>1
        <5> QED
          BY <1>11, <5>1, <5>2
      <4> QED
        BY <4>1, <4>2
    <3>2. slot[k] = Free
      BY <1>3, <3>1 DEF PacketInv, OthersFree
    <3> QED
      BY <1>2, <1>5, <2>2, <3>2
  <2> QED
    BY <2>1, <2>2
<1> QED
  BY <1>7, <1>10, <1>11 DEF ListInv, OthersFree

\* The packets stay in their order, in buffers of their own, whichever thread moves.
LEMMA PacketNext ==
  ASSUME Types, PacketInv, [Next]_vars PROVE PacketInv'
<1> SUFFICES ASSUME demux' # "exit" PROVE ListInv'
  BY PacketCountNext DEF PacketInv, ListInv
<1>1. CASE RegisterPacket
  BY <1>1, RegisterPacketList
<1>2. CASE FillPacket
  BY <1>2, FillPacketList
<1>3. CASE FlushRemove
  BY <1>3, FlushRemoveList
<1>4. CASE Open
  <2>1. Len(packets') = 0 /\ slot' = [k \in Slots |-> Free]
    BY <1>4 DEF Open
  <2> QED
    BY <2>1 DEF ListInv, OthersFree
<1>5. ASSUME demux # "exit", UNCHANGED <<slot, packets, sbufNext>>, Submitted' = Submitted,
             (demux' = "fill") = (demux = "fill")
      PROVE  ListInv'
  BY <1>5, ListKept DEF PacketInv, ListInv
<1>6. packet \in Nat
  BY SourceIs
<1>7. CASE ReadPacket \/ WriteRecord \/ AwaitRoom \/ CountPacket \/ DemuxEof \/ FlushCount
  BY <1>5, <1>6, <1>7 DEF ReadPacket, WriteRecord, AwaitRoom, CountPacket, DemuxEof, FlushCount,
    packVars, Submitted
<1>8. CASE FlushTest \/ FlushWrite \/ Reader \/ Import \/ Close \/ UNCHANGED vars
  <2>1. UNCHANGED <<slot, packets, sbufNext, demux, packet>>
    BY <1>8 DEF FlushTest, FlushWrite, Reader, Import, Close, RegisterInfo, ReadInfo, ReadEof,
      InfoReady, CountInfo, ImportCopy, ImportTest, ImportWoken, ImportRetrieve, ImportRead,
      ImportReadFails, ImportFrame, vars, packVars, demuxVars
  <2> QED
    BY <1>5, <2>1 DEF Submitted
<1>9. CASE DemuxExit \/ HelpersDie \/ Join
  BY <1>9 DEF DemuxExit, HelpersDie, Join
<1> QED
  BY <1>1, <1>2, <1>3, <1>4, <1>7, <1>8, <1>9 DEF Next, Demux, Flush, Finished
-----------------------------------------------------------------------------
(* The types *)

\* The import thread finds a record whenever one is counted.
LEMMA FirstInfoIs ==
  ASSUME Types, InfoInv, import = "retrieve"
  PROVE  /\ ReadyInfos # {} /\ Min(ReadyInfos) \in ReadyInfos
         /\ ReadyInfos \subseteq 1..Len(infos)
<1>1. infos \in Seq(Info) /\ fillCtr \in Nat
  BY DEF Types, InfoTypes
<1>2. ReadyInfos = ReadyOf(infos)
  BY DEF ReadyInfos, ReadyOf
<1>3. Cardinality(ReadyInfos) \in Nat /\ ReadyInfos \subseteq 1..Len(infos)
  BY <1>1, <1>2, ReadyFinite
<1>4. Cardinality(ReadyInfos) > 0
  BY <1>1, <1>3 DEF InfoInv, CountedInv, Taking, Counting
<1>5. ReadyInfos # {}
  BY <1>4, FS_EmptySet
<1>6. Len(infos) \in Nat /\ ReadyInfos \in SUBSET Nat
  BY <1>1, <1>3
<1> QED
  BY <1>3, <1>5, <1>6, MinExists

\* A record leaves the list.
LEMMA RemoveInfoIs ==
  ASSUME Types, RemoveInfo
  PROVE  \E i \in 1..Len(infos) : infos[i] = fiptr /\ infos' = RemoveAt(infos, i)
<1>1. DOMAIN infos = 1..Len(infos)
  BY DEF Types, InfoTypes
<1> QED
  BY <1>1 DEF RemoveInfo

\* The end of the list, where the reader works.
LEMMA LastInfoIs ==
  ASSUME Types, InfoInv, Waiting = 1
  PROVE  Len(infos) \in 1..Len(infos) /\ infos[Len(infos)] \in Info /\ Len(infos) \in Nat
BY DEF Types, InfoTypes, InfoInv, ReaderInv

LEMMA DemuxTypesNext ==
  ASSUME Types, PacketInv, [Next]_vars PROVE DemuxTypes'
<1> USE DEF DemuxTypes
<1>1. source.last \in Nat /\ DemuxTypes /\ \A src \in Sources : src.last \in Nat
  BY SyncConstants DEF Types
<1>2. CASE ReadPacket
  BY <1>1, <1>2 DEF ReadPacket
<1>3. CASE WriteRecord
  <2>1. PICK c \in Copies : log' = Append(log, c)
    BY <1>3 DEF WriteRecord
  <2>2. log' \in Seq(Nat)
    BY <1>1, <2>1, SyncConstants
  <2> QED
    BY <1>1, <1>3, <2>2 DEF WriteRecord
<1>4. CASE AwaitRoom \/ RegisterPacket \/ FillPacket \/ CountPacket \/ DemuxEof \/ DemuxExit
           \/ FlushCount \/ HelpersDie \/ Join
  BY <1>1, <1>4 DEF AwaitRoom, RegisterPacket, FillPacket, CountPacket, DemuxEof, DemuxExit,
    FlushCount, HelpersDie, Join
<1>5. CASE Open
  BY <1>1, <1>5 DEF Open
<1>6. CASE FlushTest \/ FlushWrite \/ FlushRemove \/ Reader \/ Import \/ Close \/ UNCHANGED vars
  <2>1. UNCHANGED demuxVars
    BY <1>6 DEF FlushTest, FlushWrite, FlushRemove, Reader, Import, Close, RegisterInfo, ReadInfo,
      ReadEof, InfoReady, CountInfo, ImportCopy, ImportTest, ImportWoken, ImportRetrieve,
      ImportRead, ImportReadFails, ImportFrame, vars
  <2> QED
    BY <1>1, <2>1 DEF demuxVars
<1> QED
  BY <1>2, <1>3, <1>4, <1>5, <1>6 DEF Next, Demux, Flush, Finished

LEMMA PackTypesNext ==
  ASSUME Types, PacketInv, [Next]_vars PROVE PackTypes'
<1> USE DEF PackTypes
<1>1. PackTypes /\ packet \in Nat /\ MaxFill \in Nat
  BY SourceIs DEF Types
<1>2. CASE RegisterPacket
  <2>1. sbufNext' \in Slots
    <3>1. sbufNext \in Nat /\ MaxFill + 2 \in Nat \ {0}
      BY <1>1 DEF Slots
    <3> QED
      BY <1>1, <1>2, <3>1 DEF RegisterPacket, Slots
  <2>2. packets' \in Seq(Slots)
    BY <1>1, <1>2 DEF RegisterPacket
  <2>3. slot' \in [Slots -> [status : {"NULL", "EMPTY", "READY"}, frame : Nat]]
    BY <1>1, <1>2 DEF RegisterPacket
  <2> QED
    BY <1>1, <1>2, <2>1, <2>2, <2>3 DEF RegisterPacket
<1>3. CASE FillPacket
  <2>1. slot' \in [Slots -> [status : {"NULL", "EMPTY", "READY"}, frame : Nat]]
    BY <1>1, <1>3 DEF FillPacket, Ready
  <2> QED
    BY <1>1, <1>3, <2>1 DEF FillPacket
<1>4. CASE FlushRemove
  <2>1. slot' \in [Slots -> [status : {"NULL", "EMPTY", "READY"}, frame : Nat]]
    BY <1>1, <1>4 DEF FlushRemove, Free
  <2>2. packets' \in Seq(Slots)
    <3>1. FirstPacket = 1 /\ Len(packets) > 0 /\ packets' = RemoveAt(packets, 1)
      BY <1>4, FirstPacketIs DEF FlushRemove
    <3>2. 1 \in 1..Len(packets)
      BY <1>1, <3>1
    <3> QED
      BY <1>1, <3>1, <3>2, RemoveAtElements
  <2> QED
    BY <1>1, <1>4, <2>1, <2>2 DEF FlushRemove
<1>5. CASE FlushCount
  <2>1. packFill > 0
    BY <1>5 DEF FlushCount, PacketInv, PacketCount
  <2> QED
    BY <1>1, <1>5, <2>1 DEF FlushCount
<1>6. CASE Open
  <2>1. slot' \in [Slots -> [status : {"NULL", "EMPTY", "READY"}, frame : Nat]]
    BY <1>6 DEF Open, Free
  <2>2. 0 \in Slots /\ <<>> \in Seq(Slots)
    BY <1>1 DEF Slots
  <2> QED
    BY <1>6, <2>1, <2>2 DEF Open
<1>7. CASE CountPacket \/ DemuxExit \/ FlushTest \/ FlushWrite \/ HelpersDie \/ Join
  BY <1>1, <1>7 DEF CountPacket, DemuxExit, FlushTest, FlushWrite, HelpersDie, Join
<1>8. CASE ReadPacket \/ WriteRecord \/ AwaitRoom \/ DemuxEof \/ Reader \/ Import
           \/ Close \/ UNCHANGED vars
  <2>1. UNCHANGED packVars
    BY <1>8 DEF ReadPacket, WriteRecord, AwaitRoom, DemuxEof, Reader, Import, Close, RegisterInfo,
      ReadInfo, ReadEof, InfoReady, CountInfo, ImportCopy, ImportTest, ImportWoken,
      ImportRetrieve, ImportRead, ImportReadFails, ImportFrame, vars
  <2> QED
    BY <1>1, <2>1 DEF packVars
<1> QED
  BY <1>2, <1>3, <1>4, <1>5, <1>6, <1>7, <1>8 DEF Next, Demux, Flush, Finished

LEMMA PipeTypesNext ==
  ASSUME Types, PacketInv, [Next]_vars PROVE PipeTypes'
<1> USE DEF PipeTypes
<1>1. PipeTypes
  BY DEF Types
<1>2. CASE WriteRecord
  <2>1. PICK c \in Copies : fifo' = Append(fifo, c)
    BY <1>2 DEF WriteRecord
  <2>2. fifo' \in Seq(Nat)
    BY <1>1, <2>1, SyncConstants
  <2> QED
    BY <1>1, <1>2, <2>2 DEF WriteRecord, pipeVars
<1>3. CASE FlushWrite
  <2>1. FirstPacket = 1 /\ Len(packets) > 0 /\ Len(packets) \in Nat
    BY <1>3, FirstPacketIs DEF FlushWrite, Types, PackTypes
  <2>2. slot[packets[1]].frame \in Nat
    BY <2>1 DEF Types, PackTypes
  <2> QED
    BY <1>1, <1>3, <2>1, <2>2 DEF FlushWrite, fifoVars
<1>4. CASE ImportRead
  BY <1>1, <1>4 DEF ImportRead, fifoVars
<1>5. CASE ReadInfo
  BY <1>1, <1>5 DEF ReadInfo, pipeVars
<1>6. CASE Open
  BY <1>6 DEF Open
<1>7. CASE DemuxEof \/ DemuxExit \/ HelpersDie \/ Join
  BY <1>1, <1>7 DEF DemuxEof, DemuxExit, HelpersDie, Join, pipeVars, fifoVars
<1>8. CASE ReadPacket \/ AwaitRoom \/ RegisterPacket \/ FillPacket \/ CountPacket \/ FlushTest
           \/ FlushRemove \/ FlushCount \/ RegisterInfo \/ ReadEof \/ InfoReady \/ CountInfo
           \/ ImportCopy \/ ImportTest \/ ImportWoken \/ ImportRetrieve \/ ImportReadFails
           \/ ImportFrame \/ Close \/ UNCHANGED vars
  <2>1. UNCHANGED <<pipeVars, fifoVars>>
    BY <1>8 DEF ReadPacket, AwaitRoom, RegisterPacket, FillPacket, CountPacket, FlushTest,
      FlushRemove, FlushCount, RegisterInfo, ReadEof, InfoReady, CountInfo, ImportCopy, ImportTest,
      ImportWoken, ImportRetrieve, ImportReadFails, ImportFrame, Close, vars
  <2> QED
    BY <1>1, <2>1 DEF pipeVars, fifoVars
<1> QED
  BY <1>2, <1>3, <1>4, <1>5, <1>6, <1>7, <1>8 DEF Next, Demux, Flush, Reader, Import, Finished

LEMMA InfoTypesNext ==
  ASSUME Types, InfoInv, [Next]_vars PROVE InfoTypes'
<1> USE DEF InfoTypes
<1>1. InfoTypes /\ session \in Nat /\ fifo \in Seq(Nat) /\ log \in Seq(Nat)
  BY DEF Types, CloneTypes, PipeTypes, DemuxTypes
<1>2. CASE RegisterInfo
  <2>1. RecordsRead \in Nat
    BY <1>1 DEF RecordsRead, InfoInv, FifoInv
  <2>2. [session |-> session, id |-> RecordsRead, copies |-> 0, status |-> "EMPTY"] \in Info
    BY <1>1, <2>1 DEF Info
  <2>3. infos' \in Seq(Info)
    BY <1>1, <1>2, <2>2 DEF RegisterInfo
  <2> QED
    BY <1>1, <1>2, <2>3 DEF RegisterInfo
<1>3. CASE ReadInfo
  <2>1. Waiting = 1 /\ Head(fifo) \in Nat
    BY <1>1, <1>3 DEF ReadInfo, Waiting
  <2>2. Len(infos) \in 1..Len(infos) /\ infos[Len(infos)] \in Info
    BY <2>1, LastInfoIs
  <2>3. [infos[Len(infos)] EXCEPT !.copies = Head(fifo)] \in Info
    BY <2>1, <2>2 DEF Info
  <2>4. infos' = [infos EXCEPT ![Len(infos)] = [infos[Len(infos)] EXCEPT !.copies = Head(fifo)]]
    BY <1>1, <1>3, <2>2 DEF ReadInfo
  <2>5. infos' \in Seq(Info)
    BY <1>1, <2>2, <2>3, <2>4
  <2> QED
    BY <1>1, <1>3, <2>5 DEF ReadInfo
<1>4. CASE InfoReady
  <2>1. Waiting = 1
    BY <1>4 DEF InfoReady, Waiting
  <2>2. Len(infos) \in 1..Len(infos) /\ infos[Len(infos)] \in Info
    BY <2>1, LastInfoIs
  <2>3. Ready(infos[Len(infos)]) \in Info
    BY <2>2 DEF Info, Ready
  <2>4. infos' = [infos EXCEPT ![Len(infos)] = Ready(infos[Len(infos)])]
    BY <1>1, <1>4, <2>2 DEF InfoReady
  <2>5. infos' \in Seq(Info)
    BY <1>1, <2>2, <2>3, <2>4
  <2> QED
    BY <1>1, <1>4, <2>5 DEF InfoReady
<1>5. CASE ReadEof \/ CountInfo
  <2>1. CASE ReadEof
    BY <1>1, <2>1 DEF ReadEof
  <2>2. CASE CountInfo
    <3>1. fillCtr' = fillCtr + 1 /\ reader' = "register" /\ UNCHANGED <<infos, readFlag>>
      BY <2>2 DEF CountInfo
    <3> QED
      BY <1>1, <3>1
  <2> QED
    BY <1>5, <2>1, <2>2
<1>6. CASE ImportTest \/ ImportWoken \/ Join
  BY <1>1, <1>6 DEF ImportTest, ImportWoken, Join
<1>7. CASE ImportFrame
  <2>1. PICK i \in 1..Len(infos) : infos' = RemoveAt(infos, i)
    BY <1>7, RemoveInfoIs DEF ImportFrame
  <2>2. infos' \in Seq(Info)
    BY <1>1, <2>1, RemoveAtElements
  <2> QED
    BY <1>1, <1>7, <2>2 DEF ImportFrame
<1>8. CASE Open
  BY <1>1, <1>8 DEF Open
<1>9. CASE Demux \/ Flush \/ HelpersDie \/ ImportCopy \/ ImportRetrieve \/ ImportRead
           \/ ImportReadFails \/ Close \/ UNCHANGED vars
  <2>1. UNCHANGED infoVars
    BY <1>9 DEF Demux, Flush, ReadPacket, WriteRecord, AwaitRoom, RegisterPacket, FillPacket,
      CountPacket, DemuxEof, DemuxExit, FlushTest, FlushWrite, FlushRemove, FlushCount, HelpersDie,
      ImportCopy, ImportRetrieve, ImportRead, ImportReadFails, Close, vars
  <2> QED
    BY <1>1, <2>1 DEF infoVars
<1> QED
  BY <1>2, <1>3, <1>4, <1>5, <1>6, <1>7, <1>8, <1>9 DEF Next, Reader, Import, Finished

LEMMA CloneTypesNext ==
  ASSUME Types, InfoInv, [Next]_vars PROVE CloneTypes'
<1> USE DEF CloneTypes
<1>1. CloneTypes /\ infos \in Seq(Info) /\ pipe \in Seq(Nat) /\ fillCtr \in Nat
  BY DEF Types, InfoTypes, PipeTypes
<1>2. CASE ImportCopy
  BY <1>1, <1>2 DEF ImportCopy, runVars
<1>3. CASE ImportRetrieve
  <2>1. import = "retrieve"
    BY <1>3 DEF ImportRetrieve
  <2>2. infos[Min(ReadyInfos)] \in Info
    BY <1>1, <2>1, FirstInfoIs
  <2> QED
    BY <1>1, <1>3, <2>2 DEF ImportRetrieve, runVars
<1>4. CASE ImportRead
  BY <1>1, <1>4 DEF ImportRead, runVars
<1>5. CASE ImportFrame
  <2>1. fiptr.copies \in Nat /\ None \in Info
    BY <1>1 DEF Info, None
  <2>2. delivered' \in Seq(Nat) /\ cloneCtr' \in Nat
    BY <1>1, <1>5, <2>1 DEF ImportFrame
  <2> QED
    BY <1>1, <1>5, <2>1, <2>2 DEF ImportFrame, runVars
<1>6. CASE ImportTest \/ ImportWoken \/ ImportReadFails \/ CountInfo \/ Close \/ Join \/ HelpersDie
  BY <1>1, <1>6 DEF ImportTest, ImportWoken, ImportReadFails, CountInfo, Close, Join, HelpersDie,
    runVars, cloneVars
<1>7. CASE Open
  <2>1. clean' \in BOOLEAN /\ killed' \in BOOLEAN
    BY <1>7 DEF Open
  <2>2. /\ session' = session + 1 /\ import' = "top" /\ frame' = 0
        /\ cloneCtr' = cloneCtr /\ fiptr' = fiptr
    BY <1>7 DEF Open
  <2>3. delivered' \in Seq(Nat)
    BY <1>7 DEF Open
  <2> QED
    BY <1>1, <2>1, <2>2, <2>3
<1>8. CASE Demux \/ Flush \/ RegisterInfo \/ ReadInfo \/ ReadEof \/ InfoReady \/ UNCHANGED vars
  <2>1. UNCHANGED <<cloneVars, runVars>>
    BY <1>8 DEF Demux, Flush, ReadPacket, WriteRecord, AwaitRoom, RegisterPacket, FillPacket,
      CountPacket, DemuxEof, DemuxExit, FlushTest, FlushWrite, FlushRemove, FlushCount,
      RegisterInfo, ReadInfo, ReadEof, InfoReady, vars
  <2> QED
    BY <1>1, <2>1 DEF cloneVars, runVars
<1> QED
  BY <1>2, <1>3, <1>4, <1>5, <1>6, <1>7, <1>8 DEF Next, Reader, Import, Finished

LEMMA TypesNext ==
  ASSUME Types, PacketInv, InfoInv, [Next]_vars PROVE Types'
BY DemuxTypesNext, PackTypesNext, PipeTypesNext, InfoTypesNext, CloneTypesNext DEF Types
-----------------------------------------------------------------------------
(* The pipe and the log *)

\* Frames go through the pipe one by one and in order.
LEMMA PipeNext ==
  ASSUME Types, PacketInv, PipeInv, [Next]_vars PROVE PipeInv'
<1> DEFINE Order == \A i \in 1..Len(pipe) : pipe[i] = frame + i
           Sum   == frame + Len(pipe)
                      = Submitted - Len(packets) + (IF flush = "remove" THEN 1 ELSE 0)
<1>1. /\ pipe \in Seq(Nat) /\ Len(pipe) \in Nat /\ frame \in Nat /\ packet \in Nat
      /\ Len(packets) \in Nat /\ packets \in Seq(Slots) /\ Submitted \in Int
  BY SourceIs DEF Types, PipeTypes, CloneTypes, PackTypes, Submitted
<1>2. Order /\ (demux # "exit" => Sum)
  BY DEF PipeInv
<1>3. CASE FlushWrite
  <2>1. FirstPacket = 1 /\ Len(packets) > 0 /\ flush = "write" /\ demux # "exit"
    BY <1>3, FirstPacketIs DEF FlushWrite, PacketInv, PacketCount
  <2>2. PacketAt(1)
    BY <1>1, <2>1 DEF PacketInv
  <2>3. pipe' = Append(pipe, Submitted - Len(packets) + 1) /\ flush' = "remove"
        /\ UNCHANGED <<frame, packets, Submitted>>
    BY <1>3, <2>1, <2>2 DEF FlushWrite, PacketAt, packVars, cloneVars, demuxVars, Submitted
  <2>4. Submitted - Len(packets) + 1 = frame + Len(pipe) + 1
    BY <1>1, <1>2, <2>1
  <2>5. pipe' = Append(pipe, frame + Len(pipe) + 1)
    BY <2>3, <2>4, Zenon
  <2>6. frame + Len(pipe) + 1 \in Nat /\ Len(pipe') = Len(pipe) + 1
    BY <1>1, <2>5
  <2>7. ASSUME NEW i \in 1..Len(pipe') PROVE pipe'[i] = frame' + i
    <3>1. CASE i = Len(pipe) + 1
      <4>1. pipe'[i] = frame + Len(pipe) + 1
        BY <1>1, <2>5, <2>6, <3>1
      <4> QED
        BY <1>1, <2>3, <3>1, <4>1
    <3>2. CASE i # Len(pipe) + 1
      <4>1. i \in 1..Len(pipe)
        BY <1>1, <2>6, <3>2
      <4>2. pipe'[i] = pipe[i]
        BY <1>1, <2>5, <2>6, <4>1
      <4> QED
        BY <1>2, <2>3, <4>1, <4>2
    <3> QED
      BY <3>1, <3>2
  <2>8. Sum'
    BY <1>1, <2>3, <2>4, <2>6
  <2> QED
    BY <2>7, <2>8 DEF PipeInv
<1>4. CASE ImportRead
  <2>1. frame' = Head(pipe) /\ pipe' = Tail(pipe) /\ pipe # <<>>
        /\ UNCHANGED <<packets, Submitted, flush, demux>>
    BY <1>4 DEF ImportRead, packVars, demuxVars, Submitted
  <2>2. Len(pipe) > 0 /\ 1 \in 1..Len(pipe) /\ frame' = frame + 1
    BY <1>1, <1>2, <2>1
  <2>3. Len(pipe') = Len(pipe) - 1 /\ \A i \in 1..Len(pipe') : pipe'[i] = pipe[i + 1]
    BY <1>1, <2>1, <2>2
  <2>4. ASSUME NEW i \in 1..Len(pipe') PROVE pipe'[i] = frame' + i
    <3>1. i + 1 \in 1..Len(pipe) /\ i \in Nat
      BY <1>1, <2>3
    <3> QED
      BY <1>1, <1>2, <2>2, <2>3, <3>1
  <2>5. frame' + Len(pipe') = frame + Len(pipe)
    BY <1>1, <2>2, <2>3
  <2> QED
    BY <1>2, <2>1, <2>4, <2>5 DEF PipeInv
<1>5. CASE RegisterPacket
  <2>1. Len(packets') = Len(packets) + 1 /\ demux = "register"
        /\ UNCHANGED <<pipe, frame, flush>>
    BY <1>1, <1>5 DEF RegisterPacket, pipeVars, cloneVars
  <2>2. Submitted' = Submitted + 1
    BY <1>1, <1>5 DEF RegisterPacket, Submitted
  <2> QED
    BY <1>1, <1>2, <2>1, <2>2 DEF PipeInv
<1>6. CASE FlushRemove
  <2>1. FirstPacket = 1 /\ Len(packets) > 0 /\ flush = "remove"
    BY <1>6, FirstPacketIs DEF FlushRemove
  <2>2. packets' = RemoveAt(packets, 1) /\ flush' = "count"
        /\ UNCHANGED <<pipe, frame, Submitted, demux>>
    BY <1>6, <2>1 DEF FlushRemove, demuxVars, pipeVars, cloneVars, Submitted
  <2>3. 1 \in 1..Len(packets)
    BY <1>1, <2>1
  <2>4. Len(packets') = Len(packets) - 1
    BY <1>1, <2>2, <2>3, RemoveAtElements
  <2> QED
    BY <1>1, <1>2, <2>1, <2>2, <2>4 DEF PipeInv
<1>7. CASE Open
  <2>1. Len(pipe') = 0 /\ frame' = 0 /\ Len(packets') = 0 /\ flush' = "top" /\ Submitted' = 0
    BY <1>7 DEF Open, Submitted
  <2> QED
    BY <2>1 DEF PipeInv
<1>8. CASE DemuxExit \/ HelpersDie \/ Join
  <2>1. UNCHANGED <<pipe, frame>> /\ demux' = "exit"
    BY <1>8 DEF DemuxExit, HelpersDie, Join, cloneVars, pipeVars
  <2> QED
    BY <1>2, <2>1 DEF PipeInv
<1>9. CASE UNCHANGED <<pipe, frame, packets, Submitted>>
           /\ (flush' = "remove") = (flush = "remove") /\ (demux = "exit" => demux' = "exit")
  BY <1>2, <1>9 DEF PipeInv
<1>10. CASE ReadPacket \/ WriteRecord \/ AwaitRoom \/ FillPacket \/ CountPacket \/ DemuxEof
            \/ FlushTest \/ FlushCount
  <2>1. UNCHANGED <<pipe, frame, packets>> /\ demux # "exit"
    BY <1>10 DEF ReadPacket, WriteRecord, AwaitRoom, FillPacket, CountPacket, DemuxEof, FlushTest,
      FlushCount, packVars, pipeVars, cloneVars, PacketInv, PacketCount
  <2>2. Submitted' = Submitted
    BY <1>1, <1>10 DEF ReadPacket, WriteRecord, AwaitRoom, FillPacket, CountPacket, DemuxEof,
      FlushTest, FlushCount, demuxVars, Submitted
  <2>3. (flush' = "remove") = (flush = "remove")
    BY <1>10 DEF ReadPacket, WriteRecord, AwaitRoom, FillPacket, CountPacket, DemuxEof,
      FlushTest, FlushCount, packVars
  <2> QED
    BY <1>9, <2>1, <2>2, <2>3
<1>11. CASE Reader \/ ImportCopy \/ ImportTest \/ ImportWoken \/ ImportRetrieve
            \/ ImportReadFails \/ ImportFrame \/ Close \/ UNCHANGED vars
  <2>1. UNCHANGED <<pipe, frame, packets, flush, demux, packet>>
    BY <1>11 DEF Reader, RegisterInfo, ReadInfo, ReadEof, InfoReady, CountInfo, ImportCopy,
      ImportTest, ImportWoken, ImportRetrieve, ImportReadFails, ImportFrame, Close, vars, packVars,
      pipeVars, cloneVars, demuxVars
  <2>2. Submitted' = Submitted
    BY <2>1 DEF Submitted
  <2> QED
    BY <1>9, <2>1, <2>2
<1> QED
  BY <1>3, <1>4, <1>5, <1>6, <1>7, <1>8, <1>10, <1>11 DEF Next, Demux, Flush, Import, Finished

\* The log is complete up to the last sequence, and nothing is lost in front of the pipe.
LEMMA LogNext ==
  ASSUME Types, PacketInv, PipeInv, LogInv, [Next]_vars PROVE LogInv'
<1> USE DEF LogInv, Recorded
<1>1. /\ source.last \in Nat /\ source.starts \subseteq 1..source.last /\ packet \in Nat
      /\ log \in Seq(Nat) /\ Len(log) \in Nat /\ frame \in Nat /\ pipe \in Seq(Nat)
      /\ Len(pipe) \in Nat /\ packFill \in Nat /\ Len(packets) \in Nat
  BY SourceIs DEF Types, DemuxTypes, CloneTypes, PipeTypes, PackTypes
<1>2. LogInv /\ \A p \in source.starts : p \in Nat /\ p > 0
  BY <1>1
<1>3. CASE ReadPacket
  <2>1. /\ demux = "read" /\ packet' = packet + 1
        /\ demux' = IF packet + 1 \in source.starts /\ packet > 0 THEN "records" ELSE "submit"
        /\ UNCHANGED <<source, log, pipeOpen, fifoOpen>>
    BY <1>3 DEF ReadPacket, pipeVars, fifoVars
  <2>2. CASE packet + 1 \in source.starts /\ packet > 0
    BY <1>1, <1>2, <2>1, <2>2
  <2>3. CASE ~ (packet + 1 \in source.starts /\ packet > 0)
    <3>1. ASSUME NEW p \in source.starts, p <= packet + 1 PROVE p <= Len(log) + 1
      BY <1>1, <1>2, <2>1, <2>3, <3>1
    <3> QED
      BY <1>1, <1>2, <2>1, <2>3, <3>1
  <2> QED
    BY <2>2, <2>3
<1>4. CASE WriteRecord
  <2>1. PICK c \in Copies : log' = Append(log, c)
    BY <1>4 DEF WriteRecord
  <2>2. Len(log') = Len(log) + 1
    BY <1>1, <2>1
  <2>3. /\ demux = "records" /\ packet' = packet
        /\ demux' = IF Len(log) + 1 = packet - 1 THEN "submit" ELSE "records"
        /\ UNCHANGED <<source, pipeOpen, fifoOpen>>
    BY <1>4, <2>2 DEF WriteRecord, pipeVars
  <2> QED
    BY <1>1, <1>2, <2>2, <2>3
<1>5. CASE AwaitRoom \/ RegisterPacket \/ FillPacket \/ CountPacket
  <2>1. UNCHANGED <<source, packet, log, pipeOpen, fifoOpen>>
    BY <1>5 DEF AwaitRoom, RegisterPacket, FillPacket, CountPacket, pipeVars, fifoVars
  <2>2. demux \notin {"records", "drain", "exit"} /\ demux' \notin {"records", "drain", "exit"}
    BY <1>5 DEF AwaitRoom, RegisterPacket, FillPacket, CountPacket
  <2> QED
    BY <1>2, <2>1, <2>2
<1>6. CASE DemuxEof
  BY <1>2, <1>6 DEF DemuxEof, pipeVars
<1>7. CASE DemuxExit
  <2>1. /\ demux = "drain" /\ packFill = 0 /\ demux' = "exit"
        /\ UNCHANGED <<source, packet, log, pipe, frame>>
    BY <1>7 DEF DemuxExit, cloneVars
  <2>2. Submitted = packet
    BY <2>1 DEF Submitted
  <2>3. flush \notin {"remove", "count"}
    BY <2>1 DEF PacketInv, PacketCount
  <2>4. Len(packets) = 0
    BY <2>1, <2>3 DEF PacketInv, PacketCount
  <2>5. frame + Len(pipe) = packet
    BY <1>1, <2>1, <2>2, <2>3, <2>4 DEF PipeInv
  <2>6. packet = source.last /\ \A p \in source.starts : p <= packet => p <= Len(log) + 1
    BY <1>2, <2>1
  <2> QED
    BY <1>2, <2>1, <2>5, <2>6
<1>8. CASE HelpersDie \/ Join
  <2>1. /\ demux' = "exit" /\ (killed' \/ import' = "closed")
        /\ UNCHANGED <<packet, log>>
    BY <1>8 DEF HelpersDie, Join
  <2> QED
    BY <1>2, <2>1
<1>9. CASE Open
  <2>1. /\ Len(log') = 0 /\ packet' = 0 /\ demux' = "read" /\ pipeOpen' /\ fifoOpen'
        /\ source' \in Sources
    BY <1>9 DEF Open
  <2>2. \A p \in source'.starts : p \in Nat /\ p > 0
    BY <2>1, SyncConstants
  <2> QED
    BY <2>1, <2>2
<1>10. CASE FlushCount
  <2>1. /\ UNCHANGED <<source, packet, log, pipeOpen, fifoOpen>>
        /\ demux' = demux \/ (demux = "asleep" /\ demux' = "submit")
    BY <1>10 DEF FlushCount, pipeVars, fifoVars
  <2>2. demux # "exit"
    BY <1>10 DEF FlushCount, PacketInv, PacketCount
  <2> QED
    BY <1>2, <2>1, <2>2
<1>11. CASE ImportRead
  <2>1. frame' = Head(pipe) /\ pipe' = Tail(pipe) /\ pipe # <<>>
        /\ UNCHANGED <<source, packet, log, demux, pipeOpen, fifoOpen, killed>>
        /\ import # "closed"
    BY <1>11 DEF ImportRead, demuxVars, fifoVars, runVars
  <2>2. Len(pipe) > 0 /\ 1 \in 1..Len(pipe) /\ frame' = frame + 1
    BY <1>1, <2>1 DEF PipeInv
  <2>3. frame' + Len(pipe') = frame + Len(pipe)
    BY <1>1, <2>1, <2>2
  <2> QED
    BY <1>2, <2>1, <2>3
<1>12. CASE UNCHANGED <<source, packet, log, demux, pipeOpen, fifoOpen, killed, frame, pipe>>
            /\ (import' # "closed" => import # "closed")
  BY <1>2, <1>12
<1>13. CASE FlushWrite
  <2>1. UNCHANGED <<source, packet, log, demux, pipeOpen, fifoOpen>> /\ demux # "exit"
    BY <1>13 DEF FlushWrite, demuxVars, fifoVars, PacketInv, PacketCount
  <2> QED
    BY <1>2, <2>1
<1>14. CASE FlushTest \/ FlushRemove \/ Reader \/ ImportCopy \/ ImportTest \/ ImportWoken
            \/ ImportRetrieve \/ ImportReadFails \/ ImportFrame \/ Close \/ UNCHANGED vars
  <2>1. UNCHANGED <<demuxVars, pipeVars, fifoOpen, frame, killed>>
    BY <1>14 DEF FlushTest, FlushRemove, Reader, RegisterInfo, ReadInfo, ReadEof, InfoReady,
      CountInfo, ImportCopy, ImportTest, ImportWoken, ImportRetrieve, ImportReadFails, ImportFrame,
      Close, vars, fifoVars, cloneVars, runVars
  <2>2. import' # "closed" => import # "closed"
    BY <1>14 DEF FlushTest, FlushRemove, Reader, RegisterInfo, ReadInfo, ReadEof, InfoReady,
      CountInfo, ImportCopy, ImportTest, ImportWoken, ImportRetrieve, ImportReadFails, ImportFrame,
      Close, vars, cloneVars
  <2> QED
    BY <1>12, <2>1, <2>2 DEF demuxVars, pipeVars
<1> QED
  BY <1>3, <1>4, <1>5, <1>6, <1>7, <1>8, <1>9, <1>10, <1>11, <1>13, <1>14
     DEF Next, Demux, Flush, Import, Finished
-----------------------------------------------------------------------------
(* The fifo and the list of records *)

\* Records go through the fifo one by one and in order.
LEMMA FifoNext ==
  ASSUME Types, FifoInv, [Next]_vars PROVE FifoInv'
<1> USE DEF FifoInv, RecordsRead
<1>1. /\ fifo \in Seq(Nat) /\ log \in Seq(Nat) /\ Len(fifo) \in Nat /\ Len(log) \in Nat
      /\ FifoInv
  BY DEF Types, PipeTypes, DemuxTypes
<1>2. CASE WriteRecord
  <2>1. PICK c \in Copies : fifo' = Append(fifo, c) /\ log' = Append(log, c)
    BY <1>2 DEF WriteRecord
  <2>2. c \in Nat
    BY SyncConstants
  <2>3. /\ Len(fifo') = Len(fifo) + 1 /\ Len(log') = Len(log) + 1
        /\ fifo'[Len(fifo) + 1] = c /\ log'[Len(log) + 1] = c
        /\ \A i \in 1..Len(fifo) : fifo'[i] = fifo[i]
        /\ \A i \in 1..Len(log) : log'[i] = log[i]
    BY <1>1, <2>1, <2>2
  <2>4. ASSUME NEW i \in 1..Len(fifo) + 1
        PROVE  fifo'[i] = log'[(Len(log) + 1) - (Len(fifo) + 1) + i]
    <3>1. CASE i = Len(fifo) + 1
      <4>1. (Len(log) + 1) - (Len(fifo) + 1) + i = Len(log) + 1
        BY <1>1, <3>1
      <4> QED
        BY <2>3, <3>1, <4>1
    <3>2. CASE i # Len(fifo) + 1
      <4>1. /\ i \in 1..Len(fifo) /\ Len(log) - Len(fifo) + i \in 1..Len(log)
            /\ (Len(log) + 1) - (Len(fifo) + 1) + i = Len(log) - Len(fifo) + i
        BY <1>1, <3>2
      <4> QED
        BY <1>1, <2>3, <4>1
    <3> QED
      BY <3>1, <3>2
  <2> QED
    BY <1>1, <2>3, <2>4
<1>3. CASE ReadInfo
  <2>1. fifo # <<>> /\ fifo' = Tail(fifo) /\ log' = log
    BY <1>3 DEF ReadInfo, demuxVars
  <2>2. Len(fifo) > 0 /\ Len(fifo') = Len(fifo) - 1 /\ \A i \in 1..Len(fifo') : fifo'[i] = fifo[i + 1]
    BY <1>1, <2>1
  <2>3. ASSUME NEW i \in 1..Len(fifo') PROVE fifo'[i] = log'[Len(log') - Len(fifo') + i]
    <3>1. i + 1 \in 1..Len(fifo) /\ Len(log) - Len(fifo) + (i + 1) = Len(log') - Len(fifo') + i
      BY <1>1, <2>1, <2>2
    <3> QED
      BY <1>1, <2>1, <2>2, <3>1
  <2> QED
    BY <1>1, <2>1, <2>2, <2>3
<1>4. CASE Open
  BY <1>4 DEF Open
<1>5. CASE ReadPacket \/ AwaitRoom \/ RegisterPacket \/ FillPacket \/ CountPacket \/ DemuxEof
           \/ DemuxExit \/ Flush \/ HelpersDie \/ RegisterInfo \/ ReadEof \/ InfoReady \/ CountInfo
           \/ Import \/ Close \/ Join \/ UNCHANGED vars
  <2>1. UNCHANGED <<fifo, log>>
    BY <1>5 DEF ReadPacket, AwaitRoom, RegisterPacket, FillPacket, CountPacket, DemuxEof, DemuxExit,
      Flush, FlushTest, FlushWrite, FlushRemove, FlushCount, HelpersDie, RegisterInfo, ReadEof,
      InfoReady, CountInfo, Import, ImportCopy, ImportTest, ImportWoken, ImportRetrieve, ImportRead,
      ImportReadFails, ImportFrame, Close, Join, vars, demuxVars, fifoVars
  <2> QED
    BY <1>1, <2>1
<1> QED
  BY <1>2, <1>3, <1>4, <1>5 DEF Next, Demux, Reader, Finished

\* What the import thread removes is ready, and the reader's record is not.
LEMMA RemovedIs ==
  ASSUME Types, ReaderInv, TakenInv, ImportFrame
  PROVE  \E k \in 1..Len(infos) :
           /\ infos[k] = fiptr /\ infos[k].status = "READY" /\ infos' = RemoveAt(infos, k)
           /\ infos' \in Seq(Info) /\ Len(infos') = Len(infos) - 1
           /\ \A j \in 1..Len(infos') : infos'[j] = IF j < k THEN infos[j] ELSE infos[j + 1]
           /\ Waiting = 1 => k < Len(infos)
<1>1. PICK k \in 1..Len(infos) : infos[k] = fiptr /\ infos' = RemoveAt(infos, k)
  BY RemoveInfoIs DEF ImportFrame
<1>2. infos[k].status = "READY"
  BY <1>1 DEF TakenInv, ImportFrame
<1>3. /\ infos' \in Seq(Info) /\ Len(infos') = Len(infos) - 1
      /\ \A j \in 1..Len(infos') : infos'[j] = IF j < k THEN infos[j] ELSE infos[j + 1]
  BY <1>1, RemoveAtElements DEF Types, InfoTypes
<1>4. ASSUME Waiting = 1 PROVE k < Len(infos)
  <2>1. infos[Len(infos)].status # "READY" /\ Len(infos) \in Nat
    BY <1>4 DEF ReaderInv, Types, InfoTypes
  <2> QED
    BY <1>2, <2>1
<1> QED
  BY <1>1, <1>2, <1>3, <1>4

\* The reader changes the last record and nothing else.
LEMMA LastChanged ==
  ASSUME Types, ReaderInv, ReadInfo \/ InfoReady
  PROVE  /\ Waiting = 1 /\ Len(infos) \in 1..Len(infos)
         /\ Len(infos') = Len(infos)
         /\ \A i \in 1..Len(infos) : i # Len(infos) => infos'[i] = infos[i]
         /\ infos'[Len(infos)].session = infos[Len(infos)].session
         /\ infos'[Len(infos)].id = infos[Len(infos)].id
         /\ ReadInfo => /\ infos'[Len(infos)].status = infos[Len(infos)].status
                        /\ infos'[Len(infos)].copies = Head(fifo)
         /\ InfoReady => /\ infos'[Len(infos)].status = "READY"
                         /\ infos'[Len(infos)].copies = infos[Len(infos)].copies
<1>1. Waiting = 1
  BY DEF ReadInfo, InfoReady, Waiting
<1>2. /\ infos \in Seq(Info) /\ Len(infos) \in Nat /\ Len(infos) > 0
      /\ infos[Len(infos)] \in Info
  BY <1>1 DEF Types, InfoTypes, ReaderInv
<1> DEFINE r == infos[Len(infos)]
<1>3. CASE ReadInfo
  <2>1. infos' = [infos EXCEPT ![Len(infos)] = [r EXCEPT !.copies = Head(fifo)]]
    BY <1>2, <1>3 DEF ReadInfo
  <2>2. /\ reader = "read"
        /\ [r EXCEPT !.copies = Head(fifo)].session = r.session
        /\ [r EXCEPT !.copies = Head(fifo)].id = r.id
        /\ [r EXCEPT !.copies = Head(fifo)].status = r.status
        /\ [r EXCEPT !.copies = Head(fifo)].copies = Head(fifo)
    BY <1>2, <1>3 DEF Info, ReadInfo
  <2>3. ~ InfoReady
    BY <2>2 DEF InfoReady
  <2> QED
    BY <1>1, <1>2, <2>1, <2>2, <2>3
<1>4. CASE InfoReady
  <2>1. infos' = [infos EXCEPT ![Len(infos)] = Ready(r)]
    BY <1>2, <1>4 DEF InfoReady
  <2>2. /\ reader = "ready"
        /\ Ready(r).session = r.session /\ Ready(r).id = r.id
        /\ Ready(r).status = "READY" /\ Ready(r).copies = r.copies
    BY <1>2, <1>4 DEF Info, Ready, InfoReady
  <2>3. ~ ReadInfo
    BY <2>2 DEF ReadInfo
  <2> QED
    BY <1>1, <1>2, <2>1, <2>2, <2>3
<1> QED
  BY <1>3, <1>4

\* The reader keeps to the end of the list.
LEMMA ReaderNext ==
  ASSUME Types, LogInv, FifoInv, ReaderInv, TakenInv, [Next]_vars PROVE ReaderInv'
<1> DEFINE n == Len(infos)
<1>1. /\ fifo \in Seq(Nat) /\ log \in Seq(Nat) /\ Len(fifo) \in Nat /\ Len(log) \in Nat
      /\ infos \in Seq(Info) /\ n \in Nat /\ session \in Nat /\ \A i \in 1..n : infos[i] \in Info
  BY DEF Types, PipeTypes, DemuxTypes, InfoTypes, CloneTypes
<1>2. RecordsRead \in Nat /\ RecordsRead <= Len(log)
  BY <1>1 DEF FifoInv, RecordsRead
<1>3. CASE RegisterInfo
  <2> DEFINE r == [session |-> session, id |-> RecordsRead, copies |-> 0, status |-> "EMPTY"]
  <2>1. /\ infos' = Append(infos, r) /\ reader = "register" /\ reader' = "read"
        /\ session' = session /\ readFlag' = readFlag
    BY <1>3 DEF RegisterInfo, runVars
  <2>2. Len(infos') = n + 1 /\ infos'[n + 1] = r /\ \A i \in 1..n : infos'[i] = infos[i]
    BY <1>1, <2>1
  <2>3. readFlag
    BY <2>1 DEF ReaderInv
  <2>4. ASSUME NEW i \in 1..n + 1 PROVE infos'[i].session <= session
    <3>1. CASE i = n + 1
      BY <1>1, <2>2, <3>1
    <3>2. CASE i # n + 1
      <4>1. i \in 1..n
        BY <1>1, <3>2
      <4> QED
        BY <2>2, <4>1 DEF ReaderInv
    <3> QED
      BY <3>1, <3>2
  <2>5. n + 1 > 0 /\ r.session = session /\ r.status = "EMPTY"
    BY <1>1
  <2> HIDE DEF n, r
  <2> QED
    BY <2>1, <2>2, <2>3, <2>4, <2>5 DEF ReaderInv
<1>4. CASE ReadInfo \/ InfoReady
  <2>1. /\ Waiting = 1 /\ n \in 1..n /\ Len(infos') = n
        /\ \A i \in 1..n : infos'[i].session = infos[i].session
        /\ infos'[n].session = infos[n].session
    BY <1>4, LastChanged
  <2>2. /\ readFlag' = readFlag /\ reader # "exit" /\ session' = session /\ readFlag
        /\ log' = log
    BY <1>4 DEF ReadInfo, InfoReady, runVars, demuxVars, ReaderInv
  <2>3. \A i \in 1..n : infos'[i].session <= session
    BY <2>1 DEF ReaderInv
  <2>4. CASE ReadInfo
    <3>1. /\ fifo # <<>> /\ fifo' = Tail(fifo) /\ reader' = "ready"
          /\ infos'[n].status = infos[n].status /\ infos'[n].copies = Head(fifo)
      BY <2>4, LastChanged DEF ReadInfo
    <3>2. Len(fifo) > 0 /\ Len(fifo') = Len(fifo) - 1 /\ Head(fifo) = fifo[1] /\ 1 \in 1..Len(fifo)
      BY <1>1, <3>1
    <3>3. RecordsRead' = RecordsRead + 1
      BY <1>1, <2>2, <3>2 DEF RecordsRead
    <3>4. Head(fifo) = log[RecordsRead + 1]
      BY <3>2 DEF FifoInv
    <3> HIDE DEF n
    <3> QED
      BY <1>1, <1>2, <2>1, <2>2, <2>3, <3>1, <3>3, <3>4 DEF ReaderInv, n
  <2>5. CASE InfoReady
    <3>1. /\ reader = "ready" /\ reader' = "count" /\ fifo' = fifo
      BY <2>5 DEF InfoReady, fifoVars
    <3>2. RecordsRead' = RecordsRead /\ RecordsRead > 0
      BY <2>2, <3>1 DEF RecordsRead, ReaderInv
    <3>3. Waiting' = 0
      BY <3>1 DEF Waiting
    <3> HIDE DEF n
    <3> QED
      BY <2>1, <2>2, <2>3, <3>1, <3>2, <3>3 DEF ReaderInv, n
  <2> QED
    BY <1>4, <2>4, <2>5
<1>5. CASE ReadEof
  <2>1. /\ reader = "read" /\ reader' = "exit" /\ fifo = <<>> /\ ~fifoOpen
        /\ UNCHANGED <<infos, session, fifo, fifoOpen>>
    BY <1>5 DEF ReadEof, fifoVars, runVars
  <2>2. Waiting = 1
    BY <2>1 DEF Waiting
  <2> QED
    BY <2>1, <2>2 DEF ReaderInv
<1>6. CASE CountInfo
  <2>1. /\ reader = "count" /\ reader' = "register" /\ UNCHANGED <<infos, session, readFlag>>
    BY <1>6 DEF CountInfo, runVars
  <2>2. Waiting' = 0
    BY <2>1 DEF Waiting
  <2> QED
    BY <2>1, <2>2 DEF ReaderInv
<1>7. CASE WriteRecord
  <2>1. PICK c \in Copies : fifo' = Append(fifo, c) /\ log' = Append(log, c)
    BY <1>7 DEF WriteRecord
  <2>2. /\ demux = "records" /\ UNCHANGED <<infos, readFlag, reader, session>>
    BY <1>7 DEF WriteRecord, infoVars, runVars
  <2>3. fifoOpen
    BY <2>2 DEF LogInv
  <2>4. readFlag
    BY <2>3 DEF ReaderInv
  <2>5. c \in Nat
    BY SyncConstants
  <2>6. RecordsRead' = RecordsRead
    BY <1>1, <2>1, <2>5 DEF RecordsRead
  <2>7. RecordsRead > 0 => log'[RecordsRead] = log[RecordsRead]
    BY <1>1, <1>2, <2>1, <2>5
  <2>8. Waiting' = Waiting
    BY <2>2 DEF Waiting
  <2> QED
    BY <2>2, <2>4, <2>6, <2>7, <2>8 DEF ReaderInv
<1>8. CASE ImportFrame
  <2>1. PICK k \in 1..n :
           /\ infos' \in Seq(Info) /\ Len(infos') = n - 1
           /\ \A j \in 1..Len(infos') : infos'[j] = IF j < k THEN infos[j] ELSE infos[j + 1]
           /\ Waiting = 1 => k < n
    BY <1>8, RemovedIs
  <2>2. UNCHANGED <<readFlag, reader, session, fifo, fifoOpen, log>>
    BY <1>8 DEF ImportFrame, demuxVars, fifoVars, runVars
  <2>3. RecordsRead' = RecordsRead /\ Waiting' = Waiting
    BY <2>2 DEF RecordsRead, Waiting
  <2>4. ASSUME NEW j \in 1..n - 1 PROVE infos'[j].session <= session
    <3>1. j \in 1..n /\ j + 1 \in 1..n
      BY <1>1
    <3> QED
      BY <2>1, <3>1 DEF ReaderInv
  <2>5. ASSUME Waiting = 1 PROVE Len(infos') > 0 /\ infos'[Len(infos')] = infos[n]
    <3>1. n - 1 \in 1..n - 1 /\ ~ (n - 1 < k) /\ (n - 1) + 1 = n
      BY <1>1, <2>1, <2>5
    <3> QED
      BY <2>1, <3>1
  <2>6. reader = "ready" => Waiting = 1
    BY DEF Waiting
  <2> QED
    BY <2>1, <2>2, <2>3, <2>4, <2>5, <2>6 DEF ReaderInv
<1>9. CASE Join
  <2>1. /\ reader \in {"read", "exit"} /\ reader' = "exit"
        /\ UNCHANGED <<readFlag, infos, session, fifo, fifoOpen>>
    BY <1>9 DEF Join, fifoVars, runVars
  <2>2. Waiting = 1
    BY <2>1 DEF Waiting
  <2> QED
    BY <2>1, <2>2 DEF ReaderInv
<1>10. CASE Open
  <2>1. /\ readFlag' /\ reader' = "register" /\ infos' = infos /\ session' = session + 1
    BY <1>10 DEF Open
  <2>2. Waiting' = 0
    BY <2>1 DEF Waiting
  <2>3. ASSUME NEW i \in 1..n PROVE infos[i].session <= session + 1
    <3>1. infos[i].session \in Nat /\ infos[i].session <= session
      BY <1>1 DEF Info, ReaderInv
    <3> QED
      BY <1>1, <3>1
  <2> QED
    BY <2>1, <2>2, <2>3 DEF ReaderInv
<1>11. CASE ReadPacket \/ AwaitRoom \/ RegisterPacket \/ FillPacket \/ CountPacket \/ DemuxEof
            \/ DemuxExit \/ Flush \/ HelpersDie \/ ImportCopy \/ ImportTest \/ ImportWoken
            \/ ImportRetrieve \/ ImportRead \/ ImportReadFails \/ Close \/ UNCHANGED vars
  <2>1. /\ UNCHANGED <<fifo, log, infos, readFlag, reader, session>>
        /\ fifoOpen' => fifoOpen
    BY <1>11 DEF ReadPacket, AwaitRoom, RegisterPacket, FillPacket, CountPacket, DemuxEof,
      DemuxExit, Flush, FlushTest, FlushWrite, FlushRemove, FlushCount, HelpersDie, ImportCopy,
      ImportTest, ImportWoken, ImportRetrieve, ImportRead, ImportReadFails, Close, vars, demuxVars,
      fifoVars, infoVars, runVars
  <2>2. RecordsRead' = RecordsRead /\ Waiting' = Waiting
    BY <2>1 DEF RecordsRead, Waiting
  <2> QED
    BY <2>1, <2>2 DEF ReaderInv
<1> QED
  BY <1>3, <1>4, <1>5, <1>6, <1>7, <1>8, <1>9, <1>10, <1>11
     DEF Next, Demux, Reader, Import, Finished
\* The record that the import thread works with stays in the list until it is removed.
LEMMA TakenNext ==
  ASSUME Types, InfoInv, [Next]_vars PROVE TakenInv'
<1> DEFINE n == Len(infos)
<1>1. infos \in Seq(Info) /\ n \in Nat /\ TakenInv
  BY DEF Types, InfoTypes, InfoInv
<1>2. CASE RegisterInfo
  <2>1. \A i \in 1..n : i \in 1..Len(infos') /\ infos'[i] = infos[i]
    BY <1>1, <1>2 DEF RegisterInfo
  <2>2. UNCHANGED <<import, fiptr>>
    BY <1>2 DEF RegisterInfo, cloneVars
  <2> QED
    BY <1>1, <2>1, <2>2 DEF TakenInv
<1>3. CASE ReadInfo \/ InfoReady
  <2>1. /\ Waiting = 1 /\ Len(infos') = n
        /\ \A i \in 1..n : i # n => infos'[i] = infos[i]
    BY <1>3, LastChanged DEF InfoInv
  <2>2. infos[n].status = "EMPTY"
    BY <2>1 DEF InfoInv, ReaderInv
  <2>3. UNCHANGED <<import, fiptr>>
    BY <1>3 DEF ReadInfo, InfoReady, cloneVars
  <2>4. ASSUME import \in {"read", "remove"}
        PROVE  fiptr.status = "READY" /\ \E i \in 1..n : infos'[i] = fiptr
    <3>1. PICK i \in 1..n : infos[i] = fiptr
      BY <1>1, <2>4 DEF TakenInv
    <3>2. fiptr.status = "READY"
      BY <1>1, <2>4 DEF TakenInv
    <3>3. i # n
      BY <2>2, <3>1, <3>2
    <3> QED
      BY <2>1, <3>1, <3>2, <3>3
  <2> QED
    BY <2>1, <2>3, <2>4 DEF TakenInv
<1>4. CASE ImportRetrieve
  <2>1. Min(ReadyInfos) \in ReadyInfos /\ ReadyInfos \subseteq 1..n
    BY <1>4, FirstInfoIs DEF ImportRetrieve
  <2>2. fiptr' = infos[Min(ReadyInfos)] /\ infos' = infos
    BY <1>4 DEF ImportRetrieve, infoVars
  <2>3. infos[Min(ReadyInfos)].status = "READY"
    BY <2>1 DEF ReadyInfos
  <2> QED
    BY <2>1, <2>2, <2>3 DEF TakenInv
<1>5. CASE ImportRead
  <2>1. UNCHANGED <<infos, fiptr>> /\ import = "read"
    BY <1>5 DEF ImportRead, infoVars
  <2> QED
    BY <1>1, <2>1 DEF TakenInv
<1>6. CASE import' \notin {"read", "remove"}
  BY <1>6 DEF TakenInv
<1>7. CASE ImportFrame \/ ImportTest \/ ImportWoken \/ ImportReadFails \/ Close \/ Join \/ Open
  <2>1. import' \notin {"read", "remove"}
    BY <1>7 DEF ImportFrame, ImportTest, ImportWoken, ImportReadFails, Close, Join, Open
  <2> QED
    BY <1>6, <2>1
<1>8. CASE Demux \/ Flush \/ HelpersDie \/ ReadEof \/ CountInfo \/ ImportCopy \/ UNCHANGED vars
  <2>1. UNCHANGED <<infos, fiptr>>
    BY <1>8 DEF Demux, ReadPacket, WriteRecord, AwaitRoom, RegisterPacket, FillPacket, CountPacket,
      DemuxEof, DemuxExit, Flush, FlushTest, FlushWrite, FlushRemove, FlushCount, HelpersDie,
      ReadEof, CountInfo, ImportCopy, vars, infoVars, cloneVars
  <2>2. import' = import \/ import' = "woken"
    BY <1>8 DEF Demux, ReadPacket, WriteRecord, AwaitRoom, RegisterPacket, FillPacket, CountPacket,
      DemuxEof, DemuxExit, Flush, FlushTest, FlushWrite, FlushRemove, FlushCount, HelpersDie,
      ReadEof, CountInfo, ImportCopy, vars, cloneVars
  <2> QED
    BY <1>1, <2>1, <2>2 DEF TakenInv
<1> QED
  BY <1>2, <1>3, <1>4, <1>5, <1>7, <1>8 DEF Next, Reader, Import, Finished

\* A record is ready before it is counted and leaves the list after it has been.
LEMMA CountedNext ==
  ASSUME Types, InfoInv, [Next]_vars PROVE CountedInv'
<1> DEFINE n == Len(infos)
           c == Cardinality(ReadyOf(infos))
<1>1. /\ infos \in Seq(Info) /\ n \in Nat /\ fillCtr \in Nat /\ c \in Nat
      /\ Counting \in Nat /\ Taking \in Nat /\ fillCtr + Counting + Taking <= c
  <2>1. infos \in Seq(Info) /\ n \in Nat /\ fillCtr \in Nat
    BY DEF Types, InfoTypes
  <2>2. c \in Nat /\ ReadyInfos = ReadyOf(infos)
    BY <2>1, ReadyFinite DEF ReadyInfos, ReadyOf
  <2>3. Counting \in Nat /\ Taking \in Nat
    BY DEF Counting, Taking
  <2> QED
    BY <2>1, <2>2, <2>3 DEF InfoInv, CountedInv
<1>2. ReadyInfos' = ReadyOf(infos')
  BY DEF ReadyInfos, ReadyOf
<1>3. SUFFICES fillCtr' + Counting' + Taking' <= Cardinality(ReadyOf(infos'))
  BY <1>2 DEF CountedInv
<1>4. infos' \in Seq(Info)
  BY InfoTypesNext DEF InfoTypes
<1> HIDE DEF n, c
<1>5. CASE RegisterInfo
  <2> DEFINE r == [session |-> session, id |-> RecordsRead, copies |-> 0, status |-> "EMPTY"]
  <2>1. /\ infos' = Append(infos, r) /\ reader = "register" /\ reader' = "read"
        /\ UNCHANGED <<fillCtr, import>>
    BY <1>5 DEF RegisterInfo, cloneVars
  <2>2. r \in Info /\ r.status = "EMPTY"
    <3>1. RecordsRead \in Nat
      BY DEF RecordsRead, InfoInv, FifoInv, Types, DemuxTypes, PipeTypes
    <3> QED
      BY <3>1 DEF Info, Types, CloneTypes
  <2>3. Cardinality(ReadyOf(infos')) = c
    BY <1>1, <2>1, <2>2, ReadyAppend DEF c
  <2>4. Counting' = Counting /\ Taking' = Taking
    BY <2>1 DEF Counting, Taking
  <2> QED
    BY <1>1, <2>1, <2>3, <2>4
<1>6. CASE ReadInfo
  <2>1. /\ Len(infos') = Len(infos) /\ \A i \in 1..Len(infos) : i # Len(infos) => infos'[i] = infos[i]
        /\ infos'[Len(infos)].status = infos[Len(infos)].status
    BY <1>6, LastChanged DEF InfoInv
  <2>2. \A i \in 1..Len(infos) : infos'[i].status = infos[i].status
    BY <2>1
  <2>3. ReadyOf(infos') = ReadyOf(infos)
    BY <1>1, <1>4, <2>1, <2>2 DEF ReadyOf
  <2>4. fillCtr' = fillCtr /\ Counting' = Counting /\ Taking' = Taking
    BY <1>6 DEF ReadInfo, Counting, Taking, cloneVars
  <2> QED
    BY <1>1, <2>3, <2>4 DEF c
<1>7. CASE InfoReady
  <2>1. /\ Waiting = 1 /\ Len(infos) \in 1..Len(infos) /\ Len(infos') = Len(infos)
        /\ \A i \in 1..Len(infos) : i # Len(infos) => infos'[i] = infos[i]
        /\ infos'[Len(infos)].status = "READY"
    BY <1>7, LastChanged DEF InfoInv
  <2>2. infos[Len(infos)].status = "EMPTY"
    BY <2>1 DEF InfoInv, ReaderInv
  <2>3. Cardinality(ReadyOf(infos')) = c + 1
    BY <1>1, <1>4, <2>1, <2>2, ReadyMore DEF c
  <2>4. fillCtr' = fillCtr /\ Counting = 0 /\ Counting' = 1 /\ Taking' = Taking
    BY <1>7 DEF InfoReady, Counting, Taking, cloneVars
  <2> QED
    BY <1>1, <2>3, <2>4
<1>8. CASE CountInfo
  <2>1. /\ fillCtr' = fillCtr + 1 /\ Counting = 1 /\ Counting' = 0 /\ infos' = infos
    BY <1>8 DEF CountInfo, Counting
  <2>2. Taking' = Taking
    BY <1>8 DEF CountInfo, Taking
  <2> QED
    BY <1>1, <2>1, <2>2 DEF c
<1>9. CASE ImportTest \/ ImportWoken
  <2>1. infos' = infos /\ Counting' = Counting /\ Taking = 0
    BY <1>9 DEF ImportTest, ImportWoken, Counting, Taking
  <2>2. fillCtr = 0 => fillCtr' = 0 /\ Taking' = 0
    BY <1>9 DEF ImportTest, ImportWoken, Taking
  <2>3. fillCtr # 0 => fillCtr' = fillCtr - 1 /\ Taking' = 1
    BY <1>9 DEF ImportTest, ImportWoken, Taking
  <2> QED
    BY <1>1, <2>1, <2>2, <2>3 DEF c
<1>10. CASE ImportFrame
  <2>1. PICK k \in 1..Len(infos) : infos[k].status = "READY" /\ infos' = RemoveAt(infos, k)
    BY <1>10, RemovedIs DEF InfoInv
  <2>2. Cardinality(ReadyOf(infos')) = c - 1
    BY <1>1, <2>1, ReadyLess DEF c
  <2>3. fillCtr' = fillCtr /\ Counting' = Counting /\ Taking = 1 /\ Taking' = 0
    BY <1>10 DEF ImportFrame, Counting, Taking
  <2> QED
    BY <1>1, <2>2, <2>3
<1>11. CASE ImportRetrieve \/ ImportRead \/ ImportReadFails \/ Close \/ Join \/ Open \/ ReadEof
  <2>1. infos' = infos /\ fillCtr' = fillCtr
    BY <1>11 DEF ImportRetrieve, ImportRead, ImportReadFails, Close, Join, Open, ReadEof, infoVars
  <2>2. reader' = reader \/ reader' \in {"register", "exit"}
    BY <1>11 DEF ImportRetrieve, ImportRead, ImportReadFails, Close, Join, Open, ReadEof, infoVars
  <2>3. Counting' = Counting \/ Counting' = 0
    BY <2>2 DEF Counting
  <2>4. Taking' <= Taking
    BY <1>11 DEF ImportRetrieve, ImportRead, ImportReadFails, Close, Join, Open, ReadEof, Taking,
      cloneVars
  <2>5. Taking' \in Nat
    BY DEF Taking
  <2> QED
    BY <1>1, <2>1, <2>3, <2>4, <2>5 DEF c
<1>12. CASE Demux \/ Flush \/ HelpersDie \/ ImportCopy \/ UNCHANGED vars
  <2>1. UNCHANGED <<infos, fillCtr, reader, import>>
    BY <1>12 DEF Demux, ReadPacket, WriteRecord, AwaitRoom, RegisterPacket, FillPacket, CountPacket,
      DemuxEof, DemuxExit, Flush, FlushTest, FlushWrite, FlushRemove, FlushCount, HelpersDie,
      ImportCopy, vars, infoVars, cloneVars
  <2> QED
    BY <1>1, <2>1 DEF c, Counting, Taking
<1> QED
  BY <1>5, <1>6, <1>7, <1>8, <1>9, <1>10, <1>11, <1>12 DEF Next, Reader, Import, Finished

LEMMA InfoNext ==
  ASSUME Types, LogInv, InfoInv, [Next]_vars PROVE InfoInv'
BY FifoNext, ReaderNext, TakenNext, CountedNext DEF InfoInv
-----------------------------------------------------------------------------
(* A session that began without leftovers *)

\* The numbers that the lists are measured by.
LEMMA CleanNumbers ==
  ASSUME Types, InfoInv, CleanList, CleanTaken
  PROVE  /\ Used \in Nat /\ RecordsRead \in Nat /\ RecordsRead <= Len(log) /\ Len(log) \in Nat
         /\ LastInfo \in Int /\ Own \in Nat /\ Own <= Len(infos) /\ Len(infos) \in Nat
         /\ Used = LastInfo - Own + 1 /\ Used <= RecordsRead
         /\ Waiting \in {0, 1} /\ Counting \in {0, 1} /\ Taking \in {0, 1}
         /\ Waiting = 1 => Own > 0
<1>1. /\ fifo \in Seq(Nat) /\ log \in Seq(Nat) /\ Len(fifo) \in Nat /\ Len(log) \in Nat
      /\ Len(infos) \in Nat /\ frame \in Nat /\ session \in Nat
  BY DEF Types, PipeTypes, DemuxTypes, InfoTypes, CloneTypes
<1>2. RecordsRead \in Nat /\ RecordsRead <= Len(log)
  BY <1>1 DEF InfoInv, FifoInv, RecordsRead
<1>3. Used \in Nat
  BY <1>1 DEF Used, CleanTaken
<1>4. LastInfo \in Int
  BY <1>2 DEF LastInfo
<1>5. Own \in Nat /\ Own <= Len(infos) /\ Used = LastInfo - Own + 1
  BY <1>3, <1>4 DEF Own, CleanList
<1>6. ASSUME Waiting = 1 PROVE Own > 0
  <2>1. Len(infos) > 0 /\ infos[Len(infos)].session = session
    BY <1>6 DEF InfoInv, ReaderInv
  <2>2. OwnAt(Len(infos))
    BY <1>1, <2>1 DEF CleanList
  <2> QED
    BY <1>1, <1>5, <2>1, <2>2 DEF OwnAt
<1>7. Used <= RecordsRead
  <2>1. CASE reader \in {"read", "exit"}
    <3>1. Waiting = 1 /\ LastInfo = RecordsRead
      BY <2>1 DEF Waiting, LastInfo
    <3> QED
      BY <1>2, <1>3, <1>5, <1>6, <3>1
  <2>2. CASE reader \notin {"read", "exit"}
    <3>1. LastInfo = RecordsRead - 1
      BY <2>2 DEF LastInfo
    <3> QED
      BY <1>2, <1>3, <1>5, <3>1
  <2> QED
    BY <2>1, <2>2
<1> QED
  BY <1>1, <1>2, <1>3, <1>4, <1>5, <1>6, <1>7 DEF Waiting, Counting, Taking

\* The record the import thread works with is the first of the session.
LEMMA TakenIsFirst ==
  ASSUME Types, InfoInv, CleanList, CleanTaken, import \in {"read", "remove"},
         NEW k \in 1..Len(infos), infos[k] = fiptr
  PROVE  k = Len(infos) - Own + 1
<1>1. /\ Used \in Nat /\ LastInfo \in Int /\ Own \in Nat /\ Len(infos) \in Nat
      /\ Used = LastInfo - Own + 1 /\ session \in Nat
  BY CleanNumbers DEF Types, CloneTypes
<1>2. OwnAt(k) /\ infos[k].session = session /\ infos[k].id = Used
  BY DEF CleanList, CleanTaken
<1>3. infos[k].id = LastInfo - Len(infos) + k
  BY <1>1, <1>2 DEF OwnAt
<1> QED
  BY <1>1, <1>2, <1>3

\* Steps of the reader thread that add to the list or fill it in.
LEMMA CleanListReader ==
  ASSUME Types, InfoInv, CleanList, CleanTaken, RegisterInfo \/ ReadInfo \/ InfoReady
  PROVE  CleanList'
<1> DEFINE n == Len(infos)
<1>1. /\ Used \in Nat /\ RecordsRead \in Nat /\ LastInfo \in Int /\ Own \in Nat /\ Own <= n
      /\ n \in Nat
      /\ Waiting = 1 => Own > 0
  BY CleanNumbers
<1>2. /\ infos \in Seq(Info) /\ session \in Nat /\ fifo \in Seq(Nat) /\ Len(fifo) \in Nat
      /\ log \in Seq(Nat) /\ Len(log) \in Nat
  BY DEF Types, PipeTypes, DemuxTypes, InfoTypes, CloneTypes
<1>3. CASE RegisterInfo
  <2> DEFINE r == [session |-> session, id |-> RecordsRead, copies |-> 0, status |-> "EMPTY"]
  <2>1. /\ infos' = Append(infos, r) /\ reader = "register" /\ reader' = "read"
        /\ UNCHANGED <<session, fifo, log, import, frame>>
    BY <1>3 DEF RegisterInfo, runVars, fifoVars, demuxVars, cloneVars
  <2>2. Len(infos') = n + 1 /\ infos'[n + 1] = r /\ \A i \in 1..n : infos'[i] = infos[i]
    BY <1>2, <2>1
  <2>3. RecordsRead' = RecordsRead /\ Used' = Used /\ Waiting = 0 /\ Waiting' = 1
    BY <2>1 DEF RecordsRead, Used, Waiting
  <2>4. LastInfo = RecordsRead - 1 /\ LastInfo' = RecordsRead
    BY <2>1, <2>3 DEF LastInfo
  <2>5. Own' = Own + 1
    BY <1>1, <2>3, <2>4 DEF Own
  <2>6. r.session = session /\ r.id = RecordsRead /\ r.status = "EMPTY"
    OBVIOUS
  <2> HIDE DEF n, r
  <2>7. (n + 1) - (Own + 1) = n - Own
    BY <1>1
  <2>8. ASSUME NEW i \in 1..n + 1 PROVE OwnAt(i)'
    <3>1. CASE i = n + 1
      <4>1. ~ (i <= n - Own) /\ RecordsRead = RecordsRead - (n + 1) + i /\ ~ (i < n + 1)
            /\ ~ (RecordsRead < RecordsRead)
        BY <1>1, <3>1
      <4>2. infos'[i] = r
        BY <2>2, <3>1
      <4> QED
        BY <2>1, <2>2, <2>3, <2>4, <2>5, <2>6, <2>7, <4>1, <4>2 DEF OwnAt
    <3>2. CASE i # n + 1
      <4>1. i \in 1..n /\ i < n + 1
        BY <1>1, <3>2
      <4>2. infos'[i] = infos[i] /\ OwnAt(i)
        BY <2>2, <4>1 DEF CleanList, n
      <4>3. LastInfo - n + i = RecordsRead - (n + 1) + i
        BY <1>1, <2>4
      <4> QED
        BY <2>1, <2>2, <2>3, <2>4, <2>5, <2>7, <4>1, <4>2, <4>3 DEF OwnAt, n
    <3> QED
      BY <3>1, <3>2
  <2>9. 0 <= Own + 1 /\ Own + 1 <= n + 1
    BY <1>1
  <2> QED
    BY <2>2, <2>5, <2>8, <2>9 DEF CleanList
<1>4. CASE ReadInfo \/ InfoReady
  <2>1. /\ Waiting = 1 /\ n \in 1..n /\ Len(infos') = n
        /\ \A i \in 1..n : i # n => infos'[i] = infos[i]
        /\ infos'[n].session = infos[n].session /\ infos'[n].id = infos[n].id
    BY <1>4, LastChanged DEF InfoInv
  <2>2. Own > 0 /\ infos[n].session = session /\ infos[n].status = "EMPTY"
    BY <1>1, <2>1 DEF InfoInv, ReaderInv
  <2>3. UNCHANGED <<session, log, import, frame>> /\ reader # "exit" /\ Used' = Used
    BY <1>4 DEF ReadInfo, InfoReady, runVars, demuxVars, cloneVars, Used
  <2>4. \A i \in 1..n : OwnAt(i)
    BY DEF CleanList
  <2>5. infos[n].id = LastInfo
    <3>1. OwnAt(n) /\ ~ (n <= n - Own) /\ LastInfo - n + n = LastInfo
      BY <1>1, <2>1, <2>2, <2>4
    <3> QED
      BY <3>1 DEF OwnAt
  <2>6. CASE ReadInfo
    <3>1. /\ fifo # <<>> /\ fifo' = Tail(fifo) /\ reader = "read" /\ reader' = "ready"
          /\ infos'[n].status = infos[n].status /\ infos'[n].copies = Head(fifo)
      BY <2>6, LastChanged DEF ReadInfo, InfoInv
    <3>2. Len(fifo) > 0 /\ Len(fifo') = Len(fifo) - 1 /\ Head(fifo) = fifo[1] /\ 1 \in 1..Len(fifo)
      BY <1>2, <3>1
    <3>3. RecordsRead' = RecordsRead + 1
      BY <1>2, <2>3, <3>2 DEF RecordsRead
    <3>4. Head(fifo) = log[RecordsRead + 1]
      BY <3>2 DEF InfoInv, FifoInv
    <3>5. LastInfo = RecordsRead /\ LastInfo' = RecordsRead /\ Waiting' = 1
      BY <1>1, <3>1, <3>3 DEF LastInfo, Waiting
    <3>6. Own' = Own
      BY <2>3, <3>5 DEF Own
    <3> HIDE DEF n
    <3>7. ASSUME NEW i \in 1..n PROVE OwnAt(i)'
      <4>1. CASE i = n
        <5>1. ~ (i <= n - Own) /\ LastInfo - n + i = LastInfo /\ ~ (i < n)
          BY <1>1, <2>2, <4>1
        <5>2. /\ infos'[i].session = session /\ infos'[i].id = LastInfo
              /\ infos'[i].status = "EMPTY" /\ infos'[i].copies = log[RecordsRead + 1]
          BY <2>1, <2>2, <2>5, <3>1, <3>4, <4>1
        <5>3. session' = session /\ log' = log /\ Len(infos') = n
          BY <2>1, <2>3
        <5>4. LastInfo' = LastInfo /\ LastInfo = RecordsRead
          BY <3>5
        <5> QED
          BY <3>3, <3>5, <3>6, <4>1, <5>1, <5>2, <5>3, <5>4 DEF OwnAt
      <4>2. CASE i # n
        <5>1. i < n /\ LastInfo - n + i < RecordsRead
          BY <1>1, <3>5, <4>2
        <5>2. infos'[i] = infos[i] /\ OwnAt(i)
          BY <2>1, <2>4, <4>2
        <5>3. /\ session' = session /\ log' = log /\ Len(infos') = n /\ Len(infos) = n
              /\ Own' = Own /\ LastInfo' = LastInfo
          BY <2>1, <2>3, <3>5, <3>6 DEF n
        <5>4. CASE i <= n - Own
          BY <5>2, <5>3, <5>4 DEF OwnAt
        <5>5. CASE ~ (i <= n - Own)
          <6>1. /\ infos[i].session = session /\ infos[i].id = LastInfo - n + i
                /\ infos[i].status = "READY"
                /\ infos[i].copies = log[infos[i].id + 1]
            BY <5>1, <5>2, <5>3, <5>5 DEF OwnAt
          <6> QED
            BY <5>1, <5>2, <5>3, <5>5, <6>1 DEF OwnAt
        <5> QED
          BY <5>4, <5>5
      <4> QED
        BY <4>1, <4>2
    <3> QED
      BY <1>1, <2>1, <3>6, <3>7 DEF CleanList
  <2>7. CASE InfoReady
    <3>1. /\ reader = "ready" /\ reader' = "count" /\ fifo' = fifo
          /\ infos'[n].status = "READY" /\ infos'[n].copies = infos[n].copies
      BY <2>7, LastChanged DEF InfoReady, fifoVars, InfoInv
    <3>2. RecordsRead' = RecordsRead /\ Waiting' = 0
      BY <2>3, <3>1 DEF RecordsRead, Waiting
    <3>3. LastInfo' = LastInfo
      BY <3>1, <3>2 DEF LastInfo
    <3>4. Own' = Own
      BY <2>3, <3>3 DEF Own
    <3> HIDE DEF n
    <3>5. ASSUME NEW i \in 1..n PROVE OwnAt(i)'
      <4>1. CASE i = n
        <5>1. ~ (i <= n - Own)
          BY <1>1, <2>2, <4>1
        <5>2. OwnAt(n)
          BY <2>4, <4>1
        <5> QED
          BY <2>1, <2>2, <2>3, <3>1, <3>2, <3>3, <3>4, <4>1, <5>1, <5>2 DEF OwnAt, n
      <4>2. CASE i # n
        <5>1. i < n
          BY <1>1, <4>2
        <5>2. infos'[i] = infos[i] /\ OwnAt(i)
          BY <2>1, <2>4, <4>2
        <5> QED
          BY <2>1, <2>3, <3>2, <3>3, <3>4, <5>1, <5>2 DEF OwnAt, n
      <4> QED
        BY <4>1, <4>2
    <3> QED
      BY <1>1, <2>1, <3>4, <3>5 DEF CleanList
  <2> QED
    BY <1>4, <2>6, <2>7
<1> QED
  BY <1>3, <1>4
\* The record of a frame leaves the list.
LEMMA CleanListRemove ==
  ASSUME Types, InfoInv, CleanList, CleanTaken, ImportFrame
  PROVE  CleanList' /\ Own > 0 /\ Own' = Own - 1 /\ Used' = Used + 1 /\ Used + 1 = frame
<1> DEFINE n == Len(infos)
<1>1. /\ Used \in Nat /\ LastInfo \in Int /\ Own \in Nat /\ Own <= n /\ n \in Nat
      /\ Used = LastInfo - Own + 1 /\ frame \in Nat
  BY CleanNumbers DEF Types, CloneTypes
<1>2. PICK k \in 1..n :
        /\ infos[k] = fiptr /\ Len(infos') = n - 1
        /\ \A j \in 1..Len(infos') : infos'[j] = IF j < k THEN infos[j] ELSE infos[j + 1]
        /\ Waiting = 1 => k < n
  BY RemovedIs DEF InfoInv
<1>3. /\ import = "remove" /\ import' # "remove"
      /\ UNCHANGED <<frame, reader, session, fifo, log>>
  BY DEF ImportFrame, runVars, fifoVars, demuxVars
<1>4. k = n - Own + 1
  BY <1>2, <1>3, TakenIsFirst
<1>5. Used = frame - 1 /\ Used' = frame
  BY <1>3 DEF Used
<1>6. RecordsRead' = RecordsRead /\ Waiting' = Waiting
  BY <1>3 DEF RecordsRead, Waiting
<1>7. LastInfo' = LastInfo
  BY <1>3, <1>6 DEF LastInfo
<1>8. Own' = Own - 1
  BY <1>1, <1>5, <1>7 DEF Own
<1>9. Own > 0 /\ (n - 1) - (Own - 1) = n - Own /\ 0 <= Own - 1 /\ Own - 1 <= n - 1
  BY <1>1, <1>2, <1>4
<1> HIDE DEF n
<1>10. ASSUME NEW j \in 1..n - 1 PROVE OwnAt(j)'
  <2>1. j \in 1..n /\ j + 1 \in 1..n
    BY <1>1
  <2>2. OwnAt(j) /\ OwnAt(j + 1)
    BY <2>1 DEF CleanList, n
  <2>3. CASE j < k
    <3>1. infos'[j] = infos[j] /\ j <= n - Own
      BY <1>1, <1>2, <1>4, <2>3
    <3> QED
      BY <1>2, <1>3, <1>8, <1>9, <2>2, <3>1 DEF OwnAt, n
  <2>4. CASE ~ (j < k)
    <3>1. /\ infos'[j] = infos[j + 1] /\ ~ (j <= n - Own) /\ ~ (j + 1 <= n - Own)
          /\ LastInfo - n + (j + 1) = LastInfo - (n - 1) + j
          /\ (j + 1 < n) = (j < n - 1)
      BY <1>1, <1>2, <1>4, <2>4
    <3> QED
      BY <1>2, <1>3, <1>6, <1>7, <1>8, <1>9, <2>2, <3>1 DEF OwnAt, n
  <2> QED
    BY <2>3, <2>4
<1>11. CleanList'
  BY <1>2, <1>8, <1>9, <1>10 DEF CleanList
<1> QED
  BY <1>1, <1>5, <1>8, <1>9, <1>11

\* The frame at the end of the pipe is the next one.
LEMMA ReadFrame ==
  ASSUME Types, PipeInv, pipe # <<>>
  PROVE  Head(pipe) = frame + 1
<1>1. pipe \in Seq(Nat) /\ 1 \in 1..Len(pipe) /\ Head(pipe) = pipe[1]
  BY DEF Types, PipeTypes
<1> QED
  BY <1>1 DEF PipeInv

\* The list stays that of the frames that have not been used.
LEMMA CleanListNext ==
  ASSUME Types, PipeInv, InfoInv, CleanList, CleanTaken, [Next]_vars, ~Open
  PROVE  CleanList'
<1> DEFINE n == Len(infos)
<1>1. /\ RecordsRead \in Nat /\ RecordsRead <= Len(log) /\ Len(log) \in Nat /\ log \in Seq(Nat)
      /\ Len(fifo) \in Nat /\ fifo \in Seq(Nat) /\ frame \in Nat /\ infos \in Seq(Info)
      /\ pipe \in Seq(Nat)
  BY CleanNumbers DEF Types, DemuxTypes, PipeTypes, CloneTypes, InfoTypes
<1>2. CASE RegisterInfo \/ ReadInfo \/ InfoReady
  BY <1>2, CleanListReader
<1>3. CASE ImportFrame
  BY <1>3, CleanListRemove
<1>4. CASE WriteRecord
  <2>1. PICK c \in Copies : fifo' = Append(fifo, c) /\ log' = Append(log, c)
    BY <1>4 DEF WriteRecord
  <2>2. UNCHANGED <<infos, reader, session, import, frame>>
    BY <1>4 DEF WriteRecord, infoVars, runVars, cloneVars
  <2>3. c \in Nat
    BY SyncConstants
  <2>4. RecordsRead' = RecordsRead
    BY <1>1, <2>1, <2>3 DEF RecordsRead
  <2>5. /\ Used' = Used /\ Waiting' = Waiting
        /\ LastInfo' = LastInfo
    BY <2>2, <2>4 DEF Used, Waiting, LastInfo
  <2>6. Own' = Own
    BY <2>5 DEF Own
  <2>7. ASSUME NEW i \in 1..n PROVE OwnAt(i)'
    <3>1. infos[i].id \in Nat
      <4>1. infos[i] \in Info
        BY <1>1
      <4> QED
        BY <4>1 DEF Info
    <3>2. \A k \in Nat : k < RecordsRead => log'[k + 1] = log[k + 1]
      <4>1. \A j \in 1..Len(log) : log'[j] = log[j]
        BY <1>1, <2>1, <2>3
      <4>2. \A k \in Nat : k < RecordsRead => k + 1 \in 1..Len(log)
        BY <1>1
      <4> QED
        BY <4>1, <4>2
    <3>3. OwnAt(i)
      BY DEF CleanList
    <3> QED
      BY <2>2, <2>4, <2>5, <2>6, <3>1, <3>2, <3>3 DEF OwnAt
  <2> QED
    BY <2>2, <2>6, <2>7 DEF CleanList
<1>5. CASE /\ UNCHANGED <<infos, log, RecordsRead, session>>
           /\ Waiting' = Waiting /\ LastInfo' = LastInfo /\ Used' = Used
  <2>1. Own' = Own
    BY <1>5 DEF Own
  <2>2. ASSUME NEW i \in 1..n PROVE OwnAt(i)'
    <3>1. OwnAt(i)
      BY DEF CleanList
    <3> QED
      BY <1>5, <2>1, <3>1 DEF OwnAt
  <2> QED
    BY <1>5, <2>1, <2>2 DEF CleanList
<1>6. CASE ImportRead
  <2>1. /\ UNCHANGED <<infos, log, fifo, session, reader>>
        /\ import = "read" /\ import' = "remove" /\ frame' = Head(pipe) /\ pipe # <<>>
    BY <1>6 DEF ImportRead, infoVars, demuxVars, fifoVars, runVars
  <2>2. frame' = frame + 1
    BY <2>1, ReadFrame
  <2>3. RecordsRead' = RecordsRead /\ Waiting' = Waiting /\ Used' = Used
    BY <1>1, <2>1, <2>2 DEF RecordsRead, Waiting, Used
  <2>4. LastInfo' = LastInfo
    BY <2>1, <2>3 DEF LastInfo
  <2> QED
    BY <1>5, <2>1, <2>3, <2>4
<1>7. CASE ReadEof \/ Join \/ CountInfo
  <2>1. /\ UNCHANGED <<infos, log, fifo, session, frame>>
        /\ \/ reader \in {"read", "exit"} /\ reader' = "exit"
           \/ reader = "count" /\ reader' = "register"
        /\ import = "remove" <=> import' = "remove"
    BY <1>7 DEF ReadEof, Join, CountInfo, demuxVars, fifoVars, runVars, cloneVars
  <2>2. RecordsRead' = RecordsRead /\ Waiting' = Waiting /\ Used' = Used
    BY <2>1 DEF RecordsRead, Waiting, Used
  <2>3. LastInfo' = LastInfo
    BY <2>1, <2>2 DEF LastInfo
  <2> QED
    BY <1>5, <2>1, <2>2, <2>3
<1>8. CASE ReadPacket \/ AwaitRoom \/ RegisterPacket \/ FillPacket \/ CountPacket \/ DemuxEof
           \/ DemuxExit \/ Flush \/ HelpersDie \/ ImportCopy \/ ImportTest \/ ImportWoken
           \/ ImportRetrieve \/ ImportReadFails \/ Close \/ UNCHANGED vars
  <2>1. UNCHANGED <<infos, log, fifo, session, frame, reader>>
    BY <1>8 DEF ReadPacket, AwaitRoom, RegisterPacket, FillPacket, CountPacket, DemuxEof, DemuxExit,
      Flush, FlushTest, FlushWrite, FlushRemove, FlushCount, HelpersDie, ImportCopy, ImportTest,
      ImportWoken, ImportRetrieve, ImportReadFails, Close, vars, demuxVars, infoVars, fifoVars,
      runVars, cloneVars
  <2>2. import = "remove" <=> import' = "remove"
    BY <1>8 DEF ReadPacket, AwaitRoom, RegisterPacket, FillPacket, CountPacket, DemuxEof, DemuxExit,
      Flush, FlushTest, FlushWrite, FlushRemove, FlushCount, HelpersDie, ImportCopy, ImportTest,
      ImportWoken, ImportRetrieve, ImportReadFails, Close, vars, cloneVars
  <2>3. RecordsRead' = RecordsRead /\ Waiting' = Waiting /\ Used' = Used
    BY <2>1, <2>2 DEF RecordsRead, Waiting, Used
  <2>4. LastInfo' = LastInfo
    BY <2>1, <2>3 DEF LastInfo
  <2> QED
    BY <1>5, <2>1, <2>3, <2>4
<1> QED
  BY <1>2, <1>3, <1>4, <1>6, <1>7, <1>8 DEF Next, Demux, Reader, Import, Finished
\* The records of the list are counted.
LEMMA CleanCountNext ==
  ASSUME Types, PipeInv, InfoInv, CleanList, CleanTaken, CleanCount, [Next]_vars, ~Open
  PROVE  CleanCount'
<1>1. /\ Own \in Nat /\ Waiting \in {0, 1} /\ Counting \in {0, 1} /\ Taking \in {0, 1}
      /\ fillCtr \in Nat /\ LastInfo \in Int /\ Used \in Nat /\ RecordsRead \in Nat
      /\ Used = LastInfo - Own + 1 /\ Len(fifo) \in Nat /\ Len(log) \in Nat /\ frame \in Nat
  BY CleanNumbers DEF Types, InfoTypes, PipeTypes, CloneTypes
<1>2. SUFFICES ASSUME import' \notin {"ended", "closing", "closed"}
               PROVE  fillCtr' = Own' - Waiting' - Counting' - Taking'
  BY DEF CleanCount
<1>3. ASSUME import \notin {"ended", "closing", "closed"}
      PROVE  fillCtr = Own - Waiting - Counting - Taking
  BY <1>3 DEF CleanCount
<1>4. CASE RegisterInfo
  <2>1. /\ reader = "register" /\ reader' = "read"
        /\ UNCHANGED <<fillCtr, import, frame, fifo, log>>
    BY <1>4 DEF RegisterInfo, fifoVars, demuxVars, cloneVars
  <2>2. RecordsRead' = RecordsRead /\ Used' = Used /\ Waiting = 0 /\ Waiting' = 1 /\ Counting = 0
        /\ Counting' = 0 /\ Taking' = Taking
    BY <2>1 DEF RecordsRead, Used, Waiting, Counting, Taking
  <2>3. LastInfo = RecordsRead - 1 /\ LastInfo' = RecordsRead
    BY <2>1, <2>2 DEF LastInfo
  <2>4. Own' = Own + 1
    BY <1>1, <2>2, <2>3 DEF Own
  <2> QED
    BY <1>1, <1>2, <1>3, <2>1, <2>2, <2>4
<1>5. CASE ReadInfo
  <2>1. /\ fifo # <<>> /\ fifo' = Tail(fifo) /\ reader = "read" /\ reader' = "ready"
        /\ UNCHANGED <<fillCtr, import, frame, log>>
    BY <1>5 DEF ReadInfo, demuxVars, cloneVars
  <2>2. Len(fifo') = Len(fifo) - 1
    BY <2>1 DEF Types, PipeTypes
  <2>3. RecordsRead' = RecordsRead + 1 /\ Used' = Used /\ Waiting' = Waiting
        /\ Counting' = Counting /\ Taking' = Taking
    BY <1>1, <2>1, <2>2 DEF RecordsRead, Used, Waiting, Counting, Taking
  <2>4. LastInfo' = LastInfo
    BY <1>1, <2>1, <2>3 DEF LastInfo
  <2>5. Own' = Own
    BY <2>3, <2>4 DEF Own
  <2> QED
    BY <1>2, <1>3, <2>1, <2>3, <2>5
<1>6. CASE InfoReady \/ CountInfo \/ ReadEof
  <2>1. UNCHANGED <<frame, fifo, log>> /\ (import = "remove" <=> import' = "remove")
    BY <1>6 DEF InfoReady, CountInfo, ReadEof, fifoVars, demuxVars, cloneVars
  <2>2. RecordsRead' = RecordsRead /\ Used' = Used
    BY <2>1 DEF RecordsRead, Used
  <2>3. LastInfo' = LastInfo
    BY <1>6, <2>2 DEF LastInfo, InfoReady, CountInfo, ReadEof
  <2>4. Own' = Own
    BY <2>2, <2>3 DEF Own
  <2>5. Taking' = Taking /\ import \notin {"ended", "closing", "closed"}
    BY <1>2, <1>6 DEF Taking, InfoReady, CountInfo, ReadEof, cloneVars
  <2>6. InfoReady => fillCtr' = fillCtr /\ Waiting = 1 /\ Waiting' = 0 /\ Counting = 0 /\ Counting' = 1
    BY DEF InfoReady, Waiting, Counting
  <2>7. CountInfo => fillCtr' = fillCtr + 1 /\ Waiting = 0 /\ Waiting' = 0 /\ Counting = 1
                     /\ Counting' = 0
    BY DEF CountInfo, Waiting, Counting
  <2>8. ReadEof => fillCtr' = fillCtr /\ Waiting' = Waiting /\ Counting' = Counting
    BY DEF ReadEof, Waiting, Counting
  <2> QED
    BY <1>1, <1>3, <1>6, <2>4, <2>5, <2>6, <2>7, <2>8
<1>7. CASE ImportFrame
  <2>1. Own' = Own - 1
    BY <1>7, CleanListRemove
  <2>2. fillCtr' = fillCtr /\ Waiting' = Waiting /\ Counting' = Counting /\ Taking = 1 /\ Taking' = 0
        /\ import \notin {"ended", "closing", "closed"}
    BY <1>7 DEF ImportFrame, Waiting, Counting, Taking
  <2> QED
    BY <1>1, <1>3, <2>1, <2>2
<1>8. ASSUME UNCHANGED <<reader, LastInfo, Used>> PROVE Own' = Own /\ Waiting' = Waiting /\ Counting' = Counting
  BY <1>8 DEF Own, Waiting, Counting
<1>9. CASE WriteRecord
  <2>1. PICK c \in Copies : fifo' = Append(fifo, c) /\ log' = Append(log, c)
    BY <1>9 DEF WriteRecord
  <2>2. c \in Nat
    BY SyncConstants
  <2>3. Len(fifo') = Len(fifo) + 1 /\ Len(log') = Len(log) + 1
    BY <2>1, <2>2 DEF Types, PipeTypes, DemuxTypes
  <2>4. UNCHANGED <<reader, import, frame, fillCtr>>
    BY <1>9 DEF WriteRecord, infoVars, cloneVars
  <2>5. RecordsRead' = RecordsRead
    BY <1>1, <2>3 DEF RecordsRead
  <2>6. Taking' = Taking /\ UNCHANGED <<reader, LastInfo, Used>>
    BY <2>4, <2>5 DEF Taking, LastInfo, Used
  <2> QED
    BY <1>2, <1>3, <1>8, <2>4, <2>6
<1>10. CASE ImportRead
  <2>1. /\ UNCHANGED <<log, fifo, reader, fillCtr>> /\ import = "read" /\ import' = "remove"
        /\ frame' = Head(pipe) /\ pipe # <<>>
    BY <1>10 DEF ImportRead, infoVars, demuxVars, fifoVars
  <2>2. frame' = frame + 1
    BY <2>1, ReadFrame
  <2>3. RecordsRead' = RecordsRead /\ Used' = Used /\ Taking' = Taking
    BY <1>1, <2>1, <2>2 DEF RecordsRead, Used, Taking
  <2>4. LastInfo' = LastInfo
    BY <2>1, <2>3 DEF LastInfo
  <2> QED
    BY <1>3, <1>8, <2>1, <2>3, <2>4
<1>11. CASE ReadPacket \/ AwaitRoom \/ RegisterPacket \/ FillPacket \/ CountPacket \/ DemuxEof
            \/ DemuxExit \/ Flush \/ HelpersDie \/ ImportCopy \/ ImportTest \/ ImportWoken
            \/ ImportRetrieve \/ UNCHANGED vars
  <2>1. UNCHANGED <<log, fifo, frame, reader>>
    BY <1>11 DEF ReadPacket, AwaitRoom, RegisterPacket, FillPacket, CountPacket, DemuxEof, DemuxExit,
      Flush, FlushTest, FlushWrite, FlushRemove, FlushCount, HelpersDie, ImportCopy, ImportTest,
      ImportWoken, ImportRetrieve, vars, demuxVars, infoVars, fifoVars, runVars, cloneVars
  <2>2. /\ import = "remove" <=> import' = "remove"
        /\ import \notin {"ended", "closing", "closed"}
    BY <1>2, <1>11 DEF ReadPacket, AwaitRoom, RegisterPacket, FillPacket, CountPacket, DemuxEof,
      DemuxExit, Flush, FlushTest, FlushWrite, FlushRemove, FlushCount, HelpersDie, ImportCopy,
      ImportTest, ImportWoken, ImportRetrieve, vars, cloneVars
  <2>3. RecordsRead' = RecordsRead /\ Used' = Used
    BY <2>1, <2>2 DEF RecordsRead, Used
  <2>4. LastInfo' = LastInfo
    BY <2>1, <2>3 DEF LastInfo
  <2>5. Own' = Own /\ Waiting' = Waiting /\ Counting' = Counting
    BY <1>8, <2>1, <2>3, <2>4
  <2>6. CASE ImportTest \/ ImportWoken
    <3>1. Taking = 0
      BY <2>6 DEF ImportTest, ImportWoken, Taking
    <3>2. fillCtr = 0 => fillCtr' = 0 /\ Taking' = 0
      BY <2>6 DEF ImportTest, ImportWoken, Taking
    <3>3. fillCtr # 0 => fillCtr' = fillCtr - 1 /\ Taking' = 1
      BY <2>6 DEF ImportTest, ImportWoken, Taking
    <3> QED
      BY <1>1, <1>3, <2>2, <2>5, <3>1, <3>2, <3>3
  <2>7. CASE ~ (ImportTest \/ ImportWoken)
    <3>1. fillCtr' = fillCtr /\ Taking' = Taking
      BY <1>11, <2>7 DEF ReadPacket, AwaitRoom, RegisterPacket, FillPacket, CountPacket, DemuxEof,
        DemuxExit, Flush, FlushTest, FlushWrite, FlushRemove, FlushCount, HelpersDie, ImportCopy,
        ImportRetrieve, vars, cloneVars, infoVars, Taking
    <3> QED
      BY <1>3, <2>2, <2>5, <3>1
  <2> QED
    BY <2>6, <2>7
<1>12. CASE ImportReadFails \/ Close \/ Join
  BY <1>2, <1>12 DEF ImportReadFails, Close, Join
<1> QED
  BY <1>4, <1>5, <1>6, <1>7, <1>9, <1>10, <1>11, <1>12 DEF Next, Demux, Reader, Import, Finished

\* The import thread finds the record of the next frame.
LEMMA FirstInfoIsNext ==
  ASSUME Types, InfoInv, CleanList, CleanTaken, CleanCount, import = "retrieve"
  PROVE  LET r == infos[Min(ReadyInfos)] IN
         /\ r.session = session /\ r.id = Used /\ Used < RecordsRead
         /\ r.copies = log[Used + 1]
<1> DEFINE n == Len(infos)
           k == n - Own + 1
<1>1. /\ Own \in Nat /\ Waiting \in {0, 1} /\ Counting \in {0, 1} /\ Taking = 1 /\ n \in Nat
      /\ fillCtr \in Nat /\ LastInfo \in Int /\ Used \in Nat /\ RecordsRead \in Nat /\ Own <= n
      /\ Used = LastInfo - Own + 1
  BY CleanNumbers DEF Types, InfoTypes, Taking
<1>2. fillCtr = Own - Waiting - Counting - Taking
  BY DEF CleanCount
<1>3. Own >= 1 + Waiting
  BY <1>1, <1>2
<1> HIDE DEF n
<1>4. k \in 1..n /\ ~ (k <= n - Own) /\ (Waiting = 0 \/ k < n) /\ LastInfo - n + k = Used
  BY <1>1, <1>3
<1>5. OwnAt(k)
  BY <1>4 DEF CleanList, n
<1> HIDE DEF k
<1>6. infos[k].status = "READY" /\ infos[k].session = session /\ infos[k].id = Used
      /\ (infos[k].id < RecordsRead => infos[k].copies = log[infos[k].id + 1])
  BY <1>4, <1>5 DEF OwnAt, n
<1>7. DOMAIN infos = 1..n
  BY DEF Types, InfoTypes, n
<1>8. ASSUME NEW i \in ReadyInfos PROVE i \in Nat /\ k <= i
  <2>1. i \in 1..n /\ infos[i].status = "READY"
    BY <1>7 DEF ReadyInfos
  <2>2. OwnAt(i)
    BY <2>1 DEF CleanList, n
  <2>3. ~ (i <= n - Own)
    BY <2>1, <2>2 DEF OwnAt, n
  <2> QED
    BY <1>1, <2>1, <2>3 DEF k
<1>9. k \in ReadyInfos /\ ReadyInfos \in SUBSET Nat
  BY <1>4, <1>6, <1>7, <1>8 DEF ReadyInfos
<1>10. Min(ReadyInfos) = k
  BY <1>8, <1>9, MinIs
<1>11. Used < RecordsRead
  <2>1. CASE reader \in {"read", "exit"}
    <3>1. Waiting = 1 /\ LastInfo = RecordsRead
      BY <2>1 DEF Waiting, LastInfo
    <3> QED
      BY <1>1, <1>3, <3>1
  <2>2. CASE reader \notin {"read", "exit"}
    <3>1. LastInfo = RecordsRead - 1
      BY <2>2 DEF LastInfo
    <3> QED
      BY <1>1, <1>3, <3>1
  <2> QED
    BY <2>1, <2>2
<1> QED
  BY <1>6, <1>10, <1>11

\* The record at work stays that of the next frame.
LEMMA CleanTakenNext ==
  ASSUME Types, PipeInv, InfoInv, CleanList, CleanTaken, CleanCount, [Next]_vars, ~Open
  PROVE  CleanTaken'
<1>1. /\ Used \in Nat /\ RecordsRead \in Nat /\ RecordsRead <= Len(log) /\ Len(log) \in Nat
      /\ log \in Seq(Nat) /\ fifo \in Seq(Nat) /\ Len(fifo) \in Nat /\ frame \in Nat
  BY CleanNumbers DEF Types, PipeTypes, DemuxTypes, CloneTypes
<1>2. CASE ImportRetrieve
  <2>1. /\ import = "retrieve" /\ import' = "read" /\ fiptr' = infos[Min(ReadyInfos)]
        /\ UNCHANGED <<frame, fifo, log, session>>
    BY <1>2 DEF ImportRetrieve, fifoVars, demuxVars, runVars
  <2>2. Used' = Used /\ RecordsRead' = RecordsRead
    BY <2>1 DEF Used, RecordsRead
  <2>3. LET r == infos[Min(ReadyInfos)] IN
        /\ r.session = session /\ r.id = Used /\ Used < RecordsRead
        /\ r.copies = log[Used + 1]
    BY <2>1, FirstInfoIsNext
  <2> QED
    BY <2>1, <2>2, <2>3 DEF CleanTaken
<1>3. CASE ImportRead
  <2>1. /\ import = "read" /\ import' = "remove" /\ pipe # <<>> /\ frame' = Head(pipe)
        /\ UNCHANGED <<fiptr, fifo, log, session>>
    BY <1>3 DEF ImportRead, fifoVars, demuxVars, runVars
  <2>2. frame' = frame + 1
    BY <2>1, ReadFrame
  <2>3. Used' = Used /\ RecordsRead' = RecordsRead
    BY <1>1, <2>1, <2>2 DEF Used, RecordsRead
  <2>4. frame' > 0
    BY <1>1, <2>2
  <2> QED
    BY <2>1, <2>3, <2>4 DEF CleanTaken
<1>4. CASE import' \notin {"read", "remove"}
  BY <1>4 DEF CleanTaken
<1>5. CASE ImportFrame \/ ImportTest \/ ImportWoken \/ ImportReadFails \/ ImportCopy \/ Close \/ Join
  <2>1. import' \notin {"read", "remove"}
    BY <1>5 DEF ImportFrame, ImportTest, ImportWoken, ImportReadFails, ImportCopy, Close, Join
  <2> QED
    BY <1>4, <2>1
<1>6. CASE WriteRecord
  <2>1. PICK c \in Copies : fifo' = Append(fifo, c) /\ log' = Append(log, c)
    BY <1>6 DEF WriteRecord
  <2>2. c \in Nat
    BY SyncConstants
  <2>3. UNCHANGED <<import, fiptr, frame, session>>
    BY <1>6 DEF WriteRecord, cloneVars, runVars
  <2>4. RecordsRead' = RecordsRead /\ Used' = Used
    BY <1>1, <2>1, <2>2, <2>3 DEF RecordsRead, Used
  <2>5. Used < RecordsRead => log'[Used + 1] = log[Used + 1]
    BY <1>1, <2>1, <2>2
  <2> QED
    BY <2>3, <2>4, <2>5 DEF CleanTaken
<1>7. CASE ReadInfo
  <2>1. fifo # <<>> /\ fifo' = Tail(fifo) /\ UNCHANGED <<import, fiptr, frame, session, log>>
    BY <1>7 DEF ReadInfo, cloneVars, runVars, demuxVars
  <2>2. RecordsRead' = RecordsRead + 1 /\ Used' = Used
    BY <1>1, <2>1 DEF RecordsRead, Used
  <2>3. Used < RecordsRead => Used < RecordsRead + 1
    BY <1>1
  <2> QED
    BY <2>1, <2>2, <2>3 DEF CleanTaken
<1>8. CASE CountInfo
  <2>1. /\ UNCHANGED <<fiptr, frame, session, log, fifo>>
        /\ import' = import \/ import' = "woken"
    BY <1>8 DEF CountInfo, fifoVars, runVars, demuxVars
  <2>2. import' = import => RecordsRead' = RecordsRead /\ Used' = Used
    BY <2>1 DEF RecordsRead, Used
  <2> QED
    BY <2>1, <2>2 DEF CleanTaken
<1>9. CASE ReadPacket \/ AwaitRoom \/ RegisterPacket \/ FillPacket \/ CountPacket \/ DemuxEof
           \/ DemuxExit \/ Flush \/ HelpersDie \/ RegisterInfo \/ ReadEof \/ InfoReady
           \/ UNCHANGED vars
  <2>1. UNCHANGED <<import, fiptr, frame, session, log, fifo>>
    BY <1>9 DEF ReadPacket, AwaitRoom, RegisterPacket, FillPacket, CountPacket, DemuxEof, DemuxExit,
      Flush, FlushTest, FlushWrite, FlushRemove, FlushCount, HelpersDie, RegisterInfo, ReadEof,
      InfoReady, vars, demuxVars, fifoVars, runVars, cloneVars
  <2>2. RecordsRead' = RecordsRead /\ Used' = Used
    BY <2>1 DEF RecordsRead, Used
  <2> QED
    BY <2>1, <2>2 DEF CleanTaken
<1> QED
  BY <1>2, <1>3, <1>5, <1>6, <1>7, <1>8, <1>9 DEF Next, Demux, Reader, Import, Finished
\* The elements of a concatenation.
LEMMA ConcatElements ==
  ASSUME NEW a \in Seq(Nat), NEW b \in Seq(Nat)
  PROVE  /\ a \o b \in Seq(Nat) /\ Len(a \o b) = Len(a) + Len(b)
         /\ \A i \in 1..Len(a) : (a \o b)[i] = a[i]
         /\ \A i \in 1..Len(b) : (a \o b)[Len(a) + i] = b[i]
<1>1. Len(a) \in Nat /\ Len(b) \in Nat
  OBVIOUS
<1>2. ASSUME NEW i \in 1..Len(b) PROVE (a \o b)[Len(a) + i] = b[i]
  <2>1. (Len(a) + i) - Len(a) = i /\ Len(a) + i > Len(a)
    BY <1>1
  <2> QED
    BY <1>1, <2>1
<1> QED
  BY <1>2, ConcatProperties

\* Copies are delivered one by one.
LEMMA CopiesStep ==
  ASSUME NEW d \in Seq(Nat), NEW f \in Nat, NEW c \in Nat
  PROVE  /\ Append(d, f) \o [i \in 1..c |-> f] = d \o [i \in 1..(c + 1) |-> f]
         /\ d \o [i \in 1..0 |-> f] = d
         /\ d \o [i \in 1..1 |-> f] = Append(d, f)
<1> DEFINE s(n) == [i \in 1..n |-> f]
<1>1. \A n \in Nat : s(n) \in Seq(Nat) /\ Len(s(n)) = n /\ \A i \in 1..n : s(n)[i] = f
  OBVIOUS
<1>2. c + 1 \in Nat /\ 1 \in Nat /\ 0 \in Nat /\ Len(d) \in Nat
  OBVIOUS
<1>3. /\ Append(d, f) \in Seq(Nat) /\ Len(Append(d, f)) = Len(d) + 1
      /\ Append(d, f)[Len(d) + 1] = f /\ \A i \in 1..Len(d) : Append(d, f)[i] = d[i]
  OBVIOUS
<1> HIDE DEF s
<1>4. Append(d, f) \o s(c) = d \o s(c + 1)
  <2> DEFINE a == Append(d, f)
             p == s(c)
             q == s(c + 1)
             n == Len(d)
  <2>1. a \in Seq(Nat) /\ Len(a) = n + 1 /\ a[n + 1] = f /\ \A i \in 1..n : a[i] = d[i]
    BY <1>3
  <2>2. p \in Seq(Nat) /\ Len(p) = c /\ \A i \in 1..c : p[i] = f
    BY <1>1
  <2>3. q \in Seq(Nat) /\ Len(q) = c + 1 /\ \A i \in 1..(c + 1) : q[i] = f
    BY <1>1, <1>2
  <2>4. n \in Nat /\ c \in Nat
    BY <1>2
  <2> HIDE DEF a, p, q
  <2>5. /\ a \o p \in Seq(Nat) /\ Len(a \o p) = Len(a) + Len(p)
        /\ \A i \in 1..Len(a) : (a \o p)[i] = a[i]
        /\ \A i \in 1..Len(p) : (a \o p)[Len(a) + i] = p[i]
    BY <2>1, <2>2, ConcatElements
  <2>6. /\ d \o q \in Seq(Nat) /\ Len(d \o q) = n + Len(q)
        /\ \A i \in 1..n : (d \o q)[i] = d[i]
        /\ \A i \in 1..Len(q) : (d \o q)[n + i] = q[i]
    BY <2>3, ConcatElements
  <2> HIDE DEF n
  <2>7. ASSUME NEW i \in 1..(n + 1 + c) PROVE (a \o p)[i] = (d \o q)[i]
    <3>1. CASE i <= n
      <4>1. i \in 1..n /\ i \in 1..Len(a)
        BY <2>1, <2>4, <3>1
      <4> QED
        BY <2>1, <2>5, <2>6, <4>1
    <3>2. CASE i = n + 1
      <4>1. i \in 1..Len(a) /\ 1 \in 1..Len(q) /\ 1 \in 1..(c + 1)
        BY <2>1, <2>3, <2>4, <3>2
      <4>2. (a \o p)[i] = f
        BY <2>1, <2>5, <3>2, <4>1
      <4>3. (d \o q)[i] = f
        BY <2>3, <2>6, <3>2, <4>1
      <4> QED
        BY <4>2, <4>3
    <3>3. CASE i > n + 1
      <4> DEFINE k == i - (n + 1)
      <4>1. k \in 1..c /\ k + 1 \in 1..(c + 1) /\ n + 1 + k = i /\ n + (k + 1) = i
        BY <2>4, <3>3
      <4> HIDE DEF k
      <4>2. (a \o p)[i] = f
        BY <2>1, <2>2, <2>5, <4>1
      <4>3. (d \o q)[i] = f
        BY <2>3, <2>6, <4>1
      <4> QED
        BY <4>2, <4>3
    <3>4. i \in Int /\ (i <= n \/ i = n + 1 \/ i > n + 1)
      BY <2>4
    <3> QED
      BY <3>1, <3>2, <3>3, <3>4
  <2>8. Len(a \o p) = n + 1 + c /\ Len(d \o q) = n + 1 + c
    BY <2>1, <2>2, <2>3, <2>4, <2>5, <2>6
  <2>9. a \o p = d \o q
    BY <2>5, <2>6, <2>7, <2>8, SeqEqual
  <2> QED
    BY <2>9 DEF a, p, q
<1>5. d \o s(0) = d
  BY <1>1, <1>2 DEF s
<1>6. d \o s(1) = Append(d, f)
  <2>1. Append(d, f) \o s(0) = Append(d, f)
    BY <1>2, <1>3 DEF s
  <2> QED
    BY <1>1, <1>2, <1>3, SeqEqual DEF s
<1> QED
  BY <1>4, <1>5, <1>6 DEF s

\* What is delivered and due is what the log says of the frames used.
LEMMA CleanOutNext ==
  ASSUME Types, PipeInv, InfoInv, CleanList, CleanTaken, CleanOut, [Next]_vars, ~Open
  PROVE  CleanOut'
<1> DEFINE due(c, f) == [i \in 1..c |-> f]
<1>1. /\ Used \in Nat /\ Used <= Len(log) /\ RecordsRead <= Len(log) /\ RecordsRead \in Nat
      /\ Len(log) \in Nat /\ log \in Seq(Nat)
      /\ frame \in Nat /\ cloneCtr \in Nat /\ delivered \in Seq(Nat)
  BY CleanNumbers DEF Types, DemuxTypes, CloneTypes
<1>2. /\ cloneCtr > 0 => import \in {"top", "closing", "closed"}
      /\ delivered \o due(cloneCtr, frame) = Expand(SubSeq(log, 1, Used))
  BY DEF CleanOut
<1>a. ASSUME NEW c \in Nat
      PROVE  Append(delivered, frame) \o due(c, frame) = delivered \o due(c + 1, frame)
  <2>1. frame \in Nat /\ delivered \in Seq(Nat)
    BY <1>1
  <2> QED
    BY <1>a, <2>1, CopiesStep
<1>3. CASE ImportCopy
  <2>1. /\ import = "top" /\ cloneCtr > 0 /\ cloneCtr' = cloneCtr - 1
        /\ delivered' = Append(delivered, frame) /\ UNCHANGED <<frame, import, log>>
    BY <1>3 DEF ImportCopy, demuxVars
  <2>2. cloneCtr - 1 \in Nat /\ (cloneCtr - 1) + 1 = cloneCtr
    BY <1>1, <2>1
  <2> HIDE DEF due
  <2>3. Append(delivered, frame) \o due(cloneCtr - 1, frame) = delivered \o due((cloneCtr - 1) + 1, frame)
    BY <1>a, <2>2
  <2>4. delivered' \o due(cloneCtr', frame') = delivered \o due(cloneCtr, frame)
    BY <2>1, <2>2, <2>3
  <2>5. Used' = Used
    BY <2>1 DEF Used
  <2>6. delivered' \o due(cloneCtr', frame') = Expand(SubSeq(log', 1, Used'))
    BY <1>2, <2>1, <2>4, <2>5
  <2> QED
    BY <2>1, <2>6 DEF CleanOut, due
<1>4. CASE ImportRead
  <2>1. /\ import = "read" /\ import' = "remove" /\ pipe # <<>> /\ frame' = Head(pipe)
        /\ UNCHANGED <<cloneCtr, delivered, log>>
    BY <1>4 DEF ImportRead, demuxVars
  <2>2. frame' = frame + 1 /\ cloneCtr = 0
    BY <1>1, <1>2, <2>1, ReadFrame
  <2>3. Used' = Used
    BY <1>1, <2>1, <2>2 DEF Used
  <2>4. due(0, frame') = due(0, frame)
    OBVIOUS
  <2> HIDE DEF due
  <2>5. delivered' \o due(cloneCtr', frame') = Expand(SubSeq(log', 1, Used'))
    BY <1>2, <2>1, <2>2, <2>3, <2>4
  <2>6. ~ (cloneCtr' > 0)
    BY <2>1, <2>2
  <2> QED
    BY <2>5, <2>6 DEF CleanOut, due
<1>5. CASE ImportFrame
  <2>1. /\ import = "remove" /\ import' = IF fiptr.copies = 0 THEN "next" ELSE "top"
        /\ cloneCtr' = IF fiptr.copies > 1 THEN fiptr.copies - 1 ELSE cloneCtr
        /\ delivered' = IF fiptr.copies = 0 THEN delivered ELSE Append(delivered, frame)
        /\ UNCHANGED <<frame, log>>
    BY <1>5 DEF ImportFrame, demuxVars
  <2>2. cloneCtr = 0 /\ fiptr.copies = log[Used + 1] /\ Used < RecordsRead
    BY <1>1, <1>2, <2>1 DEF CleanTaken
  <2>3. Used' = Used + 1 /\ Used + 1 = frame
    BY <1>5, CleanListRemove
  <2> DEFINE c == log[Used + 1]
  <2>4. c \in Nat /\ Used \in 0..(Len(log) - 1) /\ fiptr.copies = c
    BY <1>1, <2>2
  <2>5. Expand(SubSeq(log, 1, Used + 1)) = Expand(SubSeq(log, 1, Used)) \o due(c, Used + 1)
    BY <1>1, <2>4, ExpandOf
  <2>6. delivered \o due(0, frame) = delivered
    BY <1>1, CopiesStep
  <2> HIDE DEF due, c
  <2>7. Expand(SubSeq(log', 1, Used')) = delivered \o due(c, frame)
    BY <1>2, <2>1, <2>2, <2>3, <2>5, <2>6
  <2>8. CASE c = 0
    <3>1. cloneCtr' = 0 /\ delivered' = delivered
      BY <2>1, <2>2, <2>4, <2>8
    <3>2. delivered' \o due(cloneCtr', frame') = Expand(SubSeq(log', 1, Used'))
      BY <2>1, <2>7, <2>8, <3>1
    <3>3. ~ (cloneCtr' > 0)
      BY <3>1
    <3> QED
      BY <3>2, <3>3 DEF CleanOut, due
  <2>9. CASE c = 1
    <3>1. cloneCtr' = 0 /\ delivered' = Append(delivered, frame)
      BY <2>1, <2>2, <2>4, <2>9
    <3>2. delivered \o due(1, frame) = Append(delivered, frame)
      BY <1>1, CopiesStep DEF due
    <3>3. Append(delivered, frame) \o due(0, frame) = Append(delivered, frame)
      <4>1. Append(delivered, frame) \in Seq(Nat)
        BY <1>1
      <4> QED
        BY <1>1, <4>1, CopiesStep DEF due
    <3>4. delivered' \o due(cloneCtr', frame') = Expand(SubSeq(log', 1, Used'))
      BY <2>1, <2>7, <2>9, <3>1, <3>2, <3>3
    <3>5. ~ (cloneCtr' > 0)
      BY <3>1
    <3> QED
      BY <3>4, <3>5 DEF CleanOut, due
  <2>10. CASE c > 1
    <3>1. /\ cloneCtr' = c - 1 /\ delivered' = Append(delivered, frame)
          /\ c - 1 \in Nat /\ (c - 1) + 1 = c /\ import' = "top"
      BY <2>1, <2>4, <2>10
    <3>2. Append(delivered, frame) \o due(c - 1, frame) = delivered \o due((c - 1) + 1, frame)
      BY <1>a, <3>1
    <3>3. delivered' \o due(cloneCtr', frame') = Expand(SubSeq(log', 1, Used'))
      BY <2>1, <2>7, <3>1, <3>2
    <3> QED
      BY <3>1, <3>3 DEF CleanOut, due
  <2> QED
    BY <2>4, <2>8, <2>9, <2>10
<1>6. CASE WriteRecord
  <2>1. PICK c \in Copies : log' = Append(log, c)
    BY <1>6 DEF WriteRecord
  <2>2. UNCHANGED <<cloneCtr, delivered, import, frame>>
    BY <1>6 DEF WriteRecord, cloneVars
  <2>3. Used' = Used
    BY <2>2 DEF Used
  <2>4. SubSeq(log', 1, Used) = SubSeq(log, 1, Used)
    <3>1. c \in Nat
      BY SyncConstants
    <3>2. /\ log' \in Seq(Nat) /\ Len(log') = Len(log) + 1
          /\ \A i \in 1..Len(log) : log'[i] = log[i]
      BY <1>1, <2>1, <3>1
    <3>3. /\ SubSeq(log, 1, Used) \in Seq(Nat) /\ Len(SubSeq(log, 1, Used)) = Used
          /\ \A i \in 1..Used : SubSeq(log, 1, Used)[i] = log[i]
      BY <1>1
    <3>4. /\ SubSeq(log', 1, Used) \in Seq(Nat) /\ Len(SubSeq(log', 1, Used)) = Used
          /\ \A i \in 1..Used : SubSeq(log', 1, Used)[i] = log'[i]
      BY <1>1, <3>2
    <3>5. \A i \in 1..Used : i \in 1..Len(log)
      BY <1>1
    <3> QED
      BY <1>1, <3>2, <3>3, <3>4, <3>5, SeqEqual
  <2> QED
    BY <2>2, <2>3, <2>4 DEF CleanOut
<1>7. CASE ImportTest \/ ImportWoken \/ ImportRetrieve \/ ImportReadFails \/ Close \/ Join \/ CountInfo
  <2>1. UNCHANGED <<cloneCtr, delivered, frame, log>>
    BY <1>7 DEF ImportTest, ImportWoken, ImportRetrieve, ImportReadFails, Close, Join, CountInfo,
      demuxVars
  <2>2. import = "remove" <=> import' = "remove"
    BY <1>7 DEF ImportTest, ImportWoken, ImportRetrieve, ImportReadFails, Close, Join, CountInfo
  <2>3. Used' = Used
    BY <2>1, <2>2 DEF Used
  <2>4. cloneCtr > 0 => import' \in {"top", "closing", "closed"}
    BY <1>2, <1>7 DEF ImportTest, ImportWoken, ImportRetrieve, ImportReadFails, Close, Join, CountInfo
  <2> QED
    BY <2>1, <2>3, <2>4 DEF CleanOut
<1>8. CASE ReadPacket \/ AwaitRoom \/ RegisterPacket \/ FillPacket \/ CountPacket \/ DemuxEof
           \/ DemuxExit \/ Flush \/ HelpersDie \/ RegisterInfo \/ ReadInfo \/ ReadEof \/ InfoReady
           \/ UNCHANGED vars
  <2>1. UNCHANGED <<cloneCtr, delivered, import, frame, log>>
    BY <1>8 DEF ReadPacket, AwaitRoom, RegisterPacket, FillPacket, CountPacket, DemuxEof, DemuxExit,
      Flush, FlushTest, FlushWrite, FlushRemove, FlushCount, HelpersDie, RegisterInfo, ReadInfo,
      ReadEof, InfoReady, vars, demuxVars, cloneVars
  <2>2. Used' = Used
    BY <2>1 DEF Used
  <2> QED
    BY <2>1, <2>2 DEF CleanOut
<1> QED
  BY <1>3, <1>4, <1>5, <1>6, <1>7, <1>8 DEF Next, Demux, Reader, Import, Finished
\* The import thread ends by itself only when it has used every record of the log.
LEMMA CleanEndNext ==
  ASSUME Types, PipeInv, LogInv, InfoInv, CleanList, CleanCount, CleanTaken, CleanOut, CleanEnd,
         [Next]_vars, ~Open
  PROVE  CleanEnd'
<1>1. /\ Used \in Nat /\ RecordsRead \in Nat /\ RecordsRead <= Len(log) /\ Len(log) \in Nat
      /\ log \in Seq(Nat) /\ Used = LastInfo - Own + 1 /\ Own \in Nat /\ LastInfo \in Int
      /\ source.last \in Nat /\ source.starts \subseteq 1..source.last /\ packet \in Nat
      /\ frame \in Nat /\ delivered \in Seq(Nat) /\ cloneCtr \in Nat /\ packet <= source.last
  BY CleanNumbers, SourceIs DEF Types, DemuxTypes, CloneTypes
<1>2. SUFFICES ASSUME import' = "ended", ~killed'
               PROVE  (delivered = Expand(log) /\ Recorded(source.last))'
  BY DEF CleanEnd
<1>3. CASE ImportTest
  <2>1. /\ fillCtr = 0 /\ ~readFlag /\ import \in {"next", "top"} /\ (import = "top" => cloneCtr = 0)
        /\ UNCHANGED <<delivered, log, source, killed>>
    BY <1>2, <1>3 DEF ImportTest, demuxVars, runVars
  <2>2. reader = "exit" /\ fifo = <<>> /\ ~fifoOpen
    BY <2>1 DEF InfoInv, ReaderInv
  <2>3. Waiting = 1 /\ Counting = 0 /\ Taking = 0 /\ LastInfo = RecordsRead /\ RecordsRead = Len(log)
    BY <1>1, <2>1, <2>2 DEF Waiting, Counting, Taking, LastInfo, RecordsRead
  <2>4. 0 = Own - 1 - 0 - 0
    BY <2>1, <2>3 DEF CleanCount
  <2>5. Used = Len(log)
    BY <1>1, <2>3, <2>4
  <2>6. cloneCtr = 0
    BY <1>1, <2>1 DEF CleanOut
  <2>7. delivered \o [i \in 1..0 |-> frame] = delivered
    BY <1>1, CopiesStep
  <2>8. delivered = Expand(SubSeq(log, 1, Len(log)))
    BY <2>5, <2>6, <2>7 DEF CleanOut
  <2>9. delivered = Expand(log)
    BY <1>1, <2>8, ExpandOf
  <2>10. Recorded(source.last)
    BY <1>2, <2>1, <2>2 DEF LogInv
  <2> QED
    BY <2>1, <2>9, <2>10 DEF Recorded
<1>4. CASE ImportReadFails
  <2>1. /\ import = "read" /\ pipe = <<>> /\ ~pipeOpen /\ ~killed
    BY <1>2, <1>4 DEF ImportReadFails, runVars
  <2>2. frame + Len(pipe) = packet
    BY <2>1 DEF LogInv
  <2>3. Used = packet
    BY <1>1, <2>1, <2>2 DEF Used
  <2>4. Used < RecordsRead
    BY <2>1 DEF CleanTaken
  <2>5. Len(log) = 0 \/ Len(log) < packet
    BY DEF LogInv
  <2> QED
    BY <1>1, <2>3, <2>4, <2>5
<1>5. CASE WriteRecord
  <2>1. demux = "records" /\ import = "ended" /\ ~killed
    BY <1>2, <1>5 DEF WriteRecord, cloneVars, runVars
  <2>2. Recorded(source.last)
    BY <2>1 DEF CleanEnd
  <2>3. packet \in source.starts /\ Len(log) < packet - 1
    BY <2>1 DEF LogInv
  <2>4. packet <= Len(log) + 1
    BY <1>1, <2>2, <2>3 DEF Recorded
  <2> QED
    BY <1>1, <2>3, <2>4
<1>6. CASE ImportFrame \/ ImportWoken \/ ImportRetrieve \/ ImportRead \/ ImportCopy \/ Close \/ Join
  BY <1>2, <1>6 DEF ImportFrame, ImportWoken, ImportRetrieve, ImportRead, ImportCopy, Close, Join
<1>7. CASE ReadPacket \/ AwaitRoom \/ RegisterPacket \/ FillPacket \/ CountPacket \/ DemuxEof
           \/ DemuxExit \/ Flush \/ HelpersDie \/ Reader \/ UNCHANGED vars
  <2>1. UNCHANGED <<delivered, log, source>> /\ import = "ended" /\ ~killed
    BY <1>2, <1>7 DEF ReadPacket, AwaitRoom, RegisterPacket, FillPacket, CountPacket, DemuxEof,
      DemuxExit, Flush, FlushTest, FlushWrite, FlushRemove, FlushCount, HelpersDie, Reader,
      RegisterInfo, ReadInfo, ReadEof, InfoReady, CountInfo, vars, demuxVars, cloneVars, runVars
  <2> QED
    BY <2>1 DEF CleanEnd, Recorded
<1> QED
  BY <1>3, <1>4, <1>5, <1>6, <1>7 DEF Next, Demux, Import, Finished

\* A session that begins without leftovers begins with nothing but empty records.
LEMMA CleanOpen ==
  ASSUME Types, InfoInv, Open
  PROVE  CleanInv'
<1>1. SUFFICES ASSUME clean'
               PROVE  (CleanList /\ CleanCount /\ CleanTaken /\ CleanOut /\ CleanEnd)'
  BY DEF CleanInv
<1>2. /\ fillCtr = 0 /\ cloneCtr = 0 /\ ReadyInfos = {}
      /\ session' = session + 1 /\ Len(log') = 0 /\ log' = <<>> /\ Len(fifo') = 0
      /\ reader' = "register" /\ import' = "top" /\ frame' = 0 /\ delivered' = <<>>
      /\ UNCHANGED <<infos, fillCtr, cloneCtr>>
  BY <1>1 DEF Open
<1>3. RecordsRead' = 0 /\ Used' = 0 /\ Waiting' = 0 /\ Counting' = 0 /\ Taking' = 0
  BY <1>2 DEF RecordsRead, Used, Waiting, Counting, Taking
<1>4. LastInfo' = -1
  BY <1>2, <1>3 DEF LastInfo
<1>5. Own' = 0
  BY <1>3, <1>4 DEF Own
<1>6. infos \in Seq(Info) /\ Len(infos) \in Nat /\ DOMAIN infos = 1..Len(infos) /\ session \in Nat
  BY DEF Types, InfoTypes, CloneTypes
<1>7. ASSUME NEW i \in 1..Len(infos) PROVE OwnAt(i)'
  <2>1. infos[i].session <= session
    BY DEF InfoInv, ReaderInv
  <2>2. infos[i].status # "READY"
    BY <1>2, <1>6 DEF ReadyInfos
  <2>3. infos[i] \in Info
    BY <1>6
  <2>4. infos[i].status = "EMPTY" /\ infos[i].session \in Nat
    BY <2>2, <2>3 DEF Info
  <2>5. infos[i].session < session + 1
    BY <1>6, <2>1, <2>4
  <2>6. i <= Len(infos) - 0
    BY <1>6
  <2> QED
    BY <1>2, <1>5, <2>4, <2>5, <2>6 DEF OwnAt
<1>8. CleanList'
  BY <1>2, <1>5, <1>6, <1>7 DEF CleanList
<1>9. CleanOut'
  <2>1. <<>> \in Seq(Nat)
    OBVIOUS
  <2>2. Expand(SubSeq(<<>>, 1, 0)) = <<>>
    BY <2>1, ExpandOf
  <2>3. <<>> \o [i \in 1..0 |-> 0] = <<>>
    BY <2>1, CopiesStep
  <2> QED
    BY <1>2, <1>3, <2>2, <2>3 DEF CleanOut
<1> QED
  BY <1>2, <1>3, <1>5, <1>8, <1>9 DEF CleanCount, CleanTaken, CleanEnd

LEMMA CleanNext ==
  ASSUME Types, PipeInv, LogInv, InfoInv, CleanInv, [Next]_vars PROVE CleanInv'
<1>1. CASE Open
  BY <1>1, CleanOpen
<1>2. CASE ~Open
  <2>1. clean' = clean
    BY <1>2 DEF Next, Demux, ReadPacket, WriteRecord, AwaitRoom, RegisterPacket, FillPacket,
      CountPacket, DemuxEof, DemuxExit, Flush, FlushTest, FlushWrite, FlushRemove, FlushCount,
      HelpersDie, Reader, RegisterInfo, ReadInfo, ReadEof, InfoReady, CountInfo, Import, ImportCopy,
      ImportTest, ImportWoken, ImportRetrieve, ImportRead, ImportReadFails, ImportFrame, Close, Join,
      Finished, vars, runVars
  <2> QED
    BY <1>2, <2>1, CleanListNext, CleanCountNext, CleanTakenNext, CleanOutNext, CleanEndNext
       DEF CleanInv
<1> QED
  BY <1>1, <1>2

-----------------------------------------------------------------------------
(* The theorems *)

\* The invariant holds in every reachable state.
THEOREM FrameSyncIndInv == Spec => []IndInv
<1>1. IndInv /\ [Next]_vars => IndInv'
  BY TypesNext, PacketNext, PipeNext, LogNext, InfoNext, CleanNext DEF IndInv
<1> QED
  BY InitIndInv, <1>1, PTL DEF Spec

\* What is delivered is a prefix of what the log describes: every frame is used as often as
\* its own record says, over a fifo, a pipe and two lists (clone.c, frame_info.c, packets.c).
THEOREM FrameSyncOutput == Spec => []OutputFollowsLog
<1>1. IndInv => OutputFollowsLog
  <2> SUFFICES ASSUME IndInv, clean PROVE IsPrefix(delivered, Expand(log))
    BY DEF OutputFollowsLog
  <2>1. /\ Used \in Nat /\ Used <= Len(log) /\ Len(log) \in Nat /\ log \in Seq(Nat)
        /\ delivered \in Seq(Nat) /\ cloneCtr \in Nat /\ frame \in Nat
    <3>1. /\ Used \in Nat /\ Used <= RecordsRead /\ RecordsRead <= Len(log) /\ Len(log) \in Nat
          /\ RecordsRead \in Nat
      BY CleanNumbers DEF IndInv, CleanInv
    <3> QED
      BY <3>1 DEF IndInv, Types, DemuxTypes, CloneTypes
  <2> DEFINE due == [i \in 1..cloneCtr |-> frame]
             e   == Expand(SubSeq(log, 1, Used))
  <2>2. due \in Seq(Nat)
    BY <2>1, CopiesSeq
  <2>3. delivered \o due = e
    BY DEF IndInv, CleanInv, CleanOut
  <2>4. e \in Seq(Nat) /\ IsPrefix(e, Expand(log))
    BY <2>1, ExpandPrefix
  <2>5. Expand(log) \in Seq(Nat)
    <3>1. Len(log) \in 0..Len(log) /\ Expand(SubSeq(log, 1, Len(log))) = Expand(log)
      BY <2>1, ExpandOf
    <3> QED
      BY <2>1, <3>1, ExpandPrefix
  <2> HIDE DEF due, e
  <2>6. IsPrefix(delivered, e)
    BY <2>1, <2>2, <2>3, PrefixOfConcat
  <2> QED
    BY <2>1, <2>4, <2>5, <2>6, PrefixTransitive
<1> QED
  BY <1>1, FrameSyncIndInv, PTL

\* flush_buffer_write never takes a buffer that is in use, and packet_buffer_flush always
\* finds the packet that is counted.
THEOREM FrameSyncSlotFree == Spec => []PacketSlotFree
<1>1. IndInv => PacketSlotFree
  BY PacketFree, FirstPacketIs DEF IndInv, PacketSlotFree
<1> QED
  BY <1>1, FrameSyncIndInv, PTL

\* frame_info_retrieve never returns NULL to buffered_p_read, in any session.
THEOREM FrameSyncRecords == Spec => []RecordBehindCounter
<1>1. IndInv => RecordBehindCounter
  <2> SUFFICES ASSUME IndInv PROVE RecordBehindCounter
    OBVIOUS
  <2>1. fillCtr + Counting + Taking <= Cardinality(ReadyInfos)
    BY DEF IndInv, InfoInv, CountedInv
  <2>2. infos \in Seq(Info) /\ fillCtr \in Nat /\ ReadyInfos = ReadyOf(infos)
    BY DEF IndInv, Types, InfoTypes, ReadyInfos, ReadyOf
  <2>3. Cardinality(ReadyInfos) \in Nat
    BY <2>2, ReadyFinite
  <2> QED
    BY <2>1, <2>2, <2>3 DEF RecordBehindCounter, Counting, Taking
<1> QED
  BY <1>1, FrameSyncIndInv, PTL

\* A session that ends by itself has used every frame before the last sequence, whose
\* records tcdemux never writes (seqinfo.c).
THEOREM FrameSyncComplete == Spec => []OnlyLastSequenceMissing
<1>1. IndInv => OnlyLastSequenceMissing
  <2> SUFFICES ASSUME IndInv, import = "ended", clean, ~killed
               PROVE  /\ delivered = Expand(log)
                      /\ \A p \in source.starts : p <= Len(log) + 1
    BY DEF OnlyLastSequenceMissing
  <2>1. delivered = Expand(log) /\ Recorded(source.last)
    BY DEF IndInv, CleanInv, CleanEnd
  <2>2. \A p \in source.starts : p <= source.last
    BY SourceIs DEF IndInv
  <2> QED
    BY <2>1, <2>2 DEF Recorded
<1> QED
  BY <1>1, FrameSyncIndInv, PTL
=============================================================================
