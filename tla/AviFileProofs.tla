----------------------------- MODULE AviFileProofs -----------------------------
(***************************************************************************)
(* Proofs about AviFile, for every number of tracks, all sizes, lengths    *)
(* and thresholds, and any number of chunks and reads.                     *)
(***************************************************************************)
EXTENDS AviFile, FiniteSetTheorems, SequenceTheorems, WellFoundedInduction, TLAPS

-----------------------------------------------------------------------------
(* Recursive functions *)

\* The natural numbers are well founded.
LEMMA LeastNatural ==
  ASSUME NEW T \in SUBSET Nat, T # {}
  PROVE  \E n \in T : \A m \in T : n <= m
<1> DEFINE R == {pair \in Nat \X Nat : pair[1] < pair[2]}
<1>1. IsWellFoundedOn(R, Nat)
  BY NatLessThanWellFounded DEF OpToRel
<1>2. \E n \in T : \A m \in T : ~ (<<m, n>> \in R)
  <2> HIDE DEF R
  <2> QED
    BY <1>1, WFMin
<1>3. PICK n \in T : \A m \in T : ~ (<<m, n>> \in R)
  BY <1>2
<1>4. ASSUME NEW m \in T PROVE n <= m
  <2>1. m \in Nat /\ n \in Nat
    OBVIOUS
  <2>2. <<m, n>> \in Nat \X Nat /\ <<m, n>>[1] = m /\ <<m, n>>[2] = n
    BY <2>1
  <2>3. ~ (m < n)
    BY <1>3, <2>2
  <2> QED
    BY <2>1, <2>3
<1> QED
  BY <1>4

\* A set of natural numbers that holds 0 and is closed under successor holds them all.
LEMMA SetInduction ==
  ASSUME NEW T, 0 \in T, \A n \in Nat : n \in T => n + 1 \in T
  PROVE  Nat \subseteq T
<1> SUFFICES ASSUME Nat \ T # {} PROVE FALSE
  OBVIOUS
<1>1. PICK n \in Nat \ T : \A m \in Nat \ T : n <= m
  BY LeastNatural
<1>2. n # 0 /\ n - 1 \in Nat
  OBVIOUS
<1>3. n - 1 \in T
  BY <1>1, <1>2
<1> QED
  BY <1>2, <1>3

\* f begins with a, and g makes its n-th value from the one before.
Iterates(f, a, g, N) == f[0] = a /\ \A n \in 1..N : f[n] = g[<<n, f[n - 1]>>]

\* A step can be iterated from 0 up to any number.
LEMMA IterationExists ==
  ASSUME NEW S, NEW a \in S, NEW g \in [Nat \X S -> S], NEW N \in Nat
  PROVE  \E f \in [0..N -> S] : Iterates(f, a, g, N)
<1> DEFINE T == {n \in Nat : \E f \in [0..n -> S] : Iterates(f, a, g, n)}
<1>1. 0 \in T
  <2> DEFINE f == [n \in 0..0 |-> a]
  <2>1. f \in [0..0 -> S] /\ Iterates(f, a, g, 0)
    BY DEF Iterates
  <2> QED
    BY <2>1
<1>2. ASSUME NEW n \in Nat, n \in T PROVE n + 1 \in T
  <2>1. PICK f \in [0..n -> S] : Iterates(f, a, g, n)
    BY <1>2
  <2> DEFINE h == [m \in 0..n + 1 |-> IF m = n + 1 THEN g[<<n + 1, f[n]>>] ELSE f[m]]
  <2>2. f[n] \in S /\ g[<<n + 1, f[n]>>] \in S
    OBVIOUS
  <2>3. \A m \in 0..n + 1 : m # n + 1 => m \in 0..n
    OBVIOUS
  <2>4. h \in [0..n + 1 -> S]
    BY <2>2, <2>3
  <2>5. h[0] = a
    BY <2>1 DEF Iterates
  <2>6. ASSUME NEW m \in 1..n + 1 PROVE h[m] = g[<<m, h[m - 1]>>]
    <3>1. m - 1 \in 0..n + 1 /\ m - 1 # n + 1 /\ m \in 0..n + 1
      OBVIOUS
    <3>2. h[m - 1] = f[m - 1]
      BY <3>1
    <3>3. CASE m = n + 1
      BY <3>1, <3>2, <3>3
    <3>4. CASE m # n + 1
      <4>1. m \in 1..n
        BY <3>4
      <4> QED
        BY <2>1, <3>1, <3>2, <3>4, <4>1 DEF Iterates
    <3> QED
      BY <3>3, <3>4
  <2> HIDE DEF h
  <2> QED
    BY <2>4, <2>5, <2>6 DEF Iterates
<1> HIDE DEF T
<1>3. Nat \subseteq T
  BY <1>1, <1>2, SetInduction
<1> QED
  BY <1>3 DEF T
\* Sums adds one number at a time.
LEMMA SumsIs ==
  ASSUME NEW l \in Seq(Nat)
  PROVE  /\ Sums(l) \in [0..Len(l) -> Nat] /\ Sums(l)[0] = 0
         /\ \A n \in 1..Len(l) : Sums(l)[n] = Sums(l)[n - 1] + l[n]
<1> DEFINE g == [p \in Nat \X Nat |-> p[2] + (IF p[1] \in 1..Len(l) THEN l[p[1]] ELSE 0)]
           IsSum(f) == f = [n \in 0..Len(l) |-> IF n = 0 THEN 0 ELSE f[n - 1] + l[n]]
<1>1. Len(l) \in Nat /\ \A n \in 1..Len(l) : l[n] \in Nat
  OBVIOUS
<1>2. g \in [Nat \X Nat -> Nat]
  <2>1. ASSUME NEW p \in Nat \X Nat PROVE g[p] \in Nat
    <3>1. p[1] \in Nat /\ p[2] \in Nat
      OBVIOUS
    <3> QED
      BY <1>1, <3>1
  <2> QED
    BY <2>1
<1>3. PICK f \in [0..Len(l) -> Nat] : Iterates(f, 0, g, Len(l))
  <2> HIDE DEF g
  <2>1. 0 \in Nat
    OBVIOUS
  <2> QED
    BY <1>1, <1>2, <2>1, IterationExists
<1>4. IsSum(f)
  <2>1. ASSUME NEW n \in 1..Len(l) PROVE f[n] = f[n - 1] + l[n]
    <3>1. n - 1 \in 0..Len(l) /\ n \in Nat
      BY <1>1
    <3>2. f[n - 1] \in Nat
      BY <3>1
    <3>3. <<n, f[n - 1]>> \in Nat \X Nat
      BY <3>1, <3>2
    <3> QED
      BY <1>3, <3>3 DEF Iterates
  <2>2. f[0] = 0
    BY <1>3 DEF Iterates
  <2>3. ASSUME NEW n \in 0..Len(l) PROVE f[n] = IF n = 0 THEN 0 ELSE f[n - 1] + l[n]
    <3>1. n # 0 => n \in 1..Len(l)
      BY <1>1
    <3> QED
      BY <2>1, <2>2, <3>1
  <2>4. f = [n \in 0..Len(l) |-> f[n]]
    OBVIOUS
  <2> QED
    BY <2>3, <2>4
<1> DEFINE h == CHOOSE sum : IsSum(sum)
<1>5. Sums(l) = h
  BY DEF Sums
<1>6. IsSum(h)
  BY <1>4
<1> HIDE DEF h
<1>7. \A n \in 0..Len(l) : h[n] = IF n = 0 THEN 0 ELSE h[n - 1] + l[n]
  BY <1>6
<1>8. DOMAIN h = 0..Len(l)
  BY <1>6
<1>9. h[0] = 0 /\ \A n \in 1..Len(l) : h[n] = h[n - 1] + l[n]
  <2>1. 0 \in 0..Len(l) /\ \A n \in 1..Len(l) : n \in 0..Len(l) /\ n # 0
    BY <1>1
  <2> QED
    BY <1>7, <2>1
<1>10. \A n \in 0..Len(l) : h[n] \in Nat
  <2> DEFINE T == {n \in Nat : n <= Len(l) => h[n] \in Nat}
  <2>1. 0 \in T
    BY <1>9
  <2>2. ASSUME NEW n \in Nat, n \in T PROVE n + 1 \in T
    <3> SUFFICES ASSUME n + 1 <= Len(l) PROVE h[n + 1] \in Nat
      OBVIOUS
    <3>1. n + 1 \in 1..Len(l) /\ (n + 1) - 1 = n /\ n <= Len(l)
      BY <1>1
    <3>2. h[n + 1] = h[n] + l[n + 1] /\ l[n + 1] \in Nat
      BY <1>1, <1>9, <3>1
    <3>3. h[n] \in Nat
      BY <2>2, <3>1
    <3> QED
      BY <3>2, <3>3
  <2> HIDE DEF T
  <2>3. Nat \subseteq T
    BY <2>1, <2>2, SetInduction
  <2> QED
    BY <1>1, <2>3 DEF T
<1> QED
  <2>1. h = [n \in 0..Len(l) |-> h[n]]
    BY <1>6
  <2> QED
    BY <1>5, <1>9, <1>10, <2>1
\* The recursion of Pick.
Picks(f, l, I) ==
  f[0] = <<>> /\ \A n \in 1..Len(l) : f[n] = IF n \in I THEN Append(f[n - 1], l[n]) ELSE f[n - 1]

LEMMA PickIs ==
  ASSUME NEW T, NEW l \in Seq(T), NEW I
  PROVE  \E f \in [0..Len(l) -> Seq(T)] : Picks(f, l, I) /\ Pick(l, I) = f[Len(l)]
<1> DEFINE N == Len(l)
           g == [p \in Nat \X Seq(T) |-> IF p[1] \in I /\ p[1] \in 1..N THEN Append(p[2], l[p[1]]) ELSE p[2]]
           IsPick(f) == f = [n \in 0..N |-> IF n = 0 THEN <<>>
                                            ELSE IF n \in I THEN Append(f[n - 1], l[n]) ELSE f[n - 1]]
<1>1. N \in Nat /\ \A n \in 1..N : l[n] \in T
  OBVIOUS
<1>2. <<>> \in Seq(T) /\ g \in [Nat \X Seq(T) -> Seq(T)]
  <2>1. ASSUME NEW p \in Nat \X Seq(T) PROVE g[p] \in Seq(T)
    <3>1. p[1] \in Nat /\ p[2] \in Seq(T)
      OBVIOUS
    <3>2. p[1] \in 1..N => Append(p[2], l[p[1]]) \in Seq(T)
      BY <1>1, <3>1
    <3> QED
      BY <3>1, <3>2
  <2> QED
    BY <2>1
<1>3. \A n \in 1..N : \A x \in Seq(T) : g[<<n, x>>] = IF n \in I THEN Append(x, l[n]) ELSE x
  <2> SUFFICES ASSUME NEW n \in 1..N, NEW x \in Seq(T)
               PROVE  g[<<n, x>>] = IF n \in I THEN Append(x, l[n]) ELSE x
    OBVIOUS
  <2>1. n \in Nat
    BY <1>1
  <2>2. <<n, x>> \in Nat \X Seq(T) /\ <<n, x>>[1] = n /\ <<n, x>>[2] = x
    BY <2>1
  <2> QED
    BY <2>2
<1> HIDE DEF g
<1>4. PICK f \in [0..N -> Seq(T)] : Iterates(f, <<>>, g, N)
  <2> HIDE DEF N
  <2> QED
    BY <1>1, <1>2, IterationExists
<1>5. IsPick(f)
  <2>1. ASSUME NEW n \in 0..N
        PROVE  f[n] = IF n = 0 THEN <<>> ELSE IF n \in I THEN Append(f[n - 1], l[n]) ELSE f[n - 1]
    <3>1. CASE n = 0
      BY <1>4, <3>1 DEF Iterates
    <3>2. CASE n # 0
      <4>1. n \in 1..N /\ n - 1 \in 0..N
        BY <1>1, <3>2
      <4>2. f[n - 1] \in Seq(T)
        BY <4>1
      <4>3. f[n] = g[<<n, f[n - 1]>>]
        BY <1>4, <4>1 DEF Iterates
      <4> QED
        BY <1>3, <3>2, <4>1, <4>2, <4>3
    <3> QED
      BY <3>1, <3>2
  <2>2. f = [n \in 0..N |-> f[n]]
    OBVIOUS
  <2> QED
    BY <2>1, <2>2
<1> DEFINE h == CHOOSE some : IsPick(some)
<1>6. Pick(l, I) = h[N]
  BY Zenon DEF Pick
<1>7. IsPick(h)
  BY <1>5, Zenon
<1> HIDE DEF h
<1>8. DOMAIN h = 0..N /\ h = [n \in 0..N |-> h[n]]
  BY <1>7
<1>9. Picks(h, l, I)
  <2>1. 0 \in 0..N /\ \A n \in 1..N : n \in 0..N /\ n # 0
    BY <1>1
  <2> QED
    BY <1>7, <2>1 DEF Picks
<1>10. h \in [0..N -> Seq(T)]
  <2> DEFINE P == {n \in Nat : n <= N => h[n] \in Seq(T)}
  <2>1. 0 \in P
    BY <1>2, <1>9 DEF Picks
  <2>2. ASSUME NEW n \in Nat, n \in P PROVE n + 1 \in P
    <3> SUFFICES ASSUME n + 1 <= N PROVE h[n + 1] \in Seq(T)
      OBVIOUS
    <3>1. n + 1 \in 1..N /\ (n + 1) - 1 = n /\ n <= N
      BY <1>1
    <3>2. h[n + 1] = IF n + 1 \in I THEN Append(h[n], l[n + 1]) ELSE h[n]
      BY <1>9, <3>1 DEF Picks
    <3>3. h[n] \in Seq(T) /\ l[n + 1] \in T
      BY <1>1, <2>2, <3>1
    <3> QED
      BY <3>2, <3>3
  <2> HIDE DEF P
  <2>3. Nat \subseteq P
    BY <2>1, <2>2, SetInduction
  <2>4. \A n \in 0..N : h[n] \in Seq(T)
    BY <1>1, <2>3 DEF P
  <2> QED
    BY <1>8, <2>4
<1> QED
  BY <1>6, <1>9, <1>10

\* Picking from a longer sequence is picking from it and looking at the new element.
LEMMA PickAppend ==
  ASSUME NEW T, NEW l \in Seq(T), NEW x \in T, NEW I, NEW J,
         \A n \in 1..Len(l) : n \in I <=> n \in J
  PROVE  /\ Pick(l, I) \in Seq(T)
         /\ Pick(Append(l, x), J) = IF Len(l) + 1 \in J THEN Append(Pick(l, I), x) ELSE Pick(l, I)
<1> DEFINE N == Len(l)
           m == Append(l, x)
<1>1. N \in Nat /\ m \in Seq(T) /\ Len(m) = N + 1 /\ m[N + 1] = x /\ \A n \in 1..N : m[n] = l[n]
  OBVIOUS
<1>2. PICK f \in [0..N -> Seq(T)] : Picks(f, l, I) /\ Pick(l, I) = f[N]
  BY PickIs
<1> HIDE DEF m
<1>3. PICK h \in [0..N + 1 -> Seq(T)] : Picks(h, m, J) /\ Pick(m, J) = h[N + 1]
  <2>1. \E h \in [0..Len(m) -> Seq(T)] : Picks(h, m, J) /\ Pick(m, J) = h[Len(m)]
    BY <1>1, PickIs
  <2> QED
    BY <1>1, <2>1
<1>4. h[N] = f[N]
  <2> DEFINE P == {n \in Nat : n <= N => h[n] = f[n]}
  <2>1. 0 \in P
    BY <1>2, <1>3 DEF Picks
  <2>2. ASSUME NEW n \in Nat, n \in P PROVE n + 1 \in P
    <3> SUFFICES ASSUME n + 1 <= N PROVE h[n + 1] = f[n + 1]
      OBVIOUS
    <3>1. n + 1 \in 1..N /\ n + 1 \in 1..N + 1 /\ (n + 1) - 1 = n /\ n <= N
      BY <1>1
    <3>2. f[n + 1] = IF n + 1 \in I THEN Append(f[n], l[n + 1]) ELSE f[n]
      BY <1>2, <3>1 DEF Picks
    <3>3. h[n + 1] = IF n + 1 \in J THEN Append(h[n], m[n + 1]) ELSE h[n]
      BY <1>1, <1>3, <3>1 DEF Picks
    <3>4. m[n + 1] = l[n + 1] /\ h[n] = f[n] /\ (n + 1 \in I <=> n + 1 \in J)
      BY <1>1, <2>2, <3>1
    <3> QED
      BY <3>2, <3>3, <3>4
  <2> HIDE DEF P
  <2>3. Nat \subseteq P
    BY <2>1, <2>2, SetInduction
  <2> QED
    BY <1>1, <2>3 DEF P
<1>5. h[N + 1] = IF N + 1 \in J THEN Append(h[N], x) ELSE h[N]
  <2>1. N + 1 \in 1..Len(m) /\ (N + 1) - 1 = N
    BY <1>1
  <2> QED
    BY <1>1, <1>3, <2>1 DEF Picks
<1>6. f[N] \in Seq(T)
  BY <1>1
<1> QED
  BY <1>2, <1>3, <1>4, <1>5, <1>6 DEF m
\* The recursion of FlattenSeq, which begins at 1.
Flattens(f, ll) == f[0] = <<>> /\ \A n \in 1..Len(ll) : f[n] = f[n - 1] \o ll[n]

LEMMA FlattenIs ==
  ASSUME NEW T, NEW ll \in Seq(Seq(T))
  PROVE  \E f \in [0..Len(ll) -> Seq(T)] : Flattens(f, ll) /\ FlattenSeq(ll) = f[Len(ll)]
<1> DEFINE N == Len(ll)
           g == [p \in Nat \X Seq(T) |-> IF p[1] \in 1..N THEN p[2] \o ll[p[1]] ELSE p[2]]
           IsFlat(f) == f = [n \in 1..N |-> IF n = 1 THEN ll[n] ELSE f[n - 1] \o ll[n]]
<1>1. N \in Nat /\ \A n \in 1..N : ll[n] \in Seq(T)
  OBVIOUS
<1>2. <<>> \in Seq(T) /\ g \in [Nat \X Seq(T) -> Seq(T)]
  <2>1. ASSUME NEW p \in Nat \X Seq(T) PROVE g[p] \in Seq(T)
    <3>1. p[1] \in Nat /\ p[2] \in Seq(T)
      OBVIOUS
    <3>2. p[1] \in 1..N => p[2] \o ll[p[1]] \in Seq(T)
      BY <1>1, <3>1
    <3> QED
      BY <3>1, <3>2
  <2> QED
    BY <2>1
<1>3. \A n \in 1..N : \A x \in Seq(T) : g[<<n, x>>] = x \o ll[n]
  <2> SUFFICES ASSUME NEW n \in 1..N, NEW x \in Seq(T) PROVE g[<<n, x>>] = x \o ll[n]
    OBVIOUS
  <2>1. n \in Nat
    BY <1>1
  <2>2. <<n, x>> \in Nat \X Seq(T) /\ <<n, x>>[1] = n /\ <<n, x>>[2] = x
    BY <2>1
  <2> QED
    BY <2>2
<1> HIDE DEF g
<1>4. PICK f \in [0..N -> Seq(T)] : Iterates(f, <<>>, g, N)
  <2> HIDE DEF N
  <2> QED
    BY <1>1, <1>2, IterationExists
<1>5. \A n \in 1..N : f[n] = f[n - 1] \o ll[n]
  <2> SUFFICES ASSUME NEW n \in 1..N PROVE f[n] = f[n - 1] \o ll[n]
    OBVIOUS
  <2>1. n - 1 \in 0..N
    BY <1>1
  <2>2. f[n - 1] \in Seq(T)
    BY <2>1
  <2>3. f[n] = g[<<n, f[n - 1]>>]
    BY <1>4 DEF Iterates
  <2> QED
    BY <1>3, <2>2, <2>3
<1>6. f[0] = <<>> /\ \A n \in 1..N : n = 1 => f[n] = ll[n]
  <2>1. f[0] = <<>>
    BY <1>4 DEF Iterates
  <2>2. ASSUME NEW n \in 1..N, n = 1 PROVE f[n] = ll[n]
    <3> DEFINE k == n - 1
    <3>1. k = 0 /\ ll[n] \in Seq(T)
      BY <1>1, <2>2
    <3>2. f[n] = f[k] \o ll[n]
      BY <1>5
    <3> HIDE DEF k
    <3>3. f[n] = <<>> \o ll[n]
      BY <2>1, <3>1, <3>2
    <3> QED
      BY <3>1, <3>3, ConcatEmptySeq
  <2> QED
    BY <2>1, <2>2
<1> DEFINE part == [n \in 1..N |-> f[n]]
<1>7. IsFlat(part)
  <2>1. ASSUME NEW n \in 1..N PROVE part[n] = IF n = 1 THEN ll[n] ELSE part[n - 1] \o ll[n]
    <3>1. n # 1 => n - 1 \in 1..N
      BY <1>1
    <3>2. n # 1 => part[n - 1] = f[n - 1]
      BY <3>1
    <3>3. part[n] = f[n]
      OBVIOUS
    <3> QED
      BY <1>5, <1>6, <3>2, <3>3
  <2> HIDE DEF part
  <2>2. part = [n \in 1..N |-> part[n]]
    BY DEF part
  <2> QED
    BY <2>1, <2>2
<1> HIDE DEF part
<1> DEFINE h == CHOOSE flatten : IsFlat(flatten)
<1>8. N # 0 => FlattenSeq(ll) = h[N]
  BY Zenon DEF FlattenSeq
<1>9. IsFlat(h)
  BY <1>7, Zenon
<1> HIDE DEF h
<1>10. \A n \in 1..N : h[n] = IF n = 1 THEN ll[n] ELSE h[n - 1] \o ll[n]
  BY <1>9
<1>11. \A n \in 1..N : h[n] = f[n]
  <2> DEFINE P == {n \in Nat : n \in 1..N => h[n] = f[n]}
  <2>1. 0 \in P
    OBVIOUS
  <2>2. ASSUME NEW n \in Nat, n \in P PROVE n + 1 \in P
    <3> SUFFICES ASSUME n + 1 \in 1..N PROVE h[n + 1] = f[n + 1]
      OBVIOUS
    <3>1. CASE n = 0
      <4>1. h[1] = ll[1] /\ f[1] = ll[1]
        BY <1>1, <1>6, <1>10, <3>1
      <4> QED
        BY <3>1, <4>1
    <3>2. CASE n # 0
      <4>1. n \in 1..N /\ n + 1 # 1 /\ (n + 1) - 1 = n
        BY <1>1, <3>2
      <4>2. h[n] = f[n]
        BY <2>2, <4>1
      <4>3. h[n + 1] = h[n] \o ll[n + 1] /\ f[n + 1] = f[n] \o ll[n + 1]
        BY <1>5, <1>10, <4>1
      <4> QED
        BY <4>2, <4>3
    <3> QED
      BY <3>1, <3>2
  <2> HIDE DEF P
  <2>3. Nat \subseteq P
    BY <2>1, <2>2, SetInduction
  <2> QED
    BY <1>1, <2>3 DEF P
<1>12. FlattenSeq(ll) = f[N]
  <2>1. CASE N = 0
    <3>1. ll = <<>> /\ FlattenSeq(ll) = ll
      BY <2>1 DEF FlattenSeq
    <3> QED
      BY <1>6, <2>1, <3>1
  <2>2. CASE N # 0
    <3>1. N \in 1..N
      BY <1>1, <2>2
    <3> HIDE DEF N
    <3> QED
      BY <1>8, <1>11, <2>2, <3>1
  <2> QED
    BY <2>1, <2>2
<1>13. Flattens(f, ll)
  BY <1>5, <1>6 DEF Flattens
<1> QED
  BY <1>12, <1>13

\* One more sequence is joined to the end.
LEMMA FlattenAppend ==
  ASSUME NEW T, NEW ll \in Seq(Seq(T)), NEW l \in Seq(T)
  PROVE  /\ FlattenSeq(ll) \in Seq(T)
         /\ FlattenSeq(Append(ll, l)) = FlattenSeq(ll) \o l
<1> DEFINE N == Len(ll)
           m == Append(ll, l)
<1>1. N \in Nat /\ m \in Seq(Seq(T)) /\ Len(m) = N + 1 /\ m[N + 1] = l /\ \A n \in 1..N : m[n] = ll[n]
  OBVIOUS
<1>2. PICK f \in [0..N -> Seq(T)] : Flattens(f, ll) /\ FlattenSeq(ll) = f[N]
  BY FlattenIs
<1> HIDE DEF m
<1>3. PICK h \in [0..N + 1 -> Seq(T)] : Flattens(h, m) /\ FlattenSeq(m) = h[N + 1]
  <2>1. \E h \in [0..Len(m) -> Seq(T)] : Flattens(h, m) /\ FlattenSeq(m) = h[Len(m)]
    BY <1>1, FlattenIs
  <2> QED
    BY <1>1, <2>1
<1>4. h[N] = f[N]
  <2> DEFINE P == {n \in Nat : n <= N => h[n] = f[n]}
  <2>1. 0 \in P
    BY <1>2, <1>3 DEF Flattens
  <2>2. ASSUME NEW n \in Nat, n \in P PROVE n + 1 \in P
    <3> SUFFICES ASSUME n + 1 <= N PROVE h[n + 1] = f[n + 1]
      OBVIOUS
    <3>1. n + 1 \in 1..N /\ n + 1 \in 1..N + 1 /\ (n + 1) - 1 = n /\ n <= N
      BY <1>1
    <3>2. f[n + 1] = f[n] \o ll[n + 1]
      BY <1>2, <3>1 DEF Flattens
    <3>3. h[n + 1] = h[n] \o m[n + 1]
      BY <1>1, <1>3, <3>1 DEF Flattens
    <3>4. m[n + 1] = ll[n + 1] /\ h[n] = f[n]
      BY <1>1, <2>2, <3>1
    <3> QED
      BY <3>2, <3>3, <3>4
  <2> HIDE DEF P
  <2>3. Nat \subseteq P
    BY <2>1, <2>2, SetInduction
  <2>4. N \in P /\ N <= N
    BY <1>1, <2>3
  <2> QED
    BY <2>4 DEF P
<1>5. h[N + 1] = h[N] \o l
  <2>1. N + 1 \in 1..Len(m) /\ (N + 1) - 1 = N
    BY <1>1
  <2>2. h[N + 1] = h[(N + 1) - 1] \o m[N + 1]
    BY <1>3, <2>1 DEF Flattens
  <2> QED
    BY <1>1, <2>1, <2>2
<1>6. f[N] \in Seq(T)
  <2>1. N \in 0..N
    BY <1>1
  <2> HIDE DEF N
  <2> QED
    BY <2>1
<1> QED
  BY <1>2, <1>3, <1>4, <1>5, <1>6 DEF m
-----------------------------------------------------------------------------
(* Reading audio *)

IndexEntry == [pos : Int, len : Nat, tot : Nat]

\* tot is the sum of the lengths before.
Summed(l) ==
  /\ l \in Seq(IndexEntry)
  /\ \A i \in 1..Len(l) : l[i].tot = IF i = 1 THEN 0 ELSE l[i - 1].tot + l[i - 1].len
  /\ Total(LensOf(l)) = IF Len(l) = 0 THEN 0 ELSE l[Len(l)].tot + l[Len(l)].len

\* The totals that the reader computes are right.
LEMMA WithTotalsIs ==
  ASSUME NEW l \in Seq([pos : Int, len : Nat])
  PROVE  Summed(WithTotals(l)) /\ Len(WithTotals(l)) = Len(l)
<1> DEFINE n == Len(l)
           k == LensOf(l)
           m == WithTotals(l)
<1>1. n \in Nat /\ DOMAIN l = 1..n /\ \A i \in 1..n : l[i].pos \in Int /\ l[i].len \in Nat
  <2>1. \A T : \A q \in Seq(T) : Len(q) \in Nat /\ DOMAIN q = 1..Len(q) /\ \A i \in 1..Len(q) : q[i] \in T
    OBVIOUS
  <2>2. \A e \in [pos : Int, len : Nat] : e.pos \in Int /\ e.len \in Nat
    OBVIOUS
  <2> QED
    BY <2>1, <2>2
<1>2. k \in Seq(Nat) /\ Len(k) = n /\ \A i \in 1..n : k[i] = l[i].len
  BY <1>1 DEF LensOf
<1>3. /\ Sums(k) \in [0..n -> Nat] /\ Sums(k)[0] = 0
      /\ \A i \in 1..n : Sums(k)[i] = Sums(k)[i - 1] + k[i]
  <2> HIDE DEF k, n
  <2> QED
    BY <1>2, SumsIs
<1>4. m = [i \in 1..n |-> [pos |-> l[i].pos, len |-> l[i].len, tot |-> Sums(k)[i - 1]]]
  BY <1>1 DEF WithTotals
<1> HIDE DEF n, k, m
<1>5. \A i \in 1..n : i - 1 \in 0..n /\ Sums(k)[i - 1] \in Nat
  <2> SUFFICES ASSUME NEW i \in 1..n PROVE i - 1 \in 0..n /\ Sums(k)[i - 1] \in Nat
    OBVIOUS
  <2>1. i - 1 \in 0..n
    BY <1>1
  <2> QED
    BY <1>3, <2>1
<1>6. \A i \in 1..n : m[i] \in IndexEntry
  BY <1>1, <1>4, <1>5 DEF IndexEntry
<1>7. m \in Seq(IndexEntry) /\ Len(m) = n
  <2>1. m \in [1..n -> IndexEntry]
    BY <1>4, <1>6
  <2> QED
    BY <1>1, <2>1
<1>8. \A i \in 1..n : m[i].tot = Sums(k)[i - 1] /\ m[i].len = k[i]
  BY <1>2, <1>4
<1>9. \A i \in 1..n : m[i].tot = IF i = 1 THEN 0 ELSE m[i - 1].tot + m[i - 1].len
  <2> SUFFICES ASSUME NEW i \in 1..n
               PROVE  m[i].tot = IF i = 1 THEN 0 ELSE m[i - 1].tot + m[i - 1].len
    OBVIOUS
  <2>1. CASE i = 1
    <3>1. i - 1 = 0
      BY <2>1
    <3> QED
      BY <1>3, <1>8, <2>1, <3>1
  <2>2. CASE i # 1
    <3>1. i - 1 \in 1..n
      BY <1>1, <2>2
    <3>2. m[i - 1].tot = Sums(k)[(i - 1) - 1] /\ m[i - 1].len = k[i - 1]
      BY <1>8, <3>1
    <3>3. Sums(k)[i - 1] = Sums(k)[(i - 1) - 1] + k[i - 1]
      BY <1>3, <3>1
    <3> QED
      BY <1>8, <2>2, <3>2, <3>3
  <2> QED
    BY <2>1, <2>2
<1>10. LensOf(m) = k
  <2>1. DOMAIN m = 1..n /\ DOMAIN k = 1..n
    BY <1>1, <1>2, <1>4
  <2>2. k = [i \in 1..n |-> k[i]]
    BY <1>1, <1>2
  <2> QED
    BY <1>8, <2>1, <2>2 DEF LensOf
<1>11. Total(k) = IF n = 0 THEN 0 ELSE m[n].tot + m[n].len
  <2>1. Total(k) = Sums(k)[n]
    BY <1>2 DEF Total
  <2>2. CASE n = 0
    BY <1>3, <2>1, <2>2
  <2>3. CASE n # 0
    <3>1. n \in 1..n
      BY <1>1, <2>3
    <3>2. m[n].tot = Sums(k)[n - 1] /\ m[n].len = k[n] /\ Sums(k)[n] = Sums(k)[n - 1] + k[n]
      BY <1>3, <1>8, <3>1
    <3> QED
      BY <2>1, <2>3, <3>2
  <2> QED
    BY <2>2, <2>3
<1> QED
  BY <1>7, <1>9, <1>10, <1>11 DEF Summed, n, m
\* Between which chunks the search is: the byte does not lie before the first, and lies
\* before the last unless that is the end of the track; chunks - k bounds how many lie
\* between them after k passes.
Between(r, b, k) ==
  /\ r \in [n0 : 0..chunks, n1 : 0..chunks] /\ r.n0 < r.n1
  /\ index[track][r.n0 + 1].tot <= b
  /\ r.n1 = chunks \/ index[track][r.n1 + 1].tot > b
  /\ r.n1 - r.n0 <= chunks - k \/ r.n1 = r.n0 + 1

\* A pass keeps the byte between the chunks and brings them closer.
LEMMA HalveKeeps ==
  ASSUME Summed(index[track]), NEW b \in Nat, NEW k \in Nat, NEW r, Between(r, b, k)
  PROVE  Between(Halve(b, r), b, k + 1)
<1> DEFINE n == (r.n0 + r.n1) \div 2
<1>1. chunks \in Nat /\ r.n0 \in 0..chunks /\ r.n1 \in 0..chunks /\ r.n0 < r.n1
  BY DEF Between, Summed, chunks
<1>2. CASE r.n0 >= r.n1 - 1
  <2>1. r.n1 = r.n0 + 1 /\ Halve(b, r) = r
    BY <1>1, <1>2 DEF Halve
  <2> QED
    BY <2>1 DEF Between
<1>3. CASE ~ (r.n0 >= r.n1 - 1)
  <2>1. n \in Nat /\ r.n0 < n /\ n < r.n1
    BY <1>1, <1>3
  <2> HIDE DEF n
  <2>2. \A m \in 1..chunks : index[track][m].tot \in Nat
    <3>1. \A m \in 1..chunks : index[track][m] \in IndexEntry
      BY DEF Summed, chunks
    <3> QED
      BY <3>1 DEF IndexEntry
  <2>3. n \in 0..chunks /\ n + 1 \in 1..chunks
    BY <1>1, <2>1
  <2>4. r.n1 - r.n0 <= chunks - k
    BY <1>1, <1>3 DEF Between
  <2>5. CASE index[track][n + 1].tot > b
    <3>1. Halve(b, r) = [r EXCEPT !.n1 = n]
      BY <1>3, <2>5 DEF Halve, n
    <3> DEFINE q == Halve(b, r)
    <3>2. q \in [n0 : 0..chunks, n1 : 0..chunks] /\ q.n0 = r.n0 /\ q.n1 = n
      BY <1>1, <2>3, <3>1 DEF Between
    <3> HIDE DEF q
    <3>3. q.n0 < q.n1 /\ q.n1 - q.n0 <= chunks - (k + 1)
      BY <1>1, <2>1, <2>4, <3>2
    <3>4. index[track][q.n0 + 1].tot <= b /\ index[track][q.n1 + 1].tot > b
      BY <2>5, <3>2 DEF Between
    <3> QED
      BY <3>2, <3>3, <3>4 DEF Between, q
  <2>6. CASE ~ (index[track][n + 1].tot > b)
    <3>1. Halve(b, r) = [r EXCEPT !.n0 = n]
      BY <1>3, <2>6 DEF Halve, n
    <3> DEFINE q == Halve(b, r)
    <3>2. q \in [n0 : 0..chunks, n1 : 0..chunks] /\ q.n0 = n /\ q.n1 = r.n1
      BY <1>1, <2>3, <3>1 DEF Between
    <3> HIDE DEF q
    <3>3. q.n0 < q.n1 /\ q.n1 - q.n0 <= chunks - (k + 1)
      BY <1>1, <2>1, <2>4, <3>2
    <3>4. index[track][n + 1].tot <= b
      BY <2>2, <2>3, <2>6
    <3>5. q.n1 = chunks \/ index[track][q.n1 + 1].tot > b
      BY <3>2 DEF Between
    <3> QED
      BY <3>2, <3>3, <3>4, <3>5 DEF Between, q
  <2> QED
    BY <2>5, <2>6
<1> QED
  BY <1>2, <1>3

\* The search finds the chunk that the byte lies in; the last one for the end of the track.
LEMMA SearchIs ==
  ASSUME Summed(index[track]), chunks > 0, NEW b \in 0..Bytes
  PROVE  /\ Search(b) + 1 \in 1..chunks
         /\ LET e == index[track][Search(b) + 1] IN e.tot <= b /\ b <= e.tot + e.len
<1> DEFINE c == chunks
           first == [n0 |-> 0, n1 |-> c]
           g == [p \in Nat \X {r \in [n0 : 0..c, n1 : 0..c] : \E k \in Nat : Between(r, b, k)} |->
                   Halve(b, p[2])]
           S == {r \in [n0 : 0..c, n1 : 0..c] : \E k \in Nat : Between(r, b, k)}
           IsPass(f) == f = [k \in 0..c |-> IF k = 0 THEN first ELSE Halve(b, f[k - 1])]
<1>1. c \in Nat /\ c > 0 /\ Bytes = index[track][c].tot + index[track][c].len
      /\ \A i \in 1..c : index[track][i].tot \in Nat /\ index[track][i].len \in Nat
  <2>1. c \in Nat /\ c > 0 /\ Bytes = index[track][c].tot + index[track][c].len
    BY DEF Summed, chunks, Bytes
  <2>2. \A i \in 1..c : index[track][i] \in IndexEntry
    BY DEF Summed, chunks
  <2> QED
    BY <2>1, <2>2 DEF IndexEntry
<1>2. b \in Nat
  <2>1. c \in 1..c
    BY <1>1
  <2>2. Bytes \in Nat
    BY <1>1, <2>1
  <2> QED
    BY <2>2
<1>3. Between(first, b, 0)
  <2>1. index[track][1].tot = 0
    <3>1. 1 \in 1..c
      BY <1>1
    <3> QED
      BY <3>1 DEF Summed, chunks
  <2>2. first \in [n0 : 0..c, n1 : 0..c] /\ first.n0 = 0 /\ first.n1 = c
    BY <1>1
  <2> QED
    BY <1>1, <1>2, <2>1, <2>2 DEF Between
<1> HIDE DEF first
<1>4. first \in S /\ g \in [Nat \X S -> S]
  <2>1. \A r : (\E k \in Nat : Between(r, b, k)) => r \in S
    BY DEF Between
  <2>2. first \in S
    BY <1>3, <2>1
  <2>3. ASSUME NEW r \in S PROVE Halve(b, r) \in S
    <3>1. PICK k \in Nat : Between(r, b, k)
      OBVIOUS
    <3>2. Between(Halve(b, r), b, k + 1) /\ k + 1 \in Nat
      BY <1>2, <3>1, HalveKeeps
    <3> HIDE DEF S
    <3> QED
      BY <2>1, <3>2
  <2>4. g = [p \in Nat \X S |-> Halve(b, p[2])]
    OBVIOUS
  <2> HIDE DEF S, g
  <2> QED
    BY <2>2, <2>3, <2>4
<1>5. \A k \in Nat, r \in S : g[<<k, r>>] = Halve(b, r)
  OBVIOUS
<1> HIDE DEF S, g
<1>6. PICK f \in [0..c -> S] : Iterates(f, first, g, c)
  <2> HIDE DEF c
  <2> QED
    BY <1>1, <1>4, IterationExists
<1>7. IsPass(f)
  <2>1. ASSUME NEW k \in 0..c PROVE f[k] = IF k = 0 THEN first ELSE Halve(b, f[k - 1])
    <3>1. CASE k = 0
      BY <1>6, <3>1 DEF Iterates
    <3>2. CASE k # 0
      <4>1. k \in 1..c /\ k - 1 \in 0..c /\ k \in Nat
        BY <1>1, <3>2
      <4>2. f[k - 1] \in S
        BY <4>1
      <4>3. f[k] = g[<<k, f[k - 1]>>]
        BY <1>6, <4>1 DEF Iterates
      <4> QED
        BY <1>5, <3>2, <4>1, <4>2, <4>3
    <3> QED
      BY <3>1, <3>2
  <2>2. f = [k \in 0..c |-> f[k]]
    OBVIOUS
  <2> QED
    BY <2>1, <2>2
<1> DEFINE h == CHOOSE pass : IsPass(pass)
<1>8. Search(b) = h[c].n0
  BY DEF Search, first
<1>9. IsPass(h)
  BY <1>7
<1> HIDE DEF h
<1>10. \A k \in 0..c : h[k] = IF k = 0 THEN first ELSE Halve(b, h[k - 1])
  BY <1>9
<1>11. Between(h[c], b, c)
  <2> DEFINE P == {k \in Nat : k <= c => Between(h[k], b, k)}
  <2>1. 0 \in P
    <3>1. 0 \in 0..c
      BY <1>1
    <3> QED
      BY <1>3, <1>10, <3>1
  <2>2. ASSUME NEW k \in Nat, k \in P PROVE k + 1 \in P
    <3> SUFFICES ASSUME k + 1 <= c PROVE Between(h[k + 1], b, k + 1)
      OBVIOUS
    <3>1. k + 1 \in 0..c /\ k + 1 # 0 /\ (k + 1) - 1 = k /\ k <= c
      BY <1>1
    <3>2. h[k + 1] = Halve(b, h[k])
      BY <1>10, <3>1
    <3>3. Between(h[k], b, k)
      BY <2>2, <3>1
    <3> QED
      BY <1>2, <3>2, <3>3, HalveKeeps
  <2> HIDE DEF P
  <2>3. Nat \subseteq P
    BY <2>1, <2>2, SetInduction
  <2>4. c \in P /\ c <= c
    BY <1>1, <2>3
  <2> QED
    BY <2>4 DEF P
<1> DEFINE r == h[c]
<1>12. r.n0 \in 0..c /\ r.n1 = r.n0 + 1 /\ r.n1 <= c
  <2>1. r.n0 \in 0..c /\ r.n1 \in 0..c /\ r.n0 < r.n1
    BY <1>11 DEF Between
  <2> HIDE DEF r
  <2>2. r.n1 - r.n0 <= c - c \/ r.n1 = r.n0 + 1
    BY <1>11 DEF Between, r
  <2> HIDE DEF c
  <2> QED
    BY <1>1, <2>1, <2>2
<1>13. index[track][r.n0 + 1].tot <= b /\ (r.n1 = c \/ index[track][r.n1 + 1].tot > b)
  BY <1>11 DEF Between
<1>14. Search(b) = r.n0
  BY <1>8
<1> HIDE DEF r
<1> DEFINE i == r.n0 + 1
<1>15. i \in 1..c /\ Search(b) + 1 = i /\ index[track][i].tot <= b
  BY <1>1, <1>12, <1>13, <1>14
<1>16. b <= index[track][i].tot + index[track][i].len
  <2>1. CASE i = c
    BY <1>1, <2>1
  <2>2. CASE i # c
    <3>1. i + 1 \in 1..c /\ i + 1 # 1 /\ (i + 1) - 1 = i
      BY <1>1, <1>15, <2>2
    <3>2. index[track][i + 1].tot = index[track][i].tot + index[track][i].len
      BY <3>1 DEF Summed, chunks
    <3>3. index[track][i + 1].tot > b
      BY <1>12, <1>13, <2>2
    <3> HIDE DEF i
    <3>4. index[track][i].tot + index[track][i].len \in Nat
      BY <1>1, <1>15
    <3> QED
      BY <1>2, <3>2, <3>3, <3>4
  <2> QED
    BY <2>1, <2>2
<1> HIDE DEF i
<1> QED
  BY <1>15, <1>16
\* The position in the track is that of the byte that is due.
AudioInv ==
  chunks > 0 =>
    /\ want \in Nat /\ posc \in 1..chunks + 1 /\ byte \in Nat
    /\ IF posc > chunks THEN byte = Bytes /\ want = 0
       ELSE posb \in 0..index[track][posc].len /\ index[track][posc].tot + posb = byte

\* The reader's part of the invariant.
ReadInv ==
  /\ mode \in {"write", "closed"} => posc = 1 /\ posb = 0 /\ want = 0 /\ byte = 0
  /\ mode = "read" => track \in Tracks /\ (\A s \in Streams : Summed(index[s])) /\ AudioInv

\* What a summed index says of its chunks.
LEMMA SummedIs ==
  ASSUME Summed(index[track]), chunks > 0
  PROVE  /\ chunks \in Nat /\ Bytes \in Nat
         /\ \A i \in 1..chunks : index[track][i].tot \in Nat /\ index[track][i].len \in Nat
         /\ \A i \in 1..chunks :
              index[track][i].tot + index[track][i].len =
                IF i = chunks THEN Bytes ELSE index[track][i + 1].tot
<1>1. chunks \in Nat
  BY DEF Summed, chunks
<1>2. \A i \in 1..chunks : index[track][i].tot \in Nat /\ index[track][i].len \in Nat
  <2>1. \A i \in 1..chunks : index[track][i] \in IndexEntry
    BY DEF Summed, chunks
  <2> QED
    BY <2>1 DEF IndexEntry
<1>3. Bytes = index[track][chunks].tot + index[track][chunks].len
  BY DEF Summed, chunks, Bytes
<1>4. Bytes \in Nat
  <2>1. chunks \in 1..chunks
    BY <1>1
  <2>2. index[track][chunks].tot \in Nat /\ index[track][chunks].len \in Nat
    BY <1>2, <2>1
  <2> QED
    BY <1>3, <2>2
<1>5. ASSUME NEW i \in 1..chunks, i # chunks
      PROVE  index[track][i].tot + index[track][i].len = index[track][i + 1].tot
  <2>1. i + 1 \in 1..chunks /\ i + 1 # 1 /\ (i + 1) - 1 = i
    BY <1>1, <1>5
  <2> QED
    BY <2>1 DEF Summed, chunks
<1> QED
  BY <1>1, <1>2, <1>3, <1>4, <1>5

\* Whatever the reader does, the position stays that of the byte that is due.
LEMMA AudioStep ==
  ASSUME Summed(index[track]), AudioInv, UNCHANGED <<index, track>>,
         SetAudioPosition \/ ReadAudio \/ ReadPart \/ NextChunk \/ ReadChunk
  PROVE  AudioInv'
<1> SUFFICES ASSUME chunks > 0
             PROVE  /\ want' \in Nat /\ posc' \in 1..chunks + 1 /\ byte' \in Nat
                    /\ IF posc' > chunks THEN byte' = Bytes /\ want' = 0
                       ELSE posb' \in 0..index[track][posc'].len /\ index[track][posc'].tot + posb' = byte'
  <2>1. chunks' = chunks /\ Bytes' = Bytes /\ index' = index /\ track' = track
    BY DEF chunks, Bytes
  <2> QED
    BY <2>1 DEF AudioInv
<1>1. /\ chunks \in Nat /\ Bytes \in Nat
      /\ \A i \in 1..chunks : index[track][i].tot \in Nat /\ index[track][i].len \in Nat
      /\ \A i \in 1..chunks : index[track][i].tot + index[track][i].len =
                                IF i = chunks THEN Bytes ELSE index[track][i + 1].tot
  BY SummedIs
<1>2. /\ want \in Nat /\ posc \in 1..chunks + 1 /\ byte \in Nat
      /\ posc > chunks => byte = Bytes /\ want = 0
      /\ posc <= chunks => posb \in 0..index[track][posc].len /\ index[track][posc].tot + posb = byte
  BY <1>1 DEF AudioInv
<1> DEFINE tot == index[track][posc].tot
           len == index[track][posc].len
<1>3. posc <= chunks =>
        /\ posc \in 1..chunks /\ tot \in Nat /\ len \in Nat /\ posb \in 0..len /\ tot + posb = byte
        /\ Left = len - posb
        /\ posc # chunks => posc + 1 \in 1..chunks /\ index[track][posc + 1].tot = tot + len
                            /\ index[track][posc + 1].len \in Nat
        /\ posc = chunks => Bytes = tot + len
  <2> SUFFICES ASSUME posc <= chunks
               PROVE  /\ posc \in 1..chunks /\ tot \in Nat /\ len \in Nat /\ posb \in 0..len
                      /\ tot + posb = byte /\ Left = len - posb
                      /\ posc # chunks => posc + 1 \in 1..chunks /\ index[track][posc + 1].tot = tot + len
                                          /\ index[track][posc + 1].len \in Nat
                      /\ posc = chunks => Bytes = tot + len
    OBVIOUS
  <2>1. posc \in 1..chunks /\ (posc # chunks => posc + 1 \in 1..chunks)
    BY <1>1, <1>2
  <2>2. Left = len - posb
    BY DEF Left
  <2>3. tot \in Nat /\ len \in Nat /\ posb \in 0..len /\ tot + posb = byte
    BY <1>1, <1>2, <2>1
  <2>4. tot + len = IF posc = chunks THEN Bytes ELSE index[track][posc + 1].tot
    BY <1>1, <2>1
  <2>5. posc # chunks => index[track][posc + 1].len \in Nat
    BY <1>1, <2>1
  <2> QED
    BY <2>1, <2>2, <2>3, <2>4, <2>5
<1> HIDE DEF tot, len
<1>4. CASE SetAudioPosition
  <2>1. PICK b \in 0..Bytes : /\ posc' = Search(b) + 1 /\ posb' = b - index[track][posc'].tot
                              /\ byte' = b
    BY <1>4 DEF SetAudioPosition
  <2>2. /\ posc' \in 1..chunks /\ want' = 0
        /\ index[track][posc'].tot <= b /\ b <= index[track][posc'].tot + index[track][posc'].len
    BY <1>4, <2>1, SearchIs DEF SetAudioPosition
  <2>3. index[track][posc'].tot \in Nat /\ index[track][posc'].len \in Nat /\ b \in Nat
    BY <1>1, <2>2
  <2>4. posc' \in 1..chunks + 1 /\ ~ (posc' > chunks)
    BY <1>1, <2>2
  <2> DEFINE t == index[track][posc'].tot
             m == index[track][posc'].len
  <2>5. posb' \in 0..m /\ t + posb' = byte'
    <3> HIDE DEF t, m
    <3>1. posb' = b - t /\ t <= b /\ b <= t + m /\ t \in Nat /\ m \in Nat /\ b \in Nat /\ byte' = b
      BY <2>1, <2>2, <2>3 DEF t, m
    <3> QED
      BY <3>1
  <2> QED
    BY <2>1, <2>2, <2>3, <2>4, <2>5
<1>5. CASE ReadAudio
  <2>1. posc <= chunks /\ want' \in Nat
    BY <1>5, AviConstants DEF ReadAudio
  <2>2. posc' = posc /\ posb' = posb /\ byte' = byte
    BY <1>5 DEF ReadAudio
  <2> QED
    BY <1>1, <1>2, <2>1, <2>2
<1>6. CASE ReadPart
  <2>1. posc <= chunks /\ want > 0 /\ posc' = posc
    BY <1>1, <1>2, <1>6 DEF ReadPart
  <2>2. PICK todo \in Nat : /\ todo <= want /\ todo <= len - posb
                            /\ \/ posb' = posb + todo /\ byte' = byte + todo /\ want' = want - todo
                               \/ want' = 0 /\ posb' = posb /\ byte' = byte
    <3> DEFINE todo == IF want < Left THEN want ELSE Left
    <3>1. todo \in Nat /\ todo <= want /\ todo <= len - posb
      BY <1>2, <1>3, <2>1
    <3>2. \/ posb' = posb + todo /\ byte' = byte + todo /\ want' = want - todo
          \/ want' = 0 /\ posb' = posb /\ byte' = byte
      BY <1>6 DEF ReadPart
    <3> QED
      BY <3>1, <3>2
  <2>3. want' \in Nat /\ byte' \in Nat /\ posb' \in 0..len /\ tot + posb' = byte'
    BY <1>2, <1>3, <2>1, <2>2
  <2>4. posc' \in 1..chunks + 1 /\ ~ (posc' > chunks)
    BY <1>1, <1>2, <2>1
  <2> QED
    BY <2>1, <2>3, <2>4 DEF tot, len
<1>7. CASE NextChunk
  <2>1. posc <= chunks /\ want > 0 /\ Left = 0 /\ byte' = byte
    BY <1>1, <1>2, <1>7 DEF NextChunk
  <2>2. posb = len
    BY <1>3, <2>1
  <2>3. CASE posc >= chunks
    <3>1. posc' = posc /\ posb' = posb /\ want' = 0
      BY <1>7, <2>3 DEF NextChunk
    <3> QED
      BY <1>1, <1>2, <2>1, <3>1
  <2>4. CASE ~ (posc >= chunks)
    <3>1. posc' = posc + 1 /\ posb' = 0 /\ want' = want
      BY <1>7, <2>4 DEF NextChunk
    <3>2. posc # chunks
      BY <1>1, <1>2, <2>4
    <3>3. posc' \in 1..chunks /\ index[track][posc'].tot = byte /\ index[track][posc'].len \in Nat
      BY <1>3, <2>1, <2>2, <3>1, <3>2
    <3>4. posc' \in 1..chunks + 1 /\ ~ (posc' > chunks)
      BY <1>1, <3>3
    <3> QED
      BY <1>2, <2>1, <3>1, <3>3, <3>4
  <2> QED
    BY <2>3, <2>4
<1>8. CASE ReadChunk
  <2>1. posc <= chunks /\ want = 0 /\ want' = 0
    BY <1>8 DEF ReadChunk
  <2>2. CASE Left = 0 \/ InFile(Left)
    <3>1. posc' = posc + 1 /\ posb' = 0 /\ byte' = byte + Left
      BY <1>8, <2>2 DEF ReadChunk
    <3>2. byte' = tot + len /\ byte' \in Nat
      BY <1>2, <1>3, <2>1, <3>1
    <3>3. CASE posc = chunks
      <4>1. posc' > chunks /\ posc' \in 1..chunks + 1 /\ byte' = Bytes
        BY <1>1, <1>3, <2>1, <3>1, <3>2, <3>3
      <4> QED
        BY <2>1, <3>2, <4>1
    <3>4. CASE posc # chunks
      <4>1. posc' \in 1..chunks /\ index[track][posc'].tot = byte' /\ index[track][posc'].len \in Nat
        BY <1>3, <2>1, <3>1, <3>2, <3>4
      <4>2. posc' \in 1..chunks + 1 /\ ~ (posc' > chunks)
        BY <1>1, <4>1
      <4> QED
        BY <2>1, <3>1, <3>2, <4>1, <4>2
    <3> QED
      BY <3>3, <3>4
  <2>3. CASE ~ (Left = 0 \/ InFile(Left))
    <3>1. posc' = posc /\ posb' = posb /\ byte' = byte
      BY <1>8, <2>3 DEF ReadChunk
    <3> QED
      BY <1>1, <1>2, <2>1, <3>1
  <2> QED
    BY <2>2, <2>3
<1> QED
  BY <1>4, <1>5, <1>6, <1>7, <1>8
-----------------------------------------------------------------------------
(* Files and indices *)

Tags     == {"data", "ix", "idx1", "RIFF"}
StdEntry == [off : Int, len : Nat]
OldEntry == [stream : Streams, pos : Nat, len : Nat]
ChunkType == [tag : Tags, len : Nat, stream : Streams, no : Nat, base : Nat,
              entries : Seq(StdEntry) \cup Seq(OldEntry)]
Placed   == [pos : Nat, chunk : ChunkType]
StdType  == [base : Nat, entries : Seq(StdEntry), offset : Nat]
Supers   == [Streams -> Seq(StdType)]
Work     == [file : Seq(Placed), pos : Nat, super : Supers]

\* The chunks of f lie one behind the other before p, at even positions.
Tiled(f, p) ==
  /\ p % 2 = 0 /\ p >= HeaderBytes
  /\ \A i \in 1..Len(f) : f[i].pos + 8 + Even(f[i].chunk.len) <= p
  /\ \A i, j \in 1..Len(f) : i < j => f[i].pos + 8 + Even(f[i].chunk.len) <= f[j].pos

\* g begins with the chunks of f.
Extends(f, g) == Len(f) <= Len(g) /\ \A i \in 1..Len(f) : g[i] = f[i]

\* g is f with indices behind it.
Indexed(f, g) ==
  /\ Extends(f, g)
  /\ \A i \in Len(f) + 1..Len(g) : g[i].chunk.tag \in {"ix", "idx1"}
  /\ OfTag(g, "data") = OfTag(f, "data") /\ OfTag(g, "RIFF") = OfTag(f, "RIFF")

\* The chunk c is at p; no chunk of data is at p.
At(f, p, c)  == \E i \in 1..Len(f) : f[i].pos = p /\ f[i].chunk = c
NoData(f, p) == \A i \in 1..Len(f) : f[i].pos = p => f[i].chunk.tag # "data"

\* Rounding up to an even number.
LEMMA EvenIs ==
  \A n \in Nat : Even(n) \in Nat /\ Even(n) % 2 = 0 /\ Even(n) >= n /\ (n % 2 = 0 => Even(n) = n)
BY DEF Even

\* The streams are numbered from 0.
LEMMA StreamsAre ==
  /\ Cardinality(Streams) \in Nat /\ Streams = 0..Cardinality(Streams) - 1
  /\ Video \in Streams /\ 0 \in Streams
<1> DEFINE n == Cardinality(Tracks)
<1>1. n \in Nat /\ IsFiniteSet(Tracks) /\ Tracks = 1..n
  BY AviConstants, FS_CardinalityType
<1>2. Streams = 0..n
  <2> HIDE DEF n
  <2>1. {0} \cup 1..n = 0..n
    BY <1>1
  <2> QED
    BY <1>1, <2>1 DEF Streams, Video
<1>3. Cardinality(Streams) = n + 1
  <2> HIDE DEF n
  <2>1. \A a, b \in Int : Cardinality(a..b) = IF a > b THEN 0 ELSE b - a + 1
    BY FS_Interval
  <2> QED
    BY <1>1, <1>2, <2>1
<1> HIDE DEF n
<1> QED
  BY <1>1, <1>2, <1>3 DEF Video

\* The chunks of a file one after the other are those at one position.
LEMMA OneAtPosition ==
  ASSUME NEW f \in Seq(Placed), NEW p, Tiled(f, p), NEW i \in 1..Len(f), NEW j \in 1..Len(f),
         f[i].pos = f[j].pos
  PROVE  i = j
<1>1. \A k \in 1..Len(f) : f[k].pos \in Nat /\ f[k].chunk.len \in Nat
  <2>1. \A k \in 1..Len(f) : f[k] \in Placed
    OBVIOUS
  <2> QED
    BY <2>1 DEF Placed, ChunkType
<1>2. i \in Nat /\ j \in Nat
  OBVIOUS
<1>3. Even(f[i].chunk.len) \in Nat /\ Even(f[j].chunk.len) \in Nat
  BY <1>1, EvenIs
<1>4. ~ (i < j)
  BY <1>1, <1>3 DEF Tiled
<1>5. ~ (j < i)
  BY <1>1, <1>3 DEF Tiled
<1> QED
  BY <1>2, <1>4, <1>5

\* The elements with a tag, after one more chunk.
LEMMA OfTagAppend ==
  ASSUME NEW f \in Seq(Placed), NEW x \in Placed, NEW tag
  PROVE  /\ OfTag(f, tag) \in Seq(Placed)
         /\ OfTag(Append(f, x), tag) = IF x.chunk.tag = tag THEN Append(OfTag(f, tag), x) ELSE OfTag(f, tag)
<1> DEFINE n == Len(f)
           m == Append(f, x)
           I == {i \in DOMAIN f : f[i].chunk.tag = tag}
           J == {i \in DOMAIN m : m[i].chunk.tag = tag}
<1>1. n \in Nat /\ DOMAIN f = 1..n /\ DOMAIN m = 1..n + 1 /\ m[n + 1] = x
      /\ \A i \in 1..n : m[i] = f[i]
  OBVIOUS
<1>2. (n + 1 \in J <=> x.chunk.tag = tag) /\ \A i \in 1..n : i \in I <=> i \in J
  BY <1>1
<1> HIDE DEF I, J
<1>3. /\ Pick(f, I) \in Seq(Placed)
      /\ Pick(Append(f, x), J) = IF Len(f) + 1 \in J THEN Append(Pick(f, I), x) ELSE Pick(f, I)
  <2>1. \A i \in 1..Len(f) : i \in I <=> i \in J
    BY <1>2
  <2> QED
    BY <2>1, PickAppend
<1> QED
  BY <1>2, <1>3 DEF OfTag, I, J

\* A stream's elements, after one more entry.
LEMMA OfStreamAppend ==
  ASSUME NEW l \in Seq(OldEntry), NEW x \in OldEntry, NEW s
  PROVE  /\ OfStream(l, s) \in Seq(OldEntry)
         /\ OfStream(Append(l, x), s) = IF x.stream = s THEN Append(OfStream(l, s), x) ELSE OfStream(l, s)
<1> DEFINE n == Len(l)
           m == Append(l, x)
           I == {i \in DOMAIN l : l[i].stream = s}
           J == {i \in DOMAIN m : m[i].stream = s}
<1>1. n \in Nat /\ DOMAIN l = 1..n /\ DOMAIN m = 1..n + 1 /\ m[n + 1] = x
      /\ \A i \in 1..n : m[i] = l[i]
  OBVIOUS
<1>2. (n + 1 \in J <=> x.stream = s) /\ \A i \in 1..n : i \in I <=> i \in J
  BY <1>1
<1> HIDE DEF I, J
<1>3. /\ Pick(l, I) \in Seq(OldEntry)
      /\ Pick(Append(l, x), J) = IF Len(l) + 1 \in J THEN Append(Pick(l, I), x) ELSE Pick(l, I)
  <2>1. \A i \in 1..Len(l) : i \in I <=> i \in J
    BY <1>2
  <2> QED
    BY <2>1, PickAppend
<1> QED
  BY <1>2, <1>3 DEF OfStream, I, J
\* What is known of a file is known of one that extends it.
LEMMA AtExtends ==
  ASSUME NEW f, NEW g, NEW h, Len(f) \in Nat, Len(g) \in Nat, Len(h) \in Nat, Extends(f, g)
  PROVE  /\ \A p, c : At(f, p, c) => At(g, p, c)
         /\ Extends(g, h) => Extends(f, h)
         /\ Extends(f, f)
BY DEF At, Extends

LEMMA IndexedExtends ==
  ASSUME NEW f, NEW g, NEW h, Len(f) \in Nat, Len(g) \in Nat, Len(h) \in Nat, Indexed(f, g)
  PROVE  /\ \A p : NoData(f, p) => NoData(g, p)
         /\ Indexed(g, h) => Indexed(f, h)
         /\ Indexed(f, f)
<1>1. ASSUME NEW p, NoData(f, p) PROVE NoData(g, p)
  <2> SUFFICES ASSUME NEW i \in 1..Len(g), g[i].pos = p PROVE g[i].chunk.tag # "data"
    BY DEF NoData
  <2>1. i \in 1..Len(f) \/ i \in Len(f) + 1..Len(g)
    OBVIOUS
  <2>2. CASE i \in 1..Len(f)
    BY <1>1, <2>2 DEF NoData, Indexed, Extends
  <2>3. CASE i \in Len(f) + 1..Len(g)
    BY <2>3 DEF Indexed
  <2> QED
    BY <2>1, <2>2, <2>3
<1>2. ASSUME Indexed(g, h) PROVE Indexed(f, h)
  <2>1. Extends(f, h)
    BY <1>2, AtExtends DEF Indexed
  <2>2. ASSUME NEW i \in Len(f) + 1..Len(h) PROVE h[i].chunk.tag \in {"ix", "idx1"}
    <3>1. i \in Len(f) + 1..Len(g) \/ i \in Len(g) + 1..Len(h)
      OBVIOUS
    <3>2. CASE i \in Len(g) + 1..Len(h)
      BY <1>2, <3>2 DEF Indexed
    <3>3. CASE i \in Len(f) + 1..Len(g)
      <4>1. i \in 1..Len(g)
        BY <3>3
      <4> QED
        BY <1>2, <3>3, <4>1 DEF Indexed, Extends
    <3> QED
      BY <3>1, <3>2, <3>3
  <2> QED
    BY <1>2, <2>1, <2>2 DEF Indexed
<1>3. Indexed(f, f)
  BY AtExtends DEF Indexed, Extends
<1> QED
  BY <1>1, <1>2, <1>3

\* A chunk put at the end of the file.
LEMMA PutIs ==
  ASSUME NEW f \in Seq(Placed), NEW p \in Nat, NEW c \in ChunkType, Tiled(f, p), NEW g,
         g = Append(f, [pos |-> p, chunk |-> c])
  PROVE  /\ g \in Seq(Placed) /\ p + 8 + Even(c.len) \in Nat /\ Tiled(g, p + 8 + Even(c.len))
         /\ Extends(f, g) /\ At(g, p, c)
         /\ c.tag \in {"ix", "idx1"} => Indexed(f, g)
<1> DEFINE x == [pos |-> p, chunk |-> c]
           n == Len(f)
           q == p + 8 + Even(c.len)
<1>1. x \in Placed /\ x.pos = p /\ x.chunk = c
  BY DEF Placed
<1>2. n \in Nat /\ g \in Seq(Placed) /\ Len(g) = n + 1 /\ g[n + 1] = x /\ \A i \in 1..n : g[i] = f[i]
  BY <1>1
<1>3. c.len \in Nat
  BY DEF ChunkType
<1>4. Even(c.len) \in Nat /\ Even(c.len) % 2 = 0
  BY <1>3, EvenIs
<1>5. q \in Nat /\ q > p /\ q % 2 = 0 /\ q >= HeaderBytes
  <2>1. p % 2 = 0 /\ p >= HeaderBytes /\ HeaderBytes \in Nat
    BY AviConstants DEF Tiled
  <2> DEFINE e == Even(c.len)
  <2>2. e \in Nat /\ e % 2 = 0
    BY <1>4
  <2> HIDE DEF e
  <2>3. p + 8 + e \in Nat /\ p + 8 + e > p /\ (p + 8 + e) % 2 = 0 /\ p + 8 + e >= HeaderBytes
    BY <2>1, <2>2
  <2> QED
    BY <2>3 DEF e
<1>6. \A i \in 1..n : f[i].pos \in Nat /\ f[i].chunk.len \in Nat
  <2>1. \A i \in 1..n : f[i] \in Placed
    OBVIOUS
  <2> QED
    BY <2>1 DEF Placed, ChunkType
<1>7. \A i \in 1..n : Even(f[i].chunk.len) \in Nat
  BY <1>6, EvenIs
<1> DEFINE end(i) == f[i].pos + 8 + Even(f[i].chunk.len)
<1>8. \A i \in 1..n : end(i) \in Nat /\ end(i) <= p
  BY <1>6, <1>7 DEF Tiled
<1>9. Tiled(g, q)
  <2>1. ASSUME NEW i \in 1..Len(g) PROVE g[i].pos + 8 + Even(g[i].chunk.len) <= q
    <3>1. CASE i \in 1..n
      <4>1. g[i].pos + 8 + Even(g[i].chunk.len) = end(i)
        BY <1>2, <3>1
      <4>2. end(i) \in Nat /\ end(i) <= p
        BY <1>8, <3>1
      <4> DEFINE e == end(i)
      <4>4. e \in Nat /\ e <= p
        BY <4>2
      <4> HIDE DEF e, q
      <4>3. e <= q
        BY <1>5, <4>4
      <4> QED
        BY <4>1, <4>3 DEF e
    <3>2. CASE i = n + 1
      <4>1. g[i].pos + 8 + Even(g[i].chunk.len) = q
        BY <1>1, <1>2, <3>2
      <4> QED
        BY <1>5, <4>1
    <3> QED
      BY <1>2, <3>1, <3>2
  <2>2. ASSUME NEW i \in 1..Len(g), NEW j \in 1..Len(g), i < j
        PROVE  g[i].pos + 8 + Even(g[i].chunk.len) <= g[j].pos
    <3>1. i \in 1..n /\ (j \in 1..n \/ j = n + 1)
      BY <1>2, <2>2
    <3>2. g[i].pos + 8 + Even(g[i].chunk.len) = end(i)
      BY <1>2, <3>1
    <3>3. CASE j \in 1..n
      <4>1. end(i) <= f[j].pos
        BY <2>2, <3>1, <3>3 DEF Tiled
      <4> QED
        BY <1>2, <3>2, <3>3, <4>1
    <3>4. CASE j = n + 1
      <4>1. g[j].pos = p
        BY <1>1, <1>2, <3>4
      <4> QED
        BY <1>8, <3>1, <3>2, <4>1
    <3> QED
      BY <3>1, <3>3, <3>4
  <2> QED
    BY <1>5, <2>1, <2>2 DEF Tiled
<1>10. Extends(f, g)
  BY <1>2 DEF Extends
<1>11. At(g, p, c)
  <2>1. n + 1 \in 1..Len(g) /\ g[n + 1].pos = p /\ g[n + 1].chunk = c
    BY <1>1, <1>2
  <2> QED
    BY <2>1 DEF At
<1>12. ASSUME c.tag \in {"ix", "idx1"} PROVE Indexed(f, g)
  <2>1. g = Append(f, x)
    OBVIOUS
  <2>2. OfTag(g, "data") = OfTag(f, "data") /\ OfTag(g, "RIFF") = OfTag(f, "RIFF")
    <3>1. \A tag : OfTag(Append(f, x), tag) = IF x.chunk.tag = tag THEN Append(OfTag(f, tag), x) ELSE OfTag(f, tag)
      BY <1>1, OfTagAppend
    <3> HIDE DEF x
    <3>2. x.chunk.tag # "data" /\ x.chunk.tag # "RIFF"
      BY <1>1, <1>12
    <3> QED
      BY <2>1, <3>1, <3>2
  <2>3. \A i \in n + 1..Len(g) : g[i].chunk.tag \in {"ix", "idx1"}
    <3>1. \A i \in n + 1..Len(g) : i = n + 1
      BY <1>2
    <3> QED
      BY <1>1, <1>2, <1>12, <3>1
  <2> QED
    BY <1>10, <2>2, <2>3 DEF Indexed
<1> QED
  BY <1>2, <1>5, <1>9, <1>10, <1>11, <1>12

\* avi_add_chunk.
LEMMA AddChunkIs ==
  ASSUME NEW w \in Work, NEW c \in ChunkType, Tiled(w.file, w.pos), NEW ok \in BOOLEAN
  PROVE  LET v == AddChunk(w, c, ok)
         IN  /\ v \in Work /\ v.super = w.super /\ Tiled(v.file, v.pos) /\ Extends(w.file, v.file)
             /\ ok => /\ v.file = Append(w.file, [pos |-> w.pos, chunk |-> c])
                      /\ v.pos = w.pos + 8 + Even(c.len) /\ At(v.file, w.pos, c)
             /\ ~ok => v = w
             /\ c.tag \in {"ix", "idx1"} => Indexed(w.file, v.file)
<1> DEFINE v == AddChunk(w, c, ok)
<1>1. w.file \in Seq(Placed) /\ w.pos \in Nat /\ w.super \in Supers /\ w = [file |-> w.file, pos |-> w.pos, super |-> w.super]
  BY DEF Work
<1>2. Len(w.file) \in Nat
  BY <1>1
<1>3. CASE ok
  <2> DEFINE f == Append(w.file, [pos |-> w.pos, chunk |-> c])
             q == w.pos + 8 + Even(c.len)
  <2>1. v = [file |-> f, pos |-> q, super |-> w.super]
    BY <1>1, <1>3 DEF AddChunk
  <2> HIDE DEF f, q
  <2>2. v.file = f /\ v.pos = q /\ v.super = w.super
    BY <2>1
  <2>3. /\ f \in Seq(Placed) /\ q \in Nat /\ Tiled(f, q)
        /\ Extends(w.file, f) /\ At(f, w.pos, c)
        /\ c.tag \in {"ix", "idx1"} => Indexed(w.file, f)
    BY <1>1, PutIs DEF f, q
  <2>4. v \in Work
    BY <1>1, <2>1, <2>3 DEF Work
  <2> QED
    BY <1>3, <2>2, <2>3, <2>4 DEF f, q
<1>4. CASE ~ok
  <2>1. v = w
    BY <1>4 DEF AddChunk
  <2>2. Extends(w.file, w.file) /\ Indexed(w.file, w.file)
    BY <1>2, AtExtends, IndexedExtends DEF Indexed, Extends
  <2> QED
    BY <1>4, <2>1, <2>2
<1> QED
  BY <1>3, <1>4
\* The index chunk of a stream that its superindex points to.
IxOf(s, std) == Index("ix", s, std.base, std.entries, 24 + 8 * Len(std.entries))

\* The chunks that are written are chunks.
LEMMA ChunksAre ==
  /\ \A s \in Streams, std \in StdType : IxOf(s, std) \in ChunkType /\ IxOf(s, std).tag = "ix"
  /\ \A l \in Seq(OldEntry) : /\ OldIndex(l) \in ChunkType
                              /\ OldIndex(l).tag = "idx1" /\ OldIndex(l).len = 16 * Len(l)
  /\ Chunk("RIFF", 16) \in ChunkType /\ Chunk("RIFF", 16).tag = "RIFF"
  /\ \A s \in Streams, len \in Nat, no \in Nat :
       /\ DataChunk(s, len, no) \in ChunkType /\ DataChunk(s, len, no).tag = "data"
       /\ DataChunk(s, len, no).stream = s /\ DataChunk(s, len, no).len = len /\ DataChunk(s, len, no).no = no
<1>1. 0 \in Streams /\ Video \in Streams /\ 0 \in Nat
  BY StreamsAre
<1>2. <<>> \in Seq(StdEntry)
  OBVIOUS
<1>3. \A tag \in Tags, len \in Nat : Chunk(tag, len) \in ChunkType
  BY <1>1, <1>2 DEF Chunk, ChunkType
<1>4. \A tag \in Tags, len \in Nat, s \in Streams, base \in Nat, l \in Seq(StdEntry) \cup Seq(OldEntry) :
        /\ Index(tag, s, base, l, len) = [tag |-> tag, len |-> len, stream |-> s, no |-> 0, base |-> base, entries |-> l]
        /\ Index(tag, s, base, l, len) \in ChunkType
  <2> SUFFICES ASSUME NEW tag \in Tags, NEW len \in Nat, NEW s \in Streams, NEW base \in Nat,
                      NEW l \in Seq(StdEntry) \cup Seq(OldEntry)
               PROVE  /\ Index(tag, s, base, l, len) = [tag |-> tag, len |-> len, stream |-> s, no |-> 0, base |-> base, entries |-> l]
                      /\ Index(tag, s, base, l, len) \in ChunkType
    OBVIOUS
  <2> DEFINE a == [tag |-> tag, len |-> len, stream |-> 0, no |-> 0, base |-> 0, entries |-> <<>>]
             b == [tag |-> tag, len |-> len, stream |-> s, no |-> 0, base |-> 0, entries |-> <<>>]
             c == [tag |-> tag, len |-> len, stream |-> s, no |-> 0, base |-> base, entries |-> <<>>]
             r == [tag |-> tag, len |-> len, stream |-> s, no |-> 0, base |-> base, entries |-> l]
  <2>1. Index(tag, s, base, l, len) = r
    <3>1. Chunk(tag, len) = a /\ [a EXCEPT !.stream = s] = b
      BY DEF Chunk
    <3>2. [b EXCEPT !.base = base] = c
      OBVIOUS
    <3>3. [c EXCEPT !.entries = l] = r
      OBVIOUS
    <3>4. Index(tag, s, base, l, len) =
            [[[Chunk(tag, len) EXCEPT !.stream = s] EXCEPT !.base = base] EXCEPT !.entries = l]
      BY DEF Index
    <3> HIDE DEF a, b, c, r
    <3> QED
      BY <3>1, <3>2, <3>3, <3>4
  <2>2. r \in ChunkType
    BY <1>1 DEF ChunkType
  <2> QED
    BY <2>1, <2>2
<1>5. "ix" \in Tags /\ "idx1" \in Tags /\ "RIFF" \in Tags /\ "data" \in Tags
  BY DEF Tags
<1>6. ASSUME NEW s \in Streams, NEW std \in StdType
      PROVE  IxOf(s, std) \in ChunkType /\ IxOf(s, std).tag = "ix"
  <2>1. std.base \in Nat /\ std.entries \in Seq(StdEntry)
    BY DEF StdType
  <2> DEFINE len == 24 + 8 * Len(std.entries)
  <2>2. len \in Nat
    BY <2>1
  <2> HIDE DEF len
  <2>3. Index("ix", s, std.base, std.entries, len) \in ChunkType
        /\ Index("ix", s, std.base, std.entries, len).tag = "ix"
    <3>1. std.entries \in Seq(StdEntry) \cup Seq(OldEntry)
      BY <2>1
    <3> DEFINE e == std.entries
               b == std.base
    <3>2. e \in Seq(StdEntry) \cup Seq(OldEntry) /\ b \in Nat /\ "ix" \in Tags
      BY <1>5, <2>1, <3>1
    <3> HIDE DEF e, b
    <3>3. /\ Index("ix", s, b, e, len) \in ChunkType
          /\ Index("ix", s, b, e, len) = [tag |-> "ix", len |-> len, stream |-> s, no |-> 0, base |-> b, entries |-> e]
      BY <1>4, <2>2, <3>2
    <3>4. Index("ix", s, b, e, len).tag = "ix"
      BY <3>3
    <3> QED
      BY <3>3, <3>4 DEF b, e
  <2> QED
    BY <2>3 DEF IxOf, len
<1>7. ASSUME NEW l \in Seq(OldEntry)
      PROVE  OldIndex(l) \in ChunkType /\ OldIndex(l).tag = "idx1" /\ OldIndex(l).len = 16 * Len(l)
  <2> DEFINE len == 16 * Len(l)
  <2>1. len \in Nat
    OBVIOUS
  <2> HIDE DEF len
  <2>2. Index("idx1", Video, 0, l, len) \in ChunkType
        /\ Index("idx1", Video, 0, l, len).tag = "idx1" /\ Index("idx1", Video, 0, l, len).len = len
    <3>1. l \in Seq(StdEntry) \cup Seq(OldEntry) /\ "idx1" \in Tags /\ Video \in Streams /\ 0 \in Nat
      BY <1>1, <1>5
    <3>2. /\ Index("idx1", Video, 0, l, len) \in ChunkType
          /\ Index("idx1", Video, 0, l, len) =
               [tag |-> "idx1", len |-> len, stream |-> Video, no |-> 0, base |-> 0, entries |-> l]
      BY <1>4, <2>1, <3>1
    <3> QED
      BY <3>2
  <2> QED
    BY <2>2 DEF OldIndex, len
<1>8. ASSUME NEW s \in Streams, NEW len \in Nat, NEW no \in Nat
      PROVE  /\ DataChunk(s, len, no) \in ChunkType /\ DataChunk(s, len, no).tag = "data"
             /\ DataChunk(s, len, no).stream = s /\ DataChunk(s, len, no).len = len /\ DataChunk(s, len, no).no = no
  <2>1. DataChunk(s, len, no) = [tag |-> "data", len |-> len, stream |-> s, no |-> no, base |-> 0, entries |-> <<>>]
    <3> DEFINE a == [tag |-> "data", len |-> len, stream |-> 0, no |-> 0, base |-> 0, entries |-> <<>>]
               b == [tag |-> "data", len |-> len, stream |-> s, no |-> 0, base |-> 0, entries |-> <<>>]
               c == [tag |-> "data", len |-> len, stream |-> s, no |-> no, base |-> 0, entries |-> <<>>]
    <3>1. Chunk("data", len) = a /\ [a EXCEPT !.stream = s] = b
      BY DEF Chunk
    <3>2. [b EXCEPT !.no = no] = c
      OBVIOUS
    <3>3. DataChunk(s, len, no) = [[Chunk("data", len) EXCEPT !.stream = s] EXCEPT !.no = no]
      BY DEF DataChunk
    <3> HIDE DEF a, b
    <3> QED
      BY <3>1, <3>2, <3>3
  <2> QED
    BY <1>1, <1>2, <1>5, <2>1 DEF ChunkType
<1>9. Chunk("RIFF", 16) \in ChunkType /\ Chunk("RIFF", 16).tag = "RIFF"
  BY <1>3, <1>5 DEF Chunk
<1> QED
  BY <1>6, <1>7, <1>8, <1>9

\* Only the position where the k-th index lies differs.
Moved(l, m, k) ==
  /\ Len(m) = Len(l)
  /\ \A j \in 1..Len(l) : m[j].base = l[j].base /\ m[j].entries = l[j].entries
  /\ \A j \in 1..Len(l) : j # k => m[j] = l[j]

\* The k-th indices of the first n streams have been written.
IndicesWritten(w, v, n, k, ok) ==
  /\ v \in Work /\ Tiled(v.file, v.pos) /\ Indexed(w.file, v.file)
  /\ ~ok => v.file = w.file /\ v.pos = w.pos
  /\ \A t \in Streams : ~ (t < n) \/ w.super[t] = <<>> => v.super[t] = w.super[t]
  /\ \A t \in Streams : t < n /\ w.super[t] # <<>> =>
       /\ Moved(w.super[t], v.super[t], k)
       /\ IF ok THEN At(v.file, v.super[t][k].offset, IxOf(t, w.super[t][k]))
                ELSE v.super[t][k].offset = w.pos

\* avi_ixnn_entry.
LEMMA WriteIndexIs ==
  ASSUME NEW w \in Work, Tiled(w.file, w.pos), NEW ok \in BOOLEAN, NEW s \in Streams, NEW k,
         w.super[s] # <<>>, k \in 1..Len(w.super[s]), NEW v, v = WriteIndex(w, s, k, ok)
  PROVE  /\ v \in Work /\ Tiled(v.file, v.pos) /\ Indexed(w.file, v.file)
         /\ ~ok => v.file = w.file /\ v.pos = w.pos
         /\ \A t \in Streams : t # s => v.super[t] = w.super[t]
         /\ Moved(w.super[s], v.super[s], k) /\ v.super[s][k].offset = w.pos
         /\ ok => At(v.file, w.pos, IxOf(s, w.super[s][k]))
<1> DEFINE std == w.super[s][k]
           l == [w.super[s] EXCEPT ![k] = [@ EXCEPT !.offset = w.pos]]
           sup == [w.super EXCEPT ![s] = l]
           x == [w EXCEPT !.super = sup]
<1>1. w.file \in Seq(Placed) /\ w.pos \in Nat /\ w.super \in Supers
  BY DEF Work
<1>2. w.super[s] \in Seq(StdType) /\ std \in StdType
  BY <1>1 DEF Supers
<1>3. std.base \in Nat /\ std.entries \in Seq(StdEntry) /\ std.offset \in Nat
      /\ [std EXCEPT !.offset = w.pos] \in StdType
      /\ [std EXCEPT !.offset = w.pos].base = std.base
      /\ [std EXCEPT !.offset = w.pos].entries = std.entries
      /\ [std EXCEPT !.offset = w.pos].offset = w.pos
  <2>1. std \in [base : Nat, entries : Seq(StdEntry), offset : Nat]
    BY <1>2 DEF StdType
  <2> HIDE DEF std
  <2> QED
    BY <1>1, <2>1 DEF StdType
<1> DEFINE new == [std EXCEPT !.offset = w.pos]
<1>4. l = [w.super[s] EXCEPT ![k] = new]
  OBVIOUS
<1> HIDE DEF l, new
<1>5. l \in Seq(StdType) /\ Len(l) = Len(w.super[s]) /\ l[k] = new /\ \A j \in 1..Len(l) : j # k => l[j] = w.super[s][j]
  BY <1>2, <1>3, <1>4 DEF new
<1>6. Moved(w.super[s], l, k) /\ l[k].offset = w.pos
  BY <1>3, <1>5 DEF Moved, new
<1>7. x \in Work /\ x.file = w.file /\ x.pos = w.pos /\ x.super = sup
  BY <1>1, <1>5 DEF Work, Supers
<1>8. sup[s] = l /\ \A t \in Streams : t # s => sup[t] = w.super[t]
  BY <1>1 DEF Supers
<1>9. v = AddChunk(x, IxOf(s, std), ok)
  <2>1. x = [w EXCEPT !.super[s][k].offset = w.pos]
    BY DEF l, Work
  <2> HIDE DEF x
  <2> QED
    BY <2>1 DEF WriteIndex, IxOf
<1>10. IxOf(s, std) \in ChunkType /\ IxOf(s, std).tag = "ix"
  BY <1>2, ChunksAre
<1> HIDE DEF x, std
<1>11. /\ v \in Work /\ v.super = x.super /\ Tiled(v.file, v.pos)
       /\ ok => At(v.file, x.pos, IxOf(s, std))
       /\ ~ok => v = x
       /\ Indexed(x.file, v.file)
  <2>1. Tiled(x.file, x.pos)
    BY <1>7
  <2> DEFINE c == IxOf(s, std)
  <2>2. c \in ChunkType /\ c.tag \in {"ix", "idx1"} /\ v = AddChunk(x, c, ok) /\ x \in Work
    BY <1>7, <1>9, <1>10
  <2> HIDE DEF c, sup
  <2>3. /\ v \in Work /\ Tiled(v.file, v.pos)
        /\ ok => At(v.file, x.pos, c)
        /\ ~ok => v = x
        /\ Indexed(x.file, v.file)
    BY <2>1, <2>2, AddChunkIs
  <2>4. v.super = x.super
    <3>1. \A y \in Work, d \in ChunkType : Tiled(y.file, y.pos) => AddChunk(y, d, ok).super = y.super
      BY AddChunkIs
    <3> QED
      BY <2>1, <2>2, <3>1
  <2> QED
    BY <2>3, <2>4 DEF c
<1> QED
  BY <1>6, <1>7, <1>8, <1>11 DEF std
\* After one more stream.
LEMMA IndicesStep ==
  ASSUME NEW w \in Work, NEW ok \in BOOLEAN, NEW k,
         \A t \in Streams : w.super[t] # <<>> => k \in 1..Len(w.super[t]),
         NEW n \in Streams, NEW v, IndicesWritten(w, v, n, k, ok)
  PROVE  IndicesWritten(w, WriteIndex(v, n, k, ok), n + 1, k, ok)
<1> DEFINE x == WriteIndex(v, n, k, ok)
<1>1. n \in Nat /\ \A t \in Streams : t \in Nat /\ (t < n + 1 <=> t < n \/ t = n)
  BY StreamsAre
<1>2. v.super[n] = w.super[n] /\ v \in Work /\ Tiled(v.file, v.pos) /\ Indexed(w.file, v.file)
      /\ (~ok => v.file = w.file /\ v.pos = w.pos)
  BY <1>1 DEF IndicesWritten
<1>3. CASE w.super[n] = <<>>
  <2>1. x = v
    BY <1>2, <1>3 DEF WriteIndex
  <2> HIDE DEF x
  <2> QED
    BY <1>1, <1>3, <2>1 DEF IndicesWritten, x
<1>4. CASE w.super[n] # <<>>
  <2>1. k \in 1..Len(v.super[n]) /\ v.super[n] # <<>>
    BY <1>2, <1>4
  <2> HIDE DEF x
  <2>2. /\ x \in Work /\ Tiled(x.file, x.pos) /\ Indexed(v.file, x.file)
        /\ ~ok => x.file = v.file /\ x.pos = v.pos
        /\ \A t \in Streams : t # n => x.super[t] = v.super[t]
        /\ Moved(v.super[n], x.super[n], k) /\ x.super[n][k].offset = v.pos
        /\ ok => At(x.file, v.pos, IxOf(n, v.super[n][k]))
    BY <1>2, <2>1, WriteIndexIs DEF x
  <2>3. Len(w.file) \in Nat /\ Len(v.file) \in Nat /\ Len(x.file) \in Nat
    <3>1. \A y \in Work : Len(y.file) \in Nat
      BY DEF Work
    <3> QED
      BY <1>2, <2>2, <3>1
  <2>4. Indexed(w.file, x.file)
    BY <1>2, <2>2, <2>3, IndexedExtends
  <2>5. \A p, c : At(v.file, p, c) => At(x.file, p, c)
    <3>1. Extends(v.file, x.file)
      BY <2>2 DEF Indexed
    <3> QED
      BY <2>3, <3>1, AtExtends
  <2>6. ASSUME NEW t \in Streams, ~ (t < n + 1) \/ w.super[t] = <<>> PROVE x.super[t] = w.super[t]
    <3>1. t # n /\ (~ (t < n) \/ w.super[t] = <<>>)
      BY <1>1, <1>4, <2>6
    <3>2. x.super[t] = v.super[t]
      BY <2>2, <3>1
    <3>3. v.super[t] = w.super[t]
      BY <3>1 DEF IndicesWritten
    <3> QED
      BY <3>2, <3>3
  <2>7. ASSUME NEW t \in Streams, t < n + 1, w.super[t] # <<>>
        PROVE  /\ Moved(w.super[t], x.super[t], k)
               /\ IF ok THEN At(x.file, x.super[t][k].offset, IxOf(t, w.super[t][k]))
                        ELSE x.super[t][k].offset = w.pos
    <3>1. CASE t = n
      BY <1>2, <2>2, <3>1
    <3>2. CASE t # n
      <4>1. t < n
        BY <1>1, <2>7, <3>2
      <4>2. x.super[t] = v.super[t]
        BY <2>2, <3>2
      <4>3. /\ Moved(w.super[t], v.super[t], k)
            /\ IF ok THEN At(v.file, v.super[t][k].offset, IxOf(t, w.super[t][k]))
                     ELSE v.super[t][k].offset = w.pos
        BY <2>7, <4>1 DEF IndicesWritten
      <4>4. CASE ok
        BY <2>5, <4>2, <4>3, <4>4
      <4>5. CASE ~ok
        BY <4>2, <4>3, <4>5
      <4> QED
        BY <4>4, <4>5
    <3> QED
      BY <3>1, <3>2
  <2>8. ~ok => x.file = w.file /\ x.pos = w.pos
    BY <1>2, <2>2
  <2>9. IndicesWritten(w, x, n + 1, k, ok)
    BY <2>2, <2>4, <2>6, <2>7, <2>8 DEF IndicesWritten
  <2> QED
    BY <2>9 DEF x
<1> QED
  BY <1>3, <1>4

\* The indices of all the streams.
LEMMA WriteIndicesIs ==
  ASSUME NEW w \in Work, Tiled(w.file, w.pos), NEW ok \in BOOLEAN, NEW k,
         \A t \in Streams : w.super[t] # <<>> => k \in 1..Len(w.super[t])
  PROVE  IndicesWritten(w, WriteIndices(w, k, ok), Cardinality(Streams), k, ok)
<1> DEFINE N == Cardinality(Streams)
           S == {v \in Work : \E n \in 0..N : IndicesWritten(w, v, n, k, ok)}
           Good(n, v) == n \in 1..N /\ IndicesWritten(w, v, n - 1, k, ok)
           g == [p \in Nat \X S |-> IF Good(p[1], p[2]) THEN WriteIndex(p[2], p[1] - 1, k, ok) ELSE p[2]]
           IsDone(f) == f = [n \in 0..N |-> IF n = 0 THEN w ELSE WriteIndex(f[n - 1], n - 1, k, ok)]
<1>1. N \in Nat /\ \A n \in 1..N : n - 1 \in Streams
  BY StreamsAre
<1> HIDE DEF N
<1>2. IndicesWritten(w, w, 0, k, ok)
  <2>1. Indexed(w.file, w.file)
    <3>1. Len(w.file) \in Nat
      BY DEF Work
    <3> QED
      BY <3>1, AtExtends DEF Indexed, Extends
  <2>2. \A t \in Streams : ~ (t < 0)
    BY StreamsAre
  <2> QED
    BY <2>1, <2>2 DEF IndicesWritten
<1>3. ASSUME NEW n \in 1..N, NEW v, IndicesWritten(w, v, n - 1, k, ok)
      PROVE  IndicesWritten(w, WriteIndex(v, n - 1, k, ok), n, k, ok)
  <2> DEFINE m == n - 1
  <2>1. m \in Streams /\ m + 1 = n
    BY <1>1
  <2>2. IndicesWritten(w, v, m, k, ok)
    BY <1>3
  <2> HIDE DEF m
  <2>3. IndicesWritten(w, WriteIndex(v, m, k, ok), m + 1, k, ok)
    BY <2>1, <2>2, IndicesStep
  <2> QED
    BY <2>1, <2>3 DEF m
<1>4. w \in S /\ g \in [Nat \X S -> S]
  <2>1. w \in S
    <3>1. 0 \in 0..N
      BY <1>1
    <3> QED
      BY <1>2, <3>1
  <2>2. ASSUME NEW n \in Nat, NEW v \in S, Good(n, v) PROVE WriteIndex(v, n - 1, k, ok) \in S
    <3>1. IndicesWritten(w, WriteIndex(v, n - 1, k, ok), n, k, ok)
      BY <1>3, <2>2
    <3>2. WriteIndex(v, n - 1, k, ok) \in Work /\ n \in 0..N
      BY <1>1, <2>2, <3>1 DEF IndicesWritten
    <3> QED
      BY <3>1, <3>2
  <2> HIDE DEF S, Good
  <2>3. \A p \in Nat \X S : p[1] \in Nat /\ p[2] \in S
    OBVIOUS
  <2>4. \A p \in Nat \X S : (IF Good(p[1], p[2]) THEN WriteIndex(p[2], p[1] - 1, k, ok) ELSE p[2]) \in S
    BY <2>2, <2>3
  <2> QED
    BY <2>1, <2>4
<1>5. \A n \in Nat, v \in S : g[<<n, v>>] = IF Good(n, v) THEN WriteIndex(v, n - 1, k, ok) ELSE v
  OBVIOUS
<1> HIDE DEF S, g
<1>6. PICK f \in [0..N -> S] : Iterates(f, w, g, N)
  BY <1>1, <1>4, IterationExists
<1> DEFINE P == {n \in Nat : n <= N => IndicesWritten(w, f[n], n, k, ok)
                                       /\ (n # 0 => f[n] = WriteIndex(f[n - 1], n - 1, k, ok))}
<1>7. Nat \subseteq P
  <2>1. 0 \in P
    BY <1>2, <1>6 DEF Iterates
  <2>2. ASSUME NEW n \in Nat, n \in P PROVE n + 1 \in P
    <3> DEFINE m == n + 1
    <3> SUFFICES ASSUME m <= N
                 PROVE  IndicesWritten(w, f[m], m, k, ok) /\ f[m] = WriteIndex(f[m - 1], m - 1, k, ok)
      OBVIOUS
    <3>1. m \in 1..N /\ m \in Nat /\ m - 1 = n /\ n <= N /\ n \in 0..N
      BY <1>1
    <3>2. IndicesWritten(w, f[m - 1], m - 1, k, ok)
      BY <2>2, <3>1
    <3> HIDE DEF m
    <3>3. f[m - 1] \in S
      BY <3>1
    <3>4. f[m] = g[<<m, f[m - 1]>>]
      BY <1>6, <3>1 DEF Iterates
    <3>5. f[m] = WriteIndex(f[m - 1], m - 1, k, ok)
      BY <1>5, <3>1, <3>2, <3>3, <3>4
    <3>6. IndicesWritten(w, WriteIndex(f[m - 1], m - 1, k, ok), m, k, ok)
      BY <1>3, <3>1, <3>2
    <3> QED
      BY <3>5, <3>6
  <2> HIDE DEF P
  <2> QED
    BY <2>1, <2>2, SetInduction
<1>8. \A n \in 0..N : n \in Nat /\ n <= N /\ n \in P
  BY <1>1, <1>7
<1>9. IsDone(f)
  <2>1. ASSUME NEW n \in 0..N PROVE f[n] = IF n = 0 THEN w ELSE WriteIndex(f[n - 1], n - 1, k, ok)
    BY <1>6, <1>8 DEF Iterates
  <2>2. f = [n \in 0..N |-> f[n]]
    OBVIOUS
  <2> QED
    BY <2>1, <2>2
<1> DEFINE h == CHOOSE done : IsDone(done)
<1>10. WriteIndices(w, k, ok) = h[N]
  BY DEF WriteIndices, N
<1>11. IsDone(h)
  BY <1>9
<1> HIDE DEF h
<1>12. \A n \in 0..N : h[n] = IF n = 0 THEN w ELSE WriteIndex(h[n - 1], n - 1, k, ok)
  BY <1>11
<1>13. IndicesWritten(w, h[N], N, k, ok)
  <2> DEFINE Q == {n \in Nat : n <= N => IndicesWritten(w, h[n], n, k, ok)}
  <2>1. 0 \in Q
    <3>1. 0 \in 0..N
      BY <1>1
    <3> QED
      BY <1>2, <1>12, <3>1
  <2>2. ASSUME NEW n \in Nat, n \in Q PROVE n + 1 \in Q
    <3> DEFINE m == n + 1
    <3> SUFFICES ASSUME m <= N PROVE IndicesWritten(w, h[m], m, k, ok)
      OBVIOUS
    <3>1. m \in 1..N /\ m \in 0..N /\ m # 0 /\ m - 1 = n /\ n <= N
      BY <1>1
    <3>2. IndicesWritten(w, h[m - 1], m - 1, k, ok)
      BY <2>2, <3>1
    <3> HIDE DEF m
    <3>3. h[m] = WriteIndex(h[m - 1], m - 1, k, ok)
      BY <1>12, <3>1
    <3> QED
      BY <1>3, <3>1, <3>2, <3>3
  <2> HIDE DEF Q
  <2>3. Nat \subseteq Q
    BY <2>1, <2>2, SetInduction
  <2>4. N \in Q /\ N <= N
    BY <1>1, <2>3
  <2> QED
    BY <2>4 DEF Q
<1> QED
  BY <1>10, <1>13 DEF N
-----------------------------------------------------------------------------
(* What the indices say, and what lies in the file *)

Found8 == [pos : Int, len : Nat]

\* Where the entries of an index lead to, and those of all the indices of a stream.
Absolute(std) ==
  [i \in DOMAIN std.entries |-> [pos |-> std.base + std.entries[i].off, len |-> std.entries[i].len]]
EntriesOf(l) == FlattenSeq([k \in DOMAIN l |-> Absolute(l[k])])

\* The data of a file, and that of a stream as the reader's index has it.
SearchedIn(f) ==
  LET data == OfTag(f, "data")
  IN  [i \in DOMAIN data |-> [stream |-> data[i].chunk.stream, pos |-> data[i].pos, len |-> data[i].chunk.len]]
DataOf(f, s) == Flat(s, SearchedIn(f))

\* A sequence goes on.
LEMMA SeqIs ==
  \A T : \A q \in Seq(T) : Len(q) \in Nat /\ DOMAIN q = 1..Len(q) /\ \A i \in 1..Len(q) : q[i] \in T
OBVIOUS

\* A sequence is another one with an element more.
LEMMA AppendIs ==
  ASSUME NEW T, NEW q \in Seq(T), NEW c \in Seq(T), NEW e \in T, Len(c) = Len(q) + 1,
         c[Len(q) + 1] = e, \A i \in 1..Len(q) : c[i] = q[i]
  PROVE  c = Append(q, e)
OBVIOUS

\* An element of a sequence is replaced.
LEMMA ReplaceIs ==
  ASSUME NEW T, NEW q \in Seq(T), NEW e \in T, NEW n \in 1..Len(q)
  PROVE  /\ [q EXCEPT ![n] = e] \in Seq(T) /\ Len([q EXCEPT ![n] = e]) = Len(q)
         /\ [q EXCEPT ![n] = e][n] = e
         /\ \A i \in 1..Len(q) : i # n => [q EXCEPT ![n] = e][i] = q[i]
OBVIOUS

\* The entries of an index.
LEMMA AbsoluteIs ==
  ASSUME NEW std \in StdType
  PROVE  /\ Absolute(std) \in Seq(Found8) /\ Len(Absolute(std)) = Len(std.entries)
         /\ \A i \in 1..Len(std.entries) :
              Absolute(std)[i] = [pos |-> std.base + std.entries[i].off, len |-> std.entries[i].len]
<1> DEFINE n == Len(std.entries)
           F(i) == [pos |-> std.base + std.entries[i].off, len |-> std.entries[i].len]
<1>1. std.base \in Nat /\ std.entries \in Seq(StdEntry)
  BY DEF StdType
<1>2. n \in Nat /\ DOMAIN std.entries = 1..n /\ \A i \in 1..n : std.entries[i] \in StdEntry
  BY <1>1, SeqIs
<1>3. \A i \in 1..n : F(i) \in Found8
  <2>1. \A e \in StdEntry : e.off \in Int /\ e.len \in Nat
    BY DEF StdEntry
  <2> QED
    BY <1>1, <1>2, <2>1 DEF Found8
<1>4. Absolute(std) = [i \in 1..n |-> F(i)]
  BY <1>2 DEF Absolute
<1> HIDE DEF n, F
<1>5. [i \in 1..n |-> F(i)] \in Seq(Found8) /\ Len([i \in 1..n |-> F(i)]) = n
  BY <1>2, <1>3
<1>6. \A i \in 1..n : Absolute(std)[i] = F(i)
  BY <1>4
<1> QED
  BY <1>4, <1>5, <1>6 DEF n, F

\* The entries of the indices of a stream.
LEMMA EntriesAre ==
  ASSUME NEW l \in Seq(StdType)
  PROVE  /\ [k \in DOMAIN l |-> Absolute(l[k])] \in Seq(Seq(Found8))
         /\ EntriesOf(l) \in Seq(Found8)
<1> DEFINE n == Len(l)
           ll == [k \in DOMAIN l |-> Absolute(l[k])]
<1>1. n \in Nat /\ DOMAIN l = 1..n /\ \A k \in 1..n : l[k] \in StdType
  BY SeqIs
<1>2. \A k \in 1..n : Absolute(l[k]) \in Seq(Found8)
  BY <1>1, AbsoluteIs
<1>3. ll \in Seq(Seq(Found8))
  BY <1>1, <1>2
<1>4. <<>> \in Seq(Found8)
  OBVIOUS
<1> HIDE DEF ll
<1>5. FlattenSeq(ll) \in Seq(Found8)
  BY <1>3, <1>4, FlattenAppend
<1> QED
  BY <1>3, <1>5 DEF EntriesOf, ll

\* The entries when a stream has one more index.
LEMMA EntriesAppend ==
  ASSUME NEW l \in Seq(StdType), NEW std \in StdType
  PROVE  EntriesOf(Append(l, std)) = EntriesOf(l) \o Absolute(std)
<1> DEFINE n == Len(l)
           m == Append(l, std)
           ll == [k \in DOMAIN l |-> Absolute(l[k])]
           mm == [k \in DOMAIN m |-> Absolute(m[k])]
<1>1. n \in Nat /\ DOMAIN l = 1..n /\ DOMAIN m = 1..n + 1 /\ m[n + 1] = std /\ \A k \in 1..n : m[k] = l[k]
  OBVIOUS
<1>2. ll \in Seq(Seq(Found8)) /\ Absolute(std) \in Seq(Found8)
  BY EntriesAre, AbsoluteIs
<1>3. mm = Append(ll, Absolute(std))
  <2>1. DOMAIN mm = 1..n + 1 /\ mm[n + 1] = Absolute(std) /\ \A k \in 1..n : mm[k] = ll[k]
    <3>1. DOMAIN mm = 1..n + 1
      BY <1>1
    <3> HIDE DEF m
    <3>2. \A k \in 1..n + 1 : mm[k] = Absolute(m[k])
      BY <1>1
    <3>3. \A k \in 1..n : ll[k] = Absolute(l[k])
      BY <1>1
    <3>4. n + 1 \in 1..n + 1 /\ \A k \in 1..n : k \in 1..n + 1
      BY <1>1
    <3> QED
      BY <1>1, <3>1, <3>2, <3>3, <3>4
  <2>2. DOMAIN ll = 1..n /\ Len(ll) = n
    BY <1>1, <1>2
  <2>3. mm = [k \in 1..n + 1 |-> mm[k]]
    BY <2>1
  <2> HIDE DEF mm, ll
  <2> DEFINE a == Absolute(std)
  <2>4. a \in Seq(Found8) /\ ll \in Seq(Seq(Found8))
    BY <1>2
  <2> HIDE DEF a
  <2>5. mm \in Seq(Seq(Found8)) /\ Len(mm) = n + 1
    <3>1. mm \in Seq(Seq(Found8))
      <4>1. m \in Seq(StdType)
        OBVIOUS
      <4> HIDE DEF m
      <4> QED
        BY <4>1, EntriesAre DEF mm
    <3> QED
      BY <1>1, <2>1, <3>1, SeqIs
  <2>6. mm = Append(ll, a)
    <3> DEFINE T == Seq(Found8)
    <3> HIDE DEF T
    <3> QED
      BY <2>1, <2>2, <2>4, <2>5, AppendIs DEF a, T
  <2> QED
    BY <2>6 DEF a
<1> HIDE DEF ll, mm
<1>4. FlattenSeq(Append(ll, Absolute(std))) = FlattenSeq(ll) \o Absolute(std)
  BY <1>2, FlattenAppend
<1> QED
  BY <1>3, <1>4 DEF EntriesOf, ll, mm
\* A new index has no entries.
LEMMA EntriesNew ==
  ASSUME NEW l \in Seq(StdType), NEW base \in Nat
  PROVE  Std(base) \in StdType /\ EntriesOf(Append(l, Std(base))) = EntriesOf(l)
<1>1. Std(base) \in StdType /\ Std(base).entries = <<>>
  BY DEF Std, StdType
<1>2. Absolute(Std(base)) = <<>>
  <2>1. Len(Std(base).entries) = 0
    BY <1>1
  <2>2. Absolute(Std(base)) \in Seq(Found8) /\ Len(Absolute(Std(base))) = 0
    BY <1>1, <2>1, AbsoluteIs
  <2> QED
    BY <2>2
<1>3. EntriesOf(Append(l, Std(base))) = EntriesOf(l) \o Absolute(Std(base))
  BY <1>1, EntriesAppend
<1>4. \A q \in Seq(Found8) : q \o <<>> = q
  OBVIOUS
<1>5. EntriesOf(l) \in Seq(Found8)
  BY EntriesAre
<1> QED
  BY <1>1, <1>2, <1>3, <1>4, <1>5

\* Only what the indices say counts.
LEMMA EntriesSame ==
  ASSUME NEW l \in Seq(StdType), NEW m \in Seq(StdType), Len(m) = Len(l),
         \A k \in 1..Len(l) : m[k].base = l[k].base /\ m[k].entries = l[k].entries
  PROVE  EntriesOf(m) = EntriesOf(l)
<1>1. DOMAIN l = 1..Len(l) /\ DOMAIN m = 1..Len(l)
  OBVIOUS
<1>2. \A k \in 1..Len(l) : Absolute(m[k]) = Absolute(l[k])
  BY DEF Absolute
<1>3. [k \in DOMAIN m |-> Absolute(m[k])] = [k \in DOMAIN l |-> Absolute(l[k])]
  BY <1>1, <1>2
<1> QED
  BY <1>3 DEF EntriesOf

\* One more entry in the last index.
LEMMA EntriesAdd ==
  ASSUME NEW l \in Seq(StdType), l # <<>>, NEW x \in StdEntry
  PROVE  LET n == Len(l)
             m == [l EXCEPT ![n].entries = Append(@, x)]
         IN  /\ m \in Seq(StdType) /\ Len(m) = n /\ (\A k \in 1..n : m[k].base = l[k].base)
             /\ (\A k \in 1..n : k # n => m[k] = l[k]) /\ m[n].entries = Append(l[n].entries, x)
             /\ EntriesOf(m) = Append(EntriesOf(l), [pos |-> l[n].base + x.off, len |-> x.len])
<1> DEFINE n == Len(l)
           m == [l EXCEPT ![n].entries = Append(@, x)]
<1> DEFINE std == l[n]
           new == [std EXCEPT !.entries = Append(@, x)]
           front == [k \in 1..n - 1 |-> l[k]]
           e == [pos |-> std.base + x.off, len |-> x.len]
<1>1. n \in Nat /\ n \in 1..n /\ std \in StdType /\ \A k \in 1..n : l[k] \in StdType
  BY SeqIs
<1>2. new \in StdType /\ new.base = std.base /\ new.entries = Append(std.entries, x)
  <2>1. std \in [base : Nat, entries : Seq(StdEntry), offset : Nat]
    BY <1>1 DEF StdType
  <2> DEFINE d == Append(std.entries, x)
  <2>2. d \in Seq(StdEntry)
    BY <2>1
  <2>3. new = [std EXCEPT !.entries = d]
    OBVIOUS
  <2> HIDE DEF std, new, d
  <2>4. new \in StdType /\ new.base = std.base /\ new.entries = d
    BY <2>1, <2>2, <2>3 DEF StdType
  <2> QED
    BY <2>4 DEF d
<1>3. m = [l EXCEPT ![n] = new]
  OBVIOUS
<1> HIDE DEF new, m
<1>4. m \in Seq(StdType) /\ Len(m) = n /\ m[n] = new /\ \A k \in 1..n : k # n => m[k] = l[k]
  <2>1. n \in 1..Len(l)
    BY <1>1
  <2>2. /\ [l EXCEPT ![n] = new] \in Seq(StdType) /\ Len([l EXCEPT ![n] = new]) = Len(l)
        /\ [l EXCEPT ![n] = new][n] = new
        /\ \A k \in 1..Len(l) : k # n => [l EXCEPT ![n] = new][k] = l[k]
    BY <1>2, <2>1, ReplaceIs
  <2> QED
    BY <1>3, <2>2, Zenon
<1>5. front \in Seq(StdType) /\ Len(front) = n - 1 /\ \A k \in 1..n - 1 : front[k] = l[k]
  BY <1>1
<1>6. l = Append(front, std)
  <2> HIDE DEF front
  <2> QED
    BY <1>1, <1>5
<1>7. m = Append(front, new)
  <2> DEFINE c == n - 1
  <2>1. c \in Nat /\ c + 1 = n /\ \A k \in 1..c : k \in 1..n /\ k # n
    BY <1>1
  <2>2. Len(m) = c + 1
    BY <1>4, <2>1
  <2> HIDE DEF front, c
  <2>3. Len(front) = c /\ m[c + 1] = new /\ \A k \in 1..c : m[k] = front[k]
    BY <1>4, <1>5, <2>1 DEF c
  <2> QED
    <3>1. front \in Seq(StdType) /\ m \in Seq(StdType) /\ new \in StdType /\ Len(m) = Len(front) + 1
          /\ m[Len(front) + 1] = new /\ \A k \in 1..Len(front) : m[k] = front[k]
      BY <1>2, <1>4, <1>5, <2>2, <2>3
    <3>2. \A q, r \in Seq(StdType), y \in StdType :
            (Len(r) = Len(q) + 1 /\ r[Len(q) + 1] = y /\ \A k \in 1..Len(q) : r[k] = q[k]) => r = Append(q, y)
      BY AppendIs
    <3> QED
      BY <3>1, <3>2
<1>8. Absolute(new) = Append(Absolute(std), e)
  <2> DEFINE c == Len(std.entries)
             d == Append(std.entries, x)
  <2>0. std.entries \in Seq(StdEntry)
    BY <1>1 DEF StdType
  <2>1. c \in Nat /\ Len(d) = c + 1 /\ d[c + 1] = x /\ \A i \in 1..c : d[i] = std.entries[i]
    BY <2>0
  <2>2. /\ Absolute(std) \in Seq(Found8) /\ Len(Absolute(std)) = c
        /\ \A i \in 1..c : Absolute(std)[i] = [pos |-> std.base + std.entries[i].off, len |-> std.entries[i].len]
    BY <1>1, AbsoluteIs
  <2>3. /\ Absolute(new) \in Seq(Found8) /\ Len(Absolute(new)) = Len(d)
        /\ \A i \in 1..Len(d) : Absolute(new)[i] = [pos |-> std.base + d[i].off, len |-> d[i].len]
    <3> HIDE DEF d, std
    <3> QED
      BY <1>2, AbsoluteIs DEF d
  <2> HIDE DEF c, d
  <2>4. \A i \in 1..c : i \in 1..Len(d) /\ Absolute(new)[i] = Absolute(std)[i]
    BY <2>1, <2>2, <2>3
  <2>5. Absolute(new)[c + 1] = e
    <3>1. c + 1 \in 1..Len(d)
      BY <2>1
    <3> QED
      BY <2>1, <2>3, <3>1
  <2>6. e \in Found8
    <3>1. c + 1 \in 1..Len(Absolute(new))
      BY <2>1, <2>3
    <3>2. Absolute(new)[c + 1] \in Found8
      BY <2>3, <3>1, SeqIs
    <3> QED
      BY <2>5, <3>2
  <2> DEFINE a == Absolute(std)
             b == Absolute(new)
  <2> HIDE DEF a, b, e
  <2>7. b = Append(a, e)
    BY <2>1, <2>2, <2>3, <2>4, <2>5, <2>6 DEF a, b
  <2> QED
    BY <2>7 DEF a, b, e
<1>9. /\ EntriesOf(l) = EntriesOf(front) \o Absolute(std)
      /\ EntriesOf(m) = EntriesOf(front) \o Absolute(new)
  <2> HIDE DEF front, std
  <2> QED
    BY <1>1, <1>2, <1>5, <1>6, <1>7, EntriesAppend
<1>10. e \in Found8
  BY <1>1 DEF StdType, StdEntry, Found8
<1>11. \A p, q \in Seq(Found8), r \in Found8 : p \o Append(q, r) = Append(p \o q, r)
  OBVIOUS
<1>12. EntriesOf(front) \in Seq(Found8) /\ Absolute(std) \in Seq(Found8)
  BY <1>1, <1>5, EntriesAre, AbsoluteIs
<1> HIDE DEF e, front
<1>13. EntriesOf(m) = Append(EntriesOf(l), e)
  BY <1>8, <1>9, <1>10, <1>11, <1>12
<1>14. \A k \in 1..n : m[k].base = l[k].base
  BY <1>2, <1>4
<1> QED
  BY <1>2, <1>4, <1>13, <1>14 DEF e, m

\* The entries of a stream, when there is one more.
LEMMA FlatAppend ==
  ASSUME NEW l \in Seq(OldEntry), NEW x \in OldEntry, NEW s
  PROVE  /\ Flat(s, l) \in Seq(Found8)
         /\ Flat(s, Append(l, x)) = IF x.stream = s THEN Append(Flat(s, l), [pos |-> x.pos + 8, len |-> x.len])
                                                    ELSE Flat(s, l)
<1> DEFINE mine == OfStream(l, s)
           more == OfStream(Append(l, x), s)
           n == Len(mine)
           G(e) == [pos |-> e.pos + 8, len |-> e.len]
           e == G(x)
<1>1. mine \in Seq(OldEntry) /\ more = IF x.stream = s THEN Append(mine, x) ELSE mine
  BY OfStreamAppend
<1>2. n \in Nat /\ DOMAIN mine = 1..n /\ \A i \in 1..n : mine[i] \in OldEntry
  BY <1>1, SeqIs
<1>3. \A o \in OldEntry : G(o) \in Found8
  BY DEF OldEntry, Found8
<1>4. Flat(s, l) = [i \in 1..n |-> G(mine[i])]
  BY <1>2 DEF Flat
<1>5. Flat(s, l) \in Seq(Found8) /\ Len(Flat(s, l)) = n
  <2> HIDE DEF G, mine, n
  <2> QED
    BY <1>2, <1>3, <1>4
<1>6. CASE x.stream = s
  <2>1. more = Append(mine, x)
    BY <1>1, <1>6
  <2> HIDE DEF mine
  <2>2. DOMAIN more = 1..n + 1 /\ more[n + 1] = x /\ \A i \in 1..n : more[i] = mine[i]
    BY <1>1, <1>2, <2>1
  <2>3. Flat(s, Append(l, x)) = [i \in DOMAIN more |-> G(more[i])]
    BY DEF Flat
  <2> DEFINE b == Flat(s, Append(l, x))
             a == Flat(s, l)
  <2> HIDE DEF more, G
  <2>4. b = [i \in 1..n + 1 |-> G(more[i])]
    BY <2>2, <2>3
  <2>5. a = [i \in 1..n |-> G(mine[i])]
    BY <1>4
  <2> HIDE DEF a, b
  <2>6. b[n + 1] = e /\ (\A i \in 1..n : b[i] = a[i]) /\ DOMAIN b = 1..n + 1
    <3>1. n + 1 \in 1..n + 1 /\ \A i \in 1..n : i \in 1..n + 1
      BY <1>2
    <3>2. b[n + 1] = G(more[n + 1]) /\ \A i \in 1..n : b[i] = G(more[i]) /\ a[i] = G(mine[i])
      BY <2>4, <2>5, <3>1
    <3> QED
      BY <2>2, <2>4, <3>2
  <2>7. a \in Seq(Found8) /\ Len(a) = n /\ e \in Found8
    BY <1>3, <1>5 DEF a
  <2> HIDE DEF e, n
  <2>8. b = Append(a, e)
    <3>1. b \in Seq(Found8) /\ Len(b) = n + 1
      <4>1. \A i \in 1..n + 1 : i = n + 1 \/ i \in 1..n
        BY <1>2
      <4>2. \A i \in 1..n : a[i] \in Found8
        BY <2>7, SeqIs
      <4>3. \A i \in 1..n + 1 : b[i] \in Found8
        BY <2>6, <2>7, <4>1, <4>2
      <4>4. \A c, T : (DOMAIN c = 1..n + 1 /\ c = [i \in DOMAIN c |-> c[i]] /\ \A i \in 1..n + 1 : c[i] \in T)
                        => c \in Seq(T) /\ Len(c) = n + 1
        BY <1>2
      <4>5. b = [i \in DOMAIN b |-> b[i]]
        BY <2>4, <2>6
      <4> QED
        BY <2>6, <4>3, <4>4, <4>5
    <3> QED
      BY <2>6, <2>7, <3>1, AppendIs
  <2> QED
    BY <1>5, <1>6, <2>8 DEF a, b, e, G
<1>7. CASE x.stream # s
  <2>1. more = mine
    BY <1>1, <1>7
  <2>2. Flat(s, Append(l, x)) = Flat(s, l)
    BY <2>1 DEF Flat
  <2> QED
    BY <1>5, <1>7, <2>2
<1> QED
  BY <1>6, <1>7
\* Nothing is found where there is nothing.
LEMMA NothingIs ==
  /\ \A I : Pick(<<>>, I) = <<>>
  /\ \A tag : OfTag(<<>>, tag) = <<>>
  /\ \A s : Flat(s, <<>>) = <<>> /\ DataOf(<<>>, s) = <<>>
  /\ EntriesOf(<<>>) = <<>>
<1>1. ASSUME NEW I PROVE Pick(<<>>, I) = <<>>
  <2>1. <<>> \in Seq(Nat) /\ Len(<<>>) = 0
    OBVIOUS
  <2>2. PICK f \in [0..Len(<<>>) -> Seq(Nat)] : Picks(f, <<>>, I) /\ Pick(<<>>, I) = f[Len(<<>>)]
    BY <2>1, PickIs
  <2> QED
    BY <2>1, <2>2 DEF Picks
<1>2. \A tag : OfTag(<<>>, tag) = <<>>
  BY <1>1 DEF OfTag
<1>3. \A s : Flat(s, <<>>) = <<>>
  <2>1. \A s : OfStream(<<>>, s) = <<>>
    BY <1>1 DEF OfStream
  <2> QED
    BY <2>1 DEF Flat
<1>4. \A s : DataOf(<<>>, s) = <<>>
  <2>1. SearchedIn(<<>>) = <<>>
    BY <1>2 DEF SearchedIn
  <2> QED
    BY <1>3, <2>1 DEF DataOf
<1>5. EntriesOf(<<>>) = <<>>
  <2> DEFINE ll == [k \in DOMAIN <<>> |-> Absolute(<<>>[k])]
  <2>1. ll = <<>> /\ ll \in Seq(Seq(Nat)) /\ Len(ll) = 0
    OBVIOUS
  <2> HIDE DEF ll
  <2>2. PICK f \in [0..Len(ll) -> Seq(Nat)] : Flattens(f, ll) /\ FlattenSeq(ll) = f[Len(ll)]
    BY <2>1, FlattenIs
  <2>3. FlattenSeq(ll) = <<>>
    BY <2>1, <2>2 DEF Flattens
  <2> QED
    BY <2>3 DEF EntriesOf, ll
<1> QED
  BY <1>1, <1>2, <1>3, <1>4, <1>5

\* What the search finds, after one more chunk.
LEMMA SearchedAppend ==
  ASSUME NEW f \in Seq(Placed), NEW x \in Placed
  PROVE  /\ SearchedIn(f) \in Seq(OldEntry)
         /\ SearchedIn(Append(f, x)) =
              IF x.chunk.tag = "data"
              THEN Append(SearchedIn(f), [stream |-> x.chunk.stream, pos |-> x.pos, len |-> x.chunk.len])
              ELSE SearchedIn(f)
<1> DEFINE data == OfTag(f, "data")
           more == OfTag(Append(f, x), "data")
           n == Len(data)
           G(d) == [stream |-> d.chunk.stream, pos |-> d.pos, len |-> d.chunk.len]
           a == SearchedIn(f)
           b == SearchedIn(Append(f, x))
           e == G(x)
<1>1. data \in Seq(Placed) /\ more = IF x.chunk.tag = "data" THEN Append(data, x) ELSE data
  BY OfTagAppend
<1>2. n \in Nat /\ DOMAIN data = 1..n /\ \A i \in 1..n : data[i] \in Placed
  BY <1>1, SeqIs
<1>3. \A d \in Placed : G(d) \in OldEntry
  BY DEF Placed, ChunkType, OldEntry
<1>4. a = [i \in 1..n |-> G(data[i])]
  BY <1>2 DEF SearchedIn
<1>5. a \in Seq(OldEntry) /\ Len(a) = n
  <2> HIDE DEF G, data, n, a
  <2> QED
    BY <1>2, <1>3, <1>4
<1>6. CASE x.chunk.tag = "data"
  <2>1. more = Append(data, x)
    BY <1>1, <1>6
  <2> HIDE DEF data
  <2>2. DOMAIN more = 1..n + 1 /\ more[n + 1] = x /\ \A i \in 1..n : more[i] = data[i]
    BY <1>1, <1>2, <2>1
  <2>3. b = [i \in DOMAIN more |-> G(more[i])]
    BY DEF SearchedIn
  <2>4. \A i \in 1..n + 1 : more[i] \in Placed
    <3>1. \A i \in 1..n + 1 : i = n + 1 \/ i \in 1..n
      BY <1>2
    <3> QED
      BY <1>2, <2>2, <3>1
  <2> HIDE DEF more, G, a, b
  <2>5. b = [i \in 1..n + 1 |-> G(more[i])]
    BY <2>2, <2>3
  <2>6. b \in Seq(OldEntry) /\ Len(b) = n + 1
    <3>1. \A i \in 1..n + 1 : G(more[i]) \in OldEntry
      BY <1>3, <2>4
    <3> QED
      BY <1>2, <2>5, <3>1
  <2>7. b[n + 1] = e /\ \A i \in 1..n : b[i] = a[i]
    <3>1. n + 1 \in 1..n + 1 /\ \A i \in 1..n : i \in 1..n + 1
      BY <1>2
    <3>2. b[n + 1] = G(more[n + 1]) /\ \A i \in 1..n : b[i] = G(more[i]) /\ a[i] = G(data[i])
      BY <1>4, <2>5, <3>1
    <3> QED
      BY <2>2, <3>2
  <2>8. e \in OldEntry
    BY <1>3
  <2> HIDE DEF e, n
  <2>9. b = Append(a, e)
    BY <1>5, <2>6, <2>7, <2>8, AppendIs
  <2> QED
    BY <1>5, <1>6, <2>9 DEF a, b, e, G
<1>7. CASE x.chunk.tag # "data"
  <2>1. more = data
    BY <1>1, <1>7
  <2>2. b = a
    BY <2>1 DEF SearchedIn
  <2> QED
    BY <1>5, <1>7, <2>2
<1> QED
  BY <1>6, <1>7

\* The data of a stream, after one more chunk.
LEMMA DataAppend ==
  ASSUME NEW f \in Seq(Placed), NEW x \in Placed, NEW s
  PROVE  /\ DataOf(f, s) \in Seq(Found8)
         /\ DataOf(Append(f, x), s) =
              IF x.chunk.tag = "data" /\ x.chunk.stream = s
              THEN Append(DataOf(f, s), [pos |-> x.pos + 8, len |-> x.chunk.len])
              ELSE DataOf(f, s)
<1> DEFINE e == [stream |-> x.chunk.stream, pos |-> x.pos, len |-> x.chunk.len]
           a == SearchedIn(f)
           b == SearchedIn(Append(f, x))
<1>1. a \in Seq(OldEntry) /\ b = IF x.chunk.tag = "data" THEN Append(a, e) ELSE a
  BY SearchedAppend
<1>2. e \in OldEntry /\ e.stream = x.chunk.stream /\ e.pos = x.pos /\ e.len = x.chunk.len
  BY DEF Placed, ChunkType, OldEntry
<1> HIDE DEF a, b, e
<1>3. /\ Flat(s, a) \in Seq(Found8)
      /\ Flat(s, Append(a, e)) = IF e.stream = s THEN Append(Flat(s, a), [pos |-> e.pos + 8, len |-> e.len])
                                                 ELSE Flat(s, a)
  BY <1>1, <1>2, FlatAppend
<1>4. DataOf(f, s) = Flat(s, a) /\ DataOf(Append(f, x), s) = Flat(s, b)
  BY DEF DataOf, a, b
<1>5. CASE x.chunk.tag = "data"
  <2>1. b = Append(a, e)
    BY <1>1, <1>5
  <2> QED
    BY <1>2, <1>3, <1>4, <1>5, <2>1
<1>6. CASE x.chunk.tag # "data"
  <2>1. b = a
    BY <1>1, <1>6
  <2> QED
    BY <1>3, <1>4, <1>6, <2>1
<1> QED
  BY <1>5, <1>6

\* Indices are no data.
LEMMA DataSame ==
  ASSUME NEW f, NEW g, Indexed(f, g), NEW s
  PROVE  DataOf(g, s) = DataOf(f, s)
BY DEF Indexed, DataOf, SearchedIn
-----------------------------------------------------------------------------
(* A file that is being written *)

\* The old index of n entries ends at p.
OldIndexEnds(f, p, n) ==
  \E i \in 1..Len(f) : /\ f[i].chunk.tag = "idx1" /\ f[i].chunk.len = 16 * n
                       /\ f[i].pos + 8 + 16 * n = p

\* Each list but the first begins where its indices count from; every stream that has a
\* superindex has an index in each list; the old index of n entries ends the first list.
ListsInv(x, n, odml) ==
  /\ odml <=> Len(x.super[Video]) > 1
  /\ \A s \in Streams : x.super[s] = <<>> \/ Len(x.super[s]) = IF odml THEN Len(x.super[Video]) ELSE 1
  /\ Len(OfTag(x.file, "RIFF")) = IF odml THEN Len(x.super[Video]) - 1 ELSE 0
  /\ \A k \in 1..Len(OfTag(x.file, "RIFF")) : OfTag(x.file, "RIFF")[k].pos = x.super[Video][k + 1].base
  /\ odml => OldIndexEnds(x.file, x.super[Video][2].base, n)

\* The indices of the lists before the last one are in the file.
IxInv(x) ==
  \A s \in Streams : \A k \in 1..Len(x.super[s]) :
    k # Len(x.super[s]) => At(x.file, x.super[s][k].offset, IxOf(s, x.super[s][k]))

\* The chunks of stream s lie where its indices l say, in the order in which they were
\* written; when the disk is full there may be one entry more, which leads to no data.
StreamInv(f, l, s, ws, fl) ==
  /\ Len(DataOf(f, s)) = Len(ws)
  /\ \A i \in 1..Len(ws) : At(f, DataOf(f, s)[i].pos - 8, DataChunk(s, DataOf(f, s)[i].len, i))
  /\ \/ EntriesOf(l) = DataOf(f, s)
     \/ fl /\ \E e \in Found8 : EntriesOf(l) = Append(DataOf(f, s), e) /\ NoData(f, e.pos - 8)

\* All that is known of a file in progress: n entries of the old index, ws chunks written.
Sound(x, n, odml, ws, fl) ==
  /\ x \in Work /\ Tiled(x.file, x.pos) /\ ListsInv(x, n, odml) /\ IxInv(x)
  /\ \A s \in Streams : StreamInv(x.file, x.super[s], s, ws[s], fl)

\* The parts of a file in progress.
LEMMA WorkIs ==
  ASSUME NEW x \in Work
  PROVE  /\ x.file \in Seq(Placed) /\ x.pos \in Nat /\ Len(x.file) \in Nat
         /\ \A s \in Streams : x.super[s] \in Seq(StdType) /\ Len(x.super[s]) \in Nat
         /\ \A s \in Streams : \A k \in 1..Len(x.super[s]) :
              /\ x.super[s][k] \in StdType /\ x.super[s][k].base \in Nat /\ x.super[s][k].offset \in Nat
              /\ x.super[s][k].entries \in Seq(StdEntry)
<1>1. x.file \in Seq(Placed) /\ x.pos \in Nat /\ x.super \in [Streams -> Seq(StdType)]
  BY DEF Work, Supers
<1>2. \A s \in Streams : x.super[s] \in Seq(StdType)
  BY <1>1
<1>3. \A s \in Streams : \A k \in 1..Len(x.super[s]) : x.super[s][k] \in StdType
  BY <1>2, SeqIs
<1>4. \A s \in Streams : Len(x.super[s]) \in Nat
  BY <1>2, SeqIs
<1>5. \A std \in StdType : std.base \in Nat /\ std.offset \in Nat /\ std.entries \in Seq(StdEntry)
  BY DEF StdType
<1>6. Len(x.file) \in Nat
  BY <1>1, SeqIs
<1> QED
  BY <1>1, <1>2, <1>3, <1>4, <1>5, <1>6

\* A stream's first chunk: its superindex is begun.
BegunSuper(sup, s) == IF sup[s] = <<>> THEN [sup EXCEPT ![s] = <<Std(0)>>] ELSE sup
Begun(x, s) == [file |-> x.file, pos |-> x.pos, super |-> BegunSuper(x.super, s)]

\* The superindex of s is there, and those that were are as they were.
BeginsAt(x, y, s) ==
  /\ y.file = x.file /\ y.pos = x.pos /\ y.super[s] # <<>>
  /\ \A t \in Streams : EntriesOf(y.super[t]) = EntriesOf(x.super[t])
  /\ \A t \in Streams : x.super[t] # <<>> => y.super[t] = x.super[t]
  /\ \A t \in Streams : t # s => y.super[t] = x.super[t]
  /\ x.super[s] = <<>> => y.super[s] = <<Std(0)>>

LEMMA BeginIs ==
  ASSUME NEW x, NEW n, NEW odml \in BOOLEAN, NEW ws, Sound(x, n, odml, ws, FALSE), NEW s \in Streams,
         x.super[s] = <<>> => ~odml
  PROVE  Sound(Begun(x, s), n, odml, ws, FALSE) /\ BeginsAt(x, Begun(x, s), s)
<1> DEFINE begun == BegunSuper(x.super, s)
           y == Begun(x, s)
<1>1. x \in Work /\ x = [file |-> x.file, pos |-> x.pos, super |-> x.super]
      /\ x.file \in Seq(Placed) /\ x.pos \in Nat /\ x.super \in [Streams -> Seq(StdType)]
  BY DEF Sound, Work, Supers
<1>2. CASE x.super[s] # <<>>
  <2>1. y = x
    BY <1>1, <1>2 DEF Begun, BegunSuper
  <2> HIDE DEF y
  <2>2. Sound(y, n, odml, ws, FALSE) /\ BeginsAt(x, y, s)
    BY <1>2, <2>1 DEF BeginsAt
  <2> QED
    BY <2>2 DEF y
<1>3. CASE x.super[s] = <<>>
  <2> DEFINE one == <<Std(0)>>
  <2>1. one \in Seq(StdType) /\ Len(one) = 1 /\ one # <<>> /\ EntriesOf(one) = <<>> /\ one[1] = Std(0)
    <3>1. <<>> \in Seq(StdType) /\ 0 \in Nat
      OBVIOUS
    <3>2. Std(0) \in StdType /\ EntriesOf(Append(<<>>, Std(0))) = EntriesOf(<<>>)
      BY <3>1, EntriesNew
    <3>3. one = Append(<<>>, Std(0)) /\ one \in Seq(StdType) /\ Len(one) = 1 /\ one # <<>> /\ one[1] = Std(0)
      BY <3>2
    <3> QED
      BY <3>2, <3>3, NothingIs
  <2> HIDE DEF one
  <2>2. y.file = x.file /\ y.pos = x.pos /\ y.super = [x.super EXCEPT ![s] = one] /\ y \in Work
    BY <1>1, <1>3, <2>1 DEF Work, Supers, one, Begun, BegunSuper
  <2>3. y.super[s] = one /\ \A t \in Streams : t # s => y.super[t] = x.super[t]
    BY <1>1, <2>2
  <2> HIDE DEF y
  <2>4. EntriesOf(y.super[s]) = EntriesOf(x.super[s])
    BY <1>3, <2>1, <2>3, NothingIs
  <2>5. ListsInv(y, n, odml)
    <3>1. ~odml /\ ~ (Len(x.super[Video]) > 1) /\ Video \in Streams
      BY <1>3, StreamsAre DEF Sound, ListsInv
    <3>2. ~ (Len(y.super[Video]) > 1)
      <4>1. CASE Video = s
        <5>1. y.super[Video] = one
          BY <2>3, <4>1, Zenon
        <5>2. Len(y.super[Video]) = 1
          BY <2>1, <5>1, Zenon
        <5> QED
          BY <5>2
      <4>2. CASE Video # s
        BY <2>3, <3>1, <4>2
      <4> QED
        BY <4>1, <4>2
    <3>3. \A t \in Streams : y.super[t] = <<>> \/ Len(y.super[t]) = 1
      <4>1. \A t \in Streams : x.super[t] = <<>> \/ Len(x.super[t]) = 1
        BY <3>1 DEF Sound, ListsInv
      <4> QED
        BY <2>1, <2>3, <4>1
    <3>4. Len(OfTag(y.file, "RIFF")) = 0
      BY <2>2, <3>1 DEF Sound, ListsInv
    <3>5. \A k \in 1..Len(OfTag(y.file, "RIFF")) : OfTag(y.file, "RIFF")[k].pos = y.super[Video][k + 1].base
      BY <3>4
    <3> QED
      BY <3>1, <3>2, <3>3, <3>4, <3>5 DEF ListsInv
  <2>6. IxInv(y)
    <3> SUFFICES ASSUME NEW t \in Streams, NEW k \in 1..Len(y.super[t]), k # Len(y.super[t])
                 PROVE  At(y.file, y.super[t][k].offset, IxOf(t, y.super[t][k]))
      BY DEF IxInv
    <3>1. t # s
      <4>1. ASSUME t = s PROVE FALSE
        <5>1. Len(y.super[t]) = 1
          BY <2>1, <2>3, <4>1
        <5> QED
          BY <5>1
      <4> QED
        BY <4>1
    <3>2. y.super[t] = x.super[t] /\ y.file = x.file
      BY <2>2, <2>3, <3>1
    <3> QED
      BY <3>2 DEF Sound, IxInv
  <2>7. ASSUME NEW t \in Streams PROVE StreamInv(y.file, y.super[t], t, ws[t], FALSE)
    <3>1. StreamInv(x.file, x.super[t], t, ws[t], FALSE)
      BY DEF Sound
    <3>2. EntriesOf(y.super[t]) = EntriesOf(x.super[t])
      BY <2>3, <2>4
    <3> QED
      BY <2>2, <3>1, <3>2 DEF StreamInv
  <2>8. Tiled(y.file, y.pos)
    BY <2>2 DEF Sound
  <2>9. Sound(y, n, odml, ws, FALSE)
    BY <2>2, <2>5, <2>6, <2>7, <2>8 DEF Sound
  <2>10. \A t \in Streams : EntriesOf(y.super[t]) = EntriesOf(x.super[t])
    BY <2>3, <2>4
  <2>11. \A t \in Streams : x.super[t] # <<>> => y.super[t] = x.super[t]
    BY <1>3, <2>3
  <2>12. y.super[s] # <<>> /\ y.super[s] = <<Std(0)>>
    BY <2>1, <2>3 DEF one
  <2>13. BeginsAt(x, y, s)
    BY <1>3, <2>2, <2>3, <2>10, <2>11, <2>12 DEF BeginsAt
  <2> QED
    BY <2>9, <2>13 DEF y
<1> QED
  BY <1>2, <1>3
\* The old index stays where it is.
LEMMA OldIndexStays ==
  ASSUME NEW f, NEW g, Len(f) \in Nat, Len(g) \in Nat, Extends(f, g), NEW p, NEW n, OldIndexEnds(f, p, n)
  PROVE  OldIndexEnds(g, p, n)
BY DEF OldIndexEnds, Extends

\* The index chunk depends on what the index says.
LEMMA IxSame ==
  ASSUME NEW s, NEW a, NEW b, a.base = b.base, a.entries = b.entries
  PROVE  IxOf(s, a) = IxOf(s, b)
BY DEF IxOf

\* A new RIFF list is begun: all indices of the list are written, the old one if it is the
\* first, and every stream that has indices gets a new one that counts from the list.
KeepsFirst(x, y) ==
  \A s \in Streams : x.super[s] # <<>> =>
    y.super[s] # <<>> /\ y.super[s][1].entries = x.super[s][1].entries

LEMMA NewRiffIs ==
  ASSUME NEW x, NEW n, NEW odml \in BOOLEAN, NEW ws, Sound(x, n, odml, ws, FALSE),
         NEW l \in Seq(OldEntry), odml => n = Len(l), x.super[Video] # <<>>
  PROVE  Sound(NewRiff(x, l), Len(l), TRUE, ws, FALSE) /\ KeepsFirst(x, NewRiff(x, l))
<1> DEFINE k == Len(x.super[Video])
           N == Cardinality(Streams)
           a == WriteIndices(x, k, TRUE)
           b == IF k = 1 THEN AddChunk(a, OldIndex(l), TRUE) ELSE a
           r == Chunk("RIFF", 16)
           c == AddChunk(b, r, TRUE)
           sup == [s \in Streams |-> IF x.super[s] = <<>> THEN <<>> ELSE Append(c.super[s], Std(b.pos))]
           y == NewRiff(x, l)
<1>0. Video \in Streams /\ N \in Nat /\ \A s \in Streams : s \in Nat /\ s < N
  BY StreamsAre
<1>1. x \in Work /\ Tiled(x.file, x.pos) /\ k \in Nat /\ k >= 1
  <2>1. x \in Work /\ Tiled(x.file, x.pos)
    BY DEF Sound
  <2>2. x.super[Video] \in Seq(StdType)
    BY <1>0, <2>1, WorkIs
  <2> QED
    BY <2>1, <2>2
<1>2. \A s \in Streams : x.super[s] # <<>> => Len(x.super[s]) = k
  <2>1. (odml <=> k > 1) /\ \A s \in Streams : x.super[s] = <<>> \/ Len(x.super[s]) = IF odml THEN k ELSE 1
    BY DEF Sound, ListsInv
  <2> HIDE DEF k
  <2>2. ~odml => k = 1
    BY <1>1, <2>1
  <2> QED
    BY <2>1, <2>2
<1>3. y = [c EXCEPT !.super = sup]
  BY DEF NewRiff
<1> HIDE DEF k, N, a, b, c, r, sup, y
<1>4. IndicesWritten(x, a, N, k, TRUE)
  <2>1. \A t \in Streams : x.super[t] # <<>> => k \in 1..Len(x.super[t])
    BY <1>1, <1>2
  <2> QED
    BY <1>1, <2>1, WriteIndicesIs DEF a, N
<1>5. a \in Work /\ Tiled(a.file, a.pos) /\ Indexed(x.file, a.file)
      /\ (\A t \in Streams : x.super[t] = <<>> => a.super[t] = <<>>)
      /\ \A t \in Streams : x.super[t] # <<>> =>
           Moved(x.super[t], a.super[t], k) /\ At(a.file, a.super[t][k].offset, IxOf(t, x.super[t][k]))
  BY <1>0, <1>4 DEF IndicesWritten
<1>6. b \in Work /\ Tiled(b.file, b.pos) /\ Indexed(a.file, b.file) /\ b.super = a.super
      /\ (k = 1 => OldIndexEnds(b.file, b.pos, Len(l)))
  <2> DEFINE o == OldIndex(l)
             d == AddChunk(a, o, TRUE)
             m == Len(l)
  <2>1. o \in ChunkType /\ o.tag = "idx1" /\ o.len = 16 * m /\ m \in Nat
    BY ChunksAre
  <2> HIDE DEF o, m
  <2>2. /\ d \in Work /\ Tiled(d.file, d.pos) /\ d.pos = a.pos + 8 + Even(o.len) /\ At(d.file, a.pos, o)
        /\ Indexed(a.file, d.file)
    BY <1>5, <2>1, AddChunkIs
  <2>3. d.super = a.super
    <3>1. \A w \in Work, e \in ChunkType : Tiled(w.file, w.pos) => AddChunk(w, e, TRUE).super = w.super
      BY AddChunkIs
    <3> QED
      BY <1>5, <2>1, <3>1
  <2>4. Even(o.len) = 16 * m /\ a.pos \in Nat
    <3>1. 16 * m \in Nat /\ (16 * m) % 2 = 0
      BY <2>1
    <3> QED
      BY <1>5, <2>1, <3>1, EvenIs, WorkIs
  <2>5. d.pos = a.pos + 8 + 16 * m
    BY <2>2, <2>4
  <2>6. OldIndexEnds(d.file, d.pos, m)
    <3>1. PICK i \in 1..Len(d.file) : d.file[i].pos = a.pos /\ d.file[i].chunk = o
      BY <2>2 DEF At
    <3> QED
      BY <2>1, <2>5, <3>1 DEF OldIndexEnds
  <2>7. Indexed(a.file, a.file)
    BY <1>5, IndexedExtends, WorkIs, AtExtends DEF Indexed, Extends
  <2>8. b = IF k = 1 THEN d ELSE a
    BY DEF b, o, d
  <2> HIDE DEF d
  <2> QED
    BY <1>5, <2>2, <2>3, <2>6, <2>7, <2>8 DEF m
<1>7. r \in ChunkType /\ r.tag = "RIFF"
  BY ChunksAre DEF r
<1>8. c \in Work /\ Tiled(c.file, c.pos) /\ Extends(b.file, c.file)
      /\ c.file = Append(b.file, [pos |-> b.pos, chunk |-> r])
  BY <1>6, <1>7, AddChunkIs DEF c
<1>9. c.super = b.super
  <2>1. \A w \in Work, e \in ChunkType : Tiled(w.file, w.pos) => AddChunk(w, e, TRUE).super = w.super
    BY AddChunkIs
  <2> QED
    BY <1>6, <1>7, <2>1 DEF c
<1>10. sup = [s \in Streams |-> IF x.super[s] = <<>> THEN <<>> ELSE Append(a.super[s], Std(b.pos))]
  BY <1>6, <1>9 DEF sup
<1>11. /\ b.pos \in Nat /\ Std(b.pos) \in StdType /\ Std(b.pos).base = b.pos
       /\ \A s \in Streams : a.super[s] \in Seq(StdType)
  <2>1. b.pos \in Nat /\ \A s \in Streams : a.super[s] \in Seq(StdType)
    BY <1>5, <1>6, WorkIs
  <2>2. <<>> \in Seq(StdType)
    OBVIOUS
  <2>3. Std(b.pos) \in StdType
    BY <2>1, <2>2, EntriesNew
  <2>4. Std(b.pos).base = b.pos
    BY DEF Std
  <2> QED
    BY <2>1, <2>3, <2>4
<1>12. ASSUME NEW s \in Streams, x.super[s] = <<>> PROVE sup[s] = <<>>
  BY <1>10, <1>12
<1>13. ASSUME NEW s \in Streams, x.super[s] # <<>>
       PROVE  /\ sup[s] = Append(a.super[s], Std(b.pos)) /\ Len(sup[s]) = k + 1 /\ sup[s] \in Seq(StdType)
              /\ sup[s][k + 1] = Std(b.pos)
              /\ \A j \in 1..k : /\ sup[s][j] = a.super[s][j] /\ sup[s][j].base = x.super[s][j].base
                                 /\ sup[s][j].entries = x.super[s][j].entries
                                 /\ j # k => sup[s][j] = x.super[s][j]
  <2> DEFINE p == a.super[s]
             q == x.super[s]
             u == sup[s]
             z == Std(b.pos)
  <2>1. u = Append(p, z) /\ p \in Seq(StdType) /\ z \in StdType
    BY <1>10, <1>11, <1>13
  <2>2. Len(p) = k /\ \A j \in 1..k : p[j].base = q[j].base /\ p[j].entries = q[j].entries /\ (j # k => p[j] = q[j])
    BY <1>2, <1>5, <1>13 DEF Moved
  <2> HIDE DEF p, q, u, z
  <2>3. u \in Seq(StdType) /\ Len(u) = k + 1 /\ u[k + 1] = z /\ \A j \in 1..k : u[j] = p[j]
    BY <1>1, <2>1, <2>2
  <2>4. \A j \in 1..k : u[j] = p[j] /\ u[j].base = q[j].base /\ u[j].entries = q[j].entries /\ (j # k => u[j] = q[j])
    BY <2>2, <2>3
  <2> QED
    BY <2>1, <2>3, <2>4 DEF p, q, u, z
<1>14. sup \in Supers
  <2>1. \A s \in Streams : sup[s] \in Seq(StdType)
    <3>1. <<>> \in Seq(StdType)
      OBVIOUS
    <3> QED
      BY <1>12, <1>13, <3>1
  <2> QED
    BY <1>10, <2>1 DEF Supers
<1>15. y.file = c.file /\ y.pos = c.pos /\ y.super = sup /\ y \in Work
  BY <1>3, <1>8, <1>14 DEF Work
<1>16. /\ Len(x.file) \in Nat /\ Len(a.file) \in Nat /\ Len(b.file) \in Nat /\ Len(c.file) \in Nat
       /\ b.file \in Seq(Placed)
  BY <1>1, <1>5, <1>6, <1>8, WorkIs
<1>17. Indexed(x.file, b.file)
  BY <1>5, <1>6, <1>16, IndexedExtends
<1>18. \A p, d : At(x.file, p, d) => At(c.file, p, d)
  <2>1. Extends(x.file, b.file)
    BY <1>17 DEF Indexed
  <2> QED
    BY <1>8, <1>16, <2>1, AtExtends
<1>19. \A p, d : At(a.file, p, d) => At(c.file, p, d)
  <2>1. Extends(a.file, b.file)
    BY <1>6 DEF Indexed
  <2> QED
    BY <1>8, <1>16, <2>1, AtExtends
<1>20. ListsInv(y, Len(l), TRUE)
  <2> DEFINE R == OfTag(x.file, "RIFF")
             e == [pos |-> b.pos, chunk |-> r]
             Q == OfTag(y.file, "RIFF")
             u == y.super[Video]
  <2>1. Len(u) = k + 1 /\ u[k + 1].base = b.pos /\ \A j \in 1..k : u[j].base = x.super[Video][j].base
    BY <1>0, <1>11, <1>13, <1>15
  <2>2. \A s \in Streams : y.super[s] = <<>> \/ Len(y.super[s]) = k + 1
    BY <1>12, <1>13, <1>15
  <2>3. /\ odml <=> k > 1
        /\ Len(R) = IF odml THEN k - 1 ELSE 0
        /\ \A j \in 1..Len(R) : R[j].pos = x.super[Video][j + 1].base
        /\ odml => OldIndexEnds(x.file, x.super[Video][2].base, n)
    BY DEF Sound, ListsInv, k
  <2>4. Q = Append(R, e) /\ R \in Seq(Placed) /\ e \in Placed /\ e.pos = b.pos
    <3>1. e \in Placed /\ e.chunk.tag = "RIFF" /\ e.pos = b.pos
      BY <1>7, <1>11 DEF Placed
    <3>2. OfTag(b.file, "RIFF") = R
      BY <1>17 DEF Indexed
    <3>3. y.file = Append(b.file, e)
      BY <1>8, <1>15
    <3> HIDE DEF e, R
    <3>4. OfTag(b.file, "RIFF") \in Seq(Placed) /\ OfTag(Append(b.file, e), "RIFF") = Append(OfTag(b.file, "RIFF"), e)
      BY <1>16, <3>1, OfTagAppend
    <3> QED
      BY <3>1, <3>2, <3>3, <3>4
  <2> HIDE DEF R, e, Q, u
  <2>5. Len(R) = k - 1
    <3>1. ~odml => k = 1
      BY <1>1, <2>3
    <3> QED
      BY <1>1, <2>3, <3>1
  <2>6. Len(Q) = k /\ Q[k] = e /\ \A j \in 1..k - 1 : Q[j] = R[j]
    BY <1>1, <2>4, <2>5
  <2>7. ASSUME NEW j \in 1..Len(Q) PROVE Q[j].pos = u[j + 1].base
    <3>1. CASE j = k
      BY <2>1, <2>4, <2>6, <3>1
    <3>2. CASE j # k
      <4>1. j \in 1..k - 1 /\ j + 1 \in 1..k
        BY <1>1, <2>6, <3>2
      <4> QED
        BY <2>1, <2>3, <2>5, <2>6, <4>1
    <3> QED
      BY <3>1, <3>2
  <2>8. OldIndexEnds(y.file, u[2].base, Len(l))
    <3>1. Extends(b.file, y.file) /\ Len(y.file) \in Nat
      BY <1>8, <1>15, <1>16
    <3>2. CASE k = 1
      <4>1. u[2].base = b.pos
        BY <2>1, <3>2
      <4> QED
        BY <1>6, <1>16, <3>1, <3>2, <4>1, OldIndexStays
    <3>3. CASE k # 1
      <4>1. odml /\ 2 \in 1..k
        BY <1>1, <2>3, <3>3
      <4>2. OldIndexEnds(x.file, u[2].base, Len(l))
        BY <2>1, <2>3, <4>1
      <4>3. Extends(x.file, b.file)
        BY <1>17 DEF Indexed
      <4> QED
        BY <1>16, <3>1, <4>2, <4>3, OldIndexStays
    <3> QED
      BY <3>2, <3>3
  <2>9. Len(u) > 1 /\ Len(Q) = Len(u) - 1
    BY <1>1, <2>1, <2>6
  <2> QED
    BY <2>1, <2>2, <2>7, <2>8, <2>9 DEF ListsInv, Q, u
<1>21. IxInv(y)
  <2> SUFFICES ASSUME NEW s \in Streams, NEW j \in 1..Len(y.super[s]), j # Len(y.super[s])
               PROVE  At(y.file, y.super[s][j].offset, IxOf(s, y.super[s][j]))
    BY DEF IxInv
  <2>1. x.super[s] # <<>>
    <3>1. ASSUME x.super[s] = <<>> PROVE FALSE
      <4>1. Len(y.super[s]) = 0
        BY <1>12, <1>15, <3>1
      <4> QED
        BY <4>1
    <3> QED
      BY <3>1
  <2>2. j \in 1..k /\ y.super[s] = sup[s]
    BY <1>1, <1>13, <1>15, <2>1
  <2>3. CASE j # k
    <3>1. sup[s][j] = x.super[s][j] /\ j \in 1..Len(x.super[s]) /\ j # Len(x.super[s])
      BY <1>2, <1>13, <2>1, <2>2, <2>3
    <3>2. At(x.file, x.super[s][j].offset, IxOf(s, x.super[s][j]))
      BY <3>1 DEF Sound, IxInv
    <3> QED
      BY <1>15, <1>18, <2>2, <3>1, <3>2
  <2>4. CASE j = k
    <3>1. sup[s][k] = a.super[s][k] /\ sup[s][k].base = x.super[s][k].base
          /\ sup[s][k].entries = x.super[s][k].entries
      BY <1>13, <2>1, <2>2, <2>4
    <3>2. IxOf(s, sup[s][k]) = IxOf(s, x.super[s][k])
      BY <3>1, IxSame
    <3>3. At(a.file, sup[s][k].offset, IxOf(s, sup[s][k]))
      BY <1>5, <2>1, <3>1, <3>2
    <3> QED
      BY <1>15, <1>19, <2>2, <2>4, <3>3
  <2> QED
    BY <2>3, <2>4
<1>22. ASSUME NEW s \in Streams PROVE StreamInv(y.file, y.super[s], s, ws[s], FALSE)
  <2>1. StreamInv(x.file, x.super[s], s, ws[s], FALSE)
    BY DEF Sound
  <2>2. DataOf(y.file, s) = DataOf(x.file, s)
    <3> DEFINE e == [pos |-> b.pos, chunk |-> r]
    <3>1. e \in Placed /\ e.chunk.tag # "data"
      BY <1>7, <1>11 DEF Placed
    <3>2. y.file = Append(b.file, e)
      BY <1>8, <1>15
    <3> HIDE DEF e
    <3>3. DataOf(Append(b.file, e), s) = DataOf(b.file, s)
      BY <1>16, <3>1, DataAppend
    <3>4. DataOf(b.file, s) = DataOf(x.file, s)
      BY <1>17, DataSame
    <3> QED
      BY <3>2, <3>3, <3>4
  <2>3. EntriesOf(y.super[s]) = EntriesOf(x.super[s])
    <3>1. CASE x.super[s] = <<>>
      BY <1>12, <1>15, <3>1
    <3>2. CASE x.super[s] # <<>>
      <4>1. y.super[s] = Append(a.super[s], Std(b.pos)) /\ a.super[s] \in Seq(StdType) /\ b.pos \in Nat
        BY <1>11, <1>13, <1>15, <3>2
      <4>2. EntriesOf(y.super[s]) = EntriesOf(a.super[s])
        BY <4>1, EntriesNew
      <4>3. Moved(x.super[s], a.super[s], k) /\ x.super[s] \in Seq(StdType)
        BY <1>1, <1>5, <3>2, WorkIs
      <4>4. EntriesOf(a.super[s]) = EntriesOf(x.super[s])
        BY <4>1, <4>3, EntriesSame DEF Moved
      <4> QED
        BY <4>2, <4>4
    <3> QED
      BY <3>1, <3>2
  <2> QED
    BY <1>15, <1>18, <2>1, <2>2, <2>3 DEF StreamInv
<1>23. Sound(y, Len(l), TRUE, ws, FALSE)
  BY <1>8, <1>15, <1>20, <1>21, <1>22 DEF Sound
<1>24. ASSUME NEW s \in Streams, x.super[s] # <<>>
       PROVE  y.super[s] # <<>> /\ y.super[s][1].entries = x.super[s][1].entries
  <2>1. 1 \in 1..k /\ Len(y.super[s]) = k + 1
    BY <1>1, <1>13, <1>15, <1>24
  <2>2. y.super[s] # <<>>
    BY <1>1, <2>1
  <2> QED
    BY <1>13, <1>15, <1>24, <2>1, <2>2
<1>25. KeepsFirst(x, y)
  BY <1>24 DEF KeepsFirst
<1> QED
  BY <1>23, <1>25 DEF y
\* A chunk is written: its entry in the last index of its stream, then the chunk, if it fits.
Added(x, s, len, no, ok) ==
  LET last == Len(x.super[s])
  IN  AddChunk([x EXCEPT !.super[s][last].entries = Append(@, EntryOf(x, s, len))], DataChunk(s, len, no), ok)

\* The last index of s has one entry more, for a chunk at the end of the file.
AddsAt(x, v, s, len) ==
  /\ EntriesOf(v.super[s]) = Append(EntriesOf(x.super[s]), [pos |-> x.pos + 8, len |-> len])
  /\ \A t \in Streams : t # s => v.super[t] = x.super[t]
  /\ v.super[s] # <<>>
  /\ Len(x.super[s]) = 1 \/ x.super[s][1].entries # <<>> => v.super[s][1].entries # <<>>

LEMMA AddIs ==
  ASSUME NEW x, NEW n, NEW odml \in BOOLEAN, NEW ws \in [Streams -> Seq(Nat)], Sound(x, n, odml, ws, FALSE),
         NEW s \in Streams, x.super[s] # <<>>, NEW len \in Nat, NEW ok \in BOOLEAN
  PROVE  LET v == Added(x, s, len, Len(ws[s]) + 1, ok)
         IN  /\ Sound(v, n, odml, IF ok THEN [ws EXCEPT ![s] = Append(@, len)] ELSE ws, ~ok)
             /\ AddsAt(x, v, s, len)
<1> DEFINE l == x.super[s]
           last == Len(l)
           e == EntryOf(x, s, len)
           m == [l EXCEPT ![last].entries = Append(@, e)]
           sup == [x.super EXCEPT ![s] = m]
           y == [x EXCEPT !.super = sup]
           d == DataChunk(s, len, Len(ws[s]) + 1)
           v == AddChunk([x EXCEPT !.super[s][last].entries = Append(@, e)], d, ok)
           ws2 == IF ok THEN [ws EXCEPT ![s] = Append(@, len)] ELSE ws
           z == [pos |-> x.pos + 8, len |-> len]
<1>1. x \in Work /\ Tiled(x.file, x.pos) /\ ListsInv(x, n, odml) /\ IxInv(x)
      /\ \A t \in Streams : StreamInv(x.file, x.super[t], t, ws[t], FALSE)
  BY DEF Sound
<1>2. /\ x.file \in Seq(Placed) /\ x.pos \in Nat /\ Len(x.file) \in Nat /\ l \in Seq(StdType)
      /\ x.super \in [Streams -> Seq(StdType)] /\ x = [file |-> x.file, pos |-> x.pos, super |-> x.super]
  BY <1>1 DEF Work, Supers
<1>3. last \in Nat /\ last \in 1..last /\ l # <<>> /\ l[last] \in StdType /\ l[last].base \in Nat
  <2>1. last \in 1..last /\ last \in Nat
    BY <1>2
  <2>2. l[last] \in StdType
    BY <1>2, <2>1, SeqIs
  <2> QED
    BY <2>1, <2>2 DEF StdType
<1>4. e = [off |-> x.pos - l[last].base + 8, len |-> len] /\ e \in StdEntry
      /\ e.off = x.pos - l[last].base + 8 /\ e.len = len
  BY <1>2, <1>3 DEF EntryOf, Last, StdEntry
<1>5. y = [x EXCEPT !.super[s][last].entries = Append(@, e)]
  BY <1>2
<1> HIDE DEF e
<1>6. /\ m \in Seq(StdType) /\ Len(m) = last /\ (\A k \in 1..last : m[k].base = l[k].base)
      /\ (\A k \in 1..last : k # last => m[k] = l[k]) /\ m[last].entries = Append(l[last].entries, e)
      /\ EntriesOf(m) = Append(EntriesOf(l), [pos |-> l[last].base + e.off, len |-> e.len])
  <2>1. \A r \in Seq(StdType), a \in StdEntry : r # <<>> =>
          LET n1 == Len(r)
              m1 == [r EXCEPT ![n1].entries = Append(@, a)]
          IN  /\ m1 \in Seq(StdType) /\ Len(m1) = n1 /\ (\A k \in 1..n1 : m1[k].base = r[k].base)
              /\ (\A k \in 1..n1 : k # n1 => m1[k] = r[k]) /\ m1[n1].entries = Append(r[n1].entries, a)
              /\ EntriesOf(m1) = Append(EntriesOf(r), [pos |-> r[n1].base + a.off, len |-> a.len])
    BY EntriesAdd, Zenon
  <2>2. l \in Seq(StdType) /\ e \in StdEntry /\ l # <<>>
    BY <1>2, <1>3, <1>4
  <2> HIDE DEF l
  <2> QED
    BY <2>1, <2>2, Zenon
<1> HIDE DEF m
<1>7. EntriesOf(m) = Append(EntriesOf(l), z)
  <2>1. l[last].base + e.off = x.pos + 8
    <3> DEFINE base == l[last].base
    <3>1. base \in Nat /\ x.pos \in Nat /\ e.off = x.pos - base + 8
      BY <1>2, <1>3, <1>4
    <3> HIDE DEF base
    <3>2. base + e.off = x.pos + 8
      BY <3>1
    <3> QED
      BY <3>2 DEF base
  <2> QED
    BY <1>4, <1>6, <2>1, Zenon
<1>8. sup[s] = m /\ (\A t \in Streams : t # s => sup[t] = x.super[t]) /\ sup \in Supers
  BY <1>2, <1>6 DEF Supers
<1>9. y \in Work /\ y.file = x.file /\ y.pos = x.pos /\ y.super = sup
  <2> HIDE DEF sup
  <2> QED
    BY <1>2, <1>8 DEF Work
<1> HIDE DEF sup
<1>10. v = AddChunk(y, d, ok)
  BY <1>5, Zenon
<1>11. /\ ws[s] \in Seq(Nat) /\ Len(ws[s]) \in Nat /\ Len(ws[s]) + 1 \in Nat
       /\ d \in ChunkType /\ d.tag = "data" /\ d.stream = s /\ d.len = len
  <2>1. ws[s] \in Seq(Nat) /\ Len(ws[s]) \in Nat
    OBVIOUS
  <2> DEFINE no == Len(ws[s]) + 1
  <2>2. no \in Nat
    BY <2>1
  <2> HIDE DEF no
  <2>3. DataChunk(s, len, no) \in ChunkType /\ DataChunk(s, len, no).tag = "data"
        /\ DataChunk(s, len, no).stream = s /\ DataChunk(s, len, no).len = len
    BY <2>2, ChunksAre
  <2> QED
    BY <2>1, <2>2, <2>3 DEF no
<1> HIDE DEF v, y, d
<1>12. Tiled(y.file, y.pos)
  BY <1>1, <1>9
<1>13. /\ v \in Work /\ Tiled(v.file, v.pos) /\ Extends(x.file, v.file)
       /\ ok => v.file = Append(x.file, [pos |-> x.pos, chunk |-> d]) /\ At(v.file, x.pos, d)
       /\ ~ok => v.file = x.file
  <2>1. v \in Work /\ Tiled(v.file, v.pos) /\ Extends(y.file, v.file)
    BY <1>9, <1>10, <1>11, <1>12, AddChunkIs
  <2>2. ok => v.file = Append(y.file, [pos |-> y.pos, chunk |-> d]) /\ At(v.file, y.pos, d)
    BY <1>9, <1>10, <1>11, <1>12, AddChunkIs
  <2>3. ~ok => v = y
    BY <1>9, <1>10, <1>11, <1>12, AddChunkIs
  <2> QED
    BY <1>9, <2>1, <2>2, <2>3
<1>14. v.super = sup
  <2>1. \A w \in Work, c \in ChunkType : Tiled(w.file, w.pos) => AddChunk(w, c, ok).super = w.super
    BY AddChunkIs
  <2> QED
    BY <1>9, <1>10, <1>11, <1>12, <2>1
<1>15. Len(v.file) \in Nat
  BY <1>13, WorkIs
<1> DEFINE a == [pos |-> x.pos, chunk |-> d]
<1>16. a \in Placed /\ a.pos = x.pos /\ a.chunk = d
  BY <1>2, <1>11 DEF Placed
<1> HIDE DEF a
<1>17. \A p, c : At(x.file, p, c) => At(v.file, p, c)
  BY <1>2, <1>13, <1>15, AtExtends
<1>18. \A t \in Streams : /\ Len(v.super[t]) = Len(x.super[t])
                          /\ \A k \in 1..Len(x.super[t]) : v.super[t][k].base = x.super[t][k].base
                          /\ \A k \in 1..Len(x.super[t]) : k # Len(x.super[t]) => v.super[t][k] = x.super[t][k]
  BY <1>6, <1>8, <1>14
<1>19. ListsInv(v, n, odml)
  <2>1. OfTag(v.file, "RIFF") = OfTag(x.file, "RIFF")
    <3>1. CASE ok
      <4>1. OfTag(Append(x.file, a), "RIFF") = OfTag(x.file, "RIFF")
        BY <1>2, <1>11, <1>16, OfTagAppend
      <4> QED
        BY <1>13, <3>1, <4>1 DEF a
    <3>2. CASE ~ok
      BY <1>13, <3>2
    <3> QED
      BY <3>1, <3>2
  <2>2. Video \in Streams /\ Len(x.super[Video]) \in Nat
    BY <1>1, StreamsAre, WorkIs
  <2> DEFINE R == OfTag(x.file, "RIFF")
             c == Len(x.super[Video])
  <2>3. /\ odml <=> c > 1
        /\ \A t \in Streams : x.super[t] = <<>> \/ Len(x.super[t]) = IF odml THEN c ELSE 1
        /\ Len(R) = IF odml THEN c - 1 ELSE 0
        /\ \A k \in 1..Len(R) : R[k].pos = x.super[Video][k + 1].base
        /\ odml => OldIndexEnds(x.file, x.super[Video][2].base, n)
    BY <1>1 DEF ListsInv
  <2>4. Len(v.super[Video]) = c
    BY <1>18, <2>2
  <2>5. \A t \in Streams : v.super[t] = <<>> \/ Len(v.super[t]) = IF odml THEN c ELSE 1
    <3>1. \A t \in Streams : x.super[t] = <<>> => v.super[t] = <<>>
      BY <1>3, <1>8, <1>14
    <3> QED
      BY <1>18, <2>3, <3>1
  <2> HIDE DEF R, c
  <2>6. ASSUME NEW k \in 1..Len(R) PROVE R[k].pos = v.super[Video][k + 1].base
    <3>1. odml /\ k + 1 \in 1..c
      <4>1. ~odml => Len(R) = 0
        BY <2>3
      <4>2. odml
        BY <4>1
      <4>3. Len(R) = c - 1 /\ c \in Nat
        BY <2>2, <2>3, <4>2 DEF c
      <4> QED
        BY <4>2, <4>3
    <3> QED
      BY <1>18, <2>2, <2>3, <3>1 DEF c
  <2>7. odml => OldIndexEnds(v.file, v.super[Video][2].base, n)
    <3> SUFFICES ASSUME odml PROVE OldIndexEnds(v.file, v.super[Video][2].base, n)
      OBVIOUS
    <3>1. 2 \in 1..c
      BY <2>2, <2>3 DEF c
    <3>2. v.super[Video][2].base = x.super[Video][2].base
      BY <1>18, <2>2, <3>1 DEF c
    <3> QED
      BY <1>2, <1>13, <1>15, <2>3, <3>2, OldIndexStays
  <2> QED
    BY <2>1, <2>3, <2>4, <2>5, <2>6, <2>7 DEF ListsInv, R
<1>20. IxInv(v)
  <2> SUFFICES ASSUME NEW t \in Streams, NEW k \in 1..Len(v.super[t]), k # Len(v.super[t])
               PROVE  At(v.file, v.super[t][k].offset, IxOf(t, v.super[t][k]))
    BY DEF IxInv
  <2>1. k \in 1..Len(x.super[t]) /\ k # Len(x.super[t]) /\ v.super[t][k] = x.super[t][k]
    BY <1>18
  <2>2. At(x.file, x.super[t][k].offset, IxOf(t, x.super[t][k]))
    BY <1>1, <2>1 DEF IxInv
  <2> QED
    BY <1>17, <2>1, <2>2
<1>21. \A t \in Streams : t # s => v.super[t] = x.super[t]
  BY <1>8, <1>14
<1>22. EntriesOf(v.super[s]) = Append(EntriesOf(l), z)
  BY <1>7, <1>8, <1>14
<1>23. ASSUME NEW t \in Streams PROVE StreamInv(v.file, v.super[t], t, ws2[t], ~ok)
  <2> DEFINE D == DataOf(x.file, t)
             D2 == DataOf(v.file, t)
             c == Len(ws[t])
             no == Len(ws[s]) + 1
  <2>1. /\ Len(D) = c
        /\ \A i \in 1..c : At(x.file, D[i].pos - 8, DataChunk(t, D[i].len, i))
        /\ EntriesOf(x.super[t]) = D
    BY <1>1 DEF StreamInv
  <2>2. c \in Nat /\ D \in Seq(Found8)
    <3>1. ws[t] \in Seq(Nat)
      OBVIOUS
    <3>2. c \in Nat
      BY <3>1
    <3>3. DataOf(x.file, t) \in Seq(Found8)
      BY <1>2, <1>16, DataAppend
    <3> QED
      BY <3>2, <3>3
  <2>3. z \in Found8 /\ z.pos = x.pos + 8 /\ z.len = len /\ z.pos - 8 = x.pos
    BY <1>2 DEF Found8
  <2> HIDE DEF D, D2, z, c
  <2>4. CASE ok /\ t = s
    <3>1. D2 = Append(D, z)
      <4>1. DataOf(Append(x.file, a), s) = Append(DataOf(x.file, s), [pos |-> a.pos + 8, len |-> a.chunk.len])
        BY <1>2, <1>11, <1>16, DataAppend
      <4> QED
        BY <1>11, <1>13, <1>16, <2>4, <4>1 DEF D, D2, a, z
    <3>2. Len(D2) = c + 1 /\ D2[c + 1] = z /\ \A i \in 1..c : D2[i] = D[i]
      BY <2>1, <2>2, <2>3, <3>1
    <3>3. Len(ws2[t]) = c + 1
      <4>1. ws2[t] = Append(ws[t], len)
        BY <2>4
      <4> QED
        BY <4>1 DEF c
    <3>4. ASSUME NEW i \in 1..c + 1 PROVE At(v.file, D2[i].pos - 8, DataChunk(t, D2[i].len, i))
      <4>1. CASE i = c + 1
        <5>1. d = DataChunk(t, D2[i].len, i)
          BY <2>3, <2>4, <3>2, <4>1 DEF d, c
        <5> QED
          BY <1>13, <2>3, <2>4, <3>2, <4>1, <5>1
      <4>2. CASE i # c + 1
        <5>1. i \in 1..c
          BY <2>2, <4>2
        <5> QED
          BY <1>17, <2>1, <3>2, <5>1
      <4> QED
        BY <4>1, <4>2
    <3>5. EntriesOf(v.super[t]) = D2
      BY <1>22, <2>1, <2>4, <3>1
    <3> QED
      BY <3>2, <3>3, <3>4, <3>5 DEF StreamInv, D2
  <2>5. CASE ~ (ok /\ t = s)
    <3>1. D2 = D
      <4>1. CASE ~ok
        BY <1>13, <4>1 DEF D, D2
      <4>2. CASE ok /\ t # s
        <5>1. DataOf(Append(x.file, a), t) = DataOf(x.file, t)
          BY <1>2, <1>11, <1>16, <4>2, DataAppend
        <5> QED
          BY <1>13, <4>2, <5>1 DEF D, D2, a
      <4> QED
        BY <2>5, <4>1, <4>2
    <3>2. ws2[t] = ws[t]
      BY <2>5
    <3>3. \A i \in 1..c : At(v.file, D2[i].pos - 8, DataChunk(t, D2[i].len, i))
      BY <1>17, <2>1, <3>1
    <3>4. \/ EntriesOf(v.super[t]) = D2
          \/ ~ok /\ \E u \in Found8 : EntriesOf(v.super[t]) = Append(D2, u) /\ NoData(v.file, u.pos - 8)
      <4>1. CASE t # s
        BY <1>21, <2>1, <3>1, <4>1
      <4>2. CASE t = s
        <5>1. ~ok /\ v.file = x.file
          BY <1>13, <2>5, <4>2
        <5>2. EntriesOf(v.super[t]) = Append(D2, z)
          BY <1>22, <2>1, <3>1, <4>2
        <5>3. NoData(x.file, x.pos)
          <6> SUFFICES ASSUME NEW i \in 1..Len(x.file), x.file[i].pos = x.pos PROVE FALSE
            BY DEF NoData
          <6>1. x.file[i] \in Placed /\ x.file[i].pos + 8 + Even(x.file[i].chunk.len) <= x.pos
            BY <1>1, <1>2, SeqIs DEF Tiled
          <6>2. x.file[i].chunk.len \in Nat
            BY <6>1 DEF Placed, ChunkType
          <6>3. Even(x.file[i].chunk.len) \in Nat
            BY <6>2, EvenIs
          <6> QED
            BY <1>2, <6>1, <6>3
        <5> QED
          BY <2>3, <5>1, <5>2, <5>3
      <4> QED
        BY <4>1, <4>2
    <3> QED
      BY <2>1, <3>1, <3>2, <3>3, <3>4 DEF StreamInv, D2, c
  <2> QED
    BY <2>4, <2>5
<1>24. Sound(v, n, odml, ws2, ~ok)
  BY <1>13, <1>19, <1>20, <1>23 DEF Sound
<1>25. v.super[s] # <<>> /\ Len(v.super[s]) = last
  BY <1>3, <1>6, <1>8, <1>14
<1>26. ASSUME last = 1 \/ l[1].entries # <<>> PROVE v.super[s][1].entries # <<>>
  <2>1. CASE last = 1
    <3>1. v.super[s][1].entries = Append(l[1].entries, e)
      BY <1>6, <1>8, <1>14, <2>1
    <3>2. l[1].entries \in Seq(StdEntry)
      BY <1>3, <2>1 DEF StdType
    <3>3. Append(l[1].entries, e) # <<>>
      <4>1. \A T : \A q \in Seq(T), u \in T : Append(q, u) # <<>>
        <5>1. \A T : \A q \in Seq(T), u \in T : Len(Append(q, u)) = Len(q) + 1 /\ Len(q) \in Nat
          OBVIOUS
        <5>2. Len(<<>>) = 0
          OBVIOUS
        <5>3. ASSUME NEW T, NEW q \in Seq(T), NEW u \in T PROVE Append(q, u) # <<>>
          <6>1. Len(Append(q, u)) = Len(q) + 1 /\ Len(q) \in Nat
            BY <5>1
          <6>2. ASSUME Append(q, u) = <<>> PROVE FALSE
            <7>1. Len(q) + 1 = 0
              BY <5>2, <6>1, <6>2
            <7> QED
              BY <6>1, <7>1
          <6> QED
            BY <6>2
        <5> QED
          BY <5>3
      <4>2. e \in StdEntry
        BY <1>4
      <4> QED
        BY <3>2, <4>1, <4>2
    <3> QED
      BY <3>1, <3>3
  <2>2. CASE last # 1
    <3>1. 1 \in 1..last /\ l[1].entries # <<>>
      BY <1>3, <1>26, <2>2
    <3>2. m[1] = l[1]
      BY <1>6, <2>2, <3>1
    <3> QED
      BY <1>8, <1>14, <3>1, <3>2
  <2> QED
    BY <2>1, <2>2
<1>27. AddsAt(x, v, s, len)
  BY <1>21, <1>22, <1>25, <1>26 DEF AddsAt, z
<1>28. v = Added(x, s, len, Len(ws[s]) + 1, ok)
  BY DEF Added, v, d, e
<1> QED
  BY <1>24, <1>27, <1>28
-----------------------------------------------------------------------------
(* The invariant *)

Here == [file |-> file, pos |-> pos, super |-> super]

\* While the file is written: the entries of the old index, if there is no other, are those
\* of the others, and the first list has a frame.
WriteInv ==
  /\ Sound(Here, Len(idx), isOpendml, wrote, full)
  /\ ~isOpendml => \A s \in Streams : Flat(s, idx) = EntriesOf(super[s])
  /\ super[Video] # <<>> => super[Video][1].entries # <<>>

\* When it is closed: what the reader will follow is in the file, unless the disk was full.
ClosedInv ==
  /\ Here \in Work /\ Tiled(file, pos)
  /\ \A s \in Streams : StreamInv(file, super[s], s, wrote[s], full)
  /\ header.opendml = isOpendml
  /\ isOpendml =>
       /\ Len(super[Video]) > 1 /\ super[Video][1].entries # <<>>
       /\ \A s \in Streams : \A k \in 1..Len(super[s]) :
            \/ At(file, super[s][k].offset, IxOf(s, super[s][k]))
            \/ full /\ k = Len(super[s]) /\ ChunksAt(super[s][k].offset) = {}
  /\ ~isOpendml =>
       /\ \A s \in Streams : Flat(s, idx) = EntriesOf(super[s])
       /\ IndexBehindMovi \subseteq {OldIndex(idx)}

AviInv ==
  /\ mode \in {"write", "closed", "read", "failed"}
  /\ isOpendml \in BOOLEAN /\ full \in BOOLEAN
  /\ idx \in Seq(OldEntry) /\ wrote \in [Streams -> Seq(Nat)]
  /\ mode = "write" => WriteInv
  /\ mode = "closed" => ClosedInv
  /\ ReadInv /\ RiffsTile /\ RoundTrip

\* A file without further lists says nothing of its old index.
LEMMA SoundAnyIndex ==
  ASSUME NEW x, NEW n, NEW ws, NEW fl, Sound(x, n, FALSE, ws, fl), NEW m
  PROVE  Sound(x, m, FALSE, ws, fl)
BY DEF Sound, ListsInv

LEMMA WriteKeeps ==
  ASSUME AviInv, NEW s \in Streams, NEW len \in Lengths, NEW ok \in BOOLEAN, Write(s, len, ok)
  PROVE  AviInv'
<1> DEFINE entries == IF isOpendml THEN idx ELSE Append(idx, [stream |-> s, pos |-> pos, len |-> len])
           begun   == IF super[s] = <<>> THEN [super EXCEPT ![s] = <<Std(0)>>] ELSE super
           new     == NeedsRiff(begun, Len(entries), len)
           here    == [file |-> file, pos |-> pos, super |-> begun]
           w       == IF new THEN NewRiff(here, entries) ELSE here
           last    == Len(w.super[s])
           v       == AddChunk([w EXCEPT !.super[s][last].entries = Append(@, EntryOf(w, s, len))],
                               DataChunk(s, len, Len(wrote[s]) + 1), ok)
           odml    == isOpendml \/ new
           wrote2  == IF ok THEN [wrote EXCEPT ![s] = Append(@, len)] ELSE wrote
<1>1. /\ mode = "write" /\ ~full
      /\ super[s] = <<>> => ~isOpendml
      /\ new => super[Video] # <<>>
      /\ idx' = entries /\ file' = v.file /\ pos' = v.pos /\ super' = v.super
      /\ isOpendml' = odml /\ full' = ~ok /\ wrote' = wrote2
      /\ UNCHANGED <<mode, header, lens, readVars>>
  BY Zenon DEF Write
<1>2. /\ Sound(Here, Len(idx), isOpendml, wrote, FALSE)
      /\ ~isOpendml => \A t \in Streams : Flat(t, idx) = EntriesOf(super[t])
      /\ super[Video] # <<>> => super[Video][1].entries # <<>>
      /\ isOpendml \in BOOLEAN /\ idx \in Seq(OldEntry) /\ wrote \in [Streams -> Seq(Nat)]
  <2>1. WriteInv /\ full = FALSE /\ isOpendml \in BOOLEAN /\ idx \in Seq(OldEntry)
        /\ wrote \in [Streams -> Seq(Nat)]
    BY <1>1, Zenon DEF AviInv
  <2> QED
    BY <2>1, Zenon DEF WriteInv
<1>3. len \in Nat /\ Video \in Streams
  BY AviConstants, StreamsAre
<1> HIDE DEF v, w, here, begun, new, entries, wrote2
<1>4. /\ Sound(here, Len(idx), isOpendml, wrote, FALSE) /\ here.super[s] # <<>>
      /\ \A t \in Streams : EntriesOf(here.super[t]) = EntriesOf(super[t])
      /\ \A t \in Streams : super[t] # <<>> => here.super[t] = super[t]
      /\ \A t \in Streams : t # s => here.super[t] = super[t]
      /\ super[s] = <<>> => here.super[s] = <<Std(0)>>
  <2>1. Here.file = file /\ Here.pos = pos /\ Here.super = super
    BY DEF Here
  <2> DEFINE x == Here
  <2> HIDE DEF x
  <2>2. Sound(Begun(x, s), Len(idx), isOpendml, wrote, FALSE) /\ BeginsAt(x, Begun(x, s), s)
    <3> DEFINE n == Len(idx)
    <3>1. Sound(x, n, isOpendml, wrote, FALSE) /\ (x.super[s] = <<>> => ~isOpendml) /\ isOpendml \in BOOLEAN
      BY <1>1, <1>2, <2>1 DEF x
    <3> HIDE DEF n
    <3>2. Sound(Begun(x, s), n, isOpendml, wrote, FALSE) /\ BeginsAt(x, Begun(x, s), s)
      BY <3>1, BeginIs
    <3> QED
      BY <3>2 DEF n
  <2>3. Begun(x, s) = here
    BY <2>1, Zenon DEF Begun, BegunSuper, here, begun, x
  <2>4. BeginsAt(x, here, s) /\ x.super = super
    BY <2>1, <2>2, <2>3 DEF x
  <2> QED
    BY <2>2, <2>3, <2>4 DEF BeginsAt
<1>5. here.pos = pos /\ here.file = file /\ here.super = begun /\ pos \in Nat
  <2>1. here.pos = pos /\ here.file = file /\ here.super = begun
    BY DEF here
  <2>2. here \in Work
    BY <1>4 DEF Sound
  <2>3. here.pos \in Nat
    BY <2>2, WorkIs
  <2> QED
    BY <2>1, <2>3
<1> DEFINE e == [stream |-> s, pos |-> pos, len |-> len]
<1>6. e \in OldEntry /\ e.stream = s /\ e.pos = pos /\ e.len = len
  BY <1>3, <1>5 DEF OldEntry
<1> HIDE DEF e
<1>7. entries = (IF isOpendml THEN idx ELSE Append(idx, e)) /\ entries \in Seq(OldEntry)
  BY <1>2, <1>6 DEF entries, e
<1>8. /\ Sound(w, Len(entries), odml, wrote, FALSE)
      /\ \A t \in Streams : here.super[t] # <<>> =>
           w.super[t] # <<>> /\ (new => w.super[t][1].entries = here.super[t][1].entries)
  <2>1. CASE new
    <3>1. here.super[Video] # <<>>
      BY <2>1, <1>5 DEF new, NeedsRiff
    <3>2. isOpendml => Len(idx) = Len(entries)
      BY <1>7
    <3>3. w = NewRiff(here, entries) /\ odml = TRUE
      BY <2>1 DEF w
    <3>4. Sound(NewRiff(here, entries), Len(entries), TRUE, wrote, FALSE)
          /\ KeepsFirst(here, NewRiff(here, entries))
      BY <1>2, <1>4, <1>7, <3>1, <3>2, NewRiffIs
    <3> QED
      BY <3>3, <3>4 DEF KeepsFirst
  <2>2. CASE ~new
    <3>1. w = here
      BY <2>2 DEF w
    <3>2. CASE isOpendml
      <4>1. entries = idx /\ odml = isOpendml
        BY <1>2, <1>7, <3>2
      <4> QED
        BY <1>4, <2>2, <3>1, <4>1
    <3>3. CASE ~isOpendml
      <4>1. isOpendml = FALSE /\ odml = FALSE
        BY <1>2, <2>2, <3>3
      <4> HIDE DEF odml
      <4>2. Sound(here, Len(entries), FALSE, wrote, FALSE)
        BY <1>4, <4>1, SoundAnyIndex
      <4> QED
        BY <2>2, <3>1, <4>1, <4>2
    <3> QED
      BY <3>2, <3>3
  <2> QED
    BY <2>1, <2>2
<1>9. odml \in BOOLEAN
  OBVIOUS
<1> HIDE DEF odml
<1>10. /\ Sound(v, Len(entries), odml, wrote2, ~ok)
       /\ EntriesOf(v.super[s]) = Append(EntriesOf(w.super[s]), [pos |-> w.pos + 8, len |-> len])
       /\ \A t \in Streams : t # s => v.super[t] = w.super[t]
       /\ v.super[s] # <<>>
       /\ Len(w.super[s]) = 1 \/ w.super[s][1].entries # <<>> => v.super[s][1].entries # <<>>
  <2>1. w.super[s] # <<>>
    BY <1>4, <1>8
  <2> DEFINE n == Len(entries)
  <2> HIDE DEF n
  <2>2. /\ Sound(Added(w, s, len, Len(wrote[s]) + 1, ok), n, odml,
                  IF ok THEN [wrote EXCEPT ![s] = Append(@, len)] ELSE wrote, ~ok)
        /\ AddsAt(w, Added(w, s, len, Len(wrote[s]) + 1, ok), s, len)
    <3>1. Sound(w, n, odml, wrote, FALSE)
      BY <1>8 DEF n
    <3> QED
      BY <1>2, <1>3, <1>9, <2>1, <3>1, AddIs
  <2>3. Added(w, s, len, Len(wrote[s]) + 1, ok) = v
    BY DEF Added, v
  <2>4. Sound(v, n, odml, wrote2, ~ok) /\ AddsAt(w, v, s, len)
    BY <2>2, <2>3 DEF wrote2
  <2> QED
    BY <2>4 DEF AddsAt, n
<1>11. Here' = v
  <2>1. v \in Work
    BY <1>10 DEF Sound
  <2> HIDE DEF v
  <2>2. v = [file |-> v.file, pos |-> v.pos, super |-> v.super]
    BY <2>1 DEF Work
  <2> QED
    BY <1>1, <2>2 DEF Here, v
<1>12. Sound(Here', Len(idx'), isOpendml', wrote', full')
  BY <1>1, <1>10, <1>11
<1>13. ASSUME ~isOpendml', NEW t \in Streams PROVE Flat(t, idx') = EntriesOf(super'[t])
  <2>1. ~isOpendml /\ ~new
    BY <1>1, <1>13 DEF odml
  <2>2. entries = Append(idx, e) /\ w = here
    BY <1>7, <2>1 DEF w
  <2>3. Flat(t, entries) = IF s = t THEN Append(Flat(t, idx), [pos |-> pos + 8, len |-> len]) ELSE Flat(t, idx)
    BY <1>2, <1>6, <2>2, FlatAppend
  <2>4. EntriesOf(w.super[t]) = Flat(t, idx)
    BY <1>2, <1>4, <2>1, <2>2
  <2>5. w.pos = pos
    BY <1>5, <2>2
  <2>6. CASE t = s
    BY <1>1, <1>10, <2>3, <2>4, <2>5, <2>6
  <2>7. CASE t # s
    BY <1>1, <1>10, <2>3, <2>4, <2>7
  <2> QED
    BY <2>6, <2>7
<1>14. ASSUME super'[Video] # <<>> PROVE super'[Video][1].entries # <<>>
  <2>1. CASE super[Video] # <<>>
    <3>1. here.super[Video] = super[Video] /\ super[Video][1].entries # <<>>
      BY <1>2, <1>3, <1>4, <2>1
    <3>2. w.super[Video][1].entries # <<>>
      <4>1. CASE new
        BY <1>3, <1>8, <2>1, <3>1, <4>1
      <4>2. CASE ~new
        <5>1. w = here
          BY <4>2 DEF w
        <5> QED
          BY <3>1, <5>1
      <4> QED
        BY <4>1, <4>2
    <3>3. CASE Video = s
      BY <1>1, <1>10, <3>2, <3>3
    <3>4. CASE Video # s
      <4>1. v.super[Video] = w.super[Video]
        BY <1>3, <1>10, <3>4
      <4> QED
        BY <1>1, <3>2, <4>1
    <3> QED
      BY <3>3, <3>4
  <2>2. CASE super[Video] = <<>>
    <3>1. w = here
      BY <1>1, <2>2 DEF w
    <3>2. CASE Video = s
      <4>1. w.super[s] = <<Std(0)>>
        BY <1>4, <2>2, <3>1, <3>2
      <4>2. Len(w.super[s]) = 1
        BY <4>1
      <4> QED
        BY <1>1, <1>10, <3>2, <4>2
    <3>3. CASE Video # s
      <4>1. v.super[Video] = <<>>
        BY <1>3, <1>4, <1>10, <2>2, <3>1, <3>3
      <4> QED
        BY <1>1, <1>14, <4>1
    <3> QED
      BY <3>2, <3>3
  <2> QED
    BY <2>1, <2>2
<1>15. WriteInv'
  <2>1. Sound(Here, Len(idx), isOpendml, wrote, full)'
    BY <1>12
  <2> QED
    BY <1>13, <1>14, <2>1 DEF WriteInv
<1>16. mode' = "write" /\ isOpendml' \in BOOLEAN /\ full' \in BOOLEAN /\ idx' \in Seq(OldEntry)
       /\ wrote' \in [Streams -> Seq(Nat)]
  <2>1. wrote2 \in [Streams -> Seq(Nat)]
    BY <1>2, <1>3 DEF wrote2
  <2> QED
    BY <1>1, <1>7, <1>9, <2>1
<1>17. ReadInv'
  <2>1. posc = 1 /\ posb = 0 /\ want = 0 /\ byte = 0
    BY <1>1 DEF AviInv, ReadInv
  <2> QED
    BY <1>1, <2>1 DEF ReadInv, readVars
<1>18. RiffsTile' /\ RoundTrip'
  BY <1>16 DEF RiffsTile, RoundTrip
<1> QED
  BY <1>15, <1>16, <1>17, <1>18 DEF AviInv
\* The chunks of a file with a tag.
LEMMA SeqOfTag ==
  \A f \in Seq(Placed) : \A tag : OfTag(f, tag) \in Seq(Placed)
<1> SUFFICES ASSUME NEW f \in Seq(Placed), NEW tag PROVE OfTag(f, tag) \in Seq(Placed)
  OBVIOUS
<1> DEFINE I == {i \in DOMAIN f : f[i].chunk.tag = tag}
<1> HIDE DEF I
<1>1. Pick(f, I) \in Seq(Placed)
  <2>1. PICK g \in [0..Len(f) -> Seq(Placed)] : Pick(f, I) = g[Len(f)]
    BY PickIs
  <2> QED
    BY <2>1
<1> QED
  BY <1>1 DEF OfTag, I

\* Nothing lies at the end of a file, or behind it.
LEMMA BeforeEnd ==
  ASSUME NEW f \in Seq(Placed), NEW p \in Nat, Tiled(f, p), NEW i \in 1..Len(f)
  PROVE  f[i].pos \in Nat /\ f[i].pos < p
<1>1. f[i] \in Placed /\ f[i].pos + 8 + Even(f[i].chunk.len) <= p
  BY SeqIs DEF Tiled
<1>2. f[i].chunk.len \in Nat /\ f[i].pos \in Nat
  BY <1>1 DEF Placed, ChunkType
<1>3. Even(f[i].chunk.len) \in Nat
  BY <1>2, EvenIs
<1> QED
  BY <1>1, <1>2, <1>3

\* Indices behind the chunks change nothing for a stream.
LEMMA StreamStays ==
  ASSUME NEW f \in Seq(Placed), NEW g \in Seq(Placed), Indexed(f, g), NEW l, NEW m,
         EntriesOf(m) = EntriesOf(l), NEW s, NEW ws, NEW fl, StreamInv(f, l, s, ws, fl)
  PROVE  StreamInv(g, m, s, ws, fl)
<1>1. Len(f) \in Nat /\ Len(g) \in Nat
  OBVIOUS
<1>2. \A p, c : At(f, p, c) => At(g, p, c)
  BY <1>1, AtExtends DEF Indexed
<1>3. \A p : NoData(f, p) => NoData(g, p)
  BY <1>1, IndexedExtends
<1>4. DataOf(g, s) = DataOf(f, s)
  BY DataSame
<1> QED
  BY <1>2, <1>3, <1>4 DEF StreamInv

\* The file is closed in one list: the old index, if it fits.
LEMMA CloseOneKeeps ==
  ASSUME AviInv, Close, ~isOpendml
  PROVE  ClosedInv' /\ RiffsTile'
<1> DEFINE o == OldIndex(idx)
           n == Len(idx)
<1>1. PICK ok \in BOOLEAN :
        LET w == AddChunk(Here, o, ok)
        IN  /\ ~ok => full
            /\ file' = w.file /\ pos' = w.pos /\ super' = w.super
            /\ header' = [riffLen |-> w.pos - 8, moviLen |-> pos - HeaderBytes + 4, opendml |-> FALSE]
            /\ Len(lens') = 0
  <2>1. PICK ok \in IF full THEN BOOLEAN ELSE {TRUE} :
          LET here  == [file |-> file, pos |-> pos, super |-> super]
              lists == Len(super[Video])
              w     == IF isOpendml THEN WriteIndices(here, lists, ok)
                                    ELSE AddChunk(here, OldIndex(idx), ok)
              start(k) == IF k > lists THEN w.pos ELSE super[Video][k].base
          IN  /\ file' = w.file /\ pos' = w.pos /\ super' = w.super
              /\ header' = IF isOpendml
                           THEN [riffLen |-> start(2) - 8, moviLen |-> FirstMoviLen(start(2), Len(idx)),
                                 opendml |-> TRUE]
                           ELSE [riffLen |-> w.pos - 8, moviLen |-> pos - HeaderBytes + 4,
                                 opendml |-> FALSE]
              /\ lens' = [k \in 1..IF isOpendml THEN lists - 1 ELSE 0 |->
                            LET len == start(k + 2) - start(k + 1) - 8
                            IN  [riff |-> len, movi |-> len - 12]]
    BY Zenon DEF Close
  <2>2. ok \in BOOLEAN /\ (~ok => full)
    OBVIOUS
  <2> DEFINE w == AddChunk(Here, o, ok)
  <2>3. /\ file' = w.file /\ pos' = w.pos /\ super' = w.super
        /\ header' = [riffLen |-> w.pos - 8, moviLen |-> pos - HeaderBytes + 4, opendml |-> FALSE]
    BY <2>1, Zenon DEF Here
  <2>4. Len(lens') = 0
    BY <2>1
  <2> QED
    BY <2>2, <2>3, <2>4
<1> DEFINE w == AddChunk(Here, o, ok)
<1>2. mode = "write" /\ mode' = "closed" /\ UNCHANGED <<idx, isOpendml, full, wrote>>
  BY DEF Close
<1>3. /\ Sound(Here, n, isOpendml, wrote, full) /\ idx \in Seq(OldEntry)
      /\ \A s \in Streams : Flat(s, idx) = EntriesOf(super[s])
      /\ isOpendml \in BOOLEAN /\ n \in Nat
  BY <1>2 DEF AviInv, WriteInv
<1>4. Here.file = file /\ Here.pos = pos /\ Here.super = super
  BY DEF Here
<1>5. Here \in Work /\ Tiled(Here.file, Here.pos)
  BY <1>3 DEF Sound
<1>6. o \in ChunkType /\ o.tag = "idx1" /\ o.len = 16 * n
  BY <1>3, ChunksAre
<1> HIDE DEF o, n, w
<1>7. /\ w \in Work /\ Tiled(w.file, w.pos) /\ Indexed(file, w.file)
      /\ ok => w.file = Append(file, [pos |-> pos, chunk |-> o]) /\ w.pos = pos + 8 + Even(o.len) /\ At(w.file, pos, o)
      /\ ~ok => w.file = file /\ w.pos = pos
  <2> DEFINE x == Here
  <2>1. x \in Work /\ Tiled(x.file, x.pos) /\ w = AddChunk(x, o, ok)
    BY <1>5 DEF w
  <2>2. x.file = file /\ x.pos = pos
    BY <1>4
  <2> HIDE DEF x
  <2>3. w \in Work /\ Tiled(w.file, w.pos) /\ Indexed(x.file, w.file)
    BY <1>6, <2>1, AddChunkIs
  <2>4. ok => w.file = Append(x.file, [pos |-> x.pos, chunk |-> o]) /\ w.pos = x.pos + 8 + Even(o.len)
              /\ At(w.file, x.pos, o)
    BY <1>6, <2>1, AddChunkIs
  <2>5. ~ok => w = x
    BY <1>6, <2>1, AddChunkIs
  <2> QED
    BY <2>2, <2>3, <2>4, <2>5
<1>8. w.super = super
  <2>1. \A x \in Work, c \in ChunkType : Tiled(x.file, x.pos) => AddChunk(x, c, ok).super = x.super
    BY AddChunkIs
  <2> QED
    BY <1>4, <1>5, <1>6, <2>1 DEF w
<1>9. /\ file' = w.file /\ pos' = w.pos /\ super' = super
      /\ header'.riffLen = w.pos - 8 /\ header'.moviLen = pos - HeaderBytes + 4 /\ header'.opendml = FALSE
      /\ Len(lens') = 0 /\ (~ok => full)
  BY <1>1, <1>8 DEF w
<1>10. file \in Seq(Placed) /\ pos \in Nat /\ w.file \in Seq(Placed) /\ w.pos \in Nat
  BY <1>4, <1>5, <1>7, WorkIs
<1>11. pos % 2 = 0 /\ pos >= HeaderBytes /\ HeaderBytes \in Nat /\ HeaderBytes % 2 = 0
  BY <1>4, <1>5, AviConstants DEF Tiled
<1>12. HeaderBytes - 4 + Even(header'.moviLen) = pos /\ HeaderBytes - 4 + header'.moviLen = pos
  <2> DEFINE m == pos - HeaderBytes + 4
  <2>1. m \in Nat /\ m % 2 = 0 /\ HeaderBytes - 4 + m = pos
    BY <1>10, <1>11
  <2>2. header'.moviLen = m
    BY <1>9
  <2> HIDE DEF m
  <2>3. Even(m) = m
    BY <2>1, EvenIs
  <2> QED
    BY <2>1, <2>2, <2>3
<1>13. ASSUME NEW i \in 1..Len(w.file), w.file[i].pos = pos PROVE ok /\ w.file[i].chunk = o
  <2>1. \A j \in 1..Len(file) : file[j].pos < pos
    BY <1>4, <1>5, <1>10, BeforeEnd
  <2>2. CASE ok
    <3>1. w.file = Append(file, [pos |-> pos, chunk |-> o]) /\ Len(file) \in Nat
      BY <1>7, <1>10, <2>2
    <3>2. i \in 1..Len(file) => w.file[i] = file[i]
      BY <1>10, <3>1
    <3>3. i \notin 1..Len(file)
      BY <1>10, <1>13, <2>1, <3>2
    <3>4. Len(w.file) = Len(file) + 1 /\ w.file[Len(file) + 1] = [pos |-> pos, chunk |-> o]
      BY <1>10, <3>1
    <3>5. i = Len(file) + 1
      BY <1>13, <3>1, <3>3, <3>4
    <3> QED
      BY <2>2, <3>4, <3>5
  <2>3. CASE ~ok
    BY <1>7, <1>10, <1>13, <2>1, <2>3
  <2> QED
    BY <2>2, <2>3
<1>14. ClosedInv'
  <2>1. Here' = w
    <3>1. w = [file |-> w.file, pos |-> w.pos, super |-> w.super]
      BY <1>7 DEF Work
    <3> QED
      BY <1>8, <1>9, <3>1 DEF Here
  <2>2. (Here \in Work /\ Tiled(file, pos))'
    BY <1>7, <1>9, <2>1
  <2>3. ASSUME NEW s \in Streams PROVE StreamInv(file, super[s], s, wrote[s], full)'
    <3>1. StreamInv(file, super[s], s, wrote[s], full)
      BY <1>3, <1>4 DEF Sound
    <3>2. StreamInv(w.file, super[s], s, wrote[s], full)
      BY <1>7, <1>10, <3>1, StreamStays
    <3> QED
      BY <1>2, <1>9, <3>2
  <2>4. ~isOpendml' /\ header'.opendml = isOpendml'
    BY <1>2, <1>3, <1>9
  <2>5. \A s \in Streams : Flat(s, idx') = EntriesOf(super'[s])
    BY <1>2, <1>3, <1>9
  <2>6. IndexBehindMovi' \subseteq {OldIndex(idx')}
    <3>1. \A c \in IndexBehindMovi' : \E i \in 1..Len(w.file) : w.file[i].pos = pos /\ w.file[i].chunk = c
      BY <1>9, <1>10, <1>12 DEF IndexBehindMovi, ChunksAt
    <3> QED
      BY <1>2, <1>13, <3>1 DEF o
  <2> QED
    BY <2>2, <2>3, <2>4, <2>5, <2>6 DEF ClosedInv
<1>15. RiffsTile'
  <2>1. OfTag(file', "RIFF") = OfTag(file, "RIFF") /\ OfTag(file, "RIFF") \in Seq(Placed)
    BY <1>7, <1>9, <1>10, SeqOfTag DEF Indexed
  <2>2. Len(OfTag(file, "RIFF")) = 0
    BY <1>3, <1>4 DEF Sound, ListsInv
  <2> DEFINE behind == HeaderBytes - 4 + header'.moviLen
             at(p)  == {file'[i].chunk : i \in {j \in DOMAIN file' : file'[j].pos = p}}
  <2>3. behind = pos
    BY <1>12
  <2>4. 8 + header'.riffLen = w.pos
    BY <1>9, <1>10
  <2>5. \/ full' /\ behind = w.pos
        \/ \E c \in at(behind) : c.tag = "idx1" /\ behind + 8 + c.len = w.pos
    <3>1. CASE ~ok
      BY <1>2, <1>7, <1>9, <2>3, <3>1
    <3>2. CASE ok
      <4>1. 16 * n \in Nat /\ (16 * n) % 2 = 0
        BY <1>3
      <4>2. Even(o.len) = o.len
        BY <1>6, <4>1, EvenIs
      <4>3. w.pos = pos + 8 + o.len
        BY <1>7, <3>2, <4>2
      <4>4. o \in at(pos)
        BY <1>7, <1>9, <1>10, <3>2 DEF At
      <4> QED
        BY <1>6, <2>3, <4>3, <4>4
    <3> QED
      BY <3>1, <3>2
  <2>6. OfTag(file', "RIFF") = <<>>
    BY <2>1, <2>2
  <2>7. Len(OfTag(file', "RIFF")) = 0 /\ DOMAIN OfTag(file', "RIFF") = {}
    BY <2>6
  <2> QED
    BY <1>9, <2>4, <2>5, <2>7 DEF RiffsTile, ChunksAt
<1> QED
  BY <1>14, <1>15
\* The file is closed in several lists: the indices of the last one, if they fit.
LEMMA CloseManyKeeps ==
  ASSUME AviInv, Close, isOpendml
  PROVE  ClosedInv' /\ RiffsTile'
<1> DEFINE N == Len(super[Video])
           n == Len(idx)
           start(p, k) == IF k > N THEN p ELSE super[Video][k].base
<1>1. PICK ok \in BOOLEAN :
        LET w == WriteIndices(Here, N, ok)
        IN  /\ ~ok => full
            /\ file' = w.file /\ pos' = w.pos /\ super' = w.super
            /\ header' = [riffLen |-> start(w.pos, 2) - 8, moviLen |-> FirstMoviLen(start(w.pos, 2), n),
                          opendml |-> TRUE]
            /\ lens' = [k \in 1..N - 1 |->
                          LET len == start(w.pos, k + 2) - start(w.pos, k + 1) - 8
                          IN  [riff |-> len, movi |-> len - 12]]
  <2>1. PICK ok \in IF full THEN BOOLEAN ELSE {TRUE} :
          LET here  == [file |-> file, pos |-> pos, super |-> super]
              lists == Len(super[Video])
              w     == IF isOpendml THEN WriteIndices(here, lists, ok)
                                    ELSE AddChunk(here, OldIndex(idx), ok)
              begin(k) == IF k > lists THEN w.pos ELSE super[Video][k].base
          IN  /\ file' = w.file /\ pos' = w.pos /\ super' = w.super
              /\ header' = IF isOpendml
                           THEN [riffLen |-> begin(2) - 8, moviLen |-> FirstMoviLen(begin(2), Len(idx)),
                                 opendml |-> TRUE]
                           ELSE [riffLen |-> w.pos - 8, moviLen |-> pos - HeaderBytes + 4,
                                 opendml |-> FALSE]
              /\ lens' = [k \in 1..IF isOpendml THEN lists - 1 ELSE 0 |->
                            LET len == begin(k + 2) - begin(k + 1) - 8
                            IN  [riff |-> len, movi |-> len - 12]]
    BY Zenon DEF Close
  <2>2. ok \in BOOLEAN /\ (~ok => full)
    OBVIOUS
  <2> DEFINE w == WriteIndices(Here, N, ok)
  <2>3. /\ file' = w.file /\ pos' = w.pos /\ super' = w.super
        /\ header' = [riffLen |-> start(w.pos, 2) - 8, moviLen |-> FirstMoviLen(start(w.pos, 2), n),
                      opendml |-> TRUE]
    BY <2>1, Zenon DEF Here
  <2>4. lens' = [k \in 1..N - 1 |-> LET len == start(w.pos, k + 2) - start(w.pos, k + 1) - 8
                                    IN  [riff |-> len, movi |-> len - 12]]
    BY <2>1, Zenon DEF Here
  <2> QED
    BY <2>2, <2>3, <2>4
<1> DEFINE w == WriteIndices(Here, N, ok)
<1>2. mode = "write" /\ mode' = "closed" /\ UNCHANGED <<idx, isOpendml, full, wrote>>
  BY DEF Close
<1>3. /\ Sound(Here, n, isOpendml, wrote, full) /\ idx \in Seq(OldEntry) /\ n \in Nat
      /\ super[Video] # <<>> => super[Video][1].entries # <<>>
  <2>1. WriteInv /\ idx \in Seq(OldEntry)
    BY <1>2 DEF AviInv
  <2>2. Sound(Here, n, isOpendml, wrote, full) /\ (super[Video] # <<>> => super[Video][1].entries # <<>>)
    BY <2>1, Zenon DEF WriteInv
  <2>3. n \in Nat
    BY <2>1
  <2> QED
    BY <2>1, <2>2, <2>3
<1>4. Here.file = file /\ Here.pos = pos /\ Here.super = super
  BY DEF Here
<1>5. Here \in Work /\ Tiled(file, pos)
  BY <1>3, <1>4 DEF Sound
<1>6. file \in Seq(Placed) /\ pos \in Nat /\ \A s \in Streams : super[s] \in Seq(StdType) /\ Len(super[s]) \in Nat
  BY <1>4, <1>5, WorkIs
<1>7. /\ N \in Nat /\ N > 1
      /\ \A s \in Streams : super[s] # <<>> => Len(super[s]) = N
      /\ Len(OfTag(file, "RIFF")) = N - 1
      /\ \A k \in 1..N - 1 : OfTag(file, "RIFF")[k].pos = super[Video][k + 1].base
      /\ OldIndexEnds(file, super[Video][2].base, n)
  BY <1>3, <1>4, <1>6, StreamsAre DEF Sound, ListsInv, AviInv
<1>8. \A s \in Streams : \A k \in 1..Len(super[s]) : k # Len(super[s]) =>
        At(file, super[s][k].offset, IxOf(s, super[s][k]))
  BY <1>3, <1>4 DEF Sound, IxInv
<1> DEFINE card == Cardinality(Streams)
<1> HIDE DEF n, w, start, card
<1>9. IndicesWritten(Here, w, card, N, ok)
  <2>1. \A t \in Streams : Here.super[t] # <<>> => N \in 1..Len(Here.super[t])
    BY <1>4, <1>7
  <2>2. Tiled(Here.file, Here.pos)
    BY <1>4, <1>5
  <2> HIDE DEF N
  <2> QED
    BY <1>5, <2>1, <2>2, WriteIndicesIs DEF w, card
<1>10. /\ w \in Work /\ Tiled(w.file, w.pos) /\ Indexed(file, w.file)
       /\ ~ok => w.file = file /\ w.pos = pos
       /\ \A t \in Streams : super[t] = <<>> => w.super[t] = <<>>
       /\ \A t \in Streams : super[t] # <<>> =>
            /\ Moved(super[t], w.super[t], N)
            /\ IF ok THEN At(w.file, w.super[t][N].offset, IxOf(t, super[t][N]))
                     ELSE w.super[t][N].offset = pos
  <2>1. \A t \in Streams : t < card
    BY StreamsAre DEF card
  <2> HIDE DEF N
  <2> QED
    BY <1>4, <1>9, <2>1 DEF IndicesWritten
<1>11. /\ file' = w.file /\ pos' = w.pos /\ super' = w.super /\ (~ok => full)
       /\ header'.riffLen = start(w.pos, 2) - 8
       /\ header'.moviLen = FirstMoviLen(start(w.pos, 2), n) /\ header'.opendml = TRUE
       /\ lens' = [k \in 1..N - 1 |-> LET len == start(w.pos, k + 2) - start(w.pos, k + 1) - 8
                                      IN  [riff |-> len, movi |-> len - 12]]
  BY <1>1 DEF w
<1>12. /\ w.file \in Seq(Placed) /\ w.pos \in Nat /\ Len(file) \in Nat /\ Len(w.file) \in Nat
       /\ \A s \in Streams : w.super[s] \in Seq(StdType)
       /\ \A s \in Streams : \A k \in 1..Len(super[s]) : super[s][k].base \in Nat
  BY <1>4, <1>5, <1>6, <1>10, WorkIs
<1> HIDE DEF N
<1>13. ASSUME NEW s \in Streams, super[s] # <<>>
       PROVE  /\ Len(w.super[s]) = N
              /\ \A k \in 1..N : w.super[s][k].base = super[s][k].base /\ w.super[s][k].entries = super[s][k].entries
              /\ \A k \in 1..N : k # N => w.super[s][k] = super[s][k]
  BY <1>7, <1>10, <1>13 DEF Moved
<1>14. ClosedInv'
  <2>1. Here' = w
    <3>1. w = [file |-> w.file, pos |-> w.pos, super |-> w.super]
      BY <1>10 DEF Work
    <3> QED
      BY <1>11, <3>1 DEF Here
  <2>2. (Here \in Work /\ Tiled(file, pos))'
    BY <1>10, <1>11, <2>1
  <2>3. ASSUME NEW s \in Streams PROVE StreamInv(file, super[s], s, wrote[s], full)'
    <3>1. StreamInv(file, super[s], s, wrote[s], full)
      BY <1>3, <1>4 DEF Sound
    <3>2. EntriesOf(w.super[s]) = EntriesOf(super[s])
      <4>1. CASE super[s] = <<>>
        BY <1>10, <4>1
      <4>2. CASE super[s] # <<>>
        <5>1. /\ Len(w.super[s]) = Len(super[s])
              /\ \A k \in 1..Len(super[s]) :
                   w.super[s][k].base = super[s][k].base /\ w.super[s][k].entries = super[s][k].entries
          BY <1>7, <1>13, <4>2
        <5> QED
          BY <1>6, <1>12, <5>1, EntriesSame
      <4> QED
        BY <4>1, <4>2
    <3>3. StreamInv(w.file, w.super[s], s, wrote[s], full)
      BY <1>6, <1>10, <1>12, <3>1, <3>2, StreamStays
    <3> QED
      BY <1>2, <1>11, <3>3
  <2>4. isOpendml' /\ header'.opendml = isOpendml'
    BY <1>2, <1>11 DEF AviInv
  <2>5. Len(super'[Video]) > 1 /\ super'[Video][1].entries # <<>>
    <3>1. Video \in Streams /\ super[Video] # <<>>
      BY <1>7, StreamsAre DEF N
    <3> QED
      BY <1>3, <1>7, <1>11, <1>13, <3>1
  <2>6. ASSUME NEW s \in Streams, NEW k \in 1..Len(w.super[s])
        PROVE  \/ At(w.file, w.super[s][k].offset, IxOf(s, w.super[s][k]))
               \/ /\ full /\ k = Len(w.super[s])
                  /\ \A i \in 1..Len(w.file) : w.file[i].pos # w.super[s][k].offset
    <3>1. super[s] # <<>>
      BY <1>10
    <3>2. Len(super[s]) = N /\ Len(w.super[s]) = N /\ k \in 1..N
      BY <1>7, <1>13, <3>1
    <3>3. IxOf(s, w.super[s][k]) = IxOf(s, super[s][k])
      BY <1>13, <3>1, <3>2, IxSame
    <3>4. CASE k # N
      <4>1. At(file, super[s][k].offset, IxOf(s, super[s][k]))
        BY <1>8, <3>2, <3>4
      <4>2. At(w.file, super[s][k].offset, IxOf(s, super[s][k]))
        BY <1>10, <1>12, <4>1, AtExtends DEF Indexed
      <4>3. w.super[s][k].offset = super[s][k].offset
        BY <1>13, <3>1, <3>2, <3>4
      <4> QED
        BY <3>3, <4>2, <4>3
    <3>5. CASE k = N /\ ok
      BY <1>10, <3>1, <3>3, <3>5
    <3>6. CASE k = N /\ ~ok
      <4>1. w.file = file /\ w.super[s][k].offset = pos /\ full
        BY <1>10, <1>11, <3>1, <3>6
      <4>2. \A i \in 1..Len(file) : file[i].pos \in Nat /\ file[i].pos < pos
        BY <1>5, <1>6, BeforeEnd
      <4>3. \A i \in 1..Len(file) : file[i].pos # pos
        BY <1>6, <4>2
      <4> QED
        BY <3>2, <3>6, <4>1, <4>3
    <3> QED
      BY <3>4, <3>5, <3>6
  <2>7. \A s \in Streams : \A k \in 1..Len(super'[s]) :
          \/ At(file', super'[s][k].offset, IxOf(s, super'[s][k]))
          \/ full' /\ k = Len(super'[s]) /\ ChunksAt(super[s][k].offset)' = {}
    <3> SUFFICES ASSUME NEW s \in Streams, NEW k \in 1..Len(w.super[s]),
                        ~At(file', super'[s][k].offset, IxOf(s, super'[s][k]))
                 PROVE  full' /\ k = Len(super'[s]) /\ ChunksAt(super[s][k].offset)' = {}
      BY <1>11
    <3>1. full /\ k = Len(w.super[s]) /\ \A i \in 1..Len(w.file) : w.file[i].pos # w.super[s][k].offset
      BY <1>11, <2>6
    <3>4. DOMAIN file' = 1..Len(w.file) /\ file' = w.file /\ super' = w.super /\ full' = full
      BY <1>2, <1>11, <1>12
    <3>2. full' /\ k = Len(super'[s]) /\ \A i \in DOMAIN file' : file'[i].pos # super'[s][k].offset
      BY <3>1, <3>4, Zenon
    <3>3. {j \in DOMAIN file' : file'[j].pos = super'[s][k].offset} = {}
      BY <3>2
    <3>5. ChunksAt(super[s][k].offset)' = {}
      BY <3>3 DEF ChunksAt
    <3> QED
      BY <3>2, <3>5
  <2>8. ClosedInv'
    BY <2>2, <2>3, <2>4, <2>5, <2>7 DEF ClosedInv
  <2> QED
    BY <2>8
<1>15. RiffsTile'
  <2> DEFINE riffs == OfTag(file', "RIFF")
             at(p)  == {file'[i].chunk : i \in {j \in DOMAIN file' : file'[j].pos = p}}
             behind == HeaderBytes - 4 + header'.moviLen
             begin(k) == IF k > Len(riffs) THEN pos' ELSE riffs[k].pos
  <2>1. riffs = OfTag(file, "RIFF") /\ riffs \in Seq(Placed)
    BY <1>6, <1>10, <1>11, SeqOfTag DEF Indexed
  <2>2. Len(riffs) = N - 1 /\ DOMAIN riffs = 1..N - 1 /\ \A k \in 1..N - 1 : riffs[k].pos = super[Video][k + 1].base
    BY <1>7, <2>1
  <2>3. \A k \in 1..N : begin(k) = start(w.pos, k + 1)
    BY <1>7, <1>11, <2>2 DEF start
  <2>4. \A k \in 1..N : begin(k) \in Nat
    <3>1. \A k \in 1..N : super[Video][k].base \in Nat
      <4>1. Len(super[Video]) = N /\ Video \in Streams
        BY StreamsAre DEF N
      <4> QED
        BY <1>12, <4>1
    <3> SUFFICES ASSUME NEW k \in 1..N PROVE begin(k) \in Nat
      OBVIOUS
    <3>2. CASE k = N
      BY <1>7, <1>11, <1>12, <2>2, <3>2
    <3>3. CASE k # N
      <4>1. k \in 1..N - 1 /\ k + 1 \in 1..N
        BY <1>7, <3>3
      <4> HIDE DEF riffs
      <4> QED
        BY <1>7, <2>2, <3>1, <4>1
    <3> QED
      BY <3>2, <3>3
  <2>5. 1 \in 1..N /\ begin(1) = start(w.pos, 2) /\ begin(1) = super[Video][2].base
    BY <1>7, <2>2, <2>3
  <2>50. begin(1) \in Nat
    BY <2>4, <2>5
  <2> HIDE DEF begin
  <2>6. 8 + header'.riffLen = begin(1)
    BY <1>11, <2>4, <2>5
  <2>7. \E c \in at(behind) : c.tag = "idx1" /\ behind + 8 + c.len = begin(1)
    <3>1. behind = begin(1) - 16 * n - 8
      <4>1. header'.moviLen = begin(1) - HeaderBytes + 4 - 16 * n - 8
        BY <1>11, <2>5 DEF FirstMoviLen
      <4>2. 16 * n \in Nat /\ HeaderBytes \in Nat
        BY <1>3, AviConstants
      <4> DEFINE m == 16 * n
                 b == begin(1)
                 x == header'.moviLen
      <4>3. m \in Nat /\ b \in Nat /\ x = b - HeaderBytes + 4 - m - 8
        BY <2>50, <4>1, <4>2
      <4> HIDE DEF m, b, x
      <4>4. HeaderBytes - 4 + x = b - m - 8
        BY <4>2, <4>3
      <4> QED
        BY <4>4 DEF m, b, x
    <3>2. OldIndexEnds(w.file, begin(1), n)
      BY <1>7, <1>10, <1>12, <2>5, OldIndexStays DEF Indexed
    <3>3. PICK i \in 1..Len(w.file) : /\ w.file[i].chunk.tag = "idx1" /\ w.file[i].chunk.len = 16 * n
                                     /\ w.file[i].pos + 8 + 16 * n = begin(1)
      BY <3>2 DEF OldIndexEnds
    <3>4. w.file[i].pos \in Nat
      <4>1. w.file[i] \in Placed
        BY <1>12
      <4> QED
        BY <4>1 DEF Placed
    <3>5. w.file[i].pos = behind /\ behind + 8 + w.file[i].chunk.len = begin(1)
      <4> DEFINE m == 16 * n
                 b == begin(1)
                 q == w.file[i].pos
                 h == behind
      <4>1. m \in Nat /\ b \in Nat /\ q \in Nat /\ q + 8 + m = b /\ h = b - m - 8
        BY <1>3, <2>50, <3>1, <3>3, <3>4
      <4>2. w.file[i].chunk.len = m
        BY <3>3
      <4> HIDE DEF m, b, q, h
      <4>3. q = h /\ h + 8 + m = b
        BY <4>1
      <4> QED
        BY <4>2, <4>3 DEF b, q, h
    <3>6. w.file[i].chunk \in at(behind)
      BY <1>11, <1>12, <3>5
    <3> QED
      BY <3>3, <3>5, <3>6
  <2>8. Len(lens') = Len(riffs)
    BY <1>7, <1>11, <2>2
  <2>9. \A k \in DOMAIN riffs : /\ riffs[k].pos + 8 + lens'[k].riff = begin(k + 1)
                               /\ riffs[k].pos + 20 + lens'[k].movi = begin(k + 1)
    <3> SUFFICES ASSUME NEW k \in 1..N - 1
                 PROVE  /\ riffs[k].pos + 8 + lens'[k].riff = begin(k + 1)
                        /\ riffs[k].pos + 20 + lens'[k].movi = begin(k + 1)
      BY <2>2
    <3> DEFINE len == start(w.pos, k + 2) - start(w.pos, k + 1) - 8
    <3>1. lens'[k].riff = len /\ lens'[k].movi = len - 12
      BY <1>11
    <3>2. k + 1 \in 1..N /\ k \in 1..N /\ k + 1 + 1 = k + 2
      BY <1>7
    <3>3. start(w.pos, k + 2) = begin(k + 1) /\ start(w.pos, k + 1) = begin(k)
      BY <2>3, <3>2
    <3>4. riffs[k].pos = begin(k)
      BY <1>7, <2>2 DEF begin
    <3> HIDE DEF riffs
    <3> QED
      BY <2>4, <3>1, <3>2, <3>3, <3>4
  <2> HIDE DEF behind, at
  <2>10. /\ 8 + header'.riffLen = begin(1)
         /\ \E c \in at(behind) : c.tag = "idx1" /\ behind + 8 + c.len = begin(1)
         /\ Len(lens') = Len(riffs)
         /\ \A k \in DOMAIN riffs : /\ riffs[k].pos + 8 + lens'[k].riff = begin(k + 1)
                                   /\ riffs[k].pos + 20 + lens'[k].movi = begin(k + 1)
    BY <2>6, <2>7, <2>8, <2>9
  <2> QED
    BY <2>10, Zenon DEF RiffsTile, ChunksAt, begin, behind, at
<1> QED
  BY <1>14, <1>15
LEMMA CloseKeeps ==
  ASSUME AviInv, Close
  PROVE  AviInv'
<1>1. ClosedInv' /\ RiffsTile'
  BY CloseOneKeeps, CloseManyKeeps
<1>2. mode = "write" /\ mode' = "closed" /\ UNCHANGED <<idx, isOpendml, full, wrote, readVars>>
  BY DEF Close
<1>3. ReadInv'
  BY <1>2 DEF AviInv, ReadInv, readVars
<1>4. RoundTrip'
  BY <1>2 DEF RoundTrip
<1>5. /\ isOpendml' \in BOOLEAN /\ full' \in BOOLEAN
      /\ idx' \in Seq(OldEntry) /\ wrote' \in [Streams -> Seq(Nat)]
  BY <1>2 DEF AviInv
<1> QED
  BY <1>1, <1>2, <1>3, <1>4, <1>5 DEF AviInv

-----------------------------------------------------------------------------
(* Opening *)

\* Where a chunk is, there is no other.
LEMMA OnlyChunk ==
  ASSUME file \in Seq(Placed), Tiled(file, pos), NEW p, NEW c, At(file, p, c)
  PROVE  ChunksAt(p) = {c}
<1>1. PICK i \in 1..Len(file) : file[i].pos = p /\ file[i].chunk = c
  BY DEF At
<1>2. \A j \in 1..Len(file) : file[j].pos = p => j = i
  BY <1>1, OneAtPosition
<1>3. {j \in DOMAIN file : file[j].pos = p} = {i}
  BY <1>1, <1>2
<1> QED
  BY <1>1, <1>3 DEF ChunksAt

\* The data of a stream.
LEMMA DataIs ==
  \A f \in Seq(Placed) : \A s : DataOf(f, s) \in Seq(Found8) /\ SearchedIn(f) \in Seq(OldEntry)
<1> DEFINE x == [pos |-> 0, chunk |-> Chunk("RIFF", 16)]
<1>1. x \in Placed
  BY ChunksAre DEF Placed
<1> HIDE DEF x
<1> QED
  BY <1>1, DataAppend, SearchedAppend

\* What the reader finds of a stream: its data, but for an entry more that leads to none, or
\* for the data of the last list, if the disk was full.
Leads(l, s) ==
  /\ l \in Seq(Found8)
  /\ \A i \in 1..Len(l) : i <= Len(wrote[s]) => l[i] = DataOf(file, s)[i]
  /\ ~full => Len(l) = Len(wrote[s])
  /\ full => /\ Len(l) <= Len(wrote[s]) + 1
             /\ isOpendml \/ Len(l) >= Len(wrote[s])
             /\ \A i \in 1..Len(l) : i > Len(wrote[s]) => NoData(file, l[i].pos - 8)

\* The entries that were written for a stream lead to its chunks, and so do its data.
LEMMA EntriesLead ==
  ASSUME file \in Seq(Placed), NEW s, NEW l \in Seq(StdType), wrote[s] \in Seq(Nat),
         StreamInv(file, l, s, wrote[s], full)
  PROVE  Leads(EntriesOf(l), s) /\ Leads(DataOf(file, s), s)
<1> DEFINE d == DataOf(file, s)
           e == EntriesOf(l)
           n == Len(wrote[s])
<1>1. d \in Seq(Found8) /\ e \in Seq(Found8) /\ n \in Nat
  <2>1. d \in Seq(Found8)
    BY DataIs
  <2>2. e \in Seq(Found8)
    BY EntriesAre
  <2>3. n \in Nat
    OBVIOUS
  <2> QED
    BY <2>1, <2>2, <2>3
<1>2. /\ Len(d) = n
      /\ e = d \/ (full /\ \E x \in Found8 : e = Append(d, x) /\ NoData(file, x.pos - 8))
  BY Zenon DEF StreamInv
<1> HIDE DEF d, e
<1>3. Leads(d, s)
  BY <1>1, <1>2 DEF Leads, d
<1>4. CASE e = d
  BY <1>3, <1>4 DEF d, e
<1>5. CASE e # d
  <2>1. PICK x \in Found8 : e = Append(d, x) /\ NoData(file, x.pos - 8)
    BY <1>2, <1>5
  <2>2. Len(e) = n + 1 /\ e[n + 1] = x /\ \A i \in 1..n : e[i] = d[i]
    BY <1>1, <1>2, <2>1
  <2>3. \A i \in 1..Len(e) : i <= n => e[i] = d[i]
    BY <1>1, <2>2
  <2>4. \A i \in 1..Len(e) : i > n => i = n + 1
    BY <1>1, <2>2
  <2>5. \A i \in 1..Len(e) : i > n => NoData(file, e[i].pos - 8)
    BY <2>1, <2>2, <2>4
  <2>6. full /\ Len(e) <= n + 1 /\ Len(e) >= n
    BY <1>1, <1>2, <1>5, <2>2
  <2> QED
    BY <1>1, <2>3, <2>5, <2>6, <1>3 DEF Leads, d, e
<1> QED
  BY <1>3, <1>4, <1>5 DEF d, e
\* What is there of what leads back.
LEMMA PrefixLeads ==
  ASSUME NEW s, wrote[s] \in Seq(Nat), NEW l, Leads(l, s), full, isOpendml, NEW m \in Seq(Found8),
         Len(m) <= Len(l), \A i \in 1..Len(m) : m[i] = l[i]
  PROVE  Leads(m, s)
<1> DEFINE d == DataOf(file, s)
           n == Len(wrote[s])
<1>1. n \in Nat /\ Len(m) \in Nat /\ Len(l) \in Nat
  BY DEF Leads
<1>2. /\ \A i \in 1..Len(l) : i <= n => l[i] = d[i]
      /\ Len(l) <= n + 1
      /\ \A i \in 1..Len(l) : i > n => NoData(file, l[i].pos - 8)
  BY DEF Leads
<1> HIDE DEF d, n
<1>3. \A i \in 1..Len(m) : i \in 1..Len(l)
  BY <1>1
<1>4. /\ \A i \in 1..Len(m) : i <= n => m[i] = d[i]
      /\ Len(m) <= n + 1
      /\ \A i \in 1..Len(m) : i > n => NoData(file, m[i].pos - 8)
  BY <1>1, <1>2, <1>3
<1> QED
  BY <1>4 DEF Leads, d, n

\* An index chunk that is where the superindex says is read back; one that is not, is left out.
LEMMA EntriesAtIs ==
  ASSUME file \in Seq(Placed), Tiled(file, pos), NEW s \in Streams, NEW std \in StdType
  PROVE  /\ At(file, std.offset, IxOf(s, std)) => EntriesAt(std.offset) = Absolute(std)
         /\ ChunksAt(std.offset) = {} => EntriesAt(std.offset) = <<>>
<1>1. ASSUME At(file, std.offset, IxOf(s, std)) PROVE EntriesAt(std.offset) = Absolute(std)
  <2> DEFINE c == IxOf(s, std)
  <2>1. c.base = std.base /\ c.entries = std.entries
    BY DEF IxOf, Index, Chunk
  <2> HIDE DEF c
  <2>2. ChunksAt(std.offset) = {c}
    BY <1>1, OnlyChunk DEF c
  <2>3. (CHOOSE d \in {c} : TRUE) = c
    OBVIOUS
  <2>4. EntriesAt(std.offset) =
          [i \in DOMAIN c.entries |-> [pos |-> c.base + c.entries[i].off, len |-> c.entries[i].len]]
    BY <2>2, <2>3 DEF EntriesAt
  <2> QED
    BY <2>1, <2>4 DEF Absolute
<1>2. ChunksAt(std.offset) = {} => EntriesAt(std.offset) = <<>>
  BY DEF EntriesAt
<1> QED
  BY <1>1, <1>2

\* The nested index of a file in several lists.
LEMMA NestedLeads ==
  ASSUME ClosedInv, isOpendml, NEW s \in Streams, wrote[s] \in Seq(Nat)
  PROVE  Leads(Nested(s), s)
<1> DEFINE l == super[s]
           n == Len(l)
           got == [k \in DOMAIN l |-> EntriesAt(l[k].offset)]
           all == [k \in DOMAIN l |-> Absolute(l[k])]
<1>1. Here \in Work /\ Here.file = file /\ Here.super = super /\ Tiled(file, pos)
  BY DEF ClosedInv, Here
<1>2. file \in Seq(Placed) /\ l \in Seq(StdType) /\ n \in Nat
  BY <1>1, WorkIs
<1>3. StreamInv(file, l, s, wrote[s], full)
  BY DEF ClosedInv
<1>4. \A k \in 1..n : \/ At(file, l[k].offset, IxOf(s, l[k]))
                      \/ full /\ k = n /\ ChunksAt(l[k].offset) = {}
  BY DEF ClosedInv
<1> HIDE DEF l
<1>5. Leads(EntriesOf(l), s)
  BY <1>2, <1>3, EntriesLead
<1>6. \A k \in 1..n : l[k] \in StdType
  BY <1>2
<1>7. \A k \in 1..n : EntriesAt(l[k].offset) = Absolute(l[k])
                      \/ (full /\ k = n /\ EntriesAt(l[k].offset) = <<>>)
  <2> TAKE k \in 1..n
  <2> DEFINE std == l[k]
  <2>1. std \in StdType
    BY <1>6
  <2>2. At(file, std.offset, IxOf(s, std)) \/ (full /\ k = n /\ ChunksAt(std.offset) = {})
    BY <1>4
  <2> HIDE DEF std
  <2>3. EntriesAt(std.offset) = Absolute(std) \/ (full /\ k = n /\ EntriesAt(std.offset) = <<>>)
    BY <1>1, <1>2, <2>1, <2>2, EntriesAtIs
  <2> QED
    BY <2>3 DEF std
<1>8. Nested(s) = FlattenSeq(got) /\ EntriesOf(l) = FlattenSeq(all)
  BY DEF Nested, EntriesOf, l
<1>9. /\ all \in Seq(Seq(Found8)) /\ Len(all) = n /\ DOMAIN l = 1..n
      /\ \A k \in 1..n : all[k] = Absolute(l[k]) /\ got[k] = EntriesAt(l[k].offset)
  <2>1. all \in Seq(Seq(Found8))
    BY <1>2, EntriesAre
  <2> QED
    BY <1>2, <2>1
<1>10. \A k \in 1..n : Absolute(l[k]) \in Seq(Found8)
  BY <1>6, AbsoluteIs
<1>11. got \in Seq(Seq(Found8)) /\ Len(got) = n
  <2> DEFINE S == Seq(Found8)
  <2>1. <<>> \in S
    OBVIOUS
  <2>2. \A k \in 1..n : EntriesAt(l[k].offset) \in S
    <3> HIDE DEF S, n
    <3> QED
      BY <1>7, <1>10, <2>1 DEF S
  <2> HIDE DEF S, n
  <2>3. got \in Seq(S) /\ DOMAIN got = 1..n
    BY <1>2, <1>9, <2>2
  <2>4. Len(got) = n
    <3> HIDE DEF got
    <3> QED
      BY <1>2, <2>3
  <2> QED
    BY <2>3, <2>4 DEF S
<1>12. CASE \A k \in 1..n : EntriesAt(l[k].offset) = Absolute(l[k])
  <2>1. got = all
    BY <1>9, <1>12
  <2> QED
    BY <1>5, <1>8, <2>1
<1>13. CASE \E k \in 1..n : EntriesAt(l[k].offset) # Absolute(l[k])
  <2> DEFINE c == n - 1
             front == [k \in 1..c |-> all[k]]
             last  == all[n]
             none  == <<>>
             S     == Seq(Found8)
             e     == FlattenSeq(front)
  <2>1. full /\ n \in 1..n /\ EntriesAt(l[n].offset) = none /\ \A k \in 1..n : k # n => EntriesAt(l[k].offset) = Absolute(l[k])
    BY <1>2, <1>7, <1>13
  <2> HIDE DEF n, all, got, none, S
  <2>2. /\ all \in Seq(S) /\ got \in Seq(S) /\ Len(all) = n /\ Len(got) = n
        /\ got[n] = none /\ \A k \in 1..n : k # n => got[k] = all[k]
    BY <1>9, <1>11, <2>1 DEF S
  <2>3. last \in S /\ none \in S
    <3>1. <<>> \in Seq(Found8)
      OBVIOUS
    <3> QED
      BY <2>1, <2>2, <3>1, SeqIs DEF none, S
  <2>4. c \in Nat /\ c + 1 = n /\ \A k \in 1..c : k \in 1..n /\ k # n
    BY <1>2, <2>1
  <2> HIDE DEF c
  <2>5. front \in Seq(S) /\ Len(front) = c /\ \A k \in 1..c : front[k] = all[k]
    BY <2>2, <2>4
  <2> HIDE DEF front, last, e
  <2>6. all = Append(front, last)
    <3>1. Len(all) = Len(front) + 1 /\ all[Len(front) + 1] = last /\ \A k \in 1..Len(front) : all[k] = front[k]
      BY <2>2, <2>4, <2>5 DEF last
    <3> QED
      BY <2>2, <2>3, <2>5, <3>1, AppendIs
  <2>7. got = Append(front, none)
    <3>1. Len(got) = Len(front) + 1 /\ got[Len(front) + 1] = none /\ \A k \in 1..Len(front) : got[k] = front[k]
      BY <2>2, <2>4, <2>5
    <3> QED
      BY <2>2, <2>3, <2>5, <3>1, AppendIs
  <2>8. e \in Seq(Found8) /\ FlattenSeq(all) = e \o last /\ FlattenSeq(got) = e \o none /\ last \in Seq(Found8)
    BY <2>3, <2>5, <2>6, <2>7, FlattenAppend DEF S, e
  <2>9. e \o none = e /\ Len(e) <= Len(e \o last) /\ \A i \in 1..Len(e) : e[i] = (e \o last)[i]
    BY <2>8 DEF none
  <2>10. Nested(s) = e /\ EntriesOf(l) = e \o last
    BY <1>8, <2>8, <2>9
  <2> QED
    BY <1>5, <2>1, <2>8, <2>9, <2>10, PrefixLeads
<1> QED
  BY <1>12, <1>13

\* If something is joined, the result is not empty.
LEMMA FlattenSome ==
  ASSUME NEW T, NEW ll \in Seq(Seq(T)), NEW k \in 1..Len(ll), ll[k] # <<>>
  PROVE  FlattenSeq(ll) # <<>>
<1> DEFINE n == Len(ll)
<1>1. PICK f \in [0..Len(ll) -> Seq(T)] : Flattens(f, ll) /\ FlattenSeq(ll) = f[Len(ll)]
  BY FlattenIs
<1>2. n \in Nat /\ \A i \in 1..n : f[i] = f[i - 1] \o ll[i] /\ f[i - 1] \in Seq(T) /\ ll[i] \in Seq(T)
  <2>1. \A i \in 1..n : i - 1 \in 0..n
    OBVIOUS
  <2>2. \A i \in 1..n : ll[i] \in Seq(T)
    OBVIOUS
  <2> QED
    BY <1>1, <2>1, <2>2 DEF Flattens
<1> DEFINE some == {i \in Nat : k + i <= n => f[k + i] # <<>>}
<1>3. 0 \in some
  <2>1. f[k] = f[k - 1] \o ll[k] /\ f[k - 1] \in Seq(T) /\ ll[k] \in Seq(T)
    BY <1>2
  <2>2. f[k] # <<>>
    BY <2>1
  <2> QED
    BY <2>2
<1>4. ASSUME NEW i \in Nat, i \in some PROVE i + 1 \in some
  <2> SUFFICES ASSUME k + (i + 1) <= n PROVE f[k + (i + 1)] # <<>>
    OBVIOUS
  <2> DEFINE j == k + (i + 1)
  <2>1. j \in 1..n /\ j - 1 = k + i /\ k + i <= n
    BY <1>2
  <2>2. f[j - 1] # <<>>
    BY <1>4, <2>1
  <2> HIDE DEF j
  <2>3. f[j] = f[j - 1] \o ll[j] /\ f[j - 1] \in Seq(T) /\ ll[j] \in Seq(T)
    BY <1>2, <2>1
  <2>4. f[j] # <<>>
    BY <2>2, <2>3
  <2> QED
    BY <2>4 DEF j
<1>5. Nat \subseteq some
  <2> HIDE DEF some
  <2> QED
    BY <1>3, <1>4, SetInduction
<1>6. n - k \in Nat /\ k + (n - k) = n
  BY <1>2
<1>7. n - k \in some
  BY <1>5, <1>6
<1> QED
  BY <1>1, <1>6, <1>7

\* The nested index has the video of the first list, whatever was not written.
LEMMA NestedVideo ==
  ASSUME ClosedInv, isOpendml
  PROVE  Nested(Video) # <<>>
<1> DEFINE l == super[Video]
           n == Len(l)
           got == [k \in DOMAIN l |-> EntriesAt(l[k].offset)]
<1>1. Video \in Streams /\ Here \in Work /\ Here.file = file /\ Here.super = super /\ Tiled(file, pos)
  BY StreamsAre DEF ClosedInv, Here
<1>2. file \in Seq(Placed) /\ l \in Seq(StdType) /\ n \in Nat
  BY <1>1, WorkIs
<1>3. /\ n > 1 /\ l[1].entries # <<>>
      /\ \A k \in 1..n : \/ At(file, l[k].offset, IxOf(Video, l[k]))
                         \/ full /\ k = n /\ ChunksAt(l[k].offset) = {}
  BY <1>1 DEF ClosedInv
<1> HIDE DEF l
<1>4. \A k \in 1..n : l[k] \in StdType
  BY <1>2
<1>5. \A k \in 1..n : EntriesAt(l[k].offset) \in Seq(Found8)
  <2> TAKE k \in 1..n
  <2> DEFINE std == l[k]
  <2>1. std \in StdType
    BY <1>4
  <2>2. At(file, std.offset, IxOf(Video, std)) \/ ChunksAt(std.offset) = {}
    BY <1>3
  <2> HIDE DEF std
  <2>3. EntriesAt(std.offset) = Absolute(std) \/ EntriesAt(std.offset) = <<>>
    BY <1>1, <1>2, <2>1, <2>2, EntriesAtIs
  <2>4. Absolute(std) \in Seq(Found8) /\ <<>> \in Seq(Found8)
    BY <2>1, AbsoluteIs
  <2>5. EntriesAt(std.offset) \in Seq(Found8)
    BY <2>3, <2>4
  <2> QED
    BY <2>5 DEF std
<1>6. got \in Seq(Seq(Found8)) /\ Len(got) = n /\ got[1] = EntriesAt(l[1].offset)
  <2>1. got \in Seq(Seq(Found8)) /\ DOMAIN got = 1..n
    <3> DEFINE S == Seq(Found8)
    <3>1. DOMAIN l = 1..n /\ n \in Nat /\ \A k \in 1..n : EntriesAt(l[k].offset) \in S
      BY <1>2, <1>5
    <3> HIDE DEF S, n
    <3>2. got \in Seq(S) /\ DOMAIN got = 1..n
      BY <3>1
    <3> QED
      BY <3>2 DEF S
  <2>2. 1 \in DOMAIN l
    BY <1>2, <1>3
  <2>3. got[1] = EntriesAt(l[1].offset)
    BY <2>2
  <2>4. Len(got) = n
    BY <1>2, <2>1
  <2> QED
    BY <2>1, <2>3, <2>4
<1>7. EntriesAt(l[1].offset) # <<>>
  <2> DEFINE std == l[1]
  <2>1. std \in StdType /\ std.entries # <<>> /\ At(file, std.offset, IxOf(Video, std))
    BY <1>2, <1>3, <1>4
  <2> HIDE DEF std
  <2>2. EntriesAt(std.offset) = Absolute(std) /\ Len(Absolute(std)) = Len(std.entries) /\ Absolute(std) \in Seq(Found8)
    BY <1>1, <1>2, <2>1, EntriesAtIs, AbsoluteIs
  <2>3. Len(std.entries) # 0
    BY <2>1 DEF StdType
  <2>4. EntriesAt(std.offset) # <<>>
    BY <2>2, <2>3
  <2> QED
    BY <2>4 DEF std
<1>8. Nested(Video) = FlattenSeq(got)
  BY DEF Nested, l
<1> HIDE DEF got
<1>9. 1 \in 1..Len(got) /\ got[1] # <<>>
  BY <1>2, <1>3, <1>6, <1>7
<1> QED
  BY <1>6, <1>8, <1>9, FlattenSome

\* Whatever the reader follows, it finds the chunks of the stream.
LEMMA FoundLeads ==
  ASSUME ClosedInv, idx \in Seq(OldEntry), isOpendml \in BOOLEAN, NEW s \in Streams, wrote[s] \in Seq(Nat)
  PROVE  Leads(Found(s), s) /\ (s = Video /\ Found(s) = <<>> => wrote[s] = <<>>)
<1>1. Here \in Work /\ Here.file = file /\ Here.super = super /\ header.opendml = isOpendml
  BY DEF ClosedInv, Here
<1>2. file \in Seq(Placed) /\ super[s] \in Seq(StdType)
  BY <1>1, WorkIs
<1>3. CASE isOpendml
  <2>1. Found(s) = Nested(s)
    BY <1>1, <1>3 DEF Found
  <2> QED
    BY <1>3, <2>1, NestedLeads, NestedVideo
<1>4. CASE ~isOpendml
  <2> DEFINE trusted == \E c \in IndexBehindMovi : Trusted(c)
  <2>1. Leads(EntriesOf(super[s]), s) /\ Leads(DataOf(file, s), s)
    <3>1. StreamInv(file, super[s], s, wrote[s], full)
      BY DEF ClosedInv
    <3> QED
      BY <1>2, <3>1, EntriesLead
  <2>2. ASSUME trusted PROVE Leads(Found(s), s)
    <3>1. PICK c \in IndexBehindMovi : Trusted(c) /\ c = CHOOSE d \in IndexBehindMovi : Trusted(d)
      BY <2>2
    <3>2. c = OldIndex(idx) /\ Flat(s, idx) = EntriesOf(super[s])
      BY <1>4 DEF ClosedInv
    <3>3. c.entries = idx
      BY <3>2 DEF OldIndex, Index, Chunk
    <3>4. Found(s) = Flat(s, c.entries)
      BY <1>1, <1>4, <2>2, <3>1 DEF Found
    <3> QED
      BY <2>1, <3>2, <3>3, <3>4
  <2>3. ASSUME ~trusted PROVE Leads(Found(s), s)
    <3>1. Found(s) = Flat(s, Searched)
      BY <1>1, <1>4, <2>3 DEF Found
    <3>2. Searched = SearchedIn(file)
      BY DEF Searched, SearchedIn, Data
    <3> QED
      BY <2>1, <3>1, <3>2 DEF DataOf
  <2>4. Leads(Found(s), s)
    BY <2>2, <2>3
  <2>5. ASSUME Found(s) = <<>> PROVE wrote[s] = <<>>
    <3>1. Len(Found(s)) = 0
      BY <2>5
    <3>2. Len(wrote[s]) <= 0
      BY <1>4, <2>4, <3>1 DEF Leads
    <3> QED
      BY <3>2
  <2> QED
    BY <2>4, <2>5
<1> QED
  BY <1>3, <1>4
\* Which chunk an entry leads to.
LEMMA EntryIs ==
  ASSUME file \in Seq(Placed), Tiled(file, pos), NEW s \in Streams, wrote[s] \in Seq(Nat), NEW l,
         StreamInv(file, l, s, wrote[s], full), NEW e
  PROVE  /\ \A i \in 1..Len(wrote[s]) :
              e.pos = DataOf(file, s)[i].pos /\ e.len = DataOf(file, s)[i].len => Entry(s, e) = i
         /\ NoData(file, e.pos - 8) => Entry(s, e) = 0
<1> DEFINE d == DataOf(file, s)
           n == Len(wrote[s])
           found == {c \in ChunksAt(e.pos - 8) : c.tag = "data" /\ c.stream = s /\ c.len = e.len}
<1>1. d \in Seq(Found8) /\ n \in Nat /\ Len(d) = n
      /\ \A i \in 1..n : At(file, d[i].pos - 8, DataChunk(s, d[i].len, i))
  <2>1. d \in Seq(Found8)
    BY DataIs
  <2>2. n \in Nat
    OBVIOUS
  <2> QED
    BY <2>1, <2>2, Zenon DEF StreamInv
<1> HIDE DEF d, n
<1>2. ASSUME NEW i \in 1..n, e.pos = d[i].pos, e.len = d[i].len PROVE Entry(s, e) = i
  <2> DEFINE c == DataChunk(s, d[i].len, i)
  <2>1. d[i] \in Found8 /\ d[i].len \in Nat /\ i \in Nat
    <3>1. d[i] \in Found8 /\ i \in Nat
      BY <1>1, <1>2
    <3> QED
      BY <3>1 DEF Found8
  <2>2. c.tag = "data" /\ c.stream = s /\ c.len = d[i].len /\ c.no = i
    BY <2>1, ChunksAre
  <2> HIDE DEF c
  <2>3. ChunksAt(d[i].pos - 8) = {c}
    BY <1>1, <1>2, OnlyChunk DEF c
  <2>4. found = {c}
    BY <1>2, <2>2, <2>3
  <2>5. (CHOOSE x \in found : TRUE) = c /\ found # {}
    BY <2>4
  <2>6. Entry(s, e) = c.no
    BY <2>5 DEF Entry
  <2> QED
    BY <2>2, <2>6
<1>3. ASSUME NoData(file, e.pos - 8) PROVE Entry(s, e) = 0
  <2>1. \A c \in ChunksAt(e.pos - 8) : c.tag # "data"
    BY <1>3 DEF ChunksAt, NoData
  <2>2. found = {}
    BY <2>1
  <2> QED
    BY <2>2 DEF Entry
<1> QED
  BY <1>2, <1>3 DEF d, n

\* What is read back of a stream is what was written.
BackOf(l, s) == [i \in DOMAIN l |-> Entry(s, WithTotals(l)[i])]

LEMMA BackIs ==
  ASSUME file \in Seq(Placed), Tiled(file, pos), NEW s \in Streams, wrote[s] \in Seq(Nat), NEW sup,
         StreamInv(file, sup, s, wrote[s], full), NEW l, Leads(l, s)
  PROVE  /\ ~full => BackOf(l, s) = Written(s)
         /\ full => /\ \/ IsPrefix(Written(s), BackOf(l, s))
                       \/ (isOpendml /\ IsPrefix(BackOf(l, s), Written(s)))
                    /\ Len(BackOf(l, s)) <= Len(Written(s)) + 1
                    /\ \A i \in DOMAIN BackOf(l, s) \ DOMAIN Written(s) : BackOf(l, s)[i] = 0
<1> DEFINE n == Len(wrote[s])
           m == Len(l)
           back == BackOf(l, s)
           done == Written(s)
           t == WithTotals(l)
<1>1. n \in Nat /\ m \in Nat /\ l \in Seq(Found8) /\ DOMAIN l = 1..m
  BY DEF Leads
<1>2. \A i \in 1..m : t[i].pos = l[i].pos /\ t[i].len = l[i].len
  <2>1. \A i \in DOMAIN l : t[i] = [pos |-> l[i].pos, len |-> l[i].len, tot |-> Sums(LensOf(l))[i - 1]]
    BY DEF WithTotals
  <2> SUFFICES ASSUME NEW i \in 1..m PROVE t[i].pos = l[i].pos /\ t[i].len = l[i].len
    OBVIOUS
  <2> DEFINE tot == Sums(LensOf(l))[i - 1]
  <2>2. t[i] = [pos |-> l[i].pos, len |-> l[i].len, tot |-> tot]
    BY <1>1, <2>1
  <2> HIDE DEF t, tot
  <2> QED
    BY <2>2
<1>3. ASSUME NEW i \in 1..m PROVE IF i <= n THEN Entry(s, t[i]) = i ELSE full /\ Entry(s, t[i]) = 0
  <2>1. t[i].pos = l[i].pos /\ t[i].len = l[i].len
    BY <1>2
  <2>2. CASE i <= n
    <3>1. l[i] = DataOf(file, s)[i] /\ i \in 1..n
      BY <1>1, <2>2 DEF Leads
    <3> HIDE DEF t
    <3>2. Entry(s, t[i]) = i
      BY <2>1, <3>1, EntryIs
    <3> QED
      BY <2>2, <3>2
  <2>3. CASE ~(i <= n)
    <3>1. i > n
      BY <1>1, <2>3
    <3>2. full
      BY <1>1, <3>1 DEF Leads
    <3>3. NoData(file, t[i].pos - 8)
      BY <2>1, <3>1, <3>2 DEF Leads
    <3> HIDE DEF t
    <3>4. Entry(s, t[i]) = 0
      BY <3>3, EntryIs
    <3> QED
      BY <2>3, <3>2, <3>4
  <2> QED
    BY <2>2, <2>3
<1>4. /\ back \in Seq(Nat) /\ Len(back) = m /\ DOMAIN back = 1..m
      /\ \A i \in 1..m : IF i <= n THEN back[i] = i ELSE full /\ back[i] = 0
  <2>1. back = [i \in 1..m |-> Entry(s, t[i])]
    BY <1>1 DEF BackOf
  <2> HIDE DEF t, back
  <2>2. \A i \in 1..m : Entry(s, t[i]) \in Nat
    BY <1>1, <1>3
  <2>3. back \in Seq(Nat) /\ Len(back) = m /\ DOMAIN back = 1..m
    BY <1>1, <2>1, <2>2
  <2> QED
    BY <1>3, <2>1, <2>3
<1>5. done \in Seq(Nat) /\ Len(done) = n /\ DOMAIN done = 1..n /\ \A i \in 1..n : done[i] = i
  BY <1>1 DEF Written
<1>6. /\ ~full => m = n
      /\ full => m <= n + 1 /\ (isOpendml \/ m >= n)
  BY DEF Leads
<1> HIDE DEF n, m, back, done, t
<1>7. ~full => back = done
  BY <1>1, <1>4, <1>5, <1>6
<1>8. m <= n => IsPrefix(back, done)
  BY <1>1, <1>4, <1>5 DEF IsPrefix
<1>9. m >= n => IsPrefix(done, back)
  BY <1>1, <1>4, <1>5 DEF IsPrefix
<1>10. full => /\ IsPrefix(done, back) \/ (isOpendml /\ IsPrefix(back, done))
               /\ Len(back) <= Len(done) + 1
               /\ \A i \in DOMAIN back \ DOMAIN done : back[i] = 0
  BY <1>1, <1>4, <1>5, <1>6, <1>8, <1>9
<1> QED
  BY <1>7, <1>10 DEF back, done
\* What the file and the index say of each other stays as long as they do.
LEMMA SameFile ==
  ASSUME UNCHANGED <<file, pos, header, lens, full>>
  PROVE  /\ mode \in {"closed", "read"} /\ RiffsTile => RiffsTile'
         /\ UNCHANGED <<mode, index, wrote, isOpendml>> /\ RoundTrip => RoundTrip'
<1>1. ASSUME mode \in {"closed", "read"}, RiffsTile PROVE RiffsTile'
  BY <1>1 DEF RiffsTile, ChunksAt
<1>2. ASSUME UNCHANGED <<mode, index, wrote, isOpendml>>, RoundTrip PROVE RoundTrip'
  <2>1. \A s : ReadBack(s)' = ReadBack(s)
    BY <1>2 DEF ReadBack, Entry, ChunksAt
  <2>2. \A s : Written(s)' = Written(s)
    BY <1>2 DEF Written
  <2> QED
    BY <1>2, <2>1, <2>2 DEF RoundTrip
<1> QED
  BY <1>1, <1>2

LEMMA OpenKeeps ==
  ASSUME AviInv, Open
  PROVE  AviInv'
<1>1. /\ mode = "closed" /\ track' \in Tracks
      /\ UNCHANGED <<file, pos, idx, super, isOpendml, full, header, lens, wrote, posc, posb, want, byte>>
      /\ \/ Found(Video) = <<>> /\ mode' = "failed"
         \/ mode' = "read" /\ index' = [s \in Streams |-> WithTotals(Found(s))]
  <2>1. /\ mode = "closed" /\ track' \in Tracks /\ UNCHANGED <<writeVars, posc, posb, want, byte>>
        /\ LET found == [s \in Streams |-> Found(s)]
           IN  IF found[Video] = <<>> THEN mode' = "failed" /\ UNCHANGED index
               ELSE mode' = "read" /\ index' = [s \in Streams |-> WithTotals(found[s])]
    BY Zenon DEF Open
  <2>2. [s \in Streams |-> Found(s)][Video] = Found(Video)
    BY StreamsAre
  <2>3. [s \in Streams |-> WithTotals([q \in Streams |-> Found(q)][s])] = [s \in Streams |-> WithTotals(Found(s))]
    OBVIOUS
  <2> QED
    BY <2>1, <2>2, <2>3 DEF writeVars
<1>2. /\ ClosedInv /\ isOpendml \in BOOLEAN /\ full \in BOOLEAN
      /\ idx \in Seq(OldEntry) /\ wrote \in [Streams -> Seq(Nat)] /\ RiffsTile
      /\ posc = 1 /\ posb = 0 /\ want = 0 /\ byte = 0
  BY <1>1 DEF AviInv, ReadInv
<1>3. ASSUME NEW s \in Streams
      PROVE  wrote[s] \in Seq(Nat) /\ Leads(Found(s), s) /\ (s = Video /\ Found(s) = <<>> => wrote[s] = <<>>)
  <2>1. wrote[s] \in Seq(Nat)
    BY <1>2
  <2> QED
    BY <1>2, <2>1, FoundLeads
<1>4. ReadInv'
  <2> SUFFICES ASSUME mode' = "read"
               PROVE  track' \in Tracks /\ (\A s \in Streams : Summed(index'[s])) /\ AudioInv'
    BY <1>1 DEF ReadInv
  <2>1. index' = [s \in Streams |-> WithTotals(Found(s))]
    BY <1>1
  <2>2. \A s \in Streams : Summed(index'[s])
    <3> SUFFICES ASSUME NEW s \in Streams PROVE Summed(index'[s])
      OBVIOUS
    <3>1. Found(s) \in Seq(Found8)
      BY <1>3 DEF Leads
    <3>2. Summed(WithTotals(Found(s)))
      BY <3>1, WithTotalsIs DEF Found8
    <3> QED
      BY <2>1, <3>2
  <2>3. AudioInv'
    <3> DEFINE l == index'[track']
    <3>1. track' \in Streams
      BY <1>1 DEF Streams
    <3>2. Summed(l)
      BY <2>2, <3>1
    <3> HIDE DEF l
    <3>3. SUFFICES ASSUME Len(l) > 0
                   PROVE  /\ want' \in Nat /\ posc' \in 1..Len(l) + 1 /\ byte' \in Nat
                          /\ posc' <= Len(l)
                          /\ posb' \in 0..l[posc'].len /\ l[posc'].tot + posb' = byte'
      BY <3>2 DEF AudioInv, chunks, l, Summed
    <3>4. Len(l) \in Nat /\ 1 \in 1..Len(l) /\ l[1] \in IndexEntry /\ l[1].tot = 0
      BY <3>2, <3>3 DEF Summed
    <3>5. l[1].len \in Nat
      BY <3>4 DEF IndexEntry
    <3> QED
      BY <1>1, <1>2, <3>3, <3>4, <3>5
  <2> QED
    BY <1>1, <2>2, <2>3
<1>5. RiffsTile'
  BY <1>1, <1>2, SameFile
<1>6. RoundTrip'
  <2>1. ASSUME mode' = "read", NEW s \in Streams
        PROVE  /\ ReadBack(s)' = BackOf(Found(s), s) /\ Written(s)' = Written(s)
    <3>1. index'[s] = WithTotals(Found(s)) /\ DOMAIN index'[s] = DOMAIN Found(s)
      BY <1>1, <2>1 DEF WithTotals
    <3>2. \A e : Entry(s, e)' = Entry(s, e)
      BY <1>1 DEF Entry, ChunksAt
    <3>3. ReadBack(s)' = [i \in DOMAIN index'[s] |-> Entry(s, index'[s][i])]
      BY <1>1 DEF ReadBack, Entry, ChunksAt
    <3>4. Written(s)' = Written(s)
      BY <1>1 DEF Written
    <3> QED
      BY <3>1, <3>3, <3>4 DEF BackOf
  <2>2. ASSUME mode' = "read", NEW s \in Streams
        PROVE  /\ ~full' => ReadBack(s)' = Written(s)'
               /\ full' => /\ \/ IsPrefix(Written(s)', ReadBack(s)')
                              \/ (isOpendml' /\ IsPrefix(ReadBack(s)', Written(s)'))
                           /\ Len(ReadBack(s)') <= Len(Written(s)') + 1
                           /\ \A i \in DOMAIN ReadBack(s)' \ DOMAIN Written(s)' : ReadBack(s)'[i] = 0
    <3>1. file \in Seq(Placed) /\ Tiled(file, pos) /\ StreamInv(file, super[s], s, wrote[s], full)
      <4>1. Here \in Work /\ Here.file = file
        BY <1>2 DEF ClosedInv, Here
      <4> QED
        BY <1>2, <4>1, WorkIs DEF ClosedInv
    <3>2. /\ ~full => BackOf(Found(s), s) = Written(s)
          /\ full => /\ \/ IsPrefix(Written(s), BackOf(Found(s), s))
                        \/ (isOpendml /\ IsPrefix(BackOf(Found(s), s), Written(s)))
                     /\ Len(BackOf(Found(s), s)) <= Len(Written(s)) + 1
                     /\ \A i \in DOMAIN BackOf(Found(s), s) \ DOMAIN Written(s) : BackOf(Found(s), s)[i] = 0
      BY <1>3, <3>1, BackIs
    <3>3. ReadBack(s)' = BackOf(Found(s), s) /\ Written(s)' = Written(s)
      BY <2>1, <2>2
    <3> QED
      BY <1>1, <3>2, <3>3
  <2>3. mode' = "failed" => wrote'[Video] = <<>>
    BY <1>1, <1>3, StreamsAre
  <2> QED
    BY <2>2, <2>3 DEF RoundTrip
<1>7. mode' \in {"read", "failed"}
  BY <1>1
<1> QED
  BY <1>1, <1>2, <1>4, <1>5, <1>6, <1>7 DEF AviInv
LEMMA ReadKeeps ==
  ASSUME AviInv, SetAudioPosition \/ ReadAudio \/ ReadPart \/ NextChunk \/ ReadChunk
  PROVE  AviInv'
<1>1. mode = "read" /\ UNCHANGED <<mode, writeVars, index, track>>
  BY DEF SetAudioPosition, ReadAudio, ReadPart, NextChunk, ReadChunk
<1>2. /\ isOpendml' \in BOOLEAN /\ full' \in BOOLEAN /\ mode' = "read"
      /\ idx' \in Seq(OldEntry) /\ wrote' \in [Streams -> Seq(Nat)]
  BY <1>1 DEF AviInv, writeVars
<1>3. track \in Tracks /\ (\A s \in Streams : Summed(index[s])) /\ AudioInv
  BY <1>1 DEF AviInv, ReadInv
<1>4. Summed(index[track])
  BY <1>3 DEF Streams
<1>5. AudioInv'
  BY <1>1, <1>3, <1>4, AudioStep
<1>6. ReadInv'
  BY <1>1, <1>3, <1>5 DEF ReadInv
<1>7. RiffsTile' /\ RoundTrip'
  BY <1>1, SameFile DEF AviInv, writeVars
<1> QED
  BY <1>2, <1>6, <1>7 DEF AviInv

LEMMA StutterKeeps ==
  ASSUME AviInv, UNCHANGED vars
  PROVE  AviInv'
<1>1. UNCHANGED <<mode, file, pos, idx, super, isOpendml, full, header, lens, wrote,
                  index, track, posc, posb, want, byte>>
  BY DEF vars, writeVars, readVars
<1>2. Here' = Here /\ IndexBehindMovi' = IndexBehindMovi /\ \A p : ChunksAt(p)' = ChunksAt(p)
  BY <1>1 DEF Here, IndexBehindMovi, ChunksAt
<1>3. WriteInv => WriteInv'
  BY <1>1, <1>2 DEF WriteInv
<1>4. ClosedInv => ClosedInv'
  BY <1>1, <1>2 DEF ClosedInv
<1>5. ReadInv => ReadInv'
  BY <1>1 DEF ReadInv, AudioInv, chunks, Bytes
<1>6. RiffsTile => RiffsTile'
  BY <1>1 DEF RiffsTile, ChunksAt
<1>7. RoundTrip => RoundTrip'
  BY <1>1, SameFile
<1> QED
  BY <1>1, <1>3, <1>4, <1>5, <1>6, <1>7 DEF AviInv

LEMMA InitHolds ==
  ASSUME Init
  PROVE  AviInv
<1>1. /\ mode = "write" /\ file = <<>> /\ pos = HeaderBytes /\ idx = <<>> /\ isOpendml = FALSE /\ full = FALSE
      /\ super = [s \in Streams |-> <<>>] /\ wrote = [s \in Streams |-> <<>>]
      /\ posc = 1 /\ posb = 0 /\ want = 0 /\ byte = 0
  BY DEF Init
<1>2. HeaderBytes \in Nat /\ HeaderBytes % 2 = 0 /\ Video \in Streams
  BY AviConstants, StreamsAre
<1>3. \A s \in Streams : super[s] = <<>> /\ wrote[s] = <<>>
  BY <1>1
<1>4. Here.file = <<>> /\ Here.pos = HeaderBytes /\ Here.super = super
  BY <1>1 DEF Here
<1>5. Here \in Work
  <2>1. super \in Supers
    BY <1>1 DEF Supers
  <2> QED
    BY <1>1, <1>2, <2>1 DEF Here, Work
<1>6. Tiled(<<>>, HeaderBytes)
  BY <1>2 DEF Tiled
<1>7. ListsInv(Here, 0, FALSE)
  <2>1. Len(<<>>) = 0 /\ 1..0 = {}
    OBVIOUS
  <2>2. OfTag(Here.file, "RIFF") = <<>> /\ Here.super[Video] = <<>>
    BY <1>2, <1>3, <1>4, NothingIs
  <2> QED
    BY <1>3, <1>4, <2>1, <2>2 DEF ListsInv
<1>8. IxInv(Here)
  BY <1>3, <1>4 DEF IxInv
<1>9. \A s \in Streams : StreamInv(<<>>, <<>>, s, <<>>, FALSE)
  <2>1. Len(<<>>) = 0 /\ 1..0 = {}
    OBVIOUS
  <2> QED
    BY <2>1, NothingIs DEF StreamInv
<1>10. Sound(Here, 0, FALSE, wrote, FALSE)
  BY <1>3, <1>4, <1>5, <1>6, <1>7, <1>8, <1>9 DEF Sound
<1>11. WriteInv
  <2>1. Len(idx) = 0
    BY <1>1
  <2>2. \A s \in Streams : Flat(s, idx) = EntriesOf(super[s])
    BY <1>1, <1>3, NothingIs
  <2>3. super[Video] = <<>>
    BY <1>2, <1>3
  <2> QED
    BY <1>1, <1>10, <2>1, <2>2, <2>3 DEF WriteInv
<1>12. ReadInv /\ RiffsTile /\ RoundTrip
  BY <1>1 DEF ReadInv, RiffsTile, RoundTrip
<1>13. idx \in Seq(OldEntry) /\ wrote \in [Streams -> Seq(Nat)]
  BY <1>1
<1> QED
  BY <1>1, <1>11, <1>12, <1>13 DEF AviInv

-----------------------------------------------------------------------------
(* Theorems *)

\* Whatever is written, closed, opened and read, the file, its indices and the reader's
\* position agree.
THEOREM AviInvariant == Spec => []AviInv
<1>1. Init => AviInv
  BY InitHolds
<1>2. AviInv /\ [Next]_vars => AviInv'
  <2> SUFFICES ASSUME AviInv, [Next]_vars PROVE AviInv'
    OBVIOUS
  <2>1. ASSUME NEW s \in Streams, NEW len \in Lengths, NEW ok \in BOOLEAN, Write(s, len, ok) PROVE AviInv'
    BY <2>1, WriteKeeps
  <2>2. CASE Close
    BY <2>2, CloseKeeps
  <2>3. CASE Open
    BY <2>3, OpenKeeps
  <2>4. CASE SetAudioPosition \/ ReadAudio \/ ReadPart \/ NextChunk \/ ReadChunk
    BY <2>4, ReadKeeps
  <2>5. CASE UNCHANGED vars
    BY <2>5, StutterKeeps
  <2>6. CASE Done
    BY <2>5, <2>6, StutterKeeps DEF Done
  <2> QED
    BY <2>1, <2>2, <2>3, <2>4, <2>5, <2>6 DEF Next
<1> QED
  BY <1>1, <1>2, PTL DEF Spec

\* Every chunk that was written is found again in order, whichever of the two indices the
\* reader follows and without either: avi_parse_input_file undoes avi_add_chunk,
\* avi_add_odml_index_entry and avi_close_output_file.
THEOREM WrittenIsReadBack == Spec => []RoundTrip
<1>1. AviInv => RoundTrip
  BY DEF AviInv
<1> QED
  BY <1>1, AviInvariant, PTL

\* The lengths that avi_close_output_file writes tile the file.
THEOREM ListsTileTheFile == Spec => []RiffsTile
<1>1. AviInv => RiffsTile
  BY DEF AviInv
<1> QED
  BY <1>1, AviInvariant, PTL

\* AVI_read_audio, AVI_read_audio_chunk and AVI_set_audio_position leave the position at
\* the byte that is due, whichever chunks it lies in.
THEOREM AudioIsInOrder == Spec => []AudioInOrder
<1>1. AviInv => AudioInOrder
  BY DEF AviInv, ReadInv, AudioInv, AudioInOrder
<1> QED
  BY <1>1, AviInvariant, PTL

=============================================================================
