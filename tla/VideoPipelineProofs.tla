------------------------- MODULE VideoPipelineProofs -------------------------
(* Proofs about the frame buffer and about one video stream through         *)
(* transcode, for every ring, every pool of filter threads and every        *)
(* interleaving.  First, whoever calls it: the frame buffer keeps its       *)
(* invariants.  Then the loops: they use the frame buffer as it wants to be *)
(* used, and the frames come out in order.                                  *)
EXTENDS VideoPipeline, FiniteSetTheorems, SequenceTheorems, TLAPS

-----------------------------------------------------------------------------
(* The frame buffer: lemmas about the operators. *)

\* The frames of f with status st.
At(f, st) == {s \in Slots : f[s] = st}

\* The sets of frames of a status are finite.
LEMMA AtFinite ==
  ASSUME NEW f, NEW st
  PROVE  IsFiniteSet(At(f, st)) /\ Cardinality(At(f, st)) \in Nat
<1>1. IsFiniteSet(Slots)
  BY FS_Interval, ConstantsOK DEF Slots
<1>2. At(f, st) \subseteq Slots
  BY DEF At
<1> QED
  BY <1>1, <1>2, FS_Subset, FS_CardinalityType

\* The number of frames of a status is a natural number, before and after a step.
LEMMA SlotsInFinite ==
  /\ \A st : Cardinality(SlotsIn(st)) \in Nat
  /\ \A st : Cardinality(SlotsIn(st)') \in Nat
<1>1. \A st : SlotsIn(st) = At(status, st) /\ SlotsIn(st)' = At(status', st)
  BY DEF SlotsIn, At
<1> QED
  BY <1>1, AtFinite

\* When one frame changes status, one status loses a frame and one gains it.
LEMMA StatusMove ==
  ASSUME NEW f \in [Slots -> Statuses], NEW s \in Slots,
         NEW new \in Statuses, new # f[s], NEW st \in Statuses,
         NEW g, \A x \in Slots : g[x] = IF x = s THEN new ELSE f[x]
  PROVE  Cardinality(At(g, st))
           = Cardinality(At(f, st)) + (IF st = new THEN 1 ELSE 0)
                                    - (IF st = f[s] THEN 1 ELSE 0)
<1>1. CASE st = new
  <2>1. At(g, st) = At(f, st) \cup {s} /\ s \notin At(f, st)
    BY <1>1 DEF At
  <2>2. Cardinality(At(f, st) \cup {s}) = Cardinality(At(f, st)) + 1
    BY <2>1, AtFinite, FS_AddElement
  <2>3. Cardinality(At(f, st)) \in Nat /\ st # f[s]
    BY <1>1, AtFinite
  <2>4. Cardinality(At(g, st)) = Cardinality(At(f, st)) + 1
    BY <2>1, <2>2
  <2> QED
    BY <2>3, <2>4, <1>1
<1>2. CASE st = f[s]
  <2>1. At(g, st) = At(f, st) \ {s} /\ s \in At(f, st)
    BY <1>2 DEF At
  <2>2. Cardinality(At(f, st) \ {s}) = Cardinality(At(f, st)) - 1
    BY <2>1, AtFinite, FS_RemoveElement
  <2>3. Cardinality(At(f, st)) \in Nat /\ st # new
    BY <1>2, AtFinite
  <2>4. Cardinality(At(g, st)) = Cardinality(At(f, st)) - 1
    BY <2>1, <2>2
  <2> QED
    BY <2>3, <2>4, <1>2
<1>3. CASE st # new /\ st # f[s]
  <2>1. At(g, st) = At(f, st)
    BY <1>3 DEF At
  <2>2. Cardinality(At(f, st)) \in Nat
    BY AtFinite
  <2> QED
    BY <2>1, <2>2, <1>3
<1> QED
  BY <1>1, <1>2, <1>3

\* Every position the search of the ring visits is a slot.
LEMMA NthSlot ==
  ASSUME next \in Slots, NEW k \in Nat
  PROVE  Nth(k) \in Slots
BY ConstantsOK DEF Nth, Slots

\* Unlinking position i keeps the other frames in their order.
LEMMA RemoveAtElements ==
  ASSUME NEW S, NEW seq \in Seq(S), NEW i \in DOMAIN seq
  PROVE  /\ RemoveAt(seq, i) \in Seq(S)
         /\ Len(RemoveAt(seq, i)) = Len(seq) - 1
         /\ \A j \in 1 .. (Len(seq) - 1) :
              RemoveAt(seq, i)[j] = IF j < i THEN seq[j] ELSE seq[j + 1]
<1> DEFINE a == SubSeq(seq, 1, i - 1)
           b == SubSeq(seq, i + 1, Len(seq))
<1>1. i \in 1 .. Len(seq) /\ Len(seq) \in Nat
  OBVIOUS
<1>2. a \in Seq(S) /\ Len(a) = i - 1 /\ \A j \in 1 .. (i - 1) : a[j] = seq[j]
  BY <1>1
<1>3. b \in Seq(S) /\ Len(b) = Len(seq) - i
      /\ \A j \in 1 .. (Len(seq) - i) : b[j] = seq[i + j]
  BY <1>1
<1> HIDE DEF a, b
<1>4. /\ a \o b \in Seq(S)
      /\ Len(a \o b) = Len(seq) - 1
      /\ \A j \in 1 .. (Len(seq) - 1) :
           (a \o b)[j] = IF j < i THEN seq[j] ELSE seq[j + 1]
  BY <1>1, <1>2, <1>3, SMTT(40)
<1> QED
  BY <1>4 DEF RemoveAt, a, b

\* new is the chain seq with s linked behind position i.
Linked(new, seq, i, s) ==
  /\ new \in Seq(Slots)
  /\ Len(new) = Len(seq) + 1
  /\ \A j \in 1 .. (Len(seq) + 1) :
       new[j] = IF j <= i THEN seq[j] ELSE IF j = i + 1 THEN s ELSE seq[j - 1]

\* Linking s behind position i keeps the other frames in their order.
LEMMA InsertAtElements ==
  ASSUME NEW seq \in Seq(Slots), NEW i \in DOMAIN seq, NEW s \in Slots
  PROVE  Linked(InsertAt(seq, i + 1, s), seq, i, s)
<1> DEFINE a == SubSeq(seq, 1, i)
           b == SubSeq(seq, i + 1, Len(seq))
           c == a \o <<s>>
           d == c \o b
<1>1. i \in 1 .. Len(seq) /\ Len(seq) \in Nat
  OBVIOUS
<1>2. a \in Seq(Slots) /\ Len(a) = i /\ \A j \in 1 .. i : a[j] = seq[j]
  BY <1>1
<1>3. b \in Seq(Slots) /\ Len(b) = Len(seq) - i
      /\ \A j \in 1 .. (Len(seq) - i) : b[j] = seq[i + j]
  BY <1>1
<1> HIDE DEF a, b
<1>4. c \in Seq(Slots) /\ Len(c) = i + 1
      /\ \A j \in 1 .. (i + 1) : c[j] = IF j <= i THEN seq[j] ELSE s
  BY <1>1, <1>2
<1> HIDE DEF c
<1>5. /\ d \in Seq(Slots)
      /\ Len(d) = Len(c) + Len(b)
      /\ \A j \in 1 .. (Len(c) + Len(b)) :
           d[j] = IF j <= Len(c) THEN c[j] ELSE b[j - Len(c)]
  BY <1>3, <1>4, ConcatProperties
<1>6. InsertAt(seq, i + 1, s) = d
  <2>1. (i + 1) - 1 = i
    BY <1>1
  <2>2. InsertAt(seq, i + 1, s) = SubSeq(seq, 1, i) \o <<s>> \o SubSeq(seq, i + 1, Len(seq))
    BY <2>1, Zenon DEF InsertAt
  <2> QED
    BY <2>2 DEF a, b, c
<1> HIDE DEF d
<1>7. Len(d) = Len(seq) + 1
  BY <1>1, <1>3, <1>4, <1>5
<1>8. ASSUME NEW j \in 1 .. (Len(seq) + 1)
      PROVE  d[j] = IF j <= i THEN seq[j]
                    ELSE IF j = i + 1 THEN s ELSE seq[j - 1]
  <2>1. CASE j <= i + 1
    BY <2>1, <1>1, <1>4, <1>5
  <2>2. CASE j > i + 1
    <3>1. d[j] = b[j - (i + 1)] /\ j - (i + 1) \in 1 .. (Len(seq) - i)
      BY <2>2, <1>1, <1>3, <1>4, <1>5, SMTT(40)
    <3> QED
      BY <3>1, <2>2, <1>1, <1>3, SMTT(40)
  <2> QED
    BY <2>1, <2>2, <1>1
<1> QED
  BY <1>5, <1>6, <1>7, <1>8 DEF Linked

-----------------------------------------------------------------------------
(* The inductive invariant.  Its first part is about the ring and the chain, *)
(* its second about the claims of the threads.                               *)

RingInv ==
  /\ ChainIsFramesInUse
  /\ ChainSorted
  /\ HeadLinkedRight
  /\ IdsIssued
  /\ StageCountersExact
  /\ ReserveFindsFrame

ClaimInv == ClaimsExclusive /\ ClaimsMatchStatus /\ ClonesPaired

WaitInv == ImporterNotStranded /\ OnlyImporterWaits

IndInv == TypeOK /\ RingInv /\ ClaimInv /\ WaitInv

\* The same for a step that changes the status of one frame.
LEMMA StatusStep ==
  ASSUME TypeOK, NEW s \in Slots, NEW new \in Statuses, new # status[s],
         \A x \in Slots : status'[x] = IF x = s THEN new ELSE status[x]
  PROVE  \A st \in Statuses :
           Cardinality(SlotsIn(st)') = Cardinality(SlotsIn(st))
             + (IF st = new THEN 1 ELSE 0) - (IF st = status[s] THEN 1 ELSE 0)
<1> TAKE st \in Statuses
<1>1. SlotsIn(st) = At(status, st) /\ SlotsIn(st)' = At(status', st)
  BY DEF SlotsIn, At
<1>2. Cardinality(At(status', st)) = Cardinality(At(status, st))
        + (IF st = new THEN 1 ELSE 0) - (IF st = status[s] THEN 1 ELSE 0)
  <2>1. status \in [Slots -> Statuses]
    BY DEF TypeOK
  <2> QED
    BY <2>1, StatusMove
<1>3. Cardinality(SlotsIn(st)) = Cardinality(At(status, st))
  BY <1>1
<1>4. Cardinality(SlotsIn(st)') = Cardinality(At(status', st))
  BY <1>1
<1> QED
  BY <1>2, <1>3, <1>4

\* Counters that change with the number of frames of their status stay exact.
LEMMA CountersFollow ==
  ASSUME TypeOK, RingInv, count' \in [Statuses -> Int], cloning' = cloning,
         \A st \in Statuses :
           count'[st] - Cardinality(SlotsIn(st)')
             = count[st] - Cardinality(SlotsIn(st))
  PROVE  StageCountersExact' /\ ReserveFindsFrame'
<1>1. \A st \in Statuses :
        /\ Cardinality(SlotsIn(st)) \in Nat /\ Cardinality(SlotsIn(st)') \in Nat
        /\ count[st] \in Int /\ count'[st] \in Int
  BY SlotsInFinite DEF TypeOK
<1>2. {"NULL", "EMPTY", "READY", "WAIT", "LOCKED"} \subseteq Statuses
  BY DEF Statuses
<1>3. StageCountersExact'
  BY <1>1, <1>2 DEF RingInv, StageCountersExact
<1>4. ReserveFindsFrame'
  BY <1>1, <1>2 DEF RingInv, ReserveFindsFrame, WaitCounterExact
<1> QED
  BY <1>3, <1>4

\* The ring and the chain are still sound when one frame in use changes its
\* status to another one in use and its counters follow.
LEMMA SetStatusKeepsRing ==
  ASSUME TypeOK, RingInv,
         NEW s \in Slots, NEW new \in {"WAIT", "LOCKED", "READY"},
         status[s] # "NULL", status[s] # new,
         SetStatus(s, new), id' = id, chain' = chain, stale' = stale,
         cloning' = cloning,
         frameCount' \in Nat, frameCount' >= frameCount
  PROVE  /\ status' \in [Slots -> Statuses]
         /\ count' \in [Statuses -> Int]
         /\ RingInv'
<1>1. status' \in [Slots -> Statuses] /\ count' \in [Statuses -> Int]
  BY SMTT(40) DEF TypeOK, SetStatus, Statuses
<1>2. ChainIsFramesInUse'
  <2>1. \A x \in Slots : status'[x] # "NULL" <=> status[x] # "NULL"
    BY DEF TypeOK, SetStatus
  <2> QED
    BY <2>1 DEF RingInv, ChainIsFramesInUse
<1>3. ChainSorted' /\ HeadLinkedRight'
  <2>1. \A x \in Slots : status'[x] # "NULL" <=> status[x] # "NULL"
    BY DEF TypeOK, SetStatus
  <2> QED
    BY <2>1 DEF TypeOK, RingInv, ChainSorted, HeadLinkedRight
<1>4. IdsIssued'
  <2>1. \A i \in DOMAIN chain : id[chain[i]] \in Nat
    BY DEF TypeOK
  <2> QED
    BY <2>1 DEF RingInv, IdsIssued, TypeOK
<1>5. \A st \in Statuses :
        Cardinality(SlotsIn(st)') = Cardinality(SlotsIn(st))
          + (IF st = new THEN 1 ELSE 0) - (IF st = status[s] THEN 1 ELSE 0)
  <2>1. /\ new \in Statuses
        /\ \A x \in Slots : status'[x] = IF x = s THEN new ELSE status[x]
    BY DEF TypeOK, SetStatus, Statuses
  <2> QED
    BY <2>1, StatusStep
<1>6. \A st \in Statuses :
        count'[st] = count[st] + (IF st = new THEN 1 ELSE 0)
                               - (IF st = status[s] THEN 1 ELSE 0)
  BY SMTT(40) DEF SetStatus, TypeOK, Statuses
<1>7. \A st \in Statuses :
        count'[st] - Cardinality(SlotsIn(st)') = count[st] - Cardinality(SlotsIn(st))
  <2>1. \A st \in Statuses : count[st] \in Int
    BY DEF TypeOK
  <2> QED
    BY <1>5, <1>6, <2>1, SlotsInFinite
<1>8. StageCountersExact' /\ ReserveFindsFrame'
  BY <1>1, <1>7, CountersFollow
<1> QED
  BY <1>1, <1>2, <1>3, <1>4, <1>8 DEF RingInv

\* The ring and the chain are still sound when a filtered or exported frame is
\* unlinked and returned to the pool.
LEMMA ReleaseKeepsRing ==
  ASSUME TypeOK, RingInv, NEW s \in Slots, status[s] \in {"READY", "LOCKED"},
         s \notin stale, Release(s), cloning' = cloning, frameCount' = frameCount
  PROVE  /\ status' \in [Slots -> Statuses]
         /\ count' \in [Statuses -> Int]
         /\ chain' \in Seq(Slots)
         /\ stale' \in SUBSET Slots
         /\ chain # <<>> /\ chain[1] # s => chain' # <<>> /\ chain'[1] = chain[1]
         /\ RingInv'
<1>1. status' \in [Slots -> Statuses] /\ count' \in [Statuses -> Int]
  BY SMTT(40) DEF TypeOK, Release, Recount, Statuses
<1>2. PICK p \in DOMAIN chain : /\ chain[p] = s /\ chain' = RemoveAt(chain, p)
                               /\ stale' = stale \ Behind(p)
  BY DEF Release, Unlink
<1>3. /\ chain \in Seq(Slots) /\ Len(chain) \in Nat /\ p \in 1 .. Len(chain)
      /\ chain' \in Seq(Slots)
      /\ Len(chain') = Len(chain) - 1
      /\ DOMAIN chain' = 1 .. (Len(chain) - 1)
      /\ \A j \in 1 .. (Len(chain) - 1) :
           chain'[j] = IF j < p THEN chain[j] ELSE chain[j + 1]
  <2>1. chain \in Seq(Slots) /\ Len(chain) \in Nat /\ p \in 1 .. Len(chain)
    BY <1>2 DEF TypeOK
  <2>2. /\ chain' \in Seq(Slots)
        /\ Len(chain') = Len(chain) - 1
        /\ \A j \in 1 .. (Len(chain) - 1) :
             chain'[j] = IF j < p THEN chain[j] ELSE chain[j + 1]
    BY <2>1, <1>2, RemoveAtElements
  <2>3. DOMAIN chain' = 1 .. Len(chain')
    BY <2>2
  <2> QED
    BY <2>1, <2>2, <2>3
<1>4. \A i \in DOMAIN chain' :
        \E j \in DOMAIN chain : chain'[i] = chain[j] /\ j # p /\ (j = i \/ j = i + 1)
  BY <1>3, SMTT(40)
<1>5. chain # <<>> /\ chain[1] # s => chain' # <<>> /\ chain'[1] = chain[1]
  BY <1>2, <1>3
<1>6. \A x \in Slots : status'[x] = IF x = s THEN "NULL" ELSE status[x]
  BY DEF TypeOK, Release
<1>7. ChainIsFramesInUse'
  <2>1. ASSUME NEW x \in Slots
        PROVE  status'[x] # "NULL" <=> \E i \in DOMAIN chain' : chain'[i] = x
    <3>1. CASE x = s
      <4>1. \A i \in DOMAIN chain' : chain'[i] # s
        BY <1>2, <1>4 DEF RingInv, ChainIsFramesInUse
      <4> QED
        BY <4>1, <3>1, <1>6
    <3>2. CASE x # s
      <4>1. ASSUME status[x] # "NULL"
            PROVE  \E i \in DOMAIN chain' : chain'[i] = x
        <5>1. PICK j \in DOMAIN chain : chain[j] = x
          BY <4>1 DEF RingInv, ChainIsFramesInUse
        <5>2. j # p /\ j \in 1 .. Len(chain)
          BY <5>1, <3>2, <1>2, <1>3
        <5>3. CASE j < p
          BY <5>1, <5>2, <5>3, <1>3
        <5>4. CASE j > p
          <6>1. j - 1 \in DOMAIN chain' /\ chain'[j - 1] = x
            BY <5>1, <5>2, <5>4, <1>3
          <6> QED
            BY <6>1
        <5> QED
          BY <5>2, <5>3, <5>4, <1>3
      <4>2. ASSUME NEW i \in DOMAIN chain', chain'[i] = x
            PROVE  status[x] # "NULL"
        BY <4>2, <1>4 DEF RingInv, ChainIsFramesInUse
      <4> QED
        BY <4>1, <4>2, <3>2, <1>6
    <3> QED
      BY <3>1, <3>2
  <2>2. ASSUME NEW i \in DOMAIN chain', NEW j \in DOMAIN chain', chain'[i] = chain'[j]
        PROVE  i = j
    <3> DEFINE u == IF i < p THEN i ELSE i + 1
               v == IF j < p THEN j ELSE j + 1
    <3>1. u \in DOMAIN chain /\ v \in DOMAIN chain /\ chain[u] = chain[v]
      BY <2>2, <1>3
    <3>2. u = v
      BY <3>1 DEF RingInv, ChainIsFramesInUse
    <3> QED
      BY <3>2, <1>3
  <2> QED
    BY <2>1, <2>2 DEF ChainIsFramesInUse
<1>8. ChainSorted'
  <2>1. id' = id
    BY DEF Release
  <2>2. ASSUME NEW i \in DOMAIN chain', NEW j \in DOMAIN chain', i < j
        PROVE  id[chain'[i]] <= id[chain'[j]]
    <3> DEFINE u == IF i < p THEN i ELSE i + 1
               v == IF j < p THEN j ELSE j + 1
    <3>1. u \in DOMAIN chain /\ v \in DOMAIN chain /\ u < v
          /\ chain'[i] = chain[u] /\ chain'[j] = chain[v]
      BY <2>2, <1>3
    <3> QED
      BY <3>1 DEF RingInv, ChainSorted
  <2> QED
    BY <2>1, <2>2 DEF ChainSorted
<1>9. IdsIssued' /\ HeadLinkedRight' /\ stale' \in SUBSET Slots
  <2>1. IdsIssued'
    BY <1>4 DEF RingInv, IdsIssued, Release
  <2>2. stale' \subseteq stale /\ stale \subseteq Slots
    BY <1>2 DEF TypeOK
  <2>3. \A x \in stale' : status'[x] # "NULL"
    BY <2>2, <1>6 DEF RingInv, HeadLinkedRight
  <2>4. ASSUME chain' # <<>>
        PROVE  chain'[1] \notin stale'
    <3>1. 1 \in DOMAIN chain'
      BY <2>4, <1>3
    <3>2. CASE p = 1
      <4>1. chain'[1] = chain[2] /\ 2 \in DOMAIN chain /\ p + 1 = 2
        BY <3>1, <3>2, <1>3
      <4>2. chain[2] \in Behind(p)
        BY <4>1 DEF Behind
      <4> QED
        BY <4>1, <4>2, <1>2
    <3>3. CASE p # 1
      <4>1. chain'[1] = chain[1] /\ chain # <<>>
        BY <3>1, <3>3, <1>3
      <4> QED
        BY <4>1, <2>2 DEF RingInv, HeadLinkedRight
    <3> QED
      BY <3>2, <3>3
  <2> QED
    BY <2>1, <2>2, <2>3, <2>4 DEF HeadLinkedRight
<1>10. \A st \in Statuses :
         Cardinality(SlotsIn(st)') = Cardinality(SlotsIn(st))
           + (IF st = "NULL" THEN 1 ELSE 0) - (IF st = status[s] THEN 1 ELSE 0)
  BY <1>6, StatusStep DEF Statuses
<1>11. \A st \in Statuses :
         count'[st] = count[st] + (IF st = "NULL" THEN 1 ELSE 0)
                                - (IF st = status[s] THEN 1 ELSE 0)
  <2> TAKE st \in Statuses
  <2>1. count'[st] = CASE st = "NULL" -> count[st] + 1
                      [] st \in {"READY", "LOCKED"} /\ st = status[s] -> count[st] - 1
                      [] OTHER -> count[st]
    BY DEF Release, Recount
  <2>2. count[st] \in Int
    BY DEF TypeOK
  <2>3. CASE st = "NULL"
    BY <2>1, <2>2, <2>3
  <2>4. CASE st # "NULL" /\ st = status[s]
    BY <2>1, <2>2, <2>4
  <2>5. CASE st # "NULL" /\ st # status[s]
    BY <2>1, <2>2, <2>5
  <2> QED
    BY <2>3, <2>4, <2>5
<1>12. \A st \in Statuses :
         count'[st] - Cardinality(SlotsIn(st)') = count[st] - Cardinality(SlotsIn(st))
  <2>1. \A st \in Statuses : count[st] \in Int
    BY DEF TypeOK
  <2> QED
    BY <1>10, <1>11, <2>1, SlotsInFinite
<1>13. StageCountersExact' /\ ReserveFindsFrame'
  BY <1>1, <1>12, CountersFollow
<1> QED
  BY <1>1, <1>3, <1>4, <1>5, <1>7, <1>8, <1>9, <1>13 DEF RingInv

\* The chain is still sound when a free frame n is linked behind position p with
\* an id that fits there.
LEMMA InsertKeepsChain ==
  ASSUME TypeOK, RingInv,
         NEW n \in Slots, status[n] = "NULL", NEW new \in Statuses, new # "NULL",
         NEW i \in Nat, i <= frameCount, frameCount' = frameCount,
         NEW p \in Nat, p <= Len(chain),
         \A x \in Slots : status'[x] = IF x = n THEN new ELSE status[x],
         \A x \in Slots : id'[x] = IF x = n THEN i ELSE id[x],
         chain' \in Seq(Slots), Len(chain') = Len(chain) + 1,
         \A j \in 1 .. (Len(chain) + 1) :
           chain'[j] = IF j <= p THEN chain[j]
                       ELSE IF j = p + 1 THEN n ELSE chain[j - 1],
         \A j \in 1 .. p : id[chain[j]] <= i,
         \A j \in (p + 1) .. Len(chain) : i <= id[chain[j]]
  PROVE  ChainIsFramesInUse' /\ ChainSorted' /\ IdsIssued'
<1> DEFINE Old(j) == IF j <= p THEN j ELSE j - 1
<1>1. /\ chain \in Seq(Slots) /\ Len(chain) \in Nat
      /\ DOMAIN chain = 1 .. Len(chain)
      /\ DOMAIN chain' = 1 .. (Len(chain) + 1)
      /\ p + 1 \in DOMAIN chain' /\ chain'[p + 1] = n
      /\ \A s \in Slots : id[s] \in Nat
  BY DEF TypeOK
<1>2. \A j \in DOMAIN chain : chain[j] \in Slots /\ chain[j] # n
  BY <1>1 DEF RingInv, ChainIsFramesInUse
<1>3. \A j \in DOMAIN chain' :
        j # p + 1 => Old(j) \in DOMAIN chain /\ chain'[j] = chain[Old(j)]
  BY <1>1
<1>4. \A j \in DOMAIN chain :
        \E k \in DOMAIN chain' : k # p + 1 /\ Old(k) = j /\ chain'[k] = chain[j]
  <2> TAKE j \in DOMAIN chain
  <2>1. CASE j <= p
    <3>1. j \in DOMAIN chain' /\ j # p + 1 /\ Old(j) = j
      BY <2>1, <1>1
    <3> QED
      BY <3>1, <1>3
  <2>2. CASE j > p
    <3>1. j + 1 \in DOMAIN chain' /\ j + 1 # p + 1 /\ Old(j + 1) = j
      BY <2>2, <1>1
    <3> QED
      BY <3>1, <1>3
  <2> QED
    BY <2>1, <2>2, <1>1
<1>5. ChainIsFramesInUse'
  <2>1. ASSUME NEW x \in Slots
        PROVE  status'[x] # "NULL" <=> \E j \in DOMAIN chain' : chain'[j] = x
    <3>1. CASE x = n
      BY <3>1, <1>1
    <3>2. CASE x # n
      <4>1. status'[x] # "NULL" <=> \E j \in DOMAIN chain : chain[j] = x
        BY <3>2 DEF RingInv, ChainIsFramesInUse
      <4>2. (\E j \in DOMAIN chain' : chain'[j] = x)
              <=> \E j \in DOMAIN chain : chain[j] = x
        <5>1. ASSUME NEW j \in DOMAIN chain', chain'[j] = x
              PROVE  \E m \in DOMAIN chain : chain[m] = x
          <6>1. j # p + 1
            BY <5>1, <3>2, <1>1
          <6> QED
            BY <6>1, <5>1, <1>3
        <5>2. ASSUME NEW j \in DOMAIN chain, chain[j] = x
              PROVE  \E m \in DOMAIN chain' : chain'[m] = x
          BY <5>2, <1>4
        <5> QED
          BY <5>1, <5>2
      <4> QED
        BY <4>1, <4>2, <3>2
    <3> QED
      BY <3>1, <3>2
  <2>2. ASSUME NEW j \in DOMAIN chain', NEW k \in DOMAIN chain', chain'[j] = chain'[k]
        PROVE  j = k
    <3>1. CASE j = p + 1 \/ k = p + 1
      BY <3>1, <2>2, <1>1, <1>2, <1>3
    <3>2. CASE j # p + 1 /\ k # p + 1
      <4>1. Old(j) \in DOMAIN chain /\ Old(k) \in DOMAIN chain
            /\ chain[Old(j)] = chain[Old(k)]
        BY <3>2, <2>2, <1>3
      <4>2. Old(j) = Old(k)
        BY <4>1 DEF RingInv, ChainIsFramesInUse
      <4> QED
        BY <4>2, <3>2, <1>1
    <3> QED
      BY <3>1, <3>2
  <2> QED
    BY <2>1, <2>2 DEF ChainIsFramesInUse
<1>6. \A j \in DOMAIN chain' :
        j # p + 1 => Old(j) \in DOMAIN chain /\ id'[chain'[j]] = id[chain[Old(j)]]
  BY <1>2, <1>3
<1>7. id'[chain'[p + 1]] = i
  BY <1>1
<1>8. ChainSorted'
  <2>1. ASSUME NEW j \in DOMAIN chain', NEW k \in DOMAIN chain', j < k
        PROVE  id'[chain'[j]] <= id'[chain'[k]]
    <3>1. CASE j = p + 1
      <4>1. k # p + 1 /\ Old(k) \in (p + 1) .. Len(chain)
        BY <3>1, <2>1, <1>1
      <4> QED
        BY <4>1, <3>1, <1>6, <1>7
    <3>2. CASE k = p + 1
      <4>1. j # p + 1 /\ Old(j) \in 1 .. p
        BY <3>2, <2>1, <1>1
      <4> QED
        BY <4>1, <3>2, <1>6, <1>7
    <3>3. CASE j # p + 1 /\ k # p + 1
      <4>1. Old(j) \in DOMAIN chain /\ Old(k) \in DOMAIN chain /\ Old(j) < Old(k)
        BY <3>3, <2>1, <1>1
      <4>2. id[chain[Old(j)]] <= id[chain[Old(k)]]
        BY <4>1 DEF RingInv, ChainSorted
      <4> QED
        BY <4>2, <3>3, <1>6
    <3> QED
      BY <3>1, <3>2, <3>3
  <2> QED
    BY <2>1 DEF ChainSorted
<1>9. IdsIssued'
  <2>1. ASSUME NEW j \in DOMAIN chain'
        PROVE  id'[chain'[j]] <= frameCount'
    <3>1. CASE j = p + 1
      BY <3>1, <1>7
    <3>2. CASE j # p + 1
      BY <3>2, <1>6 DEF RingInv, IdsIssued
    <3> QED
      BY <3>1, <3>2
  <2> QED
    BY <2>1 DEF IdsIssued
<1> QED
  BY <1>5, <1>8, <1>9

\* The step takes frame n out of the pool, with status st and id i, and counts
\* it with counter.
Taken(n, counter, st, i) ==
  /\ n \in Slots /\ status[n] = "NULL"
  /\ status' \in [Slots -> Statuses] /\ id' \in [Slots -> Nat]
  /\ next' \in Slots /\ count' \in [Statuses -> Int]
  /\ \A x \in Slots : status'[x] = IF x = n THEN st ELSE status[x]
  /\ \A x \in Slots : id'[x] = IF x = n THEN i ELSE id[x]
  /\ \A x \in Statuses : count'[x] = count[x]
       + (IF x = counter THEN 1 ELSE 0) - (IF x = "NULL" THEN 1 ELSE 0)
  /\ \A x \in Statuses :
       Cardinality(SlotsIn(x)') = Cardinality(SlotsIn(x))
         + (IF x = st THEN 1 ELSE 0) - (IF x = "NULL" THEN 1 ELSE 0)

\* What the search of the ring finds is such a step.
LEMMA TakeFreeFrame ==
  ASSUME TypeOK, NEW k \in Slots, NEW counter \in Statuses \ {"NULL"},
         NEW st \in Statuses \ {"NULL"}, NEW i \in Nat, TakeFree(k, counter, st, i)
  PROVE  Taken(Nth(k), counter, st, i)
<1>1. /\ status \in [Slots -> Statuses] /\ id \in [Slots -> Nat]
      /\ next \in Slots /\ count \in [Statuses -> Int] /\ k \in Nat
      /\ "NULL" \in Statuses
  BY DEF TypeOK, Slots, Statuses
<1>2. Nth(k) \in Slots /\ Nth(k + 1) \in Slots
  BY <1>1, NthSlot
<1>3. status[Nth(k)] = "NULL"
  BY DEF TakeFree, FirstFree
<1>4. status' = [status EXCEPT ![Nth(k)] = st] /\ id' = [id EXCEPT ![Nth(k)] = i]
      /\ next' = Nth(k + 1)
      /\ count' = [count EXCEPT !["NULL"] = @ - 1, ![counter] = @ + 1]
  BY DEF TakeFree
<1> DEFINE n == Nth(k)
<1> HIDE DEF n
<1>5. /\ status' \in [Slots -> Statuses] /\ id' \in [Slots -> Nat]
      /\ next' \in Slots
      /\ \A x \in Slots : status'[x] = IF x = n THEN st ELSE status[x]
      /\ \A x \in Slots : id'[x] = IF x = n THEN i ELSE id[x]
  BY <1>1, <1>2, <1>4 DEF n
<1>6. /\ count' \in [Statuses -> Int]
      /\ \A x \in Statuses : count'[x] = count[x]
           + (IF x = counter THEN 1 ELSE 0) - (IF x = "NULL" THEN 1 ELSE 0)
  BY <1>1, <1>4
<1>7. \A x \in Statuses :
        Cardinality(SlotsIn(x)') = Cardinality(SlotsIn(x))
          + (IF x = st THEN 1 ELSE 0) - (IF x = "NULL" THEN 1 ELSE 0)
  <2>1. n \in Slots /\ status[n] = "NULL"
    BY <1>2, <1>3 DEF n
  <2>2. \A x \in Statuses :
          Cardinality(SlotsIn(x)') = Cardinality(SlotsIn(x))
            + (IF x = st THEN 1 ELSE 0) - (IF x = status[n] THEN 1 ELSE 0)
    BY <2>1, <1>5, StatusStep
  <2> QED
    BY <2>1, <2>2
<1> QED
  BY <1>2, <1>3, <1>5, <1>6, <1>7 DEF n, Taken

\* A registered frame goes to the tail of the chain with the newest id.
LEMMA RegisterKeepsRing ==
  ASSUME TypeOK, RingInv, NEW k \in Slots,
         TakeFree(k, "EMPTY", "EMPTY", frameCount), chain' = Append(chain, Nth(k)),
         stale' = stale, frameCount' = frameCount, cloning' = cloning
  PROVE  /\ chain' \in Seq(Slots)
         /\ chain # <<>> => chain'[1] = chain[1]
         /\ RingInv'
<1>1. "EMPTY" \in Statuses \ {"NULL"} /\ frameCount \in Nat
      /\ chain \in Seq(Slots) /\ Len(chain) \in Nat
  BY DEF TypeOK, Statuses
<1>2. /\ Nth(k) \in Slots /\ status[Nth(k)] = "NULL"
      /\ count' \in [Statuses -> Int]
      /\ \A x \in Slots : status'[x] = IF x = Nth(k) THEN "EMPTY" ELSE status[x]
      /\ \A x \in Slots : id'[x] = IF x = Nth(k) THEN frameCount ELSE id[x]
      /\ \A x \in Statuses : count'[x] = count[x]
           + (IF x = "EMPTY" THEN 1 ELSE 0) - (IF x = "NULL" THEN 1 ELSE 0)
      /\ \A x \in Statuses :
           Cardinality(SlotsIn(x)') = Cardinality(SlotsIn(x))
             + (IF x = "EMPTY" THEN 1 ELSE 0) - (IF x = "NULL" THEN 1 ELSE 0)
  <2>1. Taken(Nth(k), "EMPTY", "EMPTY", frameCount)
    BY <1>1, TakeFreeFrame
  <2> QED
    BY <2>1 DEF Taken
<1> DEFINE n == Nth(k)
<1> HIDE DEF n
<1>3. /\ chain' \in Seq(Slots) /\ Len(chain') = Len(chain) + 1
      /\ \A j \in 1 .. (Len(chain) + 1) :
           chain'[j] = IF j <= Len(chain) THEN chain[j]
                       ELSE IF j = Len(chain) + 1 THEN n ELSE chain[j - 1]
  BY <1>1, <1>2, AppendProperties DEF n
<1>4. \A j \in 1 .. Len(chain) : id[chain[j]] <= frameCount
  BY <1>1 DEF RingInv, IdsIssued
<1>5. ChainIsFramesInUse' /\ ChainSorted' /\ IdsIssued'
  <2>1. /\ n \in Slots /\ status[n] = "NULL"
        /\ \A x \in Slots : status'[x] = IF x = n THEN "EMPTY" ELSE status[x]
        /\ \A x \in Slots : id'[x] = IF x = n THEN frameCount ELSE id[x]
    BY <1>2 DEF n
  <2>2. \A j \in (Len(chain) + 1) .. Len(chain) : frameCount <= id[chain[j]]
    BY <1>1
  <2>3. frameCount <= frameCount /\ Len(chain) <= Len(chain)
        /\ "EMPTY" \in Statuses /\ "EMPTY" # "NULL"
    BY <1>1
  <2> QED
    BY <2>1, <2>2, <2>3, <1>1, <1>3, <1>4, InsertKeepsChain
<1>6. \A st \in Statuses :
        count'[st] - Cardinality(SlotsIn(st)') = count[st] - Cardinality(SlotsIn(st))
  <2>1. \A st \in Statuses : count[st] \in Int
    BY DEF TypeOK
  <2> QED
    BY <1>2, <2>1, SlotsInFinite
<1>7. StageCountersExact' /\ ReserveFindsFrame'
  BY <1>2, <1>6, CountersFollow
<1>8. chain # <<>> => chain'[1] = chain[1]
  BY <1>1, <1>3
<1>9. HeadLinkedRight'
  <2>1. stale' = stale /\ stale \subseteq Slots
        /\ \A x \in stale : status[x] # "NULL" /\ x # n
    BY <1>2 DEF RingInv, HeadLinkedRight, TypeOK, n
  <2>2. \A x \in stale' : status'[x] # "NULL"
    BY <2>1, <1>2
  <2>3. chain'[1] \notin stale'
    <3>1. CASE chain = <<>>
      <4>1. chain'[1] = n
        BY <3>1, <1>1, <1>3
      <4> QED
        BY <4>1, <2>1
    <3>2. CASE chain # <<>>
      BY <3>2, <2>1, <1>8 DEF RingInv, HeadLinkedRight
    <3> QED
      BY <3>1, <3>2
  <2> QED
    BY <2>2, <2>3 DEF HeadLinkedRight
<1> QED
  BY <1>3, <1>5, <1>7, <1>8, <1>9 DEF RingInv

\* A duplicate goes right behind its original and has its id.  It is counted
\* as waiting while it is locked.
LEMMA DupKeepsRing ==
  ASSUME TypeOK, RingInv, cloning' = TRUE, frameCount' = frameCount,
         NEW k \in Slots, NEW p \in DOMAIN chain, status[chain[p]] = "LOCKED",
         NEW i, i = id[chain[p]], TakeFree(k, "WAIT", "LOCKED", i),
         NEW n, n = Nth(k), chain' = InsertAt(chain, p + 1, n),
         stale' = stale \cup Behind(p)
  PROVE  /\ chain' \in Seq(Slots) /\ stale' \in SUBSET Slots
         /\ chain'[1] = chain[1]
         /\ RingInv'
<1>1. /\ "LOCKED" \in Statuses \ {"NULL"} /\ "WAIT" \in Statuses \ {"NULL"}
      /\ chain \in Seq(Slots) /\ Len(chain) \in Nat
      /\ p \in 1 .. Len(chain) /\ chain[p] \in Slots /\ i \in Nat
  BY DEF TypeOK, Statuses
<1>2. i <= frameCount
  BY DEF RingInv, IdsIssued
<1>3. /\ n \in Slots /\ status[n] = "NULL"
      /\ count' \in [Statuses -> Int]
      /\ \A x \in Slots : status'[x] = IF x = n THEN "LOCKED" ELSE status[x]
      /\ \A x \in Slots : id'[x] = IF x = n THEN i ELSE id[x]
      /\ \A x \in Statuses : count'[x] = count[x]
           + (IF x = "WAIT" THEN 1 ELSE 0) - (IF x = "NULL" THEN 1 ELSE 0)
      /\ \A x \in Statuses :
           Cardinality(SlotsIn(x)') = Cardinality(SlotsIn(x))
             + (IF x = "LOCKED" THEN 1 ELSE 0) - (IF x = "NULL" THEN 1 ELSE 0)
  <2>1. Taken(n, "WAIT", "LOCKED", i)
    BY <1>1, TakeFreeFrame
  <2> QED
    BY <2>1 DEF Taken
<1>4. /\ chain' \in Seq(Slots) /\ Len(chain') = Len(chain) + 1
      /\ \A j \in 1 .. (Len(chain) + 1) :
           chain'[j] = IF j <= p THEN chain[j]
                       ELSE IF j = p + 1 THEN n ELSE chain[j - 1]
  <2>1. chain \in Seq(Slots) /\ p \in DOMAIN chain /\ n \in Slots
    BY <1>1, <1>3
  <2>2. Linked(InsertAt(chain, p + 1, n), chain, p, n)
    BY <2>1, InsertAtElements
  <2> QED
    BY <2>2 DEF Linked
<1>5. /\ \A j \in 1 .. p : id[chain[j]] <= i
      /\ \A j \in (p + 1) .. Len(chain) : i <= id[chain[j]]
  <2>1. \A j \in 1 .. Len(chain) : id[chain[j]] \in Nat
    BY <1>1, SMTT(30) DEF TypeOK
  <2>2. \A j, m \in 1 .. Len(chain) : j < m => id[chain[j]] <= id[chain[m]]
    BY <1>1 DEF RingInv, ChainSorted
  <2>3. ASSUME NEW j \in 1 .. p
        PROVE  id[chain[j]] <= i
    <3>1. j \in 1 .. Len(chain) /\ (j = p \/ j < p)
      BY <1>1
    <3> QED
      BY <3>1, <2>1, <2>2, <1>1
  <2>4. ASSUME NEW j \in (p + 1) .. Len(chain)
        PROVE  i <= id[chain[j]]
    <3>1. j \in 1 .. Len(chain) /\ p < j
      BY <1>1
    <3> QED
      BY <3>1, <2>2, <1>1
  <2> QED
    BY <2>3, <2>4
<1>6. ChainIsFramesInUse' /\ ChainSorted' /\ IdsIssued'
  <2>1. /\ n \in Slots /\ status[n] = "NULL"
        /\ \A x \in Slots : status'[x] = IF x = n THEN "LOCKED" ELSE status[x]
        /\ \A x \in Slots : id'[x] = IF x = n THEN i ELSE id[x]
    BY <1>3
  <2>2. p \in Nat /\ p <= Len(chain) /\ "LOCKED" \in Statuses /\ "LOCKED" # "NULL"
    BY <1>1
  <2> QED
    BY <2>1, <2>2, <1>1, <1>2, <1>4, <1>5, InsertKeepsChain
<1>7. StageCountersExact'
  <2>1. \A st \in Statuses :
          /\ Cardinality(SlotsIn(st)) \in Nat /\ Cardinality(SlotsIn(st)') \in Nat
          /\ count[st] \in Int /\ count'[st] \in Int
    BY <1>3, SlotsInFinite DEF TypeOK
  <2>2. {"NULL", "EMPTY", "READY", "WAIT", "LOCKED"} \subseteq Statuses
    BY DEF Statuses
  <2> QED
    BY <1>3, <2>1, <2>2 DEF RingInv, StageCountersExact
<1>8. ReserveFindsFrame'
  BY DEF ReserveFindsFrame
<1>9. chain'[1] = chain[1]
  <2>1. 1 \in 1 .. (Len(chain) + 1) /\ 1 <= p
    BY <1>1
  <2>2. \A j \in 1 .. (Len(chain) + 1) : j <= p => chain'[j] = chain[j]
    BY <1>4
  <2> QED
    BY <2>1, <2>2
<1>10. HeadLinkedRight' /\ stale' \in SUBSET Slots
  <2>1. \A x \in Behind(p) : x \in Slots /\ status[x] # "NULL" /\ x # chain[1]
    <3>1. ASSUME NEW x \in Behind(p)
          PROVE  x \in Slots /\ status[x] # "NULL" /\ x # chain[1]
      <4>1. p + 1 \in DOMAIN chain /\ x = chain[p + 1] /\ p + 1 # 1 /\ 1 \in DOMAIN chain
        BY <1>1 DEF Behind
      <4>2. x \in Slots
        BY <4>1, <1>1
      <4> QED
        BY <4>1, <4>2 DEF RingInv, ChainIsFramesInUse
    <3> QED
      BY <3>1
  <2>2. stale \subseteq Slots /\ (\A x \in stale : status[x] # "NULL")
        /\ chain[1] \notin stale
    <3>1. chain # <<>>
      BY <1>1
    <3> QED
      BY <3>1 DEF TypeOK, RingInv, HeadLinkedRight
  <2>3. \A x \in stale' : x \in Slots /\ status[x] # "NULL" /\ x # chain[1]
    BY <2>1, <2>2
  <2>4. \A x \in stale' : status'[x] # "NULL"
    BY <2>3, <1>3
  <2> QED
    BY <2>3, <2>4, <1>9 DEF HeadLinkedRight
<1> QED
  BY <1>4, <1>6, <1>7, <1>8, <1>9, <1>10 DEF RingInv

-----------------------------------------------------------------------------
(* Threads, condition variables and claims. *)

\* The roles are different threads, and the NULL pointer is no frame.
LEMMA Roles ==
  /\ Importer \in Threads /\ Exporter \in Threads /\ Importer # Exporter
  /\ \A w \in Workers : w \in Threads /\ w # Importer /\ w # Exporter
  /\ Importer \notin Workers /\ Exporter \notin Workers
  /\ NoFrame \notin Slots
BY ConstantsOK DEF Threads, Slots

\* A signal only takes threads out of the set of sleepers; the importer, if it
\* sleeps alone, is the one that it wakes up.
LEMMA SignalWakes ==
  ASSUME TypeOK, NEW c \in Conds, Signal(c)
  PROVE  /\ asleep' \in [Conds -> SUBSET Threads]
         /\ woken' \in SUBSET Threads
         /\ \A d \in Conds : asleep'[d] \subseteq asleep[d]
         /\ asleep[c] \subseteq {Importer} => asleep'[c] = {}
<1>1. asleep \in [Conds -> SUBSET Threads] /\ woken \in SUBSET Threads
  BY DEF TypeOK
<1>2. PICK S \in OneOf(asleep[c]) :
        asleep' = [asleep EXCEPT ![c] = @ \ S] /\ woken' = woken \cup S
  BY DEF Signal
<1>3. S \subseteq asleep[c] /\ (asleep[c] \subseteq {Importer} => S = asleep[c])
  <2>1. CASE asleep[c] = {}
    BY <2>1, <1>2 DEF OneOf
  <2>2. CASE asleep[c] # {}
    <3>1. PICK t \in asleep[c] : S = {t}
      BY <2>2, <1>2 DEF OneOf
    <3> QED
      BY <3>1
  <2> QED
    BY <2>1, <2>2
<1>4. asleep[c] \in SUBSET Threads
  BY <1>1
<1>5. asleep' \in [Conds -> SUBSET Threads]
  BY <1>1, <1>2, <1>4
<1>6. woken' \in SUBSET Threads
  BY <1>1, <1>2, <1>3, <1>4
<1>7. \A d \in Conds : asleep'[d] = IF d = c THEN asleep[c] \ S ELSE asleep[d]
  BY <1>1, <1>2
<1> QED
  BY <1>3, <1>5, <1>6, <1>7

\* A thread that goes to sleep, or returns, leaves the others where they are.
LEMMA SleepKeepsSync ==
  ASSUME TypeOK, NEW t \in Threads, NEW c \in Conds, Sleep(t, c)
  PROVE  /\ asleep' \in [Conds -> SUBSET Threads]
         /\ woken' \in SUBSET Threads
         /\ \A d \in Conds :
              asleep'[d] = IF d = c THEN asleep[d] \cup {t} ELSE asleep[d]
<1>1. asleep \in [Conds -> SUBSET Threads] /\ woken \in SUBSET Threads
  BY DEF TypeOK
<1>2. asleep' = [asleep EXCEPT ![c] = @ \cup {t}] /\ woken' = woken \ {t}
  BY DEF Sleep
<1>3. asleep[c] \cup {t} \in SUBSET Threads
  BY <1>1
<1> QED
  BY <1>1, <1>2, <1>3

\* A claiming function that returns keeps the sets of sleeping and woken threads apart.
LEMMA ReturnKeepsSync ==
  ASSUME TypeOK, NEW t \in Threads, Return(t)
  PROVE  /\ asleep' \in [Conds -> SUBSET Threads]
         /\ woken' \in SUBSET Threads
         /\ asleep' = asleep
BY DEF TypeOK, Return

\* Nobody is put to sleep, and the importer is not left asleep beside a frame.
LEMMA WaitKept ==
  ASSUME WaitInv, cloning' = cloning,
         asleep'["import"] \subseteq asleep["import"],
         count'["NULL"] = count["NULL"] \/ Importer \notin asleep'["import"]
  PROVE  WaitInv'
BY DEF WaitInv, ImporterNotStranded, OnlyImporterWaits

\* A step that leaves the ring and the claims alone keeps what is said of them.
LEMMA RingKept ==
  ASSUME RingInv, ClaimInv, UNCHANGED <<ring, claims>>,
         frameCount' = frameCount, cloning' = cloning
  PROVE  RingInv' /\ ClaimInv'
<1> USE DEF ring, claims
<1>1. \A st : SlotsIn(st)' = SlotsIn(st)
  BY DEF SlotsIn
<1>2. StageCountersExact' /\ ReserveFindsFrame'
  BY <1>1 DEF RingInv, StageCountersExact, ReserveFindsFrame, WaitCounterExact
<1>3. ChainIsFramesInUse' /\ ChainSorted' /\ HeadLinkedRight' /\ IdsIssued'
  BY DEF RingInv, ChainIsFramesInUse, ChainSorted, HeadLinkedRight, IdsIssued
<1>4. ClaimInv'
  BY DEF ClaimInv, ClaimsExclusive, ClaimsMatchStatus, ClonesPaired, Holds
<1> QED
  BY <1>2, <1>3, <1>4 DEF RingInv

\* The claims stay sound when only those on frame s change: everyone keeps the
\* other frames, which keep their statuses, and the claim on s fits its status.
LEMMA ClaimKept ==
  ASSUME ClaimInv, NEW s \in Slots,
         \A x \in Slots : x # s =>
           /\ status'[x] = status[x]
           /\ \A t \in Threads : Holds(t, x)' <=> Holds(t, x)
           /\ ptr'[Exporter] = x => x = chain'[1],
         \A x \in Slots : x # s =>
           ((ptr'[Importer] = x <=> ptr[Importer] = x)
             /\ (ptr'[Exporter] = x => ptr[Exporter] = x)),
         \A t, u \in Threads : Holds(t, s)' /\ Holds(u, s)' => t = u,
         status'[s] = "EMPTY" <=> ptr'[Importer] = s,
         status'[s] = "LOCKED" <=> \E w \in Workers : Holds(w, s)',
         ptr'[Exporter] = s => status'[s] = "READY" /\ s = chain'[1],
         ClonesPaired'
  PROVE  ClaimInv'
<1>1. ClaimsExclusive'
  BY DEF ClaimInv, ClaimsExclusive
<1>2. ClaimsMatchStatus'
  <2> SUFFICES ASSUME NEW x \in Slots
      PROVE  /\ status'[x] = "EMPTY" <=> ptr'[Importer] = x
             /\ status'[x] = "LOCKED" <=> \E w \in Workers : Holds(w, x)'
             /\ ptr'[Exporter] = x => status'[x] = "READY" /\ x = chain'[1]
    BY DEF ClaimsMatchStatus
  <2>1. CASE x = s
    BY <2>1
  <2>2. CASE x # s
    <3>1. /\ status[x] = "EMPTY" <=> ptr[Importer] = x
          /\ status[x] = "LOCKED" <=> \E w \in Workers : Holds(w, x)
          /\ ptr[Exporter] = x => status[x] = "READY" /\ x = chain[1]
      BY DEF ClaimInv, ClaimsMatchStatus
    <3>2. \A w \in Workers : Holds(w, x)' <=> Holds(w, x)
      BY <2>2, Roles
    <3> QED
      BY <2>2, <3>1, <3>2
  <2> QED
    BY <2>1, <2>2
<1> QED
  BY <1>1, <1>2 DEF ClaimInv

\* Who may hold a frame, by its status.
LEMMA HolderOf ==
  ASSUME ClaimInv, NEW s \in Slots, NEW t \in Threads, Holds(t, s)
  PROVE  \/ t = Importer /\ status[s] = "EMPTY"
         \/ t \in Workers /\ status[s] = "LOCKED"
         \/ t = Exporter /\ status[s] = "READY" /\ s = chain[1]
<1>1. /\ ptr[Importer] = s => status[s] = "EMPTY"
      /\ \A w \in Workers : Holds(w, s) => status[s] = "LOCKED"
      /\ ptr[Exporter] = s => status[s] = "READY" /\ s = chain[1]
  BY DEF ClaimInv, ClaimsMatchStatus
<1>2. t \in Workers \/ ptr[t] = s
  BY DEF Holds
<1> QED
  BY <1>1, <1>2 DEF Threads

\* The frame the exporter works on is the head of the chain.
LEMMA ExporterHead ==
  ASSUME RingInv, ClaimInv, NEW x \in Slots, ptr[Exporter] = x
  PROVE  x = chain[1] /\ chain # <<>> /\ status[x] = "READY"
<1>1. status[x] = "READY" /\ x = chain[1]
  BY DEF ClaimInv, ClaimsMatchStatus
<1>2. chain # <<>>
  BY <1>1 DEF RingInv, ChainIsFramesInUse
<1> QED
  BY <1>1, <1>2

\* A thread claims a frame that nobody holds.
LEMMA ClaimGained ==
  ASSUME ClaimInv, NEW s \in Slots, NEW t \in Threads, t # Exporter,
         \A u \in Threads : ~Holds(u, s),
         \A u \in Threads, x \in Slots :
           Holds(u, x)' <=> Holds(u, x) \/ (u = t /\ x = s),
         ptr'[Exporter] = ptr[Exporter],
         \A x \in Slots : ptr[Exporter] = x => x = chain'[1],
         \A x \in Slots : x # s => status'[x] = status[x],
         status'[s] = IF t = Importer THEN "EMPTY" ELSE "LOCKED",
         ClonesPaired'
  PROVE  ClaimInv'
<1>1. \A x \in Slots : /\ Holds(Importer, x) <=> ptr[Importer] = x
                       /\ Holds(Importer, x)' <=> ptr'[Importer] = x
                       /\ Holds(Exporter, x)' <=> ptr'[Exporter] = x
                       /\ Holds(Exporter, x) <=> ptr[Exporter] = x
  BY Roles DEF Holds
<1>2. \A x \in Slots : x # s =>
        /\ status'[x] = status[x]
        /\ \A u \in Threads : Holds(u, x)' <=> Holds(u, x)
        /\ ptr'[Exporter] = x => x = chain'[1]
  OBVIOUS
<1>3. \A x \in Slots : x # s =>
        ((ptr'[Importer] = x <=> ptr[Importer] = x)
           /\ (ptr'[Exporter] = x => ptr[Exporter] = x))
  BY <1>1, Roles
<1>4. \A u, v \in Threads : Holds(u, s)' /\ Holds(v, s)' => u = v
  OBVIOUS
<1>5. status'[s] = "EMPTY" <=> ptr'[Importer] = s
  BY <1>1, Roles
<1>6. status'[s] = "LOCKED" <=> \E w \in Workers : Holds(w, s)'
  <2>1. \A w \in Workers : Holds(w, s)' <=> w = t
    BY Roles
  <2>2. t = Importer \/ t \in Workers
    BY DEF Threads
  <2> QED
    BY <2>1, <2>2, Roles
<1>7. ptr'[Exporter] = s => status'[s] = "READY" /\ s = chain'[1]
  BY <1>1, Roles
<1> QED
  BY <1>2, <1>3, <1>4, <1>5, <1>6, <1>7, ClaimKept

\* The claim on a frame is given up.
LEMMA ClaimLost ==
  ASSUME ClaimInv, NEW s \in Slots,
         \A u \in Threads, x \in Slots : Holds(u, x)' <=> Holds(u, x) /\ x # s,
         \A x \in Slots : x # s /\ ptr[Exporter] = x => x = chain'[1],
         \A x \in Slots : x # s => status'[x] = status[x],
         status'[s] \notin {"EMPTY", "LOCKED"},
         ClonesPaired'
  PROVE  ClaimInv'
<1>1. \A x \in Slots : /\ Holds(Importer, x) <=> ptr[Importer] = x
                       /\ Holds(Importer, x)' <=> ptr'[Importer] = x
                       /\ Holds(Exporter, x)' <=> ptr'[Exporter] = x
                       /\ Holds(Exporter, x) <=> ptr[Exporter] = x
  BY Roles DEF Holds
<1>2. \A x \in Slots : x # s =>
        ((ptr'[Importer] = x <=> ptr[Importer] = x)
           /\ (ptr'[Exporter] = x => ptr[Exporter] = x))
  BY <1>1, Roles
<1>3. \A x \in Slots : x # s =>
        /\ status'[x] = status[x]
        /\ \A u \in Threads : Holds(u, x)' <=> Holds(u, x)
        /\ ptr'[Exporter] = x => x = chain'[1]
  BY <1>2
<1>4. \A u, v \in Threads : Holds(u, s)' /\ Holds(v, s)' => u = v
  OBVIOUS
<1>5. status'[s] = "EMPTY" <=> ptr'[Importer] = s
  BY <1>1, Roles
<1>6. status'[s] = "LOCKED" <=> \E w \in Workers : Holds(w, s)'
  BY Roles
<1>7. ptr'[Exporter] = s => status'[s] = "READY" /\ s = chain'[1]
  BY <1>1, Roles
<1> QED
  BY <1>2, <1>3, <1>4, <1>5, <1>6, <1>7, ClaimKept

-----------------------------------------------------------------------------
(* Every action keeps the invariant. *)

\* Steps that only move threads between the wait sets.
LEMMA SyncStep ==
  ASSUME IndInv, UNCHANGED <<ring, claims, control>>,
         asleep' \in [Conds -> SUBSET Threads], woken' \in SUBSET Threads,
         WaitInv'
  PROVE  IndInv'
<1>1. RingInv' /\ ClaimInv'
  BY RingKept DEF IndInv, control
<1>2. TypeOK'
  BY DEF IndInv, TypeOK, ring, claims, control
<1> QED
  BY <1>1, <1>2 DEF IndInv

\* A thread starts to wait on a condition.
LEMMA SleepStep ==
  ASSUME IndInv, NEW t \in Threads, NEW c \in Conds, Sleep(t, c),
         UNCHANGED <<ring, claims, control>>,
         c = "import" => (t = Importer /\ count["NULL"] = 0) \/ cloning = TRUE
  PROVE  IndInv'
<1>1. /\ asleep' \in [Conds -> SUBSET Threads] /\ woken' \in SUBSET Threads
      /\ \A d \in Conds :
           asleep'[d] = IF d = c THEN asleep[d] \cup {t} ELSE asleep[d]
  BY SleepKeepsSync DEF IndInv
<1>2. count' = count /\ cloning' = cloning
  BY DEF ring, control
<1>3. "import" \in Conds
  BY DEF Conds
<1>4. WaitInv'
  <2>1. CASE cloning = TRUE
    BY <2>1, <1>2 DEF WaitInv, ImporterNotStranded, OnlyImporterWaits
  <2>2. CASE c = "import" /\ cloning # TRUE
    BY <2>2, <1>1, <1>2, <1>3
       DEF IndInv, WaitInv, ImporterNotStranded, OnlyImporterWaits
  <2>3. CASE c # "import"
    <3>1. asleep'["import"] = asleep["import"]
      BY <2>3, <1>1, <1>3
    <3> QED
      BY <3>1, <1>2, WaitKept DEF IndInv
  <2> QED
    BY <2>1, <2>2, <2>3
<1> QED
  BY <1>1, <1>4, SyncStep

\* A thread returns without a frame.
LEMMA ReturnStep ==
  ASSUME IndInv, NEW t \in Threads, Return(t), UNCHANGED <<ring, claims, control>>
  PROVE  IndInv'
<1>1. asleep' \in [Conds -> SUBSET Threads] /\ woken' \in SUBSET Threads
      /\ asleep' = asleep
  BY ReturnKeepsSync DEF IndInv
<1>2. count' = count /\ cloning' = cloning
  BY DEF ring, control
<1>3. WaitInv'
  BY <1>1, <1>2, WaitKept DEF IndInv
<1> QED
  BY <1>1, <1>3, SyncStep

\* Wakeups without a change of the ring.
LEMMA WakeStep ==
  ASSUME IndInv, UNCHANGED <<ring, claims, control>>,
         asleep' \in [Conds -> SUBSET Threads], woken' \in SUBSET Threads,
         asleep'["import"] \subseteq asleep["import"]
  PROVE  IndInv'
<1>1. count' = count /\ cloning' = cloning
  BY DEF ring, control
<1>2. WaitInv'
  BY <1>1, WaitKept DEF IndInv
<1> QED
  BY <1>2, SyncStep

\* vframe_register keeps the invariant.
LEMMA RegisterStep ==
  ASSUME IndInv, Register
  PROVE  IndInv'
<1> USE DEF control
<1>1. CASE RegisterWait
  <2>1. count["NULL"] = 0 /\ "import" \in Conds /\ Importer \in Threads
    BY <1>1, Roles DEF RegisterWait, RegisterBlocks, Conds
  <2>2. Sleep(Importer, "import") /\ UNCHANGED <<ring, claims, control>>
    BY <1>1 DEF RegisterWait, Register
  <2> HIDE DEF control
  <2> QED
    BY <2>1, <2>2, SleepStep
<1>2. CASE RegisterNull
  <2>1. Return(Importer) /\ UNCHANGED <<ring, claims, control>>
    BY <1>2 DEF RegisterNull, Register
  <2> HIDE DEF control
  <2> QED
    BY <2>1, Roles, ReturnStep
<1>3. CASE RegisterFrame
  <2>1. PICK k \in Slots :
          /\ TakeFree(k, "EMPTY", "EMPTY", frameCount)
          /\ chain' = Append(chain, Nth(k))
          /\ ptr' = [ptr EXCEPT ![Importer] = Nth(k)]
    BY <1>3 DEF RegisterFrame, LinkLast
  <2>2. /\ frameCount' = frameCount /\ cloning' = cloning /\ clone' = clone
        /\ stale' = stale /\ running' = running /\ pooled' = pooled /\ importing' = importing
        /\ Return(Importer) /\ Awake(Importer) /\ ptr[Importer] = NoFrame
    BY <1>3 DEF Register, RegisterFrame, LinkLast
  <2>3. "EMPTY" \in Statuses \ {"NULL"} /\ frameCount \in Nat /\ TypeOK /\ RingInv
    BY DEF IndInv, TypeOK, Statuses
  <2>4. /\ Nth(k) \in Slots /\ status[Nth(k)] = "NULL"
        /\ status' \in [Slots -> Statuses] /\ id' \in [Slots -> Nat]
        /\ next' \in Slots /\ count' \in [Statuses -> Int]
        /\ \A x \in Slots : status'[x] = IF x = Nth(k) THEN "EMPTY" ELSE status[x]
    <3>1. Taken(Nth(k), "EMPTY", "EMPTY", frameCount)
      BY <2>1, <2>3, TakeFreeFrame
    <3> QED
      BY <3>1 DEF Taken
  <2>5. chain' \in Seq(Slots) /\ (chain # <<>> => chain'[1] = chain[1]) /\ RingInv'
    BY <2>1, <2>2, <2>3, RegisterKeepsRing
  <2>6. asleep' \in [Conds -> SUBSET Threads] /\ woken' \in SUBSET Threads
        /\ asleep' = asleep
    BY <2>2, <2>3, Roles, ReturnKeepsSync
  <2>7. /\ ptr' \in [Threads -> Slots \cup {NoFrame}]
        /\ \A t \in Threads : ptr'[t] = IF t = Importer THEN Nth(k) ELSE ptr[t]
    BY <2>1, <2>3, <2>4 DEF TypeOK
  <2>8. TypeOK'
    BY <2>2, <2>3, <2>4, <2>5, <2>6, <2>7 DEF TypeOK
  <2>9. ClaimInv'
    <3>1. PICK n \in Slots :
            /\ status[n] = "NULL"
            /\ \A x \in Slots : status'[x] = IF x = n THEN "EMPTY" ELSE status[x]
            /\ \A t \in Threads : ptr'[t] = IF t = Importer THEN n ELSE ptr[t]
      BY <2>4, <2>7
    <3>2. \A t \in Threads : ~Holds(t, n)
      BY <3>1, HolderOf DEF IndInv
    <3>3. \A u \in Threads, x \in Slots :
            Holds(u, x)' <=> Holds(u, x) \/ (u = Importer /\ x = n)
      BY <2>2, <3>1, Roles DEF Holds
    <3>4. ClonesPaired'
      BY <2>2, <3>1, Roles DEF IndInv, ClaimInv, ClonesPaired
    <3>5. \A x \in Slots : ptr[Exporter] = x => x = chain'[1]
      BY <2>5, ExporterHead DEF IndInv
    <3>6. /\ ptr'[Exporter] = ptr[Exporter]
          /\ \A x \in Slots : x # n => status'[x] = status[x]
          /\ status'[n] = IF Importer = Importer THEN "EMPTY" ELSE "LOCKED"
          /\ Importer \in Threads /\ Importer # Exporter
      BY <3>1, Roles
    <3>7. ClaimInv
      BY DEF IndInv
    <3> QED
      BY <3>2, <3>3, <3>4, <3>5, <3>6, <3>7, ClaimGained
  <2>10. WaitInv'
    <3>1. Importer \notin asleep["import"]
      BY <2>2 DEF Awake, Conds
    <3> QED
      BY <3>1, <2>2, <2>6, WaitKept DEF IndInv
  <2> QED
    BY <2>5, <2>8, <2>9, <2>10 DEF IndInv
<1> QED
  BY <1>1, <1>2, <1>3 DEF Register

\* A signal on any condition, or none, puts nobody to sleep.
LEMMA WakeOrNot ==
  ASSUME TypeOK, (\E c \in Conds : Signal(c)) \/ UNCHANGED sync
  PROVE  /\ asleep' \in [Conds -> SUBSET Threads]
         /\ woken' \in SUBSET Threads
         /\ asleep'["import"] \subseteq asleep["import"]
<1>1. CASE UNCHANGED sync
  BY <1>1 DEF TypeOK, sync
<1>2. CASE \E c \in Conds : Signal(c)
  BY <1>2, SignalWakes DEF Conds
<1> QED
  BY <1>1, <1>2

\* Pushing an imported frame keeps the invariant.
LEMMA PushImportedStep ==
  ASSUME IndInv, NEW new \in {"WAIT", "READY"}, PushImported(new)
  PROVE  IndInv'
<1>1. PICK s \in Slots : s = ptr[Importer]
  BY Roles DEF IndInv, TypeOK, PushImported
<1>2. /\ SetStatus(s, new) /\ ptr' = [ptr EXCEPT ![Importer] = NoFrame]
      /\ id' = id /\ chain' = chain /\ next' = next /\ clone' = clone
      /\ stale' = stale /\ running' = running /\ pooled' = pooled
      /\ importing' = importing /\ cloning' = cloning
      /\ frameCount' \in {frameCount, frameCount + 1}
  BY <1>1 DEF PushImported
<1>3. TypeOK /\ RingInv /\ ClaimInv /\ WaitInv /\ frameCount \in Nat
  BY DEF IndInv, TypeOK
<1>4. status[s] = "EMPTY"
  BY <1>1 DEF IndInv, ClaimInv, ClaimsMatchStatus
<1>5. frameCount' \in Nat /\ frameCount' >= frameCount
  BY <1>2, <1>3
<1>6. status' \in [Slots -> Statuses] /\ count' \in [Statuses -> Int] /\ RingInv'
  BY <1>2, <1>3, <1>4, <1>5, SetStatusKeepsRing
<1>7. (\E c \in Conds : Signal(c)) \/ UNCHANGED sync
  BY DEF PushImported, Conds
<1>8. /\ asleep' \in [Conds -> SUBSET Threads] /\ woken' \in SUBSET Threads
      /\ asleep'["import"] \subseteq asleep["import"]
  BY <1>3, <1>7, WakeOrNot
<1>9. /\ ptr' \in [Threads -> Slots \cup {NoFrame}]
      /\ \A t \in Threads : ptr'[t] = IF t = Importer THEN NoFrame ELSE ptr[t]
  BY <1>2, <1>3 DEF TypeOK
<1>10. TypeOK'
  BY <1>2, <1>3, <1>5, <1>6, <1>8, <1>9 DEF TypeOK
<1>11. ClaimInv'
  <2>1. \A t \in Threads : Holds(t, s) => t = Importer
    BY <1>3, <1>4, HolderOf
  <2>2. \A u \in Threads, x \in Slots : Holds(u, x)' <=> Holds(u, x) /\ x # s
    BY <1>1, <1>2, <1>9, <2>1, Roles DEF Holds
  <2>3. \A x \in Slots : x # s /\ ptr[Exporter] = x => x = chain'[1]
    BY <1>2, <1>3, ExporterHead
  <2>4. (\A x \in Slots : x # s => status'[x] = status[x]) /\ status'[s] = new
    BY <1>2, <1>3 DEF SetStatus, TypeOK
  <2>5. ClonesPaired'
    BY <1>2, <1>3, <1>9, Roles DEF ClaimInv, ClonesPaired
  <2> QED
    BY <1>3, <2>2, <2>3, <2>4, <2>5, ClaimLost
<1>12. count'["NULL"] = count["NULL"]
  BY <1>2, <1>3, <1>4 DEF SetStatus, TypeOK, Statuses
<1>13. WaitInv'
  BY <1>2, <1>3, <1>8, <1>12, WaitKept
<1> QED
  BY <1>6, <1>10, <1>11, <1>13 DEF IndInv

\* vframe_reserve keeps the invariant.
LEMMA ReserveStep ==
  ASSUME IndInv, NEW w \in Workers, Reserve(w)
  PROVE  IndInv'
<1>1. w \in Threads /\ w # Importer /\ w # Exporter
  BY Roles
<1>2. CASE ReserveWait(w)
  <2>1. Sleep(w, "filter") /\ UNCHANGED <<ring, claims, control>>
    BY <1>2 DEF ReserveWait, Reserve
  <2>2. "filter" \in Conds /\ "filter" # "import"
    BY DEF Conds
  <2> QED
    BY <1>1, <2>1, <2>2, SleepStep
<1>3. CASE ReserveNull(w)
  <2>1. Return(w) /\ UNCHANGED <<ring, claims, control>>
    BY <1>3 DEF ReserveNull, Reserve
  <2> QED
    BY <1>1, <2>1, ReturnStep
<1>4. CASE ReserveFrame(w)
  <2>1. PICK i \in DOMAIN chain :
          /\ status[chain[i]] = "WAIT" /\ SetStatus(chain[i], "LOCKED")
          /\ ptr' = [ptr EXCEPT ![w] = chain[i]]
    BY <1>4 DEF ReserveFrame
  <2>2. TypeOK /\ RingInv /\ ClaimInv /\ WaitInv /\ frameCount \in Nat
    BY DEF IndInv, TypeOK
  <2>3. PICK s \in Slots : s = chain[i]
    BY <2>2 DEF TypeOK
  <2>4. /\ id' = id /\ chain' = chain /\ next' = next /\ clone' = clone
        /\ stale' = stale /\ running' = running /\ pooled' = pooled
        /\ importing' = importing /\ cloning' = cloning
        /\ frameCount' = frameCount /\ Return(w) /\ ptr[w] = NoFrame
    BY <1>4 DEF ReserveFrame, Reserve, control
  <2>5. status' \in [Slots -> Statuses] /\ count' \in [Statuses -> Int] /\ RingInv'
    <3>1. frameCount' \in Nat /\ frameCount' >= frameCount
      BY <2>2, <2>4
    <3> QED
      BY <2>1, <2>2, <2>3, <2>4, <3>1, SetStatusKeepsRing
  <2>6. asleep' \in [Conds -> SUBSET Threads] /\ woken' \in SUBSET Threads
        /\ asleep' = asleep
    BY <1>1, <2>2, <2>4, ReturnKeepsSync
  <2>7. /\ ptr' \in [Threads -> Slots \cup {NoFrame}]
        /\ \A t \in Threads : ptr'[t] = IF t = w THEN s ELSE ptr[t]
    BY <2>1, <2>2, <2>3 DEF TypeOK
  <2>8. TypeOK'
    BY <2>2, <2>4, <2>5, <2>6, <2>7 DEF TypeOK
  <2>9. ClaimInv'
    <3>1. \A t \in Threads : ~Holds(t, s)
      BY <2>1, <2>2, <2>3, HolderOf
    <3>2. clone[w] = NoFrame
      BY <2>2, <2>4 DEF ClaimInv, ClonesPaired
    <3>3. \A u \in Threads, x \in Slots :
            Holds(u, x)' <=> Holds(u, x) \/ (u = w /\ x = s)
      BY <2>4, <2>7, Roles DEF Holds
    <3>4. ClonesPaired'
      BY <2>2, <2>4, <2>7, <3>2, Roles DEF ClaimInv, ClonesPaired
    <3>5. \A x \in Slots : ptr[Exporter] = x => x = chain'[1]
      BY <2>2, <2>4, ExporterHead
    <3>6. /\ ptr'[Exporter] = ptr[Exporter]
          /\ \A x \in Slots : x # s => status'[x] = status[x]
          /\ status'[s] = IF w = Importer THEN "EMPTY" ELSE "LOCKED"
      BY <1>1, <2>1, <2>2, <2>3, <2>7, Roles DEF SetStatus, TypeOK
    <3> QED
      BY <1>1, <2>2, <3>1, <3>3, <3>4, <3>5, <3>6, ClaimGained
  <2>10. count'["NULL"] = count["NULL"]
    BY <2>1, <2>2, <2>3 DEF SetStatus, TypeOK, Statuses
  <2>11. WaitInv'
    BY <2>2, <2>4, <2>6, <2>10, WaitKept
  <2> QED
    BY <2>5, <2>8, <2>9, <2>11 DEF IndInv
<1> QED
  BY <1>2, <1>3, <1>4 DEF Reserve

\* vframe_dup keeps the invariant.
LEMMA DupStep ==
  ASSUME IndInv, NEW w \in Workers, Dup(w)
  PROVE  IndInv'
<1>1. w \in Threads /\ w # Importer /\ w # Exporter /\ cloning = TRUE
  BY Roles DEF Dup, IndInv, TypeOK
<1>2. CASE DupWait(w)
  <2>1. Sleep(w, "import") /\ UNCHANGED <<ring, claims, control>>
    BY <1>2 DEF DupWait, Dup
  <2>2. "import" \in Conds
    BY DEF Conds
  <2> QED
    BY <1>1, <2>1, <2>2, SleepStep
<1>3. CASE DupNull(w)
  <2>1. Return(w) /\ UNCHANGED <<ring, claims, control>>
    BY <1>3 DEF DupNull, Dup
  <2> QED
    BY <1>1, <2>1, ReturnStep
<1>4. CASE DupFrame(w)
  <2>1. PICK k \in Slots, p \in DOMAIN chain :
          /\ chain[p] = ptr[w]
          /\ TakeFree(k, "WAIT", status[ptr[w]], id[ptr[w]])
          /\ chain' = InsertAt(chain, p + 1, Nth(k))
          /\ stale' = stale \cup Behind(p)
          /\ clone' = [clone EXCEPT ![w] = Nth(k)]
    BY <1>4 DEF DupFrame, LinkBehind
  <2>2. TypeOK /\ RingInv /\ ClaimInv /\ WaitInv
    BY DEF IndInv, TypeOK
  <2>3. /\ ptr' = ptr /\ Return(w) /\ ptr[w] # NoFrame /\ clone[w] = NoFrame
        /\ running' = running /\ pooled' = pooled /\ importing' = importing /\ cloning' = TRUE
        /\ frameCount' = frameCount
    BY <1>1, <1>4 DEF DupFrame, Dup, control
  <2>4. ptr[w] \in Slots /\ status[ptr[w]] = "LOCKED" /\ id[ptr[w]] \in Nat
    <3>1. ptr[w] \in Slots /\ id[ptr[w]] \in Nat
      BY <1>1, <2>2, <2>3 DEF TypeOK
    <3>2. Holds(w, ptr[w])
      BY DEF Holds
    <3> QED
      BY <3>1, <3>2, <2>2 DEF ClaimInv, ClaimsMatchStatus
  <2>5. TakeFree(k, "WAIT", "LOCKED", id[ptr[w]])
    BY <2>1, <2>4
  <2>6. PICK n : n = Nth(k)
    OBVIOUS
  <2>7. PICK i : i = id[chain[p]]
    OBVIOUS
  <2>8. status[chain[p]] = "LOCKED" /\ TakeFree(k, "WAIT", "LOCKED", i)
        /\ chain' = InsertAt(chain, p + 1, n) /\ i \in Nat
        /\ stale' = stale \cup Behind(p)
    BY <2>1, <2>4, <2>5, <2>6, <2>7
  <2>9. chain' \in Seq(Slots) /\ stale' \in SUBSET Slots
        /\ chain'[1] = chain[1] /\ RingInv'
    BY <2>2, <2>3, <2>6, <2>7, <2>8, DupKeepsRing
  <2>10. /\ n \in Slots /\ status[n] = "NULL"
         /\ status' \in [Slots -> Statuses] /\ id' \in [Slots -> Nat]
         /\ next' \in Slots /\ count' \in [Statuses -> Int]
         /\ \A x \in Slots : status'[x] = IF x = n THEN "LOCKED" ELSE status[x]
    <3>1. "WAIT" \in Statuses \ {"NULL"} /\ "LOCKED" \in Statuses \ {"NULL"}
      BY DEF Statuses
    <3>2. Taken(n, "WAIT", "LOCKED", i)
      BY <3>1, <2>2, <2>6, <2>8, TakeFreeFrame
    <3> QED
      BY <3>2 DEF Taken
  <2>11. asleep' \in [Conds -> SUBSET Threads] /\ woken' \in SUBSET Threads
         /\ asleep' = asleep
    BY <1>1, <2>2, <2>3, ReturnKeepsSync
  <2>12. /\ clone' \in [Workers -> Slots \cup {NoFrame}]
         /\ \A v \in Workers : clone'[v] = IF v = w THEN n ELSE clone[v]
    BY <2>1, <2>2, <2>6, <2>10 DEF TypeOK
  <2>13. TypeOK'
    BY <2>2, <2>3, <2>9, <2>10, <2>11, <2>12 DEF TypeOK
  <2>14. ClaimInv'
    <3>1. \A t \in Threads : ~Holds(t, n)
      BY <2>2, <2>10, HolderOf
    <3>2. \A u \in Threads, x \in Slots :
            Holds(u, x)' <=> Holds(u, x) \/ (u = w /\ x = n)
      BY <2>3, <2>12, Roles DEF Holds
    <3>3. ClonesPaired'
      <4>1. ptr[w] # n
        BY <2>4, <2>10
      <4> QED
        BY <4>1, <2>2, <2>3, <2>12 DEF ClaimInv, ClonesPaired
    <3>4. \A x \in Slots : ptr[Exporter] = x => x = chain'[1]
      BY <2>2, <2>9, ExporterHead
    <3>5. /\ ptr'[Exporter] = ptr[Exporter]
          /\ \A x \in Slots : x # n => status'[x] = status[x]
          /\ status'[n] = IF w = Importer THEN "EMPTY" ELSE "LOCKED"
      BY <1>1, <2>3, <2>10
    <3> QED
      BY <1>1, <2>2, <2>10, <3>1, <3>2, <3>3, <3>4, <3>5, ClaimGained
  <2>15. WaitInv'
    BY <2>3 DEF WaitInv, ImporterNotStranded, OnlyImporterWaits
  <2> QED
    BY <2>9, <2>13, <2>14, <2>15 DEF IndInv
<1> QED
  BY <1>2, <1>3, <1>4 DEF Dup

\* Pushing the duplicate keeps the invariant.
LEMMA PushCloneStep ==
  ASSUME IndInv, NEW w \in Workers, PushClone(w)
  PROVE  IndInv'
<1>1. PICK s \in Slots : s = clone[w]
  BY DEF IndInv, TypeOK, PushClone
<1>2. /\ SetStatus(s, "WAIT") /\ Signal("filter")
      /\ clone' = [clone EXCEPT ![w] = NoFrame]
      /\ id' = id /\ chain' = chain /\ next' = next /\ ptr' = ptr
      /\ stale' = stale
      /\ frameCount' = frameCount /\ cloning' = cloning
      /\ running' = running /\ pooled' = pooled /\ importing' = importing
  BY <1>1 DEF PushClone, control
<1>3. TypeOK /\ RingInv /\ ClaimInv /\ WaitInv /\ frameCount \in Nat
  BY DEF IndInv, TypeOK
<1>4. status[s] = "LOCKED"
  <2>1. Holds(w, s)
    BY <1>1 DEF Holds
  <2> QED
    BY <2>1, <1>3 DEF ClaimInv, ClaimsMatchStatus
<1>5. status' \in [Slots -> Statuses] /\ count' \in [Statuses -> Int] /\ RingInv'
  <2>1. frameCount' \in Nat /\ frameCount' >= frameCount
    BY <1>2, <1>3
  <2> QED
    BY <1>2, <1>3, <1>4, <2>1, SetStatusKeepsRing
<1>6. /\ asleep' \in [Conds -> SUBSET Threads] /\ woken' \in SUBSET Threads
      /\ asleep'["import"] \subseteq asleep["import"]
  BY <1>2, <1>3, WakeOrNot DEF Conds
<1>7. /\ clone' \in [Workers -> Slots \cup {NoFrame}]
      /\ \A v \in Workers : clone'[v] = IF v = w THEN NoFrame ELSE clone[v]
  BY <1>2, <1>3 DEF TypeOK
<1>8. TypeOK'
  BY <1>2, <1>3, <1>5, <1>6, <1>7 DEF TypeOK
<1>9. ClaimInv'
  <2>1. \A t \in Threads : Holds(t, s) => t = w
    BY <1>1, <1>3, Roles DEF ClaimInv, ClaimsExclusive, Holds
  <2>2. ptr[w] # s
    BY <1>1, <1>3, Roles DEF ClaimInv, ClonesPaired
  <2>3. \A u \in Threads, x \in Slots : Holds(u, x)' <=> Holds(u, x) /\ x # s
    BY <1>1, <1>2, <1>7, <2>1, <2>2, Roles DEF Holds
  <2>4. \A x \in Slots : x # s /\ ptr[Exporter] = x => x = chain'[1]
    BY <1>2, <1>3, ExporterHead
  <2>5. (\A x \in Slots : x # s => status'[x] = status[x]) /\ status'[s] = "WAIT"
    BY <1>2, <1>3 DEF SetStatus, TypeOK
  <2>6. ClonesPaired'
    BY <1>2, <1>3, <1>7 DEF ClaimInv, ClonesPaired
  <2> QED
    BY <1>3, <2>3, <2>4, <2>5, <2>6, ClaimLost
<1>10. count'["NULL"] = count["NULL"]
  BY <1>2, <1>3, <1>4 DEF SetStatus, TypeOK, Statuses
<1>11. WaitInv'
  BY <1>2, <1>3, <1>6, <1>10, WaitKept
<1> QED
  BY <1>5, <1>8, <1>9, <1>11 DEF IndInv

\* Pushing a filtered frame keeps the invariant.
LEMMA PushFilteredStep ==
  ASSUME IndInv, NEW w \in Workers, PushFiltered(w)
  PROVE  IndInv'
<1>1. w \in Threads /\ w # Importer /\ w # Exporter
  BY Roles
<1>2. PICK s \in Slots : s = ptr[w]
  BY <1>1 DEF IndInv, TypeOK, PushFiltered
<1>3. /\ SetStatus(s, "READY") /\ clone[w] = NoFrame
      /\ ptr' = [ptr EXCEPT ![w] = NoFrame]
      /\ id' = id /\ chain' = chain /\ next' = next /\ clone' = clone
      /\ stale' = stale /\ frameCount' = frameCount /\ cloning' = cloning
      /\ running' = running /\ pooled' = pooled /\ importing' = importing
  BY <1>2 DEF PushFiltered, control
<1>4. TypeOK /\ RingInv /\ ClaimInv /\ WaitInv /\ frameCount \in Nat
  BY DEF IndInv, TypeOK
<1>5. status[s] = "LOCKED"
  <2>1. Holds(w, s)
    BY <1>2 DEF Holds
  <2> QED
    BY <2>1, <1>4 DEF ClaimInv, ClaimsMatchStatus
<1>6. status' \in [Slots -> Statuses] /\ count' \in [Statuses -> Int] /\ RingInv'
  <2>1. frameCount' \in Nat /\ frameCount' >= frameCount
    BY <1>3, <1>4
  <2> QED
    BY <1>3, <1>4, <1>5, <2>1, SetStatusKeepsRing
<1>7. /\ asleep' \in [Conds -> SUBSET Threads] /\ woken' \in SUBSET Threads
      /\ asleep'["import"] \subseteq asleep["import"]
  <2>1. (\E c \in Conds : Signal(c)) \/ UNCHANGED sync
    BY DEF PushFiltered, Conds
  <2> QED
    BY <1>4, <2>1, WakeOrNot
<1>8. /\ ptr' \in [Threads -> Slots \cup {NoFrame}]
      /\ \A t \in Threads : ptr'[t] = IF t = w THEN NoFrame ELSE ptr[t]
  BY <1>3, <1>4 DEF TypeOK
<1>9. TypeOK'
  BY <1>3, <1>4, <1>6, <1>7, <1>8 DEF TypeOK
<1>10. ClaimInv'
  <2>1. \A t \in Threads : Holds(t, s) => t = w
    BY <1>1, <1>2, <1>4 DEF ClaimInv, ClaimsExclusive, Holds
  <2>2. \A u \in Threads, x \in Slots : Holds(u, x)' <=> Holds(u, x) /\ x # s
    BY <1>2, <1>3, <1>8, <2>1, Roles DEF Holds
  <2>3. \A x \in Slots : x # s /\ ptr[Exporter] = x => x = chain'[1]
    BY <1>3, <1>4, ExporterHead
  <2>4. (\A x \in Slots : x # s => status'[x] = status[x]) /\ status'[s] = "READY"
    BY <1>3, <1>4 DEF SetStatus, TypeOK
  <2>5. ClonesPaired'
    BY <1>3, <1>4, <1>8, Roles DEF ClaimInv, ClonesPaired
  <2> QED
    BY <1>4, <2>2, <2>3, <2>4, <2>5, ClaimLost
<1>11. count'["NULL"] = count["NULL"]
  BY <1>3, <1>4, <1>5 DEF SetStatus, TypeOK, Statuses
<1>12. WaitInv'
  BY <1>3, <1>4, <1>7, <1>11, WaitKept
<1> QED
  BY <1>6, <1>9, <1>10, <1>12 DEF IndInv

\* vframe_retrieve keeps the invariant.
LEMMA RetrieveStep ==
  ASSUME IndInv, Retrieve
  PROVE  IndInv'
<1>1. Exporter \in Threads /\ Exporter # Importer /\ Exporter \notin Workers
  BY Roles
<1>2. CASE RetrieveWait
  <2>1. Sleep(Exporter, "export") /\ UNCHANGED <<ring, claims, control>>
    BY <1>2 DEF RetrieveWait, Retrieve
  <2>2. "export" \in Conds /\ "export" # "import"
    BY DEF Conds
  <2> QED
    BY <1>1, <2>1, <2>2, SleepStep
<1>3. CASE RetrieveFrame \/ RetrieveNull
  <2>1. PICK v : /\ ptr' = [ptr EXCEPT ![Exporter] = v]
                 /\ v = NoFrame \/ (v = chain[1] /\ HeadReady)
    BY <1>3 DEF RetrieveFrame, RetrieveNull
  <2>2. /\ Return(Exporter) /\ clone' = clone /\ UNCHANGED ring
        /\ frameCount' = frameCount /\ cloning' = cloning
        /\ running' = running /\ pooled' = pooled /\ importing' = importing
    BY <1>3 DEF RetrieveFrame, RetrieveNull, Retrieve, control
  <2>3. TypeOK /\ RingInv /\ ClaimInv /\ WaitInv
    BY DEF IndInv
  <2>4. v = NoFrame \/ (v \in Slots /\ status[v] = "READY" /\ v = chain[1])
    <3>1. chain # <<>> => chain[1] \in Slots
      BY <2>3 DEF TypeOK
    <3> QED
      BY <3>1, <2>1 DEF HeadReady
  <2>5. /\ ptr' \in [Threads -> Slots \cup {NoFrame}]
        /\ \A t \in Threads : ptr'[t] = IF t = Exporter THEN v ELSE ptr[t]
    BY <2>1, <2>3, <2>4 DEF TypeOK
  <2>6. asleep' \in [Conds -> SUBSET Threads] /\ woken' \in SUBSET Threads
        /\ asleep' = asleep
    BY <1>1, <2>2, <2>3, ReturnKeepsSync
  <2>7. TypeOK'
    BY <2>2, <2>3, <2>5, <2>6 DEF TypeOK, ring
  <2>8. RingInv'
    <3>1. \A st : SlotsIn(st)' = SlotsIn(st)
      BY <2>2 DEF SlotsIn, ring
    <3>2. StageCountersExact' /\ ReserveFindsFrame'
      BY <3>1, <2>2, <2>3
         DEF RingInv, StageCountersExact, ReserveFindsFrame, WaitCounterExact, ring
    <3> QED
      BY <3>2, <2>2, <2>3 
         DEF RingInv, ChainIsFramesInUse, ChainSorted, HeadLinkedRight, IdsIssued, ring
  <2>9. ClaimInv'
    <3>1. \A x \in Slots, t \in Threads :
            Holds(t, x)' => Holds(t, x) \/ (t = Exporter /\ status[x] = "READY")
      BY <1>1, <2>2, <2>4, <2>5, Roles DEF Holds
    <3>2. \A x \in Slots, t \in Threads :
            status[x] = "READY" /\ Holds(t, x) => t = Exporter
      BY <2>3, HolderOf
    <3>3. ClaimsExclusive'
      <4> SUFFICES ASSUME NEW x \in Slots, NEW t \in Threads, NEW u \in Threads,
                          Holds(t, x)', Holds(u, x)'
          PROVE  t = u
        BY DEF ClaimsExclusive
      <4>1. CASE status[x] = "READY"
        BY <4>1, <3>1, <3>2
      <4>2. CASE status[x] # "READY"
        BY <4>2, <3>1, <2>3 DEF ClaimInv, ClaimsExclusive
      <4> QED
        BY <4>1, <4>2
    <3>4. ClaimsMatchStatus'
      <4>1. \A x \in Slots : ptr'[Exporter] = x => status'[x] = "READY" /\ x = chain'[1]
        BY <1>1, <2>2, <2>4, <2>5, Roles DEF ring
      <4>2. \A x \in Slots : \A w \in Workers : Holds(w, x)' <=> Holds(w, x)
        BY <1>1, <2>2, <2>5, Roles DEF Holds
      <4>3. ptr'[Importer] = ptr[Importer] /\ status' = status
        BY <1>1, <2>2, <2>5, Roles DEF ring
      <4> QED
        BY <4>1, <4>2, <4>3, <2>3 DEF ClaimInv, ClaimsMatchStatus
    <3>5. ClonesPaired'
      BY <1>1, <2>2, <2>3, <2>5, Roles DEF ClaimInv, ClonesPaired
    <3> QED
      BY <3>3, <3>4, <3>5 DEF ClaimInv
  <2>10. WaitInv'
    BY <2>2, <2>3, <2>6, WaitKept DEF ring
  <2> QED
    BY <2>7, <2>8, <2>9, <2>10 DEF IndInv
<1> QED
  BY <1>2, <1>3 DEF Retrieve

\* Thread t returns frame s to the pool and gives up the frame it holds.
LEMMA ReleaseStep ==
  ASSUME IndInv, NEW s \in Slots, status[s] \in {"READY", "LOCKED"}, s \notin stale,
         Release(s),
         UNCHANGED <<clone, control>>, NEW t \in Threads,
         ptr' = [ptr EXCEPT ![t] = NoFrame],
         \A u \in Threads : Holds(u, s) => u = t,
         \A x \in Slots : Holds(t, x) => x = s,
         t \in Workers => clone[t] = NoFrame
  PROVE  IndInv'
<1>1. TypeOK /\ RingInv /\ ClaimInv /\ WaitInv
  BY DEF IndInv
<1>2. /\ frameCount' = frameCount /\ cloning' = cloning
      /\ running' = running /\ pooled' = pooled /\ importing' = importing
  BY DEF control
<1>3. /\ status' \in [Slots -> Statuses] /\ count' \in [Statuses -> Int]
      /\ chain' \in Seq(Slots) /\ stale' \in SUBSET Slots
      /\ chain # <<>> /\ chain[1] # s => chain' # <<>> /\ chain'[1] = chain[1]
      /\ RingInv'
  BY <1>1, <1>2, ReleaseKeepsRing
<1>4. "import" \in Conds /\ Signal("import") /\ id' = id /\ next' = next
  BY DEF Release, Conds
<1>5. /\ asleep' \in [Conds -> SUBSET Threads] /\ woken' \in SUBSET Threads
      /\ \A d \in Conds : asleep'[d] \subseteq asleep[d]
      /\ asleep["import"] \subseteq {Importer} => asleep'["import"] = {}
  BY <1>1, <1>4, SignalWakes
<1>6. /\ ptr' \in [Threads -> Slots \cup {NoFrame}]
      /\ \A u \in Threads : ptr'[u] = IF u = t THEN NoFrame ELSE ptr[u]
  BY <1>1 DEF TypeOK
<1>7. TypeOK'
  BY <1>1, <1>2, <1>3, <1>4, <1>5, <1>6 DEF TypeOK
<1>8. ClaimInv'
  <2>1. \A u \in Threads, x \in Slots : Holds(u, x)' <=> Holds(u, x) /\ x # s
    BY <1>6, Roles DEF Holds
  <2>2. \A x \in Slots : x # s /\ ptr[Exporter] = x => x = chain'[1]
    BY <1>1, <1>3, ExporterHead
  <2>3. (\A x \in Slots : x # s => status'[x] = status[x]) /\ status'[s] = "NULL"
    BY <1>1 DEF Release, TypeOK
  <2>4. ClonesPaired'
    BY <1>1, <1>6, Roles DEF ClaimInv, ClonesPaired
  <2> QED
    BY <1>1, <2>1, <2>2, <2>3, <2>4, ClaimLost
<1>9. WaitInv'
  <2>1. CASE cloning = TRUE
    BY <2>1, <1>2 DEF WaitInv, ImporterNotStranded, OnlyImporterWaits
  <2>2. CASE cloning = FALSE
    <3>1. asleep["import"] \subseteq {Importer}
      BY <2>2, <1>1 DEF WaitInv, OnlyImporterWaits
    <3>2. asleep'["import"] = {}
      BY <3>1, <1>5
    <3> QED
      BY <3>2 DEF WaitInv, ImporterNotStranded, OnlyImporterWaits
  <2> QED
    BY <1>1, <2>1, <2>2 DEF TypeOK
<1> QED
  BY <1>3, <1>7, <1>8, <1>9 DEF IndInv

\* vframe_remove, by the encoder or by a filter thread, keeps the invariant.
LEMMA RemoveStep ==
  ASSUME IndInv, NEW t \in Threads, t # Importer, RemoveFrame(t)
  PROVE  IndInv'
<1>1. TypeOK /\ RingInv /\ ClaimInv
  BY DEF IndInv
<1>2. PICK s \in Slots : s = ptr[t]
  BY <1>1 DEF TypeOK, RemoveFrame
<1>3. /\ Release(s) /\ UNCHANGED <<clone, control>>
      /\ ptr' = [ptr EXCEPT ![t] = NoFrame]
      /\ t \in Workers => clone[t] = NoFrame
  BY <1>2 DEF RemoveFrame
<1>4. Holds(t, s)
  BY <1>2 DEF Holds
<1>5. status[s] \in {"READY", "LOCKED"}
  BY <1>1, <1>4, HolderOf
<1>6. s \notin stale
  <2>1. CASE t \in Workers
    BY <2>1, <1>2 DEF RemoveFrame
  <2>2. CASE t = Exporter
    <3>1. s = chain[1] /\ chain # <<>>
      BY <2>2, <1>1, <1>2, ExporterHead
    <3> QED
      BY <3>1, <1>1 DEF RingInv, HeadLinkedRight
  <2> QED
    BY <2>1, <2>2 DEF Threads
<1>7. \A u \in Threads : Holds(u, s) => u = t
  BY <1>1, <1>4 DEF ClaimInv, ClaimsExclusive
<1>8. \A x \in Slots : Holds(t, x) => x = s
  BY <1>2, <1>3, Roles DEF Holds
<1> QED
  BY <1>3, <1>5, <1>6, <1>7, <1>8, ReleaseStep

\* tc_framebuffer_flush keeps the invariant.
LEMMA FlushStep ==
  ASSUME IndInv, Flush
  PROVE  IndInv'
<1>1. TypeOK /\ RingInv /\ ClaimInv
  BY DEF IndInv
<1>2. PICK s \in Slots : s = chain[1] /\ status[s] = "READY"
  BY <1>1 DEF TypeOK, Flush, HeadReady
<1>3. /\ Release(s) /\ UNCHANGED <<clone, control>>
      /\ ptr' = [ptr EXCEPT ![Exporter] = NoFrame]
  BY <1>2 DEF Flush
<1>4. \A u \in Threads : Holds(u, s) => u = Exporter
  BY <1>1, <1>2, HolderOf
<1>5. \A x \in Slots : Holds(Exporter, x) => x = s
  BY <1>1, <1>2, Roles, HolderOf
<1>6. Exporter \in Threads /\ Exporter \notin Workers
  BY Roles
<1>7. s \notin stale
  BY <1>1, <1>2 DEF RingInv, HeadLinkedRight, Flush, HeadReady
<1> QED
  BY <1>2, <1>3, <1>4, <1>5, <1>6, <1>7, ReleaseStep

\* Interruptions and spurious wakeups keep the invariant.
LEMMA WakeupStep ==
  ASSUME IndInv, InterruptAll \/ InterruptImport \/ SpuriousWakeup
  PROVE  IndInv'
<1>1. asleep \in [Conds -> SUBSET Threads] /\ woken \in SUBSET Threads /\ TypeOK
  BY DEF IndInv, TypeOK
<1>2. UNCHANGED <<ring, claims, control>>
  BY DEF InterruptAll, InterruptImport, SpuriousWakeup
<1>3. /\ asleep' \in [Conds -> SUBSET Threads] /\ woken' \in SUBSET Threads
      /\ asleep'["import"] \subseteq asleep["import"]
  <2>1. CASE InterruptAll
    <3>1. PICK I \in OneOf(asleep["import"]), E \in OneOf(asleep["export"]) :
            /\ asleep' = [asleep EXCEPT !["import"] = @ \ I, !["filter"] = {},
                                        !["export"] = @ \ E]
            /\ woken' = woken \cup I \cup asleep["filter"] \cup E
      BY <2>1 DEF InterruptAll
    <3>2. I \subseteq asleep["import"] /\ E \subseteq asleep["export"]
      BY DEF OneOf
    <3> QED
      BY <3>1, <3>2, <1>1 DEF Conds
  <2>2. CASE InterruptImport
    BY <2>2, <1>1, WakeOrNot DEF InterruptImport, Conds
  <2>3. CASE SpuriousWakeup
    BY <2>3, <1>1 DEF SpuriousWakeup, Conds
  <2> QED
    BY <2>1, <2>2, <2>3
<1> QED
  BY <1>2, <1>3, WakeStep

\* The run status, the import flag and the set of filters change from outside.
LEMMA ControlStep ==
  ASSUME IndInv, ChangeRunning \/ ChangeImporting \/ LoadCloningFilter
  PROVE  IndInv'
<1>1. /\ UNCHANGED <<ring, sync, claims, frameCount>>
      /\ running' \in BOOLEAN /\ importing' \in BOOLEAN /\ pooled' = pooled
      /\ cloning' = cloning \/ cloning' = TRUE
  BY DEF IndInv, TypeOK, ChangeRunning, ChangeImporting, LoadCloningFilter
<1>2. TypeOK /\ RingInv /\ ClaimInv /\ WaitInv
  BY DEF IndInv
<1>3. TypeOK'
  BY <1>1, <1>2 DEF TypeOK, ring, sync, claims
<1>4. RingInv' /\ ClaimInv'
  <2> USE DEF ring, claims
  <2>1. \A st : SlotsIn(st)' = SlotsIn(st)
    BY <1>1 DEF SlotsIn
  <2>2. StageCountersExact'
    BY <2>1, <1>1, <1>2 DEF RingInv, StageCountersExact
  <2>3. ReserveFindsFrame'
    <3>1. CASE cloning' = TRUE
      BY <3>1 DEF ReserveFindsFrame
    <3>2. CASE cloning' = cloning
      BY <3>2, <2>1, <1>1, <1>2 DEF RingInv, ReserveFindsFrame, WaitCounterExact
    <3> QED
      BY <3>1, <3>2, <1>1
  <2>4. ChainIsFramesInUse' /\ ChainSorted' /\ HeadLinkedRight' /\ IdsIssued'
    BY <1>1, <1>2
       DEF RingInv, ChainIsFramesInUse, ChainSorted, HeadLinkedRight, IdsIssued
  <2>5. ClaimInv'
    BY <1>1, <1>2 DEF ClaimInv, ClaimsExclusive, ClaimsMatchStatus, ClonesPaired, Holds
  <2> QED
    BY <2>2, <2>3, <2>4, <2>5 DEF RingInv
<1>5. WaitInv'
  <2>1. CASE cloning' = TRUE
    BY <2>1 DEF WaitInv, ImporterNotStranded, OnlyImporterWaits
  <2>2. CASE cloning' = cloning
    BY <2>2, <1>1, <1>2, WaitKept DEF ring, sync
  <2> QED
    BY <2>1, <2>2, <1>1
<1> QED
  BY <1>3, <1>4, <1>5 DEF IndInv

-----------------------------------------------------------------------------
(* The theorems. *)

\* An empty ring satisfies the invariant.
LEMMA InitIndInv == Init => IndInv
<1> SUFFICES ASSUME Init PROVE IndInv
  OBVIOUS
<1>1. TypeOK
  <2>1. /\ status \in [Slots -> Statuses] /\ id \in [Slots -> Nat]
        /\ next \in Slots /\ count \in [Statuses -> Int]
    BY ConstantsOK DEF Init, Slots, Statuses
  <2>2. /\ chain \in Seq(Slots) /\ stale \in SUBSET Slots
        /\ asleep \in [Conds -> SUBSET Threads] /\ woken \in SUBSET Threads
    BY DEF Init
  <2>3. /\ ptr \in [Threads -> Slots \cup {NoFrame}]
        /\ clone \in [Workers -> Slots \cup {NoFrame}]
        /\ frameCount \in Nat /\ running \in BOOLEAN
        /\ importing \in BOOLEAN /\ pooled \in BOOLEAN /\ cloning \in BOOLEAN
    BY DEF Init
  <2> QED
    BY <2>1, <2>2, <2>3 DEF TypeOK
<1>2. ChainIsFramesInUse /\ ChainSorted /\ HeadLinkedRight /\ IdsIssued
  BY DEF Init, ChainIsFramesInUse, ChainSorted, HeadLinkedRight, IdsIssued
<1>3. SlotsIn("NULL") = Slots
      /\ \A st \in Statuses : st # "NULL" => SlotsIn(st) = {}
  BY DEF Init, SlotsIn, Statuses
<1>4. Cardinality(Slots) = RingSize /\ Cardinality({}) = 0
  BY ConstantsOK, FS_Interval, FS_EmptySet DEF Slots
<1>5. StageCountersExact /\ ReserveFindsFrame
  <2>1. \A st \in Statuses : count[st] = Cardinality(SlotsIn(st))
    BY <1>3, <1>4 DEF Init, Statuses
  <2>2. {"NULL", "EMPTY", "READY", "WAIT", "LOCKED"} \subseteq Statuses
    BY DEF Statuses
  <2>3. \A st \in Statuses : count[st] \in Int
    BY <1>1 DEF TypeOK
  <2> QED
    BY <2>1, <2>2, <2>3 DEF StageCountersExact, ReserveFindsFrame, WaitCounterExact
<1>6. ClaimInv
  BY Roles DEF Init, ClaimInv, ClaimsExclusive, ClaimsMatchStatus, ClonesPaired, Holds
<1>7. WaitInv
  BY DEF Init, WaitInv, ImporterNotStranded, OnlyImporterWaits, Conds
<1> QED
  BY <1>1, <1>2, <1>5, <1>6, <1>7 DEF IndInv, RingInv

\* Every step keeps the invariant.
LEMMA NextIndInv == IndInv /\ [Next]_vars => IndInv'
<1> SUFFICES ASSUME IndInv, [Next]_vars PROVE IndInv'
  OBVIOUS
<1>1. CASE Register
  BY <1>1, RegisterStep
<1>2. CASE \E new \in {"WAIT", "READY"} : PushImported(new)
  BY <1>2, PushImportedStep
<1>3. ASSUME NEW w \in Workers, WorkerStep(w)
      PROVE  IndInv'
  <2>1. w \in Threads /\ w # Importer
    BY Roles
  <2> QED
    BY <1>3, <2>1, ReserveStep, DupStep, PushCloneStep, PushFilteredStep, RemoveStep
       DEF WorkerStep
<1>4. CASE Retrieve
  BY <1>4, RetrieveStep
<1>5. CASE RemoveFrame(Exporter)
  BY <1>5, Roles, RemoveStep
<1>6. CASE Flush
  BY <1>6, FlushStep
<1>7. CASE InterruptAll \/ InterruptImport \/ SpuriousWakeup
  BY <1>7, WakeupStep
<1>8. CASE ChangeRunning \/ ChangeImporting \/ LoadCloningFilter
  BY <1>8, ControlStep
<1>9. CASE UNCHANGED vars
  <2>1. UNCHANGED <<ring, claims, control>> /\ asleep' = asleep /\ woken' = woken
    BY <1>9 DEF vars, sync
  <2>2. asleep' \in [Conds -> SUBSET Threads] /\ woken' \in SUBSET Threads
    BY <2>1 DEF IndInv, TypeOK
  <2> QED
    BY <2>1, <2>2, WakeStep
<1> QED
  BY <1>1, <1>2, <1>3, <1>4, <1>5, <1>6, <1>7, <1>8, <1>9 DEF Next

\* The inductive invariant of the frame buffer: framebuffer.c keeps it under
\* every interleaving of the three layers.
THEOREM FrameBufferIndInv == Spec => []IndInv
BY InitIndInv, NextIndInv, PTL DEF Spec

\* Every variable keeps its type.
THEOREM FrameBufferTypeOK == Spec => []TypeOK
<1>1. IndInv => TypeOK
  BY DEF IndInv
<1> QED
  BY <1>1, FrameBufferIndInv, PTL

\* The list macros keep exactly the frames in use in the chain, each once, as long as no
\* filter thread drops a frame whose prev pointer is stale: Spec has no such step (the
\* guard of RemoveFrame), although vframe_remove would take it, and lose a frame by it.
THEOREM ChainSound == Spec => []ChainIsFramesInUse
<1>1. IndInv => ChainIsFramesInUse
  BY DEF IndInv, RingInv
<1> QED
  BY <1>1, FrameBufferIndInv, PTL

\* The chain is in the order of the ids, a duplicate beside its original, whatever order
\* the filters finish in.
THEOREM ChainInOrder == Spec => []ChainSorted
<1>1. IndInv => ChainSorted
  BY DEF IndInv, RingInv
<1> QED
  BY <1>1, FrameBufferIndInv, PTL

\* What leaves at the head is linked right, although LIST_FRAME_LINK leaves prev
\* pointers wrong.
THEOREM HeadSound == Spec => []HeadLinkedRight
<1>1. IndInv => HeadLinkedRight
  BY DEF IndInv, RingInv
<1> QED
  BY <1>1, FrameBufferIndInv, PTL

\* What {a,v}frame_get_counters reports is exact for each layer.
THEOREM CountersSound == Spec => []StageCountersExact
<1>1. IndInv => StageCountersExact
  BY DEF IndInv, RingInv
<1> QED
  BY <1>1, FrameBufferIndInv, PTL

\* Without cloning filters the wait counter is exact, so that {a,v}frame_reserve
\* returns NULL to an interrupted worker only.
THEOREM ReserveSound == Spec => []ReserveFindsFrame
<1>1. IndInv => ReserveFindsFrame
  BY DEF IndInv, RingInv
<1> QED
  BY <1>1, FrameBufferIndInv, PTL

\* No frame is in the hands of two threads.
THEOREM ClaimsSound == Spec => []ClaimsExclusive
<1>1. IndInv => ClaimsExclusive
  BY DEF IndInv, ClaimInv
<1> QED
  BY <1>1, FrameBufferIndInv, PTL

\* The status of a frame tells whose hands it is in.
THEOREM ClaimsFollowStatus == Spec => []ClaimsMatchStatus
<1>1. IndInv => ClaimsMatchStatus
  BY DEF IndInv, ClaimInv
<1> QED
  BY <1>1, FrameBufferIndInv, PTL

\* Without cloning filters the importer never sleeps beside a free frame.
THEOREM ImporterWakes == Spec => []ImporterNotStranded
<1>1. IndInv => ImporterNotStranded
  BY DEF IndInv, WaitInv
<1> QED
  BY <1>1, FrameBufferIndInv, PTL

-----------------------------------------------------------------------------
(* The pipeline: the inductive invariant. *)

Actors == Threads \cup {EventThread}

Labels == {"top", "register", "fill", "reserve", "got", "filter", "quit",
           "retrieve", "stop", "interrupt", "cancel", "wake import",
           "join import", "close pool", "join pool", "end", "exit"}

NoWait == \A s \in Slots : status[s] # "WAIT"

\* The frame that the importer fills is the last of the chain, with the next id.
FreshIsLast ==
  /\ \A i \in DOMAIN chain : status[chain[i]] = "EMPTY" => i = Len(chain)
  /\ \A s \in Slots : status[s] = "EMPTY" => id[s] = frameCount

\* Nothing is linked behind the end of the stream, and it is the last frame that
\* a filter thread takes.
EosIsLast ==
  /\ eos \subseteq Slots
  /\ \A e \in eos :
       /\ chain # <<>> /\ chain[Len(chain)] = e
       /\ status[e] # "EMPTY" /\ id[e] = frameCount
       /\ status[e] # "WAIT" => NoWait

\* Frames of the stream between the importer and the encoder.
OnTheWay == {s \in Slots : status[s] \notin {"NULL", "EMPTY"} /\ s \notin eos}

Done == {encoded[i] : i \in DOMAIN encoded} \cup dropped

\* Every id given out is encoded, dropped, or that of a frame on its way.
Accounted ==
  /\ encoded \in Seq(Nat) /\ dropped \subseteq Nat
  /\ 0 .. (frameCount - 1) = Done \cup {id[s] : s \in OnTheWay}

FlowInv == FreshIsLast /\ EosIsLast /\ Accounted

\* The main thread shuts the program down.
Stopping == pc[Exporter] \in {"interrupt", "cancel", "wake import", "join import",
                              "close pool", "join pool", "end"}

\* Who has come to an end, and why.
RunInv ==
  /\ pc \in [Actors -> Labels]
  /\ pool \subseteq Workers /\ poolRunning \in BOOLEAN /\ cloning = FALSE
  /\ pooled = FALSE => NoWait
  /\ eos # {} => pc[Importer] = "exit"
  /\ \A w \in Workers : pc[w] = "quit" => running = FALSE
  /\ Stopping => running = FALSE
  /\ running = TRUE /\ pooled = TRUE /\ poolRunning = FALSE =>
       NoWait /\ pc[Importer] = "exit"

PipelineInv == IndInv /\ FlowInv /\ RunInv

-----------------------------------------------------------------------------
(* What the steps do to the frames. *)

\* A step that leaves the ring and the histories alone keeps what is said of them.
LEMMA FlowKept ==
  ASSUME FlowInv, UNCHANGED <<ring, frameCount, eos, encoded, dropped>>
  PROVE  FlowInv' /\ (NoWait' <=> NoWait)
BY DEF FlowInv, FreshIsLast, EosIsLast, Accounted, OnTheWay, Done, NoWait, ring

\* A frame in use is linked in the chain, once.
LEMMA InUse ==
  ASSUME RingInv, NEW s \in Slots
  PROVE  /\ status[s] # "NULL" <=> \E i \in DOMAIN chain : chain[i] = s
         /\ \A i, j \in DOMAIN chain : chain[i] = chain[j] => i = j
BY DEF RingInv, ChainIsFramesInUse

\* An appended element is the only one added.
LEMMA AppendAdds ==
  ASSUME NEW S, NEW seq \in Seq(S), NEW x \in S
  PROVE  /\ Append(seq, x) \in Seq(S)
         /\ {Append(seq, x)[i] : i \in DOMAIN Append(seq, x)}
              = {seq[i] : i \in DOMAIN seq} \cup {x}
<1>1. /\ DOMAIN seq = 1 .. Len(seq) /\ Len(seq) \in Nat
      /\ DOMAIN Append(seq, x) = 1 .. (Len(seq) + 1)
      /\ \A i \in 1 .. Len(seq) : Append(seq, x)[i] = seq[i]
      /\ Append(seq, x)[Len(seq) + 1] = x
      /\ Append(seq, x) \in Seq(S)
  OBVIOUS
<1> DEFINE new == Append(seq, x)
<1> HIDE DEF new
<1>2. 1 .. (Len(seq) + 1) = (1 .. Len(seq)) \cup {Len(seq) + 1}
  BY <1>1
<1>3. {new[i] : i \in (1 .. Len(seq)) \cup {Len(seq) + 1}}
        = {seq[i] : i \in 1 .. Len(seq)} \cup {x}
  BY <1>1 DEF new
<1> QED
  BY <1>1, <1>2, <1>3 DEF new

\* A registered frame is fresh, and is the last.
LEMMA RegisterFlow ==
  ASSUME IndInv, FlowInv, eos = {}, ptr[Importer] = NoFrame, NEW k \in Slots,
         TakeFree(k, "EMPTY", "EMPTY", frameCount), LinkLast(Nth(k)),
         UNCHANGED <<frameCount, eos, encoded, dropped>>
  PROVE  /\ FlowInv' /\ (NoWait' <=> NoWait)
         /\ Nth(k) \in Slots
         /\ \A x \in Slots : id'[x] = IF x = Nth(k) THEN frameCount ELSE id[x]
         /\ ~InChain(Nth(k))
<1>1. TypeOK /\ RingInv /\ ClaimInv
  BY DEF IndInv
<1>2. k \in Nat /\ Nth(k) \in Slots
  BY <1>1, NthSlot DEF TypeOK, Slots
<1> DEFINE n == Nth(k)
<1>3. /\ status[n] = "NULL"
      /\ status' = [status EXCEPT ![n] = "EMPTY"]
      /\ id' = [id EXCEPT ![n] = frameCount]
      /\ chain' = Append(chain, n)
  BY DEF TakeFree, FirstFree, LinkLast
<1> HIDE DEF n
<1>4. n \in Slots
  BY <1>2 DEF n
<1>5. /\ \A x \in Slots : status'[x] = IF x = n THEN "EMPTY" ELSE status[x]
      /\ \A x \in Slots : id'[x] = IF x = n THEN frameCount ELSE id[x]
  BY <1>1, <1>3, <1>4 DEF TypeOK
<1>6. \A x \in Slots : status[x] # "EMPTY"
  BY <1>1, Roles DEF ClaimInv, ClaimsMatchStatus
<1>7. /\ Len(chain) \in Nat /\ DOMAIN chain = 1 .. Len(chain)
      /\ \A i \in DOMAIN chain : chain[i] \in Slots
      /\ Len(chain') = Len(chain) + 1
      /\ DOMAIN chain' = 1 .. (Len(chain) + 1)
      /\ \A i \in DOMAIN chain : chain'[i] = chain[i]
      /\ chain'[Len(chain) + 1] = n
  <2>1. chain \in Seq(Slots)
    BY <1>1 DEF TypeOK
  <2> QED
    BY <2>1, <1>3, <1>4
<1>8. \A i \in DOMAIN chain : chain[i] # n
  BY <1>1, <1>3, <1>4, InUse
<1>9. FreshIsLast'
  <2>1. \A i \in DOMAIN chain' : status'[chain'[i]] = "EMPTY" => i = Len(chain')
    <3> SUFFICES ASSUME NEW i \in DOMAIN chain', i # Len(chain')
                 PROVE  status'[chain'[i]] # "EMPTY"
      OBVIOUS
    <3>1. i \in DOMAIN chain
      BY <1>7
    <3> QED
      BY <3>1, <1>5, <1>6, <1>7, <1>8
  <2> QED
    BY <2>1, <1>5, <1>6 DEF FreshIsLast
<1>10. EosIsLast'
  BY DEF EosIsLast
<1>11. Accounted'
  <2>1. OnTheWay' = OnTheWay
    BY <1>3, <1>5 DEF OnTheWay
  <2>2. \A x \in OnTheWay : id'[x] = id[x]
    BY <1>3, <1>5 DEF OnTheWay
  <2>3. {id'[x] : x \in OnTheWay'} = {id[x] : x \in OnTheWay}
    BY <2>1, <2>2
  <2> QED
    BY <2>3 DEF FlowInv, Accounted, Done
<1>12. NoWait' <=> NoWait
  BY <1>3, <1>4, <1>5 DEF NoWait
<1> QED
  BY <1>2, <1>5, <1>8, <1>9, <1>10, <1>11, <1>12 DEF FlowInv, n, InChain

\* A frame in use goes on to a filter thread or to the encoder.  The end of the
\* stream only goes on when no other frame waits.
LEMMA RelabelFlow ==
  ASSUME IndInv, FlowInv, NEW s \in Slots, NEW new \in {"LOCKED", "READY"},
         status[s] \notin {"NULL", "EMPTY"}, SetStatus(s, new),
         UNCHANGED <<id, chain, frameCount, eos, encoded, dropped>>,
         s \in eos => \A x \in Slots : x # s => status[x] # "WAIT"
  PROVE  FlowInv' /\ (NoWait => NoWait')
<1>1. \A x \in Slots : status'[x] = IF x = s THEN new ELSE status[x]
  BY DEF IndInv, TypeOK, SetStatus
<1>2. \A i \in DOMAIN chain : chain[i] \in Slots
  BY DEF IndInv, TypeOK
<1>3. FreshIsLast'
  BY <1>1, <1>2 DEF FlowInv, FreshIsLast
<1>4. NoWait => NoWait'
  BY <1>1 DEF NoWait
<1>5. EosIsLast'
  <2> SUFFICES ASSUME NEW e \in eos
      PROVE  status'[e] # "EMPTY" /\ (status'[e] # "WAIT" => NoWait')
    BY DEF FlowInv, EosIsLast
  <2>1. e \in Slots /\ status[e] # "EMPTY" /\ (status[e] # "WAIT" => NoWait)
    BY DEF FlowInv, EosIsLast
  <2>2. CASE e = s
    BY <2>1, <2>2, <1>1 DEF NoWait
  <2>3. CASE e # s
    BY <2>1, <2>3, <1>1, <1>4
  <2> QED
    BY <2>2, <2>3
<1>6. Accounted'
  <2>1. OnTheWay' = OnTheWay
    BY <1>1 DEF OnTheWay
  <2> QED
    BY <2>1 DEF FlowInv, Accounted, Done
<1> QED
  BY <1>3, <1>4, <1>5, <1>6 DEF FlowInv

\* The importer hands a frame on.  It gives it a number that is now used up,
\* unless the frame is the end of the stream.
LEMMA PushImportedFlow ==
  ASSUME IndInv, FlowInv, eos = {}, NEW s \in Slots, s = ptr[Importer],
         NEW new \in {"WAIT", "READY"}, SetStatus(s, new),
         new = IF pooled THEN "WAIT" ELSE "READY",
         pooled = FALSE => NoWait,
         UNCHANGED <<id, chain, encoded, dropped>>,
         \/ frameCount' = frameCount + 1 /\ eos' = eos
         \/ frameCount' = frameCount /\ eos' = {s}
  PROVE  FlowInv' /\ (pooled = FALSE => NoWait')
<1>1. TypeOK /\ RingInv /\ ClaimInv
  BY DEF IndInv
<1>2. /\ \A x \in Slots : status'[x] = IF x = s THEN new ELSE status[x]
      /\ frameCount \in Nat /\ chain \in Seq(Slots) /\ Len(chain) \in Nat
      /\ \A i \in DOMAIN chain : chain[i] \in Slots
      /\ DOMAIN chain = 1 .. Len(chain)
  BY <1>1 DEF TypeOK, SetStatus
<1>3. status[s] = "EMPTY" /\ id[s] = frameCount
      /\ \A x \in Slots : x # s => status[x] # "EMPTY"
  BY <1>1 DEF ClaimInv, ClaimsMatchStatus, FlowInv, FreshIsLast
<1>4. \A x \in Slots : status'[x] # "EMPTY"
  BY <1>2, <1>3
<1>5. FreshIsLast'
  BY <1>2, <1>4 DEF FreshIsLast
<1>6. pooled = FALSE => NoWait'
  BY <1>2 DEF NoWait
<1>7. EosIsLast'
  <2>1. CASE eos' = {}
    BY <2>1 DEF EosIsLast
  <2>2. CASE eos' = {s} /\ frameCount' = frameCount
    <3>1. PICK i \in DOMAIN chain : chain[i] = s
      BY <1>1, <1>3, InUse
    <3>2. i = Len(chain)
      BY <3>1, <1>3 DEF FlowInv, FreshIsLast
    <3>3. chain' # <<>> /\ chain'[Len(chain')] = s
      BY <3>1, <3>2, <1>2
    <3>4. status'[s] # "WAIT" => NoWait'
      <4> SUFFICES ASSUME new = "READY" PROVE NoWait'
        BY <1>2
      <4>1. CASE pooled = FALSE
        BY <4>1, <1>6
      <4>2. CASE pooled = TRUE
        BY <4>2
      <4> QED
        BY <4>1, <4>2, <1>1 DEF TypeOK
    <3> QED
      BY <2>2, <3>3, <3>4, <1>3, <1>4 DEF EosIsLast
  <2> QED
    BY <2>1, <2>2
<1>8. Accounted'
  <2>1. CASE frameCount' = frameCount + 1 /\ eos' = eos
    <3>1. OnTheWay' = OnTheWay \cup {s}
      BY <2>1, <1>2, <1>3 DEF OnTheWay
    <3>2. {id'[x] : x \in OnTheWay'} = {id[x] : x \in OnTheWay} \cup {frameCount}
      BY <3>1, <1>3
    <3>3. 0 .. (frameCount' - 1) = (0 .. (frameCount - 1)) \cup {frameCount}
      BY <2>1, <1>2
    <3> QED
      BY <3>2, <3>3 DEF FlowInv, Accounted, Done
  <2>2. CASE frameCount' = frameCount /\ eos' = {s}
    <3>1. OnTheWay' = OnTheWay
      BY <2>2, <1>2, <1>3 DEF OnTheWay
    <3> QED
      BY <2>2, <3>1 DEF FlowInv, Accounted, Done
  <2> QED
    BY <2>1, <2>2
<1> QED
  BY <1>5, <1>6, <1>7, <1>8 DEF FlowInv

\* A frame of the stream leaves the chain, encoded or dropped.
LEMMA ReleaseFlow ==
  ASSUME IndInv, FlowInv, NEW s \in Slots, status[s] \in {"READY", "LOCKED"},
         s \notin eos, Release(s), UNCHANGED <<frameCount, eos>>,
         encoded' \in Seq(Nat), dropped' \subseteq Nat, Done' = Done \cup {id[s]}
  PROVE  FlowInv' /\ (NoWait => NoWait')
<1>1. TypeOK /\ RingInv
  BY DEF IndInv
<1>2. /\ \A x \in Slots : status'[x] = IF x = s THEN "NULL" ELSE status[x]
      /\ id' = id
  BY <1>1 DEF Release, TypeOK
<1>3. PICK p \in DOMAIN chain : chain[p] = s /\ chain' = RemoveAt(chain, p)
  BY DEF Release, Unlink
<1>4. /\ chain \in Seq(Slots) /\ Len(chain) \in Nat /\ p \in 1 .. Len(chain)
      /\ \A i \in 1 .. Len(chain) : chain[i] \in Slots
  BY <1>1, <1>3 DEF TypeOK
<1>5. /\ Len(chain') = Len(chain) - 1 /\ chain' \in Seq(Slots)
      /\ \A j \in 1 .. (Len(chain) - 1) :
           chain'[j] = IF j < p THEN chain[j] ELSE chain[j + 1]
  BY <1>3, <1>4, RemoveAtElements
<1>6. \A i \in 1 .. Len(chain) : i # p => chain[i] # s
  BY <1>1, <1>3, <1>4, InUse
<1>7. FreshIsLast'
  <2>1. \A x \in Slots : status'[x] = "EMPTY" => status[x] = "EMPTY"
    BY <1>2
  <2>2. \A i \in 1 .. Len(chain) : status[chain[i]] = "EMPTY" => i = Len(chain)
    BY <1>4 DEF FlowInv, FreshIsLast
  <2>3. ASSUME NEW i \in DOMAIN chain', status'[chain'[i]] = "EMPTY"
        PROVE  i = Len(chain')
    <3>1. i \in 1 .. (Len(chain) - 1) /\ chain'[i] \in Slots
      BY <1>4, <1>5
    <3>2. status[chain'[i]] = "EMPTY"
      BY <2>1, <2>3, <3>1
    <3>3. CASE i < p
      <4>1. i = Len(chain)
        BY <2>2, <3>1, <3>2, <3>3, <1>4, <1>5, SMTT(30)
      <4> QED
        BY <4>1, <3>1, <1>4
    <3>4. CASE ~(i < p)
      <4>1. i + 1 \in 1 .. Len(chain) /\ chain'[i] = chain[i + 1]
        BY <3>1, <3>4, <1>4, <1>5
      <4>2. i + 1 = Len(chain)
        BY <4>1, <2>2, <3>2
      <4> QED
        BY <4>2, <1>4, <1>5, <3>1
    <3> QED
      BY <3>3, <3>4
  <2> QED
    BY <2>1, <2>3, <1>2 DEF FlowInv, FreshIsLast
<1>8. NoWait => NoWait'
  BY <1>2 DEF NoWait
<1>9. EosIsLast'
  <2> SUFFICES ASSUME NEW e \in eos
      PROVE  /\ chain' # <<>> /\ chain'[Len(chain')] = e
             /\ status'[e] # "EMPTY" /\ id[e] = frameCount
             /\ status'[e] # "WAIT" => NoWait'
    BY <1>2 DEF FlowInv, EosIsLast
  <2>1. /\ e \in Slots /\ e # s /\ chain[Len(chain)] = e
        /\ status[e] # "EMPTY" /\ id[e] = frameCount
        /\ status[e] # "WAIT" => NoWait
    BY DEF FlowInv, EosIsLast
  <2>2. p < Len(chain)
    BY <2>1, <1>3, <1>4
  <2>3. Len(chain') >= 1 /\ chain'[Len(chain')] = e
    BY <2>1, <2>2, <1>4, <1>5
  <2> QED
    BY <2>1, <2>3, <1>2, <1>8
<1>10. Accounted'
  <2>1. OnTheWay = OnTheWay' \cup {s}
    BY <1>2 DEF OnTheWay
  <2>2. {id[x] : x \in OnTheWay} = {id'[x] : x \in OnTheWay'} \cup {id[s]}
    BY <2>1, <1>2
  <2> QED
    BY <2>2 DEF FlowInv, Accounted
<1> QED
  BY <1>7, <1>8, <1>9, <1>10 DEF FlowInv

-----------------------------------------------------------------------------
(* Where the threads are. *)

\* Thread t moves, and leaves the others where they are.
Moves(t) ==
  /\ pc' \in [Actors -> Labels]
  /\ \A u \in Actors : u # t => pc'[u] = pc[u]

LEMMA GotoMoves ==
  ASSUME pc \in [Actors -> Labels], NEW t \in Actors, NEW l \in Labels, Goto(t, l)
  PROVE  Moves(t) /\ pc'[t] = l
BY DEF Goto, Moves

\* The actors are different threads.
LEMMA Cast ==
  /\ Importer \in Actors /\ Exporter \in Actors /\ EventThread \in Actors
  /\ Importer # Exporter /\ EventThread # Importer /\ EventThread # Exporter
  /\ \A w \in Workers : /\ w \in Actors /\ w \in Threads
                        /\ w # Importer /\ w # Exporter /\ w # EventThread
BY Roles, EventThreadIsNew DEF Actors, Threads

\* Where a claiming function leaves a thread.
LEMMA ClaimedWhere ==
  ASSUME pc \in [Actors -> Labels], NEW t \in Actors,
         NEW frame \in Labels, NEW null \in Labels
  PROVE  /\ Claimed(t, frame, null) \in Labels
         /\ Claimed(t, frame, null) \in {pc[t], frame, null}
BY DEF Claimed

\* A step that changes neither the run status nor the pool, and after which the same
\* threads have ended, keeps what is said of them.
LEMMA RunKept ==
  ASSUME RunInv, NoWait => NoWait', pooled = FALSE => NoWait',
         eos' = eos, UNCHANGED <<pool, poolRunning, cloning, pooled>>,
         running' = running \/ running' = FALSE,
         pc' \in [Actors -> Labels],
         pc[Importer] = "exit" => pc'[Importer] = "exit",
         \A w \in Workers : pc'[w] = "quit" => pc[w] = "quit",
         Stopping' => running' = FALSE
  PROVE  RunInv'
BY DEF RunInv

\* The import loop keeps the invariant.
LEMMA ImportKeeps ==
  ASSUME PipelineInv, IndInv', Import
  PROVE  PipelineInv'
<1>1. IndInv /\ FlowInv /\ RunInv /\ pc \in [Actors -> Labels]
  BY DEF PipelineInv, RunInv
<1>2. Stopping => running = FALSE
  BY <1>1 DEF RunInv
<1>3. CASE ImportTop
  <2>1. Moves(Importer) /\ pc[Importer] = "top"
    <3> DEFINE l == IF running /\ importing THEN "register" ELSE "exit"
    <3>1. l \in Labels
      BY DEF Labels
    <3>2. Goto(Importer, l) /\ pc[Importer] = "top"
      BY <1>3 DEF ImportTop
    <3> HIDE DEF l
    <3> QED
      BY <1>1, <3>1, <3>2, Cast, GotoMoves
  <2>2. UNCHANGED <<ring, frameCount, eos, encoded, dropped, pool, poolRunning,
                    cloning, pooled, running>>
    BY <1>3 DEF ImportTop, vars, flow, control
  <2>3. FlowInv' /\ (NoWait' <=> NoWait)
    BY <1>1, <2>2, FlowKept
  <2>4. /\ pc' \in [Actors -> Labels]
        /\ \A u \in Actors : u # Importer => pc'[u] = pc[u]
    BY <2>1 DEF Moves
  <2>5. RunInv'
    <3>1. Stopping' => running' = FALSE
      BY <1>2, <2>2, <2>4, Cast DEF Stopping
    <3>2. \A w \in Workers : pc'[w] = pc[w]
      BY <2>4, Cast
    <3> QED
      BY <1>1, <2>1, <2>2, <2>3, <2>4, <3>1, <3>2, RunKept DEF RunInv
  <2> QED
    BY <2>3, <2>5 DEF PipelineInv
<1>4. CASE ImportRegister
  <2>1. Moves(Importer) /\ pc[Importer] = "register"
    <3> DEFINE l == Claimed(Importer, "fill", "exit")
    <3>1. l \in Labels
      <4>1. "fill" \in Labels /\ "exit" \in Labels
        BY DEF Labels
      <4> QED
        BY <1>1, <4>1, Cast, ClaimedWhere
    <3>2. Goto(Importer, l) /\ pc[Importer] = "register"
      BY <1>4 DEF ImportRegister
    <3> HIDE DEF l
    <3> QED
      BY <1>1, <3>1, <3>2, Cast, GotoMoves
  <2>2. UNCHANGED <<frameCount, eos, encoded, dropped, pool, poolRunning,
                    cloning, pooled, running>>
    BY <1>4 DEF ImportRegister, Register, flow, control
  <2>3. eos = {}
    BY <1>1, <2>1 DEF RunInv
  <2>4. FlowInv' /\ (NoWait' <=> NoWait)
    <3>1. CASE RegisterFrame
      <4>1. PICK k \in Slots : TakeFree(k, "EMPTY", "EMPTY", frameCount)
                                /\ LinkLast(Nth(k))
        BY <3>1 DEF RegisterFrame
      <4>2. ptr[Importer] = NoFrame
        BY <1>4 DEF ImportRegister, Register
      <4> QED
        BY <1>1, <2>2, <2>3, <4>1, <4>2, RegisterFlow
    <3>2. CASE RegisterWait \/ RegisterNull
      <4>1. UNCHANGED ring
        BY <3>2 DEF RegisterWait, RegisterNull
      <4> QED
        BY <1>1, <2>2, <4>1, FlowKept
    <3> QED
      BY <3>1, <3>2, <1>4 DEF ImportRegister, Register
  <2>5. /\ pc' \in [Actors -> Labels]
        /\ \A u \in Actors : u # Importer => pc'[u] = pc[u]
    BY <2>1 DEF Moves
  <2>6. RunInv'
    <3>1. Stopping' => running' = FALSE
      BY <1>2, <2>2, <2>5, Cast DEF Stopping
    <3>2. \A w \in Workers : pc'[w] = pc[w]
      BY <2>5, Cast
    <3> QED
      BY <1>1, <2>1, <2>2, <2>4, <2>5, <3>1, <3>2, RunKept DEF RunInv
  <2> QED
    BY <2>4, <2>6 DEF PipelineInv
<1>5. CASE ImportPush \/ ImportPushEos
  <2>1. Moves(Importer) /\ pc[Importer] = "fill"
    BY <1>1, <1>5, Cast, GotoMoves DEF ImportPush, ImportPushEos, Labels
  <2>2. PICK new \in {"WAIT", "READY"} : PushImported(new)
    BY <1>5 DEF ImportPush, ImportPushEos
  <2>3. /\ UNCHANGED <<encoded, dropped, pool, poolRunning, cloning, pooled, running>>
        /\ eos = {} /\ ptr[Importer] \in Slots
    BY <1>1, <1>5, <2>1, <2>2
       DEF RunInv, IndInv, TypeOK, PushImported, ImportPush, ImportPushEos, flow
  <2>4. \/ frameCount' = frameCount + 1 /\ eos' = eos
        \/ ImportPushEos /\ frameCount' = frameCount /\ eos' = {ptr[Importer]}
    BY <1>5, <2>3 DEF ImportPush, ImportPushEos, flow
  <2>5. FlowInv' /\ (pooled = FALSE => NoWait')
    <3>1. /\ SetStatus(ptr[Importer], new) /\ UNCHANGED <<id, chain>>
          /\ new = IF pooled THEN "WAIT" ELSE "READY"
      BY <2>2 DEF PushImported
    <3>2. pooled = FALSE => NoWait
      BY <1>1 DEF RunInv
    <3> QED
      BY <1>1, <2>3, <2>4, <3>1, <3>2, PushImportedFlow
  <2>6. /\ pc' \in [Actors -> Labels] /\ (ImportPushEos => pc'[Importer] = "exit")
        /\ \A u \in Actors : u # Importer => pc'[u] = pc[u]
    BY <1>1, <2>1, Cast, GotoMoves DEF Moves, ImportPushEos, Labels
  <2>7. RunInv'
    <3>1. Stopping' => running' = FALSE
      BY <1>2, <2>3, <2>6, Cast DEF Stopping
    <3>2. \A w \in Workers : pc'[w] = pc[w]
      BY <2>6, Cast
    <3>3. eos' # {} => pc'[Importer] = "exit"
      BY <2>1, <2>3, <2>4, <2>6
    <3>4. ~(running = TRUE /\ pooled = TRUE /\ poolRunning = FALSE)
      BY <1>1, <2>1 DEF RunInv
    <3> QED
      BY <1>1, <2>3, <2>5, <2>6, <3>1, <3>2, <3>3, <3>4 DEF RunInv
  <2> QED
    BY <2>5, <2>7 DEF PipelineInv
<1> QED
  BY <1>3, <1>4, <1>5 DEF Import

\* The loop of a filter thread keeps the invariant.
LEMMA WorkerKeeps ==
  ASSUME PipelineInv, IndInv', NEW w \in pool, Worker(w)
  PROVE  PipelineInv'
<1>1. IndInv /\ FlowInv /\ RunInv /\ pc \in [Actors -> Labels] /\ w \in Workers
  BY DEF PipelineInv, RunInv
<1>2. /\ w \in Actors /\ w \in Threads /\ w # Importer /\ w # Exporter
      /\ Importer \in Actors /\ Exporter \in Actors
  BY <1>1, Cast
<1>3. TypeOK /\ RingInv /\ ClaimInv
  BY <1>1 DEF IndInv
<1>4. ASSUME UNCHANGED <<frameCount, pool, cloning, pooled, running, eos>>,
             NoWait => NoWait', poolRunning' = poolRunning \/ running = FALSE
               \/ (pc[Importer] = "exit" /\ NoWait),
             poolRunning' \in BOOLEAN,
             Moves(w), pc'[w] = "quit" => pc[w] = "quit" \/ running = FALSE,
             FlowInv'
      PROVE  PipelineInv'
  <2>1. pc' \in [Actors -> Labels] /\ pc'[Importer] = pc[Importer]
        /\ pc'[Exporter] = pc[Exporter]
    BY <1>2, <1>4 DEF Moves
  <2>2. \A v \in Workers : pc'[v] = "quit" => running' = FALSE
    <3> SUFFICES ASSUME NEW v \in Workers, pc'[v] = "quit"
                 PROVE  running' = FALSE
      OBVIOUS
    <3>1. CASE v = w
      BY <3>1, <1>1, <1>4 DEF RunInv
    <3>2. CASE v # w
      BY <3>2, <1>1, <1>4, Cast DEF RunInv, Moves
    <3> QED
      BY <3>1, <3>2
  <2>3. Stopping' => running' = FALSE
    BY <2>1, <1>1, <1>4 DEF Stopping, RunInv
  <2>4. running' = TRUE /\ pooled' = TRUE /\ poolRunning' = FALSE =>
          NoWait' /\ pc'[Importer] = "exit"
    BY <2>1, <1>1, <1>4 DEF RunInv
  <2>5. RunInv'
    BY <2>1, <2>2, <2>3, <2>4, <1>1, <1>4 DEF RunInv
  <2> QED
    BY <1>4, <2>5 DEF PipelineInv
<1>5. CASE WorkerTop(w)
  <2>1. Moves(w) /\ pc'[w] # "quit"
    <3> DEFINE l == IF running /\ poolRunning THEN "reserve" ELSE "exit"
    <3>1. l \in Labels /\ l # "quit"
      BY DEF Labels
    <3>2. Goto(w, l)
      BY <1>5 DEF WorkerTop
    <3> HIDE DEF l
    <3> QED
      BY <1>1, <1>2, <3>1, <3>2, GotoMoves
  <2>2. UNCHANGED <<ring, frameCount, eos, encoded, dropped, pool, poolRunning,
                    cloning, pooled, running>>
    BY <1>5 DEF WorkerTop, vars, flow, control
  <2>3. FlowInv' /\ (NoWait' <=> NoWait) /\ poolRunning' \in BOOLEAN
    BY <1>1, <2>2, FlowKept DEF RunInv
  <2> QED
    BY <1>4, <2>1, <2>2, <2>3
<1>6. CASE WorkerReserve(w)
  <2>1. /\ UNCHANGED <<frameCount, eos, encoded, dropped, pool, poolRunning,
                       cloning, pooled, running>>
        /\ pc[w] = "reserve" /\ Reserve(w) /\ ptr[w] = NoFrame
        /\ poolRunning' \in BOOLEAN
    BY <1>1, <1>6 DEF WorkerReserve, Reserve, flow, control, RunInv
  <2>2. Moves(w) /\ pc'[w] = Claimed(w, "got", "quit")
    <3> DEFINE l == Claimed(w, "got", "quit")
    <3>1. l \in Labels
      <4>1. "got" \in Labels /\ "quit" \in Labels
        BY DEF Labels
      <4> QED
        BY <1>1, <1>2, <4>1, ClaimedWhere
    <3>2. Goto(w, l)
      BY <1>6 DEF WorkerReserve
    <3> HIDE DEF l
    <3>3. Moves(w) /\ pc'[w] = l
      BY <1>1, <1>2, <3>1, <3>2, GotoMoves
    <3> QED
      BY <3>3 DEF l
  <2>3. CASE ReserveWait(w)
    <3>1. UNCHANGED ring /\ Sleep(w, "filter") /\ "filter" \in Conds
      BY <2>3 DEF ReserveWait, Conds
    <3>2. ~Awake(w)'
      BY <3>1, <1>2, <1>3, SleepKeepsSync DEF Awake
    <3>3. pc'[w] # "quit"
      BY <2>1, <2>2, <3>2 DEF Claimed
    <3>4. FlowInv' /\ (NoWait' <=> NoWait)
      BY <1>1, <2>1, <3>1, FlowKept
    <3> QED
      BY <1>4, <2>1, <2>2, <3>3, <3>4
  <2>4. CASE ReserveNull(w)
    <3>1. UNCHANGED ring
      BY <2>4 DEF ReserveNull
    <3>2. running = FALSE
      <4>1. count["WAIT"] = Cardinality(SlotsIn("WAIT"))
        BY <1>1, <1>3 DEF RunInv, RingInv, ReserveFindsFrame, WaitCounterExact
      <4>2. (\A s \in Slots : status[s] # "WAIT") => SlotsIn("WAIT") = {}
        BY DEF SlotsIn
      <4>3. ~running
        BY <2>4, <4>1, <4>2, FS_EmptySet DEF ReserveNull, Interrupted
      <4> QED
        BY <4>3, <1>3 DEF TypeOK
    <3>3. FlowInv' /\ (NoWait' <=> NoWait)
      BY <1>1, <2>1, <3>1, FlowKept
    <3> QED
      BY <1>4, <2>1, <2>2, <3>2, <3>3
  <2>5. CASE ReserveFrame(w)
    <3>1. PICK i \in DOMAIN chain :
            /\ status[chain[i]] = "WAIT"
            /\ \A j \in 1 .. (i - 1) : status[chain[j]] # "WAIT"
            /\ SetStatus(chain[i], "LOCKED")
            /\ ptr' = [ptr EXCEPT ![w] = chain[i]]
      BY <2>5 DEF ReserveFrame
    <3>2. /\ chain \in Seq(Slots) /\ Len(chain) \in Nat /\ i \in 1 .. Len(chain)
          /\ chain[i] \in Slots /\ DOMAIN chain = 1 .. Len(chain)
      BY <3>1, <1>3 DEF TypeOK
    <3>3. chain[i] \in eos => \A x \in Slots : x # chain[i] => status[x] # "WAIT"
      <4> SUFFICES ASSUME chain[i] \in eos, NEW x \in Slots, x # chain[i],
                          status[x] = "WAIT"
                   PROVE  FALSE
        OBVIOUS
      <4>1. PICK j \in DOMAIN chain : chain[j] = x
        BY <1>3, InUse
      <4>2. chain[Len(chain)] = chain[i]
        BY <1>1 DEF FlowInv, EosIsLast
      <4>3. Len(chain) \in DOMAIN chain
        BY <3>2
      <4>4. i = Len(chain)
        BY <4>2, <4>3, <3>2, <1>3, InUse
      <4>5. j \in 1 .. (i - 1)
        BY <4>1, <4>4, <3>2
      <4> QED
        BY <3>1, <4>1, <4>5
    <3>4. FlowInv' /\ (NoWait => NoWait')
      <4>1. UNCHANGED <<id, chain>>
        BY <2>5 DEF ReserveFrame
      <4> QED
        BY <1>1, <2>1, <3>1, <3>2, <3>3, <4>1, RelabelFlow
    <3>5. pc'[w] # "quit"
      <4>1. ptr'[w] = chain[i] /\ chain[i] # NoFrame
        BY <3>1, <3>2, <1>2, <1>3, Roles DEF TypeOK
      <4> QED
        BY <4>1, <2>1, <2>2 DEF Claimed
    <3> QED
      BY <1>4, <2>1, <2>2, <3>4, <3>5
  <2> QED
    BY <2>1, <2>3, <2>4, <2>5 DEF Reserve
<1>7. CASE WorkerQuit(w)
  <2>1. Goto(w, "exit") /\ "exit" \in Labels /\ running = FALSE
    BY <1>1, <1>7 DEF WorkerQuit, RunInv, Labels
  <2>2. Moves(w) /\ pc'[w] = "exit"
    BY <1>1, <1>2, <2>1, GotoMoves
  <2>3. UNCHANGED <<ring, frameCount, eos, encoded, dropped, pool,
                    cloning, pooled, running>> /\ poolRunning' = FALSE
    BY <1>7 DEF WorkerQuit, vars, control
  <2>4. FlowInv' /\ (NoWait' <=> NoWait)
    BY <1>1, <2>3, FlowKept
  <2> QED
    BY <1>4, <2>1, <2>2, <2>3, <2>4
<1>8. CASE WorkerGot(w)
  <2>1. Goto(w, "filter") /\ "filter" \in Labels
    BY <1>8 DEF WorkerGot, Labels
  <2>2. Moves(w) /\ pc'[w] = "filter"
    BY <1>1, <1>2, <2>1, GotoMoves
  <2>3. UNCHANGED <<ring, frameCount, eos, encoded, dropped, pool,
                    cloning, pooled, running>>
        /\ poolRunning' = (poolRunning /\ ptr[w] \notin eos)
    BY <1>8 DEF WorkerGot, vars, control
  <2>4. FlowInv' /\ (NoWait' <=> NoWait)
    BY <1>1, <2>3, FlowKept
  <2>5. ptr[w] \in eos => NoWait /\ pc[Importer] = "exit"
    <3> SUFFICES ASSUME ptr[w] \in eos PROVE NoWait /\ pc[Importer] = "exit"
      OBVIOUS
    <3>1. ptr[w] \in Slots
      BY <1>1 DEF FlowInv, EosIsLast
    <3>2. status[ptr[w]] = "LOCKED"
      BY <3>1, <1>1, <1>3 DEF Holds, ClaimInv, ClaimsMatchStatus
    <3> QED
      BY <3>2, <1>1 DEF FlowInv, EosIsLast, RunInv
  <2>6. poolRunning' \in BOOLEAN /\ (poolRunning' = poolRunning \/ ptr[w] \in eos)
    BY <2>3, <1>1 DEF RunInv
  <2> QED
    BY <1>4, <2>2, <2>3, <2>4, <2>5, <2>6
<1>9. CASE WorkerDrop(w) \/ WorkerPush(w)
  <2>1. Goto(w, "top") /\ "top" \in Labels
    BY <1>9 DEF WorkerDrop, WorkerPush, Labels
  <2>2. Moves(w) /\ pc'[w] = "top"
    BY <1>1, <1>2, <2>1, GotoMoves
  <2>3. /\ UNCHANGED <<frameCount, eos, encoded, pool, poolRunning,
                       cloning, pooled, running>>
        /\ poolRunning' \in BOOLEAN /\ ptr[w] \in Slots
    BY <1>1, <1>2, <1>3, <1>9
       DEF WorkerDrop, WorkerPush, RemoveFrame, PushFiltered, flow, control, RunInv, TypeOK
  <2>4. status[ptr[w]] = "LOCKED"
    BY <2>3, <1>1, <1>3 DEF Holds, ClaimInv, ClaimsMatchStatus
  <2>5. FlowInv' /\ (NoWait => NoWait')
    <3>1. CASE WorkerDrop(w)
      <4>1. /\ ptr[w] \notin eos /\ Release(ptr[w]) /\ Done' = Done \cup {id[ptr[w]]}
            /\ encoded' \in Seq(Nat) /\ dropped' \subseteq Nat
        BY <3>1, <1>1, <1>3, <2>3
           DEF WorkerDrop, RemoveFrame, Done, FlowInv, Accounted, TypeOK
      <4> QED
        BY <4>1, <1>1, <2>3, <2>4, ReleaseFlow
    <3>2. CASE WorkerPush(w)
      <4>1. /\ SetStatus(ptr[w], "READY") /\ UNCHANGED <<id, chain, dropped>>
        BY <3>2 DEF WorkerPush, PushFiltered, flow
      <4>2. ptr[w] \in eos => NoWait
        BY <2>3, <2>4, <1>1 DEF FlowInv, EosIsLast
      <4> QED
        BY <4>1, <4>2, <1>1, <2>3, <2>4, RelabelFlow DEF NoWait
    <3> QED
      BY <3>1, <3>2, <1>9
  <2> QED
    BY <1>4, <2>2, <2>3, <2>5
<1> QED
  BY <1>5, <1>6, <1>7, <1>8, <1>9 DEF Worker

\* The main thread, as encoder and then shutting down, keeps the invariant.
LEMMA MainKeeps ==
  ASSUME PipelineInv, IndInv', Main
  PROVE  PipelineInv'
<1>1. IndInv /\ FlowInv /\ RunInv /\ pc \in [Actors -> Labels]
  BY DEF PipelineInv, RunInv
<1>2. Importer \in Actors /\ Exporter \in Actors /\ Importer # Exporter
      /\ Exporter \in Threads
  BY Cast, Roles
<1>3. TypeOK /\ RingInv /\ ClaimInv
  BY <1>1 DEF IndInv
<1>4. ASSUME UNCHANGED <<frameCount, pool, cloning, pooled, eos>>,
             NoWait => NoWait', running' = running \/ running' = FALSE,
             poolRunning' = poolRunning \/ (poolRunning' = FALSE /\ running = FALSE),
             Moves(Exporter), Stopping' => running' = FALSE, FlowInv'
      PROVE  PipelineInv'
  <2>1. pc' \in [Actors -> Labels] /\ pc'[Importer] = pc[Importer]
        /\ \A v \in Workers : pc'[v] = pc[v]
    BY <1>2, <1>4, Cast DEF Moves
  <2>2. running' = TRUE /\ pooled' = TRUE /\ poolRunning' = FALSE =>
          NoWait' /\ pc'[Importer] = "exit"
    BY <2>1, <1>1, <1>4 DEF RunInv
  <2>3. RunInv'
    BY <2>1, <2>2, <1>1, <1>4 DEF RunInv
  <2> QED
    BY <1>4, <2>3 DEF PipelineInv
<1>5. CASE EncodeTop \/ EncodeEos \/ JoinImport \/ JoinPool
  <2>1. UNCHANGED <<ring, frameCount, eos, encoded, dropped, pool, poolRunning,
                    cloning, pooled, running>>
    BY <1>5 DEF EncodeTop, EncodeEos, JoinImport, JoinPool, vars, flow, control
  <2>2. PICK l \in Labels : /\ Goto(Exporter, l)
                            /\ l \in {"retrieve", "stop"} \/ Stopping
    <3>1. CASE EncodeTop
      <4> DEFINE l == IF running /\ (importing \/ chain # <<>>) THEN "retrieve" ELSE "stop"
      <4>1. l \in Labels /\ l \in {"retrieve", "stop"}
        BY DEF Labels
      <4>2. Goto(Exporter, l)
        BY <3>1 DEF EncodeTop
      <4> HIDE DEF l
      <4> QED
        BY <4>1, <4>2
    <3>2. CASE EncodeEos
      <4>1. Goto(Exporter, "stop") /\ "stop" \in Labels
        BY <3>2 DEF EncodeEos, Labels
      <4> QED
        BY <4>1
    <3>3. CASE JoinImport
      <4> DEFINE l == IF pooled THEN "close pool" ELSE "end"
      <4>1. l \in Labels
        BY DEF Labels
      <4>2. Goto(Exporter, l) /\ Stopping
        BY <3>3 DEF JoinImport, Stopping
      <4> HIDE DEF l
      <4> QED
        BY <4>1, <4>2
    <3>4. CASE JoinPool
      <4>1. Goto(Exporter, "end") /\ "end" \in Labels /\ Stopping
        BY <3>4 DEF JoinPool, Stopping, Labels
      <4> QED
        BY <4>1
    <3> QED
      BY <3>1, <3>2, <3>3, <3>4, <1>5
  <2>3. Moves(Exporter) /\ pc'[Exporter] = l
    BY <1>1, <1>2, <2>2, GotoMoves
  <2>4. Stopping' => running' = FALSE
    BY <2>1, <2>2, <2>3, <1>1 DEF Stopping, RunInv
  <2>5. FlowInv' /\ (NoWait' <=> NoWait)
    BY <1>1, <2>1, FlowKept
  <2> QED
    BY <1>4, <2>1, <2>3, <2>4, <2>5
<1>6. CASE EncodeRetrieve
  <2>1. UNCHANGED <<ring, frameCount, eos, encoded, dropped, pool, poolRunning,
                    cloning, pooled, running>> /\ pc[Exporter] = "retrieve"
    BY <1>6 DEF EncodeRetrieve, Retrieve, RetrieveWait, RetrieveFrame, RetrieveNull,
                flow, control
  <2>2. Moves(Exporter) /\ pc'[Exporter] \in {"retrieve", "got", "stop"}
    <3> DEFINE l == Claimed(Exporter, "got", "stop")
    <3>1. l \in Labels /\ l \in {"retrieve", "got", "stop"}
      <4>1. "got" \in Labels /\ "stop" \in Labels
        BY DEF Labels
      <4> QED
        BY <1>1, <1>2, <2>1, <4>1, ClaimedWhere
    <3>2. Goto(Exporter, l)
      BY <1>6 DEF EncodeRetrieve
    <3> HIDE DEF l
    <3>3. Moves(Exporter) /\ pc'[Exporter] = l
      BY <1>1, <1>2, <3>1, <3>2, GotoMoves
    <3> QED
      BY <3>1, <3>3
  <2>3. ~Stopping'
    BY <2>2 DEF Stopping
  <2>4. FlowInv' /\ (NoWait' <=> NoWait)
    BY <1>1, <2>1, FlowKept
  <2> QED
    BY <1>4, <2>1, <2>2, <2>3, <2>4
<1>7. CASE EncodeDrop \/ EncodeFrame
  <2>1. PICK l \in Labels : Goto(Exporter, l) /\ l \in {"retrieve", "top", "stop"}
    BY <1>7 DEF EncodeDrop, EncodeFrame, Labels
  <2>2. Moves(Exporter) /\ pc'[Exporter] = l
    BY <1>1, <1>2, <2>1, GotoMoves
  <2>3. ~Stopping'
    BY <2>1, <2>2 DEF Stopping
  <2>4. /\ UNCHANGED <<frameCount, eos, pool, poolRunning, cloning, pooled, running>>
        /\ ptr[Exporter] \in Slots /\ Release(ptr[Exporter]) /\ ptr[Exporter] \notin eos
    BY <1>2, <1>3, <1>7
       DEF EncodeDrop, EncodeFrame, RemoveFrame, control, TypeOK
  <2>5. status[ptr[Exporter]] = "READY"
    BY <2>4, <1>3, ExporterHead
  <2>6. /\ Done' = Done \cup {id[ptr[Exporter]]}
        /\ encoded' \in Seq(Nat) /\ dropped' \subseteq Nat
    <3>1. id[ptr[Exporter]] \in Nat /\ encoded \in Seq(Nat) /\ dropped \subseteq Nat
      BY <1>1, <1>3, <2>4 DEF FlowInv, Accounted, TypeOK
    <3>2. CASE EncodeDrop
      BY <3>1, <3>2 DEF EncodeDrop, Done
    <3>3. CASE EncodeFrame
      <4>1. encoded' = Append(encoded, id[ptr[Exporter]]) /\ dropped' = dropped
        BY <3>3 DEF EncodeFrame
      <4>2. encoded' \in Seq(Nat)
            /\ {encoded'[i] : i \in DOMAIN encoded'}
                 = {encoded[i] : i \in DOMAIN encoded} \cup {id[ptr[Exporter]]}
        BY <3>1, <4>1, AppendAdds
      <4> QED
        BY <3>1, <4>1, <4>2 DEF Done
    <3> QED
      BY <3>2, <3>3, <1>7
  <2>7. FlowInv' /\ (NoWait => NoWait')
    BY <1>1, <2>4, <2>5, <2>6, ReleaseFlow
  <2> QED
    BY <1>4, <2>2, <2>3, <2>4, <2>7
<1>8. CASE Stop \/ Interrupt \/ Cancel \/ WakeImport \/ ClosePool
  <2>1. /\ UNCHANGED <<ring, frameCount, eos, encoded, dropped, pool, cloning, pooled>>
        /\ Stop \/ Stopping
        /\ running' = running \/ running' = FALSE
        /\ Stop => running' = FALSE
        /\ poolRunning' = poolRunning \/ (poolRunning' = FALSE /\ Stopping)
    BY <1>8 DEF Stop, Interrupt, Cancel, WakeImport, ClosePool, ChangeRunning,
                ChangeImporting, InterruptAll, InterruptImport, Stopping, vars, flow,
                control
  <2>2. PICK l \in Labels : Goto(Exporter, l)
    BY <1>8 DEF Stop, Interrupt, Cancel, WakeImport, ClosePool, Labels
  <2>3. Moves(Exporter)
    BY <1>1, <1>2, <2>2, GotoMoves
  <2>4. running' = FALSE /\ (Stopping => running = FALSE)
    BY <2>1, <1>1 DEF RunInv
  <2>5. FlowInv' /\ (NoWait' <=> NoWait)
    BY <1>1, <2>1, FlowKept
  <2> QED
    BY <1>4, <2>1, <2>3, <2>4, <2>5
<1> QED
  BY <1>5, <1>6, <1>7, <1>8 DEF Main

\* The signal handler and spurious wakeups keep the invariant.
LEMMA EventKeeps ==
  ASSUME PipelineInv, IndInv', SignalStop \/ SignalInterrupt \/ Spurious
  PROVE  PipelineInv'
<1>1. IndInv /\ FlowInv /\ RunInv /\ pc \in [Actors -> Labels]
  BY DEF PipelineInv, RunInv
<1>2. /\ UNCHANGED <<ring, frameCount, eos, encoded, dropped, pool, poolRunning,
                     cloning, pooled>>
      /\ running' = running \/ running' = FALSE
  BY DEF SignalStop, SignalInterrupt, Spurious, ChangeRunning, InterruptAll,
         SpuriousWakeup, vars, flow, control
<1>3. pc' \in [Actors -> Labels] /\ \A t \in Threads : pc'[t] = pc[t]
  <2>1. CASE Spurious
    BY <2>1, <1>1 DEF Spurious
  <2>2. CASE SignalStop \/ SignalInterrupt
    <3>1. PICK l \in Labels : Goto(EventThread, l)
      BY <2>2 DEF SignalStop, SignalInterrupt, Labels
    <3>2. Moves(EventThread)
      BY <1>1, <3>1, Cast, GotoMoves
    <3> QED
      BY <3>2, EventThreadIsNew DEF Moves, Actors
  <2> QED
    BY <2>1, <2>2
<1>4. FlowInv' /\ (NoWait' <=> NoWait)
  BY <1>1, <1>2, FlowKept
<1>5. /\ pc'[Importer] = pc[Importer] /\ pc'[Exporter] = pc[Exporter]
      /\ \A w \in Workers : pc'[w] = pc[w]
  BY <1>3, Roles
<1>6. RunInv'
  <2>1. Stopping' => running' = FALSE
    BY <1>1, <1>2, <1>5 DEF Stopping, RunInv
  <2> QED
    BY <1>1, <1>2, <1>3, <1>4, <1>5, <2>1 DEF RunInv
<1> QED
  BY <1>4, <1>6 DEF PipelineInv

-----------------------------------------------------------------------------
(* The theorems. *)

\* A step of a loop is a step that the frame buffer allows, or leaves it alone.
LEMMA BufferStep ==
  ASSUME RunInv, [PipelineNext]_pipelineVars
  PROVE  [Next]_vars
<1>1. CASE Import
  BY <1>1 DEF Import, ImportTop, ImportRegister, ImportPush, ImportPushEos, Next
<1>2. CASE \E w \in pool : Worker(w)
  <2>1. PICK w \in pool : Worker(w)
    BY <1>2
  <2>2. w \in Workers
    BY DEF RunInv
  <2>3. WorkerStep(w) \/ UNCHANGED vars
    BY <2>1 DEF Worker, WorkerTop, WorkerReserve, WorkerQuit, WorkerGot, WorkerDrop,
                WorkerPush, WorkerStep
  <2> QED
    BY <2>2, <2>3 DEF Next
<1>3. CASE Main
  BY <1>3 DEF Main, EncodeTop, EncodeRetrieve, EncodeEos, EncodeDrop, EncodeFrame, Stop,
              Interrupt, Cancel, WakeImport, JoinImport, ClosePool, JoinPool, Next
<1>4. CASE SignalStop \/ SignalInterrupt \/ Spurious
  BY <1>4 DEF SignalStop, SignalInterrupt, Spurious, Next
<1>5. CASE UNCHANGED pipelineVars
  BY <1>5 DEF pipelineVars
<1> QED
  BY <1>1, <1>2, <1>3, <1>4, <1>5 DEF PipelineNext

\* Before the threads start, nothing is on its way.
LEMMA PipelineInitInv == PipelineInit => PipelineInv
<1> SUFFICES ASSUME PipelineInit PROVE PipelineInv
  OBVIOUS
<1>1. Init
  BY DEF PipelineInit
<1>2. IndInv
  BY <1>1, InitIndInv
<1>3. FlowInv
  <2>1. /\ chain = <<>> /\ eos = {} /\ encoded = <<>> /\ dropped = {} /\ frameCount = 0
        /\ \A s \in Slots : status[s] = "NULL"
    BY <1>1 DEF PipelineInit, Init
  <2>2. OnTheWay = {} /\ Done = {}
    BY <2>1 DEF OnTheWay, Done
  <2>3. 0 .. (0 - 1) = {}
    OBVIOUS
  <2>4. Accounted
    BY <2>1, <2>2, <2>3 DEF Accounted
  <2> QED
    BY <2>1, <2>4 DEF FlowInv, FreshIsLast, EosIsLast
<1>4. RunInv
  <2>1. NoWait /\ cloning = FALSE
    BY <1>1 DEF NoWait, Init
  <2>2. pc \in [Actors -> Labels] /\ \A t \in Actors : pc[t] \in {"exit", "top"}
    BY DEF PipelineInit, Actors, Labels
  <2>3. ~Stopping /\ \A w \in Workers : pc[w] # "quit"
    BY <2>2, Cast DEF Stopping
  <2>4. pool \subseteq Workers /\ poolRunning \in BOOLEAN /\ poolRunning = pooled /\ eos = {}
    BY DEF PipelineInit
  <2> QED
    BY <2>1, <2>2, <2>3, <2>4 DEF RunInv
<1> QED
  BY <1>2, <1>3, <1>4 DEF PipelineInv

\* Every step keeps the invariant.
LEMMA PipelineNextInv == PipelineInv /\ [PipelineNext]_pipelineVars => PipelineInv'
<1> SUFFICES ASSUME PipelineInv, [PipelineNext]_pipelineVars PROVE PipelineInv'
  OBVIOUS
<1>1. IndInv'
  BY BufferStep, NextIndInv DEF PipelineInv
<1>2. CASE Import
  BY <1>1, <1>2, ImportKeeps
<1>3. CASE \E w \in pool : Worker(w)
  BY <1>1, <1>3, WorkerKeeps
<1>4. CASE Main
  BY <1>1, <1>4, MainKeeps
<1>5. CASE SignalStop \/ SignalInterrupt \/ Spurious
  BY <1>1, <1>5, EventKeeps
<1>6. CASE UNCHANGED pipelineVars
  <2>1. UNCHANGED <<ring, frameCount, eos, encoded, dropped, pool, poolRunning,
                    cloning, pooled, running, pc>>
    BY <1>6 DEF pipelineVars, vars, flow, control
  <2>2. FlowInv' /\ (NoWait' <=> NoWait)
    BY <2>1, FlowKept DEF PipelineInv
  <2> QED
    BY <1>1, <2>1, <2>2 DEF PipelineInv, RunInv, Stopping
<1> QED
  BY <1>2, <1>3, <1>4, <1>5, <1>6 DEF PipelineNext

\* The inductive invariant of the pipeline: the loops of decoder.c, frame_threads.c
\* and encoder.c keep the stream in order whatever their interleaving.
THEOREM PipelineIndInv == PipelineSpec => []PipelineInv
BY PipelineInitInv, PipelineNextInv, PTL DEF PipelineSpec

\* The loops call the claiming functions only as FrameBuffer lets them, so that
\* all that is proved of the frame buffer holds in the pipeline.
THEOREM PipelineUsesBuffer == PipelineSpec => Spec
<1>1. PipelineInit => Init
  BY DEF PipelineInit
<1>2. PipelineInv /\ [PipelineNext]_pipelineVars => [Next]_vars
  BY BufferStep DEF PipelineInv
<1> QED
  BY <1>1, <1>2, PipelineIndInv, PTL DEF PipelineSpec, Spec

\* While the program runs, the filter threads of frame_threads.c stop only when no
\* frame waits for them.
THEOREM PoolSound == PipelineSpec => []PoolStopsLast
<1>1. PipelineInv => PoolStopsLast
  <2> SUFFICES ASSUME PipelineInv, running, pooled, ~poolRunning PROVE NoWait
    BY DEF PoolStopsLast, NoWait
  <2>1. running = TRUE /\ pooled = TRUE /\ poolRunning = FALSE
    BY DEF PipelineInv, IndInv, TypeOK, RunInv
  <2> QED
    BY <2>1 DEF PipelineInv, RunInv
<1> QED
  BY <1>1, PipelineIndInv, PTL

\* The encoder sees the end of the stream after every frame that was imported has
\* been encoded or dropped.
THEOREM EosSound == PipelineSpec => []NothingBehindEos
<1>1. PipelineInv => NothingBehindEos
  <2> SUFFICES ASSUME PipelineInv, ptr[Exporter] \in eos
      PROVE  /\ Len(chain) = 1
             /\ 0 .. (id[ptr[Exporter]] - 1) = Done
    BY DEF NothingBehindEos, Done
  <2>1. RingInv /\ ClaimInv /\ FlowInv /\ chain \in Seq(Slots)
    BY DEF PipelineInv, IndInv, TypeOK
  <2> DEFINE e == ptr[Exporter]
  <2>2. /\ e \in Slots /\ chain # <<>> /\ chain[Len(chain)] = e /\ id[e] = frameCount
        /\ chain[1] = e
    BY <2>1, ExporterHead DEF FlowInv, EosIsLast
  <2>3. Len(chain) = 1
    BY <2>1, <2>2, InUse, SMTT(30)
  <2>4. OnTheWay = {}
    <3> SUFFICES ASSUME NEW s \in Slots, status[s] # "NULL" PROVE s = e
      BY DEF OnTheWay
    <3>1. PICK i \in DOMAIN chain : chain[i] = s
      BY <2>1, InUse
    <3>2. i = 1
      BY <3>1, <2>1, <2>3
    <3> QED
      BY <3>1, <3>2, <2>2
  <2>5. 0 .. (frameCount - 1) = Done
    BY <2>1, <2>4 DEF FlowInv, Accounted
  <2> QED
    BY <2>2, <2>3, <2>5
<1> QED
  BY <1>1, PipelineIndInv, PTL

-----------------------------------------------------------------------------
(* The threads together keep the promise of FrameFifo. *)

QueueOf(c, f) == [i \in DOMAIN c |-> f[c[i]]]

Issued == frameCount + (IF ptr[Importer] # NoFrame THEN 1 ELSE 0) + Cardinality(eos)

\* The ids along the chain are a sequence as long as the chain.
LEMMA QueueElements ==
  ASSUME NEW c \in Seq(Slots), NEW f \in [Slots -> Nat]
  PROVE  /\ QueueOf(c, f) \in Seq(Nat)
         /\ Len(QueueOf(c, f)) = Len(c)
         /\ \A i \in 1 .. Len(c) : QueueOf(c, f)[i] = f[c[i]]
<1>1. DOMAIN c = 1 .. Len(c) /\ Len(c) \in Nat /\ \A i \in 1 .. Len(c) : c[i] \in Slots
  OBVIOUS
<1>2. QueueOf(c, f) \in [1 .. Len(c) -> Nat]
  BY <1>1 DEF QueueOf
<1>3. QueueOf(c, f) \in Seq(Nat)
  BY <1>1, <1>2
<1> QED
  BY <1>1, <1>2, <1>3 DEF QueueOf

\* A frame linked at the tail adds its id.
LEMMA QueueAppends ==
  ASSUME NEW c \in Seq(Slots), NEW f \in [Slots -> Nat], NEW g \in [Slots -> Nat],
         NEW n \in Slots, \A i \in 1 .. Len(c) : g[c[i]] = f[c[i]]
  PROVE  QueueOf(Append(c, n), g) = Append(QueueOf(c, f), g[n])
<1> DEFINE d == Append(c, n)
<1>1. /\ d \in Seq(Slots) /\ Len(d) = Len(c) + 1 /\ Len(c) \in Nat
      /\ \A i \in 1 .. Len(c) : d[i] = c[i]
      /\ d[Len(c) + 1] = n
  OBVIOUS
<1> HIDE DEF d
<1>2. /\ QueueOf(d, g) \in Seq(Nat) /\ Len(QueueOf(d, g)) = Len(c) + 1
      /\ \A i \in 1 .. (Len(c) + 1) : QueueOf(d, g)[i] = g[d[i]]
  BY <1>1, QueueElements
<1> DEFINE q == QueueOf(c, f)
<1>3. /\ q \in Seq(Nat) /\ Len(q) = Len(c) /\ \A i \in 1 .. Len(c) : q[i] = f[c[i]]
  BY QueueElements
<1> HIDE DEF q
<1>4. g[n] \in Nat
  OBVIOUS
<1> DEFINE r == Append(q, g[n])
<1>5. /\ r \in Seq(Nat) /\ Len(r) = Len(c) + 1
      /\ \A i \in 1 .. Len(c) : r[i] = q[i]
      /\ r[Len(c) + 1] = g[n]
  BY <1>3, <1>4
<1> HIDE DEF r
<1>6. \A i \in 1 .. (Len(c) + 1) : QueueOf(d, g)[i] = r[i]
  <2> SUFFICES ASSUME NEW i \in 1 .. (Len(c) + 1) PROVE g[d[i]] = r[i]
    BY <1>2
  <2>1. i = Len(c) + 1 \/ i \in 1 .. Len(c)
    BY <1>1
  <2>2. CASE i = Len(c) + 1
    BY <2>2, <1>1, <1>5
  <2>3. CASE i \in 1 .. Len(c)
    <3>1. d[i] = c[i] /\ r[i] = q[i] /\ q[i] = f[c[i]]
      BY <2>3, <1>1, <1>3, <1>5
    <3> QED
      BY <2>3, <3>1
  <2> QED
    BY <2>1, <2>2, <2>3
<1>7. QueueOf(d, g) = r
  BY <1>2, <1>5, <1>6, SeqEqual
<1> QED
  BY <1>7 DEF d, q, r

\* A frame that is unlinked takes its id out.
LEMMA QueueRemoves ==
  ASSUME NEW c \in Seq(Slots), NEW f \in [Slots -> Nat], NEW p \in DOMAIN c
  PROVE  /\ QueueOf(RemoveAt(c, p), f) = RemoveAt(QueueOf(c, f), p)
         /\ p \in DOMAIN QueueOf(c, f)
         /\ p = 1 => RemoveAt(QueueOf(c, f), p) = Tail(QueueOf(c, f))
<1> DEFINE d == RemoveAt(c, p)
           q == QueueOf(c, f)
<1>1. /\ p \in 1 .. Len(c) /\ Len(c) \in Nat
      /\ d \in Seq(Slots) /\ Len(d) = Len(c) - 1
      /\ \A j \in 1 .. (Len(c) - 1) : d[j] = IF j < p THEN c[j] ELSE c[j + 1]
  BY RemoveAtElements
<1>2. q \in Seq(Nat) /\ Len(q) = Len(c) /\ \A i \in 1 .. Len(c) : q[i] = f[c[i]]
  BY QueueElements
<1> HIDE DEF d, q
<1>3. p \in DOMAIN q
  BY <1>1, <1>2
<1> DEFINE r == RemoveAt(q, p)
<1>4. /\ r \in Seq(Nat) /\ Len(r) = Len(c) - 1
      /\ \A j \in 1 .. (Len(c) - 1) : r[j] = IF j < p THEN q[j] ELSE q[j + 1]
  BY <1>2, <1>3, RemoveAtElements
<1> HIDE DEF r
<1>5. /\ QueueOf(d, f) \in Seq(Nat) /\ Len(QueueOf(d, f)) = Len(c) - 1
      /\ \A i \in 1 .. (Len(c) - 1) : QueueOf(d, f)[i] = f[d[i]]
  <2>1. /\ QueueOf(d, f) \in Seq(Nat) /\ Len(QueueOf(d, f)) = Len(d)
        /\ \A i \in 1 .. Len(d) : QueueOf(d, f)[i] = f[d[i]]
    BY <1>1, QueueElements
  <2>2. Len(d) = Len(c) - 1
    BY <1>1
  <2> QED
    BY <2>1, <2>2, Zenon
<1>6. \A i \in 1 .. (Len(c) - 1) : QueueOf(d, f)[i] = r[i]
  <2> SUFFICES ASSUME NEW i \in 1 .. (Len(c) - 1) PROVE f[d[i]] = r[i]
    BY <1>5
  <2>1. i \in 1 .. Len(c) /\ i + 1 \in 1 .. Len(c)
    BY <1>1
  <2> QED
    BY <2>1, <1>1, <1>2, <1>4
<1>7. QueueOf(d, f) = r
  BY <1>4, <1>5, <1>6, SeqEqual
<1>8. p = 1 => r = Tail(q)
  <2> SUFFICES ASSUME p = 1 PROVE r = Tail(q)
    OBVIOUS
  <2>1. q # <<>>
    <3>1. Len(q) # 0
      BY <1>1, <1>2
    <3> QED
      BY <3>1, EmptySeq
  <2>2. /\ Tail(q) \in Seq(Nat) /\ Len(Tail(q)) = Len(c) - 1
        /\ \A i \in 1 .. (Len(c) - 1) : Tail(q)[i] = q[i + 1]
    BY <2>1, <1>2, HeadTailProperties
  <2>3. \A i \in 1 .. (Len(c) - 1) : r[i] = Tail(q)[i]
    BY <2>2, <1>1, <1>4
  <2> QED
    BY <2>2, <2>3, <1>4, SeqEqual
<1> QED
  BY <1>3, <1>7, <1>8 DEF d, q, r

\* A registered frame is put into the queue.
LEMMA RegisterPuts ==
  ASSUME PipelineInv, ImportRegister, RegisterFrame
  PROVE  Fifo!Put
<1>1. TypeOK /\ RingInv /\ IndInv /\ FlowInv /\ RunInv
  BY DEF PipelineInv, IndInv
<1>2. /\ eos = {} /\ ptr[Importer] = NoFrame
      /\ UNCHANGED <<frameCount, eos, encoded, dropped>>
  BY <1>1 DEF ImportRegister, Register, RunInv, flow, control
<1>3. PICK k \in Slots : /\ TakeFree(k, "EMPTY", "EMPTY", frameCount)
                         /\ LinkLast(Nth(k))
                         /\ ptr' = [ptr EXCEPT ![Importer] = Nth(k)]
  BY DEF RegisterFrame
<1> DEFINE n == Nth(k)
<1>4. /\ n \in Slots /\ ~InChain(n) /\ chain' = Append(chain, n)
      /\ \A x \in Slots : id'[x] = IF x = n THEN frameCount ELSE id[x]
      /\ ptr'[Importer] = n
  BY <1>1, <1>2, <1>3, Roles, RegisterFlow DEF LinkLast, TypeOK
<1> HIDE DEF n
<1>5. id' \in [Slots -> Nat]
  <2>1. n \in Slots /\ frameCount \in Nat /\ id \in [Slots -> Nat]
        /\ id' = [id EXCEPT ![n] = frameCount]
    BY <1>1, <1>3, <1>4 DEF TakeFree, TypeOK, n
  <2> QED
    BY <2>1
<1>6. /\ chain \in Seq(Slots) /\ id \in [Slots -> Nat] /\ frameCount \in Nat
      /\ \A i \in 1 .. Len(chain) : chain[i] \in Slots /\ chain[i] # n
  BY <1>1, <1>4 DEF TypeOK, InChain
<1>7. QueueOf(chain', id') = Append(QueueOf(chain, id), frameCount)
  <2>1. \A i \in 1 .. Len(chain) : id'[chain[i]] = id[chain[i]]
    BY <1>4, <1>6
  <2>2. QueueOf(Append(chain, n), id') = Append(QueueOf(chain, id), id'[n])
    BY <1>4, <1>5, <1>6, <2>1, QueueAppends
  <2> QED
    BY <2>2, <1>4
<1>8. Issued = frameCount /\ Issued' = frameCount + 1
  BY <1>2, <1>4, <1>6, Roles, FS_EmptySet DEF Issued
<1> QED
  BY <1>2, <1>7, <1>8 DEF Fifo!Put, QueueOf, Issued

\* A frame that is encoded is taken from the queue, one that is dropped leaves it.
LEMMA ReleaseTakes ==
  ASSUME PipelineInv, NEW s \in Slots, Release(s),
         ptr'[Importer] = ptr[Importer], UNCHANGED <<frameCount, eos>>
  PROVE  /\ encoded' = encoded => Fifo!Drop
         /\ encoded' = Append(encoded, id[s]) /\ s = chain[1] => Fifo!Take
<1>1. TypeOK /\ RingInv
  BY DEF PipelineInv, IndInv
<1>2. PICK p \in DOMAIN chain : chain[p] = s /\ chain' = RemoveAt(chain, p)
  BY DEF Release, Unlink
<1>3. /\ chain \in Seq(Slots) /\ id \in [Slots -> Nat] /\ id' = id
      /\ Issued' = Issued
  BY <1>1 DEF TypeOK, Release, Issued
<1> DEFINE q == QueueOf(chain, id)
<1>4. /\ QueueOf(chain', id') = RemoveAt(q, p) /\ p \in DOMAIN q
      /\ p = 1 => RemoveAt(q, p) = Tail(q)
  BY <1>2, <1>3, QueueRemoves
<1>5. ASSUME encoded' = encoded
      PROVE  Fifo!Drop
  <2>1. Fifo!RemoveAt(q, p) = RemoveAt(q, p)
    BY DEF Fifo!RemoveAt, RemoveAt
  <2>2. \E i \in DOMAIN q : QueueOf(chain', id') = Fifo!RemoveAt(q, i)
    BY <1>4, <2>1
  <2> QED
    BY <1>3, <1>5, <2>2 DEF Fifo!Drop, QueueOf, Issued
<1>6. ASSUME encoded' = Append(encoded, id[s]), s = chain[1]
      PROVE  Fifo!Take
  <2>1. 1 \in DOMAIN chain /\ p = 1
    <3>1. 1 \in DOMAIN chain
      BY <1>2, <1>3
    <3> QED
      BY <3>1, <1>1, <1>2, <1>6, InUse
  <2>2. q \in Seq(Nat) /\ 1 \in DOMAIN q /\ q[1] = id[s]
    BY <1>3, <1>6, <2>1, QueueElements DEF QueueOf
  <2> HIDE DEF q
  <2>3. q # <<>> /\ Head(q) = id[s]
    BY <2>2
  <2>4. /\ QueueOf(chain', id') = Tail(q) /\ encoded' = Append(encoded, Head(q))
    BY <1>4, <1>6, <2>1, <2>3
  <2> QED
    BY <1>3, <2>3, <2>4 DEF Fifo!Take, q, QueueOf, Issued
<1> QED
  BY <1>5, <1>6

\* Every other step leaves the queue alone.
LEMMA FifoStutters ==
  ASSUME UNCHANGED <<chain, id, encoded>>, Issued' = Issued
  PROVE  UNCHANGED Fifo!fifoVars
BY DEF Fifo!fifoVars, Issued

\* Every step of the pipeline is a step of FrameFifo or leaves its state alone.
LEMMA FifoStep ==
  ASSUME PipelineInv, [PipelineNext]_pipelineVars
  PROVE  [Fifo!FifoNext]_Fifo!fifoVars
<1>1. TypeOK /\ RingInv /\ ClaimInv /\ RunInv
  BY DEF PipelineInv, IndInv
<1>2. ASSUME UNCHANGED <<chain, id, encoded, frameCount, eos>>,
             ptr'[Importer] = ptr[Importer]
      PROVE  UNCHANGED Fifo!fifoVars
  BY <1>2, FifoStutters DEF Issued
<1>3. CASE Import
  <2>1. CASE ImportTop
    BY <2>1, <1>2 DEF ImportTop, vars, ring, claims, control, flow
  <2>2. CASE ImportRegister /\ RegisterFrame
    BY <2>2, RegisterPuts DEF Fifo!FifoNext
  <2>3. CASE ImportRegister /\ ~RegisterFrame
    BY <2>3, <1>2 DEF ImportRegister, Register, RegisterWait, RegisterNull,
                      ring, claims, control, flow
  <2>4. CASE ImportPush \/ ImportPushEos
    <3>1. /\ pc[Importer] = "fill" /\ \E new \in {"WAIT", "READY"} : PushImported(new)
          /\ UNCHANGED encoded
      BY <2>4 DEF ImportPush, ImportPushEos, flow
    <3>2. /\ UNCHANGED <<chain, id>> /\ ptr[Importer] # NoFrame
          /\ ptr'[Importer] = NoFrame /\ eos = {} /\ frameCount \in Nat
      BY <3>1, <1>1, Roles DEF PushImported, RunInv, TypeOK
    <3>3. \/ frameCount' = frameCount + 1 /\ eos' = {}
          \/ frameCount' = frameCount /\ eos' = {ptr[Importer]}
      BY <2>4, <3>2 DEF ImportPush, ImportPushEos, flow
    <3>4. Issued' = Issued
      <4>1. Cardinality({}) = 0 /\ Cardinality({ptr[Importer]}) = 1
        BY FS_EmptySet, FS_Singleton
      <4>2. Issued = frameCount + 1
        BY <3>2, <4>1 DEF Issued
      <4>3. Issued' = frameCount + 1
        BY <3>2, <3>3, <4>1 DEF Issued
      <4> QED
        BY <4>2, <4>3
    <3> QED
      BY <3>1, <3>2, <3>4, FifoStutters
  <2> QED
    BY <2>1, <2>2, <2>3, <2>4, <1>3 DEF Import
<1>4. ASSUME NEW w \in pool, Worker(w)
      PROVE  [Fifo!FifoNext]_Fifo!fifoVars
  <2>1. w \in Threads /\ w # Importer
    BY <1>1, Roles DEF RunInv
  <2>2. CASE WorkerDrop(w)
    <3>1. /\ ptr[w] \in Slots /\ Release(ptr[w]) /\ UNCHANGED <<frameCount, eos>>
          /\ ptr'[Importer] = ptr[Importer] /\ encoded' = encoded
      BY <2>1, <2>2, <1>1, Roles DEF WorkerDrop, RemoveFrame, control, TypeOK
    <3> QED
      BY <3>1, ReleaseTakes DEF Fifo!FifoNext
  <2>3. CASE WorkerReserve(w) \/ WorkerPush(w)
    <3>1. UNCHANGED <<chain, id, encoded, frameCount, eos>>
      BY <2>3 DEF WorkerReserve, WorkerPush, Reserve, ReserveWait, ReserveFrame,
                  ReserveNull, PushFiltered, ring, claims, control, flow
    <3>2. ptr'[Importer] = ptr[Importer]
      BY <2>1, <2>3, <1>1, Roles
         DEF WorkerReserve, WorkerPush, Reserve, ReserveWait, ReserveFrame,
             ReserveNull, PushFiltered, claims, TypeOK
    <3> QED
      BY <3>1, <3>2, <1>2
  <2>4. CASE WorkerTop(w) \/ WorkerQuit(w) \/ WorkerGot(w)
    BY <2>4, <1>2 DEF WorkerTop, WorkerQuit, WorkerGot, vars, ring, claims, control, flow
  <2> QED
    BY <1>4, <2>2, <2>3, <2>4 DEF Worker
<1>5. CASE Main
  <2>1. CASE EncodeDrop \/ EncodeFrame
    <3>1. /\ ptr[Exporter] \in Slots /\ Release(ptr[Exporter])
          /\ UNCHANGED <<frameCount, eos>> /\ ptr'[Importer] = ptr[Importer]
          /\ \/ encoded' = encoded
             \/ encoded' = Append(encoded, id[ptr[Exporter]])
      BY <2>1, <1>1, Roles DEF EncodeDrop, EncodeFrame, RemoveFrame, control, TypeOK
    <3>2. ptr[Exporter] = chain[1]
      BY <3>1, <1>1, ExporterHead
    <3> QED
      BY <3>1, <3>2, ReleaseTakes DEF Fifo!FifoNext
  <2>2. CASE EncodeRetrieve
    <3>1. UNCHANGED <<chain, id, encoded, frameCount, eos>>
      BY <2>2 DEF EncodeRetrieve, Retrieve, RetrieveWait, RetrieveFrame, RetrieveNull,
                  ring, control, flow
    <3>2. ptr'[Importer] = ptr[Importer]
      BY <2>2, <1>1, Roles
         DEF EncodeRetrieve, Retrieve, RetrieveWait, RetrieveFrame, RetrieveNull,
             claims, TypeOK
    <3> QED
      BY <3>1, <3>2, <1>2
  <2>3. CASE ~(EncodeDrop \/ EncodeFrame \/ EncodeRetrieve)
    <3>1. UNCHANGED <<chain, id, encoded, frameCount, eos, ptr>>
      BY <1>5, <2>3 DEF Main, EncodeTop, EncodeEos, Stop, Interrupt, Cancel, WakeImport,
                JoinImport, ClosePool, JoinPool, ChangeRunning, ChangeImporting,
                InterruptAll, InterruptImport, vars, ring, claims, control, flow
    <3> QED
      BY <3>1, <1>2
  <2> QED
    BY <2>1, <2>2, <2>3
<1>6. CASE SignalStop \/ SignalInterrupt \/ Spurious
  <2>1. UNCHANGED <<chain, id, encoded, frameCount, eos, ptr>>
    BY <1>6 DEF SignalStop, SignalInterrupt, Spurious, ChangeRunning, InterruptAll,
                SpuriousWakeup, ring, claims, control, flow
  <2> QED
    BY <2>1, <1>2
<1>7. CASE UNCHANGED pipelineVars
  <2>1. UNCHANGED <<chain, id, encoded, frameCount, eos, ptr>>
    BY <1>7 DEF pipelineVars, vars, ring, claims, control, flow
  <2> QED
    BY <2>1, <1>2
<1> QED
  BY <1>3, <1>4, <1>5, <1>6, <1>7 DEF PipelineNext

\* The decoder, the filter threads and the encoder together implement FrameFifo: the
\* encoder gets the frames in the order they came, each once.
THEOREM PipelineIsFifo == PipelineSpec => FifoImplemented
<1>1. PipelineInit => Fifo!FifoInit
  <2> SUFFICES ASSUME PipelineInit PROVE Fifo!FifoInit
    OBVIOUS
  <2>1. chain = <<>> /\ encoded = <<>> /\ frameCount = 0 /\ eos = {}
        /\ ptr[Importer] = NoFrame
    BY Roles DEF PipelineInit, Init
  <2>2. Issued = 0
    BY <2>1, FS_EmptySet DEF Issued
  <2>3. QueueOf(chain, id) = <<>>
    BY <2>1 DEF QueueOf
  <2> QED
    BY <2>1, <2>2, <2>3 DEF Fifo!FifoInit, QueueOf, Issued
<1>2. PipelineInv /\ [PipelineNext]_pipelineVars => [Fifo!FifoNext]_Fifo!fifoVars
  BY FifoStep
<1> QED
  BY <1>1, <1>2, PipelineIndInv, PTL DEF PipelineSpec, FifoImplemented, Fifo!FifoSpec

=============================================================================
