-------------------------- MODULE FilterTableProofs --------------------------
(***************************************************************************)
(* Safety of the filter table, for every size of the table, all names and  *)
(* any number of frame threads: first of the table, then of the frames.    *)
(***************************************************************************)
EXTENDS FilterTable, TLAPS, WellFoundedInduction

\* A set of natural numbers that is not empty has a least element.
LEMMA LeastNatural ==
  ASSUME NEW T \in SUBSET Nat, T # {}
  PROVE  \E x \in T : \A y \in T : x <= y
<1> DEFINE R == OpToRel(<, Nat)
<1>1. IsWellFoundedOn(R, Nat)
  BY NatLessThanWellFounded, Zenon
<1>2. PICK x \in T : \A y \in T : <<y, x>> \notin R
  <2> HIDE DEF R
  <2> QED BY <1>1, WFMin, Zenon
<1>3. \A y \in T : ~(y < x)
  BY <1>2 DEF OpToRel
<1> QED BY <1>3

\* Min of the library is that element.
LEMMA MinOfNaturals ==
  ASSUME NEW T \in SUBSET Nat, T # {}
  PROVE  Min(T) \in T /\ \A y \in T : Min(T) <= y
BY LeastNatural DEF Min

\* Among finitely many slots one has the greatest number: the least number of slots for
\* which that fails would be one more than a number for which it does not.
LEMMA GreatestOfSlots ==
  ASSUME NEW f \in [Slots -> Nat]
  PROVE  \E m \in Slots : \A s \in Slots : f[s] <= f[m]
<1> DEFINE Great(k) == \E m \in 0 .. k - 1 : \A s \in 0 .. k - 1 : f[s] <= f[m]
           Bad      == {k \in 1 .. MaxFilters : ~Great(k)}
<1>1. MaxFilters \in Nat /\ MaxFilters >= 1
  BY FilterConstants
<1>2. ASSUME Bad # {} PROVE FALSE
  <2>1. Bad \in SUBSET Nat
    OBVIOUS
  <2>2. PICK k \in Bad : \A j \in Bad : k <= j
    <3> HIDE DEF Bad
    <3> QED BY <1>2, <2>1, LeastNatural
  <2>3. k # 1
    <3>1. \A s \in 0 .. 0 : f[s] <= f[0]
      BY <1>1 DEF Slots
    <3> QED BY <3>1
  <2>4. k - 1 \in 1 .. MaxFilters /\ k \in 1 .. MaxFilters
    BY <2>3, <1>1
  <2>5. Great(k - 1)
    BY <2>2, <2>4
  <2>6. PICK m \in 0 .. k - 2 : \A s \in 0 .. k - 2 : f[s] <= f[m]
    BY <2>5, <2>4
  <2>7. \A s \in 0 .. k - 1 : f[s] \in Nat
    BY <2>4, <1>1 DEF Slots
  <2>8. \A s \in 0 .. k - 1 : s \in 0 .. k - 2 \/ s = k - 1
    BY <2>4
  <2>9. CASE f[k - 1] <= f[m]
    <3>1. m \in 0 .. k - 1 /\ \A s \in 0 .. k - 1 : f[s] <= f[m]
      BY <2>4, <2>6, <2>8, <2>9
    <3> QED BY <3>1
  <2>10. CASE ~(f[k - 1] <= f[m])
    <3>1. k - 1 \in 0 .. k - 1 /\ m \in 0 .. k - 1
      BY <2>4
    <3>2. \A s \in 0 .. k - 1 : f[s] <= f[k - 1]
      BY <2>6, <2>7, <2>8, <2>10, <3>1
    <3> QED BY <3>1, <3>2
  <2> QED BY <2>9, <2>10
<1>3. Great(MaxFilters)
  <2>1. Bad = {}
    BY <1>2
  <2>2. MaxFilters \in 1 .. MaxFilters
    BY <1>1
  <2>3. \A k \in 1 .. MaxFilters : Great(k)
    BY <2>1
  <2> QED BY <2>2, <2>3
<1> QED BY <1>3 DEF Slots

\* What the searches of filter.c find.
LEMMA NewIdIsAbove ==
  ASSUME id \in [Slots -> Nat]
  PROVE  NewId \in Nat \ {0} /\ \A s \in Slots : id[s] < NewId
<1>1. PICK m \in Slots : \A s \in Slots : id[s] <= id[m]
  BY GreatestOfSlots
<1> DEFINE T == {id[s] : s \in Slots}
<1>2. id[m] \in T /\ (\A y \in T : id[m] >= y) /\ T \in SUBSET Nat
  BY <1>1
<1>3. Max(T) \in T /\ \A y \in T : Max(T) >= y
  <2> HIDE DEF T
  <2> QED BY <1>2 DEF Max
<1>4. Max(T) \in Nat /\ \A s \in Slots : id[s] <= Max(T)
  <2>1. \A s \in Slots : id[s] \in T /\ id[s] \in Nat
    OBVIOUS
  <2> HIDE DEF T
  <2> QED BY <1>2, <1>3, <2>1
<1>5. NewId = Max(T) + 1
  BY Zenon DEF NewId
<1> HIDE DEF T
<1>6. \A s \in Slots : id[s] \in Nat
  OBVIOUS
<1> QED BY <1>4, <1>5, <1>6

\* The slot a load takes is the first free one (filter.c:260).
LEMMA FreeSlotIsFirst ==
  ASSUME id \in [Slots -> Nat], Loaded # Slots
  PROVE  /\ FreeSlot \in Slots /\ id[FreeSlot] = 0
         /\ \A s \in Slots : s < FreeSlot => id[s] # 0
<1>1. Slots \ Loaded \in SUBSET Nat /\ Slots \ Loaded # {} /\ Slots \in SUBSET Nat
  BY FilterConstants DEF Slots, Loaded
<1>2. FreeSlot \in Slots \ Loaded /\ \A y \in Slots \ Loaded : FreeSlot <= y
  BY <1>1, MinOfNaturals DEF FreeSlot
<1> QED BY <1>1, <1>2 DEF Loaded

\* An id that is in use leads to a slot that has it.
LEMMA IndexFinds ==
  ASSUME id \in [Slots -> Nat], NEW x, \E s \in Slots : id[s] = x
  PROVE  Index(x) \in Slots /\ id[Index(x)] = x
<1>1. {s \in Slots : id[s] = x} \in SUBSET Nat /\ {s \in Slots : id[s] = x} # {}
  BY FilterConstants DEF Slots
<1> QED BY <1>1, MinOfNaturals DEF Index

\* What tc_filter_find returns is an id that is in use.
LEMMA FindFinds ==
  ASSUME id \in [Slots -> Nat], NEW n, Find(n) # 0
  PROVE  Index(Find(n)) \in Slots /\ id[Index(Find(n))] = Find(n)
<1>1. {s \in Slots : name[s] = n} \in SUBSET Nat
  BY FilterConstants DEF Slots
<1>2. {s \in Slots : name[s] = n} # {} /\ Find(n) = id[Min({s \in Slots : name[s] = n})]
  BY DEF Find
<1>3. \E s \in Slots : id[s] = Find(n)
  BY <1>1, <1>2, MinOfNaturals
<1> QED BY <1>3, IndexFinds

-----------------------------------------------------------------------------
(* The table. *)

PassRecords ==
  [pc : {"idle", "scan"}, last : Nat, best : 0 .. MaxFilters, i : 0 .. MaxFilters,
   above : BOOLEAN, seen : SUBSET Nat, owed : SUBSET Nat]

Types ==
  /\ id \in [Slots -> Nat]
  /\ name \in [Slots -> Names \cup {NoName}]
  /\ enabled \in [Slots -> BOOLEAN] /\ entry \in [Slots -> BOOLEAN]
  /\ failed \in BOOLEAN
  /\ cmd \in [pc : {"idle", "open", "init", "remove", "enable", "config"},
              slot : Slots, id : Nat]
  /\ at \in Nat
  /\ pass \in [Callers -> PassRecords]

\* A load fills the first free slot, whose id is above all others, and so the slot in
\* which it may fail is the last one.
LoadFillsLast ==
  Running =>
    /\ cmd.pc = "open" =>
         /\ id[cmd.slot] = 0 /\ cmd.id # 0
         /\ \A s \in Slots : id[s] < cmd.id /\ (s < cmd.slot => id[s] # 0)
    /\ cmd.pc \in {"init", "remove"} =>
         /\ id[cmd.slot] = cmd.id /\ cmd.id # 0
         /\ \A s \in Slots : s > cmd.slot => id[s] = 0

\* A filter that is loaded has its entry point.
LoadedHasEntry == Running => \A s \in Slots : id[s] # 0 => entry[s]

TableInv == Types /\ TableIsPrefix /\ LoadFillsLast /\ LoadedHasEntry

\* The empty table satisfies the invariant.
LEMMA TableInit == Init => TableInv
<1> SUFFICES ASSUME Init PROVE TableInv
  OBVIOUS
<1>1. 0 \in Slots /\ MaxFilters \in 0 .. MaxFilters /\ 0 \in 0 .. MaxFilters
  BY FilterConstants DEF Slots
<1>2. Types
  BY <1>1 DEF Init, Types, PassRecords, NoCommand, NoPass
<1> QED
  BY <1>2 DEF Init, TableInv, TableIsPrefix, LoadFillsLast, LoadedHasEntry, Running,
              NoCommand

\* A filter that is disabled is owed to no frame any more: the passes stay records.
LEMMA OweKeepsRecords ==
  ASSUME pass \in [Callers -> PassRecords], NEW s, Owe(s)
  PROVE  pass' \in [Callers -> PassRecords]
<1>1. ASSUME NEW c \in Callers
      PROVE  [pass[c] EXCEPT !.owed = @ \ {id[s]}] \in PassRecords
  BY DEF PassRecords
<1> QED BY <1>1 DEF Owe

\* Every step keeps the types.
LEMMA TypesNext == Types /\ [Next]_vars => Types'
<1> SUFFICES ASSUME Types, [Next]_vars PROVE Types'
  OBVIOUS
<1> USE DEF Types
<1>0. MaxFilters \in Nat /\ Slots \in SUBSET Nat /\ 0 \in Slots
  BY FilterConstants DEF Slots
<1>00. MaxFilters \in 0 .. MaxFilters /\ 0 \in 0 .. MaxFilters
  BY FilterConstants
<1>1. ASSUME NEW n \in Names, LoadStart(n) PROVE Types'
  BY <1>1, FreeSlotIsFirst, NewIdIsAbove DEF LoadStart, fini
<1>2. CASE LoadMissing
  BY <1>2, <1>0 DEF LoadMissing, Reply, NoCommand, calls, fini
<1>3. CASE LoadModule
  BY <1>3 DEF LoadModule, calls, fini
<1>4. CASE LoadInit
  BY <1>4 DEF LoadInit, table, fini
<1>5. CASE LoadRemove
  <2>1. /\ cmd' = [cmd EXCEPT !.pc = "enable"]
        /\ UNCHANGED <<failed, at, pass>>
    BY <1>5 DEF LoadRemove, fini
  <2>2. CASE UNCHANGED <<name, id, enabled, entry>>
    BY <2>1, <2>2
  <2>3. CASE \E s \in Slots : Remove(s)
    BY <2>1, <2>3 DEF Remove
  <2>4. cmd.id \in {id[s] : s \in Slots} => Index(cmd.id) \in Slots
    BY IndexFinds
  <2> QED BY <2>2, <2>3, <2>4, <1>5 DEF LoadRemove
<1>6. CASE LoadEnable
  BY <1>6, <1>0 DEF LoadEnable, Reply, NoCommand, calls, fini
<1>7. ASSUME NEW n \in Names, Enable(n) PROVE Types'
  BY <1>7, <1>0 DEF Enable, Reply, NoCommand, calls, fini
<1>8. ASSUME NEW n \in Names, Disable(n) PROVE Types'
  <2>1. pass' \in [Callers -> PassRecords]
    BY <1>8, OweKeepsRecords DEF Disable
  <2> QED BY <1>8, <2>1, <1>0 DEF Disable, Reply, NoCommand, calls, fini
<1>9. ASSUME NEW n \in Names, ConfigClose(n) PROVE Types'
  BY <1>9, FindFinds DEF ConfigClose, table, fini
<1>10. CASE ConfigInit
  <2>1. pass' \in [Callers -> PassRecords]
    BY <1>10, OweKeepsRecords DEF ConfigInit
  <2>2. enabled' \in [Slots -> BOOLEAN] /\ cmd' = NoCommand
    BY <1>10 DEF ConfigInit, Reply
  <2> QED BY <1>10, <2>1, <2>2, <1>0 DEF ConfigInit, NoCommand, fini
<1>11. CASE Crash
  BY <1>11, <1>0 DEF Crash, NoCommand, table, calls
<1>12. ASSUME NEW c \in Callers, Begin(c) PROVE Types'
  <2> DEFINE O == {id[s] : s \in {s \in Loaded : enabled[s]}}
  <2>1. O \in SUBSET Nat
    BY DEF Loaded
  <2>2. pass' = [pass EXCEPT ![c] = [NoPass EXCEPT !.pc = "scan", !.owed = O]]
    BY <1>12 DEF Begin
  <2> HIDE DEF O
  <2>3. [NoPass EXCEPT !.pc = "scan", !.owed = O] \in PassRecords
    <3> HIDE DEF Types
    <3> QED BY <2>1, <1>00 DEF NoPass, PassRecords
  <2>4. pass' \in [Callers -> PassRecords]
    BY <2>2, <2>3
  <2> QED BY <1>12, <2>4 DEF Begin, table, calls, fini
<1>13. ASSUME NEW c \in Callers, ScanId(c) PROVE Types'
  <2>1. [pass[c] EXCEPT !.above = TRUE] \in PassRecords
    BY DEF PassRecords
  <2>2. pass[c].i + 1 \in 0 .. MaxFilters
    BY <1>13, <1>0 DEF ScanId, PassRecords
  <2>3. [pass[c] EXCEPT !.i = pass[c].i + 1] \in PassRecords
    BY <2>2 DEF PassRecords
  <2>4. \/ pass' = [pass EXCEPT ![c] = [pass[c] EXCEPT !.above = TRUE]]
        \/ pass' = [pass EXCEPT ![c] = [pass[c] EXCEPT !.i = pass[c].i + 1]]
    BY <1>13 DEF ScanId
  <2>5. pass' \in [Callers -> PassRecords]
    BY <2>1, <2>3, <2>4
  <2> QED BY <1>13, <2>5 DEF ScanId, table, calls, fini
<1>14. ASSUME NEW c \in Callers, ScanEnabled(c) PROVE Types'
  <2> DEFINE B == IF Candidate(c, pass[c].i) THEN pass[c].i ELSE pass[c].best
  <2>1. pass[c].i + 1 \in 0 .. MaxFilters /\ B \in 0 .. MaxFilters
    BY <1>14, <1>0 DEF ScanEnabled, PassRecords
  <2>2. pass' = [pass EXCEPT ![c] = [pass[c] EXCEPT !.i = pass[c].i + 1, !.above = FALSE,
                                                    !.best = B]]
    BY <1>14 DEF ScanEnabled
  <2> HIDE DEF B
  <2>3. [pass[c] EXCEPT !.i = pass[c].i + 1, !.above = FALSE, !.best = B] \in PassRecords
    BY <2>1 DEF PassRecords
  <2>4. pass' \in [Callers -> PassRecords]
    BY <2>2, <2>3
  <2> QED BY <1>14, <2>4 DEF ScanEnabled, table, calls, fini
<1>15. ASSUME NEW c \in Callers, Call(c) PROVE Types'
  <2> DEFINE S == IF entry[pass[c].best] THEN pass[c].seen \cup {id[pass[c].best]}
                  ELSE pass[c].seen
  <2>1. pass[c].best \in Slots /\ pass[c].seen \in SUBSET Nat
    BY <1>15, <1>0 DEF Call, Slots, PassRecords
  <2>2. id[pass[c].best] \in Nat /\ S \in SUBSET Nat
    BY <2>1
  <2>3. pass' = [pass EXCEPT ![c] = [pass[c] EXCEPT !.last = id[pass[c].best],
                                       !.best = MaxFilters, !.i = 0, !.seen = S]]
    BY <1>15 DEF Call
  <2> HIDE DEF S
  <2>4. [pass[c] EXCEPT !.last = id[pass[c].best], !.best = MaxFilters, !.i = 0, !.seen = S]
          \in PassRecords
    <3>1. pass[c] \in PassRecords
      OBVIOUS
    <3> HIDE DEF Types
    <3> QED BY <2>2, <3>1, <1>00 DEF PassRecords
  <2>5. pass' \in [Callers -> PassRecords]
    BY <2>3, <2>4
  <2>6. enabled' \in [Slots -> BOOLEAN]
    BY <1>15, <2>1 DEF Call
  <2> QED BY <1>15, <2>5, <2>6 DEF Call, calls, fini
<1>16. ASSUME NEW c \in Callers, End(c) PROVE Types'
  BY <1>16, <1>0 DEF End, NoPass, PassRecords, table, calls, fini
<1>17. CASE FiniStart
  BY <1>17 DEF FiniStart, table, calls
<1>18. CASE FiniSlot
  <2>1. at \in Slots /\ at' = at + 1 /\ UNCHANGED <<failed, cmd, pass>>
    BY <1>18 DEF FiniSlot
  <2>2. CASE UNCHANGED <<name, id, enabled, entry>>
    BY <2>1, <2>2
  <2>3. CASE Remove(at)
    BY <2>1, <2>3 DEF Remove
  <2> QED BY <2>2, <2>3, <1>18 DEF FiniSlot
<1>19. CASE FiniEnd
  BY <1>19 DEF FiniEnd, calls
<1>20. CASE StopEventThread
  BY <1>20, <1>0 DEF StopEventThread, NoCommand, table, calls
<1>21. CASE UNCHANGED vars
  BY <1>21 DEF vars, table, calls, fini
<1> QED
  BY <1>1, <1>2, <1>3, <1>4, <1>5, <1>6, <1>7, <1>8, <1>9, <1>10, <1>11, <1>12, <1>13,
     <1>14, <1>15, <1>16, <1>17, <1>18, <1>19, <1>20, <1>21
  DEF Next, Load, Change, Process

\* A step that leaves the ids and entry points alone, and does not begin or go on with a
\* load, keeps the table.
LEMMA TableKept ==
  ASSUME TableInv, UNCHANGED <<id, entry>>, Running' => Running,
         cmd' = cmd \/ cmd'.pc \notin {"open", "init", "remove"}
  PROVE  TableIsPrefix' /\ LoadFillsLast' /\ LoadedHasEntry'
BY DEF TableInv, TableIsPrefix, LoadFillsLast, LoadedHasEntry

\* The ids of a prefix are unique, so that the id of a slot leads back to it.
LEMMA IndexOfId ==
  ASSUME Types, TableIsPrefix, Running, NEW s \in Slots, id[s] # 0
  PROVE  Index(id[s]) = s
<1>1. Index(id[s]) \in Slots /\ id[Index(id[s])] = id[s]
  BY IndexFinds DEF Types
<1>2. Slots \in SUBSET Nat /\ \A r \in Slots : id[r] \in Nat
  BY FilterConstants DEF Slots, Types
<1>3. ASSUME NEW r \in Slots, id[r] = id[s] PROVE r = s
  <2>1. ~(r < s) /\ ~(s < r)
    BY <1>2, <1>3 DEF TableIsPrefix
  <2>2. r \in Nat /\ s \in Nat
    BY <1>2
  <2> QED BY <2>1, <2>2
<1> QED BY <1>1, <1>3

\* Every step keeps the table: a load appends, and an undone load takes the last filter.
LEMMA TableNext == TableInv /\ [Next]_vars => TableInv'
<1> SUFFICES ASSUME TableInv, [Next]_vars
             PROVE  Types' /\ TableIsPrefix' /\ LoadFillsLast' /\ LoadedHasEntry'
  BY DEF TableInv
<1> DEFINE Goal == Types' /\ TableIsPrefix' /\ LoadFillsLast' /\ LoadedHasEntry'
<1>0. Types' /\ Types /\ Slots \in SUBSET Nat
  BY TypesNext, FilterConstants DEF TableInv, Slots
<1>1. ASSUME NEW n \in Names, LoadStart(n) PROVE Goal
  <2>1. /\ UNCHANGED <<id, entry, main>>
        /\ cmd' = [pc |-> "open", slot |-> FreeSlot, id |-> NewId]
        /\ id \in [Slots -> Nat] /\ Loaded # Slots
    BY <1>1, <1>0 DEF LoadStart, fini, Types
  <2>2. /\ id[FreeSlot] = 0 /\ NewId # 0
        /\ \A s \in Slots : id[s] < NewId /\ (s < FreeSlot => id[s] # 0)
    BY <2>1, FreeSlotIsFirst, NewIdIsAbove
  <2>3. LoadFillsLast'
    BY <2>1, <2>2 DEF LoadFillsLast
  <2> QED BY <1>0, <2>1, <2>3 DEF TableInv, TableIsPrefix, LoadedHasEntry, Running
<1>2. CASE LoadMissing
  <2>1. /\ UNCHANGED <<id, main>> /\ cmd.pc = "open" /\ cmd'.pc = "idle"
        /\ entry' = [entry EXCEPT ![cmd.slot] = FALSE]
    BY <1>2 DEF LoadMissing, Reply, NoCommand, fini
  <2>2. LoadedHasEntry'
    BY <2>1, <1>0 DEF TableInv, LoadFillsLast, LoadedHasEntry, Running, Types
  <2> QED BY <1>0, <2>1, <2>2 DEF TableInv, TableIsPrefix, LoadFillsLast, Running
<1>3. CASE LoadModule
  <2>1. /\ main' = main /\ cmd.pc = "open" /\ cmd' = [cmd EXCEPT !.pc = "init"]
        /\ entry' = [entry EXCEPT ![cmd.slot] = TRUE]
        /\ id' = [id EXCEPT ![cmd.slot] = cmd.id]
    BY <1>3 DEF LoadModule, fini
  <2> SUFFICES ASSUME Running' PROVE TableIsPrefix' /\ LoadFillsLast' /\ LoadedHasEntry'
    BY <1>0 DEF TableIsPrefix, LoadFillsLast, LoadedHasEntry
  <2>2. /\ cmd.slot \in Slots /\ id[cmd.slot] = 0 /\ cmd.id # 0 /\ Running
        /\ \A s \in Slots : id[s] < cmd.id /\ (s < cmd.slot => id[s] # 0)
    BY <2>1, <1>0 DEF TableInv, LoadFillsLast, Running, Types
  <2>3. \A s, t \in Slots : s < t /\ id[t] # 0 => id[s] # 0 /\ id[s] < id[t]
    BY <2>2 DEF TableInv, TableIsPrefix
  <2>4. \A s \in Slots : id'[s] = (IF s = cmd.slot THEN cmd.id ELSE id[s])
    BY <2>1, <1>0 DEF Types
  <2>5. \A s \in Slots : s > cmd.slot => id[s] = 0
    BY <2>2, <2>3, <1>0
  <2>6. TableIsPrefix'
    <3>1. ASSUME NEW s \in Slots, NEW t \in Slots, s < t, id'[t] # 0
          PROVE  id'[s] # 0 /\ id'[s] < id'[t]
      BY <3>1, <2>2, <2>3, <2>4, <2>5, <1>0
    <3> QED BY <3>1 DEF TableIsPrefix
  <2>7. cmd'.pc = "init" /\ cmd'.slot = cmd.slot /\ cmd'.id = cmd.id
    BY <2>1, <1>0 DEF Types
  <2>8. LoadFillsLast'
    BY <2>2, <2>4, <2>5, <2>7, <1>0 DEF LoadFillsLast
  <2>9. LoadedHasEntry'
    BY <2>1, <2>2, <2>4, <1>0 DEF TableInv, LoadedHasEntry, Types
  <2> QED BY <2>6, <2>8, <2>9
<1>4. CASE LoadInit
  <2>1. /\ UNCHANGED <<id, entry, main>> /\ cmd.pc = "init"
        /\ cmd' = [cmd EXCEPT !.pc = "enable"] \/ cmd' = [cmd EXCEPT !.pc = "remove"]
    BY <1>4 DEF LoadInit, table, fini
  <2>2. cmd'.slot = cmd.slot /\ cmd'.id = cmd.id /\ cmd'.pc \in {"enable", "remove"}
    BY <2>1, <1>0 DEF Types
  <2>3. LoadFillsLast'
    BY <2>1, <2>2 DEF TableInv, LoadFillsLast, Running
  <2> QED BY <1>0, <2>1, <2>3 DEF TableInv, TableIsPrefix, LoadedHasEntry, Running
<1>5. CASE LoadRemove
  <2>1. main' = main /\ cmd.pc = "remove" /\ cmd' = [cmd EXCEPT !.pc = "enable"]
    BY <1>5 DEF LoadRemove, fini
  <2>2. cmd'.pc = "enable"
    BY <2>1, <1>0 DEF Types
  <2> SUFFICES ASSUME Running' PROVE TableIsPrefix' /\ LoadFillsLast' /\ LoadedHasEntry'
    BY <1>0 DEF TableIsPrefix, LoadFillsLast, LoadedHasEntry
  <2>3. /\ cmd.slot \in Slots /\ id[cmd.slot] = cmd.id /\ cmd.id # 0 /\ Running
        /\ \A s \in Slots : s > cmd.slot => id[s] = 0
    BY <2>1, <1>0 DEF TableInv, LoadFillsLast, Running, Types
  <2>4. CASE UNCHANGED <<name, id, enabled, entry, open, inited>>
    BY <2>2, <2>3, <2>4, TableKept
  <2>5. CASE Remove(Index(cmd.id))
    <3>1. Remove(cmd.slot)
      BY <2>3, <2>5, <1>0, IndexOfId DEF TableInv
    <3>2. \A s \in Slots : /\ id'[s] = (IF s = cmd.slot THEN 0 ELSE id[s])
                           /\ s # cmd.slot => entry'[s] = entry[s]
      BY <3>1, <1>0 DEF Remove, Types
    <3>3. TableIsPrefix'
      <4>1. ASSUME NEW s \in Slots, NEW t \in Slots, s < t, id'[t] # 0
            PROVE  id'[s] # 0 /\ id'[s] < id'[t]
        <5>1. t # cmd.slot /\ id[t] # 0 /\ ~(t > cmd.slot)
          BY <4>1, <3>2, <2>3
        <5>2. s # cmd.slot
          BY <4>1, <5>1
        <5> QED BY <4>1, <5>1, <5>2, <3>2, <2>3 DEF TableInv, TableIsPrefix
      <4> QED BY <4>1 DEF TableIsPrefix
    <3>4. LoadedHasEntry'
      BY <3>2, <2>3 DEF TableInv, LoadedHasEntry
    <3> QED BY <3>3, <3>4, <2>2 DEF LoadFillsLast
  <2> QED BY <2>4, <2>5, <1>5 DEF LoadRemove
<1>6. CASE LoadEnable
  BY <1>6, <1>0, TableKept DEF LoadEnable, Reply, NoCommand, Running, fini
<1>7. ASSUME NEW n \in Names, Enable(n) \/ Disable(n) \/ ConfigClose(n) PROVE Goal
  BY <1>7, <1>0, TableKept
  DEF Enable, Disable, ConfigClose, Reply, NoCommand, Running, table, fini
<1>8. CASE ConfigInit
  BY <1>8, <1>0, TableKept DEF ConfigInit, Reply, NoCommand, Running, fini
<1>9. CASE Crash
  BY <1>9, <1>0, TableKept DEF Crash, NoCommand, Running, table
<1>10. ASSUME NEW c \in Callers, Process(c) PROVE Goal
  BY <1>10, <1>0, TableKept
  DEF Process, Begin, ScanId, ScanEnabled, Call, End, Running, table, fini
<1>11. CASE FiniStart \/ StopEventThread
  BY <1>11, <1>0, TableKept DEF FiniStart, StopEventThread, NoCommand, Running, table
<1>12. CASE FiniSlot \/ FiniEnd
  BY <1>12, <1>0
  DEF FiniSlot, FiniEnd, Running, TableIsPrefix, LoadFillsLast, LoadedHasEntry
<1>13. CASE UNCHANGED vars
  BY <1>13, <1>0, TableKept DEF vars, table, fini, Running
<1> QED
  BY <1>1, <1>2, <1>3, <1>4, <1>5, <1>6, <1>7, <1>8, <1>9, <1>10, <1>11, <1>12, <1>13
  DEF Next, Load, Change

\* For every size of the table and however loads fail and repeat: the loaded filters are a
\* prefix of the table in the order of their ids, so that an id names one filter and the
\* next id is new (tc_filter_add, tc_filter_remove).
THEOREM TableSafe == Spec => []TableIsPrefix
<1>1. TableInv => TableIsPrefix
  BY DEF TableInv
<1> QED BY <1>1, TableInit, TableNext, PTL DEF Spec

\* tc_filter_init comes before the program runs, and tc_filter_fini ends it before.
InitializedWhileRunning == Running => initialized

LEMMA InitializedNext ==
  InitializedWhileRunning /\ [Next]_vars => InitializedWhileRunning'
<1> SUFFICES ASSUME InitializedWhileRunning, [Next]_vars, Running'
             PROVE  Running /\ initialized' = initialized
  BY DEF InitializedWhileRunning
<1> USE DEF Running, table, calls, fini
<1>1. CASE Load
  BY <1>1 DEF Load, LoadStart, LoadMissing, LoadModule, LoadInit, LoadRemove, LoadEnable
<1>2. CASE Change
  BY <1>2 DEF Change, Enable, Disable, ConfigClose, ConfigInit, Crash
<1>3. CASE \E c \in Callers : Process(c)
  BY <1>3 DEF Process, Begin, ScanId, ScanEnabled, Call, End
<1>4. CASE FiniStart \/ FiniSlot \/ FiniEnd \/ StopEventThread
  BY <1>4 DEF FiniStart, FiniSlot, FiniEnd, StopEventThread
<1>5. CASE UNCHANGED vars
  BY <1>5 DEF vars
<1> QED BY <1>1, <1>2, <1>3, <1>4, <1>5 DEF Next

\* The name of a loaded filter leads to a filter, although loads that failed leave their
\* names behind: those are in slots behind the prefix, and tc_filter_find goes from the first.
THEOREM LoadedFound == Spec => []FindsLoaded
<1>1. ASSUME TableInv, InitializedWhileRunning PROVE FindsLoaded
  <2> SUFFICES ASSUME Running, NEW s \in Loaded PROVE Find(name[s]) # 0
    BY DEF FindsLoaded
  <2> DEFINE Named == {r \in Slots : name[r] = name[s]}
  <2>1. Named \in SUBSET Nat /\ s \in Named /\ s \in Nat
    BY FilterConstants DEF Slots, Loaded
  <2>2. Min(Named) \in Named /\ Min(Named) <= s
    <3> HIDE DEF Named
    <3> QED BY <2>1, MinOfNaturals
  <2>3. Min(Named) \in Slots /\ Min(Named) \in Nat
    BY <2>1, <2>2
  <2>4. id[Min(Named)] # 0
    <3> HIDE DEF Named
    <3>1. CASE Min(Named) = s
      BY <3>1 DEF Loaded
    <3>2. CASE Min(Named) < s
      BY <3>2, <2>3, <1>1 DEF TableInv, TableIsPrefix, Loaded
    <3> QED BY <2>1, <2>2, <2>3, <3>1, <3>2
  <2>5. Find(name[s]) = id[Min(Named)]
    BY <1>1, <2>1 DEF Find, InitializedWhileRunning, Loaded
  <2> QED BY <2>4, <2>5
<1>2. Init => InitializedWhileRunning
  BY DEF Init, InitializedWhileRunning
<1> QED BY <1>1, <1>2, TableInit, TableNext, InitializedNext, PTL DEF Spec

-----------------------------------------------------------------------------
(* The frames.  All of it is about the time before a load fails. *)

Quiet == Running /\ ~failed

\* Frames pass only while the main thread waits for them, and then no command crashes.
PassesWhileRunning ==
  /\ ~Running => \A c \in Callers : pass[c].pc = "idle"
  /\ Running /\ cmd.pc = "config" => id[cmd.slot] # 0

\* An enabled filter is loaded and initialized; the filter that is being loaded is not
\* enabled, and no load has to be undone.
EnabledInited ==
  Quiet =>
    /\ cmd.pc # "remove"
    /\ cmd.pc = "enable" => cmd.slot \in inited /\ id[cmd.slot] # 0
    /\ cmd.pc = "open" => ~enabled[cmd.slot]
    /\ \A s \in Slots :
         /\ id[s] # 0 => s \in inited \/ (cmd.pc = "init" /\ s = cmd.slot)
         /\ enabled[s] => id[s] # 0 /\ s \in inited

\* Where the search of a frame thread is.  A filter that is owed to the frame has been
\* called, or the search has still to find it: it is enabled, and it is not behind the
\* search, unless what the search has found so far has a lower id.
StillToCall(c, x) ==
  \E s \in Slots :
    id[s] = x /\ enabled[s]
      /\ (s >= pass[c].i \/ (pass[c].best # MaxFilters /\ id[pass[c].best] <= x))

SearchInv(c) ==
  Quiet /\ pass[c].pc = "scan" =>
    /\ pass[c].best # MaxFilters =>
         pass[c].best \in inited /\ id[pass[c].best] > pass[c].last
    /\ pass[c].above => pass[c].i # MaxFilters /\ id[pass[c].i] > pass[c].last
    /\ \A x \in pass[c].owed :
         IF x <= pass[c].last THEN x \in pass[c].seen ELSE StillToCall(c, x)

FrameInv ==
  TableInv /\ PassesWhileRunning /\ EnabledInited /\ \A c \in Callers : SearchInv(c)

\* At the start no frame passes and no filter is loaded.
LEMMA FrameInit == Init => FrameInv
<1> SUFFICES ASSUME Init PROVE FrameInv
  OBVIOUS
<1>1. TableInv
  BY TableInit
<1>2. \A c \in Callers : pass[c].pc = "idle"
  BY DEF Init, NoPass
<1> QED
  BY <1>1, <1>2
  DEF Init, FrameInv, PassesWhileRunning, EnabledInited, SearchInv, NoCommand, Running

\* Disabling a filter changes only what is owed to a frame.
LEMMA OwedFalls ==
  ASSUME Types, NEW s, Owe(s), NEW c \in Callers
  PROVE  /\ pass'[c].owed = pass[c].owed \ {id[s]}
         /\ pass'[c].pc = pass[c].pc /\ pass'[c].last = pass[c].last
         /\ pass'[c].best = pass[c].best /\ pass'[c].i = pass[c].i
         /\ pass'[c].above = pass[c].above /\ pass'[c].seen = pass[c].seen
<1>1. pass[c] \in PassRecords
  BY DEF Types
<1>2. pass'[c] = [pass[c] EXCEPT !.owed = pass[c].owed \ {id[s]}]
  BY DEF Owe
<1> QED BY <1>1, <1>2 DEF PassRecords

\* Frames pass only while the main thread runs, in which no command crashes.
LEMMA PassesNext ==
  TableInv /\ PassesWhileRunning /\ [Next]_vars => PassesWhileRunning'
<1> SUFFICES ASSUME TableInv, PassesWhileRunning, [Next]_vars PROVE PassesWhileRunning'
  OBVIOUS
<1> USE DEF PassesWhileRunning
<1>0. Types
  BY DEF TableInv
<1>1. CASE Load
  <2>1. UNCHANGED <<main, pass>> /\ cmd'.pc # "config"
    BY <1>1, <1>0
    DEF Load, LoadStart, LoadMissing, LoadModule, LoadInit, LoadRemove, LoadEnable, Reply,
        NoCommand, fini, Types
  <2> QED BY <2>1 DEF Running
<1>2. ASSUME NEW n \in Names, Enable(n) PROVE PassesWhileRunning'
  BY <1>2 DEF Enable, Reply, NoCommand, Running, fini
<1>3. ASSUME NEW n \in Names, Disable(n) PROVE PassesWhileRunning'
  BY <1>3, <1>0, OwedFalls DEF Disable, Reply, NoCommand, Running, fini
<1>4. ASSUME NEW n \in Names, ConfigClose(n) PROVE PassesWhileRunning'
  <2>1. id[Index(Find(n))] # 0
    BY <1>4, <1>0, FindFinds DEF ConfigClose, Types
  <2> QED BY <1>4, <2>1 DEF ConfigClose, Running, table, fini
<1>5. CASE ConfigInit
  <2>1. main' = main /\ cmd'.pc = "idle"
    BY <1>5 DEF ConfigInit, Reply, NoCommand, fini
  <2>2. \A c \in Callers : pass'[c].pc = pass[c].pc
    BY <1>5, <1>0, OwedFalls DEF ConfigInit
  <2> QED BY <2>1, <2>2 DEF Running
<1>6. CASE Crash
  <2>1. ~Running
    BY <1>6, <1>0 DEF Crash, TableInv, LoadFillsLast, LoadedHasEntry, Types, Running
  <2> QED BY <1>6, <2>1 DEF Crash, Running
<1>7. ASSUME NEW c \in Callers, Process(c) PROVE PassesWhileRunning'
  <2>1. Running /\ UNCHANGED <<main, cmd, id>>
    BY <1>7, <1>0
    DEF Process, Begin, ScanId, ScanEnabled, Searched, Call, End, table, fini, Running,
        Types, PassRecords
  <2> QED BY <2>1 DEF Running
<1>8. CASE FiniStart
  BY <1>8 DEF FiniStart, Running
<1>9. CASE FiniSlot \/ FiniEnd
  BY <1>9 DEF FiniSlot, FiniEnd, Running
<1>10. CASE StopEventThread
  BY <1>10 DEF StopEventThread, Running
<1>11. CASE UNCHANGED vars
  BY <1>11 DEF vars, table, fini, Running
<1> QED
  BY <1>1, <1>2, <1>3, <1>4, <1>5, <1>6, <1>7, <1>8, <1>9, <1>10, <1>11 DEF Next, Change

\* Before a quiet state every state was quiet.
LEMMA QuietBefore == [Next]_vars /\ Types /\ Quiet' => Quiet
<1> SUFFICES ASSUME [Next]_vars, Types, main' = "run", ~failed'
             PROVE  main = "run" /\ ~failed
  BY DEF Quiet, Running
<1>1. CASE Load
  BY <1>1 DEF Load, LoadStart, LoadMissing, LoadModule, LoadInit, LoadRemove, LoadEnable,
              calls, fini
<1>2. CASE Change
  BY <1>2 DEF Change, Enable, Disable, ConfigClose, ConfigInit, Crash, calls, fini
<1>3. CASE \E c \in Callers : Process(c)
  BY <1>3 DEF Process, Begin, ScanId, ScanEnabled, Call, End, calls, fini
<1>4. CASE FiniStart \/ FiniSlot \/ FiniEnd \/ StopEventThread
  BY <1>4 DEF FiniStart, FiniSlot, FiniEnd, StopEventThread
<1>5. CASE UNCHANGED vars
  BY <1>5 DEF vars, calls, fini
<1> QED BY <1>1, <1>2, <1>3, <1>4, <1>5 DEF Next

\* Every step keeps enabled filters loaded and initialized.
LEMMA EnabledNext ==
  TableInv /\ PassesWhileRunning /\ EnabledInited /\ [Next]_vars => EnabledInited'
<1> SUFFICES ASSUME TableInv, PassesWhileRunning, EnabledInited, [Next]_vars, Quiet'
             PROVE  EnabledInited'
  BY DEF EnabledInited
<1> USE DEF EnabledInited
<1>0. Types /\ Quiet /\ Running /\ Slots \in SUBSET Nat
  BY QuietBefore, FilterConstants DEF TableInv, Quiet, Slots
<1>00. /\ cmd.slot \in Slots /\ id \in [Slots -> Nat]
       /\ enabled \in [Slots -> BOOLEAN] /\ entry \in [Slots -> BOOLEAN]
  BY <1>0 DEF Types
<1>1. ASSUME NEW n \in Names, LoadStart(n) PROVE EnabledInited'
  <2>1. /\ cmd.pc = "idle" /\ cmd'.pc = "open" /\ cmd'.slot = FreeSlot /\ id' = id
        /\ enabled' = [enabled EXCEPT ![FreeSlot] = FALSE]
        /\ inited' = inited \ {FreeSlot} /\ Loaded # Slots
    BY <1>1 DEF LoadStart, Socket
  <2>2. FreeSlot \in Slots /\ id[FreeSlot] = 0
    BY <1>00, <2>1, FreeSlotIsFirst
  <2> QED BY <1>0, <1>00, <2>1, <2>2
<1>2. CASE LoadMissing
  BY <1>2, <1>0 DEF LoadMissing, Reply, NoCommand, calls
<1>3. CASE LoadModule
  <2>1. /\ cmd.pc = "open" /\ cmd' = [cmd EXCEPT !.pc = "init"]
        /\ id' = [id EXCEPT ![cmd.slot] = cmd.id] /\ UNCHANGED <<enabled, inited>>
    BY <1>3 DEF LoadModule, calls
  <2>2. cmd'.pc = "init" /\ cmd'.slot = cmd.slot
    BY <2>1, <1>0 DEF Types
  <2>3. ~enabled[cmd.slot]
    BY <2>1, <1>0
  <2> QED BY <1>0, <1>00, <2>1, <2>2, <2>3
<1>4. CASE LoadInit
  <2>1. /\ cmd.pc = "init" /\ cmd' = [cmd EXCEPT !.pc = "enable"]
        /\ inited' = inited \cup {cmd.slot} /\ UNCHANGED <<id, enabled>>
    BY <1>4 DEF LoadInit, table, Quiet
  <2>2. cmd'.pc = "enable" /\ cmd'.slot = cmd.slot
    BY <2>1, <1>0 DEF Types
  <2>3. id[cmd.slot] # 0
    BY <1>0, <2>1 DEF TableInv, LoadFillsLast
  <2> QED BY <1>0, <1>00, <2>1, <2>2, <2>3
<1>5. CASE LoadRemove
  BY <1>5, <1>0 DEF LoadRemove
<1>6. CASE LoadEnable
  <2>1. /\ cmd.pc = "enable" /\ cmd'.pc = "idle" /\ UNCHANGED <<id, inited>>
        /\ enabled' = [enabled EXCEPT ![cmd.slot] = TRUE]
    BY <1>6 DEF LoadEnable, Reply, NoCommand, calls
  <2> QED BY <1>0, <1>00, <2>1
<1>7. ASSUME NEW n \in Names, Enable(n) PROVE EnabledInited'
  <2>1. Find(n) # 0 /\ cmd.pc = "idle" /\ cmd'.pc = "idle" /\ UNCHANGED <<id, inited>>
    BY <1>7 DEF Enable, Socket, Reply, NoCommand, calls
  <2>2. PICK t \in Slots : id[t] # 0 /\ enabled' = [enabled EXCEPT ![t] = TRUE]
    BY <1>7, <1>00, <2>1, FindFinds DEF Enable
  <2> QED BY <1>0, <1>00, <2>1, <2>2
<1>8. ASSUME NEW n \in Names, Disable(n) PROVE EnabledInited'
  <2>1. Find(n) # 0 /\ cmd.pc = "idle" /\ cmd'.pc = "idle" /\ UNCHANGED <<id, inited>>
    BY <1>8 DEF Disable, Socket, Reply, NoCommand, calls
  <2>2. PICK t \in Slots : enabled' = [enabled EXCEPT ![t] = FALSE]
    BY <1>8, <1>00, <2>1, FindFinds DEF Disable
  <2> QED BY <1>0, <1>00, <2>1, <2>2
<1>9. ASSUME NEW n \in Names, ConfigClose(n) PROVE EnabledInited'
  BY <1>9, <1>0 DEF ConfigClose, Socket, table
<1>10. CASE ConfigInit
  <2>1. /\ cmd.pc = "config" /\ cmd'.pc = "idle" /\ UNCHANGED <<id, inited>>
        /\ enabled' = enabled \/ enabled' = [enabled EXCEPT ![cmd.slot] = FALSE]
    BY <1>10 DEF ConfigInit, Reply, NoCommand
  <2> QED BY <1>0, <1>00, <2>1
<1>11. CASE Crash
  BY <1>11, <1>0 DEF Crash, Quiet, Running
<1>12. ASSUME NEW c \in Callers, Call(c) PROVE EnabledInited'
  <2>1. /\ UNCHANGED <<id, inited, cmd>>
        /\ \A s \in Slots : enabled'[s] = TRUE => enabled[s] = TRUE
    BY <1>12, <1>00 DEF Call, calls
  <2>2. enabled' \in [Slots -> BOOLEAN]
    BY <1>12, <1>00 DEF Call
  <2>3. \A s \in Slots : enabled'[s] => enabled[s]
    BY <2>1, <2>2, <1>00
  <2>4. cmd.pc = "open" => ~enabled'[cmd.slot]
    BY <2>3, <1>0, <1>00
  <2> QED BY <1>0, <2>1, <2>3, <2>4
<1>13. ASSUME NEW c \in Callers, Begin(c) \/ ScanId(c) \/ ScanEnabled(c) \/ End(c)
       PROVE  EnabledInited'
  BY <1>13, <1>0 DEF Begin, ScanId, ScanEnabled, End, table, calls
<1>14. CASE FiniStart \/ FiniSlot \/ FiniEnd \/ StopEventThread
  BY <1>14, <1>0 DEF FiniStart, FiniSlot, FiniEnd, StopEventThread, Quiet, Running
<1>15. CASE UNCHANGED vars
  BY <1>15, <1>0 DEF vars, table, calls
<1> QED
  BY <1>1, <1>2, <1>3, <1>4, <1>5, <1>6, <1>7, <1>8, <1>9, <1>10, <1>11, <1>12, <1>13,
     <1>14, <1>15
  DEF Next, Load, Change, Process

\* A step of another thread keeps a search if it changes no id that is in use, does not
\* take back INIT from a filter in use, and disables no filter that is still owed.
LEMMA SearchKept ==
  ASSUME Types, Quiet, NEW c \in Callers, SearchInv(c),
         /\ pass'[c].pc = pass[c].pc /\ pass'[c].last = pass[c].last
         /\ pass'[c].best = pass[c].best /\ pass'[c].i = pass[c].i
         /\ pass'[c].above = pass[c].above /\ pass'[c].seen = pass[c].seen
         /\ pass'[c].owed \in SUBSET pass[c].owed,
         \A s \in Slots : id[s] # 0 =>
           /\ id'[s] = id[s]
           /\ s \in inited => s \in inited'
           /\ enabled[s] /\ id[s] \in pass'[c].owed => enabled'[s]
  PROVE  SearchInv(c)'
<1> SUFFICES ASSUME pass[c].pc = "scan" PROVE SearchInv(c)'
  BY DEF SearchInv
<1>1. /\ pass[c].last \in Nat /\ pass[c].i \in 0 .. MaxFilters
      /\ pass[c].best \in 0 .. MaxFilters /\ pass[c].owed \in SUBSET Nat
  BY DEF Types, PassRecords
<1>2. \A k \in 0 .. MaxFilters : k # MaxFilters => k \in Slots
  BY FilterConstants DEF Slots
<1>3. \A s \in Slots : id[s] \in Nat
  BY DEF Types
<1>4. ASSUME pass[c].best # MaxFilters
      PROVE  /\ pass[c].best \in inited' /\ id[pass[c].best] > pass[c].last
             /\ id'[pass[c].best] = id[pass[c].best]
  <2>1. pass[c].best \in inited /\ id[pass[c].best] > pass[c].last
    BY <1>4 DEF SearchInv
  <2>2. pass[c].best \in Slots /\ id[pass[c].best] # 0
    BY <2>1, <1>1, <1>2, <1>3, <1>4
  <2> QED BY <2>1, <2>2
<1>5. ASSUME pass[c].above
      PROVE  pass[c].i # MaxFilters /\ id'[pass[c].i] > pass[c].last
  <2>1. pass[c].i # MaxFilters /\ id[pass[c].i] > pass[c].last
    BY <1>5 DEF SearchInv
  <2>2. pass[c].i \in Slots /\ id[pass[c].i] # 0
    BY <2>1, <1>1, <1>2, <1>3
  <2> QED BY <2>1, <2>2
<1>6. ASSUME NEW x \in pass'[c].owed, ~(x <= pass[c].last) PROVE StillToCall(c, x)'
  <2>1. PICK s \in Slots :
          /\ id[s] = x /\ enabled[s]
          /\ s >= pass[c].i \/ (pass[c].best # MaxFilters /\ id[pass[c].best] <= x)
    BY <1>6 DEF SearchInv, StillToCall
  <2>2. id[s] # 0
    BY <2>1, <1>1, <1>3, <1>6
  <2>3. id'[s] = x /\ enabled'[s]
    BY <2>1, <2>2
  <2> QED BY <2>1, <2>3, <1>4 DEF StillToCall
<1>7. \A x \in pass'[c].owed : x <= pass[c].last => x \in pass[c].seen
  BY DEF SearchInv
<1> QED BY <1>4, <1>5, <1>6, <1>7 DEF SearchInv

\* A call disables no filter: the filter it found is loaded and has its entry point.
LEMMA CallKeepsEnabled ==
  ASSUME TableInv, Quiet, NEW c \in Callers, SearchInv(c), Call(c)
  PROVE  /\ pass[c].best \in Slots /\ entry[pass[c].best] /\ enabled' = enabled
         /\ id[pass[c].best] > pass[c].last
<1>1. pass[c].pc = "scan" /\ pass[c].best # MaxFilters
  BY DEF Call, Searched
<1>2. pass[c].best \in Slots /\ pass[c].last \in Nat /\ id[pass[c].best] \in Nat
  BY <1>1, FilterConstants DEF TableInv, Types, PassRecords, Slots
<1>3. id[pass[c].best] > pass[c].last
  BY <1>1 DEF SearchInv
<1>4. id[pass[c].best] # 0
  BY <1>2, <1>3
<1>5. entry[pass[c].best]
  BY <1>2, <1>4 DEF TableInv, LoadedHasEntry, Quiet
<1>6. enabled' = [enabled EXCEPT ![pass[c].best] = enabled[pass[c].best]]
  BY <1>5 DEF Call, TableInv, Types
<1>7. enabled' = enabled
  BY <1>2, <1>6 DEF TableInv, Types
<1> QED BY <1>2, <1>3, <1>5, <1>7

\* The steps of the search itself.
LEMMA OwnSearch ==
  ASSUME TableInv, EnabledInited, Quiet, NEW c \in Callers, SearchInv(c), Process(c)
  PROVE  SearchInv(c)'
<1>0. /\ Types /\ Slots \in SUBSET Nat /\ Quiet /\ MaxFilters \in Nat \ {0}
      /\ \A k \in 0 .. MaxFilters : k # MaxFilters => k \in Slots
  BY FilterConstants DEF TableInv, Slots
<1>1. /\ pass \in [Callers -> PassRecords] /\ pass[c] \in PassRecords
      /\ \A s \in Slots : id[s] \in Nat
  BY <1>0 DEF Types
<1>2. /\ pass[c].last \in Nat /\ pass[c].i \in 0 .. MaxFilters
      /\ pass[c].best \in 0 .. MaxFilters /\ pass[c].owed \in SUBSET Nat
      /\ pass[c].seen \in SUBSET Nat /\ pass[c].above \in BOOLEAN
  BY <1>1 DEF PassRecords
<1>3. CASE Begin(c)
  <2> DEFINE O == {id[s] : s \in {s \in Loaded : enabled[s]}}
  <2>1. UNCHANGED <<id, enabled>>
    BY <1>3 DEF Begin, table
  <2>2. pass'[c] = [NoPass EXCEPT !.pc = "scan", !.owed = O]
    BY <1>1, <1>3 DEF Begin
  <2>3. \A x \in O : x # 0 /\ x \in Nat /\ \E s \in Slots : id[s] = x /\ enabled[s]
    BY <1>1 DEF Loaded
  <2> HIDE DEF O
  <2>4. /\ pass'[c].best = MaxFilters /\ pass'[c].above = FALSE /\ pass'[c].last = 0
        /\ pass'[c].i = 0 /\ pass'[c].owed = O
    BY <2>2 DEF NoPass
  <2>5. ASSUME NEW x \in O PROVE ~(x <= 0) /\ StillToCall(c, x)'
    <3>1. PICK s \in Slots : id[s] = x /\ enabled[s]
      BY <2>3
    <3>2. id'[s] = x /\ enabled'[s] /\ s >= pass'[c].i
      BY <2>1, <2>4, <3>1, <1>0
    <3>3. ~(x <= 0)
      BY <2>3
    <3> QED BY <3>2, <3>3 DEF StillToCall
  <2> QED BY <2>4, <2>5 DEF SearchInv
<1>4. CASE ScanId(c)
  <2>1. /\ UNCHANGED <<id, enabled, inited>> /\ pass[c].pc = "scan"
        /\ pass[c].i < MaxFilters /\ pass[c].i # MaxFilters /\ ~pass[c].above
    BY <1>4, <1>2, <1>0 DEF ScanId, table, calls
  <2>2. CASE id[pass[c].i] > pass[c].last
    <3>1. /\ pass'[c].best = pass[c].best /\ pass'[c].above /\ pass'[c].last = pass[c].last
          /\ pass'[c].i = pass[c].i /\ pass'[c].owed = pass[c].owed
          /\ pass'[c].seen = pass[c].seen
      BY <1>1, <1>4, <2>2 DEF ScanId, PassRecords
    <3>2. \A x : StillToCall(c, x) => StillToCall(c, x)'
      BY <3>1, <2>1 DEF StillToCall
    <3> QED BY <2>1, <2>2, <3>1, <3>2 DEF SearchInv
  <2>3. CASE ~(id[pass[c].i] > pass[c].last)
    <3>1. /\ pass'[c].best = pass[c].best /\ ~pass'[c].above /\ pass'[c].last = pass[c].last
          /\ pass'[c].i = pass[c].i + 1 /\ pass'[c].owed = pass[c].owed
          /\ pass'[c].seen = pass[c].seen
      BY <1>1, <1>4, <2>1, <2>3 DEF ScanId, PassRecords
    <3>2. ASSUME NEW x \in pass[c].owed, ~(x <= pass[c].last) PROVE StillToCall(c, x)'
      <4>1. PICK s \in Slots :
              /\ id[s] = x /\ enabled[s]
              /\ s >= pass[c].i \/ (pass[c].best # MaxFilters /\ id[pass[c].best] <= x)
        BY <3>2, <1>0, <2>1 DEF SearchInv, StillToCall
      <4>2. s # pass[c].i
        BY <4>1, <3>2, <2>3, <1>1, <1>2
      <4>3. s >= pass[c].i => s >= pass[c].i + 1
        BY <4>2, <1>0, <1>2
      <4> QED BY <4>1, <4>3, <3>1, <2>1 DEF StillToCall
    <3> QED BY <1>0, <2>1, <3>1, <3>2 DEF SearchInv
  <2> QED BY <2>2, <2>3
<1>5. CASE ScanEnabled(c)
  <2>1. UNCHANGED <<id, enabled, inited>> /\ pass[c].above
    BY <1>5 DEF ScanEnabled, table, calls
  <2> DEFINE B == IF Candidate(c, pass[c].i) THEN pass[c].i ELSE pass[c].best
  <2>2. /\ pass'[c].best = B /\ ~pass'[c].above /\ pass'[c].last = pass[c].last
        /\ pass'[c].i = pass[c].i + 1 /\ pass'[c].owed = pass[c].owed
        /\ pass'[c].seen = pass[c].seen /\ pass'[c].pc = pass[c].pc
    BY <1>1, <1>5 DEF ScanEnabled, PassRecords
  <2> SUFFICES ASSUME pass[c].pc = "scan" PROVE SearchInv(c)'
    BY <2>2 DEF SearchInv
  <2>3. pass[c].i \in Slots /\ id[pass[c].i] > pass[c].last
    BY <1>0, <1>2, <2>1 DEF SearchInv
  <2>4. Candidate(c, pass[c].i) => pass[c].i \in inited
    BY <1>0, <2>3 DEF Candidate, EnabledInited
  <2>5. pass[c].best # MaxFilters
          => pass[c].best \in inited /\ id[pass[c].best] > pass[c].last
    BY <1>0 DEF SearchInv
  <2>6. pass'[c].best # MaxFilters
          => pass'[c].best \in inited' /\ id'[pass'[c].best] > pass'[c].last
    BY <2>1, <2>2, <2>3, <2>4, <2>5
  <2>7. ASSUME NEW x \in pass[c].owed, ~(x <= pass[c].last) PROVE StillToCall(c, x)'
    <3>1. PICK s \in Slots :
            /\ id[s] = x /\ enabled[s]
            /\ s >= pass[c].i \/ (pass[c].best # MaxFilters /\ id[pass[c].best] <= x)
      BY <2>7, <1>0 DEF SearchInv, StillToCall
    <3>2. /\ x \in Nat /\ pass[c].i # MaxFilters
          /\ pass[c].best # MaxFilters => pass[c].best \in Slots
      BY <1>0, <1>2, <2>1 DEF SearchInv
    <3>3. CASE s >= pass[c].i + 1
      BY <3>1, <3>3, <2>1, <2>2 DEF StillToCall
    <3>4. CASE Candidate(c, pass[c].i) /\ ~(s >= pass[c].i + 1)
      <4>1. id[pass[c].i] <= x
        <5>1. CASE s >= pass[c].i
          <6>1. s = pass[c].i
            BY <3>4, <5>1, <1>0, <1>2
          <6> QED BY <6>1, <3>1, <3>2
        <5>2. CASE pass[c].best # MaxFilters /\ id[pass[c].best] <= x
          <6>1. id[pass[c].i] < id[pass[c].best]
            BY <3>4, <5>2 DEF Candidate
          <6> QED BY <6>1, <5>2, <3>2, <2>3, <1>1
        <5> QED BY <5>1, <5>2, <3>1
      <4> QED BY <4>1, <3>1, <3>2, <3>4, <2>1, <2>2 DEF StillToCall
    <3>5. CASE ~Candidate(c, pass[c].i) /\ ~(s >= pass[c].i + 1)
      <4>1. pass[c].best # MaxFilters /\ id[pass[c].best] <= x
        <5>1. CASE s >= pass[c].i
          <6>1. s = pass[c].i
            BY <3>5, <5>1, <1>0, <1>2
          <6>2. pass[c].best # MaxFilters /\ ~(x < id[pass[c].best])
            BY <6>1, <3>1, <3>5 DEF Candidate
          <6> QED BY <6>2, <3>2, <1>1
        <5>2. CASE pass[c].best # MaxFilters /\ id[pass[c].best] <= x
          BY <5>2
        <5> QED BY <5>1, <5>2, <3>1
      <4> QED BY <4>1, <3>1, <3>5, <2>1, <2>2 DEF StillToCall
    <3> QED BY <3>3, <3>4, <3>5
  <2>8. \A x \in pass[c].owed : x <= pass[c].last => x \in pass[c].seen
    BY <1>0 DEF SearchInv
  <2> QED BY <2>2, <2>6, <2>7, <2>8 DEF SearchInv
<1>6. CASE Call(c)
  <2>1. /\ pass[c].best \in Slots /\ entry[pass[c].best] /\ enabled' = enabled
        /\ id[pass[c].best] > pass[c].last
    BY <1>0, <1>6, CallKeepsEnabled
  <2>2. id' = id /\ pass[c].pc = "scan" /\ pass[c].i = MaxFilters
    BY <1>6 DEF Call, Searched
  <2>3. /\ pass'[c].best = MaxFilters /\ pass'[c].above = pass[c].above
        /\ pass'[c].last = id[pass[c].best] /\ pass'[c].i = 0
        /\ pass'[c].owed = pass[c].owed
        /\ pass'[c].seen = pass[c].seen \cup {id[pass[c].best]}
    BY <1>1, <1>6, <2>1 DEF Call, PassRecords
  <2>4. ~pass[c].above
    BY <1>0, <2>2 DEF SearchInv
  <2>5. ASSUME NEW x \in pass[c].owed
        PROVE  IF x <= pass'[c].last THEN x \in pass'[c].seen ELSE StillToCall(c, x)'
    <3>1. x \in Nat /\ id[pass[c].best] \in Nat
      BY <1>1, <1>2, <2>1
    <3>2. CASE x <= pass[c].last
      <4>1. x \in pass[c].seen
        BY <3>2, <1>0, <2>2 DEF SearchInv
      <4>2. x <= pass'[c].last
        BY <3>1, <3>2, <2>1, <2>3, <1>2
      <4> QED BY <4>1, <4>2, <2>3
    <3>3. CASE ~(x <= pass[c].last)
      <4>1. PICK s \in Slots :
              /\ id[s] = x /\ enabled[s]
              /\ s >= pass[c].i \/ (pass[c].best # MaxFilters /\ id[pass[c].best] <= x)
        BY <3>3, <1>0, <2>2 DEF SearchInv, StillToCall
      <4>2. id[pass[c].best] <= x
        BY <4>1, <2>2, <1>0 DEF Slots
      <4>3. CASE x = id[pass[c].best]
        BY <4>3, <2>3, <3>1
      <4>4. CASE x # id[pass[c].best]
        <5>1. ~(x <= pass'[c].last)
          BY <4>2, <4>4, <2>3, <3>1
        <5>2. s >= pass'[c].i
          BY <2>3, <1>0
        <5> QED BY <5>1, <5>2, <4>1, <2>1, <2>2 DEF StillToCall
      <4> QED BY <4>3, <4>4
    <3> QED BY <3>2, <3>3
  <2> QED BY <2>3, <2>4, <2>5 DEF SearchInv
<1>7. CASE End(c)
  <2>1. pass'[c].pc = "idle"
    BY <1>1, <1>7 DEF End, NoPass
  <2> QED BY <2>1 DEF SearchInv
<1> QED BY <1>3, <1>4, <1>5, <1>6, <1>7 DEF Process

\* Every step keeps every search.
LEMMA SearchNext ==
  /\ TableInv /\ PassesWhileRunning /\ EnabledInited /\ (\A c \in Callers : SearchInv(c))
  /\ [Next]_vars
  => \A c \in Callers : SearchInv(c)'
<1> SUFFICES ASSUME TableInv, PassesWhileRunning, EnabledInited, [Next]_vars, Quiet',
                    \A d \in Callers : SearchInv(d), NEW c \in Callers
             PROVE  SearchInv(c)'
  BY DEF SearchInv
<1>0. Types /\ Types' /\ Quiet /\ Running /\ Slots \in SUBSET Nat /\ SearchInv(c)
  BY QuietBefore, TypesNext, FilterConstants DEF TableInv, Quiet, Slots
<1>00. /\ cmd.slot \in Slots /\ id \in [Slots -> Nat]
       /\ enabled \in [Slots -> BOOLEAN] /\ entry \in [Slots -> BOOLEAN]
       /\ pass \in [Callers -> PassRecords] /\ pass[c] \in PassRecords
  BY <1>0 DEF Types
<1> DEFINE Same == /\ pass'[c].pc = pass[c].pc /\ pass'[c].last = pass[c].last
                   /\ pass'[c].best = pass[c].best /\ pass'[c].i = pass[c].i
                   /\ pass'[c].above = pass[c].above /\ pass'[c].seen = pass[c].seen
                   /\ pass'[c].owed \in SUBSET pass[c].owed
           Kept == \A s \in Slots : id[s] # 0 =>
                     /\ id'[s] = id[s]
                     /\ s \in inited => s \in inited'
                     /\ enabled[s] /\ id[s] \in pass'[c].owed => enabled'[s]
<1>k. ASSUME Same, Kept PROVE SearchInv(c)'
  BY <1>k, <1>0, SearchKept
<1>s. pass' = pass => Same
  OBVIOUS
<1>1. ASSUME NEW n \in Names, LoadStart(n) PROVE SearchInv(c)'
  <2>1. /\ pass' = pass /\ id' = id /\ inited' = inited \ {FreeSlot}
        /\ enabled' = [enabled EXCEPT ![FreeSlot] = FALSE] /\ Loaded # Slots
    BY <1>1 DEF LoadStart
  <2>2. FreeSlot \in Slots /\ id[FreeSlot] = 0
    BY <1>00, <2>1, FreeSlotIsFirst
  <2>3. Kept
    BY <1>00, <2>1, <2>2
  <2> QED BY <2>1, <2>3, <1>s, <1>k
<1>2. CASE LoadMissing \/ LoadInit
  <2>1. /\ UNCHANGED <<pass, id, enabled>>
        /\ \A s \in Slots : s \in inited => s \in inited'
    BY <1>2 DEF LoadMissing, LoadInit, calls, table
  <2> QED BY <2>1, <1>s, <1>k
<1>3. CASE LoadModule
  <2>1. /\ UNCHANGED <<pass, enabled, inited>> /\ cmd.pc = "open"
        /\ id' = [id EXCEPT ![cmd.slot] = cmd.id]
    BY <1>3 DEF LoadModule, calls
  <2>2. id[cmd.slot] = 0
    BY <1>0, <2>1 DEF TableInv, LoadFillsLast
  <2>3. Kept
    BY <1>00, <2>1, <2>2
  <2> QED BY <2>1, <2>3, <1>s, <1>k
<1>4. CASE LoadRemove
  BY <1>4, <1>0 DEF LoadRemove, EnabledInited
<1>5. ASSUME NEW t \in Slots, UNCHANGED <<pass, id, inited>>,
             enabled' = [enabled EXCEPT ![t] = TRUE]
      PROVE  SearchInv(c)'
  BY <1>5, <1>00, <1>s, <1>k
<1>6. CASE LoadEnable
  BY <1>6, <1>5, <1>00 DEF LoadEnable, calls
<1>7. ASSUME NEW n \in Names, Enable(n) PROVE SearchInv(c)'
  BY <1>7, <1>5, <1>00, FindFinds DEF Enable, calls
<1>8. ASSUME NEW t \in Slots, Owe(t), UNCHANGED <<id, inited>>,
             enabled' = [enabled EXCEPT ![t] = FALSE]
      PROVE  SearchInv(c)'
  <2>1. Same /\ pass'[c].owed = pass[c].owed \ {id[t]}
    BY <1>8, <1>0, OwedFalls
  <2>2. Kept
    BY <1>8, <2>1, <1>00
  <2> QED BY <2>1, <2>2, <1>k
<1>9. ASSUME NEW n \in Names, Disable(n) PROVE SearchInv(c)'
  BY <1>9, <1>8, <1>00, FindFinds DEF Disable, calls
<1>10. ASSUME NEW n \in Names, ConfigClose(n) PROVE SearchInv(c)'
  BY <1>10, <1>s, <1>k DEF ConfigClose, table
<1>11. CASE ConfigInit
  <2>1. CASE UNCHANGED <<enabled, pass>>
    BY <2>1, <1>11, <1>s, <1>k DEF ConfigInit
  <2>2. CASE Owe(cmd.slot) /\ enabled' = [enabled EXCEPT ![cmd.slot] = FALSE]
    BY <2>2, <1>11, <1>8, <1>00 DEF ConfigInit
  <2> QED BY <2>1, <2>2, <1>11 DEF ConfigInit
<1>12. CASE Crash
  BY <1>12, <1>0 DEF Crash, Quiet, Running
<1>13. ASSUME NEW d \in Callers, Process(d) PROVE SearchInv(c)'
  <2>1. CASE d = c
    BY <1>13, <2>1, <1>0, OwnSearch
  <2>2. CASE d # c
    <3>1. pass'[c] = pass[c]
      BY <1>13, <2>2, <1>00 DEF Process, Begin, ScanId, ScanEnabled, Call, End
    <3>2. UNCHANGED <<id, inited, enabled>>
      <4>1. CASE Call(d)
        BY <4>1, <1>0, CallKeepsEnabled DEF Call, calls
      <4>2. CASE ~Call(d)
        BY <4>2, <1>13 DEF Process, Begin, ScanId, ScanEnabled, End, table, calls
      <4> QED BY <4>1, <4>2
    <3> QED BY <3>1, <3>2, <1>k
  <2> QED BY <2>1, <2>2
<1>14. CASE FiniStart \/ FiniSlot \/ FiniEnd \/ StopEventThread
  BY <1>14, <1>0 DEF FiniStart, FiniSlot, FiniEnd, StopEventThread, Quiet, Running
<1>15. CASE UNCHANGED vars
  BY <1>15, <1>s, <1>k DEF vars, table, calls
<1> QED
  BY <1>1, <1>2, <1>3, <1>4, <1>6, <1>7, <1>9, <1>10, <1>11, <1>12, <1>13, <1>14, <1>15
  DEF Next, Load, Change

\* The invariant of the frames is inductive.
LEMMA FrameNext == FrameInv /\ [Next]_vars => FrameInv'
BY TableNext, PassesNext, EnabledNext, SearchNext DEF FrameInv

\* The invariant of the table and of the frames that pass it, for every number of slots,
\* names and frame threads (filter.c).
THEOREM FrameIndInv == Spec => []FrameInv
BY FrameInit, FrameNext, PTL DEF Spec

\* filter-API.txt: no frame reaches a filter before INIT, for every size of the table and
\* any number of frame threads, as long as no load has failed.
THEOREM InitFirst == Spec => []FramesAfterInit
<1>1. FrameInv => FramesAfterInit
  <2> SUFFICES ASSUME FrameInv, NEW c \in Callers, NEW s \in Slots, ~failed, Reaches(c, s)
               PROVE  s \in inited
    BY DEF FramesAfterInit
  <2>1. pass[c].pc = "scan" /\ pass[c].best = s
    BY DEF Reaches, Searched
  <2>2. Quiet /\ SearchInv(c)
    BY <2>1 DEF FrameInv, PassesWhileRunning, Quiet
  <2>3. s # MaxFilters
    BY FilterConstants DEF Slots
  <2> QED BY <2>1, <2>2, <2>3 DEF SearchInv
<1> QED BY <1>1, FrameIndInv, PTL

\* tc_filter_process: a frame meets every filter that stays enabled while it passes, however
\* the table changes meanwhile, as long as no load has failed.
THEOREM NoFilterSkipped == Spec => []FrameMeetsFilters
<1>1. FrameInv => FrameMeetsFilters
  <2> SUFFICES ASSUME FrameInv, NEW c \in Callers, ~failed, Searched(c),
                      pass[c].best = MaxFilters, NEW x \in pass[c].owed
               PROVE  x \in pass[c].seen
    BY DEF FrameMeetsFilters
  <2>1. pass[c].pc = "scan" /\ pass[c].i = MaxFilters
    BY DEF Searched
  <2>2. Quiet /\ SearchInv(c)
    BY <2>1 DEF FrameInv, PassesWhileRunning, Quiet
  <2>3. ~StillToCall(c, x)
    BY <2>1, FilterConstants DEF StillToCall, Slots
  <2> QED BY <2>1, <2>2, <2>3 DEF SearchInv
<1> QED BY <1>1, FrameIndInv, PTL

=============================================================================
