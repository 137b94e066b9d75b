----------------------------- MODULE FrameBuffer -----------------------------
(***************************************************************************)
(* The frame buffer of transcode (src/framebuffer.c, STATBUFFER build) for *)
(* one medium.  Audio and video have separate copies of the same state and *)
(* of the same functions: a ring of preallocated frames, the chain of the  *)
(* frames in use, five counters, one mutex and three condition variables.  *)
(*                                                                         *)
(* Every critical section of the mutex is one action.  A thread that calls *)
(* pthread_cond_wait is in asleep[c]; a signal moves it to woken, from     *)
(* where it runs its wait loop again.  The local variable `interrupted` of *)
(* the claiming functions is only assigned after a wait, so it is true     *)
(* exactly for a woken thread that finds the program no longer running.    *)
(*                                                                         *)
(* Next lets every thread call what its layer may call, in any order: one  *)
(* importer registers and pushes, workers reserve, duplicate, push and     *)
(* remove, one exporter retrieves, removes and flushes.                    *)
(***************************************************************************)
EXTENDS Integers, FiniteSets, FrameList

CONSTANTS
  RingSize,       \* rfb->last: how many frames the ring has
  Importer,   \* the decoder thread of this medium
  Exporter,   \* the encoder thread, which is the main thread
  Workers,    \* the filter threads
  MaxId,      \* bound: the importer registers no frame beyond this id
  MaxWait,    \* bound: no frame is duplicated once the wait counter is here
  NoFrame     \* the NULL frame pointer

Threads == {Importer, Exporter} \cup Workers

ASSUME ConstantsOK ==
  /\ RingSize \in Nat \ {0}
  /\ MaxId \in Nat
  /\ MaxWait \in Nat
  /\ Importer # Exporter
  /\ Importer \notin Workers
  /\ Exporter \notin Workers
  /\ NoFrame \notin Nat

Slots    == 0 .. (RingSize - 1)
Statuses == {"NULL", "EMPTY", "WAIT", "LOCKED", "READY"}
Conds    == {"import", "filter", "export"}

VARIABLES
  status,      \* frame->status of every slot of the ring
  id,          \* frame->id of every slot
  next,        \* rfb->next, where the search for a free frame starts
  count,       \* the counters rfb->null, empty, wait, locked and ready
  asleep,      \* the threads waiting on each condition variable
  woken,       \* signalled threads that have not yet run again
  ptr,         \* the frame each thread has claimed
  clone,       \* tmptr: the duplicate a worker has not yet pushed
  frameCount,  \* the id counter of the import loop
  running,     \* tc_running(): the run status is TC_STATUS_RUNNING
  importing,   \* active_flag of the import thread
  pooled,      \* tc_frame_threads_have_video_workers(): count > 0
  cloning      \* whether a filter that sets TC_FRAME_IS_CLONED was ever loaded

ring    == <<status, id, chain, stale, next, count>>
sync    == <<asleep, woken>>
claims  == <<ptr, clone>>
control == <<frameCount, running, importing, pooled, cloning>>
vars    == <<ring, sync, claims, control>>

Init ==
  /\ status = [s \in Slots |-> "NULL"]
  /\ id = [s \in Slots |-> 0]
  /\ chain = <<>>
  /\ stale = {}
  /\ next = 0
  /\ count = [st \in Statuses |-> IF st = "NULL" THEN RingSize ELSE 0]
  /\ asleep = [c \in Conds |-> {}]
  /\ woken = {}
  /\ ptr = [t \in Threads |-> NoFrame]
  /\ clone = [w \in Workers |-> NoFrame]
  /\ frameCount = 0
  /\ running = TRUE
  /\ importing = TRUE
  /\ pooled \in BOOLEAN
  /\ cloning = FALSE

-----------------------------------------------------------------------------
(* Threads and condition variables. *)

Awake(t) == \A c \in Conds : t \notin asleep[c]

Interrupted(t) == t \in woken /\ ~running

Sleep(t, c) ==
  /\ asleep' = [asleep EXCEPT ![c] = @ \cup {t}]
  /\ woken' = woken \ {t}

Return(t) ==
  /\ woken' = woken \ {t}
  /\ UNCHANGED asleep

\* What pthread_cond_signal may take out of a set of waiting threads.
OneOf(S) == IF S = {} THEN {{}} ELSE {{t} : t \in S}

Signal(c) ==
  \E S \in OneOf(asleep[c]) :
    /\ asleep' = [asleep EXCEPT ![c] = @ \ S]
    /\ woken' = woken \cup S

-----------------------------------------------------------------------------
(* The ring of frames; the chain and stale are those of FrameList, over slots. *)

Nth(k) == (next + k) % RingSize

\* The search of the ring finds its first free frame k steps after next.
FirstFree(k) ==
  /\ status[Nth(k)] = "NULL"
  /\ \A j \in 0 .. (k - 1) : status[Nth(j)] # "NULL"

NoneFree == \A s \in Slots : status[s] # "NULL"

\* Mutant: the reservation of a frame is not counted.
SetStatusUncounted(s, new) ==
  /\ status' = [status EXCEPT ![s] = new]
  /\ count' = IF new = "LOCKED" THEN count
              ELSE [count EXCEPT ![status[s]] = @ - 1, ![new] = @ + 1]

\* The frame in slot s changes status, and the counters follow.
SetStatus(s, new) ==
  /\ status' = [status EXCEPT ![s] = new]
  /\ count' = [count EXCEPT ![status[s]] = @ - 1, ![new] = @ + 1]

\* Mutant: rfb->next is advanced without the wrap around.
TakeFreeNoWrap(k, counter, st, i) ==
  /\ FirstFree(k)
  /\ status' = [status EXCEPT ![Nth(k)] = st]
  /\ id' = [id EXCEPT ![Nth(k)] = i]
  /\ count' = [count EXCEPT !["NULL"] = @ - 1, ![counter] = @ + 1]
  /\ next' = Nth(k) + 1

\* A frame leaves the ring's pool: retrieve_frame and register_frame.
TakeFree(k, counter, st, i) ==
  /\ FirstFree(k)
  /\ status' = [status EXCEPT ![Nth(k)] = st]
  /\ id' = [id EXCEPT ![Nth(k)] = i]
  /\ count' = [count EXCEPT !["NULL"] = @ - 1, ![counter] = @ + 1]
  /\ next' = Nth(k + 1)

HeadReady == chain # <<>> /\ status[chain[1]] = "READY"

Recount(s, statuses) ==
  count' = [st \in Statuses |->
              CASE st = "NULL" -> count[st] + 1
                [] st \in statuses /\ st = status[s] -> count[st] - 1
                [] OTHER -> count[st]]

\* Mutants: the pool forgets the counter of locked frames, nobody is told of
\* the free frame.
ReleaseLocked(s) ==
  /\ Unlink(s) /\ Recount(s, {"READY"}) /\ Signal("import")
  /\ status' = [status EXCEPT ![s] = "NULL"]
  /\ UNCHANGED <<id, next>>

ReleaseSilently(s) ==
  /\ Unlink(s) /\ Recount(s, {"READY", "LOCKED"}) /\ UNCHANGED sync
  /\ status' = [status EXCEPT ![s] = "NULL"]
  /\ UNCHANGED <<id, next>>

\* Unlink the frame, return it to the pool and tell one thread that wants a
\* free frame.  Only the counters of READY and LOCKED are kept up here.
Release(s) ==
  /\ Unlink(s) /\ Recount(s, {"READY", "LOCKED"}) /\ Signal("import")
  /\ status' = [status EXCEPT ![s] = "NULL"]
  /\ UNCHANGED <<id, next>>

-----------------------------------------------------------------------------
(* Import layer. *)

RegisterBlocks ==
  ~Interrupted(Importer) /\ importing /\ count["NULL"] = 0

RegisterWait ==
  /\ RegisterBlocks
  /\ Sleep(Importer, "import")
  /\ UNCHANGED <<ring, claims>>

RegisterFrame ==
  /\ ~Interrupted(Importer) /\ ~RegisterBlocks
  /\ \E k \in Slots :
       /\ TakeFree(k, "EMPTY", "EMPTY", frameCount)
       /\ LinkLast(Nth(k))
       /\ ptr' = [ptr EXCEPT ![Importer] = Nth(k)]
  /\ Return(Importer)
  /\ UNCHANGED clone

RegisterNull ==
  /\ Interrupted(Importer) \/ (~RegisterBlocks /\ NoneFree)
  /\ Return(Importer)
  /\ UNCHANGED <<ring, claims>>

Register ==
  /\ Awake(Importer) /\ ptr[Importer] = NoFrame /\ frameCount <= MaxId
  /\ RegisterWait \/ RegisterFrame \/ RegisterNull
  /\ UNCHANGED control

\* The importer hands its frame on, to the encoder if there are no filter
\* threads.  It counts the frame unless the read failed.
PushImported(new) ==
  /\ ptr[Importer] # NoFrame
  /\ new = IF pooled THEN "WAIT" ELSE "READY"
  /\ SetStatus(ptr[Importer], new)
  /\ CASE new = "WAIT" -> Signal("filter")
       [] new = "READY" /\ ptr[Importer] = chain[1] -> Signal("export")
       [] OTHER -> UNCHANGED sync
  /\ ptr' = [ptr EXCEPT ![Importer] = NoFrame]
  /\ frameCount' \in {frameCount, frameCount + 1}
  /\ UNCHANGED <<id, chain, stale, next, clone, running, importing, pooled, cloning>>

-----------------------------------------------------------------------------
(* Filter layer. *)

ReserveWait(w) ==
  /\ ~Interrupted(w) /\ count["WAIT"] = 0
  /\ Sleep(w, "filter")
  /\ UNCHANGED <<ring, claims>>

\* Mutant: the lookup takes a frame that another worker has locked.
ReserveAgain(w) ==
  /\ ~Interrupted(w) /\ count["WAIT"] # 0
  /\ \E i \in DOMAIN chain :
       /\ status[chain[i]] \in {"WAIT", "LOCKED"}
       /\ SetStatus(chain[i], "LOCKED")
       /\ ptr' = [ptr EXCEPT ![w] = chain[i]]
  /\ Return(w)
  /\ UNCHANGED <<id, chain, stale, next, clone>>

\* Mutant: the lookup does not start at the head.
ReserveAnyWaiting(w) ==
  /\ ~Interrupted(w) /\ count["WAIT"] # 0
  /\ \E i \in DOMAIN chain :
       /\ status[chain[i]] = "WAIT"
       /\ SetStatus(chain[i], "LOCKED")
       /\ ptr' = [ptr EXCEPT ![w] = chain[i]]
  /\ Return(w)
  /\ UNCHANGED <<id, chain, stale, next, clone>>

\* The first waiting frame from the head of the chain is locked.
ReserveFrame(w) ==
  /\ ~Interrupted(w) /\ count["WAIT"] # 0
  /\ \E i \in DOMAIN chain :
       /\ status[chain[i]] = "WAIT"
       /\ \A j \in 1 .. (i - 1) : status[chain[j]] # "WAIT"
       /\ SetStatus(chain[i], "LOCKED")
       /\ ptr' = [ptr EXCEPT ![w] = chain[i]]
  /\ Return(w)
  /\ UNCHANGED <<id, chain, stale, next, clone>>

ReserveNull(w) ==
  /\ \/ Interrupted(w)
     \/ count["WAIT"] # 0 /\ \A s \in Slots : status[s] # "WAIT"
  /\ Return(w)
  /\ UNCHANGED <<ring, claims>>

Reserve(w) ==
  /\ pooled /\ Awake(w) /\ ptr[w] = NoFrame
  /\ ReserveWait(w) \/ ReserveFrame(w) \/ ReserveNull(w)
  /\ UNCHANGED control

DupWait(w) ==
  /\ ~Interrupted(w) /\ count["NULL"] = 0
  /\ Sleep(w, "import")
  /\ UNCHANGED <<ring, claims>>

\* The copy takes over every common field, the status LOCKED among them.
DupFrame(w) ==
  /\ Interrupted(w) \/ count["NULL"] # 0
  /\ \E k \in Slots :
       /\ TakeFree(k, "WAIT", status[ptr[w]], id[ptr[w]])
       /\ LinkBehind(ptr[w], Nth(k))
       /\ clone' = [clone EXCEPT ![w] = Nth(k)]
  /\ Return(w)
  /\ UNCHANGED ptr

DupNull(w) ==
  /\ Interrupted(w) \/ count["NULL"] # 0
  /\ NoneFree
  /\ Return(w)
  /\ UNCHANGED <<ring, claims>>

Dup(w) ==
  /\ cloning /\ count["WAIT"] < MaxWait
  /\ Awake(w) /\ ptr[w] # NoFrame /\ clone[w] = NoFrame
  /\ DupWait(w) \/ DupFrame(w) \/ DupNull(w)
  /\ UNCHANGED control

PushClone(w) ==
  /\ clone[w] # NoFrame
  /\ SetStatus(clone[w], "WAIT")
  /\ Signal("filter")
  /\ clone' = [clone EXCEPT ![w] = NoFrame]
  /\ UNCHANGED <<id, chain, stale, next, ptr, control>>

\* Mutant: the exporter is not told that the head of the chain is ready.
PushFilteredSilently(w) ==
  /\ Awake(w) /\ ptr[w] # NoFrame /\ clone[w] = NoFrame
  /\ SetStatus(ptr[w], "READY") /\ UNCHANGED sync
  /\ ptr' = [ptr EXCEPT ![w] = NoFrame]
  /\ UNCHANGED <<id, chain, stale, next, clone, control>>

PushFiltered(w) ==
  /\ Awake(w) /\ ptr[w] # NoFrame /\ clone[w] = NoFrame
  /\ SetStatus(ptr[w], "READY")
  /\ IF ptr[w] = chain[1] THEN Signal("export") ELSE UNCHANGED sync
  /\ ptr' = [ptr EXCEPT ![w] = NoFrame]
  /\ UNCHANGED <<id, chain, stale, next, clone, control>>

-----------------------------------------------------------------------------
(* Export layer. *)

RetrieveWait ==
  /\ ~Interrupted(Exporter) /\ ~HeadReady
  /\ Sleep(Exporter, "export")
  /\ UNCHANGED <<ring, claims>>

\* Mutant: any frame that is ready will do.
RetrieveOutOfOrder ==
  /\ ~Interrupted(Exporter) /\ HeadReady
  /\ \E i \in DOMAIN chain :
       status[chain[i]] = "READY" /\ ptr' = [ptr EXCEPT ![Exporter] = chain[i]]
  /\ Return(Exporter)
  /\ UNCHANGED <<ring, clone>>

RetrieveFrame ==
  /\ ~Interrupted(Exporter) /\ HeadReady
  /\ ptr' = [ptr EXCEPT ![Exporter] = chain[1]]
  /\ Return(Exporter)
  /\ UNCHANGED <<ring, clone>>

RetrieveNull ==
  /\ Interrupted(Exporter)
  /\ ptr' = [ptr EXCEPT ![Exporter] = NoFrame]
  /\ Return(Exporter)
  /\ UNCHANGED <<ring, clone>>

Retrieve ==
  /\ Awake(Exporter)
  /\ RetrieveWait \/ RetrieveFrame \/ RetrieveNull
  /\ UNCHANGED control

\* {a,v}frame_remove, as the last step of a frame or by a filter that drops it.
\* Bound: no filter drops a frame whose prev pointer is stale.  Nothing in the code
\* prevents it; LIST_FRAME_REMOVE then cuts the duplicate out of the chain, which
\* FrameChain shows with the pointers (UsedIsReachable).
RemoveFrame(t) ==
  /\ Awake(t) /\ ptr[t] # NoFrame
  /\ t \in Workers => clone[t] = NoFrame /\ ptr[t] \notin stale
  /\ Release(ptr[t])
  /\ ptr' = [ptr EXCEPT ![t] = NoFrame]
  /\ UNCHANGED <<clone, control>>

\* One round of {a,v}frame_flush by the main thread, which is not encoding then.
\* Nobody else moves a ready head between its two critical sections.
Flush ==
  /\ Awake(Exporter) /\ HeadReady
  /\ Release(chain[1])
  /\ ptr' = [ptr EXCEPT ![Exporter] = NoFrame]
  /\ UNCHANGED <<clone, control>>

-----------------------------------------------------------------------------
(* Interruption and the state the buffer only reads. *)

InterruptAll ==
  \E I \in OneOf(asleep["import"]), E \in OneOf(asleep["export"]) :
    /\ asleep' = [asleep EXCEPT !["import"] = @ \ I, !["filter"] = {},
                                !["export"] = @ \ E]
    /\ woken' = woken \cup I \cup asleep["filter"] \cup E
    /\ UNCHANGED <<ring, claims, control>>

InterruptImport == Signal("import") /\ UNCHANGED <<ring, claims, control>>

\* POSIX lets pthread_cond_wait return without a signal.
SpuriousWakeup ==
  \E c \in Conds : \E t \in asleep[c] :
    /\ asleep' = [asleep EXCEPT ![c] = @ \ {t}]
    /\ woken' = woken \cup {t}
    /\ UNCHANGED <<ring, claims, control>>

\* tc_start, tc_stop and tc_interrupt, and the import thread's active flag.
ChangeRunning ==
  /\ running' \in BOOLEAN
  /\ UNCHANGED <<ring, sync, claims, frameCount, importing, pooled, cloning>>

ChangeImporting ==
  /\ importing' \in BOOLEAN
  /\ UNCHANGED <<ring, sync, claims, frameCount, running, pooled, cloning>>

\* The -J option or the control socket loads a filter that clones frames.
LoadCloningFilter ==
  /\ cloning' = TRUE
  /\ UNCHANGED <<ring, sync, claims, frameCount, running, importing, pooled>>

-----------------------------------------------------------------------------
WorkerStep(w) ==
  Reserve(w) \/ Dup(w) \/ PushClone(w) \/ PushFiltered(w) \/ RemoveFrame(w)

Next ==
  \/ Register
  \/ \E new \in {"WAIT", "READY"} : PushImported(new)
  \/ \E w \in Workers : WorkerStep(w)
  \/ Retrieve
  \/ RemoveFrame(Exporter)
  \/ Flush
  \/ InterruptAll
  \/ InterruptImport
  \/ SpuriousWakeup
  \/ ChangeRunning
  \/ ChangeImporting
  \/ LoadCloningFilter

Spec == Init /\ [][Next]_vars

-----------------------------------------------------------------------------
(* Correctness.  What is said of the chain holds under the bound of          *)
(* RemoveFrame: no filter drops a frame whose prev pointer is stale.         *)

\* Type correctness of the ring, the chain, the condition variables and claims.
TypeOK ==
  /\ status \in [Slots -> Statuses]
  /\ id \in [Slots -> Nat]
  /\ chain \in Seq(Slots)
  /\ stale \in SUBSET Slots
  /\ next \in Slots
  /\ count \in [Statuses -> Int]
  /\ asleep \in [Conds -> SUBSET Threads]
  /\ woken \in SUBSET Threads
  /\ ptr \in [Threads -> Slots \cup {NoFrame}]
  /\ clone \in [Workers -> Slots \cup {NoFrame}]
  /\ frameCount \in Nat
  /\ running \in BOOLEAN
  /\ importing \in BOOLEAN
  /\ pooled \in BOOLEAN
  /\ cloning \in BOOLEAN

SlotsIn(st) == {s \in Slots : status[s] = st}

\* The chain links every frame that is in use, once, and no free frame: as long as
\* no filter drops a frame whose prev pointer a duplicate has left stale, no order of
\* register, dup, remove and flush leaks a frame or links it twice.  Without that
\* condition, which vframe_remove does not test, a frame does leak: UsedIsReachable
\* of FrameChain.
ChainIsFramesInUse ==
  /\ \A s \in Slots : status[s] # "NULL" <=> \E i \in DOMAIN chain : chain[i] = s
  /\ \A i, j \in DOMAIN chain : chain[i] = chain[j] => i = j

\* Although LIST_FRAME_LINK leaves prev pointers wrong, the frame at the head,
\* which the exporter and flush remove, always has the right one.
HeadLinkedRight ==
  /\ \A s \in stale : status[s] # "NULL"
  /\ chain # <<>> => chain[1] \notin stale

\* What {a,v}frame_get_counters reports is the truth for each layer, with
\* cloning filters too: pool and import, filter, export.
StageCountersExact ==
  /\ count["NULL"] = Cardinality(SlotsIn("NULL"))
  /\ count["EMPTY"] = Cardinality(SlotsIn("EMPTY"))
  /\ count["READY"] = Cardinality(SlotsIn("READY"))
  /\ count["WAIT"] + count["LOCKED"]
       = Cardinality(SlotsIn("WAIT")) + Cardinality(SlotsIn("LOCKED"))

\* The wait counter, on which {a,v}frame_reserve decides to sleep, is the
\* number of frames that wait for a filter.
WaitCounterExact == count["WAIT"] = Cardinality(SlotsIn("WAIT"))

\* Without cloning filters the wait counter never lies, so a worker that does
\* not sleep finds a frame and NULL always means interruption.
ReserveFindsFrame == ~cloning => WaitCounterExact

\* What a thread may do to frame s next: the frames t has claimed.
Holds(t, s) == ptr[t] = s \/ (t \in Workers /\ clone[t] = s)

\* A frame belongs to one thread at a time, and its status says to which
\* layer: the claiming functions never hand out a frame twice.
ClaimsExclusive ==
  \A s \in Slots : \A t, u \in Threads : Holds(t, s) /\ Holds(u, s) => t = u

ClaimsMatchStatus ==
  \A s \in Slots :
    /\ status[s] = "EMPTY" <=> ptr[Importer] = s
    /\ status[s] = "LOCKED" <=> \E w \in Workers : Holds(w, s)
    /\ ptr[Exporter] = s => status[s] = "READY" /\ s = chain[1]

\* Frames stay in the order of their ids whatever order the filters finish in.
ChainSorted ==
  \A i, j \in DOMAIN chain : i < j => id[chain[i]] <= id[chain[j]]

\* A thread sleeps for a free frame only while there is none.
ImporterNotStranded ==
  ~cloning /\ Importer \in asleep["import"] => count["NULL"] = 0

\* What the invariants above rest on: a duplicate is only there beside its
\* original, no frame in the chain is younger than the import counter, and
\* only the importer waits for a free frame unless filters clone.
ClonesPaired ==
  \A w \in Workers : clone[w] # NoFrame => ptr[w] # NoFrame /\ ptr[w] # clone[w]

IdsIssued == \A i \in DOMAIN chain : id[chain[i]] <= frameCount

OnlyImporterWaits == ~cloning => asleep["import"] \subseteq {Importer}

\* What framebuffer.h promises of the claiming functions: they block until there
\* is a frame or an interruption.  So a worker that does not sleep finds a frame.
\* This does not hold with a cloning filter: the locked duplicate is counted too.
ReserveNeverNull == count["WAIT"] # 0 => \E s \in Slots : status[s] = "WAIT"

\* And the exporter does not sleep while the frame it waits for is ready.
ExporterNotStranded == Exporter \in asleep["export"] => ~HeadReady

=============================================================================
