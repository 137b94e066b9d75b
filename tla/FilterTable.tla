----------------------------- MODULE FilterTable -----------------------------
(***************************************************************************)
(* The filter table of filter.c.  Frame threads send their frames through  *)
(* it, the event thread changes it on behalf of the control socket, and at *)
(* the end the main thread unloads it.  None of them takes a lock, so each *)
(* access to a shared slot that another thread can see is a step.          *)
(*                                                                         *)
(* A filter module itself is external: it can be missing, lack its entry   *)
(* point, and reject its options.                                          *)
(***************************************************************************)
EXTENDS Naturals, FiniteSets, FiniteSetsExt

CONSTANTS
  MaxFilters,  \* slots in the table
  Names,       \* names of filters
  Callers,     \* the threads that process frames
  NoName       \* an empty name

ASSUME FilterConstants ==
  MaxFilters \in Nat \ {0} /\ NoName \notin Names /\ IsFiniteSet(Names)

Slots == 0 .. MaxFilters - 1
Ids   == 0 .. 2 * MaxFilters  \* more than slots: tc_filter_fini frees slots behind a load

VARIABLES
  name, id, enabled, entry,  \* the fields of filters[]
  initialized,
  open,      \* history: the slots whose filter is between INIT and CLOSE
  inited,    \* history: the slots whose filter has been called with INIT
  failed,    \* history: whether a filter that was loaded has rejected its options
  cmd,       \* the event thread: its command, where it is in it, slot and id
  main,      \* the main thread
  at,        \* the slot that tc_filter_fini is at
  pass       \* per frame thread: its pass through the filters

table == <<name, id, enabled, entry, initialized>>
calls == <<open, inited, failed>>
fini  == <<main, at>>
vars  == <<table, calls, cmd, fini, pass>>

NoCommand == [pc |-> "idle", slot |-> 0, id |-> 0]
NoPass    == [pc |-> "idle", last |-> 0, best |-> MaxFilters, i |-> 0,
              above |-> FALSE, seen |-> {}, owed |-> {}]

Init ==
  /\ name = [s \in Slots |-> NoName]
  /\ id = [s \in Slots |-> 0]
  /\ enabled = [s \in Slots |-> FALSE]
  /\ entry = [s \in Slots |-> FALSE]
  /\ initialized = TRUE
  /\ open = {} /\ inited = {} /\ failed = FALSE
  /\ cmd = NoCommand
  /\ main = "run" /\ at = 0
  /\ pass = [c \in Callers |-> NoPass]

Loaded == {s \in Slots : id[s] # 0}

\* Mutant: the last slot with the name counts.
FindLast(n) ==
  IF initialized /\ \E s \in Slots : name[s] = n
  THEN id[Max({s \in Slots : name[s] = n})] ELSE 0

\* tc_filter_find: the id in the first slot with the name, even if it is free.
Find(n) ==
  IF initialized /\ \E s \in Slots : name[s] = n
  THEN id[Min({s \in Slots : name[s] = n})] ELSE 0

Index(i) == Min({s \in Slots : id[s] = i})

\* The frame threads owe their frames a call of the filters that were enabled when
\* they began and have been since.
Owe(s) == pass' = [c \in Callers |-> [pass[c] EXCEPT !.owed = @ \ {id[s]}]]

\* The socket is answered and the event thread waits for the next command.  A command
\* that is refused at once (the table is full or finished, no filter has the name)
\* changes nothing and is no step.
Reply == cmd' = NoCommand

Socket == cmd.pc = "idle" /\ main \notin {"stopped", "crashed"}

-----------------------------------------------------------------------------
(* load: tc_filter_add. *)

NewId == Max({id[s] : s \in Slots}) + 1

\* Mutant: the search goes from the end.
FreeSlotLast == Max(Slots \ Loaded)

FreeSlot == Min(Slots \ Loaded)

LoadStart(n) ==
  /\ Socket /\ initialized /\ Loaded # Slots
  /\ name' = [name EXCEPT ![FreeSlot] = n]
  /\ enabled' = [enabled EXCEPT ![FreeSlot] = FALSE]
  /\ inited' = inited \ {FreeSlot}
  /\ cmd' = [pc |-> "open", slot |-> FreeSlot, id |-> NewId]
  /\ UNCHANGED <<id, entry, initialized, open, failed, fini, pass>>

\* The module or its entry point is missing: the name stays in the free slot.
LoadMissing ==
  /\ cmd.pc = "open"
  /\ entry' = [entry EXCEPT ![cmd.slot] = FALSE]
  /\ Reply
  /\ UNCHANGED <<name, id, enabled, initialized, calls, fini, pass>>

\* Mutant: the filter is enabled as soon as it is loaded, not when it is initialized.
LoadModuleEnabled ==
  /\ cmd.pc = "open"
  /\ entry' = [entry EXCEPT ![cmd.slot] = TRUE]
  /\ id' = [id EXCEPT ![cmd.slot] = cmd.id]
  /\ enabled' = [enabled EXCEPT ![cmd.slot] = TRUE]
  /\ cmd' = [cmd EXCEPT !.pc = "init"]
  /\ UNCHANGED <<name, initialized, calls, fini, pass>>

LoadModule ==
  /\ cmd.pc = "open"
  /\ entry' = [entry EXCEPT ![cmd.slot] = TRUE]
  /\ id' = [id EXCEPT ![cmd.slot] = cmd.id]
  /\ cmd' = [cmd EXCEPT !.pc = "init"]
  /\ UNCHANGED <<name, enabled, initialized, calls, fini, pass>>

LoadInit ==
  /\ cmd.pc = "init" /\ entry[cmd.slot]
  /\ inited' = inited \cup {cmd.slot}
  /\ \/ open' = open \cup {cmd.slot} /\ cmd' = [cmd EXCEPT !.pc = "enable"] /\ UNCHANGED failed
     \/ open' = open /\ cmd' = [cmd EXCEPT !.pc = "remove"] /\ failed' = TRUE
  /\ UNCHANGED <<table, fini, pass>>

\* tc_filter_remove of the filter in slot s: it is closed and the slot is free.
Remove(s) ==
  /\ open' = open \ {s} /\ inited' = inited \ {s}
  /\ name' = [name EXCEPT ![s] = NoName]
  /\ id' = [id EXCEPT ![s] = 0]
  /\ enabled' = [enabled EXCEPT ![s] = FALSE]
  /\ entry' = [entry EXCEPT ![s] = FALSE]

\* The options were rejected, and the new filter is removed by its id.
LoadRemove ==
  /\ cmd.pc = "remove"
  /\ IF initialized /\ cmd.id \in {id[s] : s \in Slots} THEN Remove(Index(cmd.id))
     ELSE UNCHANGED <<name, id, enabled, entry, open, inited>>
  /\ cmd' = [cmd EXCEPT !.pc = "enable"]
  /\ UNCHANGED <<initialized, failed, fini, pass>>

\* tc_filter_add ends here in both cases: the slot is enabled and 1 returned.
LoadEnable ==
  /\ cmd.pc = "enable"
  /\ enabled' = [enabled EXCEPT ![cmd.slot] = TRUE]
  /\ Reply
  /\ UNCHANGED <<name, id, entry, initialized, calls, fini, pass>>

Load == (\E n \in Names : LoadStart(n)) \/ LoadMissing \/ LoadModule
          \/ LoadInit \/ LoadRemove \/ LoadEnable

-----------------------------------------------------------------------------
(* enable, disable and config. *)

Enable(n) ==
  /\ Socket /\ Find(n) # 0
  /\ enabled' = [enabled EXCEPT ![Index(Find(n))] = TRUE]
  /\ Reply
  /\ UNCHANGED <<name, id, entry, initialized, calls, fini, pass>>

Disable(n) ==
  /\ Socket /\ Find(n) # 0
  /\ enabled' = [enabled EXCEPT ![Index(Find(n))] = FALSE]
  /\ Owe(Index(Find(n)))
  /\ Reply
  /\ UNCHANGED <<name, id, entry, initialized, calls, fini>>

\* The filter is closed, and then opened with the new options.
ConfigClose(n) ==
  /\ Socket /\ Find(n) # 0
  /\ open' = open \ {Index(Find(n))}
  /\ cmd' = [pc |-> "config", slot |-> Index(Find(n)), id |-> Find(n)]
  /\ UNCHANGED <<table, inited, failed, fini, pass>>

ConfigInit ==
  /\ cmd.pc = "config" /\ entry[cmd.slot]
  /\ \/ /\ open' = open \cup {cmd.slot}
        /\ Reply
        /\ UNCHANGED <<enabled, pass>>
     \/ /\ enabled' = [enabled EXCEPT ![cmd.slot] = FALSE]
        /\ Owe(cmd.slot)
        /\ Reply
        /\ UNCHANGED open
  /\ UNCHANGED <<name, id, entry, initialized, inited, failed, fini>>

\* tc_filter_fini has removed the filter that is about to be called with INIT.
Crash ==
  /\ cmd.pc \in {"init", "config"} /\ ~entry[cmd.slot]
  /\ main' = "crashed" /\ cmd' = NoCommand
  /\ UNCHANGED <<table, calls, at, pass>>

Change == \/ \E n \in Names : Enable(n) \/ Disable(n) \/ ConfigClose(n)
          \/ ConfigInit \/ Crash

-----------------------------------------------------------------------------
(* tc_filter_process. *)

Begin(c) ==
  /\ pass[c].pc = "idle" /\ main = "run" /\ initialized
  /\ pass' = [pass EXCEPT ![c] =
       [NoPass EXCEPT !.pc = "scan", !.owed = {id[s] : s \in {s \in Loaded : enabled[s]}}]]
  /\ UNCHANGED <<table, calls, cmd, fini>>

\* One slot of the search for the lowest id above the last one: first its id is
\* read, and then, if that is above, whether it is enabled.
ScanId(c) ==
  /\ pass[c].pc = "scan" /\ pass[c].i < MaxFilters /\ ~pass[c].above
  /\ pass' = IF id[pass[c].i] > pass[c].last THEN [pass EXCEPT ![c].above = TRUE]
             ELSE [pass EXCEPT ![c].i = @ + 1]
  /\ UNCHANGED <<table, calls, cmd, fini>>

\* Mutant: the last enabled filter is taken, not the one with the lowest id.
CandidateAny(c, s) == enabled[s]

Candidate(c, s) ==
  enabled[s] /\ (pass[c].best = MaxFilters \/ id[s] < id[pass[c].best])

ScanEnabled(c) ==
  /\ pass[c].above
  /\ pass' = [pass EXCEPT ![c].i = @ + 1, ![c].above = FALSE,
                          ![c].best = IF Candidate(c, pass[c].i) THEN pass[c].i ELSE @]
  /\ UNCHANGED <<table, calls, cmd, fini>>

Searched(c) == pass[c].pc = "scan" /\ pass[c].i = MaxFilters

\* The filter is called with the frame, or disabled if it has no entry point.
Call(c) ==
  /\ Searched(c) /\ pass[c].best # MaxFilters
  /\ LET s == pass[c].best IN
       /\ pass' = [pass EXCEPT ![c].last = id[s], ![c].best = MaxFilters, ![c].i = 0,
                               ![c].seen = IF entry[s] THEN @ \cup {id[s]} ELSE @]
       /\ enabled' = [enabled EXCEPT ![s] = @ /\ entry[s]]
  /\ UNCHANGED <<name, id, entry, initialized, calls, cmd, fini>>

End(c) ==
  /\ Searched(c) /\ pass[c].best = MaxFilters
  /\ pass' = [pass EXCEPT ![c] = NoPass]
  /\ UNCHANGED <<table, calls, cmd, fini>>

Process(c) == Begin(c) \/ ScanId(c) \/ ScanEnabled(c) \/ Call(c) \/ End(c)

-----------------------------------------------------------------------------
(* tc_filter_fini, when the frame threads have ended, and after it the end of *)
(* the event thread.                                                          *)

FiniStart ==
  /\ main = "run" /\ \A c \in Callers : pass[c].pc = "idle"
  /\ main' = "fini"
  /\ UNCHANGED <<table, calls, cmd, at, pass>>

FiniSlot ==
  /\ main = "fini" /\ at \in Slots
  /\ IF id[at] # 0 THEN Remove(at)
     ELSE UNCHANGED <<name, id, enabled, entry, open, inited>>
  /\ at' = at + 1
  /\ UNCHANGED <<initialized, failed, cmd, main, pass>>

FiniEnd ==
  /\ main = "fini" /\ at = MaxFilters
  /\ initialized' = FALSE
  /\ main' = "done"
  /\ UNCHANGED <<name, id, enabled, entry, calls, cmd, at, pass>>

\* The event thread is cancelled, wherever it is in a command.
StopEventThread ==
  /\ main = "done"
  /\ main' = "stopped" /\ cmd' = NoCommand
  /\ UNCHANGED <<table, calls, at, pass>>

Next ==
  \/ Load \/ Change
  \/ \E c \in Callers : Process(c)
  \/ FiniStart \/ FiniSlot \/ FiniEnd \/ StopEventThread

Spec == Init /\ [][Next]_vars

-----------------------------------------------------------------------------
(* Correctness. *)

TypeOK ==
  /\ name \in [Slots -> Names \cup {NoName}]
  /\ id \in [Slots -> Ids]
  /\ enabled \in [Slots -> BOOLEAN] /\ entry \in [Slots -> BOOLEAN]
  /\ initialized \in BOOLEAN
  /\ open \in SUBSET Slots /\ inited \in SUBSET Slots /\ failed \in BOOLEAN
  /\ cmd \in [pc : {"idle", "open", "init", "remove", "enable", "config"},
              slot : Slots, id : Ids]
  /\ main \in {"run", "fini", "done", "stopped", "crashed"} /\ at \in 0 .. MaxFilters
  /\ pass \in [Callers -> [pc : {"idle", "scan"}, last : Ids, best : 0 .. MaxFilters,
                           i : 0 .. MaxFilters, above : BOOLEAN, seen : SUBSET Ids, owed : SUBSET Ids]]

Running == main = "run"

\* While frames are processed, the filters are in a prefix of the table in the order
\* of their ids, so that ids never clash however loads fail and are repeated.
TableIsPrefix ==
  Running => \A s, t \in Slots : s < t /\ id[t] # 0 => id[s] # 0 /\ id[s] < id[t]

\* The socket's name for a filter leads to it although a load that failed leaves its
\* name in a free slot.
FindsLoaded ==
  Running => \A s \in Loaded : Find(name[s]) # 0

\* The filter in the slot is about to be called with a frame.
Reaches(c, s) == Searched(c) /\ pass[c].best = s /\ entry[s]

\* filter-API.txt: a filter is called first with INIT.  No frame reaches a filter
\* before, whatever the slot held earlier.
\*
\* This and the next property need that no load failed in INIT: such a load enables
\* its slot after it is free.  A search that read the id before and the flag after
\* takes the slot, whose id is then 0 or that of a later load.
FramesAfterInit ==
  \A c \in Callers, s \in Slots : ~failed /\ Reaches(c, s) => s \in inited

\* A frame has been through every filter that was enabled all the time, although
\* filters are loaded, enabled and disabled while its thread searches the table.
FrameMeetsFilters ==
  \A c \in Callers :
    ~failed /\ Searched(c) /\ pass[c].best = MaxFilters => pass[c].owed \subseteq pass[c].seen

\* filter-API.txt: a filter is last called with CLOSE, and may then be called with
\* INIT.  So no frame reaches a filter that is closed.  This does not hold: the
\* command config closes and reopens a filter that is enabled.
FramesToOpenFilters ==
  \A c \in Callers, s \in Slots : Reaches(c, s) => s \in open

=============================================================================
