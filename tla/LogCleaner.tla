----------------------------- MODULE LogCleaner -----------------------------
(***************************************************************************)
(* src/Log.cpp: the thread that removes old log files, start_clean_routine *)
(* and stop_clean_routine, and the file sink that init sets up, whose      *)
(* records both the application and the thread write.                      *)
(*                                                                         *)
(* A tick is half an hour, and a scan takes no time: Tick waits for it.    *)
(* The age of a file is the time since its last record, counted up to Cap. *)
(***************************************************************************)
EXTENDS Integers, FiniteSets

CONSTANTS
  Files,       \* bound: log files there are at a time
  NoFile,
  MaxHours,    \* max_age: 24 * days, in hours
  SleepHours,  \* how long the thread sleeps (4)
  DayHours,    \* the log file is rotated this often (24)
  Cap          \* bound: an age of that many ticks no longer grows; old enough

Sleep == 2 * SleepHours
Day   == 2 * DayHours

ASSUME FileAssumption == NoFile \notin Files
ASSUME TimeAssumption ==
  /\ MaxHours \in Int
  /\ SleepHours \in Nat \ {0}
  /\ DayHours \in Nat \ {0}
  /\ Cap \in Nat
  /\ Cap >= 2 * MaxHours + Sleep

VARIABLES
  process,     \* "up", "exited", or "terminated" by std::terminate
  starting,    \* start_clean_routine is between its two assignments
  flag,        \* clean_thread_stop_flag
  thread,      \* clean_thread: none, running, or ended, which is joinable still
  pc,          \* where the thread is
  slept,       \* ticks since "now" was taken
  toVisit,     \* files the directory_iterator has not reached
  victim,      \* the file it has found too old
  info,        \* records of severity info pass the filter
  exists,      \* files in log_folder
  age,         \* per file: ticks since its last record
  open,        \* the file the sink has open
  dayOver,     \* midnight has passed since the last record
  toMidnight,  \* ticks
  lost,        \* history: a record went to a file that had been removed
  late         \* history: scans begun since stop_clean_routine

control == <<process, starting, flag, thread>>
loop    == <<pc, slept, toVisit, victim>>
sink    == <<exists, age, open, dayOver, lost>>
vars == <<process, starting, flag, thread, pc, slept, toVisit, victim, info, exists,
          age, open, dayOver, toMidnight, lost, late>>

TypeOK ==
  /\ process \in {"up", "exited", "terminated"}
  /\ starting \in BOOLEAN /\ flag \in BOOLEAN
  /\ thread \in {"none", "running", "ended"}
  /\ pc \in {"test", "sleep", "scan", "log", "remove"}
  /\ slept \in 0 .. Sleep
  /\ toVisit \subseteq Files
  /\ victim \in Files \cup {NoFile}
  /\ info \in BOOLEAN
  /\ exists \subseteq Files
  /\ age \in [Files -> 0 .. Cap]
  /\ open \in Files \cup {NoFile}
  /\ dayOver \in BOOLEAN
  /\ toMidnight \in 1 .. Day
  /\ lost \in BOOLEAN
  /\ late \in Nat

Free == Files \ (exists \cup {open})

\* Files of earlier runs may be there, of any age.
Init ==
  /\ process = "up" /\ starting = FALSE /\ flag = FALSE /\ thread = "none"
  /\ pc = "test" /\ slept = 0 /\ toVisit = {} /\ victim = NoFile
  /\ info \in BOOLEAN
  /\ exists \in SUBSET Files /\ exists # Files
  /\ age \in [Files -> 0 .. Cap]
  /\ \A f \in Files \ exists : age[f] = 0
  /\ open = NoFile /\ dayOver = FALSE /\ toMidnight \in 1 .. Day
  /\ lost = FALSE /\ late = 0

-----------------------------------------------------------------------------
(* The sink.                                                               *)

\* Mutant: the file is rotated by its size alone.
Write_PastMidnight ==
  /\ open # NoFile
  /\ age' = [age EXCEPT ![open] = 0]
  /\ lost' = (lost \/ open \notin exists)
  /\ UNCHANGED <<exists, open, dayOver>>


Write ==
  /\ open # NoFile /\ ~dayOver
  /\ age' = [age EXCEPT ![open] = 0]
  /\ lost' = (lost \/ open \notin exists)
  /\ UNCHANGED <<exists, open, dayOver>>

\* There is no open file yet, or midnight has passed since the last record, or
\* the file is full (rotation_size).
Rotate ==
  /\ \E f \in Free :
       /\ open' = f
       /\ exists' = exists \cup {f}
       /\ age' = [age EXCEPT ![f] = 0]
  /\ dayOver' = FALSE
  /\ UNCHANGED lost

\* bound: a file is left for the next record of the thread.
AppRecord ==
  /\ process = "up"
  /\ Write \/ (Cardinality(Free) > 1 /\ Rotate)
  /\ UNCHANGED <<control, loop, info, toMidnight, late>>

-----------------------------------------------------------------------------
(* start_clean_routine, stop_clean_routine, the end of the process.        *)

StartFlag ==
  /\ process = "up" /\ ~starting
  /\ starting' = TRUE
  /\ flag' = FALSE
  /\ late' = 0
  /\ UNCHANGED <<process, thread, loop, info, sink, toMidnight>>

\* Mutant: the flag is cleared after the thread has been made.
StartThread_ClearsFlag ==
  /\ process = "up" /\ starting
  /\ starting' = FALSE
  /\ flag' = FALSE
  /\ \/ thread = "none" /\ thread' = "running" /\ UNCHANGED process
     \/ thread # "none" /\ process' = "terminated" /\ UNCHANGED thread
  /\ UNCHANGED <<loop, info, sink, toMidnight, late>>


\* The assignment destroys the std::thread of an earlier start, which is
\* joinable also when it has ended: std::terminate.
StartThread ==
  /\ process = "up" /\ starting
  /\ starting' = FALSE
  /\ \/ thread = "none" /\ thread' = "running" /\ UNCHANGED process
     \/ thread # "none" /\ process' = "terminated" /\ UNCHANGED thread
  /\ UNCHANGED <<flag, loop, info, sink, toMidnight, late>>

Stop ==
  /\ process = "up"
  /\ ~flag
  /\ flag' = TRUE
  /\ UNCHANGED <<process, starting, thread, loop, info, sink, toMidnight, late>>

\* main returns: the destructor of clean_thread finds a joinable thread too.
Exit ==
  /\ process = "up" /\ ~starting
  /\ process' = IF thread = "none" THEN "exited" ELSE "terminated"
  /\ UNCHANGED <<starting, flag, thread, loop, info, sink, toMidnight, late>>

Over ==
  /\ process # "up"
  /\ UNCHANGED vars

-----------------------------------------------------------------------------
(* The thread.                                                             *)

Running(place) == process = "up" /\ thread = "running" /\ pc = place

\* Mutant: the loop looks at nothing.
Test_Unheeded ==
  /\ Running("test")
  /\ pc' = "sleep" /\ slept' = 0
  /\ UNCHANGED <<control, toVisit, victim, info, sink, toMidnight, late>>


\* The flag is looked at, and "now" is taken, before the sleep.
Test ==
  /\ Running("test")
  /\ \/ flag /\ thread' = "ended" /\ UNCHANGED <<pc, slept>>
     \/ ~flag /\ pc' = "sleep" /\ slept' = 0 /\ UNCHANGED thread
  /\ UNCHANGED <<process, starting, flag, toVisit, victim, info, sink, toMidnight, late>>

BeginScan ==
  /\ Running("sleep")
  /\ slept = Sleep
  /\ pc' = "scan"
  /\ toVisit' = exists
  /\ late' = IF flag THEN late + 1 ELSE late
  /\ UNCHANGED <<control, slept, victim, info, sink, toMidnight>>

\* duration_cast to hours, towards zero.
Hours(t) == IF t >= 0 THEN t \div 2 ELSE -((-t) \div 2)

\* Mutant: the age in hours is rounded up.
TooOld_Up(f) == Hours(age[f] - slept + 1) >= MaxHours


TooOld(f) == Hours(age[f] - slept) >= MaxHours

Visit(f) ==
  /\ Running("scan")
  /\ f \in toVisit
  /\ toVisit' = toVisit \ {f}
  /\ \/ ~TooOld(f) /\ UNCHANGED <<pc, victim>>
     \/ TooOld(f) /\ pc' = "log" /\ victim' = f
  /\ UNCHANGED <<control, slept, info, sink, toMidnight, late>>

\* Mutant: the victim is logged and left where it is.
LogVictim_Only ==
  /\ Running("log")
  /\ pc' = "scan"
  /\ \/ info /\ (Write \/ Rotate)
     \/ ~info /\ UNCHANGED sink
  /\ UNCHANGED <<control, slept, toVisit, victim, info, toMidnight, late>>


\* "delete log:", a record like any other.
LogVictim ==
  /\ Running("log")
  /\ pc' = "remove"
  /\ \/ info /\ (Write \/ Rotate)
     \/ ~info /\ UNCHANGED sink
  /\ UNCHANGED <<control, slept, toVisit, victim, info, toMidnight, late>>

Remove ==
  /\ Running("remove")
  /\ pc' = "scan"
  /\ exists' = exists \ {victim}
  /\ victim' = NoFile
  /\ UNCHANGED <<control, slept, toVisit, info, age, open, dayOver, lost, toMidnight,
                 late>>

EndScan ==
  /\ Running("scan")
  /\ toVisit = {}
  /\ pc' = "test"
  /\ UNCHANGED <<control, slept, toVisit, victim, info, sink, toMidnight, late>>

\* A filesystem_error ends the scan, whatever is left of it, any number of
\* times.  bound: not when the next record would find no file left.
ScanFails ==
  /\ Running("scan") \/ Running("remove")
  /\ Free # {}
  /\ pc' = "test"
  /\ toVisit' = {} /\ victim' = NoFile
  /\ UNCHANGED <<control, slept, info, sink, toMidnight, late>>

-----------------------------------------------------------------------------
Older(t) == IF t < Cap THEN t + 1 ELSE t

Tick ==
  /\ process = "up" /\ ~starting
  /\ thread = "running" => pc = "sleep" /\ slept < Sleep
  /\ slept' = IF thread = "running" THEN slept + 1 ELSE slept
  /\ age' = [f \in Files |-> IF f \in Free THEN 0 ELSE Older(age[f])]
  /\ dayOver' = (dayOver \/ toMidnight = 1)
  /\ toMidnight' = IF toMidnight = 1 THEN Day ELSE toMidnight - 1
  /\ UNCHANGED <<control, pc, toVisit, victim, info, exists, open, lost, late>>

Cleaner == Test \/ BeginScan \/ (\E f \in Files : Visit(f)) \/ LogVictim \/ Remove
           \/ EndScan

Next == AppRecord \/ StartFlag \/ StartThread \/ Stop \/ Exit \/ Over
        \/ Cleaner \/ ScanFails \/ Tick

Spec == Init /\ [][Next]_vars

\* Threads run, and time passes.
FairSpec == Spec /\ WF_vars(Cleaner) /\ WF_vars(StartThread) /\ WF_vars(Tick)

-----------------------------------------------------------------------------
(* Safety.                                                                 *)

Rotated == MaxHours >= DayHours

\* With an age of a day or more, no record goes to a file that is gone: the
\* open file may be removed under the sink, but only after a midnight, and
\* the next record opens another (line 26 against lines 50-52).
NothingLost == Rotated => ~lost

\* A file is removed only when nothing has been written to it for max_age and
\* the sleep, for "now" is as old as the sleep, and not in the steps between
\* looking at it and removing it either.
YoungKept ==
  [][Rotated => \A f \in exists \ exists' : age[f] >= 2 * MaxHours + Sleep]_vars

\* After a stop at most one scan begins: the one whose sleep it came in.
OneScanAfterStop == late <= 1

(* The inductive invariant.                                                *)

ThreadInv ==
  /\ thread # "running" => pc = "test"
  /\ pc \in {"scan", "log", "remove"} => slept = Sleep
  /\ toVisit \subseteq exists

VictimInv ==
  pc \in {"log", "remove"} => victim \in exists \ toVisit

\* What the scan has found too old is not the file that records go to.
OldInv ==
  pc \in {"log", "remove"} =>
    age[victim] >= 2 * MaxHours + Sleep /\ (victim = open => dayOver)

SinkInv ==
  /\ open # NoFile /\ ~dayOver => open \in exists /\ age[open] <= Day - toMidnight
  /\ ~lost

LateInv == late \in {0, 1} /\ (late = 1 => flag /\ pc # "sleep")

IInv == TypeOK /\ ThreadInv /\ VictimInv /\ LateInv /\ (Rotated => OldInv /\ SinkInv)

-----------------------------------------------------------------------------
(* Liveness, under FairSpec.                                               *)

\* A stop ends the thread, also when it comes between the two assignments of
\* a start (lines 40-41), unless the process ends first; and it does when
\* another start takes the stop back before the thread has seen it.
StopEnds ==
  flag /\ (starting \/ thread = "running") ~> (thread = "ended" \/ process # "up")

\* While the thread runs a file that is old enough goes, or else it is written
\* to again, unless scans are ended by an error again and again: errors do no
\* lasting harm to the files that were behind the failing one.
Due(f) == f \in exists /\ age[f] = Cap /\ thread = "running" /\ process = "up"
OldRemoved == ([]<><<ScanFails>>_vars) \/ \A f \in Files : Due(f) ~> ~Due(f)
=============================================================================
