-------------------------- MODULE LogCleanerProofs --------------------------
(***************************************************************************)
(* The safety properties of LogCleaner, for any number of files, any       *)
(* max_age, sleep and interval of rotation.                                *)
(***************************************************************************)
EXTENDS LogCleaner, TLAPS

\* The cast to hours rounds towards zero: with a positive limit, an age that
\* reaches the limit in hours reaches it exactly.
LEMMA HoursReach ==
  ASSUME NEW t \in Int, NEW m \in Int, m >= 1, Hours(t) >= m
  PROVE  t >= 2 * m
<1>1. CASE t >= 0
  BY <1>1 DEF Hours
<1>2. CASE t < 0
  <2>1. (-t) \div 2 >= 0
    BY <1>2
  <2>2. (-t) \div 2 \in Int
    OBVIOUS
  <2>3. -((-t) \div 2) <= 0
    BY <2>1, <2>2
  <2>4. Hours(t) = -((-t) \div 2)
    BY <1>2 DEF Hours
  <2>5. QED
    BY <2>3, <2>4, <2>2
<1>3. QED
  BY <1>1, <1>2

\* The sleep and the day are whole numbers of ticks.
LEMMA Times == Sleep \in Nat /\ Day \in Nat /\ Sleep >= 1 /\ Day >= 1
BY TimeAssumption DEF Sleep, Day

\* The invariant holds when the process starts, whatever files it finds.
LEMMA InitIInv == Init => IInv
<1> SUFFICES ASSUME Init PROVE IInv
  OBVIOUS
<1>1. TypeOK
  <2>1. slept = 0 /\ 0 \in 0 .. Sleep
    BY Times DEF Init
  <2>2. process \in {"up"} /\ thread \in {"none"} /\ pc \in {"test"}
    BY DEF Init
  <2>3. /\ toVisit \subseteq Files /\ victim \in Files \cup {NoFile} /\ exists \subseteq Files
        /\ age \in [Files -> 0 .. Cap] /\ open \in Files \cup {NoFile}
        /\ toMidnight \in 1 .. Day /\ late \in Nat
    BY DEF Init
  <2>4. /\ starting \in BOOLEAN /\ flag \in BOOLEAN /\ info \in BOOLEAN
        /\ dayOver \in BOOLEAN /\ lost \in BOOLEAN
    BY DEF Init
  <2>5. QED
    BY <2>1, <2>2, <2>3, <2>4 DEF TypeOK
<1>2. ThreadInv /\ VictimInv /\ LateInv /\ OldInv /\ SinkInv
  BY DEF Init, ThreadInv, VictimInv, LateInv, OldInv, SinkInv
<1>3. QED
  BY <1>1, <1>2 DEF IInv

\* What a record does: it keeps the invariant of the sink, leaves the victim
\* and everything yet to be visited where they are, and does not make the
\* victim any younger.
LEMMA RecordKeeps ==
  ASSUME IInv, Write \/ Rotate, UNCHANGED toMidnight
  PROVE  /\ exists' \subseteq Files /\ exists \subseteq exists'
         /\ age' \in [Files -> 0 .. Cap]
         /\ open' \in Files \cup {NoFile}
         /\ dayOver' = FALSE /\ lost' \in BOOLEAN
         /\ Rotated /\ pc \in {"log", "remove"} =>
              age'[victim] = age[victim] /\ victim # open'
         /\ Rotated =>
              /\ open' \in exists' /\ age'[open'] <= Day - toMidnight'
              /\ ~lost'
<1>1. /\ exists \subseteq Files /\ age \in [Files -> 0 .. Cap] /\ lost \in BOOLEAN
      /\ open \in Files \cup {NoFile} /\ toMidnight \in 1 .. Day /\ dayOver \in BOOLEAN
  BY DEF IInv, TypeOK
<1>2. 0 \in 0 .. Cap /\ 0 <= Day - toMidnight
  BY <1>1, Times, TimeAssumption
<1>3. pc \in {"log", "remove"} => victim \in exists
  BY DEF IInv, VictimInv
<1>4. CASE Write
  <2>1. open \in Files /\ ~dayOver /\ age' = [age EXCEPT ![open] = 0]
    BY <1>1, <1>4 DEF Write
  <2>2. Rotated => open \in exists /\ ~lost /\ (pc \in {"log", "remove"} => victim # open)
    BY <1>4, <2>1 DEF IInv, OldInv, SinkInv, Write
  <2>3. exists' = exists /\ open' = open /\ dayOver' = dayOver /\ lost' = (lost \/ open \notin exists)
    BY <1>4 DEF Write
  <2>4. age' \in [Files -> 0 .. Cap] /\ age'[open] = 0
    BY <1>1, <1>2, <2>1
  <2>5. \A f \in Files : f # open => age'[f] = age[f]
    BY <1>1, <2>1
  <2>6. QED
    BY <1>1, <1>2, <1>3, <2>1, <2>2, <2>3, <2>4, <2>5
<1>5. CASE Rotate
  <2>1. PICK f \in Free : /\ open' = f
                          /\ exists' = exists \cup {f}
                          /\ age' = [age EXCEPT ![f] = 0]
    BY <1>5 DEF Rotate
  <2>2. f \in Files /\ f \notin exists
    BY <2>1 DEF Free
  <2>3. dayOver' = FALSE /\ lost' = lost
    BY <1>5 DEF Rotate
  <2>4. age' \in [Files -> 0 .. Cap] /\ age'[f] = 0
    BY <1>1, <1>2, <2>1, <2>2
  <2>5. \A g \in Files : g # f => age'[g] = age[g]
    BY <1>1, <2>1
  <2>6. Rotated => ~lost
    BY DEF IInv, SinkInv
  <2>7. QED
    BY <1>1, <1>2, <1>3, <2>1, <2>2, <2>3, <2>4, <2>5, <2>6
<1>6. QED
  BY <1>4, <1>5

\* The parts of the invariant that a record cannot disturb follow from what it
\* leaves alone: the sink is the same, or a record has been written to it.
LEMMA SinkMoves ==
  ASSUME IInv, UNCHANGED toMidnight, UNCHANGED sink \/ Write \/ Rotate
  PROVE  /\ exists' \subseteq Files /\ exists \subseteq exists'
         /\ age' \in [Files -> 0 .. Cap]
         /\ open' \in Files \cup {NoFile}
         /\ dayOver' \in BOOLEAN /\ lost' \in BOOLEAN
         /\ Rotated => SinkInv'
         /\ Rotated /\ pc \in {"log", "remove"} =>
              age'[victim] >= 2 * MaxHours + Sleep /\ (victim = open' => dayOver')
<1>1. CASE UNCHANGED sink
  BY <1>1 DEF IInv, TypeOK, SinkInv, OldInv, sink
<1>2. CASE Write \/ Rotate
  <2>1. Rotated => SinkInv'
    BY <1>2, RecordKeeps DEF SinkInv
  <2>2. Rotated /\ pc \in {"log", "remove"} =>
              age'[victim] >= 2 * MaxHours + Sleep /\ (victim = open' => dayOver')
    BY <1>2, RecordKeeps DEF IInv, OldInv
  <2>3. QED
    BY <1>2, <2>1, <2>2, RecordKeeps
<1>3. QED
  BY <1>1, <1>2

\* Every step of the application, the thread and the clock keeps the invariant.
LEMMA StepIInv == IInv /\ [Next]_vars => IInv'
<1> SUFFICES ASSUME IInv, [Next]_vars PROVE IInv'
  OBVIOUS
<1> USE DEF IInv
<1>0. /\ Sleep \in Nat /\ Day \in Nat /\ Sleep >= 1 /\ Day >= 1
      /\ MaxHours \in Int /\ Cap \in Nat
  BY Times, TimeAssumption
<1>1. CASE AppRecord
  <2>1. /\ UNCHANGED <<control, loop, info, toMidnight, late>>
        /\ Write \/ Rotate
    BY <1>1 DEF AppRecord
  <2>2. TypeOK'
    BY <2>1, SinkMoves DEF TypeOK, control, loop
  <2>3. ThreadInv' /\ VictimInv' /\ LateInv'
    BY <2>1, SinkMoves DEF ThreadInv, VictimInv, LateInv, control, loop
  <2>4. Rotated => OldInv' /\ SinkInv'
    BY <2>1, SinkMoves DEF OldInv, control, loop
  <2>5. QED
    BY <2>2, <2>3, <2>4 DEF Rotated
<1>2. CASE StartFlag \/ StartThread \/ Stop \/ Exit \/ Over
  <2>1. UNCHANGED <<loop, info, sink, toMidnight>>
    BY <1>2 DEF StartFlag, StartThread, Stop, Exit, Over, vars, loop, sink
  <2>2. thread' = thread \/ (thread = "none" /\ thread' = "running")
    BY <1>2 DEF StartFlag, StartThread, Stop, Exit, Over, vars
  <2>3. /\ process' \in {"up", "exited", "terminated"} /\ starting' \in BOOLEAN
        /\ flag' \in BOOLEAN /\ late' \in Nat
    <3>1. CASE StartFlag
      BY <3>1 DEF StartFlag, TypeOK
    <3>2. CASE StartThread
      <4>1. /\ process' \in {process, "terminated"} /\ starting' = FALSE
            /\ flag' = flag /\ late' = late
        BY <3>2 DEF StartThread
      <4>2. QED
        BY <4>1 DEF TypeOK
    <3>3. CASE Stop
      BY <3>3 DEF Stop, TypeOK
    <3>4. CASE Exit
      <4>1. /\ process' \in {"exited", "terminated"} /\ starting' = starting
            /\ flag' = flag /\ late' = late
        BY <3>4 DEF Exit
      <4>2. QED
        BY <4>1 DEF TypeOK
    <3>5. CASE Over
      BY <3>5 DEF Over, vars, TypeOK
    <3>6. QED
      BY <1>2, <3>1, <3>2, <3>3, <3>4, <3>5
  <2>4. late' = 0 \/ (late' = late /\ (flag => flag'))
    BY <1>2 DEF StartFlag, StartThread, Stop, Exit, Over, vars
  <2>5. TypeOK'
    BY <2>1, <2>2, <2>3 DEF TypeOK, loop, sink
  <2>6. ThreadInv' /\ VictimInv' /\ LateInv'
    BY <2>1, <2>2, <2>4 DEF ThreadInv, VictimInv, LateInv, loop, sink
  <2>7. Rotated => OldInv' /\ SinkInv'
    BY <2>1 DEF OldInv, SinkInv, loop, sink
  <2>8. QED
    BY <2>5, <2>6, <2>7 DEF Rotated
<1>3. CASE Test
  <2>1. UNCHANGED <<process, starting, flag, toVisit, victim, info, sink, toMidnight, late>>
    BY <1>3 DEF Test
  <2>2. /\ pc = "test" /\ thread = "running"
        /\ \/ flag /\ thread' = "ended" /\ UNCHANGED <<pc, slept>>
           \/ ~flag /\ pc' = "sleep" /\ slept' = 0 /\ UNCHANGED thread
    BY <1>3 DEF Test, Running
  <2>3. TypeOK'
    BY <1>0, <2>1, <2>2 DEF TypeOK, sink
  <2>4. ThreadInv' /\ VictimInv' /\ LateInv'
    BY <2>1, <2>2 DEF ThreadInv, VictimInv, LateInv, sink
  <2>5. Rotated => OldInv' /\ SinkInv'
    BY <2>1, <2>2 DEF OldInv, SinkInv, sink
  <2>6. QED
    BY <2>3, <2>4, <2>5 DEF Rotated
<1>4. CASE BeginScan
  <2>1. UNCHANGED <<control, slept, victim, info, sink, toMidnight>>
    BY <1>4 DEF BeginScan
  <2>2. /\ pc = "sleep" /\ thread = "running" /\ slept = Sleep /\ pc' = "scan"
        /\ toVisit' = exists /\ late' = IF flag THEN late + 1 ELSE late
    BY <1>4 DEF BeginScan, Running
  <2>3. late = 0
    BY <2>2 DEF LateInv
  <2>4. TypeOK'
    BY <2>1, <2>2, <2>3 DEF TypeOK, control, sink
  <2>5. ThreadInv' /\ VictimInv' /\ LateInv'
    BY <2>1, <2>2, <2>3 DEF ThreadInv, VictimInv, LateInv, control, sink
  <2>6. Rotated => OldInv' /\ SinkInv'
    BY <2>1, <2>2 DEF OldInv, SinkInv, sink
  <2>7. QED
    BY <2>4, <2>5, <2>6 DEF Rotated
<1>5. ASSUME NEW f \in Files, Visit(f) PROVE IInv'
  <2>1. UNCHANGED <<control, slept, info, sink, toMidnight, late>>
    BY <1>5 DEF Visit
  <2>2. /\ pc = "scan" /\ thread = "running" /\ f \in toVisit /\ toVisit' = toVisit \ {f}
        /\ \/ UNCHANGED <<pc, victim>>
           \/ TooOld(f) /\ pc' = "log" /\ victim' = f
    BY <1>5 DEF Visit, Running
  <2>3. TypeOK'
    BY <2>1, <2>2 DEF TypeOK, control, sink
  <2>4. ThreadInv' /\ VictimInv' /\ LateInv'
    BY <2>1, <2>2 DEF ThreadInv, VictimInv, LateInv, control, sink
  <2>5. ASSUME Rotated, TooOld(f)
        PROVE  age[f] >= 2 * MaxHours + Sleep /\ (f = open => dayOver)
    <3>1. slept = Sleep /\ age[f] \in Nat /\ age[f] - slept \in Int
      BY <1>0, <2>2 DEF ThreadInv, TypeOK
    <3>2. MaxHours >= 1 /\ Day = 2 * DayHours /\ DayHours \in Nat /\ MaxHours >= DayHours
      BY <2>5, TimeAssumption DEF Rotated, Day
    <3>3. age[f] - slept >= 2 * MaxHours
      BY <1>0, <2>5, <3>1, <3>2, HoursReach DEF TooOld
    <3>4. age[f] >= 2 * MaxHours + Sleep
      BY <1>0, <3>1, <3>3
    <3>5. f = open /\ ~dayOver => age[f] <= Day - toMidnight
      BY <2>5, FileAssumption DEF SinkInv
    <3>6. toMidnight \in 1 .. Day
      BY DEF TypeOK
    <3>7. ~(age[f] <= Day - toMidnight)
      BY <1>0, <3>1, <3>2, <3>4, <3>6
    <3>8. QED
      BY <3>4, <3>5, <3>7
  <2>6. Rotated => OldInv' /\ SinkInv'
    <3>1. ASSUME Rotated PROVE OldInv'
      BY <2>1, <2>2, <2>5, <3>1 DEF OldInv, sink
    <3>2. Rotated => SinkInv'
      BY <2>1 DEF SinkInv, sink
    <3>3. QED
      BY <3>1, <3>2
  <2>7. QED
    BY <2>3, <2>4, <2>6 DEF Rotated
<1>6. CASE LogVictim
  <2>1. UNCHANGED <<control, slept, toVisit, victim, info, toMidnight, late>>
    BY <1>6 DEF LogVictim
  <2>2. /\ pc = "log" /\ thread = "running" /\ pc' = "remove"
        /\ UNCHANGED sink \/ Write \/ Rotate
    BY <1>6 DEF LogVictim, Running
  <2>3. TypeOK'
    BY <2>1, <2>2, SinkMoves DEF TypeOK, control
  <2>4. ThreadInv' /\ VictimInv' /\ LateInv'
    BY <2>1, <2>2, SinkMoves DEF ThreadInv, VictimInv, LateInv, control
  <2>5. Rotated => OldInv' /\ SinkInv'
    BY <2>1, <2>2, SinkMoves DEF OldInv
  <2>6. QED
    BY <2>3, <2>4, <2>5 DEF Rotated
<1>7. CASE Remove
  <2>1. UNCHANGED <<control, slept, toVisit, info, age, open, dayOver, lost, toMidnight, late>>
    BY <1>7 DEF Remove
  <2>2. pc = "remove" /\ thread = "running" /\ pc' = "scan"
        /\ exists' = exists \ {victim} /\ victim' = NoFile
    BY <1>7 DEF Remove, Running
  <2>3. TypeOK'
    BY <2>1, <2>2 DEF TypeOK, control
  <2>4. ThreadInv' /\ VictimInv' /\ LateInv'
    BY <2>1, <2>2 DEF ThreadInv, VictimInv, LateInv, control
  <2>5. Rotated => OldInv' /\ SinkInv'
    BY <2>1, <2>2 DEF OldInv, SinkInv
  <2>6. QED
    BY <2>3, <2>4, <2>5 DEF Rotated
<1>8. CASE EndScan \/ ScanFails
  <2>1. UNCHANGED <<control, slept, info, sink, toMidnight, late>>
    BY <1>8 DEF EndScan, ScanFails
  <2>2. /\ pc \in {"scan", "remove"} /\ thread = "running" /\ pc' = "test"
        /\ toVisit' \in {toVisit, {}} /\ victim' \in {victim, NoFile}
    BY <1>8 DEF EndScan, ScanFails, Running
  <2>3. TypeOK'
    BY <2>1, <2>2 DEF TypeOK, control, sink
  <2>4. ThreadInv' /\ VictimInv' /\ LateInv'
    BY <2>1, <2>2 DEF ThreadInv, VictimInv, LateInv, control, sink
  <2>5. Rotated => OldInv' /\ SinkInv'
    BY <2>1, <2>2 DEF OldInv, SinkInv, sink
  <2>6. QED
    BY <2>3, <2>4, <2>5 DEF Rotated
<1>9. CASE Tick
  <2>1. UNCHANGED <<control, pc, toVisit, victim, info, exists, open, lost, late>>
    BY <1>9 DEF Tick
  <2>2. /\ thread = "running" => pc = "sleep" /\ slept < Sleep
        /\ slept' = IF thread = "running" THEN slept + 1 ELSE slept
        /\ age' = [f \in Files |-> IF f \in Free THEN 0 ELSE Older(age[f])]
        /\ dayOver' = (dayOver \/ toMidnight = 1)
        /\ toMidnight' = IF toMidnight = 1 THEN Day ELSE toMidnight - 1
    BY <1>9 DEF Tick
  <2>3. \A f \in Files : age'[f] \in 0 .. Cap /\ (f \notin Free => age'[f] <= age[f] + 1)
    BY <1>0, <2>2 DEF Older, TypeOK
  <2>4. slept' \in 0 .. Sleep /\ toMidnight' \in 1 .. Day /\ dayOver' \in BOOLEAN
    BY <1>0, <2>2 DEF TypeOK
  <2>5. age' \in [Files -> 0 .. Cap]
    BY <2>2, <2>3
  <2>6. TypeOK'
    BY <2>1, <2>4, <2>5 DEF TypeOK, control
  <2>7. pc \in {"test", "sleep"}
    BY <2>2 DEF ThreadInv, TypeOK
  <2>8. ThreadInv' /\ VictimInv' /\ LateInv'
    BY <2>1, <2>7 DEF ThreadInv, VictimInv, LateInv, control
  <2>9. Rotated => OldInv'
    BY <2>1, <2>7 DEF OldInv
  <2>10. ASSUME Rotated PROVE SinkInv'
    <3>1. ASSUME open # NoFile, ~dayOver'
          PROVE  open \in exists /\ age'[open] <= Day - toMidnight'
      <4>1. ~dayOver /\ toMidnight # 1
        BY <2>2, <3>1
      <4>2. open \in Files /\ open \notin Free /\ open \in exists /\ age[open] <= Day - toMidnight
        BY <2>10, <3>1, <4>1 DEF SinkInv, TypeOK, Free
      <4>3. age'[open] <= age[open] + 1
        BY <2>3, <4>2
      <4>4. toMidnight' = toMidnight - 1
        BY <2>2, <4>1
      <4>5. age[open] \in Nat /\ age'[open] \in Nat /\ toMidnight \in Nat
        BY <1>0, <2>3, <4>2 DEF TypeOK
      <4>6. Day - (toMidnight - 1) = (Day - toMidnight) + 1
        BY <1>0, <4>5
      <4>7. QED
        BY <1>0, <4>2, <4>3, <4>4, <4>5, <4>6
    <3>2. QED
      BY <2>1, <2>10, <3>1 DEF SinkInv
  <2>11. QED
    BY <2>6, <2>8, <2>9, <2>10 DEF Rotated
<1>10. CASE UNCHANGED vars
  BY <1>10 DEF vars, TypeOK, ThreadInv, VictimInv, LateInv, OldInv, SinkInv, Rotated
<1>11. QED
  BY <1>1, <1>2, <1>3, <1>4, <1>5, <1>6, <1>7, <1>8, <1>9, <1>10 DEF Next, Cleaner

\* The cleaner and the sink keep to IInv.
THEOREM Invariance == Spec => []IInv
<1>1. IInv /\ [Next]_vars => IInv'
  BY StepIInv
<1>2. QED
  BY InitIInv, <1>1, PTL DEF Spec

-----------------------------------------------------------------------------
(* The theorems.                                                           *)

\* No record goes to a file that the thread has removed, when a file may grow
\* at least a day old (Log.cpp 26, 50-52).
THEOREM RecordsAreKept == Spec => []NothingLost
<1>1. IInv => NothingLost
  BY DEF IInv, SinkInv, NothingLost
<1>2. QED
  BY Invariance, <1>1, PTL

\* After stop_clean_routine at most one scan begins (42-44, 64).
THEOREM OneMoreScan == Spec => []OneScanAfterStop
<1>1. IInv => OneScanAfterStop
  BY DEF IInv, LateInv, OneScanAfterStop
<1>2. QED
  BY Invariance, <1>1, PTL

\* Remove is the step that takes files away, and OldInv knows their age.
LEMMA RemovesOld ==
  ASSUME IInv, [Next]_vars
  PROVE  [Rotated => \A f \in exists \ exists' : age[f] >= 2 * MaxHours + Sleep]_vars
<1> SUFFICES ASSUME Rotated, NEW f \in exists \ exists'
             PROVE  age[f] >= 2 * MaxHours + Sleep
  OBVIOUS
<1>1. CASE Remove
  BY <1>1 DEF Remove, Running, IInv, OldInv
<1>2. CASE ~Remove
  <2>1. exists \subseteq exists'
    BY <1>2 DEF Next, Cleaner, AppRecord, Write, Rotate, StartFlag, StartThread, Stop, Exit,
                Over, Test, BeginScan, Visit, LogVictim, EndScan, ScanFails, Tick, sink, vars
  <2>2. QED
    BY <2>1
<1>3. QED
  BY <1>1, <1>2

\* A file the thread removes has had no record for max_age and the sleep
\* (43, 48-52).
THEOREM OnlyOldRemoved == Spec => YoungKept
<1>1. IInv /\ [Next]_vars =>
        [Rotated => \A f \in exists \ exists' : age[f] >= 2 * MaxHours + Sleep]_vars
  BY RemovesOld
<1>2. QED
  BY Invariance, <1>1, PTL DEF Spec, YoungKept
=============================================================================
