-------------------------- MODULE UploadTaskProofs --------------------------
(***************************************************************************)
(* The invariants of UploadTask, for any callers, tasks, files and pools.  *)
(***************************************************************************)
EXTENDS UploadTask, FiniteSetTheorems, TLAPS

\* The steps of one caller, and of one job, one by one.
LEMMA Cases ==
  ASSUME [Next]_vars
  PROVE  \/ \E c \in Callers, t \in Tasks : Fetch(c, t)
         \/ \E c \in Callers :
              \/ Enter(c) \/ CreatePool(c) \/ DestroyPool(c) \/ SetUrl(c) \/ Skip(c) \/ Mark(c)
              \/ \E f \in Files : Scan(c, f)
              \/ \E j \in handed : Exec(c, j)
              \/ BeginWait(c) \/ AllDone(c) \/ Strays(c) \/ Check(c)
              \/ SendEnd(c) \/ Extract(c) \/ Retry(c)
              \/ NullPool(c)
         \/ \E j \in queued : JobStarts(j)
         \/ \E j \in running : JobDone(j) \/ JobFails(j)
         \/ StopPool \/ ResetPool
         \/ Crash
         \/ UNCHANGED vars
BY DEF Next, Step, Acts, Pool

\* A job names the row it sends, its caller and a pool.
LEMMA JobRow ==
  ASSUME NEW j \in Jobs
  PROVE  /\ Row(j) \in Rows
         /\ j[1] \in Pools /\ j[1] # None
         /\ j[2] \in Callers /\ j[3] \in Tasks /\ j[4] \in Files
         /\ j = <<j[1], j[2], j[3], j[4]>>
BY PoolAssumption DEF Jobs, Rows, Row

\* The name a new pool gets is nobody's.
LEMMA FreshIsNew ==
  ASSUME ~(Pools \subseteq InUse)
  PROVE  /\ Fresh \in Pools
         /\ Fresh # pool /\ Fresh # stopped
         /\ \A j \in handed \cup running : j[1] # Fresh
<1>1. Fresh \in Pools \ InUse
  BY DEF Fresh
<1>2. QED
  BY <1>1 DEF InUse

\* At the beginning nobody holds a task, and every task waits.
LEMMA InitIInv == Init => IInv
<1> SUFFICES ASSUME Init PROVE IInv
  OBVIOUS
<1>1. TypeOK
  <2>1. /\ pool \in Pools \cup {None} /\ stopped \in Pools \cup {None}
        /\ mine \in [Callers -> Pools \cup {None}]
        /\ named \in BOOLEAN /\ crashed \in BOOLEAN
    BY DEF Init
  <2>2. /\ state \in [Tasks -> States] /\ copy \in [Callers -> States]
        /\ pc \in [Callers -> {"idle"} \cup Entering \cup Working]
        /\ toScan \in [Callers -> SUBSET Files]
    BY DEF Init, States
  <2>3. /\ task \in [Callers -> Tasks \cup {None}]
        /\ \A c \in Callers : task[c] = None <=> At(c, "idle")
    BY DEF Init, At
  <2>4. completed \subseteq Rows /\ handed \subseteq Jobs /\ queued \subseteq Jobs
        /\ running \subseteq Jobs
    BY DEF Init
  <2>5. ended \subseteq Tasks /\ orphaned \subseteq Tasks /\ faults \in 0 .. MaxFaults
    BY PoolAssumption DEF Init
  <2>6. QED
    BY <2>1, <2>2, <2>3, <2>4, <2>5 DEF TypeOK
<1>2. ExtractIsComplete /\ JobsWithinCall /\ TransferHasCaller
  BY CallerAssumption DEF Init, ExtractIsComplete, Kept, JobsWithinCall, TransferHasCaller
<1>3. EndIsComplete /\ Apart
  BY CallerAssumption, TasksAssumption DEF Init, EndIsComplete, Apart, Kept
<1>4. LostClock
  <2>1. Lost = {}
    BY DEF Init, Lost, Unheard, At
  <2>2. QED
    BY <2>1, FS_EmptySet, PoolAssumption DEF Init, LostClock
<1>5. OneJob /\ SendsAreNew /\ Placed /\ Handing
  BY DEF Init, OneJob, SendsAreNew, Placed, Handing
<1>6. QED
  BY <1>1, <1>2, <1>3, <1>4, <1>5 DEF IInv

-----------------------------------------------------------------------------
\* Every step keeps the types.
LEMMA TypeStep == TypeOK /\ [Next]_vars => TypeOK'
<1> SUFFICES ASSUME TypeOK, [Next]_vars PROVE TypeOK'
  OBVIOUS
<1> USE PoolAssumption, TasksAssumption, FilesAssumption DEF TypeOK, States, Entering,
   Working, rows, call, service, jobs, history, At, Goto, Return, Fault
<1>1. ASSUME NEW c \in Callers, NEW t \in Tasks, Fetch(c, t) PROVE TypeOK'
  BY <1>1 DEF Fetch
<1>2. ASSUME NEW c \in Callers, Enter(c) \/ SetUrl(c) \/ Skip(c) PROVE TypeOK'
  BY <1>2 DEF Enter, SetUrl, Skip
<1>3. ASSUME NEW c \in Callers, DestroyPool(c) \/ BeginWait(c) PROVE TypeOK'
  BY <1>3 DEF DestroyPool, BeginWait
<1>4. ASSUME NEW p \in Pools \cup {None}, Swap(p)
      PROVE  /\ pool' \in Pools \cup {None} /\ queued' \subseteq Jobs
             /\ orphaned' \subseteq Tasks
  BY <1>4, CallerAssumption, Zenon DEF Swap
<1>5. ASSUME NEW c \in Callers, CreatePool(c) PROVE TypeOK'
  <2>1. Swap(Fresh) /\ Fresh \in Pools \cup {None}
    BY <1>5, FreshIsNew DEF CreatePool
  <2>2. QED
    BY <1>4, <1>5, <2>1 DEF CreatePool
<1>6. ASSUME NEW c \in Callers, Mark(c) PROVE TypeOK'
  BY <1>6 DEF Mark
<1>7. ASSUME NEW c \in Callers, NEW f \in Files, Scan(c, f) PROVE TypeOK'
  <2>1. toScan' \in [Callers -> SUBSET Files] /\ UNCHANGED <<task, pool, completed>>
    BY <1>7 DEF Scan
  <2>2. pc' \in [Callers -> {"idle"} \cup Entering \cup Working] /\ At(c, "scan")
        /\ \A d \in Callers : At(d, "idle")' <=> At(d, "idle")
    BY <1>7 DEF Scan
  <2>3. handed' \subseteq Jobs
    <3>1. CASE handed' = handed
      BY <3>1
    <3>2. CASE pool # None /\ handed' = handed \cup {<<pool, c, task[c], f>>}
      <4>1. <<pool, c, task[c], f>> \in Jobs
        BY <2>2, <3>2 DEF Jobs
      <4>2. QED
        BY <3>2, <4>1
    <3>3. QED
      BY <1>7, <3>1, <3>2 DEF Scan
  <2>4. QED
    BY <1>7, <2>1, <2>2, <2>3 DEF Scan
<1>8. ASSUME NEW c \in Callers, NEW j \in handed, Exec(c, j) PROVE TypeOK'
  BY <1>8 DEF Exec
<1>9. ASSUME NEW c \in Callers, AllDone(c) \/ Strays(c) PROVE TypeOK'
  BY <1>9 DEF AllDone, Strays, Stranded, EndWait
<1>10. ASSUME NEW c \in Callers, Check(c) PROVE TypeOK'
  BY <1>10 DEF Check
<1>11. ASSUME NEW c \in Callers, SendEnd(c) PROVE TypeOK'
  BY <1>11 DEF SendEnd
<1>12. ASSUME NEW c \in Callers, Extract(c) \/ Retry(c) PROVE TypeOK'
  BY <1>12 DEF Extract, Retry
<1>13. ASSUME NEW j \in queued, JobStarts(j) PROVE TypeOK'
  BY <1>13 DEF JobStarts
<1>14. ASSUME NEW j \in running, JobDone(j) PROVE TypeOK'
  <2>1. Row(j) \in Rows
    BY JobRow
  <2>2. QED
    BY <1>14, <2>1 DEF JobDone, JobEnds
<1>15. ASSUME NEW j \in running, JobFails(j) PROVE TypeOK'
  <2>1. completed' \subseteq completed /\ faults' \in 0 .. MaxFaults
    BY <1>15 DEF JobFails
  <2>2. running' \subseteq Jobs
    BY <1>15 DEF JobFails, JobEnds
  <2>3. UNCHANGED <<state, pc, task, copy, toScan, pool, stopped, mine, named, handed, queued,
                    ended, orphaned, crashed>>
    BY <1>15 DEF JobFails, JobEnds
  <2>4. QED
    BY <2>1, <2>2, <2>3
<1>16. CASE StopPool
  BY <1>16 DEF StopPool
<1>17. CASE ResetPool
  <2>1. Swap(None) /\ stopped' = None
    BY <1>17 DEF ResetPool
  <2>2. QED
    BY <1>4, <1>17, <2>1 DEF ResetPool
<1>18. ASSUME Restart, faults' \in 0 .. MaxFaults PROVE TypeOK'
  BY <1>18 DEF Restart
<1>19. ASSUME NEW c \in Callers, NullPool(c) PROVE TypeOK'
  BY <1>18, <1>19 DEF NullPool
<1>20. CASE Crash
  BY <1>18, <1>20 DEF Crash
<1>21. CASE UNCHANGED vars
  BY <1>21 DEF vars
<1>22. QED
  BY Cases, <1>1, <1>2, <1>3, <1>5, <1>6, <1>7, <1>8, <1>9, <1>10, <1>11, <1>12, <1>13, <1>14,
     <1>15, <1>16, <1>17, <1>19, <1>20, <1>21

\* The variables keep their types.
THEOREM TypeCorrect == Spec => []TypeOK
<1>1. Init => TypeOK
  BY InitIInv DEF IInv
<1>2. QED
  BY <1>1, TypeStep, PTL DEF Spec
-----------------------------------------------------------------------------
\* What has not started waits in the pool of the pointer, and what a replaced
\* pool was running is remembered.
LEMMA PlacedStep == TypeOK /\ Placed /\ [Next]_vars => Placed'
<1> SUFFICES ASSUME TypeOK, Placed, [Next]_vars PROVE Placed'
  OBVIOUS
<1> USE DEF Placed, Live, Kept, TypeOK, rows, call, service, jobs, history
<1>1. ASSUME UNCHANGED <<pool, stopped, orphaned>>,
             running' \subseteq running \cup queued, \A j \in queued' : Live(j[1])
      PROVE  Placed'
  BY <1>1
<1>2. ASSUME NEW p, Swap(p), UNCHANGED running PROVE Placed'
  BY <1>2 DEF Swap
<1>3. ASSUME NEW c \in Callers, CreatePool(c) PROVE Placed'
  BY <1>2, <1>3 DEF CreatePool
<1>4. CASE ResetPool
  BY <1>2, <1>4 DEF ResetPool
<1>5. CASE StopPool
  BY <1>5 DEF StopPool
<1>6. ASSUME NEW c \in Callers, NEW j \in handed, Exec(c, j) PROVE Placed'
  BY <1>1, <1>6 DEF Exec
<1>7. ASSUME NEW c \in Callers,
             \/ \E t \in Tasks : Fetch(c, t)
             \/ Enter(c) \/ DestroyPool(c) \/ SetUrl(c) \/ Skip(c) \/ Mark(c)
             \/ \E f \in Files : Scan(c, f)
             \/ BeginWait(c) \/ AllDone(c) \/ Strays(c) \/ Check(c)
             \/ SendEnd(c) \/ Extract(c) \/ Retry(c)
      PROVE  Placed'
  <2>1. UNCHANGED <<pool, stopped, orphaned, queued, running>>
    BY <1>7 DEF Fetch, Enter, DestroyPool, SetUrl, Skip, Mark, Scan, BeginWait, AllDone, Strays,
       EndWait, Check, SendEnd, Extract, Retry
  <2>2. QED
    BY <1>1, <2>1
<1>8. ASSUME NEW j \in queued, JobStarts(j) PROVE Placed'
  BY <1>1, <1>8 DEF JobStarts
<1>9. ASSUME NEW j \in running, JobDone(j) \/ JobFails(j) PROVE Placed'
  BY <1>1, <1>9 DEF JobDone, JobFails, JobEnds
<1>10. ASSUME Restart PROVE Placed'
  BY <1>10 DEF Restart
<1>11. CASE UNCHANGED vars
  BY <1>1, <1>11 DEF vars
<1>12. QED
  BY Cases, <1>3, <1>4, <1>5, <1>6, <1>7, <1>8, <1>9, <1>10, <1>11 DEF Crash, NullPool

-----------------------------------------------------------------------------
\* The invariants of the jobs of the pool the pointer points to.
JobsInv == TypeOK /\ Placed /\ JobsWithinCall /\ Handing /\ OneJob

\* A caller leaves its wait with no job left in that pool, also when the pool has
\* been stopped.
LEMMA LeavesNone ==
  ASSUME TypeOK, Placed, Handing, NEW c \in Callers, AllDone(c) \/ Strays(c),
         NEW j \in queued \cup running, j[1] = pool
  PROVE  j[2] # c
<1> SUFFICES ASSUME j[2] = c PROVE FALSE
  OBVIOUS
<1>1. At(c, "wait")
  BY DEF AllDone, Strays, EndWait
<1>2. mine[c] = pool
  BY <1>1 DEF Handing
<1>3. CASE AllDone(c)
  BY <1>3 DEF AllDone, RunsNothing
<1>4. CASE Strays(c)
  <2>1. RunsNothing(pool) /\ ~Live(pool)
    BY <1>2, <1>4 DEF Strays, Stranded
  <2>2. QED
    BY <2>1 DEF RunsNothing, Placed
<1>5. QED
  BY <1>3, <1>4

\* A caller adds jobs while it scans, and leaves its wait when there are none.
LEMMA JobsStep == JobsInv /\ [Next]_vars => JobsWithinCall'
<1> SUFFICES ASSUME JobsInv, [Next]_vars PROVE JobsWithinCall'
  OBVIOUS
<1> USE DEF JobsInv, JobsWithinCall, TypeOK, At, Goto, Return, rows, call, service, jobs,
   history
<1>a. \A j \in queued \cup running : j[2] \in Callers
  BY JobRow
<1>b. ASSUME NEW c \in Callers, UNCHANGED <<queued, running, pool>>,
             pc[c] \notin {"scan", "exec", "wait"},
             \A d \in Callers \ {c} : pc'[d] = pc[d] /\ task'[d] = task[d]
      PROVE  JobsWithinCall'
  BY <1>a, <1>b
<1>1. ASSUME NEW c \in Callers, NEW t \in Tasks, Fetch(c, t) PROVE JobsWithinCall'
  BY <1>1 DEF Fetch
<1>2. ASSUME NEW c \in Callers, Enter(c) \/ DestroyPool(c) \/ SetUrl(c) \/ Skip(c) \/ Mark(c)
      PROVE  JobsWithinCall'
  <2>1. UNCHANGED <<queued, running, pool>> /\ pc[c] \notin {"scan", "exec", "wait"}
    BY <1>2 DEF Enter, DestroyPool, SetUrl, Skip, Mark
  <2>2. \A d \in Callers \ {c} : pc'[d] = pc[d] /\ task'[d] = task[d]
    BY <1>2 DEF Enter, DestroyPool, SetUrl, Skip, Mark
  <2>3. QED
    BY <1>b, <2>1, <2>2
<1>3. ASSUME NEW c \in Callers, CreatePool(c) PROVE JobsWithinCall'
  BY <1>3, FreshIsNew DEF CreatePool, Swap
<1>4. ASSUME NEW c \in Callers, (\E f \in Files : Scan(c, f)) \/ BeginWait(c)
      PROVE  JobsWithinCall'
  <2>1. UNCHANGED <<queued, running, pool, task>> /\ pc'[c] \in {"scan", "exec", "wait"}
        /\ pc[c] = "scan"
    BY <1>4 DEF Scan, BeginWait
  <2>2. \A d \in Callers \ {c} : pc'[d] = pc[d]
    BY <1>4 DEF Scan, BeginWait
  <2>3. QED
    BY <1>a, <2>1, <2>2
<1>5. ASSUME NEW c \in Callers, NEW j \in handed, Exec(c, j) PROVE JobsWithinCall'
  BY <1>5 DEF Exec, Handing
<1>6. ASSUME NEW c \in Callers, AllDone(c) \/ Strays(c) PROVE JobsWithinCall'
  <2>1. UNCHANGED <<queued, running, pool, task>> /\ \A d \in Callers \ {c} : pc'[d] = pc[d]
    BY <1>6 DEF AllDone, Strays, EndWait
  <2>2. \A j \in queued \cup running : j[2] \in Callers
    BY JobRow
  <2>3. QED
    BY <1>6, <2>1, <2>2, LeavesNone
<1>7. ASSUME NEW c \in Callers, Check(c) \/ SendEnd(c) \/ Extract(c) \/ Retry(c)
      PROVE  JobsWithinCall'
  <2>1. UNCHANGED <<queued, running, pool>> /\ pc[c] \notin {"scan", "exec", "wait"}
    BY <1>7 DEF Check, SendEnd, Extract, Retry
  <2>2. \A d \in Callers \ {c} : pc'[d] = pc[d] /\ task'[d] = task[d]
    BY <1>7 DEF Check, SendEnd, Extract, Retry
  <2>3. QED
    BY <1>b, <2>1, <2>2
<1>8. ASSUME NEW j \in queued, JobStarts(j) PROVE JobsWithinCall'
  BY <1>8 DEF JobStarts
<1>9. ASSUME NEW j \in running, JobDone(j) \/ JobFails(j) PROVE JobsWithinCall'
  BY <1>9 DEF JobDone, JobFails, JobEnds
<1>10. CASE StopPool
  BY <1>10 DEF StopPool
<1>11. CASE ResetPool
  BY <1>11, JobRow DEF ResetPool, Swap
<1>12. ASSUME Restart PROVE JobsWithinCall'
  BY <1>12 DEF Restart
<1>13. CASE UNCHANGED vars
  BY <1>13 DEF vars
<1>14. QED
  BY Cases, <1>1, <1>2, <1>3, <1>4, <1>5, <1>6, <1>7, <1>8, <1>9, <1>10, <1>11, <1>12, <1>13
     DEF Crash, NullPool

\* A job is handed over before its caller goes on.
LEMMA HandingStep == JobsInv /\ [Next]_vars => Handing'
<1> SUFFICES ASSUME JobsInv, [Next]_vars PROVE Handing'
  OBVIOUS
<1> USE DEF JobsInv, Handing, TypeOK, At, Goto, Return, rows, call, service, jobs, history
<1>a. \A j \in handed \cup queued \cup running : j[2] \in Callers
  BY JobRow
<1>b. ASSUME NEW c \in Callers, UNCHANGED <<handed, queued, running, pool>>,
             ~At(c, "exec"), ~At(c, "wait")',
             \A d \in Callers \ {c} : /\ pc'[d] = pc[d] /\ task'[d] = task[d]
                                      /\ toScan'[d] = toScan[d] /\ mine'[d] = mine[d]
      PROVE  Handing'
  BY <1>a, <1>b
<1>1. ASSUME NEW c \in Callers, NEW t \in Tasks, Fetch(c, t) PROVE Handing'
  BY <1>1 DEF Fetch
<1>2. ASSUME NEW c \in Callers, Enter(c) \/ DestroyPool(c) \/ SetUrl(c) \/ Skip(c) \/ Mark(c)
      PROVE  Handing'
  <2>1. UNCHANGED <<handed, queued, running, pool>> /\ ~At(c, "exec") /\ ~At(c, "wait")'
    BY <1>2 DEF Enter, DestroyPool, SetUrl, Skip, Mark
  <2>2. \A d \in Callers \ {c} : pc'[d] = pc[d] /\ task'[d] = task[d]
    BY <1>2 DEF Enter, DestroyPool, SetUrl, Skip, Mark
  <2>3. \A d \in Callers \ {c} : toScan'[d] = toScan[d] /\ mine'[d] = mine[d]
    BY <1>2 DEF Enter, DestroyPool, SetUrl, Skip, Mark
  <2>4. QED
    BY <1>b, <2>1, <2>2, <2>3
<1>3. ASSUME NEW c \in Callers, CreatePool(c) PROVE Handing'
  <2>1. queued' = {} /\ pool' = Fresh /\ UNCHANGED <<handed, running, task, toScan>>
    BY <1>3 DEF CreatePool, Swap
  <2>2. \A j \in running : j[1] # Fresh
    BY <1>3, FreshIsNew DEF CreatePool
  <2>3. \A d \in Callers : At(d, "exec") => At(d, "exec")'
    BY <1>3 DEF CreatePool
  <2>4. QED
    BY <2>1, <2>2, <2>3, JobRow
<1>4. ASSUME NEW c \in Callers, NEW f \in Files, Scan(c, f) PROVE Handing'
  <2>1. /\ At(c, "scan") /\ f \in toScan[c] /\ UNCHANGED <<task, mine, pool, queued, running>>
        /\ toScan' = [toScan EXCEPT ![c] = @ \ {f}]
    BY <1>4 DEF Scan
  <2>2. CASE UNCHANGED <<pc, handed>>
    BY <2>1, <2>2
  <2>3. CASE Goto(c, "exec") /\ handed' = handed \cup {<<pool, c, task[c], f>>}
    <3>1. \A j \in handed : j[2] \in Callers /\ j[2] # c
      BY <2>1, JobRow
    <3>2. QED
      BY <2>1, <2>3, <3>1, JobRow
  <2>4. QED
    BY <1>4, <2>2, <2>3 DEF Scan
<1>5. ASSUME NEW c \in Callers, NEW j \in handed, Exec(c, j) PROVE Handing'
  <2>1. /\ j[2] = c /\ handed' = handed \ {j} /\ queued' \subseteq queued \cup {j}
        /\ pc' = [pc EXCEPT ![c] = "scan"] /\ UNCHANGED <<task, toScan, mine, pool, running>>
    BY <1>5 DEF Exec
  <2>2. \A i \in handed' : i[2] \in Callers /\ i[2] # c
    BY <2>1, JobRow
  <2>3. QED
    BY <2>1, <2>2, JobRow
<1>6. ASSUME NEW c \in Callers, BeginWait(c) PROVE Handing'
  BY <1>6 DEF BeginWait
<1>7. ASSUME NEW c \in Callers,
             AllDone(c) \/ Strays(c) \/ Check(c) \/ SendEnd(c) \/ Extract(c) \/ Retry(c)
      PROVE  Handing'
  <2>1. UNCHANGED <<handed, queued, running, pool>> /\ ~At(c, "exec") /\ ~At(c, "wait")'
    BY <1>7 DEF AllDone, Strays, EndWait, Check, SendEnd, Extract, Retry
  <2>2. \A d \in Callers \ {c} : pc'[d] = pc[d] /\ task'[d] = task[d]
    BY <1>7 DEF AllDone, Strays, EndWait, Check, SendEnd, Extract, Retry
  <2>3. \A d \in Callers \ {c} : toScan'[d] = toScan[d] /\ mine'[d] = mine[d]
    BY <1>7 DEF AllDone, Strays, EndWait, Check, SendEnd, Extract, Retry
  <2>4. QED
    BY <1>b, <2>1, <2>2, <2>3
<1>8. ASSUME NEW j \in queued, JobStarts(j) PROVE Handing'
  BY <1>8 DEF JobStarts
<1>9. ASSUME NEW j \in running, JobDone(j) \/ JobFails(j) PROVE Handing'
  BY <1>9 DEF JobDone, JobFails, JobEnds
<1>10. CASE StopPool
  BY <1>10 DEF StopPool
<1>11. CASE ResetPool
  BY <1>11, JobRow DEF ResetPool, Swap
<1>12. ASSUME Restart PROVE Handing'
  BY <1>12 DEF Restart
<1>13. CASE UNCHANGED vars
  BY <1>13 DEF vars
<1>14. QED
  BY Cases, <1>1, <1>2, <1>3, <1>4, <1>5, <1>6, <1>7, <1>8, <1>9, <1>10, <1>11, <1>12, <1>13
     DEF Crash, NullPool

\* A file is scanned once, and its job is then handed over, queued, running, or over.
LEMMA OneJobStep == JobsInv /\ [Next]_vars => OneJob'
<1> SUFFICES ASSUME JobsInv, [Next]_vars PROVE OneJob'
  OBVIOUS
<1> USE DEF JobsInv, OneJob, TypeOK, At, Goto, Return, rows, call, service, jobs, history
<1>1. CASE UNCHANGED <<handed, queued, running, pool, toScan>>
  BY <1>1
<1>2. ASSUME NEW c \in Callers,
             \/ \E t \in Tasks : Fetch(c, t)
             \/ Enter(c) \/ DestroyPool(c) \/ SetUrl(c) \/ Skip(c) \/ BeginWait(c)
             \/ AllDone(c) \/ Strays(c) \/ Check(c) \/ SendEnd(c) \/ Extract(c) \/ Retry(c)
      PROVE  OneJob'
  <2>1. UNCHANGED <<handed, queued, running, pool, toScan>>
    BY <1>2 DEF Fetch, Enter, DestroyPool, SetUrl, Skip, BeginWait, AllDone, Strays, EndWait,
       Check, SendEnd, Extract, Retry
  <2>2. QED
    BY <1>1, <2>1
<1>3. ASSUME NEW c \in Callers, CreatePool(c) PROVE OneJob'
  <2>1. queued' = {} /\ pool' = Fresh /\ UNCHANGED <<handed, running, toScan>>
    BY <1>3 DEF CreatePool, Swap
  <2>2. \A j \in running : j[1] # Fresh
    BY <1>3, FreshIsNew DEF CreatePool
  <2>3. QED
    BY <2>1, <2>2
<1>4. ASSUME NEW c \in Callers, Mark(c) PROVE OneJob'
  <2>1. UNCHANGED <<handed, queued, running, pool>> /\ At(c, "marking")
        /\ \A d \in Callers \ {c} : toScan'[d] = toScan[d]
    BY <1>4 DEF Mark
  <2>2. \A j \in queued \cup running : j[1] = pool => j[2] # c
    BY <2>1 DEF JobsWithinCall
  <2>3. QED
    BY <2>1, <2>2, JobRow
<1>5. ASSUME NEW c \in Callers, NEW f \in Files, Scan(c, f) PROVE OneJob'
  <2>1. UNCHANGED <<queued, running, pool>>
        /\ handed' \subseteq handed \cup {<<pool, c, task[c], f>>}
    BY <1>5 DEF Scan
  <2>2. toScan' = [toScan EXCEPT ![c] = @ \ {f}] /\ f \in toScan[c]
    BY <1>5 DEF Scan
  <2>3. QED
    BY <2>1, <2>2, JobRow
<1>6. ASSUME NEW c \in Callers, NEW j \in handed, Exec(c, j) PROVE OneJob'
  <2>1. /\ j[2] = c /\ handed' = handed \ {j} /\ UNCHANGED <<toScan, pool, running>>
        /\ queued' = queued \/ (queued' = queued \cup {j} /\ j[1] = pool)
    BY <1>6 DEF Exec, Live
  <2>2. \A i \in handed' : i[2] # c
    BY <2>1 DEF Handing
  <2>3. j \notin running \/ j[1] # pool
    BY <2>1
  <2>4. j[4] \notin toScan[c]
    BY <2>1 DEF Handing
  <2>5. QED
    BY <2>1, <2>2, <2>3, <2>4
<1>7. ASSUME NEW j \in queued, JobStarts(j) PROVE OneJob'
  BY <1>7 DEF JobStarts
<1>8. ASSUME NEW j \in running, JobDone(j) \/ JobFails(j) PROVE OneJob'
  BY <1>8 DEF JobDone, JobFails, JobEnds
<1>9. CASE StopPool
  BY <1>9 DEF StopPool
<1>10. CASE ResetPool
  BY <1>10, JobRow DEF ResetPool, Swap
<1>11. ASSUME Restart PROVE OneJob'
  BY <1>11 DEF Restart
<1>12. CASE UNCHANGED vars
  BY <1>1, <1>12 DEF vars
<1>13. QED
  BY Cases, <1>2, <1>3, <1>4, <1>5, <1>6, <1>7, <1>8, <1>9, <1>10, <1>11, <1>12
     DEF Crash, NullPool

\* Whoever marks a task changes its state again before it is not Busy.
LEMMA TransferStep == TypeOK /\ TransferHasCaller /\ [Next]_vars => TransferHasCaller'
<1> SUFFICES ASSUME TypeOK, TransferHasCaller, [Next]_vars,
                    ~crashed', NEW t \in Tasks, state'[t] = "transfer"
             PROVE  \E c \in Callers : Busy(c)' /\ task'[c] = t
  BY DEF TransferHasCaller
<1> USE DEF TypeOK, Busy, Working, At, Goto, Return, rows, call, service, jobs, history
<1>1. ASSUME ~crashed, state[t] = "transfer",
             \A c \in Callers : Busy(c) /\ task[c] = t => Busy(c)' /\ task'[c] = t
      PROVE  \E c \in Callers : Busy(c)' /\ task'[c] = t
  BY <1>1 DEF TransferHasCaller
<1>2. ASSUME NEW c \in Callers, NEW u \in Tasks, Fetch(c, u)
      PROVE  \E d \in Callers : Busy(d)' /\ task'[d] = t
  <2>1. ~crashed /\ state[t] = "transfer"
    BY <1>2 DEF Fetch
  <2>2. \A d \in Callers : Busy(d) /\ task[d] = t => Busy(d)' /\ task'[d] = t
    BY <1>2 DEF Fetch
  <2>3. QED
    BY <1>1, <2>1, <2>2
<1>3. ASSUME NEW c \in Callers,
             Enter(c) \/ CreatePool(c) \/ DestroyPool(c) \/ SetUrl(c) \/ Skip(c)
      PROVE  \E d \in Callers : Busy(d)' /\ task'[d] = t
  <2>1. ~crashed /\ state[t] = "transfer"
    BY <1>3 DEF Enter, CreatePool, DestroyPool, Swap, SetUrl, Skip
  <2>2. \A d \in Callers : Busy(d) /\ task[d] = t => Busy(d)' /\ task'[d] = t
    BY <1>3 DEF Enter, CreatePool, DestroyPool, Swap, SetUrl, Skip
  <2>3. QED
    BY <1>1, <2>1, <2>2
<1>4. ASSUME NEW c \in Callers, Mark(c)
      PROVE  \E d \in Callers : Busy(d)' /\ task'[d] = t
  <2>1. CASE t = task[c]
    BY <1>4, <2>1 DEF Mark
  <2>2. CASE t # task[c]
    <3>1. ~crashed /\ state[t] = "transfer"
      BY <1>4, <2>2 DEF Mark
    <3>2. \A d \in Callers : Busy(d) /\ task[d] = t => Busy(d)' /\ task'[d] = t
      BY <1>4 DEF Mark
    <3>3. QED
      BY <1>1, <3>1, <3>2
  <2>3. QED
    BY <2>1, <2>2
<1>5. ASSUME NEW c \in Callers,
             \/ (\E f \in Files : Scan(c, f)) \/ (\E j \in handed : Exec(c, j))
             \/ BeginWait(c) \/ AllDone(c) \/ Strays(c) \/ Check(c) \/ SendEnd(c)
      PROVE  \E d \in Callers : Busy(d)' /\ task'[d] = t
  <2>1. ~crashed /\ state[t] = "transfer"
    BY <1>5 DEF Scan, Exec, BeginWait, AllDone, Strays, EndWait, Check, SendEnd
  <2>2. \A d \in Callers : Busy(d) /\ task[d] = t => Busy(d)' /\ task'[d] = t
    BY <1>5 DEF Scan, Exec, BeginWait, AllDone, Strays, EndWait, Check, SendEnd
  <2>3. QED
    BY <1>1, <2>1, <2>2
<1>6. ASSUME NEW c \in Callers, Extract(c) \/ Retry(c)
      PROVE  \E d \in Callers : Busy(d)' /\ task'[d] = t
  <2>1. task[c] # t
    BY <1>6 DEF Extract, Retry
  <2>2. ~crashed /\ state[t] = "transfer"
    BY <1>6, <2>1 DEF Extract, Retry
  <2>3. \A d \in Callers : Busy(d) /\ task[d] = t => Busy(d)' /\ task'[d] = t
    BY <1>6, <2>1 DEF Extract, Retry
  <2>4. QED
    BY <1>1, <2>2, <2>3
<1>7. ASSUME ((\E j \in queued : JobStarts(j)) \/ \E j \in running : JobDone(j) \/ JobFails(j))
               \/ StopPool \/ ResetPool \/ UNCHANGED vars
      PROVE  \E d \in Callers : Busy(d)' /\ task'[d] = t
  <2>1. UNCHANGED <<state, pc, task, crashed>>
    BY <1>7 DEF JobStarts, JobDone, JobFails, JobEnds, StopPool, ResetPool, Swap, vars
  <2>2. QED
    BY <1>1, <2>1
<1>8. ~Crash /\ \A c \in Callers : ~NullPool(c)
  BY DEF Crash, NullPool, Restart
<1>9. QED
  BY Cases, <1>2, <1>3, <1>4, <1>5, <1>6, <1>7, <1>8

-----------------------------------------------------------------------------
\* Callers that are kept apart do not change each other's task.
LEMMA ApartStep == TypeOK /\ Apart /\ [Next]_vars => Apart'
<1> SUFFICES ASSUME TypeOK, Apart, [Next]_vars PROVE Apart'
  OBVIOUS
<1>0. None \notin Exclusive
  BY CallerAssumption, TasksAssumption
<1> USE <1>0 DEF Apart, TypeOK, Busy, Entering, Working, At, Goto, Return, rows, call,
   service, jobs, history
<1>1. ASSUME NEW c \in Callers, NEW t \in Tasks, Fetch(c, t) PROVE Apart'
  BY <1>1 DEF Fetch
<1>2. ASSUME NEW c \in Callers,
             Enter(c) \/ CreatePool(c) \/ DestroyPool(c) \/ SetUrl(c) \/ Skip(c)
      PROVE  Apart'
  BY <1>2 DEF Enter, CreatePool, DestroyPool, Swap, SetUrl, Skip
<1>3. ASSUME NEW c \in Callers, Mark(c) PROVE Apart'
  BY <1>3 DEF Mark
<1>4. ASSUME NEW c \in Callers,
             \/ (\E f \in Files : Scan(c, f)) \/ (\E j \in handed : Exec(c, j))
             \/ BeginWait(c) \/ AllDone(c) \/ Strays(c) \/ Check(c) \/ SendEnd(c)
      PROVE  Apart'
  <2>1. UNCHANGED <<state, task, copy>> /\ pc[c] \in Working /\ pc'[c] \in Working
    BY <1>4, ZenonT(40) DEF Scan, Exec, BeginWait, AllDone, Strays, EndWait, Check, SendEnd
  <2>2. \A d \in Callers : d # c => pc'[d] = pc[d]
    BY <1>4, ZenonT(40) DEF Scan, Exec, BeginWait, AllDone, Strays, EndWait, Check, SendEnd
  <2>3. QED
    BY <2>1, <2>2
<1>5. ASSUME NEW c \in Callers, Extract(c) \/ Retry(c) PROVE Apart'
  BY <1>5 DEF Extract, Retry
<1>6. ASSUME ((\E j \in queued : JobStarts(j)) \/ \E j \in running : JobDone(j) \/ JobFails(j))
               \/ StopPool \/ ResetPool \/ UNCHANGED vars
      PROVE  Apart'
  <2>1. UNCHANGED <<state, pc, task, copy>>
    BY <1>6 DEF JobStarts, JobDone, JobFails, JobEnds, StopPool, ResetPool, Swap, vars
  <2>2. QED
    BY <2>1
<1>7. ASSUME Restart PROVE Apart'
  BY <1>7 DEF Restart
<1>8. QED
  BY Cases, <1>1, <1>2, <1>3, <1>4, <1>5, <1>6, <1>7 DEF Crash, NullPool

\* A job of such a task is in the pool of the pointer, and its caller in its call.
LEMMA KeptJobs ==
  ASSUME TypeOK, Placed, JobsWithinCall, NEW j \in queued \cup running, j[3] \in Kept
  PROVE  /\ j[1] = pool /\ j[2] \in Callers
         /\ pc[j[2]] \in {"scan", "exec", "wait"} /\ task[j[2]] = j[3]
<1>1. j[1] = pool /\ j[2] \in Callers
  BY JobRow DEF Placed, Live, TypeOK
<1>2. QED
  BY <1>1 DEF JobsWithinCall

\* A file of a task whose callers are kept apart has one job at a time.
LEMMA OneSender == TypeOK /\ Placed /\ JobsWithinCall /\ Apart => SendsApart
<1> SUFFICES ASSUME TypeOK, Placed, JobsWithinCall, Apart,
                    NEW i \in queued \cup running, NEW j \in queued \cup running,
                    i[3] \in Kept, Row(i) = Row(j)
             PROVE  i = j
  BY DEF SendsApart
<1>1. i[3] = j[3] /\ i[4] = j[4]
  BY DEF Row
<1>2. i \in Jobs /\ j \in Jobs
  BY DEF TypeOK
<1>3. i[1] = j[1] /\ task[i[2]] = i[3] /\ task[j[2]] = i[3]
        /\ i[2] \in Callers /\ j[2] \in Callers
  BY <1>1, KeptJobs
<1>4. i[2] = j[2]
  BY <1>3 DEF Apart, Kept
<1>5. QED
  BY <1>1, <1>2, <1>3, <1>4, JobRow

\* Nor is one of its files on the way to a pool while it has a job.
LEMMA OneHanded ==
  ASSUME IInv, NEW i \in handed, NEW j \in queued \cup running, i[3] \in Kept
  PROVE  Row(i) # Row(j)
<1> SUFFICES ASSUME Row(i) = Row(j) PROVE FALSE
  OBVIOUS
<1>1. i[3] = j[3] /\ i[4] = j[4]
  BY DEF Row
<1>2. i[2] \in Callers /\ task[i[2]] = i[3]
  BY JobRow DEF IInv, TypeOK, Handing
<1>3. j[1] = pool /\ j[2] \in Callers /\ task[j[2]] = i[3]
  BY <1>1, KeptJobs DEF IInv
<1>4. i[2] = j[2]
  BY <1>2, <1>3 DEF IInv, Apart, Kept
<1>5. QED
  BY <1>1, <1>3, <1>4 DEF IInv, OneJob

\* The rows of such jobs stay as they were made.
LEMMA SendsNewStep == IInv /\ [Next]_vars => SendsAreNew'
<1> SUFFICES ASSUME IInv, [Next]_vars PROVE SendsAreNew'
  OBVIOUS
<1>0. TypeOK /\ SendsAreNew /\ SendsApart /\ OneJob
  BY OneSender DEF IInv
<1> DEFINE all == handed \cup queued \cup running
<1> USE DEF rows, call, service, jobs, history
<1>1. ASSUME UNCHANGED completed, all' \subseteq all, orphaned \subseteq orphaned'
      PROVE  SendsAreNew'
  BY <1>0, <1>1 DEF SendsAreNew, Kept
<1>2. ASSUME NEW c \in Callers, NEW f \in Files, Scan(c, f) PROVE SendsAreNew'
  <2>1. CASE UNCHANGED handed
    BY <1>1, <1>2, <2>1 DEF Scan
  <2>2. CASE /\ handed' = handed \cup {<<pool, c, task[c], f>>}
             /\ <<task[c], f>> \notin completed
    <3>1. UNCHANGED <<completed, queued, running, orphaned>>
      BY <1>2 DEF Scan
    <3>2. QED
      BY <1>0, <2>2, <3>1 DEF SendsAreNew, Kept, Row
  <2>3. QED
    BY <1>2, <2>1, <2>2 DEF Scan
<1>3. ASSUME NEW c \in Callers,
             \/ \E t \in Tasks : Fetch(c, t)
             \/ Enter(c) \/ DestroyPool(c) \/ SetUrl(c) \/ Skip(c) \/ Mark(c)
             \/ BeginWait(c) \/ AllDone(c) \/ Strays(c) \/ Check(c)
             \/ SendEnd(c) \/ Extract(c) \/ Retry(c)
      PROVE  SendsAreNew'
  <2>1. UNCHANGED <<completed, handed, queued, running, orphaned>>
    BY <1>3 DEF Fetch, Enter, DestroyPool, SetUrl, Skip, Mark, BeginWait, AllDone, Strays,
       EndWait, Check, SendEnd, Extract, Retry
  <2>2. QED
    BY <1>1, <2>1
<1>4. ASSUME NEW p, Swap(p), UNCHANGED <<completed, handed, running>> PROVE SendsAreNew'
  BY <1>1, <1>4 DEF Swap
<1>5. ASSUME NEW c \in Callers, CreatePool(c) PROVE SendsAreNew'
  BY <1>4, <1>5 DEF CreatePool
<1>6. CASE ResetPool
  BY <1>4, <1>6 DEF ResetPool
<1>7. ASSUME NEW c \in Callers, NEW j \in handed, Exec(c, j) PROVE SendsAreNew'
  BY <1>1, <1>7 DEF Exec
<1>8. ASSUME NEW j \in queued, JobStarts(j) PROVE SendsAreNew'
  BY <1>1, <1>8 DEF JobStarts
<1>9. ASSUME NEW j \in running, JobEnds(j), completed' \subseteq completed \cup {Row(j)}
      PROVE  SendsAreNew'
  <2> SUFFICES ASSUME NEW i \in all', i[3] \in Kept', Row(i) \in completed'
               PROVE  FALSE
    BY DEF SendsAreNew
  <2>1. i \in all /\ i[3] \in Kept
    BY <1>9 DEF JobEnds, Kept
  <2>0. i # j
    <3>1. i \in handed \cup queued \cup (running \ {j})
      BY <1>9 DEF JobEnds
    <3>2. j \notin queued
      BY <1>0 DEF OneJob
    <3>3. i \in handed => Row(i) # Row(j)
      BY <2>1, OneHanded
    <3>4. QED
      BY <3>1, <3>2, <3>3
  <2>2. Row(i) = Row(j)
    BY <1>0, <1>9, <2>1 DEF SendsAreNew
  <2>3. QED
    BY <1>0, <2>0, <2>1, <2>2, OneHanded DEF SendsApart
<1>10. ASSUME NEW j \in running, JobDone(j) \/ JobFails(j) PROVE SendsAreNew'
  BY <1>9, <1>10 DEF JobDone, JobFails
<1>11. CASE StopPool \/ UNCHANGED vars
  BY <1>1, <1>11 DEF StopPool, vars
<1>12. ASSUME Restart PROVE SendsAreNew'
  BY <1>1, <1>12 DEF Restart
<1>13. QED
  BY Cases, <1>2, <1>3, <1>5, <1>6, <1>7, <1>8, <1>10, <1>11, <1>12 DEF Crash, NullPool

\* A step takes a file from Completed only for a job whose caller is waiting.
LEMMA CompletedStays ==
  ASSUME TypeOK, Placed, JobsWithinCall, [Next]_vars,
         NEW t \in Kept,
         ~ \E c \in Callers : pc[c] \in {"scan", "exec", "wait"} /\ task[c] = t,
         RowsOf(t) \subseteq completed
  PROVE  RowsOf(t) \subseteq completed'
<1> USE DEF TypeOK, rows, call, service, jobs, history, RowsOf
<1>1. ASSUME NEW j \in running, JobDone(j) \/ JobFails(j)
      PROVE  RowsOf(t) \subseteq completed'
  <2>1. j[3] # t
    BY KeptJobs
  <2>2. completed \ {Row(j)} \subseteq completed'
    BY <1>1 DEF JobDone, JobFails
  <2>3. QED
    BY <2>1, <2>2 DEF Row
<1>2. CASE ~ \E j \in running : JobDone(j) \/ JobFails(j)
  <2>1. completed' = completed
    BY <1>2, Cases DEF Fetch, Enter, CreatePool, DestroyPool, Swap, SetUrl, Skip, Mark, Scan,
       Exec, BeginWait, AllDone, Strays, EndWait, Check, SendEnd, Extract, Retry, NullPool,
       Crash, Restart, JobStarts, StopPool, ResetPool, vars
  <2>2. QED
    BY <2>1
<1>3. QED
  BY <1>1, <1>2

\* What a replaced pool was running is not forgotten.
LEMMA OrphansGrow == [Next]_vars => orphaned \subseteq orphaned'
BY Cases DEF Fetch, Enter, CreatePool, DestroyPool, Swap, SetUrl, Skip, Mark, Scan, Exec,
   BeginWait, AllDone, Strays, EndWait, Check, SendEnd, Extract, Retry, NullPool, Crash,
   Restart, JobStarts, JobDone, JobFails, JobEnds, StopPool, ResetPool, vars, rows, call,
   service, jobs, history

\* Nothing takes back what a caller has checked.
LEMMA EndStep ==
  IInv /\ [Next]_vars => EndIsComplete'
<1> SUFFICES ASSUME TypeOK, Placed, JobsWithinCall, Apart, EndIsComplete, [Next]_vars,
                    NEW c \in Callers, task'[c] \in Kept',
                    pc'[c] \in {"ending", "ended"}
             PROVE  RowsOf(task'[c]) \subseteq completed'
  BY DEF EndIsComplete, IInv
<1> USE DEF TypeOK, At, Goto, Return, rows, call, service, jobs, history
<1>0. task'[c] \in Kept
  BY OrphansGrow DEF Kept
<1>1. task'[c] = task[c] /\ RowsOf(task[c]) \subseteq completed
                         /\ pc[c] \in {"check", "ending", "ended"}
  <2>1. ASSUME NEW d \in Callers, d = c, Check(d)
        PROVE  task'[c] = task[c] /\ RowsOf(task[c]) \subseteq completed
                                  /\ pc[c] \in {"check", "ending", "ended"}
    BY <2>1 DEF Check
  <2>2. CASE pc[c] \in {"ending", "ended"} /\ task'[c] = task[c]
    BY <1>0, <2>2 DEF EndIsComplete
  <2>3. ASSUME NEW d \in Callers,
               \/ \E t \in Tasks : Fetch(d, t)
               \/ Enter(d) \/ CreatePool(d) \/ DestroyPool(d) \/ SetUrl(d) \/ Skip(d) \/ Mark(d)
               \/ \E f \in Files : Scan(d, f)
               \/ \E j \in handed : Exec(d, j)
               \/ BeginWait(d) \/ AllDone(d) \/ Strays(d) \/ (d # c /\ Check(d))
               \/ SendEnd(d) \/ Extract(d) \/ Retry(d)
        PROVE  pc[c] \in {"ending", "ended"} /\ task'[c] = task[c]
    <3>1. ASSUME NEW t \in Tasks, Fetch(d, t)
          PROVE  pc[c] \in {"ending", "ended"} /\ task'[c] = task[c]
      BY <3>1 DEF Fetch
    <3>2. CASE Enter(d) \/ CreatePool(d) \/ DestroyPool(d) \/ SetUrl(d) \/ Skip(d) \/ Mark(d)
      BY <3>2 DEF Enter, CreatePool, DestroyPool, Swap, SetUrl, Skip, Mark
    <3>3. CASE (\E f \in Files : Scan(d, f)) \/ (\E j \in handed : Exec(d, j))
                 \/ BeginWait(d) \/ AllDone(d) \/ Strays(d)
      BY <3>3 DEF Scan, Exec, BeginWait, AllDone, Strays, EndWait
    <3>4. CASE d # c /\ Check(d)
      BY <3>4 DEF Check
    <3>5. CASE SendEnd(d) \/ Extract(d) \/ Retry(d)
      BY <3>5 DEF SendEnd, Extract, Retry
    <3>6. QED
      BY <2>3, <3>1, <3>2, <3>3, <3>4, <3>5
  <2>4. ASSUME \/ \E j \in queued : JobStarts(j)
               \/ \E j \in running : JobDone(j) \/ JobFails(j)
               \/ StopPool \/ ResetPool \/ UNCHANGED vars
        PROVE  pc[c] \in {"ending", "ended"} /\ task'[c] = task[c]
    BY <2>4 DEF JobStarts, JobDone, JobFails, JobEnds, StopPool, ResetPool, Swap, vars
  <2>5. ~Restart
    BY DEF Restart
  <2>6. QED
    BY Cases, <2>1, <2>2, <2>3, <2>4, <2>5 DEF Crash, NullPool
<1>2. ~ \E d \in Callers : pc[d] \in {"scan", "exec", "wait"} /\ task[d] = task[c]
  BY <1>0, <1>1 DEF Apart, Kept
<1>3. QED
  BY <1>0, <1>1, <1>2, CompletedStays

\* A task leaves "extract" in no step, and enters it with its files Completed.
LEMMA FinalStep ==
  ASSUME TypeOK, Apart, [Next]_vars, NEW t \in Exclusive, state[t] = "extract"
  PROVE  state'[t] = "extract"
<1> USE CallerAssumption DEF TypeOK, Apart, Busy, Working, At, Goto, Return, rows, call,
   service, jobs, history
<1>1. ASSUME NEW c \in Callers, Mark(c) \/ Extract(c) \/ Retry(c)
      PROVE  state'[t] = "extract"
  BY <1>1 DEF Mark, Extract, Retry
<1>2. CASE ~ \E c \in Callers : Mark(c) \/ Extract(c) \/ Retry(c)
  <2>1. state' = state
    BY <1>2, Cases DEF Fetch, Enter, CreatePool, DestroyPool, Swap, SetUrl, Skip, Scan, Exec,
       BeginWait, AllDone, Strays, EndWait, Check, SendEnd, NullPool, Crash, Restart,
       JobStarts, JobDone, JobFails, JobEnds, StopPool, ResetPool, vars
  <2>2. QED
    BY <2>1
<1>3. QED
  BY <1>1, <1>2

\* A task comes to wait for its frames only past the check, and its rows stay Completed.
LEMMA ExtractStep == IInv /\ [Next]_vars => ExtractIsComplete'
<1> SUFFICES ASSUME IInv, [Next]_vars, NEW t \in Kept, state'[t] = "extract"
             PROVE  RowsOf(t) \subseteq completed'
  BY OrphansGrow DEF ExtractIsComplete, Kept
<1> USE CallerAssumption DEF IInv, Kept, TypeOK, At, rows, call, service, jobs, history
<1>1. CASE state[t] = "extract"
  <2>1. ~ \E c \in Callers : pc[c] \in {"scan", "exec", "wait"} /\ task[c] = t
    BY <1>1 DEF Apart, Busy, Working
  <2>2. QED
    BY <1>1, <2>1, CompletedStays DEF ExtractIsComplete
<1>2. CASE state[t] # "extract"
  <2>1. PICK c \in Callers : Extract(c) /\ task[c] = t
    BY <1>2, Cases DEF Fetch, Enter, CreatePool, DestroyPool, Swap, SetUrl, Skip, Mark, Scan,
       Exec, BeginWait, AllDone, Strays, EndWait, Check, SendEnd, Extract, Retry, NullPool,
       Crash, Restart, JobStarts, JobDone, JobFails, JobEnds, StopPool, ResetPool, vars
  <2>2. RowsOf(t) \subseteq completed /\ completed' = completed
    BY <2>1 DEF Extract, EndIsComplete
  <2>3. QED
    BY <2>2
<1>3. QED
  BY <1>1, <1>2

-----------------------------------------------------------------------------
\* Only the request of upload-end loses a task, and it is paid for by a fault.
LEMMA LostStep ==
  ASSUME TypeOK, [Next]_vars
  PROVE  \/ Lost' \subseteq Lost /\ faults' \in Nat /\ faults' >= faults
         \/ /\ \E t \in Tasks : Lost' \subseteq Lost \cup {t}
            /\ faults' = faults + 1
<1> USE PoolAssumption DEF TypeOK, Lost, Unheard, At, Goto, Return, Fault, rows, call,
   service, jobs, history
<1>1. ASSUME NEW c \in Callers, SendEnd(c), faults' = faults + 1
      PROVE  Lost' \subseteq Lost \cup {task[c]} /\ task[c] \in Tasks
  BY <1>1 DEF SendEnd
<1>2. ASSUME NEW c \in Callers, SendEnd(c), UNCHANGED faults
      PROVE  Lost' \subseteq Lost
  BY <1>2 DEF SendEnd
<1>3. ASSUME NEW c \in Callers, Extract(c) PROVE Lost' \subseteq Lost /\ UNCHANGED faults
  BY <1>3 DEF Extract
<1>4. ASSUME NEW c \in Callers, Mark(c) \/ Retry(c)
      PROVE  Lost' \subseteq Lost /\ UNCHANGED faults
  BY <1>4 DEF Mark, Retry, States
<1>5. ASSUME NEW c \in Callers, NEW t \in Tasks, Fetch(c, t)
      PROVE  Lost' \subseteq Lost /\ UNCHANGED faults
  BY <1>5 DEF Fetch
<1>6. ASSUME NEW c \in Callers,
             \/ Enter(c) \/ CreatePool(c) \/ DestroyPool(c) \/ SetUrl(c) \/ Skip(c)
             \/ \E f \in Files : Scan(c, f)
             \/ \E j \in handed : Exec(c, j)
             \/ BeginWait(c) \/ AllDone(c) \/ Strays(c) \/ Check(c)
      PROVE  Lost' \subseteq Lost /\ UNCHANGED faults
  <2>1. UNCHANGED <<state, ended, faults>>
    BY <1>6 DEF Enter, CreatePool, DestroyPool, Swap, SetUrl, Skip, Scan, Exec, BeginWait,
       AllDone, Strays, EndWait, Check
  <2>2. \A d \in Callers : At(d, "ended")' => At(d, "ended") /\ task'[d] = task[d]
    BY <1>6 DEF Enter, CreatePool, DestroyPool, Swap, SetUrl, Skip, Scan, Exec, BeginWait,
       AllDone, Strays, EndWait, Check
  <2>3. QED
    BY <2>1, <2>2
<1>7. ASSUME Restart PROVE Lost' \subseteq Lost
  BY <1>7 DEF Restart
<1>8. ASSUME \/ StopPool \/ ResetPool \/ UNCHANGED vars
             \/ \E j \in queued : JobStarts(j)
             \/ \E j \in running : JobDone(j) \/ JobFails(j)
      PROVE  Lost' \subseteq Lost
  BY <1>8 DEF StopPool, ResetPool, Swap, vars, JobStarts, JobDone, JobFails, JobEnds
<1>9. faults' \in Nat /\ faults' >= faults
  <2>1. UNCHANGED faults \/ faults' = faults + 1
    BY Cases DEF Fetch, Enter, CreatePool, DestroyPool, Swap, SetUrl, Skip, Mark, Scan, Exec,
       BeginWait, AllDone, Strays, EndWait, Check, SendEnd, Extract, Retry, NullPool, Crash,
       Restart, JobStarts, JobDone, JobFails, JobEnds, StopPool, ResetPool, vars
  <2>2. QED
    BY <2>1
<1>10. ASSUME NEW c \in Callers, SendEnd(c) PROVE faults' = faults + 1 \/ UNCHANGED faults
  BY <1>10 DEF SendEnd
<1>11. QED
  BY Cases, <1>1, <1>2, <1>3, <1>4, <1>5, <1>6, <1>7, <1>8, <1>9, <1>10 DEF NullPool, Crash

\* The count of lost tasks keeps up with the faults.
LEMMA LostClockStep == TypeOK /\ LostClock /\ [Next]_vars => LostClock'
<1> SUFFICES ASSUME TypeOK, LostClock, [Next]_vars PROVE LostClock'
  OBVIOUS
<1>1. IsFiniteSet(Lost) /\ Cardinality(Lost) \in Nat
  <2>1. Lost \in SUBSET Tasks
    BY DEF Lost, Unheard
  <2>2. IsFiniteSet(Lost)
    BY <2>1, FS_Subset, TasksAssumption
  <2>3. QED
    BY <2>2, FS_CardinalityType
<1>2. faults \in Nat
  BY PoolAssumption DEF TypeOK
<1>3. CASE Lost' \subseteq Lost /\ faults' \in Nat /\ faults' >= faults
  <2>1. Lost' \in SUBSET Lost
    BY <1>3
  <2>2. IsFiniteSet(Lost') /\ Cardinality(Lost') <= Cardinality(Lost)
    BY <2>1, <1>1, FS_Subset
  <2>3. Cardinality(Lost') \in Nat
    BY <2>2, FS_CardinalityType
  <2>4. QED
    BY <1>1, <1>2, <1>3, <2>2, <2>3 DEF LostClock
<1>4. ASSUME NEW t \in Tasks, Lost' \subseteq Lost \cup {t}, faults' = faults + 1
      PROVE  LostClock'
  <2>1. IsFiniteSet(Lost \cup {t}) /\ Cardinality(Lost \cup {t}) <= Cardinality(Lost) + 1
    BY <1>1, FS_AddElement
  <2>2. Lost' \in SUBSET (Lost \cup {t})
    BY <1>4
  <2>3. IsFiniteSet(Lost') /\ Cardinality(Lost') <= Cardinality(Lost \cup {t})
    BY <2>1, <2>2, FS_Subset
  <2>4. Cardinality(Lost') \in Nat /\ Cardinality(Lost \cup {t}) \in Nat
    BY <2>1, <2>3, FS_CardinalityType
  <2>5. QED
    BY <1>1, <1>2, <1>4, <2>1, <2>3, <2>4 DEF LostClock
<1>5. QED
  BY LostStep, <1>3, <1>4

-----------------------------------------------------------------------------
\* The parts of IInv are inductive together.
LEMMA IInvStep == IInv /\ [Next]_vars => IInv'
BY TypeStep, PlacedStep, JobsStep, HandingStep, OneJobStep, TransferStep, ApartStep,
   SendsNewStep, EndStep, ExtractStep, LostClockStep DEF IInv, JobsInv

\* The callers, their jobs and the rows keep to IInv.
THEOREM Invariance == Spec => []IInv
BY InitIInv, IInvStep, PTL DEF Spec

\* Callers kept apart, and no pool replaced under their jobs: a task that waits for
\* its frames has every file Completed, whatever fails, stops or crashes.
THEOREM ExtractedIsComplete == Spec => []ExtractIsComplete
BY Invariance, PTL DEF IInv

\* While its pool is the one thread_pool points to, a job does not outlive the call
\* whose task_id it refers to.
THEOREM JobsEndFirst == Spec => []JobsWithinCall
BY Invariance, PTL DEF IInv

\* Without a crash no task is left in File_Transfering, however callers overlap.
THEOREM NoTaskLeft == Spec => []TransferHasCaller
BY Invariance, PTL DEF IInv

\* However callers overlap, each upload-end that is missing was lost by a fault
\* of its own.
THEOREM EndsAreHeard == Spec => []UnheardIsFault
<1>1. ASSUME IInv PROVE UnheardIsFault
  <2>1. Lost \in SUBSET Tasks /\ Unheard \in SUBSET Lost
    BY DEF Lost, Unheard
  <2>2. IsFiniteSet(Lost)
    BY <2>1, FS_Subset, TasksAssumption
  <2>3. IsFiniteSet(Unheard) /\ Cardinality(Unheard) <= Cardinality(Lost)
    BY <2>1, <2>2, FS_Subset
  <2>4. Cardinality(Unheard) \in Nat /\ Cardinality(Lost) \in Nat /\ faults \in Nat
    BY <1>1, <2>2, <2>3, FS_CardinalityType, PoolAssumption DEF IInv, TypeOK
  <2>5. QED
    BY <1>1, <2>3, <2>4 DEF IInv, LostClock, UnheardIsFault
<1>2. QED
  BY <1>1, Invariance, PTL

\* Only a job of its own takes a file of such a task from Completed, and it
\* has none left.
LEMMA KeptStep ==
  ASSUME IInv, [Next]_vars, NEW t \in Kept, NEW f \in Files, <<t, f>> \in completed
  PROVE  <<t, f>> \in completed'
<1> USE DEF rows, call, service, jobs, history
<1>1. ASSUME NEW j \in running, JobDone(j) \/ JobFails(j) PROVE <<t, f>> \in completed'
  <2>1. Row(j) # <<t, f>>
    BY DEF IInv, SendsAreNew, Row
  <2>2. completed \ {Row(j)} \subseteq completed'
    BY <1>1 DEF JobDone, JobFails
  <2>3. QED
    BY <2>1, <2>2
<1>2. CASE ~ \E j \in running : JobDone(j) \/ JobFails(j)
  <2>1. completed' = completed
    BY <1>2, Cases DEF Fetch, Enter, CreatePool, DestroyPool, Swap, SetUrl, Skip, Mark, Scan,
       Exec, BeginWait, AllDone, Strays, EndWait, Check, SendEnd, Extract, Retry, NullPool,
       Crash, Restart, JobStarts, StopPool, ResetPool, vars
  <2>2. QED
    BY <2>1
<1>3. QED
  BY <1>1, <1>2

\* Callers kept apart, and no pool replaced under their jobs: no task and no file is
\* uploaded a second time, and no Completed row is taken back.
THEOREM SentOnce == Spec => NothingTakenBack
<1>1. IInv /\ [Next]_vars =>
        [\A t \in Kept :
           /\ state[t] = "extract" => state'[t] = "extract"
           /\ \A f \in Files : <<t, f>> \in completed => <<t, f>> \in completed']_vars
  BY FinalStep, KeptStep DEF IInv, Kept
<1>2. QED
  BY <1>1, Invariance, PTL DEF Spec, NothingTakenBack

-----------------------------------------------------------------------------
(* The seam to OverlappingSends.                                           *)

\* A file of a task whose callers are kept apart, with no pool replaced under its
\* jobs, is sent by one job at a time.
THEOREM OneSenderEach == Spec => []SendsApart
<1>1. IInv => SendsApart
  BY OneSender DEF IInv
<1>2. QED
  BY <1>1, Invariance, PTL

\* A step of the task and its pool is, to one row, a step of its jobs.
LEMMA SentStep ==
  ASSUME IInv, [Next]_vars, NEW t \in Tasks, NEW f \in Files
  PROVE  [Sent(t, f)!Next]_(Sent(t, f)!vars)
<1> DEFINE sending == {s \in Pools \X Callers : <<s[1], s[2], t, f>> \in running}
<1> USE DEF Sent!Next, Sent!vars, Sent!Start, Sent!Done, Sent!Fails, Sent!Crash
<1>0. TypeOK /\ OneJob
  BY DEF IInv
<1>1. ASSUME UNCHANGED <<completed, running>> PROVE UNCHANGED Sent(t, f)!vars
  BY <1>1
<1>2. ASSUME NEW c \in Callers,
             \/ \E u \in Tasks : Fetch(c, u)
             \/ Enter(c) \/ CreatePool(c) \/ DestroyPool(c) \/ SetUrl(c) \/ Skip(c) \/ Mark(c)
             \/ \E g \in Files : Scan(c, g)
             \/ \E j \in handed : Exec(c, j)
             \/ BeginWait(c) \/ AllDone(c) \/ Strays(c) \/ Check(c)
             \/ SendEnd(c) \/ Extract(c) \/ Retry(c)
      PROVE  UNCHANGED Sent(t, f)!vars
  <2>1. UNCHANGED <<completed, running>>
    BY <1>2 DEF Fetch, Enter, CreatePool, DestroyPool, Swap, SetUrl, Skip, Mark, Scan, Exec,
       BeginWait, AllDone, Strays, EndWait, Check, SendEnd, Extract, Retry, rows, jobs
  <2>2. QED
    BY <1>1, <2>1
<1>3. ASSUME Restart PROVE Sent(t, f)!Crash
  BY <1>3 DEF Restart, rows
<1>4. ASSUME NEW j \in queued, JobStarts(j) PROVE [Sent(t, f)!Next]_(Sent(t, f)!vars)
  <2>1. j \notin running /\ UNCHANGED completed
    BY <1>0, <1>4 DEF OneJob, JobStarts, rows
  <2>2. CASE Row(j) \in completed
    BY <1>1, <1>4, <2>1, <2>2 DEF JobStarts
  <2>3. CASE Row(j) \notin completed
    <3>1. running' = running \cup {j}
      BY <1>4, <2>3 DEF JobStarts
    <3>2. CASE j = <<j[1], j[2], t, f>>
      <4>0. <<j[1], j[2]>> \in Pools \X Callers
        BY <1>0, JobRow DEF TypeOK
      <4>1. sending' = sending \cup {<<j[1], j[2]>>} /\ <<j[1], j[2]>> \notin sending
        BY <2>1, <3>1, <3>2, <4>0
      <4>2. <<t, f>> \notin completed
        BY <2>3, <3>2 DEF Row
      <4>3. Sent(t, f)!Start(<<j[1], j[2]>>)
        BY <2>1, <4>0, <4>1, <4>2
      <4>4. QED
        BY <4>1, <4>3
    <3>3. CASE j # <<j[1], j[2], t, f>>
      <4>1. sending' = sending
        BY <3>1, <3>3
      <4>2. QED
        BY <2>1, <4>1
    <3>4. QED
      BY <3>2, <3>3
  <2>4. QED
    BY <2>2, <2>3
<1>5. ASSUME NEW j \in running, JobEnds(j),
             \/ completed' = completed \cup {Row(j)}
             \/ completed' \in {completed, completed \ {Row(j)}}
      PROVE  [Sent(t, f)!Next]_(Sent(t, f)!vars)
  <2>1. CASE j = <<j[1], j[2], t, f>>
    <3>1. sending' = sending \ {<<j[1], j[2]>>} /\ <<j[1], j[2]>> \in sending
      <4>1. <<j[1], j[2]>> \in Pools \X Callers
        BY <1>0, JobRow DEF TypeOK
      <4>2. QED
        BY <1>5, <2>1, <4>1 DEF JobEnds
    <3>2. Sent(t, f)!Done(<<j[1], j[2]>>) \/ Sent(t, f)!Fails(<<j[1], j[2]>>)
      <4>1. Row(j) = <<t, f>>
        BY <2>1 DEF Row
      <4>2. CASE completed' = completed \cup {Row(j)}
        <5>1. (<<t, f>> \in completed') = TRUE
          BY <4>1, <4>2
        <5>2. QED
          BY <3>1, <5>1
      <4>3. CASE completed' \in {completed, completed \ {Row(j)}}
        <5>1. (<<t, f>> \in completed') \in {(<<t, f>> \in completed), FALSE}
          <6>1. CASE completed' = completed
            BY <6>1
          <6>2. CASE completed' = completed \ {Row(j)}
            <7>1. (<<t, f>> \in completed') = FALSE
              BY <4>1, <6>2
            <7>2. QED
              BY <7>1
          <6>3. QED
            BY <4>3, <6>1, <6>2
        <5>2. QED
          BY <3>1, <5>1
      <4>4. QED
        BY <1>5, <4>2, <4>3
    <3>3. QED
      BY <3>1, <3>2
  <2>2. CASE j # <<j[1], j[2], t, f>>
    <3>1. sending' = sending
      BY <1>5, <2>2 DEF JobEnds
    <3>2. (<<t, f>> \in completed') = (<<t, f>> \in completed)
      <4>1. Row(j) # <<t, f>>
        BY <1>0, <2>2, JobRow DEF Row, TypeOK
      <4>2. QED
        BY <1>5, <4>1
    <3>3. QED
      BY <3>1, <3>2
  <2>3. QED
    BY <2>1, <2>2
<1>6. ASSUME NEW j \in running, JobDone(j) \/ JobFails(j)
      PROVE  [Sent(t, f)!Next]_(Sent(t, f)!vars)
  BY <1>5, <1>6 DEF JobDone, JobFails
<1>7. CASE StopPool \/ ResetPool \/ UNCHANGED vars
  BY <1>1, <1>7 DEF StopPool, ResetPool, Swap, vars, rows
<1>8. QED
  BY Cases, <1>2, <1>3, <1>4, <1>6, <1>7 DEF Crash, NullPool

\* Every row of the table is written the way calls of send_file write one: a
\* job starts on a row that is not Completed, and only an end of a job changes it.
THEOREM JobsKeptToSends == Spec => JobsAreSends
<1>1. Init => \A t \in Tasks : \A f \in FilesOf[t] : Sent(t, f)!Init
  BY DEF Init, Sent!Init
<1>2. IInv /\ [Next]_vars =>
        [\A t \in Tasks : \A f \in FilesOf[t] : [Sent(t, f)!Next]_(Sent(t, f)!vars)]_vars
  BY SentStep, FilesAssumption
<1>3. QED
  BY <1>1, <1>2, Invariance, PTL DEF Spec, JobsAreSends
=============================================================================
