----------------------------- MODULE UploadTask -----------------------------
(***************************************************************************)
(* upload_one_task_to_cloud of src/sender.cpp: the state of a task in the  *)
(* table tasks, the threads that upload it, and the thread pool they share *)
(* for the jobs that send one file each.                                   *)
(*                                                                         *)
(* A caller works on a copy of the task, which it has fetched at any time  *)
(* before.  A job is a call of send_file seen from outside: it leaves the  *)
(* row of its file Completed, or as it was, or written over with the copy  *)
(* the job had read.  The rows survive a crash, nothing else does.         *)
(*                                                                         *)
(* thread_pool points to a pool object that is replaced and destroyed      *)
(* while others use it.  Of the pool itself, a library: the jobs it has    *)
(* not started when it is stopped or destroyed, and those it is given      *)
(* after that, never run; stop() and the destructor wait for the running   *)
(* ones.                                                                   *)
(***************************************************************************)
EXTENDS Integers, FiniteSets

CONSTANTS
  Callers,    \* threads that call upload_one_task_to_cloud
  Tasks,
  Files,
  FilesOf,    \* the files of a task that have a row
  Pools,      \* names of pool objects, used again for later ones
  None,       \* no pool, no task
  PoolSize,   \* threads of the pool: 1 with LOCAL_DBG, else 10
  Exclusive,  \* tasks the application uploads in one thread at a time
  MaxFaults   \* bound: crashes, stops of the pool, failed requests

ASSUME CallerAssumption == Exclusive \subseteq Tasks
ASSUME TasksAssumption == IsFiniteSet(Tasks) /\ None \notin Tasks
ASSUME FilesAssumption == FilesOf \in [Tasks -> SUBSET Files]
ASSUME PoolAssumption == PoolSize \in Nat \ {0} /\ MaxFaults \in Nat /\ None \notin Pools

VARIABLES
  state,      \* per task: its row in the table tasks
  completed,  \* rows of file_transfers that are Completed
  pc,         \* per caller: where it is
  task, copy, \* per caller: the task it holds and the state it read
  toScan,     \* per caller: files the directory iterators have not reached
  pool,       \* the object thread_pool points to
  stopped,    \* the one stop_thread_pool has stopped, until it resets the pointer
  mine,       \* per caller: the one it waits on, or is destroying
  named,      \* request_url is set
  handed,     \* jobs whose caller has read thread_pool and not called exec
  queued,     \* jobs a pool has not started
  running,    \* jobs a pool is running
  ended,      \* tasks whose upload-end was answered, or had no url to be sent to
  orphaned,   \* history: Exclusive tasks a pool ran jobs of when it was replaced
  faults,     \* history: faults so far
  crashed     \* history: the process has crashed

rows    == <<state, completed>>
call    == <<task, copy, toScan>>
service == <<pool, stopped, mine, named>>
jobs    == <<handed, queued, running>>
history == <<orphaned, faults, crashed>>
vars == <<state, completed, pc, task, copy, toScan, pool, stopped, mine, named,
          handed, queued, running, ended, orphaned, faults, crashed>>

States == {"wait", "transfer", "extract"}
Rows   == Tasks \X Files
Jobs   == Pools \X Callers \X Tasks \X Files

\* The rows is_finish_upload_by_task_id looks at.
RowsOf(t) == {t} \X FilesOf[t]

\* The row a job sends.
Row(j) == <<j[3], j[4]>>

\* The places of a caller: "held" before the call, Entering up to the test of
\* the task, Working after it.
Entering == {"held", "creating", "replacing", "naming", "marking"}
Working  == {"scan", "exec", "wait", "check", "ending", "ended", "failing"}

At(c, place) == pc[c] = place

TypeOK ==
  /\ state \in [Tasks -> States]
  /\ completed \subseteq Rows
  /\ pc \in [Callers -> {"idle"} \cup Entering \cup Working]
  /\ task \in [Callers -> Tasks \cup {None}]
  /\ \A c \in Callers : task[c] = None <=> At(c, "idle")
  /\ copy \in [Callers -> States]
  /\ toScan \in [Callers -> SUBSET Files]
  /\ pool \in Pools \cup {None} /\ stopped \in Pools \cup {None}
  /\ mine \in [Callers -> Pools \cup {None}]
  /\ named \in BOOLEAN
  /\ handed \subseteq Jobs
  /\ queued \subseteq Jobs
  /\ running \subseteq Jobs
  /\ ended \subseteq Tasks /\ orphaned \subseteq Tasks
  /\ faults \in 0 .. MaxFaults
  /\ crashed \in BOOLEAN

Init ==
  /\ state = [t \in Tasks |-> "wait"]
  /\ completed = {}
  /\ pc = [c \in Callers |-> "idle"]
  /\ task = [c \in Callers |-> None]
  /\ copy = [c \in Callers |-> "wait"]
  /\ toScan = [c \in Callers |-> {}]
  /\ pool = None /\ stopped = None
  /\ mine = [c \in Callers |-> None]
  /\ named = FALSE
  /\ handed = {}
  /\ queued = {}
  /\ running = {}
  /\ ended = {} /\ orphaned = {}
  /\ faults = 0
  /\ crashed = FALSE

Goto(c, place) == pc' = [pc EXCEPT ![c] = place]

\* The call returns, and its copy and the task it was for are forgotten.
Return(c) ==
  /\ Goto(c, "idle")
  /\ task' = [task EXCEPT ![c] = None]

Fault == faults < MaxFaults /\ faults' = faults + 1

-----------------------------------------------------------------------------
(* A caller.                                                               *)

\* query_task_by_id, or whatever else the caller has its copy from.
Fetch(c, t) ==
  /\ At(c, "idle")
  /\ t \in Exclusive => \A d \in Callers : task[d] # t
  /\ Goto(c, "held")
  /\ task' = [task EXCEPT ![c] = t]
  /\ copy' = [copy EXCEPT ![c] = state[t]]
  /\ UNCHANGED <<rows, toScan, service, jobs, ended, history>>

\* start_thread_pool: the test of the pointer.
Enter(c) ==
  /\ At(c, "held")
  /\ Goto(c, IF pool # None THEN "marking" ELSE "creating")
  /\ UNCHANGED <<rows, call, service, jobs, ended, history>>

\* A pool nobody remembers.
InUse == {pool, stopped} \cup {mine[c] : c \in Callers} \cup {j[1] : j \in handed \cup running}
Fresh == CHOOSE g \in Pools \ InUse : TRUE

\* Mutant: the jobs that have not started stay with a pool that is gone.
Swap_KeepsJobs(p) ==
  /\ pool' = p
  /\ orphaned' = orphaned \cup ({j[3] : j \in running} \cap Exclusive)
  /\ UNCHANGED queued

\* thread_pool is made to point to p.  The object it pointed to is destroyed
\* next, with the jobs it has not started.
Swap(p) ==
  /\ pool' = p
  /\ queued' = {}
  /\ orphaned' = orphaned \cup ({j[3] : j \in running} \cap Exclusive)

\* The assignment: the new pool can be used at once, whatever the old one runs,
\* if another caller has created one since the test.
CreatePool(c) ==
  /\ At(c, "creating")
  /\ ~(Pools \subseteq InUse)
  /\ Swap(Fresh)
  /\ mine' = [mine EXCEPT ![c] = pool]
  /\ Goto(c, "replacing")
  /\ UNCHANGED <<rows, call, stopped, named, handed, running, ended, faults, crashed>>

\* The old pool has ended the jobs it was running.
RunsNothing(p) == \A j \in running : j[1] # p

DestroyPool(c) ==
  /\ At(c, "replacing")
  /\ RunsNothing(mine[c])
  /\ mine' = [mine EXCEPT ![c] = None]
  /\ Goto(c, "naming")
  /\ UNCHANGED <<rows, call, pool, stopped, named, jobs, ended, history>>

\* request_url is set when other callers may be using the pool already.
SetUrl(c) ==
  /\ At(c, "naming")
  /\ named' = TRUE
  /\ Goto(c, "marking")
  /\ UNCHANGED <<rows, call, pool, stopped, mine, jobs, ended, history>>

\* The state tested is that of the copy.  A copy that has been dropped is set
\* back to "wait", which only saves states.
Skip(c) ==
  /\ At(c, "marking")
  /\ copy[c] # "wait"
  /\ Return(c)
  /\ copy' = [copy EXCEPT ![c] = "wait"]
  /\ UNCHANGED <<rows, toScan, service, jobs, ended, history>>

\* Mutant: whatever the state of the task is.
Mark_Untested(c) ==
  /\ At(c, "marking")
  /\ Goto(c, "scan")
  /\ state' = [state EXCEPT ![task[c]] = "transfer"]
  /\ toScan' = [toScan EXCEPT ![c] = FilesOf[task[c]]]
  /\ UNCHANGED <<completed, task, copy, service, jobs, ended, history>>

Mark(c) ==
  /\ At(c, "marking")
  /\ copy[c] = "wait"
  /\ Goto(c, "scan")
  /\ state' = [state EXCEPT ![task[c]] = "transfer"]
  /\ toScan' = [toScan EXCEPT ![c] = FilesOf[task[c]]]
  /\ UNCHANGED <<completed, task, copy, service, jobs, ended, history>>

\* One file of the directory: a job is made of one that is not Completed, for
\* the pool thread_pool points to.
Scan(c, f) ==
  /\ At(c, "scan")
  /\ f \in toScan[c]
  /\ toScan' = [toScan EXCEPT ![c] = @ \ {f}]
  /\ \/ <<task[c], f>> \in completed /\ UNCHANGED <<pc, handed>>
     \/ /\ <<task[c], f>> \notin completed
        /\ pool # None
        /\ handed' = handed \cup {<<pool, c, task[c], f>>}
        /\ Goto(c, "exec")
  /\ UNCHANGED <<rows, task, copy, service, queued, running, ended, history>>

Live(p) == p = pool /\ p # stopped

\* exec: a pool that is stopped or destroyed meanwhile does not run the job.
Exec(c, j) ==
  /\ At(c, "exec")
  /\ j[2] = c
  /\ handed' = handed \ {j}
  /\ queued' = IF Live(j[1]) THEN queued \cup {j} ELSE queued
  /\ Goto(c, "scan")
  /\ UNCHANGED <<rows, call, service, running, ended, history>>

BeginWait(c) ==
  /\ At(c, "scan")
  /\ toScan[c] = {}
  /\ pool # None
  /\ mine' = [mine EXCEPT ![c] = pool]
  /\ Goto(c, "wait")
  /\ UNCHANGED <<rows, call, pool, stopped, named, jobs, ended, history>>

EndWait(c) ==
  /\ At(c, "wait")
  /\ mine' = [mine EXCEPT ![c] = None]
  /\ Goto(c, "check")
  /\ UNCHANGED <<rows, call, pool, stopped, named, jobs, ended, history>>

\* Mutant: a wait that only looks at the queue.
AllDone_QueueOnly(c) ==
  /\ EndWait(c)
  /\ Live(mine[c])
  /\ queued = {}

\* wait_for_all_done: the jobs of all callers.
AllDone(c) ==
  /\ EndWait(c)
  /\ Live(mine[c])
  /\ queued = {}
  /\ RunsNothing(pool)

\* The pool a caller waits on was stopped, or replaced and destroyed, under it.
Stranded(c) == At(c, "wait") /\ ~Live(mine[c])

\* Its wait may end, once a pool that is still there has nothing to run, or last
\* for ever.
Strays(c) ==
  /\ Stranded(c)
  /\ mine[c] = pool => RunsNothing(pool)
  /\ EndWait(c)

\* Mutant: one file is enough.
Check_Some(c) ==
  /\ At(c, "check")
  /\ Goto(c, IF RowsOf(task[c]) \cap completed # {}
             THEN "ending" ELSE "failing")
  /\ UNCHANGED <<rows, call, service, jobs, ended, history>>

\* is_finish_upload_by_task_id.
Check(c) ==
  /\ At(c, "check")
  /\ Goto(c, IF RowsOf(task[c]) \subseteq completed
             THEN "ending" ELSE "failing")
  /\ UNCHANGED <<rows, call, service, jobs, ended, history>>

\* The request upload-end is answered, or lost, or goes nowhere since there is no
\* url yet; the callback runs in any case.
SendEnd(c) ==
  /\ At(c, "ending")
  /\ Goto(c, "ended")
  /\ \/ ended' = ended \cup {task[c]} /\ UNCHANGED faults
     \/ named /\ Fault /\ UNCHANGED ended
  /\ UNCHANGED <<rows, call, service, jobs, orphaned, crashed>>

\* Mutant: the state does not wait for the request.
Extract_Unasked(c) ==
  /\ At(c, "ending") \/ At(c, "ended")
  /\ Return(c)
  /\ state' = [state EXCEPT ![task[c]] = "extract"]
  /\ UNCHANGED <<completed, copy, toScan, service, jobs, ended, history>>

Extract(c) ==
  /\ At(c, "ended")
  /\ Return(c)
  /\ state' = [state EXCEPT ![task[c]] = "extract"]
  /\ UNCHANGED <<completed, copy, toScan, service, jobs, ended, history>>

\* Mutant: the task is not given back.
Retry_Forgotten(c) ==
  /\ At(c, "failing")
  /\ Return(c)
  /\ UNCHANGED <<rows, copy, toScan, service, jobs, ended, history>>

Retry(c) ==
  /\ At(c, "failing")
  /\ Return(c)
  /\ state' = [state EXCEPT ![task[c]] = "wait"]
  /\ UNCHANGED <<completed, copy, toScan, service, jobs, ended, history>>

-----------------------------------------------------------------------------
(* The pool.                                                               *)

\* Mutant: a row that is Completed is sent again.
JobStarts_Unchecked(j) ==
  /\ Live(j[1])
  /\ Cardinality({i \in running : i[1] = j[1]}) < PoolSize
  /\ queued' = queued \ {j}
  /\ running' = running \cup {j}
  /\ UNCHANGED <<rows, pc, call, service, handed, ended, history>>

\* send_file reads the row, and returns at once if it is Completed.
JobStarts(j) ==
  /\ Live(j[1])
  /\ Cardinality({i \in running : i[1] = j[1]}) < PoolSize
  /\ queued' = queued \ {j}
  /\ running' = IF Row(j) \in completed THEN running ELSE running \cup {j}
  /\ UNCHANGED <<rows, pc, call, service, handed, ended, history>>

JobEnds(j) ==
  /\ running' = running \ {j}
  /\ UNCHANGED <<state, pc, call, service, handed, queued, ended, orphaned, crashed>>

JobDone(j) ==
  /\ JobEnds(j)
  /\ named
  /\ completed' = completed \cup {Row(j)}
  /\ UNCHANGED faults

\* A part fails; after "not find file_id" the row is written from the copy,
\* which is not Completed.  Without a url every request fails.
JobFails(j) ==
  /\ JobEnds(j)
  /\ \/ Fault /\ completed' \in {completed, completed \ {Row(j)}}
     \/ ~named /\ UNCHANGED <<completed, faults>>

\* stop_thread_pool, one call at a time: thread_pool->stop() begins,
StopPool ==
  /\ pool # None
  /\ stopped = None
  /\ Fault
  /\ stopped' = pool
  /\ queued' = {}
  /\ UNCHANGED <<rows, pc, call, pool, mine, named, handed, running, ended, orphaned, crashed>>

\* and ends; the pointer is reset, whatever pool it points to by now.
ResetPool ==
  /\ stopped # None
  /\ RunsNothing(stopped)
  /\ stopped' = None
  /\ Swap(None)
  /\ UNCHANGED <<rows, pc, call, mine, named, handed, running, ended, faults, crashed>>

-----------------------------------------------------------------------------
(* The process dies and starts again.                                      *)

Restart ==
  /\ pc' = [c \in Callers |-> "idle"]
  /\ pool' = None
  /\ stopped' = None
  /\ mine' = [c \in Callers |-> None]
  /\ named' = FALSE
  /\ handed' = {}
  /\ queued' = {}
  /\ running' = {}
  /\ crashed' = TRUE
  /\ task' = [c \in Callers |-> None]
  /\ copy' = [c \in Callers |-> "wait"]
  /\ toScan' = [c \in Callers |-> {}]
  /\ UNCHANGED <<rows, ended, orphaned>>

\* At any time, and so also of a call to a pool that is gone: nobody holds on to
\* the object it calls.
Crash == Fault /\ Restart

\* thread_pool is used without a test, and may be null again.
NullPool(c) ==
  /\ At(c, "scan")
  /\ pool = None
  /\ toScan[c] = {} \/ \E f \in toScan[c] : <<task[c], f>> \notin completed
  /\ Restart
  /\ UNCHANGED faults

-----------------------------------------------------------------------------
Acts(c) ==
  \/ Enter(c) \/ CreatePool(c) \/ DestroyPool(c) \/ SetUrl(c) \/ Skip(c) \/ Mark(c)
  \/ \E f \in Files : Scan(c, f)
  \/ \E j \in handed : Exec(c, j)
  \/ BeginWait(c) \/ AllDone(c) \/ Check(c)
  \/ SendEnd(c) \/ Extract(c) \/ Retry(c)

Step(c) == Acts(c) \/ NullPool(c)

Pool == (\E j \in queued : JobStarts(j)) \/ (\E j \in running : JobDone(j))

Next ==
  \/ \E c \in Callers, t \in Tasks : Fetch(c, t)
  \/ \E c \in Callers : Step(c) \/ Strays(c)
  \/ Pool
  \/ \E j \in running : JobFails(j)
  \/ StopPool \/ ResetPool
  \/ Crash

Spec == Init /\ [][Next]_vars

\* The threads run, and the application finds a caller for a task that waits,
\* however busy its callers are with other tasks.
FairSpec ==
  /\ Spec
  /\ \A c \in Callers : WF_vars(Step(c))
  /\ WF_vars(Pool)
  /\ WF_vars(ResetPool)
  /\ \A t \in Tasks : SF_vars(\E c \in Callers : state[t] = "wait" /\ Fetch(c, t))

-----------------------------------------------------------------------------
(* Safety.                                                                 *)

Busy(c) == pc[c] \in Working

\* The tasks the application uploads in one thread at a time, but for those whose
\* jobs a pool was running when it was replaced or reset: wait_for_all_done then
\* waits for other jobs, and their caller gives the task back under them.
Kept == Exclusive \ orphaned

\* A task that waits for its frames has every file Completed, through failed
\* jobs, crashes and a pool that is stopped or replaced before it runs jobs of
\* the task (the test of the copy at line 379, the wait for the jobs, the check
\* of the rows).
ExtractIsComplete ==
  \A t \in Kept : state[t] = "extract" => RowsOf(t) \subseteq completed

\* Of what such a task has reached nothing is taken back: it is not uploaded,
\* and not ended, a second time, and a file that is Completed stays Completed,
\* though a job that fails may write the row over.
NothingTakenBack ==
  [][\A t \in Kept :
       /\ state[t] = "extract" => state'[t] = "extract"
       /\ \A f \in Files : <<t, f>> \in completed => <<t, f>> \in completed']_vars

\* A job refers to the task_id of its caller, a local variable: while its pool is
\* the one thread_pool points to, stopped or not, it ends before the caller does,
\* whatever the other callers do.  A replaced pool breaks this.
JobsWithinCall ==
  \A j \in queued \cup running : j[1] = pool =>
    /\ pc[j[2]] \in {"scan", "exec", "wait"}
    /\ task[j[2]] = j[3]

\* Unless the process has crashed, a task that is being transferred has a
\* caller that will change that, also when callers hold the same task.
TransferHasCaller ==
  ~crashed =>
    \A t \in Tasks : state[t] = "transfer" => \E c \in Callers : Busy(c) /\ task[c] = t

\* A task that passes for ended without the server having heard of it lost its
\* upload-end on the way, or sent it before any caller had set the url, and is
\* never ended again: nothing else, no overlap of callers, no crash and no pool
\* that is replaced, lets an upload-end go missing.
Unheard == {t \in Tasks \ ended : state[t] = "extract"}
UnheardIsFault == Cardinality(Unheard) <= faults

\* These, and the tasks whose caller has just lost its upload-end.
Lost == Unheard \cup {t \in Tasks \ ended : \E c \in Callers : At(c, "ended") /\ task[c] = t}
LostClock == Cardinality(Lost) <= faults

\* A caller at the end of an upload has seen all files Completed.
EndIsComplete ==
  \A c \in Callers :
    task[c] \in Kept /\ pc[c] \in {"ending", "ended"} =>
      RowsOf(task[c]) \subseteq completed

\* One caller holds such a task, and its copy is right until it marks the task.
Apart ==
  \A c \in Callers : task[c] \in Exclusive =>
    /\ \A d \in Callers :
         task[c] = task[d] => c = d
    /\ pc[c] \in Entering => copy[c] = state[task[c]]
    /\ Busy(c) => state[task[c]] = "transfer"

\* What has not started is in the pool of the pointer; what runs elsewhere is
\* left behind.
Placed ==
  /\ \A j \in queued : Live(j[1])
  /\ \A j \in running : j[1] = pool \/ j[3] \notin Kept

\* A job on its way to a pool is its caller's only one, and a caller that waits
\* waits for the pool its jobs are in.
Handing ==
  /\ \A j \in handed :
       At(j[2], "exec") /\ task[j[2]] = j[3] /\ j[4] \notin toScan[j[2]]
  /\ \A i, j \in handed : i[2] = j[2] => i = j
  /\ \A j \in queued \cup running :
       j[1] = pool /\ At(j[2], "wait") => mine[j[2]] = pool

\* A call of upload_one_task_to_cloud makes one job of a file, if any.
OneJob ==
  /\ \A i \in handed, j \in queued \cup running :
       j[1] = pool /\ i[2] = j[2] => i[4] # j[4]
  /\ queued \cap running = {}
  /\ \A j \in queued \cup running : j[1] = pool => j[4] \notin toScan[j[2]]

\* So no two threads send a file of such a task at a time: the rows are read
\* and written by one job each.
SendsApart ==
  \A i, j \in queued \cup running : i[3] \in Kept /\ Row(i) = Row(j) => i = j

\* Such a job is made for a row that is not Completed, and nobody else
\* completes it.
SendsAreNew ==
  \A j \in handed \cup queued \cup running : j[3] \in Kept => Row(j) \notin completed

IInv ==
  /\ TypeOK
  /\ ExtractIsComplete
  /\ JobsWithinCall
  /\ Placed
  /\ Handing
  /\ OneJob
  /\ TransferHasCaller
  /\ EndIsComplete
  /\ Apart
  /\ SendsAreNew
  /\ LostClock

\* To its row a job is what UploadJob says of one, whoever calls it: this is
\* where the calls of OverlappingSends come in.
Sent(t, f) == INSTANCE UploadJob WITH
  Jobs <- Pools \X Callers,
  completed <- <<t, f>> \in completed,
  running <- {s \in Pools \X Callers : <<s[1], s[2], t, f>> \in running}
JobsAreSends ==
  /\ \A t \in Tasks : \A f \in FilesOf[t] : Sent(t, f)!Init
  /\ [][\A t \in Tasks : \A f \in FilesOf[t] : [Sent(t, f)!Next]_(Sent(t, f)!vars)]_vars

-----------------------------------------------------------------------------
(* Liveness, under FairSpec.                                               *)

\* A task that waits is uploaded, or is left behind by a crash, or behind a
\* caller whose pool was taken from under it.
WaitingIsUploaded ==
  \A t \in Tasks : state[t] = "wait" ~>
    (state[t] = "extract" \/ crashed \/ \E c \in Callers : Stranded(c))

\* Every call returns, unless its pool is taken from under it: nobody waits for
\* ever for the jobs of the others.
CallReturns == \A c \in Callers : Busy(c) ~> (At(c, "idle") \/ Stranded(c))

=============================================================================
