---------------------------- MODULE TaskDelivery ----------------------------
(***************************************************************************)
(* One file of one task, from the state of the task down to the server:    *)
(* UploadTask and OverlappingSends together.  They share the row of the    *)
(* file, and a job the pool runs for it is a call of send_file: it starts  *)
(* with the call's query and ends with the call's last step.               *)
(***************************************************************************)
EXTENDS UploadTaskProofs

CONSTANTS
  theTask, theFile,  \* the row of file_transfers
  Parts,             \* parts of the file
  MaxIds             \* bound: transfer ids the server hands out

VARIABLES
  rowId, rowSize,                           \* the row, with completed
  place, myId, offset, reply,               \* the calls of send_file
  issued, known, stored,                    \* the server
  sound, misread, overlapped, sendFaults    \* history

theRow == <<theTask, theFile>>
Calls  == Pools \X Callers

Sends == INSTANCE OverlappingSendsProofs WITH
  Sends <- Calls, pc <- place, faults <- sendFaults, rowDone <- theRow \in completed

\* What only the calls and the server know.
sends == <<rowId, rowSize, place, myId, offset, reply, issued, known, stored,
           sound, misread, overlapped, sendFaults>>

\* The call a job is.
Call(j) == <<j[1], j[2]>>

JointInit == Init /\ Sends!Init

\* send_file reads the row; one that is Completed is not sent.
StartCall(j) ==
  /\ Row(j) = theRow
  /\ JobStarts(j)
  /\ Sends!Query(Call(j)) \/ (theRow \in completed /\ UNCHANGED sends)

CallStep(s) == Sends!Step(s) \/ Sends!Fails(s)

\* A call sends, is answered or writes to the row, and goes on.
Within(s) ==
  /\ place[s] # "idle"
  /\ CallStep(s)
  /\ place'[s] # "idle"
  /\ UNCHANGED vars

\* Its last step ends the job: what the call leaves in the row, the job does.
EndCall(j) ==
  /\ Row(j) = theRow
  /\ place[Call(j)] # "idle"
  /\ CallStep(Call(j))
  /\ place'[Call(j)] = "idle"
  /\ JobDone(j) \/ JobFails(j)

\* The callers, the pool, and the jobs of other rows.
Elsewhere ==
  /\ \/ \E c \in Callers, t \in Tasks : Fetch(c, t)
     \/ \E c \in Callers : Acts(c) \/ Strays(c)
     \/ \E j \in queued : Row(j) # theRow /\ JobStarts(j)
     \/ \E j \in running : Row(j) # theRow /\ (JobDone(j) \/ JobFails(j))
     \/ StopPool \/ ResetPool
  /\ UNCHANGED sends

\* The process is one.
CrashAll == (Crash \/ \E c \in Callers : NullPool(c)) /\ Sends!Crash

JointNext ==
  \/ \E j \in queued : StartCall(j)
  \/ \E s \in Calls : Within(s)
  \/ \E j \in running : EndCall(j)
  \/ Elsewhere
  \/ CrashAll
  \/ Sends!ServerForgets /\ UNCHANGED vars

JointSpec == JointInit /\ [][JointNext]_<<vars, sends>>

\* What OverlappingSends asks of its constants.
SizesAssumption == Parts \in Nat \ {0} /\ MaxIds \in Nat

\* The row of a task whose callers the application keeps apart.
RowAssumption == theTask \in Exclusive /\ theFile \in FilesOf[theTask]

-----------------------------------------------------------------------------
\* A call is on its way exactly when its job runs.
Linked == \A s \in Calls : place[s] # "idle" <=> <<s[1], s[2], theTask, theFile>> \in running

\* A step of both is a step of the task, or none.
LEMMA TaskHolds == [JointNext]_<<vars, sends>> => [Next]_vars
BY DEF JointNext, StartCall, Within, EndCall, Elsewhere, CrashAll, vars, Next, Step, Pool

\* A step of both is a step of the calls, or none.
LEMMA SendsHold == TypeOK /\ [JointNext]_<<vars, sends>> => [Sends!Next]_(Sends!vars)
<1> SUFFICES ASSUME TypeOK, [JointNext]_<<vars, sends>> PROVE [Sends!Next]_(Sends!vars)
  OBVIOUS
<1>1. ASSUME UNCHANGED sends, (theRow \in completed') = (theRow \in completed)
      PROVE  UNCHANGED Sends!vars
  BY <1>1 DEF sends, Sends!vars
<1>2. ASSUME NEW j \in queued, StartCall(j) PROVE [Sends!Next]_(Sends!vars)
  <2>1. CASE Sends!Query(Call(j))
    <3>1. Call(j) \in Calls
      BY JobRow DEF TypeOK, Call, Calls
    <3>2. QED
      BY <2>1, <3>1 DEF Sends!Next, Sends!Step
  <2>2. CASE UNCHANGED sends
    <3>1. completed' = completed
      BY <1>2 DEF StartCall, JobStarts, rows
    <3>2. QED
      BY <1>1, <2>2, <3>1
  <2>3. QED
    BY <1>2, <2>1, <2>2 DEF StartCall
<1>3. ASSUME NEW s \in Calls, Within(s) PROVE [Sends!Next]_(Sends!vars)
  BY <1>3 DEF Within, CallStep, Sends!Next
<1>4. ASSUME NEW j \in running, EndCall(j) PROVE [Sends!Next]_(Sends!vars)
  <2>1. Call(j) \in Calls
    BY JobRow DEF TypeOK, Call, Calls
  <2>2. QED
    BY <1>4, <2>1 DEF EndCall, CallStep, Sends!Next
<1>5. ASSUME Elsewhere PROVE (theRow \in completed') = (theRow \in completed)
  <2>1. ASSUME NEW j \in running, Row(j) # theRow, JobDone(j) \/ JobFails(j)
        PROVE  (theRow \in completed') = (theRow \in completed)
    BY <2>1 DEF JobDone, JobFails
  <2>2. CASE ~ \E j \in running : Row(j) # theRow /\ (JobDone(j) \/ JobFails(j))
    <3>1. completed' = completed
      BY <1>5, <2>2 DEF Elsewhere, Fetch, Acts, Enter, CreatePool, DestroyPool, Swap, SetUrl,
         Skip, Mark, Scan, Exec, BeginWait, AllDone, Strays, EndWait, Check, SendEnd, Extract,
         Retry, JobStarts, StopPool, ResetPool, rows
    <3>2. QED
      BY <3>1
  <2>3. QED
    BY <2>1, <2>2
<1>6. CASE Elsewhere
  BY <1>1, <1>5, <1>6 DEF Elsewhere
<1>7. CASE CrashAll
  BY <1>7 DEF CrashAll, Sends!Next
<1>8. CASE Sends!ServerForgets \/ UNCHANGED <<vars, sends>>
  <2>1. CASE UNCHANGED <<vars, sends>>
    BY <1>1, <2>1 DEF vars
  <2>2. QED
    BY <1>8, <2>1 DEF Sends!Next
<1>9. QED
  BY <1>2, <1>3, <1>4, <1>6, <1>7, <1>8 DEF JointNext

\* So each half behaves as its module says, and all that is proved there holds.
LEMMA Halves == JointSpec => Spec /\ Sends!Spec
<1>1. JointInit => Init /\ Sends!Init
  BY DEF JointInit
<1>2. Spec => []TypeOK
  BY TypeCorrect
<1>3. QED
  BY <1>1, <1>2, TaskHolds, SendsHold, PTL DEF JointSpec, Spec, Sends!Spec

-----------------------------------------------------------------------------
\* The call that starts or ends goes where its job does, and no other moves.
LEMMA QueryMoves ==
  ASSUME NEW s \in Calls, Sends!TypeOK, Sends!Query(s)
  PROVE  place'[s] # "idle" /\ \A r \in Calls \ {s} : place'[r] = place[r]
BY DEF Sends!Query, Sends!Goto, Sends!TypeOK

LEMMA CallMoves ==
  ASSUME NEW s \in Calls, Sends!TypeOK, CallStep(s)
  PROVE  \A r \in Calls \ {s} : place'[r] = place[r]
BY DEF CallStep, Sends!Step, Sends!Fails, Sends!Query, Sends!MetaServed, Sends!OnMetaAccepted,
   Sends!OnMetaAlready, Sends!OnMetaFailed, Sends!PutStored, Sends!PutUnknown,
   Sends!OnChunkPassed, Sends!OnChunkNotFound, Sends!OnChunkFailed, Sends!Complete,
   Sends!MetaFails, Sends!ReplyLost, Sends!PutFails, Sends!ReadFails, Sends!Goto, Sends!TypeOK

\* A job is of this row exactly when it is its call's.
LEMMA JobOfRow ==
  ASSUME NEW j \in Jobs, NEW s \in Calls
  PROVE  (Row(j) = theRow /\ s = Call(j)) <=> j = <<s[1], s[2], theTask, theFile>>
<1>1. s = <<s[1], s[2]>> /\ j = <<j[1], j[2], j[3], j[4]>>
  BY JobRow DEF Calls
<1>2. Row(j) = theRow <=> j[3] = theTask /\ j[4] = theFile
  BY DEF Row, theRow
<1>3. s = Call(j) <=> s[1] = j[1] /\ s[2] = j[2]
  BY <1>1 DEF Call
<1>4. QED
  BY <1>1, <1>2, <1>3

\* The tie is kept by every step.
LEMMA LinkedStep ==
  IInv /\ Sends!TypeOK /\ Linked /\ [JointNext]_<<vars, sends>> => Linked'
<1> SUFFICES ASSUME IInv, Sends!TypeOK, Linked, [JointNext]_<<vars, sends>> PROVE Linked'
  OBVIOUS
<1>0. TypeOK
  BY DEF IInv
<1>1. ASSUME UNCHANGED place,
             \A s \in Calls : <<s[1], s[2], theTask, theFile>> \in running'
                                <=> <<s[1], s[2], theTask, theFile>> \in running
      PROVE  Linked'
  BY <1>1 DEF Linked
<1>2. ASSUME NEW j \in queued, StartCall(j) PROVE Linked'
  <2>1. j \in Jobs /\ Call(j) \in Calls
    BY <1>0, JobRow DEF TypeOK, Call, Calls
  <2>2. CASE theRow \in completed
    <3>1. UNCHANGED <<place, running>>
      BY <1>2, <2>2 DEF StartCall, JobStarts, sends, Sends!Query
    <3>2. QED
      BY <1>1, <3>1
  <2>3. CASE theRow \notin completed
    <3>1. running' = running \cup {j} /\ Sends!Query(Call(j))
      BY <1>2, <2>3 DEF StartCall, JobStarts
    <3>2. place'[Call(j)] # "idle" /\ \A r \in Calls \ {Call(j)} : place'[r] = place[r]
      BY <2>1, <3>1, QueryMoves
    <3>3. \A s \in Calls : j = <<s[1], s[2], theTask, theFile>> <=> s = Call(j)
      BY <1>2, <2>1, JobOfRow DEF StartCall
    <3>4. QED
      BY <3>1, <3>2, <3>3 DEF Linked
  <2>4. QED
    BY <2>2, <2>3
<1>3. ASSUME NEW s \in Calls, Within(s) PROVE Linked'
  <2>1. running' = running /\ \A r \in Calls \ {s} : place'[r] = place[r]
    BY <1>3, CallMoves DEF Within, vars
  <2>2. QED
    BY <1>3, <2>1 DEF Within, Linked
<1>4. ASSUME NEW j \in running, EndCall(j) PROVE Linked'
  <2>1. j \in Jobs /\ Call(j) \in Calls
    BY <1>0, JobRow DEF TypeOK, Call, Calls
  <2>2. running' = running \ {j} /\ place'[Call(j)] = "idle"
    BY <1>4 DEF EndCall, JobDone, JobFails, JobEnds
  <2>3. \A r \in Calls \ {Call(j)} : place'[r] = place[r]
    BY <1>4, <2>1, CallMoves DEF EndCall
  <2>4. \A s \in Calls : j = <<s[1], s[2], theTask, theFile>> <=> s = Call(j)
    BY <1>4, <2>1, JobOfRow DEF EndCall
  <2>5. QED
    BY <2>2, <2>3, <2>4 DEF Linked
<1>5. CASE Elsewhere
  <2>0. UNCHANGED place
    BY <1>5 DEF Elsewhere, sends
  <2>1. ASSUME NEW j \in queued, Row(j) # theRow, JobStarts(j) PROVE Linked'
    <3>1. running' \in {running, running \cup {j}}
      BY <2>1 DEF JobStarts
    <3>2. \A s \in Calls : j # <<s[1], s[2], theTask, theFile>>
      BY <2>1 DEF Row, theRow
    <3>3. QED
      BY <1>1, <2>0, <3>1, <3>2
  <2>2. ASSUME NEW j \in running, Row(j) # theRow, JobDone(j) \/ JobFails(j) PROVE Linked'
    <3>1. running' = running \ {j}
      BY <2>2 DEF JobDone, JobFails, JobEnds
    <3>2. \A s \in Calls : j # <<s[1], s[2], theTask, theFile>>
      BY <2>2 DEF Row, theRow
    <3>3. QED
      BY <1>1, <2>0, <3>1, <3>2
  <2>3. ASSUME \/ \E c \in Callers, t \in Tasks : Fetch(c, t)
               \/ \E c \in Callers : Acts(c) \/ Strays(c)
               \/ StopPool \/ ResetPool
        PROVE  Linked'
    <3>1. running' = running
      BY <2>3 DEF Fetch, Acts, Enter, CreatePool, DestroyPool, Swap, SetUrl, Skip, Mark, Scan,
         Exec, BeginWait, AllDone, Strays, EndWait, Check, SendEnd, Extract, Retry, StopPool,
         ResetPool, jobs
    <3>2. QED
      BY <1>1, <2>0, <3>1
  <2>4. QED
    BY <1>5, <2>1, <2>2, <2>3 DEF Elsewhere
<1>6. CASE CrashAll
  <2>1. running' = {} /\ \A s \in Calls : place'[s] = "idle"
    BY <1>6 DEF CrashAll, Crash, NullPool, Restart, Sends!Crash
  <2>2. QED
    BY <2>1 DEF Linked
<1>7. CASE Sends!ServerForgets /\ UNCHANGED vars
  BY <1>1, <1>7 DEF Sends!ServerForgets, vars
<1>8. CASE UNCHANGED <<vars, sends>>
  BY <1>1, <1>8 DEF vars, sends
<1>9. QED
  BY <1>2, <1>3, <1>4, <1>5, <1>6, <1>7, <1>8 DEF JointNext

\* The bounds are numbers.
LEMMA SendsBounds ==
  ASSUME SizesAssumption
  PROVE  Parts \in Nat \ {0} /\ MaxIds \in Nat /\ MaxFaults \in Nat
BY PoolAssumption DEF SizesAssumption

\* A call of send_file is on its way exactly while a job of the pool, or of one
\* that is gone, runs for the row: the calls are neither cut short nor outlive it.
THEOREM JobsAreCalls == SizesAssumption /\ JointSpec => []Linked
<1> SUFFICES ASSUME SizesAssumption PROVE JointSpec => []Linked
  OBVIOUS
<1>1. JointInit => Linked
  BY DEF JointInit, Init, Sends!Init, Linked
<1>2. Sends!Spec => []Sends!IInv
  BY SendsBounds, Sends!Invariance, Zenon
<1>3. Sends!IInv => Sends!TypeOK
  BY DEF Sends!IInv
<1>4. Spec => []IInv
  BY Invariance
<1>5. QED
  BY <1>1, <1>2, <1>3, <1>4, Halves, LinkedStep, PTL DEF JointSpec

\* Two calls of send_file for the row would be two jobs of the pool.
LEMMA NoOverlapStep ==
  ASSUME RowAssumption, Linked', SendsApart', theTask \notin orphaned', Sends!TypeOK,
         ~overlapped, [Sends!Next]_(Sends!vars)
  PROVE  ~overlapped'
<1>0. theTask \in Kept'
  BY DEF RowAssumption, Kept
<1>1. ASSUME NEW s \in Calls, Sends!Query(s) PROVE ~overlapped'
  <2>1. ASSUME NEW r \in Calls \ {s}, place[r] # "idle" PROVE FALSE
    <3>1. place'[r] # "idle" /\ place'[s] # "idle"
      BY <1>1, <2>1, QueryMoves
    <3>2. /\ <<r[1], r[2], theTask, theFile>> \in running'
          /\ <<s[1], s[2], theTask, theFile>> \in running'
      BY <2>1, <3>1 DEF Linked
    <3>3. <<r[1], r[2], theTask, theFile>> = <<s[1], s[2], theTask, theFile>>
      BY <1>0, <3>2 DEF SendsApart, Row
    <3>4. QED
      BY <2>1, <3>3 DEF Calls
  <2>2. overlapped' = (overlapped \/ \E r \in Calls \ {s} : ~(place[r] = "idle"))
    BY <1>1 DEF Sends!Query, Sends!At
  <2>3. QED
    BY <2>1, <2>2
<1>2. ASSUME NEW s \in Calls, CallStep(s), ~Sends!Query(s) PROVE UNCHANGED overlapped
  BY <1>2 DEF CallStep, Sends!Step, Sends!Fails, Sends!MetaServed, Sends!OnMetaAccepted,
     Sends!OnMetaAlready, Sends!OnMetaFailed, Sends!PutStored, Sends!PutUnknown,
     Sends!OnChunkPassed, Sends!OnChunkNotFound, Sends!OnChunkFailed, Sends!Complete,
     Sends!MetaFails, Sends!ReplyLost, Sends!PutFails, Sends!ReadFails, Sends!history
<1>3. CASE Sends!Crash \/ Sends!ServerForgets \/ Sends!Finished \/ UNCHANGED Sends!vars
  BY <1>3 DEF Sends!Crash, Sends!ServerForgets, Sends!Finished, Sends!vars, Sends!history
<1>4. QED
  BY <1>1, <1>2, <1>3 DEF CallStep, Sends!Next

\* The application keeps the callers of a task apart: as long as no pool is
\* replaced under its jobs, no two calls of send_file for a file of it overlap, and
\* no call reads a row two uploads have mixed.
THEOREM CallsStayApart ==
  SizesAssumption /\ RowAssumption /\ JointSpec
    => [](theTask \notin orphaned => ~overlapped /\ ~misread)
<1> SUFFICES ASSUME SizesAssumption, RowAssumption
             PROVE  JointSpec => [](theTask \notin orphaned => ~overlapped /\ ~misread)
  OBVIOUS
<1> DEFINE Alone == theTask \notin orphaned => ~overlapped
<1>1. JointInit => Alone
  BY DEF JointInit, Sends!Init
<1>2. [Next]_vars => orphaned \subseteq orphaned'
  BY OrphansGrow
<1>3. Linked' /\ SendsApart' /\ Sends!TypeOK /\ Alone /\ [Next]_vars
        /\ [Sends!Next]_(Sends!vars) => Alone'
  BY <1>2, NoOverlapStep
<1>4. Spec => []SendsApart
  BY OneSenderEach
<1>5. Sends!Spec => []Sends!IInv
  BY SendsBounds, Sends!Invariance, Zenon
<1>6. Sends!IInv => Sends!TypeOK /\ (misread => overlapped)
  BY DEF Sends!IInv, Sends!MisreadIsOverlap
<1>7. JointSpec => []Linked
  BY JobsAreCalls
<1>8. Alone /\ (misread => overlapped) => (theTask \notin orphaned => ~overlapped /\ ~misread)
  OBVIOUS
<1> HIDE DEF Alone
<1>9. QED
  BY <1>1, <1>3, <1>4, <1>5, <1>6, <1>7, <1>8, Halves, PTL DEF JointSpec, Spec, Sends!Spec

\* From the state of the task to the server: of a task that waits for its frames,
\* uploaded by callers that are kept apart and with no pool replaced under its jobs,
\* the server has every part of each file, under one transfer id.
THEOREM ExtractedIsReceived ==
  SizesAssumption /\ RowAssumption /\ JointSpec =>
    [](theTask \notin orphaned /\ state[theTask] = "extract"
         => \E id \in Sends!Ids : Sends!Received(id))
<1> SUFFICES ASSUME SizesAssumption, RowAssumption
             PROVE  JointSpec => [](theTask \notin orphaned /\ state[theTask] = "extract"
                                      => \E id \in Sends!Ids : Sends!Received(id))
  OBVIOUS
<1>1. Sends!Spec => []Sends!DoneIsReceived
  BY SendsBounds, Sends!DoneMeansReceived, Zenon
<1>2. ExtractIsComplete /\ Sends!DoneIsReceived
        /\ (theTask \notin orphaned => ~overlapped /\ ~misread)
        => (theTask \notin orphaned /\ state[theTask] = "extract"
              => \E id \in Sends!Ids : Sends!Received(id))
  <2>1. theRow \in RowsOf(theTask)
    BY DEF RowAssumption, RowsOf, theRow
  <2>2. QED
    BY <2>1 DEF RowAssumption, ExtractIsComplete, Kept, Sends!DoneIsReceived
<1>3. JointSpec => [](theTask \notin orphaned => ~overlapped /\ ~misread)
  BY CallsStayApart
<1>4. QED
  BY <1>1, <1>2, <1>3, Halves, ExtractedIsComplete, PTL
=============================================================================
