------------------------------ MODULE SendFile ------------------------------
(***************************************************************************)
(* send_file of src/sender.cpp: one file, its row of the table             *)
(* file_transfers, and the upload server, as far as send_file sees it.     *)
(* The caller retries the file for as long as the row is not Completed,    *)
(* one call at a time (the pool of the debug build has one thread).        *)
(*                                                                         *)
(* The row survives a crash, the rest of the client does not.  Of a part   *)
(* the server keeps how far the bytes of the file are known to it without  *)
(* a gap, whether the part said "finally", and whether its bytes were read *)
(* from the place its Part-Info names.                                     *)
(***************************************************************************)
EXTENDS TransferResult

CONSTANTS
  FileSizes,       \* sizes the file may have
  ChunkSize,       \* chunk_size
  AcceptAnswer,    \* the answer to a part that was stored
  ErrorAnswer,     \* the answer to a part that was not, from the server or a proxy
  NotFoundAnswer,  \* the answer to a part under an id the server has forgotten
  MaxHandles,      \* files the process may have open
  MaxIds,          \* bound: transfer ids the server hands out
  MaxFaults        \* bound: crashes, lost messages, errors of the server

ASSUME SizeAssumption == FileSizes \subseteq Nat /\ ChunkSize \in Nat \ {0}
ASSUME ServerAssumption ==
  /\ {AcceptAnswer, ErrorAnswer, NotFoundAnswer} \subseteq Answer
  /\ ResultCode(AcceptAnswer) # 0
ASSUME LimitAssumption ==
  MaxHandles \in Nat \ {0} /\ MaxIds \in Nat /\ MaxFaults \in Nat

VARIABLES
  fileSize,                       \* file_size of the row
  rowId, rowSize, rowState,       \* transfer_id, transferred_size, transfer_state
  pc,                             \* where send_file is
  myId,                           \* file_transfer.transfer_id, the copy in memory
  offset,                         \* offset: where the next part belongs
  position,                       \* where the FILE stands
  reply,                          \* what Http::transfer handed to the callback
  handles,                        \* FILEs open in the process
  issued, known,                  \* ids handed out, and those not forgotten
  stored, final,                  \* per id: bytes without a gap; "finally" seen
  misplaced,                      \* ids that got bytes from elsewhere in the file
  resumed,                        \* history: ids a call went on with half way
  faults                          \* history: faults so far

row    == <<rowId, rowSize, rowState>>
local  == <<myId, offset, position>>
server == <<issued, known, stored, final, misplaced>>
history == <<resumed, faults>>
vars == <<fileSize, rowId, rowSize, rowState, pc, myId, offset, position, reply,
          handles, issued, known, stored, final, misplaced, resumed, faults>>

NoId == 0
Ids  == 1 .. MaxIds

TypeOK ==
  /\ fileSize \in FileSizes
  /\ rowId \in Ids \cup {NoId}
  /\ rowSize \in 0 .. fileSize
  /\ rowState \in {"absent", "todo", "done"}
  /\ pc \in {"idle", "open", "meta", "metaReply", "chunk", "chunkReply", "complete"}
  /\ myId \in Ids \cup {NoId}
  /\ offset \in 0 .. fileSize
  /\ position \in 0 .. fileSize
  /\ reply \in {"none", "empty", "ok", "error", "notFound", "already"}
  /\ handles \in 0 .. MaxHandles
  /\ issued \in 0 .. MaxIds
  /\ known \subseteq Ids
  /\ stored \in [Ids -> Nat]
  /\ final \subseteq Ids
  /\ misplaced \subseteq Ids
  /\ resumed \subseteq Ids
  /\ faults \in 0 .. MaxFaults

Init ==
  /\ fileSize \in FileSizes
  /\ rowId = NoId /\ rowSize = 0 /\ rowState \in {"absent", "todo"}
  /\ pc = "idle"
  /\ myId = NoId /\ offset = 0 /\ position = 0
  /\ reply = "none"
  /\ handles = 0
  /\ issued = 0 /\ known = {} /\ final = {}
  /\ misplaced = {} /\ resumed = {}
  /\ stored = [id \in Ids |-> 0]
  /\ faults = 0

Fault == faults < MaxFaults /\ faults' = faults + 1 /\ UNCHANGED resumed

\* fclose, and send_file returns.
Close ==
  /\ handles' = handles - 1
  /\ pc' = "idle"

-----------------------------------------------------------------------------
(* Opening the file.                                                       *)

\* send_file returns at once unless the row exists and is not Completed.
Query ==
  /\ pc = "idle"
  /\ rowState = "todo"
  /\ pc' = "open"
  /\ myId' = rowId
  /\ offset' = rowSize
  /\ UNCHANGED <<fileSize, row, position, reply, handles, server, history>>

Open ==
  /\ pc = "open"
  /\ handles < MaxHandles
  /\ handles' = handles + 1
  /\ position' = 0
  /\ pc' = IF myId = NoId THEN "meta" ELSE "chunk"
  /\ resumed' = IF myId # NoId /\ offset > 0 THEN resumed \cup {myId} ELSE resumed
  /\ UNCHANGED <<fileSize, row, myId, offset, reply, server, faults>>

OpenFailed ==
  /\ pc = "open"
  /\ handles = MaxHandles
  /\ pc' = "idle"
  /\ UNCHANGED <<fileSize, row, local, reply, handles, server, history>>

-----------------------------------------------------------------------------
(* The meta request.                                                       *)

\* Parts that cover the file, the last one marked, have arrived under the id;
\* what bytes they bring is a matter of misplaced.
Received(id) == id \in final /\ stored[id] = fileSize

\* The server answers 200 with a new id, or 406 for a file it already has.
\* The answer may be lost.
MetaServed ==
  /\ pc = "meta"
  /\ pc' = "metaReply"
  /\ \/ /\ \A id \in Ids : ~Received(id)
        /\ issued < MaxIds
        /\ issued' = issued + 1
        /\ known' = known \cup {issued + 1}
        /\ reply' = "ok"
     \/ /\ \E id \in Ids : Received(id)
        /\ reply' = "already"
        /\ UNCHANGED <<issued, known>>
  /\ UNCHANGED <<fileSize, row, local, handles, stored, final, misplaced, history>>

\* It answers with another code, without an id, or with no JSON at all, or
\* the request never reaches it.
MetaFails ==
  /\ pc = "meta"
  /\ Fault
  /\ pc' = "metaReply"
  /\ reply' \in {"error", "empty"}
  /\ UNCHANGED <<fileSize, row, local, handles, server>>

\* Either way the callback sees an empty answer.
ReplyLost ==
  /\ pc \in {"metaReply", "chunkReply"}
  /\ reply # "empty"
  /\ Fault
  /\ reply' = "empty"
  /\ UNCHANGED <<fileSize, row, pc, local, handles, server>>

\* 200 and an id: the id is kept and saved, and the parts follow.
OnMetaAccepted ==
  /\ pc = "metaReply"
  /\ reply = "ok"
  /\ pc' = "chunk"
  /\ reply' = "none"
  /\ myId' = issued
  /\ rowId' = issued
  /\ UNCHANGED <<fileSize, rowSize, rowState, offset, position, handles, server,
                 history>>

\* 406: Completed.  The early return does not close the file.
OnMetaAlready ==
  /\ pc = "metaReply"
  /\ reply = "already"
  /\ pc' = "idle"
  /\ reply' = "none"
  /\ rowState' = "done"
  /\ UNCHANGED <<fileSize, rowId, rowSize, local, handles, server, history>>

\* Anything else: no id, and no fclose either.
OnMetaFailed ==
  /\ pc = "metaReply"
  /\ reply \in {"error", "empty"}
  /\ pc' = "idle"
  /\ reply' = "none"
  /\ UNCHANGED <<fileSize, row, local, handles, server, history>>

-----------------------------------------------------------------------------
(* The parts.                                                              *)

ReadSize == IF fileSize - offset < ChunkSize THEN fileSize - offset ELSE ChunkSize

\* Mutant: a full part ends the file.
Finally_Eager == ReadSize <= ChunkSize

\* The last part is short, maybe empty.
Finally == ReadSize < ChunkSize

\* The server keeps the part, if it knows the id.
Store ==
  /\ stored' = [stored EXCEPT ![myId] =
                  IF offset <= @ /\ @ < offset + ReadSize
                  THEN offset + ReadSize ELSE @]
  /\ final' = IF Finally THEN final \cup {myId} ELSE final
  /\ misplaced' = IF position # offset /\ ReadSize > 0
                  THEN misplaced \cup {myId} ELSE misplaced

\* fread advances the FILE; nothing ever sets it to offset.
PutStored ==
  /\ pc = "chunk"
  /\ myId \in known
  /\ Store
  /\ position' = position + ReadSize
  /\ pc' = "chunkReply"
  /\ reply' = "ok"
  /\ UNCHANGED <<fileSize, row, myId, offset, handles, issued, known, history>>

\* The server has forgotten the id.
PutUnknown ==
  /\ pc = "chunk"
  /\ myId \notin known
  /\ position' = position + ReadSize
  /\ pc' = "chunkReply"
  /\ reply' = "notFound"
  /\ UNCHANGED <<fileSize, row, myId, offset, handles, server, history>>

\* It refuses the part for another reason, or the request is lost.
PutFails ==
  /\ pc = "chunk"
  /\ Fault
  /\ position' = position + ReadSize
  /\ pc' = "chunkReply"
  /\ reply' \in {"error", "empty"}
  /\ UNCHANGED <<fileSize, row, myId, offset, handles, server>>

ReadFails ==
  /\ pc = "chunk"
  /\ Fault
  /\ Close
  /\ UNCHANGED <<fileSize, row, local, reply, server>>

\* What the server says to a part it answers with r.
Wording(r) ==
  CASE r = "ok"       -> AcceptAnswer
    [] r = "error"    -> ErrorAnswer
    [] r = "notFound" -> NotFoundAnswer

\* check_transfer_result returns the code, -1 for what is no JSON; as a bool
\* every code but 0 passes.
Passes == reply # "empty" /\ ResultCode(Wording(reply)) # 0

\* The reason that makes the row start over.
SaysNotFound == reply # "empty" /\ ErrorInfo(Wording(reply)) = NotFindFileId

\* Mutant: an empty answer passes too.
OnChunkPassed_Lax ==
  /\ pc = "chunkReply"
  /\ Passes \/ reply = "empty"
  /\ reply' = "none"
  /\ offset' = offset + ReadSize
  /\ rowSize' = offset + ReadSize
  /\ pc' = IF Finally THEN "complete" ELSE "chunk"
  /\ UNCHANGED <<fileSize, rowId, rowState, myId, position, handles, server, history>>

OnChunkPassed ==
  /\ pc = "chunkReply"
  /\ Passes
  /\ reply' = "none"
  /\ offset' = offset + ReadSize
  /\ rowSize' = offset + ReadSize
  /\ pc' = IF Finally THEN "complete" ELSE "chunk"
  /\ UNCHANGED <<fileSize, rowId, rowState, myId, position, handles, server, history>>

\* Mutant: the row forgets the id and keeps the size.
OnChunkNotFound_KeepsSize ==
  /\ pc = "chunkReply"
  /\ SaysNotFound /\ ~Passes
  /\ reply' = "none"
  /\ Close
  /\ rowId' = NoId
  /\ UNCHANGED <<fileSize, rowSize, rowState, local, server, history>>

\* Mutant: the size starts over, the id stays.
OnChunkNotFound_KeepsId ==
  /\ pc = "chunkReply"
  /\ SaysNotFound /\ ~Passes
  /\ reply' = "none"
  /\ Close
  /\ rowSize' = 0
  /\ UNCHANGED <<fileSize, rowId, rowState, local, server, history>>

\* Mutant: the answer is only logged.
OnChunkNotFound_Ignored ==
  /\ pc = "chunkReply"
  /\ SaysNotFound /\ ~Passes
  /\ reply' = "none"
  /\ Close
  /\ UNCHANGED <<fileSize, row, local, server, history>>

\* "not find file_id": the row starts over.
OnChunkNotFound ==
  /\ pc = "chunkReply"
  /\ SaysNotFound /\ ~Passes
  /\ reply' = "none"
  /\ Close
  /\ rowId' = NoId
  /\ rowSize' = 0
  /\ UNCHANGED <<fileSize, rowState, local, server, history>>

OnChunkFailed ==
  /\ pc = "chunkReply"
  /\ ~SaysNotFound /\ ~Passes
  /\ reply' = "none"
  /\ Close
  /\ UNCHANGED <<fileSize, row, local, server, history>>

\* Mutant: it returns at once instead of leaving the loop, like line 253.
Complete_Leaks ==
  /\ pc = "complete"
  /\ rowState' = "done"
  /\ pc' = "idle"
  /\ UNCHANGED <<fileSize, rowId, rowSize, local, reply, handles, server, history>>

\* The second write of the row, after the last part.
Complete ==
  /\ pc = "complete"
  /\ rowState' = "done"
  /\ Close
  /\ UNCHANGED <<fileSize, rowId, rowSize, local, reply, server, history>>

-----------------------------------------------------------------------------
(* The environment.                                                        *)

Crash ==
  /\ Fault
  /\ pc' = "idle"
  /\ reply' = "none"
  /\ handles' = 0
  /\ UNCHANGED <<fileSize, row, local, server>>

ServerForgets ==
  /\ Fault
  /\ \E id \in known : known' = known \ {id}
  /\ UNCHANGED <<fileSize, row, pc, local, reply, handles, issued, stored, final,
                 misplaced>>

Finished ==
  /\ pc = "idle"
  /\ rowState # "todo"
  /\ UNCHANGED vars

-----------------------------------------------------------------------------
Begin == Query \/ Open \/ OpenFailed
Meta  == MetaServed \/ OnMetaAccepted \/ OnMetaAlready \/ OnMetaFailed
Parts == PutStored \/ PutUnknown \/ OnChunkPassed \/ OnChunkNotFound
         \/ OnChunkFailed \/ Complete
Faulty == MetaFails \/ ReplyLost \/ PutFails \/ ReadFails \/ Crash \/ ServerForgets

Next == Begin \/ Meta \/ Parts \/ Faulty \/ Finished

Spec == Init /\ [][Next]_vars

\* The caller retries, and a call that can go on does.
FairSpec == Spec /\ WF_vars(Begin) /\ WF_vars(Meta) /\ WF_vars(Parts)

-----------------------------------------------------------------------------
(* Safety.                                                                 *)

\* The server codes whatever it refuses with 0, and nothing between it and
\* the client answers in its place.
RejectsWithZero ==
  ResultCode(ErrorAnswer) = 0 /\ ResultCode(NotFoundAnswer) = 0

\* Of a file that is Completed the server has got every part, the last one
\* marked, under one transfer id; and the bytes of each are those of its place,
\* unless a call has resumed that upload half way (what happens then is
\* BytesInPlace): after crashes between a part and the row, lost answers, a
\* server that forgets, an empty last part.
DoneIsReceived ==
  rowState = "done" =>
    \E id \in Ids : Received(id) /\ (id \in misplaced => id \in resumed)

\* The row is never ahead of the server: what it says was transferred was,
\* under the id it says (the PUT before update_items, the reset of both).
SavedIsStored ==
  RejectsWithZero =>
    /\ rowId = NoId => rowSize = 0
    /\ rowId # NoId => rowSize <= stored[rowId]

\* A server that sees "finally" has the whole file, also when the size is a
\* multiple of the chunk and when a crash repeats the last part.
FinallyIsLast == RejectsWithZero => \A id \in final : stored[id] = fileSize

\* Of an upload that was Completed nothing is sent again, and the size of a
\* row falls only with its id.
RowMovesOn ==
  [][/\ rowState = "done" => UNCHANGED <<row, server>> \/ ServerForgets
     /\ rowSize' < rowSize => rowId' = NoId]_vars

\* The early returns that leave the FILE open each follow a fault, never more
\* than one: a process that meets few faults does not run out of handles.
LeaksAreFaults == pc = "idle" => handles <= faults

\* send_file implements ResumableUpload, for servers that refuse with 0.
Held  == IF rowId = NoId THEN 0 ELSE stored[rowId]
Whole == \E id \in Ids : Received(id)
Upload == INSTANCE ResumableUpload WITH
  Sizes <- FileSizes,
  total <- fileSize,
  held <- Held,
  claimed <- rowSize,
  whole <- Whole,
  done <- rowState = "done"
ImplementsUpload == Upload!Spec

\* What send_file holds in memory is what the row says, or is about to.
Copy ==
  /\ pc \in {"open", "meta", "metaReply", "chunk", "chunkReply", "complete"} =>
       myId = rowId /\ offset = rowSize /\ rowState = "todo"
  /\ pc \in {"meta", "metaReply"} => myId = NoId
  /\ pc = "metaReply" /\ reply = "ok" => issued \in Ids
  /\ pc \in {"chunk", "chunkReply", "complete"} => myId \in Ids
  /\ pc \notin {"idle", "open"} => handles > 0

\* The FILE never runs ahead of the part, so no read goes past its end.
ReadsWithin ==
  /\ pc \in {"meta", "metaReply", "chunk"} => position <= offset
  /\ pc = "chunkReply" => position <= offset + ReadSize

\* A fault that has not cost a handle: a part that failed, an id that was
\* forgotten, an upload that was received under an id the row has lost.
Credit ==
  /\ rowState = "todo"
  /\ \/ rowId = NoId /\ Whole
     \/ rowId # NoId /\ rowId \notin known
     \/ pc = "metaReply" /\ reply = "ok" /\ issued \notin known
     \/ pc = "metaReply" /\ reply = "already"
     \/ pc = "chunkReply" /\ reply # "ok"

\* This call will return without closing the file, for a fault it has met.
Leaking == pc = "metaReply" /\ reply \in {"error", "empty"}

\* Each handle is the one in use, or paid for by a fault of its own.
InUse == IF pc \in {"idle", "open"} \/ Leaking THEN 0 ELSE 1
Pledged == IF Credit THEN 1 ELSE 0
LeakClock == handles + Pledged <= faults + InUse

\* Only a call that resumes an upload reads from elsewhere than it writes.
InPlace ==
  /\ misplaced \subseteq resumed
  /\ myId \notin resumed =>
       /\ pc \in {"meta", "metaReply", "chunk"} => position = offset
       /\ pc = "chunkReply" => position = offset + ReadSize

\* This much is inductive whatever the server answers.
CallInv == TypeOK /\ Copy /\ ReadsWithin /\ LeakClock

\* An answer tells what the server has done.
Answers ==
  /\ pc = "metaReply" => reply \in {"empty", "ok", "error", "already"}
  /\ pc = "chunkReply" => reply \in {"empty", "ok", "error", "notFound"}
  /\ pc = "metaReply" /\ reply = "already" => \E id \in Ids : Received(id)
  /\ pc = "chunkReply" /\ reply = "ok" =>
       /\ offset + ReadSize <= stored[myId]
       /\ Finally => Received(myId)
  /\ pc = "complete" => Received(myId)

\* All together are inductive while refusals are coded 0.
IInv ==
  /\ CallInv
  /\ Answers
  /\ InPlace
  /\ \A id \in Ids : stored[id] <= fileSize
  /\ DoneIsReceived
  /\ SavedIsStored
  /\ FinallyIsLast

\* The steps a call has left when nothing fails, two for each byte at most.
StepsLeft ==
  CASE pc = "idle"       -> 2 * (fileSize - rowSize) + 7
    [] pc = "open"       -> 2 * (fileSize - offset) + 6
    [] pc = "meta"       -> 2 * (fileSize - offset) + 5
    [] pc = "metaReply"  -> 2 * (fileSize - offset) + 4
    [] pc = "chunk"      -> 2 * (fileSize - offset) + 3
    [] pc = "chunkReply" -> 2 * (fileSize - offset) + 2
    [] pc = "complete"   -> 1

\* The call will fail, or has found its id forgotten: it takes another one.
TurnedDown == pc \in {"metaReply", "chunkReply"} /\ reply \in {"error", "empty"}
Forgotten ==
  \/ rowId # NoId /\ rowId \notin known
  \/ pc = "metaReply" /\ reply = "ok" /\ issued \notin known
  \/ pc = "chunkReply" /\ reply = "notFound"

WholeCall == 2 * fileSize + 8
Setback(obstacle) == IF obstacle THEN WholeCall ELSE 0

Work ==
  IF rowState = "todo"
  THEN StepsLeft + Setback(TurnedDown) + Setback(Forgotten)
  ELSE 0

\* Every step brings the row nearer to Completed, through refusals, resumed
\* calls and starts over, for servers that refuse with 0 and word a forgotten
\* id as the code reads it; a fault costs one more call of the file's length.
\* Only a process without handles goes round in circles.
WorkShrinks ==
  [][RejectsWithZero /\ ErrorInfo(NotFoundAnswer) = NotFindFileId =>
       /\ Query \/ Open \/ Meta \/ Parts => Work' < Work
       /\ Faulty => Work' <= Work + WholeCall]_vars

-----------------------------------------------------------------------------
(* Liveness, under FairSpec.                                               *)

\* However the faults fall, the file is Completed in the end, or they have
\* cost all the handles there are; as long as the server words a forgotten id
\* the way the code reads it.
EventuallyDone ==
  RejectsWithZero /\ ErrorInfo(NotFoundAnswer) = NotFindFileId =>
    (rowState = "todo" ~> (rowState = "done" \/ (pc = "idle" /\ handles = MaxHandles)))

-----------------------------------------------------------------------------
(* What comments of the source say and the code does not do.               *)

\* "send chunk: prepare chunk info & send": the bytes of a part are those its
\* Part-Info names.
BytesInPlace == misplaced = {}
=============================================================================
