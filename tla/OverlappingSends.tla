-------------------------- MODULE OverlappingSends --------------------------
(***************************************************************************)
(* Several calls of send_file (src/sender.cpp) for one file at a time, as  *)
(* when two callers upload one task: each works on its own copy of the row *)
(* and writes single columns of it with update_items, or all of it with    *)
(* update_file_transfers.                                                  *)
(*                                                                         *)
(* The file is a number of parts, the last of them marked "finally"; what  *)
(* a part holds, and what the FILE does, is in SendFile.  The server       *)
(* refuses with code 0.                                                    *)
(***************************************************************************)
EXTENDS Integers, FiniteSets

CONSTANTS
  Sends,     \* jobs that call send_file for the file
  Parts,     \* parts of the file
  MaxIds,    \* bound: transfer ids the server hands out
  MaxFaults  \* bound: crashes, lost messages, errors of the server

ASSUME PartsAssumption == Parts \in Nat \ {0}
ASSUME BoundAssumption == MaxIds \in Nat /\ MaxFaults \in Nat

VARIABLES
  rowId, rowSize,  \* transfer_id, and transferred_size in parts
  rowDone,         \* transfer_state is Completed
  pc,              \* per call: where it is
  myId,            \* per call: file_transfer.transfer_id, its copy
  offset,          \* per call: the next part
  reply,           \* per call: the answer the callback is about to read
  issued, known,   \* ids handed out, and those not forgotten
  stored,          \* per id: parts the server has got
  sound,           \* history, per call: the row it read was Consistent
  misread,         \* history: some call read a row that was not
  overlapped,      \* history: a call has begun while another was on its way
  faults           \* history: faults so far

row     == <<rowId, rowSize, rowDone>>
server  == <<issued, known, stored>>
history == <<sound, misread, overlapped>>
vars == <<rowId, rowSize, rowDone, pc, myId, offset, reply, issued, known, stored,
          sound, misread, overlapped, faults>>

NoId == 0
Ids  == 1 .. MaxIds
All  == 0 .. Parts - 1

Says(what) == [says |-> what, id |-> NoId]
Grants(i)  == [says |-> "ok", id |-> i]
Reply == [says : {"none", "empty", "ok", "error", "notFound", "already"},
          id : Ids \cup {NoId}]

TypeOK ==
  /\ rowId \in Ids \cup {NoId}
  /\ rowSize \in 0 .. Parts
  /\ rowDone \in BOOLEAN
  /\ pc \in [Sends -> {"idle", "meta", "metaReply", "chunk", "chunkReply", "complete"}]
  /\ myId \in [Sends -> Ids \cup {NoId}]
  /\ offset \in [Sends -> 0 .. Parts]
  /\ reply \in [Sends -> Reply]
  /\ issued \in 0 .. MaxIds
  /\ known \subseteq Ids
  /\ stored \in [Ids -> SUBSET All]
  /\ sound \in [Sends -> BOOLEAN]
  /\ misread \in BOOLEAN
  /\ overlapped \in BOOLEAN
  /\ faults \in 0 .. MaxFaults

Init ==
  /\ rowId = NoId /\ rowSize = 0 /\ rowDone = FALSE
  /\ pc = [s \in Sends |-> "idle"]
  /\ myId = [s \in Sends |-> NoId]
  /\ offset = [s \in Sends |-> 0]
  /\ reply = [s \in Sends |-> Says("none")]
  /\ issued = 0 /\ known = {}
  /\ stored = [id \in Ids |-> {}]
  /\ sound = [s \in Sends |-> TRUE] /\ misread = FALSE /\ overlapped = FALSE
  /\ faults = 0

At(s, place) == pc[s] = place
Goto(s, place) == pc' = [pc EXCEPT ![s] = place]
Hears(s, r) == reply' = [reply EXCEPT ![s] = r]
Fault == faults < MaxFaults /\ faults' = faults + 1

\* Every part came in under the id; what is in the parts a resumed call sends is
\* in SendFile.
Received(id) == stored[id] = All

\* The row claims parts of no upload but the one it names.
Consistent ==
  /\ rowId = NoId => rowSize = 0
  /\ rowId # NoId => 0 .. rowSize - 1 \subseteq stored[rowId]

-----------------------------------------------------------------------------
(* One call.                                                               *)

\* The copy of the row: only a row that is not Completed is sent.
Query(s) ==
  /\ At(s, "idle")
  /\ ~rowDone
  /\ Goto(s, IF rowId = NoId THEN "meta" ELSE "chunk")
  /\ myId' = [myId EXCEPT ![s] = rowId]
  /\ offset' = [offset EXCEPT ![s] = rowSize]
  /\ sound' = [sound EXCEPT ![s] = Consistent]
  /\ misread' = (misread \/ ~Consistent)
  /\ overlapped' = (overlapped \/ \E t \in Sends \ {s} : ~At(t, "idle"))
  /\ UNCHANGED <<row, reply, server, faults>>

\* 200 and a new id, or 406 for a file the server has.
MetaServed(s) ==
  /\ At(s, "meta")
  /\ Goto(s, "metaReply")
  /\ \/ /\ \A id \in Ids : ~Received(id)
        /\ issued < MaxIds
        /\ issued' = issued + 1
        /\ known' = known \cup {issued + 1}
        /\ Hears(s, Grants(issued + 1))
     \/ /\ \E id \in Ids : Received(id)
        /\ Hears(s, Says("already"))
        /\ UNCHANGED <<issued, known>>
  /\ UNCHANGED <<row, myId, offset, stored, history, faults>>

MetaFails(s) ==
  /\ At(s, "meta")
  /\ Fault
  /\ Goto(s, "metaReply")
  /\ \E what \in {"error", "empty"} : Hears(s, Says(what))
  /\ UNCHANGED <<row, myId, offset, server, history>>

ReplyLost(s) ==
  /\ At(s, "metaReply") \/ At(s, "chunkReply")
  /\ reply[s].says # "empty"
  /\ Fault
  /\ Hears(s, Says("empty"))
  /\ UNCHANGED <<row, pc, myId, offset, server, history>>

Answered(s, place, what) ==
  /\ At(s, place)
  /\ reply[s].says \in what
  /\ Hears(s, Says("none"))

\* Mutant: the row is read again after the meta request.
OnMetaAccepted_Requeried(s) ==
  /\ Answered(s, "metaReply", {"ok"})
  /\ Goto(s, "chunk")
  /\ myId' = [myId EXCEPT ![s] = reply[s].id]
  /\ offset' = [offset EXCEPT ![s] = rowSize]
  /\ rowId' = reply[s].id
  /\ UNCHANGED <<rowSize, rowDone, server, history, faults>>


\* One column: the size stays what the row says it is.
OnMetaAccepted(s) ==
  /\ Answered(s, "metaReply", {"ok"})
  /\ Goto(s, "chunk")
  /\ myId' = [myId EXCEPT ![s] = reply[s].id]
  /\ rowId' = reply[s].id
  /\ UNCHANGED <<rowSize, rowDone, offset, server, history, faults>>

OnMetaAlready(s) ==
  /\ Answered(s, "metaReply", {"already"})
  /\ Goto(s, "idle")
  /\ rowDone' = TRUE
  /\ UNCHANGED <<rowId, rowSize, myId, offset, server, history, faults>>

OnMetaFailed(s) ==
  /\ Answered(s, "metaReply", {"error", "empty"})
  /\ Goto(s, "idle")
  /\ UNCHANGED <<row, myId, offset, server, history, faults>>

-----------------------------------------------------------------------------
\* Mutant: off by one.
Last_Early(s) == offset[s] + 1 >= Parts - 1


Last(s) == offset[s] >= Parts - 1

\* After the last part there is an empty one, when a call resumes there.
NextOffset(s) == IF offset[s] < Parts THEN offset[s] + 1 ELSE Parts

PutStored(s) ==
  /\ At(s, "chunk")
  /\ myId[s] \in known
  /\ Goto(s, "chunkReply")
  /\ stored' = [stored EXCEPT ![myId[s]] = @ \cup ({offset[s]} \cap All)]
  /\ Hears(s, Says("ok"))
  /\ UNCHANGED <<row, myId, offset, issued, known, history, faults>>

PutUnknown(s) ==
  /\ At(s, "chunk")
  /\ myId[s] \notin known
  /\ Goto(s, "chunkReply")
  /\ Hears(s, Says("notFound"))
  /\ UNCHANGED <<row, myId, offset, server, history, faults>>

PutFails(s) ==
  /\ At(s, "chunk")
  /\ Fault
  /\ Goto(s, "chunkReply")
  /\ \E what \in {"error", "empty"} : Hears(s, Says(what))
  /\ UNCHANGED <<row, myId, offset, server, history>>

ReadFails(s) ==
  /\ At(s, "chunk")
  /\ Fault
  /\ Goto(s, "idle")
  /\ UNCHANGED <<row, myId, offset, reply, server, history>>

\* Mutant: size and state are written together.
OnChunkPassed_MarksDone(s) ==
  /\ Answered(s, "chunkReply", {"ok"})
  /\ Goto(s, IF Last(s) THEN "complete" ELSE "chunk")
  /\ offset' = [offset EXCEPT ![s] = NextOffset(s)]
  /\ rowSize' = NextOffset(s)
  /\ rowDone' = (rowDone \/ Last(s))
  /\ UNCHANGED <<rowId, myId, server, history, faults>>


\* One column: the id may be that of another call.
OnChunkPassed(s) ==
  /\ Answered(s, "chunkReply", {"ok"})
  /\ Goto(s, IF Last(s) THEN "complete" ELSE "chunk")
  /\ offset' = [offset EXCEPT ![s] = NextOffset(s)]
  /\ rowSize' = NextOffset(s)
  /\ UNCHANGED <<rowId, rowDone, myId, server, history, faults>>

\* Mutant: the row forgets the id and keeps the size.
OnChunkNotFound_KeepsSize(s) ==
  /\ Answered(s, "chunkReply", {"notFound"})
  /\ Goto(s, "idle")
  /\ rowId' = NoId
  /\ rowDone' = FALSE
  /\ UNCHANGED <<rowSize, myId, offset, server, history, faults>>

\* Mutant: the answer is only logged.
OnChunkNotFound_Ignored(s) ==
  /\ Answered(s, "chunkReply", {"notFound"})
  /\ Goto(s, "idle")
  /\ UNCHANGED <<row, myId, offset, server, history, faults>>


\* update_file_transfers: every column, the state too, from the copy.
OnChunkNotFound(s) ==
  /\ Answered(s, "chunkReply", {"notFound"})
  /\ Goto(s, "idle")
  /\ rowId' = NoId
  /\ rowSize' = 0
  /\ rowDone' = FALSE
  /\ UNCHANGED <<myId, offset, server, history, faults>>

OnChunkFailed(s) ==
  /\ Answered(s, "chunkReply", {"error", "empty"})
  /\ Goto(s, "idle")
  /\ UNCHANGED <<row, myId, offset, server, history, faults>>

Complete(s) ==
  /\ At(s, "complete")
  /\ Goto(s, "idle")
  /\ rowDone' = TRUE
  /\ UNCHANGED <<rowId, rowSize, myId, offset, reply, server, history, faults>>

-----------------------------------------------------------------------------
(* The environment.                                                        *)

Crash ==
  /\ Fault
  /\ pc' = [s \in Sends |-> "idle"]
  /\ reply' = [s \in Sends |-> Says("none")]
  /\ UNCHANGED <<row, myId, offset, server, history>>

ServerForgets ==
  /\ Fault
  /\ \E id \in known : known' = known \ {id}
  /\ UNCHANGED <<row, pc, myId, offset, reply, issued, stored, history>>

Finished ==
  /\ rowDone
  /\ \A s \in Sends : At(s, "idle")
  /\ UNCHANGED vars

Step(s) ==
  \/ Query(s) \/ MetaServed(s)
  \/ OnMetaAccepted(s) \/ OnMetaAlready(s) \/ OnMetaFailed(s)
  \/ PutStored(s) \/ PutUnknown(s)
  \/ OnChunkPassed(s) \/ OnChunkNotFound(s) \/ OnChunkFailed(s) \/ Complete(s)

Fails(s) == MetaFails(s) \/ ReplyLost(s) \/ PutFails(s) \/ ReadFails(s)

Next == (\E s \in Sends : Step(s) \/ Fails(s)) \/ Crash \/ ServerForgets \/ Finished

Spec == Init /\ [][Next]_vars

\* The threads of the pool run, and the file is sent again until it is done.
FairSpec == Spec /\ \A s \in Sends : WF_vars(Step(s))

-----------------------------------------------------------------------------
(* Safety.                                                                 *)

\* A call that has read a row without a mix of two uploads in it gets every part
\* received under its id before it marks the row, whatever the other calls
\* write to the row on the way (it goes by its own copy).
SoundCallDelivers ==
  \A s \in Sends : At(s, "complete") /\ sound[s] => Received(myId[s])

\* Of a Completed file the server has every part, under one id, also with calls
\* overlapping, unless one of them has read a mixed row: a size written by one call beside
\* an id, or no id, written by another.
DoneIsReceived == rowDone => misread \/ \E id \in Ids : Received(id)

\* Calls that keep apart never leave a mixed row behind, wherever they end:
\* refused, cut off, or between the two writes of the last part.
MisreadIsOverlap == misread => overlapped

\* Seen from the pool, each call is a job of UploadTask.
Job == INSTANCE UploadJob WITH
  Jobs <- Sends,
  completed <- rowDone,
  running <- {s \in Sends : ~At(s, "idle")}
ImplementsJob == Job!Spec

(* The inductive invariant.                                                *)

\* What a call has in memory, and what it has heard, is true of the server.
CopyInv ==
  \A s \in Sends :
    /\ pc[s] \in {"meta", "metaReply"} =>
         myId[s] = NoId /\ (sound[s] => offset[s] = 0)
    /\ pc[s] \in {"chunk", "chunkReply", "complete"} =>
         /\ myId[s] \in Ids
         /\ sound[s] => 0 .. offset[s] - 1 \subseteq stored[myId[s]]
    /\ At(s, "complete") => offset[s] = Parts

ReplyInv ==
  \A s \in Sends :
    /\ At(s, "metaReply") =>
         /\ reply[s].says = "ok" => reply[s].id \in Ids
         /\ reply[s].says = "already" => \E id \in Ids : Received(id)
    /\ At(s, "chunkReply") /\ reply[s].says = "ok" =>
         {offset[s]} \cap All \subseteq stored[myId[s]]

SoundInv == \A s \in Sends : ~misread => sound[s]

\* As long as no calls overlap there is one, and its copy is the row.
AloneInv ==
  ~overlapped =>
    /\ Consistent
    /\ \A s, t \in Sends : ~At(s, "idle") /\ ~At(t, "idle") => s = t
    /\ \A s \in Sends : ~At(s, "idle") => myId[s] = rowId /\ offset[s] = rowSize

IInv ==
  /\ TypeOK
  /\ CopyInv
  /\ ReplyInv
  /\ SoundInv
  /\ AloneInv
  /\ DoneIsReceived
  /\ MisreadIsOverlap

-----------------------------------------------------------------------------
(* Liveness, under FairSpec.                                               *)

\* Overlapping calls do not undo each other's work for ever: once the faults
\* are over the row stays Completed.
StaysDone == <>[]rowDone
=============================================================================
