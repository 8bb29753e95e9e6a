------------------------ MODULE OverlappingSendsProofs ------------------------
(***************************************************************************)
(* The safety properties of OverlappingSends, for any number of calls, of  *)
(* parts, of transfer ids and of faults.                                   *)
(***************************************************************************)
EXTENDS OverlappingSends, TLAPS

\* What the actions put into reply is of its type.
LEMMA AnswersAreReplies ==
  /\ \A what \in {"none", "empty", "ok", "error", "notFound", "already"} :
       Says(what) \in Reply /\ Says(what).says = what
  /\ \A i \in Ids : Grants(i) \in Reply /\ Grants(i).says = "ok" /\ Grants(i).id = i
BY DEF Says, Grants, Reply

\* The invariant holds before the first call.
LEMMA InitIInv == Init => IInv
<1> SUFFICES ASSUME Init PROVE IInv
  OBVIOUS
<1>1. TypeOK
  <2>1. 0 \in 0 .. Parts /\ 0 \in 0 .. MaxIds /\ 0 \in 0 .. MaxFaults
    BY PartsAssumption, BoundAssumption
  <2>2. rowId \in Ids \cup {NoId} /\ rowSize \in 0 .. Parts /\ rowDone \in BOOLEAN
    BY <2>1 DEF Init
  <2>3. /\ pc \in [Sends -> {"idle", "meta", "metaReply", "chunk", "chunkReply", "complete"}]
        /\ myId \in [Sends -> Ids \cup {NoId}] /\ offset \in [Sends -> 0 .. Parts]
    BY <2>1 DEF Init
  <2>4. reply \in [Sends -> Reply]
    BY AnswersAreReplies DEF Init
  <2>5. issued \in 0 .. MaxIds /\ known \subseteq Ids /\ stored \in [Ids -> SUBSET All]
    BY <2>1 DEF Init
  <2>6. sound \in [Sends -> BOOLEAN] /\ misread \in BOOLEAN /\ overlapped \in BOOLEAN
    BY DEF Init
  <2>7. faults \in 0 .. MaxFaults
    BY <2>1 DEF Init
  <2>8. QED
    BY <2>2, <2>3, <2>4, <2>5, <2>6, <2>7 DEF TypeOK
<1>2. CopyInv /\ ReplyInv /\ SoundInv /\ DoneIsReceived /\ MisreadIsOverlap
  BY DEF Init, CopyInv, ReplyInv, SoundInv, DoneIsReceived, MisreadIsOverlap, At
<1>3. AloneInv
  BY DEF Init, AloneInv, Consistent, At
<1>4. QED
  BY <1>1, <1>2, <1>3 DEF IInv

\* What a part that was stored does to the server.
LEMMA PutAdds ==
  ASSUME IInv, NEW s \in Sends, PutStored(s)
  PROVE  /\ stored' \in [Ids -> SUBSET All]
         /\ \A id \in Ids : stored[id] \subseteq stored'[id]
         /\ {offset[s]} \cap All \subseteq stored'[myId[s]]
<1>1. /\ myId[s] \in Ids /\ stored \in [Ids -> SUBSET All]
      /\ stored' = [stored EXCEPT ![myId[s]] = @ \cup ({offset[s]} \cap All)]
  BY DEF PutStored, IInv, TypeOK, CopyInv, At
<1>2. stored' \in [Ids -> SUBSET All]
  BY <1>1
<1>3. \A id \in Ids : stored'[id] = IF id = myId[s] THEN stored[id] \cup ({offset[s]} \cap All)
                                                   ELSE stored[id]
  BY <1>1
<1>4. QED
  BY <1>1, <1>2, <1>3

\* The next part, for a call whose last part was stored.
LEMMA Advances ==
  ASSUME NEW s \in Sends, offset[s] \in 0 .. Parts
  PROVE  /\ NextOffset(s) \in 0 .. Parts
         /\ Last(s) => NextOffset(s) = Parts
         /\ 0 .. NextOffset(s) - 1 = 0 .. offset[s] - 1 \cup ({offset[s]} \cap All)
<1>1. CASE offset[s] < Parts
  BY <1>1, PartsAssumption DEF NextOffset, Last, All
<1>2. CASE offset[s] = Parts
  BY <1>2, PartsAssumption DEF NextOffset, Last, All
<1>3. QED
  BY <1>1, <1>2, PartsAssumption

\* A call that begins copies the row; it is here that a mixed row is read.
LEMMA QueryKeeps ==
  ASSUME IInv, NEW s \in Sends, Query(s)
  PROVE  IInv'
<1> USE DEF IInv, At, Goto
<1>1. UNCHANGED <<row, reply, server, faults>>
  BY DEF Query
<1>2. /\ pc[s] = "idle" /\ ~rowDone
      /\ pc' = [pc EXCEPT ![s] = IF rowId = NoId THEN "meta" ELSE "chunk"]
      /\ myId' = [myId EXCEPT ![s] = rowId]
      /\ offset' = [offset EXCEPT ![s] = rowSize]
      /\ sound' = [sound EXCEPT ![s] = Consistent]
      /\ misread' = (misread \/ ~Consistent)
      /\ overlapped' = (overlapped \/ \E t \in Sends \ {s} : pc[t] # "idle")
  BY DEF Query
<1>3. TypeOK'
  <2>1. Consistent \in BOOLEAN
    BY DEF Consistent
  <2>2. sound' \in [Sends -> BOOLEAN] /\ misread' \in BOOLEAN /\ overlapped' \in BOOLEAN
    BY <1>2, <2>1 DEF TypeOK
  <2>3. /\ pc' \in [Sends -> {"idle", "meta", "metaReply", "chunk", "chunkReply", "complete"}]
        /\ myId' \in [Sends -> Ids \cup {NoId}] /\ offset' \in [Sends -> 0 .. Parts]
    BY <1>2 DEF TypeOK
  <2>4. QED
    BY <1>1, <2>2, <2>3 DEF TypeOK, row, server
<1>4. CopyInv'
  <2> SUFFICES ASSUME NEW t \in Sends
               PROVE  /\ pc'[t] \in {"meta", "metaReply"} =>
                           myId'[t] = NoId /\ (sound'[t] => offset'[t] = 0)
                      /\ pc'[t] \in {"chunk", "chunkReply", "complete"} =>
                           /\ myId'[t] \in Ids
                           /\ sound'[t] => 0 .. offset'[t] - 1 \subseteq stored'[myId'[t]]
                      /\ pc'[t] = "complete" => offset'[t] = Parts
    BY DEF CopyInv
  <2>1. CASE t = s
    <3>1. pc'[s] = IF rowId = NoId THEN "meta" ELSE "chunk"
      BY <1>2 DEF TypeOK
    <3>2. myId'[s] = rowId /\ offset'[s] = rowSize /\ (sound'[s] => Consistent)
      BY <1>2 DEF TypeOK
    <3>3. stored' = stored /\ rowId \in Ids \cup {NoId}
      BY <1>1 DEF server, TypeOK
    <3>4. QED
      BY <2>1, <3>1, <3>2, <3>3 DEF Consistent
  <2>2. CASE t # s
    <3>1. /\ pc'[t] = pc[t] /\ myId'[t] = myId[t] /\ offset'[t] = offset[t]
          /\ sound'[t] = sound[t] /\ stored' = stored
      BY <1>1, <1>2, <2>2 DEF server, TypeOK
    <3>2. QED
      BY <3>1 DEF CopyInv
  <2>3. QED
    BY <2>1, <2>2
<1>5. ReplyInv'
  <2> SUFFICES ASSUME NEW t \in Sends, pc'[t] \in {"metaReply", "chunkReply"}
               PROVE  pc'[t] = pc[t] /\ myId'[t] = myId[t] /\ offset'[t] = offset[t]
    BY <1>1 DEF ReplyInv, server, Received
  <2>1. t # s
    BY <1>2 DEF TypeOK
  <2>2. QED
    BY <1>2, <2>1 DEF TypeOK
<1>6. SoundInv'
  BY <1>2 DEF SoundInv, TypeOK
<1>7. AloneInv' /\ MisreadIsOverlap'
  <2>1. Consistent' <=> Consistent
    BY <1>1 DEF Consistent, row, server
  <2>2. ~overlapped' => ~overlapped /\ \A t \in Sends \ {s} : pc[t] = "idle" /\ pc'[t] = "idle"
    BY <1>2 DEF TypeOK
  <2>3. MisreadIsOverlap'
    BY <1>2 DEF AloneInv, MisreadIsOverlap, TypeOK
  <2>4. myId'[s] = rowId' /\ offset'[s] = rowSize'
    BY <1>1, <1>2 DEF row, TypeOK
  <2>5. AloneInv'
    BY <2>1, <2>2, <2>4 DEF AloneInv
  <2>6. QED
    BY <2>3, <2>5
<1>8. DoneIsReceived'
  BY <1>1, <1>2 DEF DoneIsReceived, row
<1>9. QED
  BY <1>3, <1>4, <1>5, <1>6, <1>7, <1>8

\* The steps that change neither the copy of the call, nor id and size of the
\* row, nor what the server has stored.
LEMMA SmallStepKeeps ==
  ASSUME IInv, NEW s \in Sends, NEW place, NEW r \in Reply,
         UNCHANGED <<rowId, rowSize, myId, offset, stored, history>>,
         pc' = [pc EXCEPT ![s] = place],
         reply' = [reply EXCEPT ![s] = r],
         \/ place = "idle"
         \/ /\ place = "metaReply" /\ pc[s] \in {"meta", "metaReply"}
            /\ r.says = "ok" => r.id \in Ids
            /\ r.says = "already" => \E id \in Ids : Received(id)
         \/ place = "chunkReply" /\ pc[s] \in {"chunk", "chunkReply"} /\ r.says # "ok",
         pc[s] # "idle",
         issued' \in 0 .. MaxIds, known' \subseteq Ids, faults' \in 0 .. MaxFaults,
         rowDone' \in BOOLEAN,
         rowDone' => rowDone \/ misread \/ \E id \in Ids : Received(id)
  PROVE  IInv'
<1> USE DEF IInv, At
<1>1. UNCHANGED <<sound, misread, overlapped>>
  BY DEF history
<1>2. TypeOK'
  <2>1. /\ pc' \in [Sends -> {"idle", "meta", "metaReply", "chunk", "chunkReply", "complete"}]
        /\ reply' \in [Sends -> Reply]
    BY DEF TypeOK
  <2>2. QED
    BY <1>1, <2>1 DEF TypeOK
<1>3. /\ pc'[s] = place /\ reply'[s] = r
      /\ \A t \in Sends : t # s => pc'[t] = pc[t] /\ reply'[t] = reply[t]
  BY DEF TypeOK
<1>4. CopyInv'
  BY <1>1, <1>3 DEF CopyInv
<1>5. ReplyInv'
  BY <1>1, <1>3 DEF ReplyInv, Received
<1>6. SoundInv' /\ MisreadIsOverlap'
  BY <1>1 DEF SoundInv, MisreadIsOverlap
<1>7. AloneInv'
  <2>1. Consistent' <=> Consistent
    BY DEF Consistent
  <2>2. \A t \in Sends : pc'[t] # "idle" => pc[t] # "idle"
    BY <1>3
  <2>3. QED
    BY <1>1, <2>1, <2>2 DEF AloneInv
<1>8. DoneIsReceived'
  BY <1>1 DEF DoneIsReceived, Received
<1>9. QED
  BY <1>2, <1>4, <1>5, <1>6, <1>7, <1>8

\* These are most of the steps of a call.
LEMMA SmallSteps ==
  ASSUME IInv, NEW s \in Sends,
         \/ MetaServed(s) \/ OnMetaAlready(s) \/ OnMetaFailed(s) \/ PutUnknown(s)
         \/ OnChunkFailed(s) \/ Complete(s) \/ Fails(s)
  PROVE  IInv'
<1> USE DEF At, Goto, Hears
<1> DEFINE Stays == UNCHANGED <<rowId, rowSize, rowDone, myId, offset, issued, known, stored, history>>
<1>1. /\ issued \in 0 .. MaxIds /\ known \subseteq Ids /\ faults \in 0 .. MaxFaults
      /\ rowDone \in BOOLEAN /\ reply[s] \in Reply
      /\ pc = [pc EXCEPT ![s] = pc[s]] /\ reply = [reply EXCEPT ![s] = reply[s]]
  BY DEF IInv, TypeOK
<1>2. Fault => faults' \in 0 .. MaxFaults
  BY <1>1, BoundAssumption DEF Fault
<1>3. CASE MetaServed(s)
  <2>1. /\ pc[s] = "meta" /\ pc' = [pc EXCEPT ![s] = "metaReply"]
        /\ UNCHANGED <<rowId, rowSize, rowDone, myId, offset, stored, history, faults>>
    BY <1>3 DEF MetaServed, row
  <2>2. CASE /\ issued < MaxIds /\ issued' = issued + 1 /\ known' = known \cup {issued + 1}
             /\ reply' = [reply EXCEPT ![s] = Grants(issued + 1)]
    <3>1. issued + 1 \in Ids
      BY <1>1, <2>2, BoundAssumption DEF Ids
    <3>2. issued' \in 0 .. MaxIds /\ known' \subseteq Ids
      BY <1>1, <2>2, <3>1 DEF Ids
    <3>3. QED
      BY <1>1, <2>1, <2>2, <3>1, <3>2, AnswersAreReplies, SmallStepKeeps
  <2>3. CASE /\ \E id \in Ids : Received(id)
             /\ reply' = [reply EXCEPT ![s] = Says("already")] /\ UNCHANGED <<issued, known>>
    BY <1>1, <2>1, <2>3, AnswersAreReplies, SmallStepKeeps
  <2>4. QED
    BY <1>3, <2>2, <2>3 DEF MetaServed
<1>4. CASE OnMetaAlready(s)
  <2>1. /\ pc[s] = "metaReply" /\ reply[s].says = "already" /\ rowDone' = TRUE
        /\ pc' = [pc EXCEPT ![s] = "idle"]
        /\ reply' = [reply EXCEPT ![s] = Says("none")]
        /\ UNCHANGED <<rowId, rowSize, myId, offset, server, history, faults>>
    BY <1>4 DEF OnMetaAlready, Answered
  <2>2. \E id \in Ids : Received(id)
    BY <2>1 DEF IInv, ReplyInv
  <2>3. UNCHANGED <<issued, known, stored>>
    BY <2>1 DEF server
  <2>4. QED
    BY <1>1, <2>1, <2>2, <2>3, AnswersAreReplies, SmallStepKeeps
<1>5. CASE Complete(s)
  <2>1. /\ pc[s] = "complete" /\ rowDone' = TRUE
        /\ pc' = [pc EXCEPT ![s] = "idle"] /\ reply' = reply
        /\ UNCHANGED <<rowId, rowSize, myId, offset, server, history, faults>>
    BY <1>5 DEF Complete
  <2>2. ~misread => Received(myId[s]) /\ myId[s] \in Ids
    <3>1. myId[s] \in Ids /\ (~misread => 0 .. Parts - 1 \subseteq stored[myId[s]])
      BY <2>1 DEF IInv, SoundInv, CopyInv
    <3>2. stored[myId[s]] \subseteq All
      BY <3>1 DEF IInv, TypeOK
    <3>3. QED
      BY <3>1, <3>2 DEF Received, All
  <2>3. UNCHANGED <<issued, known, stored>>
    BY <2>1 DEF server
  <2>4. QED
    BY <1>1, <2>1, <2>2, <2>3, SmallStepKeeps
<1>6. CASE OnMetaFailed(s) \/ OnChunkFailed(s)
  <2>1. /\ pc[s] # "idle" /\ pc' = [pc EXCEPT ![s] = "idle"]
        /\ reply' = [reply EXCEPT ![s] = Says("none")] /\ Stays /\ UNCHANGED faults
    BY <1>6 DEF OnMetaFailed, OnChunkFailed, Answered, row, server
  <2>2. QED
    BY <1>1, <2>1, AnswersAreReplies, SmallStepKeeps
<1>7. CASE PutUnknown(s)
  <2>1. /\ pc[s] = "chunk" /\ pc' = [pc EXCEPT ![s] = "chunkReply"]
        /\ reply' = [reply EXCEPT ![s] = Says("notFound")] /\ Stays /\ UNCHANGED faults
    BY <1>7 DEF PutUnknown, row, server
  <2>2. QED
    BY <1>1, <2>1, AnswersAreReplies, SmallStepKeeps
<1>8. CASE MetaFails(s)
  <2>1. /\ pc[s] = "meta" /\ pc' = [pc EXCEPT ![s] = "metaReply"] /\ Stays /\ Fault
    BY <1>8 DEF MetaFails, row, server
  <2>2. PICK what \in {"error", "empty"} : reply' = [reply EXCEPT ![s] = Says(what)]
    BY <1>8 DEF MetaFails
  <2>3. QED
    BY <1>1, <1>2, <2>1, <2>2, AnswersAreReplies, SmallStepKeeps
<1>9. CASE PutFails(s)
  <2>1. /\ pc[s] = "chunk" /\ pc' = [pc EXCEPT ![s] = "chunkReply"] /\ Stays /\ Fault
    BY <1>9 DEF PutFails, row, server
  <2>2. PICK what \in {"error", "empty"} : reply' = [reply EXCEPT ![s] = Says(what)]
    BY <1>9 DEF PutFails
  <2>3. QED
    BY <1>1, <1>2, <2>1, <2>2, AnswersAreReplies, SmallStepKeeps
<1>10. CASE ReadFails(s)
  <2>1. /\ pc[s] = "chunk" /\ pc' = [pc EXCEPT ![s] = "idle"] /\ reply' = reply /\ Stays /\ Fault
    BY <1>10 DEF ReadFails, row, server
  <2>2. QED
    BY <1>1, <1>2, <2>1, SmallStepKeeps
<1>11. CASE ReplyLost(s)
  <2>1. /\ pc[s] \in {"metaReply", "chunkReply"} /\ pc' = pc
        /\ reply' = [reply EXCEPT ![s] = Says("empty")] /\ Stays /\ Fault
    BY <1>11 DEF ReplyLost, row, server
  <2>2. QED
    BY <1>1, <1>2, <2>1, AnswersAreReplies, SmallStepKeeps, ZenonT(40)
<1>12. QED
  BY <1>3, <1>4, <1>5, <1>6, <1>7, <1>8, <1>9, <1>10, <1>11 DEF Fails

\* The id is written next to whatever size the row has.
LEMMA AcceptedKeeps ==
  ASSUME IInv, NEW s \in Sends, OnMetaAccepted(s)
  PROVE  IInv'
<1> USE DEF IInv, At, Goto, Hears
<1>1. /\ pc[s] = "metaReply" /\ reply[s].says = "ok"
      /\ pc' = [pc EXCEPT ![s] = "chunk"]
      /\ reply' = [reply EXCEPT ![s] = Says("none")]
      /\ myId' = [myId EXCEPT ![s] = reply[s].id]
      /\ rowId' = reply[s].id
      /\ UNCHANGED <<rowSize, rowDone, offset, issued, known, stored, sound, misread,
                     overlapped, faults>>
  BY DEF OnMetaAccepted, Answered, server, history
<1>2. reply[s].id \in Ids /\ reply[s].id # NoId
  BY <1>1 DEF ReplyInv, Ids, NoId
<1>3. myId[s] = NoId /\ (sound[s] => offset[s] = 0)
  BY <1>1 DEF CopyInv
<1>4. /\ pc'[s] = "chunk" /\ myId'[s] = reply[s].id
      /\ \A t \in Sends : t # s =>
           pc'[t] = pc[t] /\ reply'[t] = reply[t] /\ myId'[t] = myId[t]
  BY <1>1 DEF TypeOK
<1>5. TypeOK'
  <2>1. reply' \in [Sends -> Reply]
    BY <1>1, AnswersAreReplies DEF TypeOK
  <2>2. pc' \in [Sends -> {"idle", "meta", "metaReply", "chunk", "chunkReply", "complete"}]
    BY <1>1 DEF TypeOK
  <2>3. myId' \in [Sends -> Ids \cup {NoId}]
    BY <1>1, <1>2 DEF TypeOK
  <2>4. QED
    BY <1>1, <1>2, <2>1, <2>2, <2>3 DEF TypeOK
<1>6. CopyInv'
  BY <1>1, <1>2, <1>3, <1>4 DEF CopyInv
<1>7. ReplyInv'
  BY <1>1, <1>4 DEF ReplyInv, Received
<1>8. SoundInv' /\ MisreadIsOverlap' /\ DoneIsReceived'
  BY <1>1 DEF SoundInv, MisreadIsOverlap, DoneIsReceived, Received
<1>9. AloneInv'
  <2> SUFFICES ASSUME ~overlapped' PROVE AloneInv'
    BY DEF AloneInv
  <2>1. ~overlapped /\ rowId = NoId /\ rowSize = 0
    BY <1>1, <1>3 DEF AloneInv, Consistent
  <2>2. Consistent'
    BY <1>1, <1>2, <2>1 DEF Consistent
  <2>3. QED
    BY <1>1, <1>4, <2>1, <2>2 DEF AloneInv
<1>10. QED
  BY <1>5, <1>6, <1>7, <1>8, <1>9

\* The server gets a part under the id of the copy.
LEMMA PutKeeps ==
  ASSUME IInv, NEW s \in Sends, PutStored(s)
  PROVE  IInv'
<1> USE DEF IInv, At, Goto, Hears
<1>1. /\ pc[s] = "chunk" /\ pc' = [pc EXCEPT ![s] = "chunkReply"]
      /\ reply' = [reply EXCEPT ![s] = Says("ok")]
      /\ UNCHANGED <<rowId, rowSize, rowDone, myId, offset, issued, known, sound, misread,
                     overlapped, faults>>
  BY DEF PutStored, row, history
<1>2. /\ stored' \in [Ids -> SUBSET All]
      /\ \A id \in Ids : stored[id] \subseteq stored'[id]
      /\ {offset[s]} \cap All \subseteq stored'[myId[s]]
  BY PutAdds
<1>3. \A id \in Ids : Received(id) => Received(id)'
  BY <1>2 DEF Received
<1>4. /\ pc'[s] = "chunkReply"
      /\ \A t \in Sends : t # s => pc'[t] = pc[t] /\ reply'[t] = reply[t]
  BY <1>1 DEF TypeOK
<1>5. TypeOK'
  <2>1. reply' \in [Sends -> Reply]
    BY <1>1, AnswersAreReplies DEF TypeOK
  <2>2. pc' \in [Sends -> {"idle", "meta", "metaReply", "chunk", "chunkReply", "complete"}]
    BY <1>1 DEF TypeOK
  <2>3. QED
    BY <1>1, <1>2, <2>1, <2>2 DEF TypeOK
<1>6. CopyInv'
  BY <1>1, <1>2, <1>4 DEF CopyInv
<1>7. ReplyInv'
  <2> SUFFICES ASSUME NEW t \in Sends
               PROVE  /\ pc'[t] = "metaReply" =>
                           /\ reply'[t].says = "ok" => reply'[t].id \in Ids
                           /\ reply'[t].says = "already" => \E id \in Ids : Received(id)'
                      /\ pc'[t] = "chunkReply" /\ reply'[t].says = "ok" =>
                           {offset'[t]} \cap All \subseteq stored'[myId'[t]]
    BY DEF ReplyInv
  <2>1. CASE t = s
    BY <1>1, <1>2, <1>4, <2>1
  <2>2. CASE t # s
    <3>1. pc'[t] = pc[t] /\ reply'[t] = reply[t] /\ offset'[t] = offset[t] /\ myId'[t] = myId[t]
      BY <1>1, <1>4, <2>2
    <3>2. pc[t] = "chunkReply" => myId[t] \in Ids
      BY DEF CopyInv
    <3>3. QED
      BY <1>2, <1>3, <3>1, <3>2 DEF ReplyInv
  <2>3. QED
    BY <2>1, <2>2
<1>8. SoundInv' /\ MisreadIsOverlap' /\ DoneIsReceived'
  BY <1>1, <1>3 DEF SoundInv, MisreadIsOverlap, DoneIsReceived
<1>9. AloneInv'
  <2>1. Consistent => Consistent'
    BY <1>1, <1>2 DEF Consistent, TypeOK
  <2>2. QED
    BY <1>1, <1>4, <2>1 DEF AloneInv
<1>10. QED
  BY <1>5, <1>6, <1>7, <1>8, <1>9

\* The size is written next to whatever id the row has.
LEMMA PassedKeeps ==
  ASSUME IInv, NEW s \in Sends, OnChunkPassed(s)
  PROVE  IInv'
<1> USE DEF IInv, At, Goto, Hears
<1>1. /\ pc[s] = "chunkReply" /\ reply[s].says = "ok"
      /\ pc' = [pc EXCEPT ![s] = IF Last(s) THEN "complete" ELSE "chunk"]
      /\ reply' = [reply EXCEPT ![s] = Says("none")]
      /\ offset' = [offset EXCEPT ![s] = NextOffset(s)]
      /\ rowSize' = NextOffset(s)
      /\ UNCHANGED <<rowId, rowDone, myId, issued, known, stored, sound, misread,
                     overlapped, faults>>
  BY DEF OnChunkPassed, Answered, server, history
<1>2. /\ NextOffset(s) \in 0 .. Parts
      /\ Last(s) => NextOffset(s) = Parts
      /\ 0 .. NextOffset(s) - 1 = 0 .. offset[s] - 1 \cup ({offset[s]} \cap All)
  BY Advances DEF TypeOK
<1>3. /\ pc'[s] = IF Last(s) THEN "complete" ELSE "chunk"
      /\ offset'[s] = NextOffset(s)
      /\ \A t \in Sends : t # s =>
           pc'[t] = pc[t] /\ reply'[t] = reply[t] /\ offset'[t] = offset[t]
  BY <1>1 DEF TypeOK
<1>4. /\ myId[s] \in Ids
      /\ sound[s] => 0 .. NextOffset(s) - 1 \subseteq stored[myId[s]]
  BY <1>1, <1>2 DEF CopyInv, ReplyInv
<1>5. TypeOK'
  <2>1. reply' \in [Sends -> Reply]
    BY <1>1, AnswersAreReplies DEF TypeOK
  <2>2. pc' \in [Sends -> {"idle", "meta", "metaReply", "chunk", "chunkReply", "complete"}]
    BY <1>1 DEF TypeOK
  <2>3. offset' \in [Sends -> 0 .. Parts]
    BY <1>1, <1>2 DEF TypeOK
  <2>4. QED
    BY <1>1, <1>2, <2>1, <2>2, <2>3 DEF TypeOK
<1>6. CopyInv'
  <2> SUFFICES ASSUME NEW t \in Sends
               PROVE  /\ pc'[t] \in {"meta", "metaReply"} =>
                           myId'[t] = NoId /\ (sound'[t] => offset'[t] = 0)
                      /\ pc'[t] \in {"chunk", "chunkReply", "complete"} =>
                           /\ myId'[t] \in Ids
                           /\ sound'[t] => 0 .. offset'[t] - 1 \subseteq stored'[myId'[t]]
                      /\ pc'[t] = "complete" => offset'[t] = Parts
    BY DEF CopyInv
  <2>1. CASE t = s
    BY <1>1, <1>2, <1>3, <1>4, <2>1
  <2>2. CASE t # s
    <3>1. /\ pc'[t] = pc[t] /\ offset'[t] = offset[t] /\ myId'[t] = myId[t]
          /\ sound'[t] = sound[t] /\ stored' = stored
      BY <1>1, <1>3, <2>2
    <3>2. QED
      BY <3>1 DEF CopyInv
  <2>3. QED
    BY <2>1, <2>2
<1>7. ReplyInv'
  BY <1>1, <1>3 DEF ReplyInv, Received
<1>8. SoundInv' /\ MisreadIsOverlap' /\ DoneIsReceived'
  BY <1>1 DEF SoundInv, MisreadIsOverlap, DoneIsReceived, Received
<1>9. AloneInv'
  <2> SUFFICES ASSUME ~overlapped' PROVE AloneInv'
    BY DEF AloneInv
  <2>1. ~overlapped /\ myId[s] = rowId /\ rowId # NoId
    BY <1>1, <1>4 DEF AloneInv, Ids, NoId
  <2>2. sound[s]
    BY <2>1 DEF MisreadIsOverlap, SoundInv
  <2>3. Consistent'
    BY <1>1, <1>4, <2>1, <2>2 DEF Consistent
  <2>4. QED
    BY <1>1, <1>3, <2>1, <2>3 DEF AloneInv
<1>10. QED
  BY <1>5, <1>6, <1>7, <1>8, <1>9

\* The whole row starts over.
LEMMA NotFoundKeeps ==
  ASSUME IInv, NEW s \in Sends, OnChunkNotFound(s)
  PROVE  IInv'
<1> USE DEF IInv, At, Goto, Hears
<1>1. /\ pc[s] = "chunkReply" /\ pc' = [pc EXCEPT ![s] = "idle"]
      /\ reply' = [reply EXCEPT ![s] = Says("none")]
      /\ rowId' = NoId /\ rowSize' = 0 /\ rowDone' = FALSE
      /\ UNCHANGED <<myId, offset, issued, known, stored, sound, misread, overlapped, faults>>
  BY DEF OnChunkNotFound, Answered, server, history
<1>2. /\ pc'[s] = "idle"
      /\ \A t \in Sends : t # s => pc'[t] = pc[t] /\ reply'[t] = reply[t]
  BY <1>1 DEF TypeOK
<1>3. TypeOK'
  <2>1. reply' \in [Sends -> Reply]
    BY <1>1, AnswersAreReplies DEF TypeOK
  <2>2. pc' \in [Sends -> {"idle", "meta", "metaReply", "chunk", "chunkReply", "complete"}]
    BY <1>1 DEF TypeOK
  <2>3. 0 \in 0 .. Parts
    BY PartsAssumption
  <2>4. QED
    BY <1>1, <2>1, <2>2, <2>3 DEF TypeOK
<1>4. CopyInv' /\ ReplyInv'
  BY <1>1, <1>2 DEF CopyInv, ReplyInv, Received
<1>5. SoundInv' /\ MisreadIsOverlap' /\ DoneIsReceived'
  BY <1>1 DEF SoundInv, MisreadIsOverlap, DoneIsReceived
<1>6. AloneInv'
  <2>1. Consistent'
    BY <1>1 DEF Consistent
  <2>2. ~overlapped => \A t \in Sends : t # s => pc[t] = "idle"
    BY <1>1 DEF AloneInv
  <2>3. QED
    BY <1>1, <1>2, <2>1, <2>2 DEF AloneInv
<1>7. QED
  BY <1>3, <1>4, <1>5, <1>6

\* Crashes and a server that forgets take nothing back that is stored.
LEMMA EnvironmentKeeps ==
  ASSUME IInv, Crash \/ ServerForgets \/ UNCHANGED vars
  PROVE  IInv'
<1> USE DEF IInv, At
<1>1. CASE Crash
  <2>1. /\ pc' = [s \in Sends |-> "idle"] /\ reply' = [s \in Sends |-> Says("none")]
        /\ UNCHANGED <<rowId, rowSize, rowDone, myId, offset, issued, known, stored, sound,
                       misread, overlapped>>
        /\ faults' \in 0 .. MaxFaults
    BY <1>1, BoundAssumption DEF Crash, Fault, TypeOK, row, server, history
  <2>2. TypeOK'
    <3>1. reply' \in [Sends -> Reply]
      BY <2>1, AnswersAreReplies
    <3>2. pc' \in [Sends -> {"idle", "meta", "metaReply", "chunk", "chunkReply", "complete"}]
      BY <2>1
    <3>3. QED
      BY <2>1, <3>1, <3>2 DEF TypeOK
  <2>3. CopyInv' /\ ReplyInv'
    BY <2>1 DEF CopyInv, ReplyInv
  <2>4. SoundInv' /\ MisreadIsOverlap' /\ DoneIsReceived' /\ AloneInv'
    BY <2>1 DEF SoundInv, MisreadIsOverlap, DoneIsReceived, Received, AloneInv, Consistent
  <2>5. QED
    BY <2>2, <2>3, <2>4
<1>2. CASE ServerForgets
  <2>1. /\ UNCHANGED <<rowId, rowSize, rowDone, pc, myId, offset, reply, issued, stored, sound,
                       misread, overlapped>>
        /\ known' \subseteq Ids /\ faults' \in 0 .. MaxFaults
    BY <1>2, BoundAssumption DEF ServerForgets, Fault, TypeOK, row, history
  <2>2. TypeOK'
    BY <2>1 DEF TypeOK
  <2>3. CopyInv' /\ ReplyInv'
    BY <2>1 DEF CopyInv, ReplyInv, Received
  <2>4. SoundInv' /\ MisreadIsOverlap' /\ DoneIsReceived' /\ AloneInv'
    BY <2>1 DEF SoundInv, MisreadIsOverlap, DoneIsReceived, Received, AloneInv, Consistent
  <2>5. QED
    BY <2>2, <2>3, <2>4
<1>3. CASE UNCHANGED vars
  BY <1>3 DEF vars, TypeOK, CopyInv, ReplyInv, SoundInv, MisreadIsOverlap, DoneIsReceived,
              Received, AloneInv, Consistent
<1>4. QED
  BY <1>1, <1>2, <1>3

\* Every step of every call keeps the invariant.
LEMMA StepIInv == IInv /\ [Next]_vars => IInv'
<1> SUFFICES ASSUME IInv, [Next]_vars PROVE IInv'
  OBVIOUS
<1>1. ASSUME NEW s \in Sends, Step(s) \/ Fails(s) PROVE IInv'
  BY <1>1, QueryKeeps, SmallSteps, AcceptedKeeps, PutKeeps, PassedKeeps, NotFoundKeeps DEF Step
<1>2. QED
  BY <1>1, EnvironmentKeeps DEF Next, Finished

\* However many calls overlap, they keep to IInv.
THEOREM Invariance == Spec => []IInv
<1>1. IInv /\ [Next]_vars => IInv'
  BY StepIInv
<1>2. QED
  BY InitIInv, <1>1, PTL DEF Spec

-----------------------------------------------------------------------------
(* The theorems.                                                           *)

\* A call that has read a row without a mix has every part received before it
\* marks the row, whatever other calls do (sender.cpp 260, 267-303).
THEOREM SoundCallsDeliver == Spec => []SoundCallDelivers
<1>1. IInv => SoundCallDelivers
  <2> SUFFICES ASSUME IInv, NEW s \in Sends, At(s, "complete"), sound[s]
               PROVE  Received(myId[s])
    BY DEF SoundCallDelivers
  <2>1. myId[s] \in Ids /\ 0 .. Parts - 1 \subseteq stored[myId[s]]
    BY DEF IInv, CopyInv, At
  <2>2. stored[myId[s]] \subseteq All
    BY <2>1 DEF IInv, TypeOK
  <2>3. QED
    BY <2>1, <2>2 DEF Received, All
<1>2. QED
  BY Invariance, <1>1, PTL

\* Of a Completed file the server has every part, unless a call has read a mix of two
\* uploads (239, 244, 282, 297, 301).
THEOREM DoneMeansReceived == Spec => []DoneIsReceived
<1>1. IInv => DoneIsReceived
  BY DEF IInv
<1>2. QED
  BY Invariance, <1>1, PTL

\* Without an overlap no call ever reads such a mix.
THEOREM MixNeedsOverlap == Spec => []MisreadIsOverlap
<1>1. IInv => MisreadIsOverlap
  BY DEF IInv
<1>2. QED
  BY Invariance, <1>1, PTL

-----------------------------------------------------------------------------
(* The refinement.                                                         *)

Active == {s \in Sends : ~At(s, "idle")}

\* No call has begun, no job is running.
LEMMA InitJob == Init => Job!Init
BY DEF Init, Job!Init, At

\* Every step of a call is one of its job, or is not seen from the pool.
LEMMA StepJob == IInv /\ [Next]_vars => [Job!Next]_(Job!vars)
<1> SUFFICES ASSUME IInv, [Next]_vars PROVE [Job!Next]_(Job!vars)
  OBVIOUS
<1> DEFINE Stutter == Active' = Active /\ rowDone' = rowDone
<1>0. pc \in [Sends -> {"idle", "meta", "metaReply", "chunk", "chunkReply", "complete"}]
      /\ rowDone \in BOOLEAN
  BY DEF IInv, TypeOK
<1>1. Stutter => [Job!Next]_(Job!vars)
  BY DEF Job!vars, Active, At
<1>2. ASSUME NEW s \in Sends, Query(s) PROVE [Job!Next]_(Job!vars)
  <2>1. s \notin Active /\ Active' = Active \cup {s} /\ ~rowDone /\ rowDone' = rowDone
    BY <1>0, <1>2 DEF Query, Active, At, Goto, row
  <2>2. Job!Start(s)
    BY <2>1 DEF Job!Start, Active, At
  <2>3. QED
    BY <2>2 DEF Job!Next
<1>3. ASSUME NEW s \in Sends, OnMetaAlready(s) \/ Complete(s) PROVE [Job!Next]_(Job!vars)
  <2>1. s \in Active /\ Active' = Active \ {s} /\ rowDone' = TRUE
    BY <1>0, <1>3 DEF OnMetaAlready, Complete, Answered, Active, At, Goto
  <2>2. Job!Done(s)
    BY <2>1 DEF Job!Done, Active, At
  <2>3. QED
    BY <2>2 DEF Job!Next
<1>4. ASSUME NEW s \in Sends,
             OnMetaFailed(s) \/ OnChunkNotFound(s) \/ OnChunkFailed(s) \/ ReadFails(s)
      PROVE  [Job!Next]_(Job!vars)
  <2>1. s \in Active /\ Active' = Active \ {s} /\ rowDone' \in {rowDone, FALSE}
    BY <1>0, <1>4 DEF OnMetaFailed, OnChunkNotFound, OnChunkFailed, ReadFails, Answered, Active,
                      At, Goto, row
  <2>2. Job!Fails(s)
    BY <2>1 DEF Job!Fails, Active, At
  <2>3. QED
    BY <2>2 DEF Job!Next
<1>5. ASSUME NEW s \in Sends,
             \/ MetaServed(s) \/ OnMetaAccepted(s) \/ PutStored(s) \/ PutUnknown(s)
             \/ OnChunkPassed(s) \/ MetaFails(s) \/ ReplyLost(s) \/ PutFails(s)
      PROVE  Stutter
  BY <1>0, <1>5 DEF MetaServed, OnMetaAccepted, PutStored, PutUnknown, OnChunkPassed, MetaFails,
                    ReplyLost, PutFails, Answered, Active, At, Goto, row
<1>6. CASE Crash
  <2>1. Active' = {} /\ rowDone' = rowDone
    BY <1>6 DEF Crash, Active, At, row
  <2>2. Job!Crash
    BY <2>1 DEF Job!Crash, Active, At
  <2>3. QED
    BY <2>2 DEF Job!Next
<1>7. CASE ServerForgets \/ Finished \/ UNCHANGED vars
  <2>1. Stutter
    BY <1>7 DEF ServerForgets, Finished, vars, Active, At, row
  <2>2. QED
    BY <1>1, <2>1
<1>8. ASSUME NEW s \in Sends, Step(s) \/ Fails(s) PROVE [Job!Next]_(Job!vars)
  BY <1>1, <1>2, <1>3, <1>4, <1>5, <1>8 DEF Step, Fails
<1>9. QED
  BY <1>6, <1>7, <1>8 DEF Next

\* Seen from the pool a call of send_file is a job: it finds the row not
\* Completed, and ends with the row Completed, as it was, or turned back.
THEOREM SendsAreJobs == Spec => ImplementsJob
<1>1. Init => Job!Init
  BY InitJob
<1>2. IInv /\ [Next]_vars => [Job!Next]_(Job!vars)
  BY StepJob
<1>3. QED
  BY Invariance, <1>1, <1>2, PTL DEF Spec, ImplementsJob, Job!Spec
=============================================================================
