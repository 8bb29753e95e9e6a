--------------------------- MODULE SendFileProofs ---------------------------
(***************************************************************************)
(* Theorems about SendFile, for every set of file sizes, every chunk size  *)
(* and every bound.  Those about what was received assume a server that   *)
(* refuses a part with code 0.                                             *)
(***************************************************************************)
EXTENDS SendFile, TLAPS

\* A part lies within the file and is no longer than a chunk.
LEMMA ReadSizeType ==
  ASSUME TypeOK
  PROVE  /\ ReadSize \in 0 .. ChunkSize
         /\ offset + ReadSize \in 0 .. fileSize
         /\ Finally <=> (offset + ReadSize = fileSize /\ ReadSize < ChunkSize)
<1>1. fileSize \in Nat /\ offset \in 0 .. fileSize /\ ChunkSize \in Nat \ {0}
  BY SizeAssumption DEF TypeOK
<1>2. QED
  BY <1>1 DEF ReadSize, Finally

\* Of the answers to a part only a success passes, if refusals are coded 0.
LEMMA PassedIsOk ==
  ASSUME RejectsWithZero, Passes, reply \in {"empty", "ok", "error", "notFound"}
  PROVE  reply = "ok"
BY DEF RejectsWithZero, Passes, Wording

\* No handle is open at the start.
LEMMA InitLeak == Init => LeakClock
BY LimitAssumption DEF Init, LeakClock, InUse, Pledged, Leaking, Credit, Whole, Received

\* The initial state satisfies the inductive invariant.
LEMMA InitIInv == Init => IInv
<1> SUFFICES ASSUME Init PROVE IInv
  OBVIOUS
<1> USE SizeAssumption, LimitAssumption DEF Init, Ids, NoId
<1>1. TypeOK
  BY DEF TypeOK
<1>2. Copy /\ ReadsWithin /\ Answers /\ InPlace
  BY DEF Copy, ReadsWithin, Answers, InPlace
<1>3. DoneIsReceived /\ SavedIsStored /\ FinallyIsLast
  BY DEF DoneIsReceived, SavedIsStored, FinallyIsLast
<1>4. QED
  BY <1>1, <1>2, <1>3, InitLeak DEF IInv, CallInv, TypeOK

\* Every step keeps the variables in their types.
LEMMA TypeStep == CallInv /\ [Next]_vars => TypeOK'
<1> SUFFICES ASSUME CallInv, [Next]_vars PROVE TypeOK'
  OBVIOUS
<1>0. TypeOK /\ Copy /\ ReadsWithin
  BY DEF CallInv
<1>a. /\ ReadSize \in 0 .. ChunkSize
      /\ offset + ReadSize \in 0 .. fileSize
      /\ fileSize \in Nat
      /\ ChunkSize \in Nat
  BY <1>0, ReadSizeType, SizeAssumption DEF TypeOK
<1> USE <1>0, SizeAssumption, LimitAssumption DEF TypeOK, row, local, server, history, Ids, NoId
<1>1. CASE Query
  BY <1>1 DEF Query
<1>2. CASE Open
  BY <1>2 DEF Open
<1>3. CASE OpenFailed \/ OnMetaFailed
  BY <1>3 DEF OpenFailed, OnMetaFailed
<1>4. CASE MetaServed
  <2>1. issued' \in 0 .. MaxIds /\ known' \subseteq Ids
    <3>1. issued < MaxIds => issued + 1 \in Ids
      OBVIOUS
    <3>2. \/ issued' = issued /\ known' = known
          \/ /\ issued < MaxIds
             /\ issued' = issued + 1
             /\ known' = known \cup {issued + 1}
      BY <1>4, Zenon DEF MetaServed
    <3>3. issued' \in 0 .. MaxIds
      BY <3>2
    <3>4. known' \subseteq Ids
      <4>1. known \subseteq Ids
        OBVIOUS
      <4>2. QED
        BY <3>1, <3>2, <4>1, Zenon
    <3>5. QED
      BY <3>3, <3>4
  <2>2. reply' \in {"ok", "already"}
    BY <1>4 DEF MetaServed
  <2>3. QED
    BY <1>4, <2>1, <2>2 DEF MetaServed
<1>b. Fault => faults' \in 0 .. MaxFaults /\ resumed' \subseteq Ids
  BY DEF Fault
<1>5. CASE MetaFails \/ ReplyLost
  <2>1. reply' \in {"empty", "error"}
    BY <1>5 DEF MetaFails, ReplyLost
  <2>2. CASE MetaFails
    BY <1>b, <2>1, <2>2 DEF MetaFails
  <2>3. CASE ReplyLost
    BY <1>b, <2>1, <2>3 DEF ReplyLost
  <2>4. QED
    BY <1>5, <2>2, <2>3
<1>6. CASE OnMetaAccepted
  BY <1>6 DEF OnMetaAccepted, Copy
<1>7. CASE OnMetaAlready
  BY <1>7 DEF OnMetaAlready
<1>8. CASE PutStored
  <2>1. position' \in 0 .. fileSize
    BY <1>8, <1>a DEF PutStored, ReadsWithin
  <2>2. stored' \in [Ids -> Nat]
    BY <1>8, <1>a DEF PutStored, Store
  <2>3. QED
    BY <1>8, <2>1, <2>2 DEF PutStored, Store, Copy
<1>9. CASE PutUnknown \/ PutFails
  <2>1. position' \in 0 .. fileSize
    BY <1>9, <1>a, SMTT(30) DEF PutUnknown, PutFails, ReadsWithin
  <2>2. CASE PutUnknown
    BY <2>1, <2>2 DEF PutUnknown
  <2>3. CASE PutFails
    <3>1. reply' \in {"empty", "error"}
      BY <2>3 DEF PutFails
    <3>2. QED
      BY <1>b, <2>1, <2>3, <3>1 DEF PutFails
  <2>4. QED
    BY <1>9, <2>2, <2>3
<1>11. CASE OnChunkPassed
  BY <1>11, <1>a DEF OnChunkPassed
<1>c. pc \notin {"idle", "open"} /\ Close => handles' \in 0 .. MaxHandles /\ pc' = "idle"
  BY DEF Close, Copy
<1>10. CASE ReadFails
  BY <1>10, <1>b, <1>c DEF ReadFails
<1>12. CASE OnChunkNotFound \/ OnChunkFailed
  <2>1. handles' \in 0 .. MaxHandles /\ pc' = "idle"
    BY <1>12, <1>c DEF OnChunkNotFound, OnChunkFailed
  <2>2. rowId' \in Ids \cup {NoId} /\ rowSize' \in 0 .. fileSize
    BY <1>12, <1>a, SMTT(30) DEF OnChunkNotFound, OnChunkFailed
  <2>3. QED
    BY <1>12, <2>1, <2>2 DEF OnChunkNotFound, OnChunkFailed
<1>13. CASE Complete
  BY <1>13, <1>c DEF Complete
<1>14. CASE Crash \/ ServerForgets
  <2>1. CASE Crash
    BY <1>b, <2>1 DEF Crash
  <2>2. CASE ServerForgets
    BY <1>b, <2>2 DEF ServerForgets
  <2>3. QED
    BY <1>14, <2>1, <2>2
<1>15. CASE Finished \/ UNCHANGED vars
  BY <1>15 DEF Finished, vars
<1>16. QED
  BY <1>1, <1>2, <1>3, <1>4, <1>5, <1>6, <1>7, <1>8, <1>9, <1>10, <1>11, <1>12,
     <1>13, <1>14, <1>15 DEF Next, Begin, Meta, Parts, Faulty

-----------------------------------------------------------------------------
\* A step never takes back what the server has, nor changes the file.
LEMMA ServerStep ==
  ASSUME IInv, [Next]_vars
  PROVE  /\ fileSize' = fileSize
         /\ final \subseteq final'
         /\ \A id \in Ids : stored[id] <= stored'[id] /\ stored'[id] <= fileSize
         /\ \A id \in Ids : Received(id) => Received(id)'
<1>0. TypeOK /\ Copy /\ \A id \in Ids : stored[id] <= fileSize
  BY DEF IInv, CallInv
<1>a. /\ ReadSize \in 0 .. ChunkSize
      /\ offset + ReadSize \in 0 .. fileSize
  BY <1>0, ReadSizeType
<1>1. /\ fileSize' = fileSize
      /\ final \subseteq final'
      /\ \A id \in Ids : stored[id] <= stored'[id] /\ stored'[id] <= fileSize
  <2>1. CASE PutStored
    <3>1. myId \in Ids /\ stored \in [Ids -> Nat] /\ offset \in Nat
          /\ fileSize \in Nat /\ ReadSize \in Nat
      BY <2>1, <1>0, <1>a, SizeAssumption DEF PutStored, Copy, TypeOK
    <3>2. QED
      BY <2>1, <3>1, <1>0, <1>a DEF PutStored, Store
  <2>2. CASE UNCHANGED <<fileSize, final, stored>>
    BY <2>2, <1>0, SizeAssumption DEF TypeOK
  <2>3. CASE Begin
    BY <2>2, <2>3 DEF Begin, Query, Open, OpenFailed, server
  <2>4. CASE Meta
    BY <2>2, <2>4 DEF Meta, MetaServed, OnMetaAccepted, OnMetaAlready,
       OnMetaFailed, server
  <2>5. CASE PutUnknown \/ OnChunkPassed \/ OnChunkNotFound \/ OnChunkFailed \/ Complete
    BY <2>2, <2>5 DEF PutUnknown, OnChunkPassed, OnChunkNotFound, OnChunkFailed,
       Complete, server
  <2>6. CASE Faulty
    BY <2>2, <2>6 DEF Faulty, MetaFails, ReplyLost, PutFails, ReadFails, Crash,
       ServerForgets, server
  <2>7. CASE Finished \/ UNCHANGED vars
    BY <2>2, <2>7 DEF Finished, vars
  <2>8. QED
    BY <2>1, <2>3, <2>4, <2>5, <2>6, <2>7 DEF Next, Parts
<1>2. ASSUME NEW id \in Ids, Received(id) PROVE Received(id)'
  <2>1. stored[id] \in Nat /\ stored'[id] \in Nat /\ fileSize \in Nat
    BY <1>0, TypeStep, SizeAssumption DEF IInv, TypeOK
  <2>2. QED
    BY <1>1, <1>2, <2>1 DEF Received
<1>3. QED
  BY <1>1, <1>2

\* What is in memory stays what is in the row.
LEMMA CopyStep == CallInv /\ [Next]_vars => Copy'
<1> SUFFICES ASSUME CallInv, [Next]_vars PROVE Copy'
  OBVIOUS
<1>0. TypeOK /\ Copy
  BY DEF CallInv
<1> USE <1>0 DEF Copy, row, local, NoId
<1>1. CASE Query
  BY <1>1 DEF Query
<1>2. CASE Open
  BY <1>2 DEF Open, TypeOK
<1>3. CASE OpenFailed \/ OnMetaFailed \/ OnMetaAlready
  BY <1>3 DEF OpenFailed, OnMetaFailed, OnMetaAlready
<1>4. CASE MetaServed \/ MetaFails \/ ReplyLost
  <2>1. pc' = "metaReply" /\ reply' = "ok" => issued' \in Ids
    BY <1>4, LimitAssumption DEF MetaServed, MetaFails, ReplyLost, TypeOK, Ids
  <2>2. QED
    BY <1>4, <2>1 DEF MetaServed, MetaFails, ReplyLost
<1>5. CASE OnMetaAccepted
  BY <1>5 DEF OnMetaAccepted
<1>6. CASE PutStored \/ PutUnknown \/ PutFails
  BY <1>6 DEF PutStored, PutUnknown, PutFails
<1>7. CASE ReadFails \/ OnChunkNotFound \/ OnChunkFailed \/ Complete \/ Crash
  BY <1>7 DEF ReadFails, OnChunkNotFound, OnChunkFailed, Complete, Crash, Close
<1>8. CASE OnChunkPassed
  BY <1>8 DEF OnChunkPassed
<1>9. CASE ServerForgets
  BY <1>9 DEF ServerForgets
<1>10. CASE Finished \/ UNCHANGED vars
  BY <1>10 DEF Finished, vars
<1>11. QED
  BY <1>1, <1>2, <1>3, <1>4, <1>5, <1>6, <1>7, <1>8, <1>9, <1>10
     DEF Next, Begin, Meta, Parts, Faulty

\* The FILE stays behind the part.
LEMMA ReadsStep == CallInv /\ [Next]_vars => ReadsWithin'
<1> SUFFICES ASSUME CallInv, [Next]_vars PROVE ReadsWithin'
  OBVIOUS
<1>0. TypeOK /\ Copy /\ ReadsWithin
  BY DEF CallInv
<1>a. /\ ReadSize \in Nat
      /\ position \in Nat /\ offset \in Nat
  BY <1>0, ReadSizeType, SizeAssumption DEF TypeOK
<1> USE <1>0, <1>a DEF ReadsWithin, row, local
<1>1. CASE Query
  BY <1>1 DEF Query
<1>2. CASE Open
  BY <1>2 DEF Open
<1>3. CASE OpenFailed \/ OnMetaFailed \/ OnMetaAlready
  BY <1>3 DEF OpenFailed, OnMetaFailed, OnMetaAlready
<1>4. CASE MetaServed \/ MetaFails
  BY <1>4 DEF MetaServed, MetaFails
<1>5. CASE ReplyLost
  BY <1>5 DEF ReplyLost, ReadSize
<1>6. CASE OnMetaAccepted
  BY <1>6 DEF OnMetaAccepted
<1>7. CASE PutStored \/ PutUnknown \/ PutFails
  <2>1. ReadSize' = ReadSize /\ offset' = offset
    BY <1>7 DEF PutStored, PutUnknown, PutFails, ReadSize
  <2>2. pc' = "chunkReply" /\ position' = position + ReadSize /\ position <= offset
    BY <1>7 DEF PutStored, PutUnknown, PutFails
  <2>3. QED
    BY <2>1, <2>2
<1>8. CASE ReadFails \/ OnChunkNotFound \/ OnChunkFailed \/ Complete \/ Crash
  BY <1>8 DEF ReadFails, OnChunkNotFound, OnChunkFailed, Complete, Crash, Close
<1>9. CASE OnChunkPassed
  BY <1>9 DEF OnChunkPassed
<1>10. CASE ServerForgets
  BY <1>10 DEF ServerForgets, ReadSize
<1>11. CASE Finished \/ UNCHANGED vars
  BY <1>11 DEF Finished, vars, ReadSize
<1>12. QED
  BY <1>1, <1>2, <1>3, <1>4, <1>5, <1>6, <1>7, <1>8, <1>9, <1>10, <1>11
     DEF Next, Begin, Meta, Parts, Faulty

\* Every answer still tells what the server has done.
LEMMA AnswersStep == RejectsWithZero /\ IInv /\ [Next]_vars => Answers'
<1> SUFFICES ASSUME RejectsWithZero, IInv, [Next]_vars PROVE Answers'
  OBVIOUS
<1>0. /\ TypeOK /\ Copy /\ Answers /\ SavedIsStored /\ FinallyIsLast
      /\ \A id \in Ids : stored[id] <= fileSize
  BY DEF IInv, CallInv
<1>a. /\ ReadSize \in Nat /\ offset \in Nat /\ fileSize \in Nat
      /\ offset + ReadSize \in 0 .. fileSize
      /\ Finally <=> (offset + ReadSize = fileSize /\ ReadSize < ChunkSize)
  BY <1>0, ReadSizeType, SizeAssumption DEF TypeOK
<1>b. /\ fileSize' = fileSize
      /\ \A id \in Ids : stored[id] <= stored'[id] /\ stored'[id] <= fileSize
      /\ \A id \in Ids : Received(id) => Received(id)'
  BY ServerStep
<1> USE <1>0 DEF Answers
<1>1. CASE Query \/ Open \/ OpenFailed
  BY <1>1 DEF Query, Open, OpenFailed
<1>2. CASE OnMetaFailed \/ OnMetaAlready \/ OnMetaAccepted
  BY <1>2 DEF OnMetaFailed, OnMetaAlready, OnMetaAccepted
<1>3. CASE MetaServed
  <2>1. pc' = "metaReply"
    BY <1>3 DEF MetaServed
  <2>2. CASE reply' = "ok"
    <3>1. issued' \in Ids
      <4>1. issued < MaxIds /\ issued' = issued + 1
        BY <1>3, <2>2 DEF MetaServed
      <4>2. QED
        BY <4>1, LimitAssumption DEF TypeOK, Ids
    <3>2. QED
      BY <2>1, <2>2, <3>1
  <2>3. CASE reply' = "already"
    <3>1. PICK id \in Ids : Received(id)
      BY <1>3, <2>3 DEF MetaServed
    <3>2. Received(id)'
      BY <1>b, <3>1
    <3>3. QED
      BY <2>1, <2>3, <3>2 DEF Ids
  <2>4. QED
    BY <1>3, <2>2, <2>3 DEF MetaServed
<1>4. CASE MetaFails
  BY <1>4 DEF MetaFails
<1>5. CASE ReplyLost
  BY <1>5 DEF ReplyLost
<1>6. CASE PutStored
  <2>1. myId \in Ids /\ myId = rowId /\ offset = rowSize /\ offset <= stored[myId]
    BY <1>6 DEF PutStored, Copy, SavedIsStored, Ids, NoId
  <2>2. offset + ReadSize <= stored'[myId]
    <3>1. stored[myId] \in Nat
      BY <2>1 DEF TypeOK
    <3>2. stored'[myId] = IF stored[myId] < offset + ReadSize
                          THEN offset + ReadSize ELSE stored[myId]
      BY <1>6, <2>1 DEF PutStored, Store, TypeOK
    <3>3. QED
      BY <1>a, <3>1, <3>2
  <2>3. Finally => Received(myId)'
    <3>1. ASSUME Finally PROVE stored'[myId] = fileSize /\ myId \in final'
      <4>1. myId \in final'
        BY <1>6, <3>1 DEF PutStored, Store
      <4>2. stored'[myId] \in Nat
        BY <2>1, TypeStep DEF IInv, TypeOK
      <4>3. QED
        BY <1>a, <1>b, <2>1, <2>2, <3>1, <4>1, <4>2
    <3>2. QED
      BY <1>6, <1>b, <3>1 DEF Received, PutStored
  <2>4. ReadSize' = ReadSize /\ (Finally' <=> Finally)
    BY <1>6 DEF PutStored, ReadSize, Finally
  <2>5. pc' = "chunkReply" /\ reply' = "ok" /\ myId' = myId /\ offset' = offset
    BY <1>6 DEF PutStored
  <2>6. QED
    BY <2>2, <2>3, <2>4, <2>5 DEF Received
<1>7. CASE PutUnknown \/ PutFails
  BY <1>7 DEF PutUnknown, PutFails
<1>8. CASE OnChunkPassed
  <2>1. reply = "ok" /\ myId' = myId /\ myId \in Ids
    <3>1. reply \in {"empty", "ok", "error", "notFound"}
      BY <1>8 DEF OnChunkPassed
    <3>2. reply = "ok"
      BY <1>8, <3>1, PassedIsOk DEF OnChunkPassed
    <3>3. QED
      BY <1>8, <3>2 DEF OnChunkPassed, Copy
  <2>2. CASE Finally
    <3>1. Received(myId)'
      BY <1>8, <1>b, <2>1, <2>2 DEF OnChunkPassed
    <3>2. pc' = "complete"
      BY <1>8, <2>2 DEF OnChunkPassed
    <3>3. QED
      BY <2>1, <3>1, <3>2 DEF Received
  <2>3. CASE ~Finally
    BY <1>8, <2>3 DEF OnChunkPassed
  <2>4. QED
    BY <2>2, <2>3
<1>9. CASE ReadFails \/ OnChunkNotFound \/ OnChunkFailed \/ Complete \/ Crash
  BY <1>9 DEF ReadFails, OnChunkNotFound, OnChunkFailed, Complete, Crash, Close
<1>10. CASE ServerForgets
  BY <1>10 DEF ServerForgets, local, row, ReadSize, Finally, Received
<1>11. CASE Finished \/ UNCHANGED vars
  BY <1>11 DEF Finished, vars, ReadSize, Finally, Received
<1>12. QED
  BY <1>1, <1>2, <1>3, <1>4, <1>5, <1>6, <1>7, <1>8, <1>9, <1>10, <1>11
     DEF Next, Begin, Meta, Parts, Faulty

\* A call that starts an upload reads each part from the place it sends it to.
LEMMA PlaceStep == RejectsWithZero /\ IInv /\ [Next]_vars => InPlace'
<1> SUFFICES ASSUME RejectsWithZero, IInv, [Next]_vars PROVE InPlace'
  OBVIOUS
<1>0. TypeOK /\ Copy /\ InPlace /\ SavedIsStored
  BY DEF IInv, CallInv
<1>a. ReadSize \in Nat /\ position \in Nat /\ offset \in Nat
  BY <1>0, ReadSizeType, SizeAssumption DEF TypeOK
<1>b. Fault => resumed' = resumed
  BY DEF Fault
<1> USE <1>0, <1>a DEF InPlace, row, local, server, history
<1>1. CASE Query
  BY <1>1 DEF Query
<1>2. CASE Open
  <2>1. myId' = myId /\ offset' = offset /\ position' = 0 /\ misplaced' = misplaced
        /\ pc' \in {"meta", "chunk"}
    BY <1>2 DEF Open
  <2>2. misplaced' \subseteq resumed'
    BY <1>2, <2>1 DEF Open
  <2>3. myId' \notin resumed' => offset = 0
    <3>1. CASE myId = NoId
      BY <1>2, <3>1 DEF Open, Copy, SavedIsStored
    <3>2. CASE myId # NoId
      BY <1>2, <2>1, <3>2 DEF Open
    <3>3. QED
      BY <3>1, <3>2
  <2>4. QED
    BY <2>1, <2>2, <2>3
<1>3. CASE OpenFailed \/ OnMetaFailed \/ OnMetaAlready
  BY <1>3 DEF OpenFailed, OnMetaFailed, OnMetaAlready
<1>4. CASE MetaServed
  BY <1>4 DEF MetaServed
<1>5. CASE MetaFails
  BY <1>b, <1>5 DEF MetaFails
<1>6. CASE ReplyLost
  BY <1>b, <1>6 DEF ReplyLost, ReadSize
<1>7. CASE OnMetaAccepted
  <2>1. myId \notin resumed
    BY <1>7 DEF OnMetaAccepted, Copy, TypeOK, Ids, NoId
  <2>2. position = offset
    BY <1>7, <2>1 DEF OnMetaAccepted
  <2>3. QED
    BY <1>7, <2>2 DEF OnMetaAccepted
<1>8. CASE PutStored \/ PutUnknown \/ PutFails
  <2>1. /\ pc = "chunk" /\ pc' = "chunkReply"
        /\ offset' = offset /\ myId' = myId /\ resumed' = resumed
        /\ position' = position + ReadSize
    BY <1>b, <1>8 DEF PutStored, PutUnknown, PutFails
  <2>2. ReadSize' = ReadSize
    BY <1>8 DEF PutStored, PutUnknown, PutFails, ReadSize
  <2>3. misplaced' \subseteq resumed
    <3>1. CASE PutStored
      BY <2>1, <3>1 DEF PutStored, Store
    <3>2. CASE PutUnknown \/ PutFails
      BY <3>2 DEF PutUnknown, PutFails
    <3>3. QED
      BY <1>8, <3>1, <3>2
  <2>4. QED
    BY <2>1, <2>2, <2>3
<1>9. CASE OnChunkPassed
  BY <1>9 DEF OnChunkPassed
<1>10. CASE ReadFails \/ Crash
  BY <1>b, <1>10 DEF ReadFails, Crash, Close
<1>11. CASE OnChunkNotFound \/ OnChunkFailed \/ Complete
  BY <1>11 DEF OnChunkNotFound, OnChunkFailed, Complete, Close
<1>12. CASE ServerForgets
  BY <1>b, <1>12 DEF ServerForgets, ReadSize
<1>13. CASE Finished \/ UNCHANGED vars
  BY <1>13 DEF Finished, vars, ReadSize
<1>14. QED
  BY <1>1, <1>2, <1>3, <1>4, <1>5, <1>6, <1>7, <1>8, <1>9, <1>10, <1>11, <1>12, <1>13
     DEF Next, Begin, Meta, Parts, Faulty

\* A Completed row stays backed by the server.
LEMMA DoneStep == RejectsWithZero /\ IInv /\ [Next]_vars => DoneIsReceived'
<1> SUFFICES ASSUME RejectsWithZero, IInv, [Next]_vars, rowState' = "done"
             PROVE  DoneIsReceived'
  BY DEF DoneIsReceived
<1>0. Answers /\ DoneIsReceived /\ Copy /\ InPlace'
  BY PlaceStep DEF IInv, CallInv
<1>1. \E id \in Ids : Received(id)
  <2>1. CASE rowState = "done"
    BY <1>0, <2>1 DEF DoneIsReceived
  <2>2. CASE OnMetaAlready
    BY <1>0, <2>2 DEF OnMetaAlready, Answers
  <2>3. CASE Complete
    BY <1>0, <2>3 DEF Complete, Answers, Copy
  <2>4. CASE UNCHANGED rowState
    BY <2>1, <2>4
  <2>5. CASE Begin
    BY <2>4, <2>5 DEF Begin, Query, Open, OpenFailed, row
  <2>6. CASE MetaServed \/ OnMetaAccepted \/ OnMetaFailed
    BY <2>4, <2>6 DEF MetaServed, OnMetaAccepted, OnMetaFailed, row
  <2>7. CASE PutStored \/ PutUnknown \/ OnChunkPassed \/ OnChunkNotFound \/ OnChunkFailed
    BY <2>4, <2>7 DEF PutStored, PutUnknown, OnChunkPassed, OnChunkNotFound,
       OnChunkFailed, row
  <2>8. CASE Faulty
    BY <2>4, <2>8 DEF Faulty, MetaFails, ReplyLost, PutFails, ReadFails, Crash,
       ServerForgets, row
  <2>9. CASE Finished \/ UNCHANGED vars
    BY <2>4, <2>9 DEF Finished, vars
  <2>10. QED
    BY <2>2, <2>3, <2>5, <2>6, <2>7, <2>8, <2>9 DEF Next, Meta, Parts
<1>2. PICK id \in Ids : Received(id)
  BY <1>1
<1>3. Received(id)'
  BY <1>2, ServerStep
<1>4. QED
  BY <1>0, <1>3 DEF DoneIsReceived, InPlace, Ids

\* The row stays behind the server.
LEMMA SavedStep == RejectsWithZero /\ IInv /\ [Next]_vars => SavedIsStored'
<1> SUFFICES ASSUME RejectsWithZero, IInv, [Next]_vars PROVE SavedIsStored'
  OBVIOUS
<1>0. TypeOK /\ Copy /\ Answers /\ SavedIsStored
  BY DEF IInv, CallInv
<1>a. TypeOK' /\ \A id \in Ids : stored[id] <= stored'[id]
  BY TypeStep, ServerStep DEF IInv
<1>b. CASE UNCHANGED <<rowId, rowSize>>
  <2>1. ASSUME rowId # NoId PROVE rowSize <= stored'[rowId]
    <3>1. rowId \in Ids /\ rowSize <= stored[rowId] /\ stored[rowId] <= stored'[rowId]
      BY <1>0, <1>a, <2>1 DEF TypeOK, SavedIsStored
    <3>2. rowSize \in Nat /\ stored[rowId] \in Nat /\ stored'[rowId] \in Nat
      BY <1>0, <1>a, <3>1, SizeAssumption DEF TypeOK
    <3>3. QED
      BY <3>1, <3>2
  <2>2. QED
    BY <1>0, <1>b, <2>1 DEF SavedIsStored
<1>1. CASE Begin
  BY <1>b, <1>1 DEF Begin, Query, Open, OpenFailed, row
<1>2. CASE MetaServed \/ OnMetaAlready \/ OnMetaFailed
  BY <1>b, <1>2 DEF MetaServed, OnMetaAlready, OnMetaFailed, row
<1>3. CASE OnMetaAccepted
  <2>1. rowId = NoId /\ rowSize = 0 /\ rowSize' = 0 /\ rowId' = issued /\ issued \in Ids
    BY <1>0, <1>3 DEF OnMetaAccepted, Copy, SavedIsStored, Answers
  <2>2. rowId' # NoId /\ stored'[issued] \in Nat
    BY <1>a, <2>1 DEF TypeOK, Ids, NoId
  <2>3. QED
    BY <2>1, <2>2 DEF SavedIsStored
<1>4. CASE OnChunkPassed
  <2>1. /\ reply = "ok" /\ myId = rowId /\ myId \in Ids
        /\ rowId' = rowId /\ rowSize' = offset + ReadSize
        /\ stored' = stored
        /\ offset + ReadSize <= stored[myId]
    BY <1>0, <1>4, PassedIsOk DEF OnChunkPassed, Copy, Answers, server
  <2>2. rowId # NoId
    BY <2>1 DEF Ids, NoId
  <2>3. QED
    BY <2>1, <2>2 DEF SavedIsStored
<1>5. CASE OnChunkNotFound
  BY <1>5 DEF OnChunkNotFound, SavedIsStored
<1>6. CASE PutStored \/ PutUnknown \/ OnChunkFailed \/ Complete
  BY <1>b, <1>6 DEF PutStored, PutUnknown, OnChunkFailed, Complete, row
<1>7. CASE Faulty
  BY <1>b, <1>7 DEF Faulty, MetaFails, ReplyLost, PutFails, ReadFails, Crash,
     ServerForgets, row
<1>8. CASE Finished \/ UNCHANGED vars
  BY <1>b, <1>8 DEF Finished, vars
<1>9. QED
  BY <1>1, <1>2, <1>3, <1>4, <1>5, <1>6, <1>7, <1>8 DEF Next, Meta, Parts

\* "finally" comes with the last byte.
LEMMA FinalStep == RejectsWithZero /\ IInv /\ [Next]_vars => FinallyIsLast'
<1> SUFFICES ASSUME RejectsWithZero, IInv, [Next]_vars, NEW id \in final'
             PROVE  stored'[id] = fileSize'
  BY DEF FinallyIsLast
<1>c. id \in Ids
  BY TypeStep DEF IInv, TypeOK, Ids
<1>0. TypeOK /\ FinallyIsLast /\ Copy
  BY DEF IInv, CallInv
<1>a. fileSize' = fileSize /\ stored[id] <= stored'[id] /\ stored'[id] <= fileSize
  BY <1>c, ServerStep
<1>b. stored[id] \in Nat /\ stored'[id] \in Nat /\ fileSize \in Nat
  BY <1>0, <1>c, TypeStep, SizeAssumption DEF IInv, TypeOK
<1>1. CASE id \in final
  BY <1>0, <1>1, <1>a, <1>b DEF FinallyIsLast
<1>2. CASE id \notin final
  <2>1. PutStored /\ Finally /\ id = myId
    <3>1. CASE PutStored
      BY <1>2, <3>1 DEF PutStored, Store
    <3>2. CASE UNCHANGED final
      BY <1>2, <3>2
    <3>3. CASE Begin
      BY <3>2, <3>3 DEF Begin, Query, Open, OpenFailed, server
    <3>4. CASE Meta
      BY <3>2, <3>4 DEF Meta, MetaServed, OnMetaAccepted, OnMetaAlready,
         OnMetaFailed, server
    <3>5. CASE PutUnknown \/ OnChunkPassed \/ OnChunkNotFound \/ OnChunkFailed \/ Complete
      BY <3>2, <3>5 DEF PutUnknown, OnChunkPassed, OnChunkNotFound, OnChunkFailed,
         Complete, server
    <3>6. CASE Faulty
      BY <3>2, <3>6 DEF Faulty, MetaFails, ReplyLost, PutFails, ReadFails, Crash,
         ServerForgets, server
    <3>7. CASE Finished \/ UNCHANGED vars
      BY <3>2, <3>7 DEF Finished, vars
    <3>8. QED
      BY <3>1, <3>3, <3>4, <3>5, <3>6, <3>7 DEF Next, Parts
  <2>2. Received(myId)'
    <3>1. Answers'
      BY AnswersStep
    <3>2. pc' = "chunkReply" /\ reply' = "ok" /\ myId' = myId /\ (Finally' <=> Finally)
      BY <2>1 DEF PutStored, Finally, ReadSize
    <3>3. QED
      BY <2>1, <3>1, <3>2 DEF Answers, Received
  <2>3. QED
    BY <2>1, <2>2 DEF Received, PutStored
<1>3. QED
  BY <1>1, <1>2

-----------------------------------------------------------------------------
\* Every handle that a step leaves open is paid for by a fault of its own.
LEMMA LeakStep == CallInv /\ [Next]_vars => LeakClock'
<1> SUFFICES ASSUME CallInv, [Next]_vars PROVE LeakClock'
  OBVIOUS
<1>0. TypeOK /\ Copy /\ LeakClock
  BY DEF CallInv
<1>a. /\ handles \in Nat /\ faults \in Nat
      /\ Fault => faults' = faults + 1
  BY <1>0, LimitAssumption DEF TypeOK, Fault
<1>b. /\ handles <= faults + InUse
      /\ Credit => handles + 1 <= faults + InUse
  BY <1>0, <1>a DEF LeakClock, InUse, Pledged
<1> USE <1>a, <1>b DEF LeakClock, Pledged, InUse, Leaking, row, local, server, history
<1>1. CASE Query \/ Open \/ OpenFailed
  <2>1. Credit' => Credit
    BY <1>1 DEF Query, Open, OpenFailed, Credit, Whole, Received
  <2>2. QED
    BY <1>1, <2>1 DEF Query, Open, OpenFailed
<1>2. CASE MetaServed
  <2>1. Credit' => Credit
    <3>1. reply' = "ok" => issued' \in known'
      BY <1>2 DEF MetaServed
    <3>2. rowId = NoId
      BY <1>0, <1>2 DEF Copy, MetaServed
    <3>3. (Whole' => Whole) /\ UNCHANGED <<rowState, rowId>> /\ pc' = "metaReply"
      BY <1>2 DEF MetaServed, Whole, Received
    <3>4. reply' = "already" => Whole
      BY <1>2 DEF MetaServed, Whole
    <3>5. rowState = "todo"
      BY <1>0, <1>2 DEF Copy, MetaServed
    <3>6. QED
      BY <3>1, <3>2, <3>3, <3>4, <3>5 DEF Credit
  <2>2. pc' = "metaReply" /\ reply' \in {"ok", "already"} /\ UNCHANGED <<handles, faults>>
        /\ pc = "meta"
    BY <1>2 DEF MetaServed
  <2>3. QED
    BY <2>1, <2>2
<1>3. CASE MetaFails
  <2>1. Credit' => Credit
    BY <1>3 DEF MetaFails, Credit, Whole, Received
  <2>2. pc = "meta" /\ pc' = "metaReply" /\ handles' = handles /\ faults' = faults + 1
    BY <1>3 DEF MetaFails
  <2>3. reply' \in {"error", "empty"}
    BY <1>3 DEF MetaFails
  <2>4. QED
    BY <2>1, <2>2, <2>3
<1>4. CASE ReplyLost
  <2>1. /\ pc \in {"metaReply", "chunkReply"} /\ pc' = pc /\ reply' = "empty"
        /\ handles' = handles /\ faults' = faults + 1
    BY <1>4 DEF ReplyLost
  <2>2. CASE pc = "chunkReply"
    BY <2>1, <2>2
  <2>3. CASE pc = "metaReply"
    <3>1. Credit' => Credit
      BY <1>4, <2>3 DEF ReplyLost, Credit, Whole, Received
    <3>2. QED
      BY <2>1, <2>3, <3>1
  <2>4. QED
    BY <2>1, <2>2, <2>3
<1>5. CASE OnMetaAccepted
  <2>1. Credit' => Credit
    BY <1>0, <1>5, LimitAssumption DEF OnMetaAccepted, Credit, Copy, Ids, NoId
  <2>2. QED
    BY <1>5, <2>1 DEF OnMetaAccepted
<1>6. CASE OnMetaAlready
  <2>1. ~Credit'
    BY <1>6 DEF OnMetaAlready, Credit
  <2>2. Credit
    BY <1>0, <1>6 DEF OnMetaAlready, Credit, Copy, Whole
  <2>3. QED
    BY <1>6, <2>1, <2>2 DEF OnMetaAlready
<1>7. CASE OnMetaFailed
  <2>1. Credit' => Credit
    BY <1>7 DEF OnMetaFailed, Credit, Whole, Received
  <2>2. QED
    BY <1>7, <2>1 DEF OnMetaFailed
<1>8. CASE PutStored \/ PutUnknown
  <2>1. Credit' => Credit
    BY <1>0, <1>8, LimitAssumption DEF PutStored, PutUnknown, Credit, Copy, Ids, NoId
  <2>2. QED
    BY <1>8, <2>1 DEF PutStored, PutUnknown
<1>9. CASE PutFails
  BY <1>9 DEF PutFails
<1>10. CASE ReadFails
  BY <1>0, <1>10 DEF ReadFails, Close, Copy
<1>11. CASE OnChunkPassed
  <2>1. Credit' => Credit
    BY <1>0, <1>11, LimitAssumption DEF OnChunkPassed, Credit, Copy, Ids, NoId
  <2>2. QED
    BY <1>11, <2>1 DEF OnChunkPassed
<1>12. CASE OnChunkNotFound
  BY <1>0, <1>12, ServerAssumption
     DEF OnChunkNotFound, Close, Copy, Credit, SaysNotFound, Passes, Wording
<1>13. CASE OnChunkFailed \/ Complete
  <2>1. Credit' => Credit
    BY <1>0, <1>13 DEF OnChunkFailed, Complete, Close, Copy, Credit, Whole, Received
  <2>2. handles > 0 /\ handles' = handles - 1 /\ faults' = faults
        /\ pc \in {"chunkReply", "complete"} /\ pc' = "idle"
    BY <1>0, <1>13 DEF OnChunkFailed, Complete, Close, Copy
  <2>3. QED
    BY <2>1, <2>2
<1>14. CASE Crash
  BY <1>14 DEF Crash
<1>15. CASE ServerForgets
  BY <1>15 DEF ServerForgets
<1>16. CASE Finished \/ UNCHANGED vars
  BY <1>16 DEF Finished, vars, Credit, Whole, Received
<1>17. QED
  BY <1>1, <1>2, <1>3, <1>4, <1>5, <1>6, <1>7, <1>8, <1>9, <1>10, <1>11, <1>12, <1>13,
     <1>14, <1>15, <1>16 DEF Next, Begin, Meta, Parts, Faulty

\* What holds whatever the server answers is kept by every step.
LEMMA CallStep == CallInv /\ [Next]_vars => CallInv'
BY TypeStep, CopyStep, ReadsStep, LeakStep DEF CallInv

\* CallInv holds whatever the server answers.
LEMMA CallInvariance == Spec => []CallInv
<1>1. Init => CallInv
  BY InitIInv DEF IInv
<1>2. QED
  BY <1>1, CallStep, PTL DEF Spec

\* The variables keep their types: no read and no offset leaves the file.
THEOREM TypeCorrect == Spec => []TypeOK
BY CallInvariance, PTL DEF CallInv

\* A process runs out of handles only for as many faults, whatever the server
\* answers: no sequence of legal calls leaks one.
THEOREM LeaksBounded == Spec => []LeaksAreFaults
<1>1. CallInv => LeaksAreFaults
  BY LimitAssumption
     DEF CallInv, TypeOK, LeakClock, Pledged, InUse, Leaking, LeaksAreFaults
<1>2. QED
  BY <1>1, CallInvariance, PTL

\* A Completed row is never touched again, nor is its upload; and bytes are
\* only given up with the id they were sent under.
THEOREM RowOnlyMovesOn == Spec => RowMovesOn
<1>1. ASSUME CallInv, [Next]_vars
      PROVE  [/\ rowState = "done" => UNCHANGED <<row, server>> \/ ServerForgets
              /\ rowSize' < rowSize => rowId' = NoId]_vars
  <2>0. TypeOK /\ Copy
    BY <1>1 DEF CallInv
  <2>1. rowState = "done" => UNCHANGED <<row, server>> \/ ServerForgets \/ UNCHANGED vars
    BY <1>1, <2>0 DEF Copy, Next, Begin, Meta, Parts, Faulty, Query, Open, OpenFailed,
       MetaServed, MetaFails, ReplyLost, OnMetaAccepted, OnMetaAlready, OnMetaFailed,
       PutStored, PutUnknown, PutFails, ReadFails, OnChunkPassed, OnChunkNotFound,
       OnChunkFailed, Complete, Crash, Finished, row, vars
  <2>2. CASE OnChunkPassed
    <3>1. rowSize' = rowSize + ReadSize /\ ReadSize \in Nat /\ rowSize \in Nat
      BY <2>2, <2>0, ReadSizeType, SizeAssumption DEF OnChunkPassed, Copy, TypeOK
    <3>2. QED
      BY <2>1, <3>1
  <2>3. CASE OnChunkNotFound
    BY <2>1, <2>3 DEF OnChunkNotFound
  <2>4. CASE ~OnChunkPassed /\ ~OnChunkNotFound
    <3>1. rowSize' = rowSize
      BY <1>1, <2>4 DEF Next, Begin, Meta, Parts, Faulty, Query, Open, OpenFailed,
         MetaServed, MetaFails, ReplyLost, OnMetaAccepted, OnMetaAlready, OnMetaFailed,
         PutStored, PutUnknown, PutFails, ReadFails, OnChunkFailed, Complete, Crash,
         ServerForgets, Finished, row, vars
    <3>2. rowSize \in Nat
      BY <2>0, SizeAssumption DEF TypeOK
    <3>3. QED
      BY <2>1, <3>1, <3>2
  <2>5. QED
    BY <2>2, <2>3, <2>4
<1>2. QED
  BY <1>1, CallInvariance, PTL DEF Spec, RowMovesOn

-----------------------------------------------------------------------------
\* With refusals coded 0 every step keeps the whole of IInv.
LEMMA IInvStep == RejectsWithZero /\ IInv /\ [Next]_vars => IInv'
<1> SUFFICES ASSUME RejectsWithZero, IInv, [Next]_vars PROVE IInv'
  OBVIOUS
<1>1. (\A id \in Ids : stored[id] <= fileSize)'
  BY ServerStep DEF Ids
<1>2. QED
  BY <1>1, TypeStep, CopyStep, ReadsStep, LeakStep, AnswersStep, PlaceStep, DoneStep,
     SavedStep, FinalStep DEF IInv, CallInv

\* With refusals coded 0 send_file and its server keep to IInv.
THEOREM Invariance == RejectsWithZero /\ Spec => []IInv
<1>1. SUFFICES ASSUME RejectsWithZero PROVE Spec => []IInv
  OBVIOUS
<1>2. IInv /\ [Next]_vars => IInv'
  BY <1>1, IInvStep
<1>3. QED
  BY <1>2, InitIInv, PTL DEF Spec

\* A file is Completed only when the server has got all its parts under one
\* id, each with the bytes of its place unless a call resumed that upload.
THEOREM Delivery == RejectsWithZero /\ Spec => []DoneIsReceived
BY Invariance, PTL DEF IInv, CallInv

\* The row is never ahead of the server.
THEOREM SavedBehindStored == RejectsWithZero /\ Spec => []SavedIsStored
BY Invariance, PTL DEF IInv, CallInv

\* "finally" reaches the server with the last byte, never before.
THEOREM FinallyComesLast == RejectsWithZero /\ Spec => []FinallyIsLast
BY Invariance, PTL DEF IInv, CallInv

-----------------------------------------------------------------------------
\* The first state of an upload is that of ResumableUpload.
LEMMA UploadInit == Init => Upload!Init
BY LimitAssumption DEF Init, Held, Whole, Received, Ids, NoId, Upload!Init

\* A part at the server holds more of the file; the file is whole once the
\* last part is there.
LEMMA PutHolds == RejectsWithZero /\ IInv /\ PutStored => Upload!Hold
<1> SUFFICES ASSUME RejectsWithZero, IInv, PutStored PROVE Upload!Hold
  OBVIOUS
<1>0. TypeOK /\ Copy /\ TypeOK'
  BY TypeStep DEF IInv, CallInv, Next, Parts
<1>1. /\ myId \in Ids /\ rowId = myId /\ rowState = "todo"
      /\ rowId' = rowId /\ rowSize' = rowSize /\ rowState' = rowState
  BY <1>0 DEF PutStored, Copy, row
<1>2. /\ fileSize' = fileSize
      /\ \A id \in Ids : stored[id] <= stored'[id] /\ stored'[id] <= fileSize
      /\ \A id \in Ids : Received(id) => Received(id)'
  BY ServerStep DEF Next, Parts
<1>3. Held = stored[myId] /\ Held' = stored'[myId]
  BY <1>1 DEF Held, Ids, NoId
<1>4. Held' \in Held .. fileSize
  BY <1>0, <1>1, <1>2, <1>3, SizeAssumption DEF TypeOK
<1>5. Whole => Whole'
  BY <1>2 DEF Whole, Ids
<1>6. ASSUME ~Whole, Whole' PROVE Held' = fileSize
  <2>1. PICK id \in Ids : Received(id)'
    BY <1>6 DEF Whole, Ids
  <2>2. id = myId
    <3>1. CASE id # myId
      <4>1. stored'[id] = stored[id] /\ (id \in final' => id \in final)
        BY <1>0, <1>1, <3>1 DEF PutStored, Store, TypeOK
      <4>2. Received(id)
        BY <1>2, <2>1, <4>1 DEF Received
      <4>3. QED
        BY <1>6, <4>2 DEF Whole
    <3>2. QED
      BY <3>1
  <2>3. QED
    BY <1>2, <1>3, <2>1, <2>2 DEF Received
<1>7. Whole' \in {Whole, Whole \/ Held' = fileSize}
  <2>1. Whole \in BOOLEAN /\ Whole' \in BOOLEAN
    BY DEF Whole
  <2>2. QED
    BY <1>5, <1>6, <2>1
<1>8. QED
  BY <1>1, <1>2, <1>4, <1>7 DEF Upload!Hold

\* Every step of send_file is a step of the upload or a stutter.
LEMMA UploadStep ==
  RejectsWithZero /\ IInv /\ [Next]_vars => [Upload!Next]_(Upload!vars)
<1> SUFFICES ASSUME RejectsWithZero, IInv, [Next]_vars
             PROVE  Upload!Next \/ UNCHANGED Upload!vars
  OBVIOUS
<1>0. /\ TypeOK /\ Copy /\ Answers /\ SavedIsStored
      /\ fileSize \in Nat
      /\ \A id \in Ids : stored[id] <= fileSize
  BY SizeAssumption DEF IInv, CallInv, TypeOK
<1>a. ASSUME UNCHANGED <<fileSize, row, stored, final>> PROVE UNCHANGED Upload!vars
  BY <1>a DEF row, Held, Whole, Received, Upload!vars
<1>b. ASSUME UNCHANGED <<fileSize, stored, final>> PROVE Whole' = Whole
  BY <1>b DEF Whole, Received
<1>1. CASE Begin
  BY <1>a, <1>1 DEF Begin, Query, Open, OpenFailed, server
<1>2. CASE MetaServed \/ OnMetaFailed
  BY <1>a, <1>2 DEF MetaServed, OnMetaFailed, server
<1>3. CASE OnMetaAccepted
  <2>1. /\ rowId = NoId /\ rowId' = issued /\ issued \in Ids
        /\ UNCHANGED <<fileSize, rowSize, rowState, stored, final>>
        /\ rowState # "done"
    BY <1>0, <1>3 DEF OnMetaAccepted, Copy, server
  <2>2. Held = 0 /\ Held' = stored[issued]
    BY <2>1 DEF Held, Ids, NoId
  <2>3. Held' \in Held .. fileSize
    BY <1>0, <2>1, <2>2 DEF TypeOK
  <2>4. QED
    BY <1>b, <2>1, <2>3 DEF Upload!Hold, Upload!Next
<1>4. CASE OnMetaAlready \/ Complete
  <2>1. /\ UNCHANGED <<fileSize, rowId, rowSize, stored, final>>
        /\ rowState = "todo" /\ rowState' = "done"
    BY <1>0, <1>4 DEF OnMetaAlready, Complete, Copy, server
  <2>2. Whole
    BY <1>0, <1>4 DEF OnMetaAlready, Complete, Answers, Copy, Whole
  <2>3. Held' = Held
    BY <2>1 DEF Held
  <2>4. QED
    BY <1>b, <2>1, <2>2, <2>3 DEF Upload!Finish, Upload!Next
<1>5. CASE PutStored
  BY <1>5, PutHolds DEF Upload!Next
<1>6. CASE PutUnknown \/ OnChunkFailed
  BY <1>a, <1>6 DEF PutUnknown, OnChunkFailed, server
<1>7. CASE OnChunkPassed
  <2>1. /\ reply = "ok" /\ rowState = "todo"
        /\ myId \in Ids /\ rowId = myId /\ offset = rowSize
        /\ UNCHANGED <<fileSize, rowId, rowState, stored, final>>
        /\ rowSize' = rowSize + ReadSize
        /\ rowSize + ReadSize <= stored[myId]
    BY <1>0, <1>7, PassedIsOk DEF OnChunkPassed, Answers, Copy, server
  <2>2. Held = stored[myId] /\ Held' = Held
    BY <2>1 DEF Held, Ids, NoId
  <2>3. rowSize' \in rowSize .. Held
    BY <1>0, <2>1, <2>2, ReadSizeType, SizeAssumption DEF TypeOK
  <2>4. QED
    BY <1>b, <2>1, <2>2, <2>3 DEF Upload!Claim, Upload!Next
<1>8. CASE OnChunkNotFound
  <2>1. /\ UNCHANGED <<fileSize, rowState, stored, final>>
        /\ rowState = "todo" /\ rowId' = NoId /\ rowSize' = 0
    BY <1>0, <1>8 DEF OnChunkNotFound, Copy, server
  <2>2. Held' = 0
    BY <2>1 DEF Held
  <2>3. QED
    BY <1>b, <2>1, <2>2 DEF Upload!StartOver, Upload!Next
<1>9. CASE Faulty
  BY <1>a, <1>9 DEF Faulty, MetaFails, ReplyLost, PutFails, ReadFails, Crash,
     ServerForgets, server
<1>10. CASE Finished \/ UNCHANGED vars
  BY <1>a, <1>10 DEF Finished, vars, row
<1>11. QED
  BY <1>1, <1>2, <1>3, <1>4, <1>5, <1>6, <1>7, <1>8, <1>9, <1>10
     DEF Next, Meta, Parts

\* send_file is a resumable upload: the row claims what the server holds, both
\* start over together, and done is done.
THEOREM UploadKept == RejectsWithZero /\ Spec => ImplementsUpload
<1>1. RejectsWithZero /\ Spec => Upload!Init /\ [][Upload!Next]_(Upload!vars)
  <2>1. SUFFICES ASSUME RejectsWithZero
                 PROVE  Spec => Upload!Init /\ [][Upload!Next]_(Upload!vars)
    OBVIOUS
  <2>2. IInv /\ [Next]_vars => [Upload!Next]_(Upload!vars)
    BY <2>1, UploadStep
  <2>3. Spec => []IInv
    BY <2>1, Invariance
  <2>4. QED
    BY <2>2, <2>3, UploadInit, PTL DEF Spec
<1>2. QED
  BY <1>1 DEF ImplementsUpload, Upload!Spec

-----------------------------------------------------------------------------
\* What is left of a call is less than a call of the whole file.
LEMMA StepsLeftType ==
  TypeOK => /\ fileSize \in Nat /\ WholeCall \in Nat
            /\ StepsLeft \in 1 .. WholeCall - 1
<1> SUFFICES ASSUME TypeOK
             PROVE  /\ fileSize \in Nat /\ WholeCall \in Nat
                    /\ StepsLeft \in 1 .. WholeCall - 1
  OBVIOUS
<1>1. /\ fileSize \in Nat /\ rowSize \in 0 .. fileSize /\ offset \in 0 .. fileSize
      /\ pc \in {"idle", "open", "meta", "metaReply", "chunk", "chunkReply", "complete"}
  BY SizeAssumption DEF TypeOK
<1>2. QED
  BY <1>1 DEF StepsLeft, WholeCall

\* And so it is after a step.
LEMMA StepsLeftNext ==
  TypeOK' => (/\ fileSize \in Nat /\ WholeCall \in Nat
              /\ StepsLeft \in 1 .. WholeCall - 1)'
BY StepsLeftType, PTL

\* Work is a number.
LEMMA WorkType == TypeOK => Work \in Nat
BY StepsLeftType DEF Work, Setback

\* While the row is not Completed, Work falls when less of a call is left and
\* no new obstacle stands in its way, or when one obstacle has gone and none
\* has come; one that comes costs no more than a call of the whole file.
LEMMA WorkChanges ==
  ASSUME TypeOK, TypeOK', UNCHANGED fileSize, rowState = "todo"
  PROVE  LET less == StepsLeft' < StepsLeft
             same == (TurnedDown' => TurnedDown) /\ (Forgotten' => Forgotten)
             gone == (TurnedDown /\ ~TurnedDown') \/ (Forgotten /\ ~Forgotten')
             one  == (TurnedDown' => TurnedDown) \/ (Forgotten' => Forgotten)
         IN  /\ same /\ (less \/ gone) => Work' < Work
             /\ same \/ (one /\ (less \/ StepsLeft' = StepsLeft)) => Work' <= Work + WholeCall
<1>1. WholeCall' = WholeCall
  BY DEF WholeCall
<1>2. /\ WholeCall \in Nat
      /\ StepsLeft \in 1 .. WholeCall - 1 /\ StepsLeft' \in 1 .. WholeCall - 1
  BY <1>1, StepsLeftType, StepsLeftNext
<1> DEFINE t == Setback(TurnedDown)
           f == Setback(Forgotten)
<1>3. /\ t \in {0, WholeCall} /\ t' \in {0, WholeCall}
      /\ (TurnedDown' => TurnedDown) => t' <= t
      /\ TurnedDown /\ ~TurnedDown' => t' < t
  BY <1>1, <1>2 DEF Setback
<1>4. /\ f \in {0, WholeCall} /\ f' \in {0, WholeCall}
      /\ (Forgotten' => Forgotten) => f' <= f
      /\ Forgotten /\ ~Forgotten' => f' < f
  BY <1>1, <1>2 DEF Setback
<1>5. Work = StepsLeft + t + f /\ Work' \in {0, StepsLeft' + t' + f'}
  BY DEF Work
<1> HIDE DEF t, f
<1>6. /\ t' <= t /\ f' <= f /\ (StepsLeft' < StepsLeft \/ t' < t \/ f' < f) => Work' < Work
      /\ t' <= t /\ f' <= f => Work' <= Work + WholeCall
      /\ (StepsLeft' < StepsLeft \/ StepsLeft' = StepsLeft) /\ (t' <= t \/ f' <= f)
           => Work' <= Work + WholeCall
  <2>1. PICK w, s, t1, f1 : w = WholeCall /\ s = StepsLeft /\ t1 = t /\ f1 = f
    OBVIOUS
  <2>2. PICK s2, t2, f2, sum2 : s2 = StepsLeft' /\ t2 = t' /\ f2 = f' /\ sum2 = Work'
    OBVIOUS
  <2>3. /\ w \in Nat /\ s \in 1 .. w - 1 /\ s2 \in 1 .. w - 1
        /\ t1 \in {0, w} /\ t2 \in {0, w} /\ f1 \in {0, w} /\ f2 \in {0, w}
        /\ sum2 \in {0, s2 + t2 + f2}
    BY <1>2, <1>3, <1>4, <1>5, <2>1, <2>2, Zenon
  <2>4. /\ t2 <= t1 /\ f2 <= f1 /\ (s2 < s \/ t2 < t1 \/ f2 < f1) => sum2 < s + t1 + f1
        /\ t2 <= t1 /\ f2 <= f1 => sum2 <= s + t1 + f1 + w
        /\ (s2 < s \/ s2 = s) /\ (t2 <= t1 \/ f2 <= f1) => sum2 <= s + t1 + f1 + w
    BY <2>3
  <2>5. QED
    BY <1>5, <2>1, <2>2, <2>4, Zenon
<1>7. QED
  BY <1>3, <1>4, <1>6

\* A step that is no fault leaves less to do.
LEMMA StepShrinks ==
  ASSUME RejectsWithZero, ErrorInfo(NotFoundAnswer) = NotFindFileId, IInv, [Next]_vars,
         Query \/ Open \/ Meta \/ Parts
  PROVE  Work' < Work
<1>0. TypeOK /\ TypeOK' /\ Copy /\ Answers /\ UNCHANGED fileSize
  BY TypeStep, ServerStep DEF IInv, CallInv
<1>a. /\ fileSize \in Nat /\ offset \in 0 .. fileSize /\ rowSize \in 0 .. fileSize
      /\ ReadSize \in Nat /\ offset + ReadSize \in 0 .. fileSize
      /\ WholeCall \in Nat
      /\ WholeCall = 2 * fileSize + 8
  BY <1>0, ReadSizeType, StepsLeftType, SizeAssumption DEF TypeOK, WholeCall
<1>b. ASSUME rowState = "todo", TurnedDown' => TurnedDown, Forgotten' => Forgotten,
             \/ StepsLeft' < StepsLeft
             \/ TurnedDown /\ ~TurnedDown'
             \/ Forgotten /\ ~Forgotten'
      PROVE  Work' < Work
  BY <1>0, <1>b, WorkChanges, Zenon
<1>c. ASSUME rowState = "todo", rowState' = "done" PROVE Work' < Work
  BY <1>0, <1>c, StepsLeftType DEF Work, Setback
<1>d. Query \/ Open \/ Meta \/ Parts => rowState = "todo"
  BY <1>0 DEF Query, Open, Meta, Parts, MetaServed, OnMetaAccepted, OnMetaAlready,
     OnMetaFailed, PutStored, PutUnknown, OnChunkPassed, OnChunkNotFound, OnChunkFailed,
     Complete, Copy
<1>1. CASE Query
  <2>1. StepsLeft' < StepsLeft
    <3>1. StepsLeft = 2 * (fileSize - rowSize) + 7
      BY <1>1 DEF Query, StepsLeft
    <3>2. StepsLeft' = 2 * (fileSize - rowSize) + 6
      BY <1>0, <1>1 DEF Query, StepsLeft
    <3>3. 2 * (fileSize - rowSize) + 6 < 2 * (fileSize - rowSize) + 7
      BY <1>a
    <3>4. QED
      BY <3>1, <3>2, <3>3, Zenon
  <2>2. (TurnedDown' => TurnedDown) /\ (Forgotten' => Forgotten)
    BY <1>1 DEF Query, TurnedDown, Forgotten, row, server
  <2>3. QED
    BY <1>1, <1>b, <1>d, <2>1, <2>2, Zenon
<1>2. CASE Open
  <2>1. StepsLeft' < StepsLeft
    <3>1. StepsLeft = 2 * (fileSize - offset) + 6
      BY <1>2 DEF Open, StepsLeft
    <3>2. StepsLeft' \in {2 * (fileSize - offset) + 5, 2 * (fileSize - offset) + 3}
      BY <1>0, <1>2 DEF Open, StepsLeft
    <3>3. /\ 2 * (fileSize - offset) + 5 < 2 * (fileSize - offset) + 6
          /\ 2 * (fileSize - offset) + 3 < 2 * (fileSize - offset) + 6
      BY <1>a
    <3>4. QED
      BY <3>1, <3>2, <3>3, Zenon
  <2>2. (TurnedDown' => TurnedDown) /\ (Forgotten' => Forgotten)
    BY <1>2 DEF Open, TurnedDown, Forgotten, row, server
  <2>3. QED
    BY <1>2, <1>b, <1>d, <2>1, <2>2, Zenon
<1>3. CASE MetaServed
  <2>1. StepsLeft' < StepsLeft
    <3>1. StepsLeft = 2 * (fileSize - offset) + 5
      BY <1>0, <1>3 DEF MetaServed, StepsLeft
    <3>2. StepsLeft' = 2 * (fileSize - offset) + 4
      BY <1>0, <1>3 DEF MetaServed, local, StepsLeft
    <3>3. 2 * (fileSize - offset) + 4 < 2 * (fileSize - offset) + 5
      BY <1>a
    <3>4. QED
      BY <3>1, <3>2, <3>3, Zenon
  <2>2. TurnedDown' => TurnedDown
    BY <1>3 DEF MetaServed, TurnedDown
  <2>3. Forgotten' => Forgotten
    BY <1>0, <1>3 DEF MetaServed, Forgotten, Copy, row
  <2>4. QED
    BY <1>3, <1>b, <1>d, <2>1, <2>2, <2>3, Zenon DEF Meta
<1>4. CASE OnMetaAccepted
  <2>1. StepsLeft' < StepsLeft
    <3>1. StepsLeft = 2 * (fileSize - offset) + 4
      BY <1>0, <1>4 DEF OnMetaAccepted, StepsLeft
    <3>2. StepsLeft' = 2 * (fileSize - offset) + 3
      BY <1>0, <1>4 DEF OnMetaAccepted, StepsLeft
    <3>3. 2 * (fileSize - offset) + 3 < 2 * (fileSize - offset) + 4
      BY <1>a
    <3>4. QED
      BY <3>1, <3>2, <3>3, Zenon
  <2>2. (TurnedDown' => TurnedDown) /\ (Forgotten' => Forgotten)
    BY <1>4 DEF OnMetaAccepted, TurnedDown, Forgotten, server
  <2>3. QED
    BY <1>4, <1>b, <1>d, <2>1, <2>2, Zenon DEF Meta
<1>5. CASE OnMetaAlready \/ Complete
  BY <1>0, <1>5, <1>c DEF OnMetaAlready, Complete, Copy
<1>6. CASE OnMetaFailed
  <2>1. TurnedDown /\ ~TurnedDown'
    BY <1>6 DEF OnMetaFailed, TurnedDown
  <2>2. Forgotten' => Forgotten
    BY <1>6 DEF OnMetaFailed, Forgotten, row, server
  <2>3. QED
    BY <1>6, <1>b, <1>d, <2>1, <2>2, Zenon DEF Meta
<1>7. CASE PutStored \/ PutUnknown
  <2>1. StepsLeft' < StepsLeft
    <3>1. StepsLeft = 2 * (fileSize - offset) + 3
      BY <1>0, <1>7 DEF PutStored, PutUnknown, StepsLeft
    <3>2. StepsLeft' = 2 * (fileSize - offset) + 2
      BY <1>0, <1>7 DEF PutStored, PutUnknown, StepsLeft
    <3>3. 2 * (fileSize - offset) + 2 < 2 * (fileSize - offset) + 3
      BY <1>a
    <3>4. QED
      BY <3>1, <3>2, <3>3, Zenon
  <2>2. TurnedDown' => TurnedDown
    BY <1>7 DEF PutStored, PutUnknown, TurnedDown
  <2>3. Forgotten' => Forgotten
    BY <1>0, <1>7 DEF PutStored, PutUnknown, Forgotten, Copy, row, server, Ids, NoId
  <2>4. QED
    BY <1>7, <1>b, <1>d, <2>1, <2>2, <2>3, Zenon DEF Parts
<1>8. CASE OnChunkPassed
  <2>1. StepsLeft' < StepsLeft
    <3>1. pc = "chunkReply" /\ offset' = offset + ReadSize
          /\ pc' = IF Finally THEN "complete" ELSE "chunk"
      BY <1>8 DEF OnChunkPassed
    <3>0. StepsLeft = 2 * (fileSize - offset) + 2
      BY <3>1 DEF StepsLeft
    <3>2. CASE Finally
      <4>1. StepsLeft' = 1
        BY <3>1, <3>2 DEF StepsLeft
      <4>2. 1 < 2 * (fileSize - offset) + 2
        BY <1>a
      <4>3. QED
        BY <3>0, <4>1, <4>2, Zenon
    <3>3. CASE ~Finally
      <4>1. ReadSize > 0
        BY <1>a, <3>3, SizeAssumption DEF Finally
      <4>2. StepsLeft' = 2 * (fileSize - (offset + ReadSize)) + 3
        BY <1>0, <3>1, <3>3 DEF StepsLeft
      <4>3. 2 * (fileSize - (offset + ReadSize)) + 3 < 2 * (fileSize - offset) + 2
        BY <1>a, <4>1
      <4>4. QED
        BY <3>0, <4>2, <4>3, Zenon
    <3>4. QED
      BY <3>2, <3>3
  <2>2. (TurnedDown' => TurnedDown) /\ (Forgotten' => Forgotten)
    BY <1>8 DEF OnChunkPassed, TurnedDown, Forgotten, server
  <2>3. QED
    BY <1>8, <1>b, <1>d, <2>1, <2>2, Zenon DEF Parts
<1>9. CASE OnChunkNotFound \/ OnChunkFailed
  <2>1. /\ pc = "chunkReply" /\ pc' = "idle" /\ rowState = "todo"
        /\ UNCHANGED server
        /\ rowId' \in {rowId, NoId}
    BY <1>0, <1>9 DEF OnChunkNotFound, OnChunkFailed, Close, Copy, row
  <2>2. ~TurnedDown'
    BY <2>1 DEF TurnedDown
  <2>3. Forgotten' => Forgotten
    BY <2>1 DEF Forgotten, server
  <2>4. CASE TurnedDown
    BY <1>b, <2>1, <2>2, <2>3, <2>4, Zenon
  <2>5. CASE ~TurnedDown
    <3>1. reply = "notFound"
      <4>1. reply \in {"ok", "notFound"}
        BY <1>0, <2>1, <2>5 DEF Answers, TurnedDown
      <4>2. reply # "ok"
        BY <1>9, ServerAssumption DEF OnChunkNotFound, OnChunkFailed, Passes, Wording
      <4>3. QED
        BY <4>1, <4>2
    <3>2. Forgotten
      BY <2>1, <3>1 DEF Forgotten
    <3>3. OnChunkNotFound
      BY <1>9, <3>1 DEF OnChunkFailed, SaysNotFound, Wording
    <3>4. ~Forgotten'
      BY <2>1, <3>3 DEF OnChunkNotFound, Forgotten
    <3>5. QED
      BY <1>b, <2>1, <2>2, <3>2, <3>4, Zenon
  <2>6. QED
    BY <2>4, <2>5
<1>10. QED
  BY <1>1, <1>2, <1>3, <1>4, <1>5, <1>6, <1>7, <1>8, <1>9 DEF Meta, Parts

\* A fault leaves at most a call more to do.
LEMMA FaultCosts == ASSUME IInv, [Next]_vars, Faulty PROVE Work' <= Work + WholeCall
<1>0. TypeOK /\ TypeOK' /\ Copy /\ UNCHANGED fileSize
  BY TypeStep, ServerStep DEF IInv, CallInv
<1>a. /\ fileSize \in Nat /\ offset \in 0 .. fileSize /\ rowSize \in 0 .. fileSize
      /\ WholeCall \in Nat
  BY <1>0, StepsLeftType, SizeAssumption DEF TypeOK
<1>b. UNCHANGED row
  BY DEF Faulty, MetaFails, ReplyLost, PutFails, ReadFails, Crash, ServerForgets
<1>1. CASE rowState # "todo"
  <2>1. Work = 0 /\ Work' = 0
    BY <1>b, <1>1 DEF Work, row
  <2>2. 0 <= 0 + WholeCall
    BY <1>a
  <2>3. QED
    BY <2>1, <2>2, Zenon
<1>2. ASSUME rowState = "todo",
             \/ (TurnedDown' => TurnedDown) /\ (Forgotten' => Forgotten)
             \/ /\ StepsLeft' < StepsLeft \/ StepsLeft' = StepsLeft
                /\ (TurnedDown' => TurnedDown) \/ (Forgotten' => Forgotten)
      PROVE  Work' <= Work + WholeCall
  BY <1>0, <1>2, WorkChanges, Zenon
<1>3. CASE rowState = "todo" /\ MetaFails
  <2>1. StepsLeft' < StepsLeft
    <3>1. StepsLeft = 2 * (fileSize - offset) + 5
      BY <1>3 DEF MetaFails, StepsLeft
    <3>2. StepsLeft' = 2 * (fileSize - offset) + 4
      BY <1>0, <1>3 DEF MetaFails, local, StepsLeft
    <3>3. 2 * (fileSize - offset) + 4 < 2 * (fileSize - offset) + 5
      BY <1>a
    <3>4. QED
      BY <3>1, <3>2, <3>3, Zenon
  <2>2. Forgotten' => Forgotten
    BY <1>b, <1>3 DEF MetaFails, Forgotten, row, server
  <2>3. QED
    BY <1>2, <1>3, <2>1, <2>2, Zenon
<1>4. CASE rowState = "todo" /\ PutFails
  <2>1. StepsLeft' < StepsLeft
    <3>1. StepsLeft = 2 * (fileSize - offset) + 3
      BY <1>4 DEF PutFails, StepsLeft
    <3>2. StepsLeft' = 2 * (fileSize - offset) + 2
      BY <1>0, <1>4 DEF PutFails, StepsLeft
    <3>3. 2 * (fileSize - offset) + 2 < 2 * (fileSize - offset) + 3
      BY <1>a
    <3>4. QED
      BY <3>1, <3>2, <3>3, Zenon
  <2>2. Forgotten' => Forgotten
    BY <1>b, <1>4 DEF PutFails, Forgotten, row, server
  <2>3. QED
    BY <1>2, <1>4, <2>1, <2>2, Zenon
<1>5. CASE rowState = "todo" /\ (ReadFails \/ Crash)
  <2>1. (TurnedDown' => TurnedDown) /\ (Forgotten' => Forgotten)
    BY <1>b, <1>5 DEF ReadFails, Crash, Close, TurnedDown, Forgotten, row, server
  <2>2. QED
    BY <1>2, <1>5, <2>1, Zenon
<1>6. CASE rowState = "todo" /\ ReplyLost
  <2>1. StepsLeft' = StepsLeft
    BY <1>0, <1>b, <1>6 DEF ReplyLost, StepsLeft, local, row
  <2>2. Forgotten' => Forgotten
    BY <1>b, <1>6 DEF ReplyLost, Forgotten, row, server
  <2>3. QED
    BY <1>2, <1>6, <2>1, <2>2, Zenon
<1>7. CASE rowState = "todo" /\ ServerForgets
  <2>1. StepsLeft' = StepsLeft
    BY <1>0, <1>b, <1>7 DEF ServerForgets, StepsLeft, local, row
  <2>2. TurnedDown' => TurnedDown
    BY <1>7 DEF ServerForgets, TurnedDown
  <2>3. QED
    BY <1>2, <1>7, <2>1, <2>2, Zenon
<1>8. QED
  BY <1>1, <1>3, <1>4, <1>5, <1>6, <1>7 DEF Faulty

\* A row is Completed after a number of steps that its file's length and the
\* faults bound, as long as the process has a handle to open the file with.
THEOREM EveryStepCounts == RejectsWithZero /\ Spec => WorkShrinks /\ [](Work \in Nat)
<1>1. SUFFICES ASSUME RejectsWithZero PROVE Spec => WorkShrinks /\ [](Work \in Nat)
  OBVIOUS
<1>2. IInv /\ [Next]_vars
        => [RejectsWithZero /\ ErrorInfo(NotFoundAnswer) = NotFindFileId =>
              /\ Query \/ Open \/ Meta \/ Parts => Work' < Work
              /\ Faulty => Work' <= Work + WholeCall]_vars
  BY <1>1, StepShrinks, FaultCosts
<1>3. IInv => Work \in Nat
  BY WorkType DEF IInv, CallInv
<1>4. Spec => []IInv
  BY <1>1, Invariance
<1>5. QED
  BY <1>2, <1>3, <1>4, PTL DEF Spec, WorkShrinks
=============================================================================
