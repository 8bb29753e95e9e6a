------------------------- MODULE ReceiveBufferProofs -------------------------
(***************************************************************************)
(* The invariants of ReceiveBuffer, for any sizes and number of messages,  *)
(* however they are cut into fragments and however often they are cut off. *)
(***************************************************************************)
EXTENDS ReceiveBuffer, SequenceTheorems, TLAPS

\* The n bytes of a message after the first g.
LEMMA BytesOfMessage ==
  ASSUME NEW m \in 1 .. MaxMessages, NEW g \in Nat, NEW n \in Nat
  PROVE  /\ Bytes(m, g + 1, g + n) \in Seq(Byte)
         /\ Len(Bytes(m, g + 1, g + n)) = n
         /\ \A i \in 1 .. n : Bytes(m, g + 1, g + n)[i] = <<m, g + i>>
<1>1. g + n - (g + 1) + 1 = n
  OBVIOUS
<1>2. \A i \in 1 .. n : g + 1 + i - 1 = g + i /\ <<m, g + i>> \in Byte
  BY MessageAssumption DEF Byte
<1>3. Bytes(m, g + 1, g + n) = [i \in 1 .. n |-> <<m, g + i>>]
  BY <1>1, <1>2 DEF Bytes
<1>4. [i \in 1 .. n |-> <<m, g + i>>] \in Seq(Byte)
  BY <1>2
<1>5. Len([i \in 1 .. n |-> <<m, g + i>>]) = n
  OBVIOUS
<1>6. QED
  BY <1>3, <1>4, <1>5

\* consume takes n bytes from the front and leaves the rest.
LEMMA ConsumeTakes ==
  ASSUME buffer \in Seq(Byte), NEW n \in 0 .. Len(buffer)
  PROVE  /\ Consume(n) \in Seq(Byte)
         /\ Len(Consume(n)) = Len(buffer) - n
<1>1. Len(buffer) \in Nat /\ \A i \in n + 1 .. Len(buffer) : buffer[i] \in Byte
  BY LenProperties
<1>2. QED
  BY <1>1, SubSeqProperties DEF Consume

\* The invariant holds before the first connection.
LEMMA InitIInv == Init => IInv
<1> SUFFICES ASSUME Init PROVE IInv
  OBVIOUS
<1>1. TypeOK
  <2>1. /\ message \in 0 .. MaxMessages /\ size \in Nat /\ got \in 0 .. size
        /\ cut \in Nat /\ late \in Nat /\ buffer \in Seq(Byte)
    BY MessageAssumption DEF Init
  <2>2. heard \in Heard
    BY MessageAssumption DEF Init, Heard
  <2>3. reading \in BOOLEAN /\ incoming \in BOOLEAN /\ closing \in BOOLEAN /\ manager \in BOOLEAN
    BY DEF Init
  <2>4. QED
    BY <2>1, <2>2, <2>3 DEF TypeOK
<1>2. BufferIsCutAndMessage /\ Reads
  BY DEF Init, BufferIsCutAndMessage, Reads
<1>3. HeardEndsWithMessage /\ OneAfterStop
  BY DEF Init, HeardEndsWithMessage, OneAfterStop, Prefix
<1>4. QED
  BY <1>1, <1>2, <1>3 DEF IInv

\* The end of a read, as the other lemmas need it.
LEMMA ReadEnds ==
  ASSUME IInv, OnReadOk
  PROVE  /\ size \in 0 .. Len(buffer)
         /\ Len(buffer) = cut + size
         /\ \A i \in 1 .. size : buffer[cut + i] = <<message, i>>
         /\ Consume(size) \in Seq(Byte)
         /\ Len(Consume(size)) = cut
<1>1. /\ Len(buffer) = cut + size
      /\ \A i \in 1 .. size : buffer[cut + i] = <<message, i>>
  BY DEF IInv, OnReadOk, BufferIsCutAndMessage
<1>2. size \in 0 .. Len(buffer) /\ cut \in Nat /\ size \in Nat
  BY <1>1 DEF IInv, TypeOK
<1>3. QED
  BY <1>1, <1>2, ConsumeTakes DEF IInv, TypeOK

\* Every step keeps the variables in their types.
LEMMA TypeStep == IInv /\ [Next]_vars => TypeOK'
<1> SUFFICES ASSUME IInv, [Next]_vars PROVE TypeOK'
  OBVIOUS
<1> USE DEF IInv, TypeOK
<1>1. CASE Connected
  <2>1. /\ reading' = TRUE /\ late' = 0
        /\ UNCHANGED <<incoming, message, size, got, buffer, closing, manager, heard, cut>>
    BY <1>1 DEF Connected
  <2>2. reading' \in BOOLEAN /\ late' \in Nat
    BY <2>1
  <2>3. QED
    BY <2>1, <2>2
<1>8. CASE Stop \/ ManagerGone
  BY <1>8 DEF Stop, ManagerGone
<1>2. CASE PeerSends
  BY <1>2, MessageAssumption DEF PeerSends, Reads
<1>3. CASE Arrive
  <2>1. PICK n \in 1 .. size - got :
          got' = got + n /\ buffer' = buffer \o Bytes(message, got + 1, got + n)
    BY <1>3 DEF Arrive
  <2>2. got' \in 0 .. size
    BY <2>1
  <2>3. Bytes(message, got + 1, got + n) \in Seq(Byte)
    <3>1. message \in 1 .. MaxMessages /\ got \in Nat /\ n \in Nat
      BY <1>3 DEF Arrive, Reads
    <3>2. QED
      BY <3>1, BytesOfMessage
  <2>4. buffer' \in Seq(Byte)
    BY <2>1, <2>3, ConcatProperties
  <2>5. QED
    BY <1>3, <2>2, <2>4 DEF Arrive
<1>4. CASE OnReadOk
  <2>1. buffer' \in Seq(Byte)
    BY <1>4, ReadEnds DEF OnReadOk
  <2>2. heard' \in Heard /\ late' \in Nat
    BY <1>4 DEF OnReadOk, Tell, Heard
  <2>3. closing' \in {closing, TRUE}
    BY <1>4 DEF OnReadOk
  <2>4. closing' \in BOOLEAN
    BY <2>3
  <2>5. reading' \in BOOLEAN /\ incoming' \in BOOLEAN
    BY <1>4, Zenon DEF OnReadOk
  <2>6. UNCHANGED <<message, size, manager, cut>> /\ got' = 0
    BY <1>4 DEF OnReadOk
  <2>7. QED
    BY <2>1, <2>2, <2>4, <2>5, <2>6
<1>5. CASE OnReadFailed
  <2>1. cut' \in Nat /\ got' \in 0 .. size'
    BY <1>5 DEF OnReadFailed
  <2>2. reading' = FALSE /\ incoming' = FALSE
    BY <1>5 DEF OnReadFailed
  <2>3. UNCHANGED <<message, size, buffer, closing, manager, heard, late>>
    BY <1>5 DEF OnReadFailed
  <2>4. QED
    BY <2>1, <2>2, <2>3
<1>6. CASE Stopped \/ UNCHANGED vars
  BY <1>6 DEF Stopped, vars
<1>7. QED
  BY <1>1, <1>2, <1>3, <1>4, <1>5, <1>6, <1>8 DEF Next

\* Fragments join what has arrived, a failed read leaves them, and consume
\* takes as much as the message brought.
LEMMA BufferStep == IInv /\ [Next]_vars => BufferIsCutAndMessage'
<1> SUFFICES ASSUME IInv, [Next]_vars PROVE BufferIsCutAndMessage'
  OBVIOUS
<1> USE DEF IInv, TypeOK, BufferIsCutAndMessage
<1>1. CASE Connected \/ Stop \/ ManagerGone
  BY <1>1 DEF Connected, Stop, ManagerGone
<1>2. CASE PeerSends
  BY <1>2 DEF PeerSends, Reads
<1>3. CASE Arrive
  <2>1. PICK n \in 1 .. size - got :
          got' = got + n /\ buffer' = buffer \o Bytes(message, got + 1, got + n)
    BY <1>3 DEF Arrive
  <2> DEFINE more == Bytes(message, got + 1, got + n)
  <2>2. /\ more \in Seq(Byte)
        /\ Len(more) = n
        /\ \A i \in 1 .. n : more[i] = <<message, got + i>>
    <3>1. message \in 1 .. MaxMessages
      BY <1>3 DEF Arrive, Reads
    <3>2. got \in Nat /\ n \in Nat
      OBVIOUS
    <3>3. QED
      BY <3>1, <3>2, BytesOfMessage
  <2>3. /\ Len(buffer') = cut + got + n
        /\ \A i \in 1 .. cut + got + n :
             buffer'[i] = IF i <= cut + got THEN buffer[i] ELSE more[i - (cut + got)]
    <3>1. /\ Len(buffer \o more) = Len(buffer) + Len(more)
          /\ \A i \in 1 .. Len(buffer) + Len(more) :
               (buffer \o more)[i]
                 = IF i <= Len(buffer) THEN buffer[i] ELSE more[i - Len(buffer)]
      BY <2>2, ConcatProperties
    <3>2. Len(buffer) = cut + got /\ Len(more) = n /\ buffer' = buffer \o more
      BY <2>1, <2>2
    <3> HIDE DEF more
    <3>3. QED
      BY <3>1, <3>2
  <2>4. ASSUME NEW i \in 1 .. got + n PROVE buffer'[cut + i] = <<message, i>>
    <3>1. CASE i <= got
      BY <2>3, <3>1
    <3>2. CASE i > got
      <4>1. i - got \in 1 .. n /\ cut + i - (cut + got) = i - got /\ ~(cut + i <= cut + got)
            /\ cut + i \in 1 .. cut + got + n
        BY <3>2
      <4>2. more[i - got] = <<message, got + (i - got)>>
        BY <2>2, <4>1
      <4>3. got + (i - got) = i
        OBVIOUS
      <4>4. buffer'[cut + i] = more[i - got]
        BY <2>3, <4>1
      <4>5. QED
        BY <4>2, <4>3, <4>4
    <3>3. QED
      BY <3>1, <3>2
  <2>5. UNCHANGED <<cut, message>> /\ got' = got + n
    BY <1>3, <2>1 DEF Arrive
  <2>6. Len(buffer') = cut + (got + n)
    BY <2>3
  <2>7. QED
    BY <2>4, <2>5, <2>6
<1>4. CASE OnReadOk
  <2>1. buffer' = Consume(size) /\ got' = 0 /\ cut' = cut
    BY <1>4 DEF OnReadOk
  <2>2. Len(Consume(size)) = cut
    BY <1>4, ReadEnds
  <2>3. QED
    BY <2>1, <2>2
<1>5. CASE OnReadFailed
  BY <1>5 DEF OnReadFailed
<1>6. CASE Stopped \/ UNCHANGED vars
  BY <1>6 DEF Stopped, vars
<1>7. QED
  BY <1>1, <1>2, <1>3, <1>4, <1>5, <1>6 DEF Next

\* Only the end of a read gives the Manager anything, and it gives all.
LEMMA HeardStep == IInv /\ [Next]_vars => HeardEndsWithMessage'
<1> SUFFICES ASSUME IInv, [Next]_vars PROVE HeardEndsWithMessage'
  OBVIOUS
<1>1. CASE OnReadOk /\ manager
  <2>1. heard' = [of |-> message, size |-> size, content |-> buffer]
    BY <1>1 DEF OnReadOk, Tell
  <2>2. Prefix' = cut
    BY <1>1, <2>1, ReadEnds DEF Prefix, IInv, TypeOK
  <2>3. QED
    BY <1>1, <2>1, <2>2, ReadEnds DEF HeardEndsWithMessage, IInv, TypeOK
<1>2. CASE UNCHANGED heard
  BY <1>2 DEF IInv, HeardEndsWithMessage, Prefix
<1>3. QED
  BY <1>1, <1>2 DEF Next, Connected, PeerSends, Arrive, OnReadOk, Tell, OnReadFailed, Stop,
     ManagerGone, Stopped, vars

\* Whatever is heard late is the last thing that is read.
LEMMA LateStep == IInv /\ [Next]_vars => (Reads /\ OneAfterStop)'
<1> SUFFICES ASSUME IInv, [Next]_vars PROVE Reads' /\ OneAfterStop'
  OBVIOUS
<1> USE DEF IInv, TypeOK, Reads, OneAfterStop
<1>1. CASE Connected \/ Stop \/ ManagerGone
  BY <1>1 DEF Connected, Stop, ManagerGone
<1>2. CASE PeerSends
  BY <1>2, MessageAssumption DEF PeerSends
<1>3. CASE Arrive
  BY <1>3 DEF Arrive
<1>4. CASE OnReadOk
  <2>1. late = 0
    BY <1>4 DEF OnReadOk
  <2>2. incoming' = FALSE /\ got' = 0 /\ (closing' => ~reading')
    BY <1>4, Zenon DEF OnReadOk
  <2>3. late' = 0 \/ (late' = 1 /\ closing)
    BY <1>4, <2>1 DEF OnReadOk, Tell
  <2>4. closing' \in {closing, TRUE}
    BY <1>4 DEF OnReadOk
  <2>5. closing => closing'
    BY <2>4
  <2>6. late' = 1 => closing' /\ ~reading'
    BY <2>2, <2>3, <2>5
  <2>7. Reads'
    BY <2>2, <2>6
  <2>8. OneAfterStop'
    BY <2>3
  <2>9. QED
    BY <2>7, <2>8
<1>5. CASE OnReadFailed
  BY <1>5 DEF OnReadFailed
<1>6. CASE Stopped \/ UNCHANGED vars
  BY <1>6 DEF Stopped, vars
<1>7. QED
  BY <1>1, <1>2, <1>3, <1>4, <1>5, <1>6 DEF Next

\* The buffer keeps to IInv over all its connections.
THEOREM Invariance == Spec => []IInv
<1>1. IInv /\ [Next]_vars => IInv'
  BY TypeStep, BufferStep, HeardStep, LateStep DEF IInv
<1>2. QED
  BY InitIInv, <1>1, PTL DEF Spec

\* The message itself is never lost, truncated or reordered.
THEOREM MessageIsHeard == Spec => []HeardEndsWithMessage
BY Invariance, PTL DEF IInv

\* After a stop a connection lets one message through at most (web-socket.h 300).
THEOREM StopIsHeeded == Spec => []OneAfterStop
BY Invariance, PTL DEF IInv

\* What stands before a message is as long as all that was ever cut off.
THEOREM PrefixIsWhatWasCut == Spec => PrefixIsCut
<1>1. IInv /\ [Next]_vars => [heard' # heard => Prefix' = cut]_vars
  <2> SUFFICES ASSUME IInv, Next, heard' # heard PROVE Prefix' = cut
    BY DEF vars
  <2>1. OnReadOk /\ heard' = [of |-> message, size |-> size, content |-> buffer]
    BY DEF Next, Connected, PeerSends, Arrive, OnReadOk, Tell, OnReadFailed, Stop,
       ManagerGone, Stopped, vars
  <2>2. QED
    BY <2>1, ReadEnds DEF Prefix, IInv, TypeOK
<1>2. QED
  BY <1>1, Invariance, PTL DEF Spec, PrefixIsCut
=============================================================================
