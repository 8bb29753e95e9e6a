---------------------------- MODULE ReceiveBuffer ----------------------------
(***************************************************************************)
(* do_read and on_read of src/web-socket.h and buffer_, the one buffer of  *)
(* the client, which outlives its connections.                             *)
(*                                                                         *)
(* async_read appends a message to buffer_ as its fragments arrive; when   *)
(* it fails, those that have arrived stay there.  A byte is the pair of    *)
(* its message and its place in it.  The connection itself is the module   *)
(* WebSocketClient; here it is up while a read is outstanding.             *)
(***************************************************************************)
EXTENDS Integers, Sequences

CONSTANTS
  Sizes,        \* sizes a message may have
  MaxMessages   \* bound: messages the peer sends

ASSUME MessageAssumption == Sizes \subseteq Nat /\ MaxMessages \in Nat

VARIABLES
  reading,      \* an async_read is outstanding
  incoming,     \* the peer is sending a message
  message,      \* its number, or that of the last one
  size, got,    \* its size, and how much of it has arrived
  buffer,       \* buffer_
  closing,      \* is_closing_
  manager,      \* manager_.lock() succeeds
  heard,        \* the last message the Manager was given, and its content
  cut,          \* history: bytes of messages whose read failed
  late          \* history: messages of this connection given to the Manager
                \* after stop()

vars == <<reading, incoming, message, size, got, buffer, closing, manager, heard,
          cut, late>>

Byte == (1 .. MaxMessages) \X Nat

\* What the Manager was given, for message "of" of that size.
Heard == [of : 0 .. MaxMessages, size : Nat, content : Seq(Byte)]

TypeOK ==
  /\ reading \in BOOLEAN /\ incoming \in BOOLEAN
  /\ message \in 0 .. MaxMessages
  /\ size \in Nat /\ got \in 0 .. size
  /\ buffer \in Seq(Byte)
  /\ closing \in BOOLEAN /\ manager \in BOOLEAN
  /\ heard \in Heard
  /\ cut \in Nat /\ late \in Nat

Init ==
  /\ reading = FALSE /\ incoming = FALSE
  /\ message = 0 /\ size = 0 /\ got = 0
  /\ buffer = <<>>
  /\ closing = FALSE /\ manager = TRUE
  /\ heard = [of |-> 0, size |-> 0, content |-> <<>>]
  /\ cut = 0 /\ late = 0

\* on_handshake reads into the buffer as it is, after stop() too, until the
\* io_context is stopped.
Connected ==
  /\ ~reading
  /\ reading' = TRUE
  /\ late' = 0
  /\ UNCHANGED <<incoming, message, size, got, buffer, closing, manager, heard, cut>>

PeerSends ==
  /\ reading /\ ~incoming
  /\ message < MaxMessages
  /\ incoming' = TRUE
  /\ message' = message + 1
  /\ size' \in Sizes
  /\ UNCHANGED <<reading, got, buffer, closing, manager, heard, cut, late>>

\* Bytes from .. to of a message.
Bytes(m, from, to) == [i \in 1 .. to - from + 1 |-> <<m, from + i - 1>>]

\* A fragment, of any length, is committed to the buffer.
Arrive ==
  /\ reading /\ incoming
  /\ \E n \in 1 .. size - got :
       /\ got' = got + n
       /\ buffer' = buffer \o Bytes(message, got + 1, got + n)
  /\ UNCHANGED <<reading, incoming, message, size, closing, manager, heard, cut, late>>

\* The Manager is given all that is in the buffer.
Tell(content) ==
  /\ heard' = IF manager
              THEN [of |-> message, size |-> size, content |-> content] ELSE heard
  /\ late' = IF manager /\ closing THEN late + 1 ELSE late

\* buffer_.consume takes from the front.
Consume(n) == SubSeq(buffer, n + 1, Len(buffer))

\* Mutant: the message is consumed before it is handed over.
OnReadOk_ConsumesFirst ==
  /\ reading /\ incoming /\ got = size
  /\ Tell(Consume(size))
  /\ buffer' = Consume(size)
  /\ reading' = ~closing
  /\ incoming' = FALSE
  /\ got' = 0
  /\ UNCHANGED <<message, size, closing, manager, cut>>

\* Mutant: the line with consume is the one that is commented out.
OnReadOk_KeepsAll ==
  /\ reading /\ incoming /\ got = size
  /\ Tell(buffer)
  /\ reading' = ~closing
  /\ incoming' = FALSE
  /\ got' = 0
  /\ UNCHANGED <<message, size, buffer, closing, manager, cut>>

\* Mutant: it always reads on.
OnReadOk_ReadsOn ==
  /\ reading /\ incoming /\ got = size
  /\ Tell(buffer)
  /\ buffer' = Consume(size)
  /\ incoming' = FALSE
  /\ got' = 0
  /\ UNCHANGED <<reading, message, size, closing, manager, cut>>

\* bytes_transferred is the size of the message, whatever else the buffer holds.
\* is_closing_ is looked at after the callback, during which stop() may run.
OnReadOk ==
  /\ reading /\ incoming /\ got = size
  /\ Tell(buffer)
  /\ buffer' = Consume(size)
  /\ closing' \in {closing, TRUE}
  /\ reading' = ~closing'
  /\ incoming' = FALSE
  /\ got' = 0
  /\ UNCHANGED <<message, size, manager, cut>>

\* A close, a timeout, a socket that another connect has closed: what has
\* arrived of the message stays in the buffer.
OnReadFailed ==
  /\ reading
  /\ reading' = FALSE
  /\ incoming' = FALSE
  /\ got' = 0
  /\ cut' = cut + got
  /\ UNCHANGED <<message, size, buffer, closing, manager, heard, late>>

Stop ==
  /\ ~closing
  /\ closing' = TRUE
  /\ UNCHANGED <<reading, incoming, message, size, got, buffer, manager, heard, cut, late>>

ManagerGone ==
  /\ manager
  /\ manager' = FALSE
  /\ UNCHANGED <<reading, incoming, message, size, got, buffer, closing, heard, cut, late>>

Stopped ==
  /\ closing /\ ~reading
  /\ UNCHANGED vars

Next == Connected \/ PeerSends \/ Arrive \/ OnReadOk \/ OnReadFailed \/ Stop
        \/ ManagerGone \/ Stopped

Spec == Init /\ [][Next]_vars

-----------------------------------------------------------------------------
(* Safety.                                                                 *)

Prefix == Len(heard.content) - heard.size

\* However reads were cut off before, what the Manager is given ends with the
\* whole of the message, in order, and with nothing after it.
HeardEndsWithMessage ==
  /\ Prefix >= 0
  /\ \A i \in 1 .. heard.size : heard.content[Prefix + i] = <<heard.of, i>>

\* Before the message it is given as many bytes as were ever cut off, none if
\* every message arrived whole: a broken connection is never made good, and
\* nothing else goes wrong with the buffer.
PrefixIsCut == [][heard' # heard => Prefix' = cut]_vars

\* After stop(), on another thread, each connection still gives the Manager one
\* message at most: is_closing_ is looked at after the callback, and before the
\* next read (lines 291-301).
OneAfterStop == late <= 1

\* The bytes that were cut off, or others in their place, and then what has
\* arrived of the message.
BufferIsCutAndMessage ==
  /\ Len(buffer) = cut + got
  /\ \A i \in 1 .. got : buffer[cut + i] = <<message, i>>

Reads ==
  /\ incoming => reading /\ message \in 1 .. MaxMessages
  /\ ~incoming => got = 0
  /\ late = 1 => closing /\ ~reading

IInv ==
  /\ TypeOK
  /\ BufferIsCutAndMessage
  /\ Reads
  /\ HeardEndsWithMessage
  /\ OneAfterStop

-----------------------------------------------------------------------------
(* What a log line and a comment of the source say, and the code does not. *)

\* "Received: " the message: the Manager is given the message and nothing else.
HeardIsMessage ==
  heard.content = Bytes(heard.of, 1, heard.size)
=============================================================================
