-------------------------- MODULE WebSocketClient --------------------------
(***************************************************************************)
(* The client of src/web-socket.h: one io_context, one websocket stream,  *)
(* a heartbeat timer and a reconnect timer, and a weakly held Manager that *)
(* is told of connections, messages and errors.                            *)
(*                                                                         *)
(* An action is one completion handler run by ioc_.run(), or one step of   *)
(* stop(), which another thread may interleave with the handlers; one that *)
(* runs when stop() returns is still finished.  Time is discrete: Tick     *)
(* lets a second pass once every queued handler has run.                   *)
(* An operation that the stream aborts because do_connect closes its       *)
(* socket is counted in "killed" until its handler has run, a heartbeat    *)
(* wait that is aborted in "hbAborted".  The io_context runs handlers in   *)
(* the order they were queued, so the former run before the new connection *)
(* makes progress.                                                         *)
(***************************************************************************)
EXTENDS Integers

CONSTANTS
  Scheme,           \* "ws" or "wss": the scheme of the url
  HeartbeatPeriod,  \* start_heartbeat waits this long (5 s)
  ReconnectDelay,   \* handle_error waits this long (5 s)
  WriteTimeout,     \* write gives the stream this long (2 s)
  MaxResolves,      \* bound: lookups that may be outstanding together
  MaxSuspended,     \* bound: writes while a close is under way
  MaxAppWrites      \* bound: calls of write() by the application

ASSUME SchemeAssumption == Scheme \in {"ws", "wss"}
ASSUME TimingAssumption ==
  /\ HeartbeatPeriod \in Nat \ {0}
  /\ ReconnectDelay \in Nat \ {0}
  /\ WriteTimeout \in Nat
  /\ WriteTimeout < HeartbeatPeriod
ASSUME BoundsAssumption ==
  /\ MaxResolves \in Nat \ {0}
  /\ MaxSuspended \in Nat \ {0}
  /\ MaxAppWrites \in Nat

VARIABLES
  loop,          \* where start() and stop() are; see Handling and IsClosing
  resolves,      \* async_resolve operations outstanding
  stage,         \* what the stream is doing
  reading,       \* an async_read is outstanding
  writes,        \* async_write operations the stream has accepted
  writeLeft,     \* time left to the oldest of them, or Off
  killed,        \* operations aborted by do_connect, handler not yet run
  refused,       \* writes on a stream that is not open, handler not yet run
  heartbeat,     \* time left of heartbeat_timer_, or Off
  hbFired,       \* its handler is queued, without error
  hbAborted,     \* its handlers queued with operation_aborted
  reconnect,     \* time left of reconnect_timer_, or Off
  rcFired,       \* its handler is queued, without error
  manager,       \* manager_.lock() succeeds
  view,          \* the last state of the connection the Manager was told
  sinceAttempt,  \* history: time since the last do_resolve, capped
  appWrites      \* history: calls of write() by the application

ops    == <<writes, writeLeft, killed, refused>>
stream == <<stage, reading, ops>>
beat   == <<heartbeat, hbFired, hbAborted>>
clocks == <<beat, reconnect, rcFired>>
host   == <<manager, sinceAttempt, appWrites>>
env    == <<loop, host>>
vars == <<loop, resolves, stage, reading, writes, writeLeft, killed, refused,
          heartbeat, hbFired, hbAborted, reconnect, rcFired, manager, view,
          sinceAttempt, appWrites>>

Off == -1
Clock(max) == {Off} \cup (0 .. max)
Bit(b) == IF b THEN 1 ELSE 0

\* "handshakeClosing": a close has been sent during the websocket handshake.
Stages == {"idle", "connect", "ssl", "handshake", "handshakeClosing", "open", "closing"}
StopSteps == {"flagged", "rcCancelled", "hbCancelled", "closeSent"}

TypeOK ==
  /\ loop \in {"new", "running", "returned", "stopped"} \cup StopSteps
  /\ resolves \in Nat
  /\ stage \in Stages
  /\ reading \in BOOLEAN
  /\ writes \in Nat
  /\ writeLeft \in Clock(WriteTimeout)
  /\ killed \in Nat
  /\ refused \in Nat
  /\ heartbeat \in Clock(HeartbeatPeriod)
  /\ hbFired \in BOOLEAN
  /\ hbAborted \in Nat
  /\ reconnect \in Clock(ReconnectDelay)
  /\ rcFired \in BOOLEAN
  /\ manager \in BOOLEAN
  /\ view \in {"none", "up", "failed"}
  /\ sinceAttempt \in 0 .. ReconnectDelay
  /\ appWrites \in Nat

Init ==
  /\ loop = "new"
  /\ resolves = 0
  /\ stage = "idle"
  /\ reading = FALSE
  /\ writes = 0
  /\ writeLeft = Off
  /\ killed = 0
  /\ refused = 0
  /\ heartbeat = Off
  /\ hbFired = FALSE
  /\ hbAborted = 0
  /\ reconnect = Off
  /\ rcFired = FALSE
  /\ manager = TRUE
  /\ view = "none"
  /\ sinceAttempt = 0
  /\ appWrites = 0

IsClosing == loop \notin {"new", "running"}

\* run() waits for the next handler.
Looping == loop \notin {"new", "returned", "stopped"}

\* It runs one: the last one, if stop() has returned meanwhile.
Handling ==
  /\ loop \notin {"new", "stopped"}
  /\ loop' = IF loop = "returned" THEN "stopped" ELSE loop

-----------------------------------------------------------------------------
(* What the handlers share.                                                *)

\* The Manager hears on_connect ("up") or on_error, on_disconnect ("failed"),
\* if it still exists.
Tell(news) == view' = IF manager THEN news ELSE view

\* async_close on a stream in stage s: the stream only fails it when it knows to
\* be closed.  A second one waits behind the first.
DoClose(s) ==
  CASE s = "open"      -> "closing"
    [] s = "handshake" -> "handshakeClosing"
    [] OTHER           -> s

\* Mutants: the delay one short, none, or no reconnection scheduled at all.
HandleError_Early(s) ==
  /\ stage' = DoClose(s)
  /\ reconnect' = ReconnectDelay - 1
HandleError_AtOnce(s) ==
  /\ stage' = DoClose(s)
  /\ reconnect' = 0
HandleError_NoTimer(s) ==
  /\ stage' = DoClose(s)
  /\ UNCHANGED reconnect

\* handle_error, for a stream the failure left in stage s.  expires_after
\* aborts the pending reconnect wait, whose handler only logs.
HandleError(s) ==
  /\ stage' = DoClose(s)
  /\ reconnect' = ReconnectDelay

\* Mutant: pings as far apart as one write may take.
StartHeartbeat_TooSoon ==
  /\ heartbeat' = WriteTimeout
  /\ hbAborted' = hbAborted + Bit(heartbeat # Off)

\* expires_after aborts a pending heartbeat wait, whose handler is not silent.
StartHeartbeat ==
  /\ heartbeat' = HeartbeatPeriod
  /\ hbAborted' = hbAborted + Bit(heartbeat # Off)

DoResolve ==
  /\ resolves' = resolves + 1
  /\ sinceAttempt' = 0

\* write: accepted on an open stream and, since the websocket stream only
\* rejects what it knows to be closed, during its handshake; held back by a
\* close that is under way; refused otherwise.  A pending write keeps its
\* own deadline.
Write ==
  \/ /\ stage \in {"open", "handshake"}
     /\ writes' = writes + 1
     /\ writeLeft' = IF writes = 0 THEN WriteTimeout ELSE writeLeft
     /\ UNCHANGED refused
  \/ /\ stage \in {"closing", "handshakeClosing"}
     /\ writes < MaxSuspended
     /\ writes' = writes + 1
     /\ UNCHANGED <<writeLeft, refused>>
  \/ /\ stage \in {"idle", "connect", "ssl"}
     /\ refused' = refused + 1
     /\ UNCHANGED <<writes, writeLeft>>

\* Mutant: the Manager is not looked up before the ping.
DoPing_Unchecked == Write

DoPing ==
  \/ manager /\ Write
  \/ ~manager /\ UNCHANGED <<writes, writeLeft, refused>>

\* Mutant: a connect that leaves what was using the stream pending for ever.
DoConnect_Forgets ==
  /\ stage' = "connect"
  /\ reading' = FALSE
  /\ writes' = 0
  /\ writeLeft' = Off
  /\ UNCHANGED <<killed, refused, view>>

\* async_connect closes the socket first: whatever was using it is aborted.
\* An aborted close or SSL handshake only reports an error; an aborted
\* connect, handshake, read or write goes through handle_error.
DoConnect ==
  /\ stage' = "connect"
  /\ killed' = killed + Bit(stage \in {"connect", "handshake", "handshakeClosing"})
                      + Bit(reading) + writes
  /\ reading' = FALSE
  /\ writes' = 0
  /\ writeLeft' = Off
  /\ IF stage \in {"ssl", "closing", "handshakeClosing"} THEN Tell("failed") ELSE UNCHANGED view
  /\ UNCHANGED refused

-----------------------------------------------------------------------------
(* Connecting.                                                             *)

Start ==
  /\ loop = "new"
  /\ loop' = "running"
  /\ DoResolve
  /\ StartHeartbeat
  /\ UNCHANGED <<stream, hbFired, reconnect, rcFired, manager, view,
                 appWrites>>

OnResolveOk ==
  /\ Handling
  /\ resolves > 0
  /\ resolves' = resolves - 1
  /\ DoConnect
  /\ UNCHANGED <<clocks, host>>

OnResolveFailed ==
  /\ Handling
  /\ resolves > 0
  /\ resolves' = resolves - 1
  /\ Tell("failed")
  /\ HandleError(stage)
  /\ UNCHANGED <<reading, ops, beat, rcFired, host>>

\* The second alternative is do_ssl_handshake failing to set the host name.
OnConnectOk ==
  /\ Handling
  /\ stage = "connect"
  /\ killed = 0
  /\ \/ /\ stage' = IF Scheme = "ws" THEN "handshake" ELSE "ssl"
        /\ UNCHANGED view
     \/ /\ Scheme = "wss"
        /\ stage' = "idle"
        /\ Tell("failed")
  /\ UNCHANGED <<resolves, reading, ops, clocks, host>>

\* on_ssl_handshake reports a failure and does not call handle_error.
OnSslHandshake ==
  /\ Handling
  /\ stage = "ssl"
  /\ killed = 0
  /\ \/ stage' = "handshake" /\ UNCHANGED view
     \/ stage' = "idle" /\ Tell("failed")
  /\ UNCHANGED <<resolves, reading, ops, clocks, host>>

\* A close sent meanwhile is still to be answered.
OnHandshakeOk ==
  /\ Handling
  /\ stage \in {"handshake", "handshakeClosing"}
  /\ killed = 0
  /\ stage' = IF stage = "handshake" THEN "open" ELSE "closing"
  /\ reading' = TRUE
  /\ Tell("up")
  /\ UNCHANGED <<resolves, ops, clocks, host>>

\* on_connect or on_handshake with an error: report it and handle_error.
OnSetupFailed ==
  /\ Handling
  /\ stage \in {"connect", "handshake", "handshakeClosing"}
  /\ killed = 0
  /\ Tell("failed")
  /\ HandleError("idle")
  /\ UNCHANGED <<resolves, reading, ops, beat, rcFired, host>>

-----------------------------------------------------------------------------
(* The connection at work.                                                 *)

\* Mutant: the next read is forgotten.
OnReadOk_ReadsOnce ==
  /\ Handling
  /\ reading
  /\ stage \in {"open", "closing"}
  /\ reading' = FALSE
  /\ UNCHANGED <<resolves, stage, ops, clocks, view, host>>

\* A message arrives; the next read is started unless stop() was called.
OnReadOk ==
  /\ Handling
  /\ reading
  /\ stage \in {"open", "closing"}
  /\ reading' = ~IsClosing
  /\ UNCHANGED <<resolves, stage, ops, clocks, view, host>>

\* What a failed read or write leaves of the stream.
Broken ==
  IF stage \in {"open", "closing", "handshake", "handshakeClosing"} THEN "idle" ELSE stage

\* error::closed and every other error end the same way.
OnReadFailed ==
  /\ Handling
  /\ reading
  /\ reading' = FALSE
  /\ Tell("failed")
  /\ HandleError(Broken)
  /\ UNCHANGED <<resolves, ops, beat, rcFired, host>>

WriteDone ==
  /\ writes > 0
  /\ writes' = writes - 1
  /\ writeLeft' = IF writes = 1 THEN Off ELSE writeLeft

OnWriteOk ==
  /\ Handling
  /\ stage \in {"open", "closing", "handshake", "handshakeClosing"}
  /\ WriteDone
  /\ UNCHANGED <<resolves, stage, reading, killed, refused, clocks, view, host>>

\* The stream has failed; a handshake under way on it fails too.
OnWriteFailed ==
  /\ Handling
  /\ WriteDone
  /\ Tell("failed")
  /\ HandleError(Broken)
  /\ killed' = killed + Bit(stage \in {"handshake", "handshakeClosing"})
  /\ UNCHANGED <<resolves, reading, refused, beat, rcFired, host>>

\* The closing handshake ends, gracefully or not; on_close never reconnects.  A
\* handshake the stream was in fails with it.
OnClose ==
  /\ Handling
  /\ stage \in {"closing", "handshakeClosing"}
  /\ stage' = "idle"
  /\ UNCHANGED view \/ Tell("failed")
  /\ killed' = killed + Bit(stage = "handshakeClosing")
  /\ UNCHANGED <<resolves, reading, writes, writeLeft, refused, clocks, host>>

\* The handler of an operation that do_connect aborted.
OnAborted ==
  /\ Handling
  /\ killed > 0
  /\ killed' = killed - 1
  /\ Tell("failed")
  /\ HandleError(stage)
  /\ UNCHANGED <<resolves, reading, writes, writeLeft, refused, beat, rcFired,
                 host>>

\* Mutant: the refusal is reported, and that is all.
OnRefused_OnlyReports ==
  /\ Handling
  /\ refused > 0
  /\ refused' = refused - 1
  /\ Tell("failed")
  /\ UNCHANGED <<resolves, stage, reading, writes, writeLeft, killed, clocks,
                 host>>

\* on_write for a write on a stream that was not open.
OnRefused ==
  /\ Handling
  /\ refused > 0
  /\ refused' = refused - 1
  /\ Tell("failed")
  /\ HandleError(stage)
  /\ UNCHANGED <<resolves, reading, writes, writeLeft, killed, beat, rcFired,
                 host>>

-----------------------------------------------------------------------------
(* The two timers.                                                         *)

ExpireHeartbeat ==
  /\ Looping
  /\ heartbeat = 0
  /\ heartbeat' = Off
  /\ hbFired' = TRUE
  /\ UNCHANGED <<resolves, stream, hbAborted, reconnect, rcFired, view, env>>

\* Mutant: the heartbeat is not restarted.
OnHeartbeat_Once ==
  /\ Handling
  /\ hbFired
  /\ hbFired' = FALSE
  /\ DoPing
  /\ UNCHANGED <<resolves, stage, reading, killed, heartbeat, hbAborted,
                 reconnect, rcFired, view, host>>

OnHeartbeat ==
  /\ Handling
  /\ hbFired
  /\ hbFired' = FALSE
  /\ DoPing
  /\ StartHeartbeat
  /\ UNCHANGED <<resolves, stage, reading, killed, reconnect, rcFired, view,
                 host>>

OnHeartbeatAborted ==
  /\ Handling
  /\ hbAborted > 0
  /\ hbAborted' = hbAborted - 1
  /\ Tell("failed")
  /\ HandleError(stage)
  /\ UNCHANGED <<resolves, reading, ops, heartbeat, hbFired, rcFired, host>>

ExpireReconnect ==
  /\ Looping
  /\ reconnect = 0
  /\ reconnect' = Off
  /\ rcFired' = TRUE
  /\ UNCHANGED <<resolves, stream, beat, view, env>>

OnReconnect ==
  /\ Handling
  /\ rcFired
  /\ resolves < MaxResolves
  /\ rcFired' = FALSE
  /\ DoResolve
  /\ StartHeartbeat
  /\ UNCHANGED <<stream, hbFired, reconnect, manager, view, appWrites>>

\* A second passes.  Nothing is queued, and no write outlives its deadline.
Tick ==
  /\ Looping
  /\ killed = 0 /\ refused = 0 /\ hbAborted = 0
  /\ ~hbFired /\ ~rcFired
  /\ heartbeat # 0 /\ reconnect # 0 /\ writeLeft # 0
  /\ heartbeat' = IF heartbeat = Off THEN Off ELSE heartbeat - 1
  /\ reconnect' = IF reconnect = Off THEN Off ELSE reconnect - 1
  /\ writeLeft' = IF writeLeft = Off THEN Off ELSE writeLeft - 1
  /\ sinceAttempt' = IF sinceAttempt < ReconnectDelay
                     THEN sinceAttempt + 1 ELSE sinceAttempt
  /\ UNCHANGED <<loop, resolves, stage, reading, writes, killed, refused,
                 hbFired, hbAborted, rcFired, manager, view, appWrites>>

-----------------------------------------------------------------------------
(* The application.                                                        *)

AppWrite ==
  /\ Looping
  /\ appWrites < MaxAppWrites
  /\ appWrites' = appWrites + 1
  /\ Write
  /\ UNCHANGED <<loop, resolves, stage, reading, killed, clocks, manager, view,
                 sinceAttempt>>

ManagerGone ==
  /\ manager
  /\ manager' = FALSE
  /\ UNCHANGED <<loop, resolves, stream, clocks, view, sinceAttempt,
                 appWrites>>

\* stop(), one call at a time.
StopFlag ==
  /\ loop = "running"
  /\ loop' = "flagged"
  /\ UNCHANGED <<resolves, stream, clocks, view, host>>

StopReconnect ==
  /\ loop = "flagged"
  /\ loop' = "rcCancelled"
  /\ reconnect' = Off
  /\ UNCHANGED <<resolves, stream, beat, rcFired, view, host>>

StopHeartbeat ==
  /\ loop = "rcCancelled"
  /\ loop' = "hbCancelled"
  /\ heartbeat' = Off
  /\ hbAborted' = hbAborted + Bit(heartbeat # Off)
  /\ UNCHANGED <<resolves, stream, hbFired, reconnect, rcFired, view, host>>

StopClose ==
  /\ loop = "hbCancelled"
  /\ loop' = "closeSent"
  /\ stage' = DoClose(stage)
  /\ UNCHANGED <<resolves, reading, ops, clocks, view, host>>

StopLoop ==
  /\ loop = "closeSent"
  /\ loop' = "returned"
  /\ UNCHANGED <<resolves, stream, clocks, view, host>>

\* run() finds the io_context stopped, and no handler is running.
RunReturns ==
  /\ loop = "returned"
  /\ loop' = "stopped"
  /\ UNCHANGED <<resolves, stream, clocks, view, host>>

Stopped ==
  /\ loop = "stopped"
  /\ UNCHANGED vars

-----------------------------------------------------------------------------
Network ==
  \/ OnResolveOk \/ OnResolveFailed
  \/ OnConnectOk \/ OnSslHandshake \/ OnHandshakeOk \/ OnSetupFailed
  \/ OnReadOk \/ OnReadFailed
  \/ OnWriteOk \/ OnWriteFailed
  \/ OnClose
Queued == OnAborted \/ OnRefused \/ OnHeartbeatAborted
Timers ==
  \/ ExpireHeartbeat \/ OnHeartbeat
  \/ ExpireReconnect \/ OnReconnect
  \/ Tick
Application ==
  \/ Start \/ AppWrite \/ ManagerGone
  \/ StopFlag \/ StopReconnect \/ StopHeartbeat \/ StopClose \/ StopLoop
  \/ RunReturns \/ Stopped

Next == Network \/ Queued \/ Timers \/ Application

Spec == Init /\ [][Next]_vars

\* run() keeps running what is queued, a lookup, a write and a closing
\* handshake end within their time limits, and time passes.  Nothing makes
\* the peer send, the application write or anyone call stop().
Fairness ==
  /\ WF_vars(OnResolveOk \/ OnResolveFailed)
  /\ WF_vars(OnConnectOk \/ OnSslHandshake \/ OnHandshakeOk \/ OnSetupFailed)
  /\ WF_vars(OnWriteOk \/ OnWriteFailed)
  /\ WF_vars(OnClose)
  /\ WF_vars(OnAborted) /\ WF_vars(OnRefused) /\ WF_vars(OnHeartbeatAborted)
  /\ WF_vars(ExpireHeartbeat) /\ WF_vars(OnHeartbeat)
  /\ WF_vars(ExpireReconnect) /\ WF_vars(OnReconnect)
  /\ WF_vars(Tick)

FairSpec == Spec /\ Fairness
-----------------------------------------------------------------------------
(* Safety.                                                                 *)

Running == loop = "running"

\* run() never returns by itself and the connection is never left unwatched:
\* until stop() is called a heartbeat wait is pending or its handler queued,
\* although reconnecting restarts the same timer (start_heartbeat).
HeartbeatAlive == Running => heartbeat # Off \/ hbFired

\* However lookups, connects and failures overlap, a running ws:// client
\* always has something under way that ends in a connection being read or in
\* another attempt (every path into handle_error, and do_read after on_read).
RecoveryPending ==
  Scheme = "ws" /\ Running =>
    \/ resolves > 0
    \/ stage \in {"connect", "handshake", "handshakeClosing"}
    \/ killed > 0
    \/ reading
    \/ reconnect # Off
    \/ rcFired

\* write() keeps no queue, and a second async_write before the first one ends is
\* an error: the 2 s deadline against the 5 s period keeps the pings of an
\* application that never writes (main.cpp) apart from the connect on, whatever
\* restarts the heartbeat, until the client sends a close.  Behind a close that
\* waits for the peer, or for the read, the pings do queue up.
PingsApartUntilClose ==
  MaxAppWrites = 0 /\ stage \in {"connect", "ssl", "handshake", "open"} => writes <= 1

\* A Manager that is told on_connect was told of the end of the connection
\* before, even when a second connect tears down an open stream unasked
\* (on_handshake against the aborted read of the old connection).
OneConnectPerLoss ==
  [][OnHandshakeOk /\ Running /\ manager => view # "up"]_vars

\* The client implements ReconnectLoop.
Phase ==
  CASE loop = "new"      -> "off"
    [] loop = "running"  -> "on"
    [] loop = "returned" -> "returned"
    [] loop = "stopped"  -> "over"
    [] OTHER             -> "closing"
Promise == INSTANCE ReconnectLoop WITH
  Delay <- ReconnectDelay,
  run <- Phase,
  lookups <- resolves,
  since <- sinceAttempt
ImplementsReconnectLoop == Promise!Spec

\* Nothing has happened before start().
Fresh ==
  loop = "new" =>
    /\ resolves = 0
    /\ stage = "idle"
    /\ view = "none"
    /\ reconnect = Off
    /\ ~rcFired

\* A ws:// client has no TLS handshake.
PlainSkipsTls == Scheme = "ws" => stage # "ssl"

\* A connection is not read before it is there.
ReadsOpened == reading => stage \in {"open", "closing", "idle"}

\* The reconnect timer was armed after the last lookup, for the full delay.
AttemptClock ==
  /\ reconnect # Off => reconnect + sinceAttempt >= ReconnectDelay
  /\ rcFired => /\ sinceAttempt = ReconnectDelay
                /\ reconnect \in {Off, ReconnectDelay}

\* A pending ping ends before the heartbeat that follows it.
PingClock ==
  /\ stage \in {"connect", "ssl"} => writes = 0
  /\ MaxAppWrites = 0 /\ stage \in {"open", "handshake"} /\ writes > 0 =>
       /\ writes = 1
       /\ writeLeft # Off
       /\ ~hbFired
       /\ heartbeat # Off =>
            heartbeat - writeLeft >= HeartbeatPeriod - WriteTimeout

\* A Manager that believes the connection up has it read, or is about to hear.
ViewClock ==
  Running /\ manager /\ view = "up" => reading \/ killed > 0

\* Together they are inductive; each of the properties above follows.
IInv ==
  /\ TypeOK
  /\ Fresh
  /\ HeartbeatAlive
  /\ RecoveryPending
  /\ PlainSkipsTls
  /\ ReadsOpened
  /\ AttemptClock
  /\ PingClock
  /\ ViewClock

\* What is still to be handled, each piece weighed by the handlers it can lead
\* to until a timer has to run down again or the peer has to speak.
StageLoad ==
  CASE stage = "connect"          -> 7
    [] stage = "ssl"              -> 6
    [] stage = "handshake"        -> 5
    [] stage = "handshakeClosing" -> 4
    [] stage = "open"             -> 2
    [] stage = "closing"          -> 1
    [] stage = "idle"             -> 0
TimerLoad ==
  11 * Bit(reconnect = 0) + 10 * Bit(rcFired) + 5 * Bit(heartbeat = 0) + 4 * Bit(hbFired)
Load ==
  8 * resolves + StageLoad + 2 * Bit(reading) + 2 * writes + killed + refused
    + hbAborted + TimerLoad

\* Handlers that abort waits, whose handlers call handle_error, which closes,
\* aborts and schedules again, never keep each other going: but for messages
\* of the peer, each handler leaves less to handle, until time passes.
Handler == (Network /\ ~OnReadOk) \/ Queued \/ (Timers /\ ~Tick)
HandlersDrain ==
  [][(Handler => Load' < Load) /\ (OnReadOk => Load' <= Load)]_vars

-----------------------------------------------------------------------------
(* Liveness, under FairSpec.                                               *)

\* The client never falls silent: a timer goes off again and again until
\* stop() is called.
NeverQuiet == []<>(hbFired \/ rcFired \/ ~Running)

\* Once the Manager is gone no ping is written, and a scheduled reconnection
\* does take place.
QuietReconnect ==
  (reconnect # Off /\ ~manager /\ Running) ~> (rcFired \/ ~Running)

\* A TLS failure schedules nothing itself (on_ssl_handshake, do_ssl_handshake);
\* the ping of the next heartbeat, refused by the stream, does.
TlsFailureReschedules ==
  (stage = "idle" /\ Running /\ manager) ~>
    (reconnect # Off \/ rcFired \/ resolves > 0 \/ ~Running \/ ~manager)

-----------------------------------------------------------------------------
(* What comments of the source say and the code does not do.               *)

\* handle_error: "Schedule reconnection after a delay".  The reconnection
\* that was scheduled takes place.
ScheduledReconnectRuns == (reconnect # Off /\ Running) ~> (rcFired \/ ~Running)

\* The same handler logs "Reconnecting...": what it reconnects is not connected.
ReconnectOnlyWhenDown == [][OnReconnect /\ Running => stage # "open"]_vars
=============================================================================
