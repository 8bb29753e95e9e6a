----------------------- MODULE WebSocketClientProofs -----------------------
(***************************************************************************)
(* Theorems about WebSocketClient, for every scheme, every delay and every *)
(* bound that the named assumptions admit.  IInv is the inductive          *)
(* invariant; each of its parts is preserved by a lemma of its own, one    *)
(* step per group of actions that touch the part in the same way.          *)
(***************************************************************************)
EXTENDS WebSocketClient, TLAPS

\* The initial state satisfies the inductive invariant.
LEMMA InitIInv == Init => IInv
<1> SUFFICES ASSUME Init PROVE IInv
  OBVIOUS
<1> USE DEF Init
<1>1. TypeOK
  <2>1. /\ reading \in BOOLEAN /\ hbFired \in BOOLEAN
        /\ rcFired \in BOOLEAN /\ manager \in BOOLEAN
    OBVIOUS
  <2>2. QED
    BY <2>1, TimingAssumption DEF TypeOK, Clock, Stages
<1>2. Fresh /\ HeartbeatAlive /\ RecoveryPending /\ ReadsOpened /\ ViewClock
  BY DEF Fresh, HeartbeatAlive, RecoveryPending, ReadsOpened, ViewClock, Running
<1>3. AttemptClock /\ PingClock /\ PlainSkipsTls
  BY DEF AttemptClock, PingClock, PlainSkipsTls, Off
<1>4. QED
  BY <1>1, <1>2, <1>3 DEF IInv

\* Every step keeps every variable in its type.
LEMMA TypeStep == TypeOK /\ [Next]_vars => TypeOK'
<1> SUFFICES ASSUME TypeOK, [Next]_vars PROVE TypeOK'
  OBVIOUS
<1> USE TimingAssumption DEF TypeOK, Clock, Off, Stages, StopSteps, ops, stream, beat, clocks,
   host, env, Handling, Looping
<1>1. CASE Start
  BY <1>1 DEF Start, DoResolve, StartHeartbeat, Bit
<1>2. CASE OnResolveOk
  <2>1. resolves' \in Nat /\ killed' \in Nat
    BY <1>2 DEF OnResolveOk, DoConnect, Bit
  <2>2. view' \in {"none", "up", "failed"}
    BY <1>2 DEF OnResolveOk, DoConnect, Tell
  <2>3. QED
    BY <1>2, <2>1, <2>2 DEF OnResolveOk, DoConnect
<1>3. CASE OnResolveFailed
  BY <1>3 DEF OnResolveFailed, Tell, HandleError, Broken, DoClose
<1>4. CASE OnConnectOk \/ OnSslHandshake \/ OnHandshakeOk
  BY <1>4, ZenonT(40) DEF OnConnectOk, OnSslHandshake, OnHandshakeOk, Tell
<1>5. CASE OnSetupFailed
  BY <1>5 DEF OnSetupFailed, Tell, HandleError, Broken, DoClose
<1>6. CASE OnReadOk
  <2>1. reading' \in BOOLEAN
    BY <1>6 DEF OnReadOk
  <2>2. QED
    BY <1>6, <2>1 DEF OnReadOk
<1>7. CASE OnWriteOk
  BY <1>7 DEF OnWriteOk, WriteDone
<1>8. CASE OnReadFailed
  <2>1. stage' \in Stages /\ reconnect' \in Clock(ReconnectDelay)
    BY <1>8 DEF OnReadFailed, HandleError, Broken, DoClose
  <2>2. QED
    BY <1>8, <2>1 DEF OnReadFailed, Tell
<1>9. CASE OnWriteFailed
  <2>1. stage' \in Stages /\ reconnect' \in Clock(ReconnectDelay)
    BY <1>9 DEF OnWriteFailed, HandleError, Broken, DoClose
  <2>2. killed' \in Nat
    BY <1>9 DEF OnWriteFailed, Bit
  <2>3. QED
    BY <1>9, <2>1, <2>2 DEF OnWriteFailed, WriteDone, Tell
<1>10. CASE OnAborted
  BY <1>10 DEF OnAborted, Tell, HandleError, Broken, DoClose
<1>11. CASE OnRefused
  BY <1>11 DEF OnRefused, Tell, HandleError, Broken, DoClose
<1>12. CASE OnHeartbeatAborted
  BY <1>12 DEF OnHeartbeatAborted, Tell, HandleError, Broken, DoClose
<1>13. CASE ExpireHeartbeat
  <2>1. heartbeat' \in Clock(HeartbeatPeriod) /\ hbFired' \in BOOLEAN
    BY <1>13 DEF ExpireHeartbeat
  <2>2. QED
    BY <1>13, <2>1 DEF ExpireHeartbeat
<1>14. CASE ExpireReconnect
  <2>1. reconnect' \in Clock(ReconnectDelay) /\ rcFired' \in BOOLEAN
    BY <1>14 DEF ExpireReconnect
  <2>2. QED
    BY <1>14, <2>1 DEF ExpireReconnect
<1>15. CASE OnHeartbeat
  <2>1. heartbeat' \in Clock(HeartbeatPeriod) /\ hbAborted' \in Nat
    BY <1>15 DEF OnHeartbeat, StartHeartbeat, Bit
  <2>2. writes' \in Nat /\ refused' \in Nat /\ writeLeft' \in Clock(WriteTimeout)
    BY <1>15 DEF OnHeartbeat, DoPing, Write
  <2>3. QED
    BY <1>15, <2>1, <2>2 DEF OnHeartbeat
<1>16. CASE OnReconnect
  <2>1. heartbeat' \in Clock(HeartbeatPeriod) /\ hbAborted' \in Nat
    BY <1>16 DEF OnReconnect, StartHeartbeat, Bit
  <2>2. resolves' \in Nat /\ sinceAttempt' \in 0 .. ReconnectDelay
    BY <1>16 DEF OnReconnect, DoResolve
  <2>3. rcFired' \in BOOLEAN
    BY <1>16 DEF OnReconnect
  <2>4. QED
    BY <1>16, <2>1, <2>2, <2>3, SMTT(30) DEF OnReconnect
<1>17. CASE Tick
  BY <1>17 DEF Tick
<1>18. CASE AppWrite
  BY <1>18 DEF AppWrite, Write
<1>19. CASE ManagerGone
  <2>1. manager' \in BOOLEAN
    BY <1>19 DEF ManagerGone
  <2>2. QED
    BY <1>19, <2>1 DEF ManagerGone
<1>20. CASE StopFlag \/ StopReconnect \/ StopLoop \/ RunReturns
  BY <1>20 DEF StopFlag, StopReconnect, StopLoop, RunReturns
<1>21. CASE StopHeartbeat
  BY <1>21 DEF StopHeartbeat, Bit
<1>22. CASE StopClose
  BY <1>22 DEF StopClose, DoClose
<1>23. CASE Stopped
  BY <1>23 DEF Stopped, vars
<1>24. CASE UNCHANGED vars
  BY <1>24 DEF vars
<1>25. CASE OnClose
  BY <1>25 DEF OnClose, Tell, Bit
<1>26. QED
  BY <1>1, <1>2, <1>3, <1>4, <1>5, <1>6, <1>7, <1>8, <1>9, <1>10, <1>11,
     <1>12, <1>13, <1>14, <1>15, <1>16, <1>17, <1>18, <1>19, <1>20, <1>21,
     <1>22, <1>23, <1>24, <1>25 DEF Next, Network, Queued, Timers, Application

\* The variables keep their types (TypeOK is the first part of IInv).
THEOREM TypeCorrect == Spec => []TypeOK
<1>1. Init => TypeOK
  BY InitIInv DEF IInv
<1>2. QED
  BY <1>1, TypeStep, PTL DEF Spec

\* Nothing has happened before start().
LEMMA FreshStep == Fresh /\ [Next]_vars => Fresh'
<1> SUFFICES ASSUME Fresh, [Next]_vars PROVE Fresh'
  OBVIOUS
<1> USE DEF Fresh, ops, stream, beat, clocks, host, env, Handling, Looping
<1>1. CASE Start \/ OnReconnect
  BY <1>1 DEF Start, OnReconnect
<1>2. CASE OnResolveOk \/ OnResolveFailed \/ OnConnectOk \/ OnSslHandshake \/
           OnHandshakeOk \/ OnSetupFailed
  BY <1>2 DEF OnResolveOk, OnResolveFailed, OnConnectOk, OnSslHandshake,
     OnHandshakeOk, OnSetupFailed
<1>3. CASE OnReadOk \/ OnReadFailed \/ OnWriteOk \/ OnWriteFailed \/ OnClose
  BY <1>3 DEF OnReadOk, OnReadFailed, OnWriteOk, OnWriteFailed, OnClose
<1>4. CASE OnAborted \/ OnRefused \/ OnHeartbeatAborted
  BY <1>4 DEF OnAborted, OnRefused, OnHeartbeatAborted
<1>5. CASE ExpireHeartbeat \/ OnHeartbeat \/ ExpireReconnect
  BY <1>5 DEF ExpireHeartbeat, OnHeartbeat, ExpireReconnect
<1>6. CASE Tick \/ AppWrite
  BY <1>6 DEF Tick, AppWrite
<1>7. CASE ManagerGone
  BY <1>7 DEF ManagerGone
<1>8. CASE StopFlag \/ StopReconnect \/ StopHeartbeat \/ StopClose \/ StopLoop \/
           RunReturns \/ Stopped
  BY <1>8 DEF StopFlag, StopReconnect, StopHeartbeat, StopClose, StopLoop, RunReturns,
     Stopped, vars
<1>9. CASE UNCHANGED vars
  BY <1>9 DEF vars
<1>10. QED
  BY <1>1, <1>2, <1>3, <1>4, <1>5, <1>6, <1>7, <1>8, <1>9 DEF Next, Network,
     Queued, Timers, Application

\* No step leaves a running client without a heartbeat.
LEMMA HeartbeatStep == TypeOK /\ HeartbeatAlive /\ [Next]_vars => HeartbeatAlive'
<1> SUFFICES ASSUME TypeOK, HeartbeatAlive, [Next]_vars PROVE HeartbeatAlive'
  OBVIOUS
<1> USE TimingAssumption DEF HeartbeatAlive, Running, Off, ops, stream, beat, clocks, host,
   env, Handling, Looping
<1>1. CASE Start \/ OnHeartbeat \/ OnReconnect
  BY <1>1, TimingAssumption DEF Start, OnHeartbeat, OnReconnect,
     StartHeartbeat, TypeOK
<1>2. CASE OnResolveOk \/ OnResolveFailed \/ OnConnectOk \/ OnSslHandshake \/
           OnHandshakeOk \/ OnSetupFailed
  BY <1>2 DEF OnResolveOk, OnResolveFailed, OnConnectOk, OnSslHandshake,
     OnHandshakeOk, OnSetupFailed
<1>3. CASE OnReadOk \/ OnReadFailed \/ OnWriteOk \/ OnWriteFailed \/ OnClose
  BY <1>3 DEF OnReadOk, OnReadFailed, OnWriteOk, OnWriteFailed, OnClose
<1>4. CASE OnAborted \/ OnRefused \/ OnHeartbeatAborted
  BY <1>4 DEF OnAborted, OnRefused, OnHeartbeatAborted
<1>5. CASE ExpireHeartbeat
  BY <1>5 DEF ExpireHeartbeat
<1>6. CASE ExpireReconnect \/ AppWrite \/ ManagerGone
  BY <1>6 DEF ExpireReconnect, AppWrite, ManagerGone
<1>7. CASE Tick
  BY <1>7 DEF Tick, TypeOK, Clock
<1>8. CASE StopFlag \/ StopReconnect \/ StopHeartbeat \/ StopClose \/ StopLoop \/
           RunReturns \/ Stopped
  BY <1>8 DEF StopFlag, StopReconnect, StopHeartbeat, StopClose, StopLoop, RunReturns,
     Stopped, vars
<1>9. CASE UNCHANGED vars
  BY <1>9 DEF vars
<1>10. QED
  BY <1>1, <1>2, <1>3, <1>4, <1>5, <1>6, <1>7, <1>8, <1>9 DEF Next, Network,
     Queued, Timers, Application

\* Whatever ends, something that recovers the connection is left.
LEMMA RecoveryStep == TypeOK /\ RecoveryPending /\ PlainSkipsTls /\ [Next]_vars => RecoveryPending'
<1> SUFFICES ASSUME TypeOK, RecoveryPending, PlainSkipsTls, [Next]_vars PROVE RecoveryPending'
  OBVIOUS
<1> USE TimingAssumption DEF RecoveryPending, PlainSkipsTls, Running, Off, ops, stream, beat, clocks, host,
   env, Handling, Looping
<1>1. CASE Start \/ OnReconnect
  BY <1>1 DEF Start, OnReconnect, DoResolve, TypeOK
<1>2. CASE OnResolveOk
  BY <1>2 DEF OnResolveOk, DoConnect
<1>3. CASE OnResolveFailed \/ OnSetupFailed \/ OnReadFailed \/ OnWriteFailed
  BY <1>3 DEF OnResolveFailed, OnSetupFailed, OnReadFailed, OnWriteFailed,
     HandleError
<1>4. CASE OnAborted \/ OnRefused \/ OnHeartbeatAborted
  BY <1>4 DEF OnAborted, OnRefused, OnHeartbeatAborted, HandleError
<1>5. CASE OnConnectOk \/ OnSslHandshake
  BY <1>5 DEF OnConnectOk, OnSslHandshake
<1>6. CASE OnHandshakeOk
  BY <1>6 DEF OnHandshakeOk
<1>7. CASE OnReadOk
  BY <1>7 DEF OnReadOk, IsClosing
<1>8. CASE OnWriteOk \/ OnClose
  BY <1>8 DEF OnWriteOk, OnClose, Bit, TypeOK
<1>9. CASE ExpireHeartbeat \/ ManagerGone
  BY <1>9 DEF ExpireHeartbeat, ManagerGone
<1>10. CASE ExpireReconnect
  BY <1>10 DEF ExpireReconnect
<1>11. CASE OnHeartbeat \/ AppWrite
  BY <1>11 DEF OnHeartbeat, AppWrite
<1>12. CASE Tick
  BY <1>12 DEF Tick, TypeOK, Clock
<1>13. CASE StopFlag \/ StopReconnect \/ StopHeartbeat \/ StopClose \/ StopLoop \/
            RunReturns \/ Stopped
  BY <1>13 DEF StopFlag, StopReconnect, StopHeartbeat, StopClose, StopLoop, RunReturns,
     Stopped, vars
<1>14. CASE UNCHANGED vars
  BY <1>14 DEF vars
<1>15. QED
  BY <1>1, <1>2, <1>3, <1>4, <1>5, <1>6, <1>7, <1>8, <1>9, <1>10, <1>11,
     <1>12, <1>13, <1>14 DEF Next, Network, Queued, Timers, Application

\* Only a wss:// client shakes hands over TLS.
LEMMA PlainStep == PlainSkipsTls /\ [Next]_vars => PlainSkipsTls'
<1> SUFFICES ASSUME PlainSkipsTls, [Next]_vars PROVE PlainSkipsTls'
  OBVIOUS
<1> USE DEF PlainSkipsTls, ops, stream, beat, clocks, host, env, Handling, Looping
<1>1. CASE Start \/ OnReconnect
  BY <1>1 DEF Start, OnReconnect
<1>2. CASE OnResolveOk
  BY <1>2 DEF OnResolveOk, DoConnect
<1>3. CASE OnResolveFailed \/ OnSetupFailed \/ OnReadFailed \/ OnWriteFailed
  BY <1>3 DEF OnResolveFailed, OnSetupFailed, OnReadFailed, OnWriteFailed,
     HandleError, Broken, DoClose
<1>4. CASE OnAborted \/ OnRefused \/ OnHeartbeatAborted
  BY <1>4 DEF OnAborted, OnRefused, OnHeartbeatAborted, HandleError, Broken,
     DoClose
<1>5. CASE OnConnectOk \/ OnSslHandshake \/ OnHandshakeOk
  BY <1>5 DEF OnConnectOk, OnSslHandshake, OnHandshakeOk
<1>6. CASE OnReadOk \/ OnWriteOk \/ OnClose
  BY <1>6 DEF OnReadOk, OnWriteOk, OnClose
<1>7. CASE ExpireHeartbeat \/ ExpireReconnect \/ ManagerGone
  BY <1>7 DEF ExpireHeartbeat, ExpireReconnect, ManagerGone
<1>8. CASE OnHeartbeat \/ AppWrite \/ Tick
  BY <1>8 DEF OnHeartbeat, AppWrite, Tick
<1>9. CASE StopFlag \/ StopReconnect \/ StopHeartbeat \/ StopLoop \/ RunReturns
  BY <1>9 DEF StopFlag, StopReconnect, StopHeartbeat, StopLoop, RunReturns
<1>10. CASE StopClose
  BY <1>10 DEF StopClose, DoClose
<1>11. CASE Stopped
  BY <1>11 DEF Stopped, vars
<1>12. CASE UNCHANGED vars
  BY <1>12 DEF vars
<1>13. QED
  BY <1>1, <1>2, <1>3, <1>4, <1>5, <1>6, <1>7, <1>8, <1>9, <1>10, <1>11, <1>12
     DEF Next, Network, Queued, Timers, Application

\* What is read has been opened.
LEMMA ReadsOpenedStep == ReadsOpened /\ [Next]_vars => ReadsOpened'
<1> SUFFICES ASSUME ReadsOpened, [Next]_vars PROVE ReadsOpened'
  OBVIOUS
<1> USE DEF ReadsOpened, ops, stream, beat, clocks, host, env, Handling, Looping
<1>1. CASE Start
  BY <1>1 DEF Start, Fresh
<1>2. CASE OnReconnect
  BY <1>2 DEF OnReconnect
<1>3. CASE OnResolveOk
  BY <1>3 DEF OnResolveOk, DoConnect
<1>4. CASE OnResolveFailed \/ OnSetupFailed \/ OnReadFailed \/ OnWriteFailed
  BY <1>4 DEF OnResolveFailed, OnSetupFailed, OnReadFailed, OnWriteFailed,
     HandleError, Broken, DoClose
<1>5. CASE OnAborted \/ OnRefused \/ OnHeartbeatAborted
  BY <1>5 DEF OnAborted, OnRefused, OnHeartbeatAborted, HandleError, Broken,
     DoClose
<1>6. CASE OnConnectOk \/ OnSslHandshake \/ OnHandshakeOk
  BY <1>6 DEF OnConnectOk, OnSslHandshake, OnHandshakeOk
<1>7. CASE OnReadOk
  BY <1>7 DEF OnReadOk, IsClosing
<1>8. CASE OnWriteOk \/ OnClose
  BY <1>8 DEF OnWriteOk, OnClose
<1>9. CASE ExpireHeartbeat \/ ExpireReconnect \/ ManagerGone
  BY <1>9 DEF ExpireHeartbeat, ExpireReconnect, ManagerGone
<1>10. CASE OnHeartbeat \/ AppWrite \/ Tick
  BY <1>10 DEF OnHeartbeat, AppWrite, Tick
<1>11. CASE StopFlag \/ StopReconnect \/ StopHeartbeat \/ StopClose \/ StopLoop \/
            RunReturns \/ Stopped
  BY <1>11 DEF StopFlag, StopReconnect, StopHeartbeat, StopClose, StopLoop, RunReturns,
     Stopped, vars, DoClose
<1>12. CASE UNCHANGED vars
  BY <1>12 DEF vars
<1>13. QED
  BY <1>1, <1>2, <1>3, <1>4, <1>5, <1>6, <1>7, <1>8, <1>9, <1>10, <1>11, <1>12
     DEF Next, Network, Queued, Timers, Application

\* The reconnect timer stays behind the last lookup.
LEMMA AttemptClockStep == TypeOK /\ Fresh /\ AttemptClock /\ [Next]_vars => AttemptClock'
<1> SUFFICES ASSUME TypeOK, Fresh, AttemptClock, [Next]_vars PROVE AttemptClock'
  OBVIOUS
<1> USE TimingAssumption DEF AttemptClock, Off, ops, stream, beat, clocks, host, env,
   Handling, Looping
<1>1. CASE Start
  BY <1>1 DEF Start, Fresh, DoResolve
<1>2. CASE OnResolveOk \/ OnConnectOk \/ OnSslHandshake \/ OnHandshakeOk
  BY <1>2 DEF OnResolveOk, OnConnectOk, OnSslHandshake, OnHandshakeOk
<1>3. CASE OnResolveFailed \/ OnSetupFailed \/ OnReadFailed \/ OnWriteFailed
  BY <1>3 DEF OnResolveFailed, OnSetupFailed, OnReadFailed, OnWriteFailed,
     HandleError, TypeOK
<1>4. CASE OnAborted \/ OnRefused \/ OnHeartbeatAborted
  BY <1>4 DEF OnAborted, OnRefused, OnHeartbeatAborted, HandleError, TypeOK
<1>5. CASE OnReadOk \/ OnWriteOk \/ OnClose
  BY <1>5 DEF OnReadOk, OnWriteOk, OnClose
<1>6. CASE ExpireHeartbeat \/ OnHeartbeat \/ AppWrite \/ ManagerGone
  BY <1>6 DEF ExpireHeartbeat, OnHeartbeat, AppWrite, ManagerGone
<1>7. CASE ExpireReconnect
  BY <1>7 DEF ExpireReconnect, TypeOK
<1>8. CASE OnReconnect
  BY <1>8 DEF OnReconnect, TypeOK, DoResolve
<1>9. CASE Tick
  BY <1>9 DEF Tick, TypeOK, Clock
<1>10. CASE StopFlag \/ StopHeartbeat \/ StopClose \/ StopLoop \/ RunReturns
  BY <1>10 DEF StopFlag, StopHeartbeat, StopClose, StopLoop, RunReturns
<1>11. CASE StopReconnect
  BY <1>11 DEF StopReconnect
<1>12. CASE Stopped
  BY <1>12 DEF Stopped, vars
<1>13. CASE UNCHANGED vars
  BY <1>13 DEF vars
<1>14. QED
  BY <1>1, <1>2, <1>3, <1>4, <1>5, <1>6, <1>7, <1>8, <1>9, <1>10, <1>11,
     <1>12, <1>13 DEF Next, Network, Queued, Timers, Application

\* A pending ping stays ahead of the next heartbeat.
LEMMA PingClockStep == TypeOK /\ PingClock /\ [Next]_vars => PingClock'
<1> SUFFICES ASSUME TypeOK, PingClock, [Next]_vars PROVE PingClock'
  OBVIOUS
<1> USE TimingAssumption DEF PingClock, Off, ops, stream, beat, clocks, host, env, Handling,
   Looping
<1>1. CASE Start \/ OnReconnect
  BY <1>1 DEF Start, OnReconnect, TypeOK, Clock, StartHeartbeat
<1>2. CASE OnResolveOk
  BY <1>2 DEF OnResolveOk, DoConnect
<1>3. CASE OnResolveFailed \/ OnSetupFailed
  BY <1>3 DEF OnResolveFailed, OnSetupFailed, HandleError, Broken, DoClose
<1>4. CASE OnReadFailed
  BY <1>4 DEF OnReadFailed, HandleError, Broken, DoClose
<1>5. CASE OnWriteFailed
  BY <1>5 DEF OnWriteFailed, HandleError, Broken, DoClose, WriteDone, TypeOK
<1>6. CASE OnAborted \/ OnRefused
  BY <1>6 DEF OnAborted, OnRefused, HandleError, Broken, DoClose
<1>7. CASE OnHeartbeatAborted
  BY <1>7 DEF OnHeartbeatAborted, HandleError, Broken, DoClose
<1>8. CASE OnConnectOk \/ OnSslHandshake \/ OnHandshakeOk
  BY <1>8 DEF OnConnectOk, OnSslHandshake, OnHandshakeOk
<1>9. CASE OnReadOk \/ OnClose
  BY <1>9 DEF OnReadOk, OnClose
<1>10. CASE OnWriteOk
  BY <1>10 DEF OnWriteOk, WriteDone, TypeOK
<1>11. CASE ExpireHeartbeat
  BY <1>11 DEF ExpireHeartbeat, TypeOK, Clock
<1>12. CASE ExpireReconnect \/ ManagerGone
  BY <1>12 DEF ExpireReconnect, ManagerGone
<1>13. CASE OnHeartbeat
  <2>1. heartbeat' = HeartbeatPeriod /\ ~hbFired'
    BY <1>13 DEF OnHeartbeat, StartHeartbeat
  <2>2. stage' \in {"connect", "ssl"} => writes' = 0
    BY <1>13 DEF OnHeartbeat, DoPing, Write
  <2>3. ASSUME MaxAppWrites = 0, stage' \in {"open", "handshake"}, writes' > 0
        PROVE  writes' = 1 /\ writeLeft' \in 0 .. WriteTimeout
    BY <1>13, <2>3 DEF OnHeartbeat, DoPing, Write, TypeOK
  <2>4. QED
    BY <2>1, <2>2, <2>3
<1>14. CASE AppWrite
  <2>1. MaxAppWrites # 0
    BY <1>14 DEF AppWrite, TypeOK
  <2>2. stage' \in {"connect", "ssl"} => writes' = 0
    BY <1>14 DEF AppWrite, Write
  <2>3. QED
    BY <2>1, <2>2
<1>15. CASE Tick
  BY <1>15 DEF Tick, TypeOK, Clock
<1>16. CASE StopFlag \/ StopReconnect \/ StopLoop \/ RunReturns
  BY <1>16 DEF StopFlag, StopReconnect, StopLoop, RunReturns
<1>17. CASE StopHeartbeat
  BY <1>17 DEF StopHeartbeat
<1>18. CASE StopClose
  BY <1>18 DEF StopClose, DoClose
<1>19. CASE Stopped
  BY <1>19 DEF Stopped, vars
<1>20. CASE UNCHANGED vars
  BY <1>20 DEF vars
<1>21. QED
  BY <1>1, <1>2, <1>3, <1>4, <1>5, <1>6, <1>7, <1>8, <1>9, <1>10, <1>11,
     <1>12, <1>13, <1>14, <1>15, <1>16, <1>17, <1>18, <1>19, <1>20 DEF Next,
     Network, Queued, Timers, Application

\* A Manager that was told the connection is up hears of its end.
LEMMA ViewClockStep == TypeOK /\ Fresh /\ ViewClock /\ [Next]_vars => ViewClock'
<1> SUFFICES ASSUME TypeOK, Fresh, ViewClock, [Next]_vars PROVE ViewClock'
  OBVIOUS
<1> USE DEF ViewClock, Running, ops, stream, beat, clocks, host, env, Handling, Looping
<1>1. CASE Start
  BY <1>1 DEF Start, Fresh
<1>2. CASE OnReconnect
  BY <1>2 DEF OnReconnect
<1>3. CASE OnResolveOk
  <2>1. ASSUME Running', manager', view' = "up"
        PROVE  killed' > 0
    <3>1. Running /\ manager /\ view = "up"
      BY <1>3, <2>1 DEF OnResolveOk, DoConnect, Tell, Running
    <3>2. CASE reading
      BY <1>3, <3>1, <3>2 DEF OnResolveOk, DoConnect, Bit, TypeOK
    <3>3. CASE killed > 0
      BY <1>3, <3>3 DEF OnResolveOk, DoConnect, Bit, TypeOK
    <3>4. QED
      BY <3>1, <3>2, <3>3
  <2>2. QED
    BY <2>1
<1>4. CASE OnResolveFailed \/ OnSetupFailed \/ OnReadFailed \/ OnWriteFailed
  BY <1>4 DEF OnResolveFailed, OnSetupFailed, OnReadFailed, OnWriteFailed,
     Tell
<1>5. CASE OnAborted \/ OnRefused \/ OnHeartbeatAborted
  BY <1>5 DEF OnAborted, OnRefused, OnHeartbeatAborted, Tell
<1>6. CASE OnConnectOk \/ OnSslHandshake
  BY <1>6 DEF OnConnectOk, OnSslHandshake, Tell
<1>7. CASE OnHandshakeOk
  BY <1>7 DEF OnHandshakeOk
<1>8. CASE OnReadOk \/ OnWriteOk
  BY <1>8 DEF OnReadOk, OnWriteOk, IsClosing
<1>9. CASE OnClose
  BY <1>9 DEF OnClose, Tell, Bit, TypeOK
<1>10. CASE ExpireHeartbeat \/ ExpireReconnect
  BY <1>10 DEF ExpireHeartbeat, ExpireReconnect
<1>11. CASE OnHeartbeat \/ AppWrite \/ Tick
  BY <1>11 DEF OnHeartbeat, AppWrite, Tick
<1>12. CASE ManagerGone
  BY <1>12 DEF ManagerGone
<1>13. CASE StopFlag \/ StopReconnect \/ StopHeartbeat \/ StopClose \/ StopLoop \/
            RunReturns \/ Stopped
  BY <1>13 DEF StopFlag, StopReconnect, StopHeartbeat, StopClose, StopLoop, RunReturns,
     Stopped, vars
<1>14. CASE UNCHANGED vars
  BY <1>14 DEF vars
<1>15. QED
  BY <1>1, <1>2, <1>3, <1>4, <1>5, <1>6, <1>7, <1>8, <1>9, <1>10, <1>11,
     <1>12, <1>13, <1>14 DEF Next, Network, Queued, Timers, Application

\* The parts of IInv are inductive together.
LEMMA IInvStep == IInv /\ [Next]_vars => IInv'
BY TypeStep, FreshStep, HeartbeatStep, RecoveryStep, PlainStep, ReadsOpenedStep,
   AttemptClockStep, PingClockStep, ViewClockStep DEF IInv

\* The client keeps to IInv.
THEOREM Invariance == Spec => []IInv
BY InitIInv, IInvStep, PTL DEF Spec

\* Until stop() is called run() always has a heartbeat to wait for or to handle.
THEOREM HeartbeatStays == Spec => []HeartbeatAlive
BY Invariance, PTL DEF IInv

\* A running ws:// client always has something under way that leads to a
\* connection or to another attempt.
THEOREM RecoveryStays == Spec => []RecoveryPending
BY Invariance, PTL DEF IInv

\* Until the client sends a close its pings do not overlap, for every period longer
\* than the write timeout.
THEOREM PingsApart == Spec => []PingsApartUntilClose
<1>1. IInv => PingsApartUntilClose
  BY DEF IInv, TypeOK, PingClock, PingsApartUntilClose
<1>2. QED
  BY <1>1, Invariance, PTL

\* on_connect reaches a Manager only after the end of the last connection did.
THEOREM ConnectsAlternate == Spec => OneConnectPerLoss
<1>1. IInv /\ [Next]_vars =>
        [OnHandshakeOk /\ Running /\ manager => view # "up"]_vars
  BY DEF IInv, TypeOK, ViewClock, ReadsOpened, OnHandshakeOk
<1>2. QED
  BY <1>1, Invariance, PTL DEF Spec, OneConnectPerLoss

\* The initial state of the client is that of ReconnectLoop.
LEMMA PromiseInit == Init => Promise!Init
BY DEF Init, Phase, Promise!Init

\* Every step of the client is a step of ReconnectLoop or a stutter.
LEMMA PromiseStep == IInv /\ [Next]_vars => [Promise!Next]_(Promise!vars)
<1> SUFFICES ASSUME IInv, [Next]_vars
             PROVE  Promise!Next \/ UNCHANGED Promise!vars
  OBVIOUS
<1>0. TypeOK /\ Fresh /\ AttemptClock
  BY DEF IInv
<1> USE <1>0 DEF ops, stream, beat, clocks, host, env, Promise!vars, Promise!Next
<1>a. Handling => Promise!Handled
  BY DEF TypeOK, StopSteps, Handling, Phase, Promise!Handled
<1>b. Handling /\ UNCHANGED <<resolves, view, sinceAttempt>>
        => Promise!End \/ UNCHANGED Promise!vars
  BY DEF Handling, Phase, Promise!End
<1>c. Looping => Phase \in {"on", "closing"}
  BY DEF TypeOK, StopSteps, Looping, Phase
<1>d. UNCHANGED loop => UNCHANGED Phase
  BY DEF Phase
<1>1. CASE Start
  BY <1>1 DEF Start, DoResolve, Fresh, Phase, TypeOK, Promise!Begin
<1>2. CASE OnResolveOk \/ OnResolveFailed
  BY <1>a, <1>2 DEF OnResolveOk, OnResolveFailed, DoConnect, Tell, Promise!Answer
<1>3. CASE OnConnectOk \/ OnSslHandshake \/ OnSetupFailed \/ OnClose
  BY <1>a, <1>b, <1>3 DEF OnConnectOk, OnSslHandshake, OnSetupFailed, OnClose, Tell,
     Promise!Down
<1>4. CASE OnReadFailed \/ OnWriteFailed
  BY <1>a, <1>b, <1>4 DEF OnReadFailed, OnWriteFailed, Tell, Promise!Down
<1>5. CASE OnAborted \/ OnRefused \/ OnHeartbeatAborted
  BY <1>a, <1>b, <1>5 DEF OnAborted, OnRefused, OnHeartbeatAborted, Tell, Promise!Down
<1>6. CASE OnHandshakeOk
  BY <1>a, <1>b, <1>6 DEF OnHandshakeOk, Tell, Promise!Up
<1>7. CASE OnReconnect
  BY <1>a, <1>7 DEF OnReconnect, DoResolve, AttemptClock, Promise!Attempt
<1>8. CASE Tick
  BY <1>c, <1>d, <1>8 DEF Tick, Promise!Wait
<1>9. CASE OnReadOk \/ OnWriteOk \/ OnHeartbeat
  BY <1>b, <1>9 DEF OnReadOk, OnWriteOk, OnHeartbeat
<1>10. CASE ExpireHeartbeat \/ ExpireReconnect \/ AppWrite \/ ManagerGone
  BY <1>d, <1>10 DEF ExpireHeartbeat, ExpireReconnect, AppWrite, ManagerGone
<1>11. CASE StopFlag
  BY <1>11 DEF StopFlag, Phase, Promise!Close
<1>12. CASE StopReconnect \/ StopHeartbeat \/ StopClose
  BY <1>12 DEF StopReconnect, StopHeartbeat, StopClose, Phase
<1>13. CASE StopLoop
  BY <1>13 DEF StopLoop, Phase, Promise!Return
<1>14. CASE RunReturns
  BY <1>14 DEF RunReturns, Phase, Promise!End
<1>15. CASE Stopped \/ UNCHANGED vars
  BY <1>15 DEF Stopped, vars, Phase
<1>16. QED
  BY <1>1, <1>2, <1>3, <1>4, <1>5, <1>6, <1>7, <1>8, <1>9, <1>10, <1>11, <1>12,
     <1>13, <1>14, <1>15 DEF Next, Network, Queued, Timers, Application

\* The client keeps the promise of ReconnectLoop: lookups at least
\* ReconnectDelay apart, and after stop() has returned no more than the handler that
\* was running then.
THEOREM PromiseKept == Spec => ImplementsReconnectLoop
<1>1. Spec => Promise!Init /\ [][Promise!Next]_(Promise!vars)
  BY PromiseInit, PromiseStep, Invariance, PTL DEF Spec
<1>2. QED
  BY <1>1 DEF ImplementsReconnectLoop, Promise!Spec

-----------------------------------------------------------------------------
\* What is to be handled is a number.
LEMMA LoadIsNat == TypeOK => Load \in Nat
BY DEF TypeOK, Load, StageLoad, TimerLoad, Bit, Stages

\* A handler leaves less to handle, that of a message no more.
LEMMA LoadFalls == TypeOK => (Handler => Load' < Load) /\ (OnReadOk => Load' <= Load)
<1> SUFFICES ASSUME TypeOK PROVE (Handler => Load' < Load) /\ (OnReadOk => Load' <= Load)
  OBVIOUS
<1> USE TimingAssumption DEF TypeOK, Clock, Stages, Off, ops, stream, beat, clocks, host, env,
   Handling, Looping, Bit, StageLoad, TimerLoad, Load
<1>1. ASSUME OnResolveOk PROVE Load' < Load
  BY <1>1 DEF OnResolveOk, DoConnect
<1>2. ASSUME OnResolveFailed PROVE Load' < Load
  BY <1>2 DEF OnResolveFailed, HandleError, DoClose
<1>3. ASSUME OnConnectOk \/ OnSslHandshake PROVE Load' < Load
  BY <1>3 DEF OnConnectOk, OnSslHandshake
<1>4. ASSUME OnHandshakeOk PROVE Load' < Load
  BY <1>4 DEF OnHandshakeOk
<1>5. ASSUME OnSetupFailed PROVE Load' < Load
  BY <1>5 DEF OnSetupFailed, HandleError, DoClose
<1>6. ASSUME OnReadOk PROVE Load' <= Load
  BY <1>6 DEF OnReadOk
<1>7. ASSUME OnReadFailed PROVE Load' < Load
  BY <1>7 DEF OnReadFailed, HandleError, DoClose, Broken
<1>8. ASSUME OnWriteOk PROVE Load' < Load
  BY <1>8 DEF OnWriteOk, WriteDone
<1>9. ASSUME OnWriteFailed PROVE Load' < Load
  BY <1>9 DEF OnWriteFailed, WriteDone, HandleError, DoClose, Broken
<1>10. ASSUME OnClose PROVE Load' < Load
  BY <1>10 DEF OnClose
<1>11. ASSUME OnAborted PROVE Load' < Load
  BY <1>11 DEF OnAborted, HandleError, DoClose
<1>12. ASSUME OnRefused PROVE Load' < Load
  BY <1>12 DEF OnRefused, HandleError, DoClose
<1>13. ASSUME OnHeartbeatAborted PROVE Load' < Load
  BY <1>13 DEF OnHeartbeatAborted, HandleError, DoClose
<1>14. ASSUME ExpireHeartbeat PROVE Load' < Load
  BY <1>14 DEF ExpireHeartbeat
<1>15. ASSUME OnHeartbeat PROVE Load' < Load
  BY <1>15 DEF OnHeartbeat, DoPing, Write, StartHeartbeat
<1>16. ASSUME ExpireReconnect PROVE Load' < Load
  BY <1>16 DEF ExpireReconnect
<1>17. ASSUME OnReconnect PROVE Load' < Load
  BY <1>17 DEF OnReconnect, DoResolve, StartHeartbeat
<1>18. QED
  BY <1>1, <1>2, <1>3, <1>4, <1>5, <1>6, <1>7, <1>8, <1>9, <1>10, <1>11, <1>12, <1>13,
     <1>14, <1>15, <1>16, <1>17 DEF Network, Queued, Timers, Handler

\* Between two ticks the client runs no more handlers than Load says, but for
\* messages of the peer and calls of the application: no timer, abort or error
\* keeps another going.
THEOREM StormsEnd == Spec => HandlersDrain /\ [](Load \in Nat)
<1>1. TypeOK /\ [Next]_vars => [(Handler => Load' < Load) /\ (OnReadOk => Load' <= Load)]_vars
  BY LoadFalls
<1>2. QED
  BY <1>1, LoadIsNat, TypeCorrect, PTL DEF Spec, HandlersDrain
=============================================================================
