--------------------------- MODULE ReconnectLoop ---------------------------
(***************************************************************************)
(* What the client of src/web-socket.h promises, without sockets, queues   *)
(* or timers: between start() and stop() it looks the host up again and    *)
(* again, never sooner than Delay after the lookup before; what it tells   *)
(* the Manager is none, up or failed; once stop() has returned, at most    *)
(* the handler that was running then has an effect.                        *)
(***************************************************************************)
EXTENDS Integers

CONSTANT Delay

VARIABLES
  run,      \* "off", "on", "closing" once stop() is entered, "returned", "over"
  lookups,  \* lookups that have not answered yet
  since,    \* time since the last lookup was started, capped at Delay
  view      \* what the Manager was told last

vars == <<run, lookups, since, view>>

Init == run = "off" /\ lookups = 0 /\ since = 0 /\ view = "none"

\* A handler runs, the last one if stop() has returned.
Handled ==
  /\ run \in {"on", "closing", "returned"}
  /\ run' = IF run = "returned" THEN "over" ELSE run

Begin   == run = "off" /\ run' = "on" /\ lookups' = 1 /\ since' = 0 /\ UNCHANGED view
Wait    == run \in {"on", "closing"} /\ since < Delay /\ since' = since + 1
           /\ UNCHANGED <<run, lookups, view>>
Attempt == Handled /\ since = Delay /\ lookups' = lookups + 1 /\ since' = 0
           /\ UNCHANGED view
Answer  == Handled /\ lookups > 0 /\ lookups' = lookups - 1
           /\ view' \in {view, "failed"} /\ UNCHANGED since
Up      == Handled /\ view' = "up" /\ UNCHANGED <<lookups, since>>
Down    == Handled /\ view' = "failed" /\ UNCHANGED <<lookups, since>>
Close   == run = "on" /\ run' = "closing" /\ UNCHANGED <<lookups, since, view>>
Return  == run = "closing" /\ run' = "returned" /\ UNCHANGED <<lookups, since, view>>
End     == run = "returned" /\ run' = "over" /\ UNCHANGED <<lookups, since, view>>

Next == Begin \/ Wait \/ Attempt \/ Answer \/ Up \/ Down \/ Close \/ Return \/ End

Spec == Init /\ [][Next]_vars
=============================================================================
