----------------------------- MODULE UploadJob -----------------------------
(***************************************************************************)
(* What the jobs that send one file look like from outside, to the thread  *)
(* pool and the task: each finds the row not Completed, and leaves it      *)
(* Completed, or as it was, or, having failed, not Completed although      *)
(* another job had completed it.                                           *)
(***************************************************************************)

CONSTANT Jobs

VARIABLES
  completed,  \* the row is Completed
  running     \* jobs that have read the row and not ended

vars == <<completed, running>>

Init == completed = FALSE /\ running = {}

Start(j) ==
  /\ j \notin running
  /\ ~completed
  /\ running' = running \cup {j}
  /\ UNCHANGED completed

Done(j) ==
  /\ j \in running
  /\ running' = running \ {j}
  /\ completed' = TRUE

Fails(j) ==
  /\ j \in running
  /\ running' = running \ {j}
  /\ completed' \in {completed, FALSE}

Crash ==
  /\ running' = {}
  /\ UNCHANGED completed

Next == (\E j \in Jobs : Start(j) \/ Done(j) \/ Fails(j)) \/ Crash

Spec == Init /\ [][Next]_vars
=============================================================================
