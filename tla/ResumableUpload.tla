-------------------------- MODULE ResumableUpload --------------------------
(***************************************************************************)
(* What send_file of src/sender.cpp promises about one file, without       *)
(* requests, answers, copies or crashes: the server comes to hold parts    *)
(* for more and more of it, the row follows and never claims more than is  *)
(* held, both may start over together, and the upload is done only when    *)
(* the server has been given a part for every byte of the file; then       *)
(* nothing happens any more.  What bytes a part carries is not said here.  *)
(***************************************************************************)
EXTENDS Integers

CONSTANT Sizes

VARIABLES
  total,    \* the size of the file
  held,     \* how far the parts go that the server got under the row's id
  claimed,  \* how far the row says they go
  whole,    \* parts for the whole file have arrived, under some id
  done      \* the row is Completed

vars == <<total, held, claimed, whole, done>>

Init ==
  /\ total \in Sizes
  /\ held = 0
  /\ claimed = 0
  /\ whole = FALSE
  /\ done = FALSE

Hold ==
  /\ ~done
  /\ held' \in held .. total
  /\ whole' \in {whole, whole \/ held' = total}
  /\ UNCHANGED <<total, claimed, done>>

Claim ==
  /\ ~done
  /\ claimed' \in claimed .. held
  /\ UNCHANGED <<total, held, whole, done>>

StartOver ==
  /\ ~done
  /\ held' = 0
  /\ claimed' = 0
  /\ UNCHANGED <<total, whole, done>>

Finish ==
  /\ ~done
  /\ whole
  /\ done' = TRUE
  /\ UNCHANGED <<total, held, claimed, whole>>

Next == Hold \/ Claim \/ StartOver \/ Finish

Spec == Init /\ [][Next]_vars
=============================================================================
