----------------------------- MODULE MCSendFile -----------------------------
(* Small instances of SendFile: the ways a server may word its answers.      *)
EXTENDS SendFile

Says(code, text) == [json |-> TRUE, code |-> {code}, msg |-> {text},
                     meaage |-> {}, message |-> {}]

Accepted == Says(200, "OK")
Refused  == Says(0, "error")
NotFound == Says(0, NotFindFileId)

\* The error page of a proxy.
NoJson == [json |-> FALSE, code |-> {}, msg |-> {},
           meaage |-> {}, message |-> {}]
=============================================================================
