--------------------------- MODULE TransferResult ---------------------------
(***************************************************************************)
(* check_transfer_result of src/sender.cpp: what send_file learns from an  *)
(* answer of the upload server.                                            *)
(*                                                                         *)
(* An answer is a record: whether it parses as a JSON object, and what the *)
(* object has under "code", "msg", "meaage" and "message".  A member that  *)
(* is absent, or of another type than the code looks for, is the empty     *)
(* set.  The id under "data.file_id" is in SendFile.                       *)
(***************************************************************************)
EXTENDS Integers

Answer == [json : BOOLEAN, code : SUBSET Int, msg : SUBSET STRING,
           meaage : SUBSET STRING, message : SUBSET STRING]

NotFindFileId == "not find file_id"

The(s) == CHOOSE x \in s : TRUE

\* The code, -1 if there is none.
ResultCode(a) == IF a.json /\ a.code # {} THEN The(a.code) ELSE -1

\* "message" is only looked at if there is a member "meaage"; at() throws if
\* there is one and no "message", after code and id have been taken.
ErrorInfo(a) ==
  IF ~a.json THEN ""
  ELSE IF a.msg # {} THEN The(a.msg)
  ELSE IF a.meaage # {} /\ a.message # {} THEN The(a.message)
  ELSE ""
=============================================================================
