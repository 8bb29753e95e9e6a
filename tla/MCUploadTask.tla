---------------------------- MODULE MCUploadTask ----------------------------
(* Small instances of UploadTask: an Exclusive task has all the files, the   *)
(* others have none, and their callers only come and go, create the pool and *)
(* wait for it.                                                              *)
EXTENDS UploadTask

MCFilesOf == [t \in Tasks |-> IF t \in Exclusive THEN Files ELSE {}]
=============================================================================
