------------------------------- MODULE MCIPC -------------------------------
(* IPC for TLC, with what the repository says of it and the code does not  *)
(* do.                                                                     *)
EXTENDS IPC

(* When a thread ends, all messages for it are removed. *)
AllCleared == \A i \in 1 .. Len(msgs) : msgs[i].tid \notin ended
=============================================================================
