------------------------------- MODULE MCIpc -------------------------------
(* Three slots for the idle thread and three others: a slot, with the      *)
(* mailbox in it, passes from one thread to another.                       *)
EXTENDS Ipc
=============================================================================
