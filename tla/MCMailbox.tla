----------------------------- MODULE MCMailbox -----------------------------
(* A mailbox of three slots that two threads have owned in turn.           *)
EXTENDS Mailbox, TLC

CONSTANTS owner1, owner2

MCReceivers == {<<owner1, 1>>, <<owner2, 2>>}

=============================================================================
