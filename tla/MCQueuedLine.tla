---------------------------- MODULE MCQueuedLine ----------------------------
(* Small instances of QueuedLine for TLC. *)
EXTENDS QueuedLine

=============================================================================
