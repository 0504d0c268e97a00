---------------------------- MODULE MCWriteQueue ----------------------------
(* Small instances of WriteQueue: the writes are model values.             *)
EXTENDS WriteQueue
=============================================================================
