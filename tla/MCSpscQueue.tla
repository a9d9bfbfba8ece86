---------------------------- MODULE MCSpscQueue ----------------------------
(* SpscQueue for TLC.                                                      *)
EXTENDS SpscQueue, TLC

=============================================================================
