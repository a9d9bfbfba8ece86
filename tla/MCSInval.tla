------------------------------ MODULE MCSInval ------------------------------
(* SInval for TLC.                                                         *)
EXTENDS SInval, TLC

CONSTANTS ra, rb

\* The first command of a transaction changes ra, two later ones rb.
MCSends == {<<ra, rb, rb>>}

=============================================================================
