-------------------------- MODULE MCMvccVisibility --------------------------
(* MvccVisibility for TLC.                                                 *)
EXTENDS MvccInvariant, TLC

=============================================================================
