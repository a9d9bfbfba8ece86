--------------------------- MODULE MCGroupClearXid ---------------------------
(* GroupClearXid for TLC. *)
EXTENDS GroupClearXid, TLC

=============================================================================
