--------------------------- MODULE MCCrashRecovery ---------------------------
(* CrashRecovery for TLC.                                                  *)
EXTENDS CrashRecovery

CONSTANTS x1, x2, a

MCPageOf == [x \in Xids |-> a]

MCRequests == {<<"full">>, <<"timed">>, <<"incremental", "incremental">>}

=============================================================================
