------------------------ MODULE MCProcessedMessages ------------------------
(* Small instances of ProcessedMessages for TLC.  The cfg files choose how  *)
(* many rounds overlap and which faults happen.                             *)
EXTENDS ProcessedMessages

CONSTANTS m1, m2, r1, r2
=============================================================================
