---------------------------- MODULE MCTransfer ----------------------------
(* Model-checking instance of Transfer.  The number of segments, the loss *)
(* and coalescing bounds and the buffer capacities are set per run in the *)
(* .cfg files; the word is 3 bits wide, so that UINT32_MAX = 7 lies above *)
(* every seq_no of a partition of up to 4 segments.                      *)
EXTENDS Transfer

MCWidth == 3
=============================================================================
