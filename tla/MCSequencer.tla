---------------------------- MODULE MCSequencer ----------------------------
(* Model-checking instance of Sequencer: five sequence numbers and a 4-bit *)
(* word, so every order of arrival of 0..4 (with and without isLast) is    *)
(* explored and firstSeqNo - 1 wraps to UMax = 15 at 0 as in the code.     *)
EXTENDS Sequencer

MCWidth == 4
MCSeqNos == 0..4
=============================================================================
