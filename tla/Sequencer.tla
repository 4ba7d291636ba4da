----------------------------- MODULE Sequencer -----------------------------
(***************************************************************************)
(* The receiver's Sequencer (src/src/sequencer.c): an ordered linked list  *)
(* of inclusive ranges [firstSeqNo, lastSeqNo] of received sequence        *)
(* numbers, plus maxSeqNo and expectedLastSeqNo.                           *)
(*                                                                         *)
(* The operators are in SequencerOps, shared with Transfer; this module    *)
(* drives them as a stand-alone component through any sequence of calls,  *)
(* with two history variables (added, lastGiven) only properties read.    *)
(*                                                                         *)
(* Sequence numbers are uint32_t in the code.  Arithmetic is kept modulo   *)
(* 2^Width; the code's width is 32, the model uses a smaller Width so that *)
(* TLC can represent UINT32_MAX (the "last not yet known" sentinel) while  *)
(* the wrap-around of firstSeqNo - 1 at 0 still happens as in the code.    *)
(***************************************************************************)
EXTENDS SequencerOps

CONSTANT SeqNos   \* the sequence numbers fed to sequencer_add

ASSUME SeqNos \subseteq 0..(UMax - 1)

-----------------------------------------------------------------------------
VARIABLES
    seq,                \* the LinkedList of ranges
    maxSeqNo,
    expectedLastSeqNo,
    added,              \* history: every n passed to sequencer_add
    lastGiven           \* history: n of the latest add with isLast, or UMax

vars == <<seq, maxSeqNo, expectedLastSeqNo, added, lastGiven>>

TypeOK ==
    /\ seq \in Seq([first : 0..UMax, last : 0..UMax])
    /\ maxSeqNo \in 0..UMax
    /\ expectedLastSeqNo \in 0..UMax
    /\ added \subseteq SeqNos
    /\ lastGiven \in SeqNos \cup {UMax}

\* sequencer_init
Init ==
    /\ seq = <<>>
    /\ maxSeqNo = 0
    /\ expectedLastSeqNo = UMax
    /\ added = {}
    /\ lastGiven = UMax

\* sequencer_add(seq, n, isLast)
Add(n, isLast) ==
    /\ maxSeqNo' = NewMax(maxSeqNo, n, isLast)
    /\ expectedLastSeqNo' = NewExpectedLast(expectedLastSeqNo, n, isLast)
    /\ seq' = AddTo(seq, n)
    /\ added' = added \cup {n}
    /\ lastGiven' = IF isLast THEN n ELSE lastGiven

\* The answer sequencer_complete gives in the current state.
CompleteAnswer == seq # <<>> /\ IsComplete(MergePass(seq), expectedLastSeqNo)

\* sequencer_complete(seq): its merge pass is a state change; its answer is
\* CompleteAnswer, which the caller reads.
Complete ==
    /\ seq' = MergePass(seq)
    /\ UNCHANGED <<maxSeqNo, expectedLastSeqNo, added, lastGiven>>

Next ==
    \/ \E n \in SeqNos, isLast \in BOOLEAN : Add(n, isLast)
    \/ Complete

Spec == Init /\ [][Next]_vars

-----------------------------------------------------------------------------
(* Properties.                                                             *)

\* The ranges are in strictly increasing order and pairwise disjoint: every
\* branch of sequencer_add inserts or extends at the right place.
RangesOrdered ==
    \A i \in 1..Len(seq) :
        /\ seq[i].first <= seq[i].last
        /\ i < Len(seq) => seq[i].last < seq[i+1].first

\* The ranges never claim a sequence number that was never added: extending
\* and merging in sequencer_add and sequencer_complete only join ranges
\* whose union is exactly what was received.
NoPhantomSeqNo == Covered(seq) \subseteq added

\* Whenever sequencer_complete would answer TRUE, the last segment was
\* announced by an add with isLast and every number from 0 up to it was
\* added: a partly merged list can never pass the completeness test.
CompleteMeansReceived ==
    CompleteAnswer => /\ lastGiven # UMax
                      /\ 0..expectedLastSeqNo \subseteq added

\* Every number passed to sequencer_add is covered afterwards.  The scan loop
\* of sequencer_add finds no branch for a number lying below the first range
\* with a gap, and returns without recording it.
AddRecords == added \subseteq Covered(seq)

=============================================================================
