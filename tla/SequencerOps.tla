---------------------------- MODULE SequencerOps ----------------------------
(***************************************************************************)
(* The pure part of src/src/sequencer.c: a range list r is the LinkedList  *)
(* of sequencer_item_t {firstSeqNo, lastSeqNo}, as a sequence of records.  *)
(* Each operator computes what one function of sequencer.c does to, or     *)
(* reads from, that list.  uint32_t arithmetic is modulo 2^Width.          *)
(***************************************************************************)
EXTENDS Naturals, Sequences, SequencesExt

CONSTANT Width   \* bit width used for the uint32_t arithmetic

UMax == 2^Width - 1          \* UINT32_MAX
Inc(x) == (x + 1) % 2^Width  \* x + 1 on uint32_t
Dec(x) == (x + 2^Width - 1) % 2^Width  \* x - 1 on uint32_t

ASSUME Width \in Nat \ {0}

\* a sequencer_item_t, created by create_sequencer_range
SeqRange(f, l) == [first |-> f, last |-> l]

\* sequencer_check: some range covers n.
Check(r, n) == \E i \in 1..Len(r) : r[i].first <= n /\ n <= r[i].last

\* The set of sequence numbers the ranges cover.
Covered(r) == UNION {r[i].first..r[i].last : i \in 1..Len(r)}

\* Fault variant of Branch: the append branch omits its test
\* item->lastSeqNo < seqNo.
BranchAppendUnchecked(r, i, n) ==
    IF Inc(r[i].last) = n THEN "extendLast"
    ELSE IF Dec(r[i].first) = n THEN "extendFirst"
    ELSE IF i < Len(r) /\ r[i].last < n /\ n < r[i+1].first THEN "insertBetween"
    ELSE IF i = Len(r) THEN "append"
    ELSE "none"

\* The branch of the scan loop of sequencer_add taken at element i, in the
\* order the code tests them; "none" when the loop moves on.
Branch(r, i, n) ==
    IF Inc(r[i].last) = n THEN "extendLast"
    ELSE IF Dec(r[i].first) = n THEN "extendFirst"
    ELSE IF i < Len(r) /\ r[i].last < n /\ n < r[i+1].first THEN "insertBetween"
    ELSE IF i = Len(r) /\ r[i].last < n THEN "append"
    ELSE "none"

\* The first element at which the scan loop returns, 0 if it runs off the end.
FirstHit(r, n) ==
    LET I == {i \in 1..Len(r) : Branch(r, i, n) # "none"}
    IN  IF I = {} THEN 0 ELSE Min(I)

\* Fault variant of ExtendLast: absorbs the next range without testing
\* nextItem->firstSeqNo - 1 == item->lastSeqNo.
ExtendLastAlwaysMerge(r, i, n) ==
    IF i < Len(r)
    THEN RemoveAt([r EXCEPT ![i].last = r[i+1].last], i+1)
    ELSE [r EXCEPT ![i].last = n]

\* Extend range i at its end to n, then absorb range i+1 if now adjacent.
ExtendLast(r, i, n) ==
    IF i < Len(r) /\ Dec(r[i+1].first) = n
    THEN RemoveAt([r EXCEPT ![i].last = r[i+1].last], i+1)
    ELSE [r EXCEPT ![i].last = n]

\* Fault variant of ExtendFirst: item->firstSeqNo = seqNo - 1.
ExtendFirstOffByOne(r, i, n) ==
    IF i > 1 /\ Inc(r[i-1].last) = n
    THEN RemoveAt([r EXCEPT ![i].first = r[i-1].first], i-1)
    ELSE [r EXCEPT ![i].first = n - 1]

\* Extend range i at its start to n, then absorb range i-1 if now adjacent.
ExtendFirst(r, i, n) ==
    IF i > 1 /\ Inc(r[i-1].last) = n
    THEN RemoveAt([r EXCEPT ![i].first = r[i-1].first], i-1)
    ELSE [r EXCEPT ![i].first = n]

\* The range list after the list part of sequencer_add(n).
AddTo(r, n) ==
    IF Check(r, n) THEN r
    ELSE IF r = <<>> THEN <<SeqRange(n, n)>>
    ELSE LET i == FirstHit(r, n)
         IN  IF i = 0 THEN r
             ELSE CASE Branch(r, i, n) = "extendLast"    -> ExtendLast(r, i, n)
                    [] Branch(r, i, n) = "extendFirst"   -> ExtendFirst(r, i, n)
                    [] Branch(r, i, n) = "insertBetween" -> InsertAt(r, i+1, SeqRange(n, n))
                    [] Branch(r, i, n) = "append"        -> Append(r, SeqRange(n, n))

\* The header part of sequencer_add: maxSeqNo and expectedLastSeqNo.
NewMax(max, n, isLast) ==
    IF isLast THEN n ELSE IF max < n THEN n ELSE max
NewExpectedLast(exp, n, isLast) == IF isLast THEN n ELSE exp

\* The merge pass of sequencer_complete: each element absorbs its successor
\* when adjacent, and the scan resumes after the absorbed element.
RECURSIVE MergePass(_)
MergePass(r) ==
    IF Len(r) < 2 THEN r
    ELSE IF Inc(r[1].last) = r[2].first
         THEN <<SeqRange(r[1].first, r[2].last)>> \o MergePass(Tail(Tail(r)))
         ELSE <<r[1]>> \o MergePass(Tail(r))

\* Fault variant of IsComplete: the test item->firstSeqNo == 0 is missing.
IsCompleteAnyStart(r, exp) ==
    /\ Len(r) = 1
    /\ r[1].last = exp

\* The verdict of sequencer_complete on an already merged list.
IsComplete(r, exp) ==
    /\ Len(r) = 1
    /\ r[1].first = 0
    /\ r[1].last = exp

\* sequencer_iterate_missing_segments: the numbers it calls back with.
MissingSegments(r, max) ==
    IF r = <<>> THEN {} ELSE {n \in 0..(max - 1) : ~Check(r, n)}

=============================================================================
