----------------------------- MODULE LinkedList -----------------------------
(***************************************************************************)
(* The circular doubly linked list of src/src/linked_list.c at the level   *)
(* of its pointers.  A list is an anchor element whose next and prev point *)
(* to the first and last element, or to itself when the list is empty.     *)
(* Elements are cells from the heap (Elems): malloc picks a free cell,     *)
(* free returns it; a freed cell keeps its stale fields.                   *)
(*                                                                         *)
(* One action per call that changes the list; the queries are operators.   *)
(* An element passed to a call is one the caller got from the list (by     *)
(* LinkedListFirst, Next, Prev, Last or Find), or NULL where the code      *)
(* allows it.  op is a history variable: the call just made, stated on the *)
(* abstract list, which the refinement to ListSpec checks.                 *)
(***************************************************************************)
EXTENDS Naturals, Sequences, SequencesExt, FiniteSets

CONSTANTS
    Objs,       \* the objects stored (void *obj)
    Elems,      \* heap cells malloc can return for LinkedListElem
    Anchor,     \* the anchor element embedded in the LinkedList struct
    NULL

Nodes == Elems \cup {Anchor}

VARIABLES next, prev, obj, num_members, allocated, op

vars == <<next, prev, obj, num_members, allocated, op>>

-----------------------------------------------------------------------------
(* The list as its callers see it: the elements met walking next from the  *)
(* anchor.  The walk is cut after |Elems| + 1 steps so that it is defined  *)
(* on a broken list too.                                                   *)

RECURSIVE WalkFrom(_, _)
WalkFrom(n, k) == IF n = Anchor \/ k = 0 THEN <<>>
                  ELSE <<n>> \o WalkFrom(next[n], k - 1)

Members == WalkFrom(next[Anchor], Cardinality(Elems) + 1)

AbsList == [i \in 1..Len(Members) |-> obj[Members[i]]]

Index(e) == CHOOSE i \in 1..Len(Members) : Members[i] = e

Call(name, o, i) == [name |-> name, obj |-> o, pos |-> i]

-----------------------------------------------------------------------------
(* Queries.                                                                *)

\* LinkedListEmpty
LinkedListEmpty == next[Anchor] = Anchor /\ prev[Anchor] = Anchor

\* LinkedListLength
LinkedListLength == num_members

\* LinkedListFirst
LinkedListFirst == IF LinkedListEmpty THEN NULL ELSE next[Anchor]

\* LinkedListLast
LinkedListLast == IF LinkedListEmpty THEN NULL ELSE prev[Anchor]

\* LinkedListNext
LinkedListNext(e) == IF next[e] = Anchor THEN NULL ELSE next[e]

\* LinkedListPrev
LinkedListPrev(e) == IF prev[e] = Anchor THEN NULL ELSE prev[e]

\* Mutant: the scan starts at the second element.
LinkedListFindSkipsFirst(o) ==
    LET RECURSIVE Scan(_, _)
        Scan(e, k) == IF e = NULL \/ k = 0 THEN NULL
                      ELSE IF obj[e] = o THEN e ELSE Scan(LinkedListNext(e), k - 1)
    IN IF LinkedListEmpty THEN NULL
       ELSE Scan(LinkedListNext(LinkedListFirst), Cardinality(Elems))

\* LinkedListFind: the first element whose obj is o, or NULL.
LinkedListFind(o) ==
    LET RECURSIVE Scan(_, _)
        Scan(e, k) == IF e = NULL \/ k = 0 THEN NULL
                      ELSE IF obj[e] = o THEN e ELSE Scan(LinkedListNext(e), k - 1)
    IN IF LinkedListEmpty THEN NULL ELSE Scan(LinkedListFirst, Cardinality(Elems))

-----------------------------------------------------------------------------
(* Calls that change the list.                                             *)

\* Mutant: the caller never memsets the struct, so num_members is stale.
InitWithoutMemset ==
    /\ next = [n \in Nodes |-> Anchor]
    /\ prev = [n \in Nodes |-> Anchor]
    /\ obj = [e \in Elems |-> NULL]
    /\ num_members \in {0, 7}
    /\ allocated = {}
    /\ op = Call("clear", NULL, 0)

\* memset(list, 0, ...) then LinkedListInit, as the callers do.
Init ==
    /\ next = [n \in Nodes |-> Anchor]
    /\ prev = [n \in Nodes |-> Anchor]
    /\ obj = [e \in Elems |-> NULL]
    /\ num_members = 0
    /\ allocated = {}
    /\ op = Call("clear", NULL, 0)

\* Link the fresh cell c between a and b (a.next = b before the call).
LinkBetween(c, a, b) ==
    /\ next' = [next EXCEPT ![c] = b, ![a] = c]
    /\ prev' = [prev EXCEPT ![c] = a, ![b] = c]

\* The bookkeeping every successful insertion of o into cell c does.
Allocate(c, o) ==
    /\ obj' = [obj EXCEPT ![c] = o]
    /\ allocated' = allocated \cup {c}
    /\ num_members' = num_members + 1

\* LinkedListAppend: malloc is not checked, so a cell is always obtained.
LinkedListAppend(o) ==
    \E c \in Elems \ allocated :
        /\ IF LinkedListEmpty THEN LinkBetween(c, Anchor, Anchor)
           ELSE LinkBetween(c, prev[Anchor], Anchor)
        /\ Allocate(c, o)
        /\ op' = Call("append", o, Len(AbsList) + 1)

\* LinkedListPrepend
LinkedListPrepend(o) ==
    \E c \in Elems \ allocated :
        /\ IF LinkedListEmpty THEN LinkBetween(c, Anchor, Anchor)
           ELSE LinkBetween(c, Anchor, next[Anchor])
        /\ Allocate(c, o)
        /\ op' = Call("prepend", o, 1)

\* malloc returns NULL: LinkedListInsertAfter/Before return FALSE.
MallocFails(o) ==
    /\ op' = Call("failed", o, 0)
    /\ UNCHANGED <<next, prev, obj, num_members, allocated>>

\* LinkedListInsertAfter: NULL means append.
LinkedListInsertAfter(o, e) ==
    IF e = NULL THEN LinkedListAppend(o)
    ELSE \/ MallocFails(o)
         \/ \E c \in Elems \ allocated :
               /\ LinkBetween(c, e, next[e])
               /\ Allocate(c, o)
               /\ op' = Call("insert", o, Index(e) + 1)

\* Mutant: the new cell is linked after elem instead of before it.
LinkedListInsertBeforeLinksAfter(o, e) ==
    IF e = NULL THEN LinkedListPrepend(o)
    ELSE \/ MallocFails(o)
         \/ \E c \in Elems \ allocated :
               /\ LinkBetween(c, e, next[e])
               /\ Allocate(c, o)
               /\ op' = Call("insert", o, Index(e))

\* LinkedListInsertBefore: NULL means prepend.
LinkedListInsertBefore(o, e) ==
    IF e = NULL THEN LinkedListPrepend(o)
    ELSE \/ MallocFails(o)
         \/ \E c \in Elems \ allocated :
               /\ LinkBetween(c, prev[e], e)
               /\ Allocate(c, o)
               /\ op' = Call("insert", o, Index(e))

\* Mutant: the back link of the successor is not repaired.
LinkedListUnlinkNoBackLink(e) ==
    IF LinkedListEmpty THEN UNCHANGED vars
    ELSE /\ next' = [next EXCEPT ![prev[e]] = next[e]]
         /\ UNCHANGED prev
         /\ num_members' = num_members - 1
         /\ allocated' = allocated \ {e}
         /\ op' = Call("remove", obj[e], Index(e))
         /\ UNCHANGED obj

\* LinkedListUnlink: unlink elem and free it; the object is kept.
LinkedListUnlink(e) ==
    IF LinkedListEmpty THEN UNCHANGED vars
    ELSE /\ next' = [next EXCEPT ![prev[e]] = next[e]]
         /\ prev' = [prev EXCEPT ![next[e]] = prev[e]]
         /\ num_members' = num_members - 1
         /\ allocated' = allocated \ {e}
         /\ op' = Call("remove", obj[e], Index(e))
         /\ UNCHANGED obj

\* LinkedListUnlinkAll: LinkedListUnlink of every element, first to last.
\* Each unlink of the current first element re-points the anchor; the
\* freed cells keep their fields.
LinkedListUnlinkAll ==
    /\ next' = [next EXCEPT ![Anchor] = Anchor]
    /\ prev' = [prev EXCEPT ![Anchor] = Anchor]
    /\ num_members' = num_members - Len(Members)
    /\ allocated' = allocated \ ToSet(Members)
    /\ op' = Call("clear", NULL, 0)
    /\ UNCHANGED obj

Next ==
    \/ \E o \in Objs :
          \/ LinkedListAppend(o)
          \/ LinkedListPrepend(o)
          \/ \E e \in ToSet(Members) \cup {NULL} :
                LinkedListInsertAfter(o, e) \/ LinkedListInsertBefore(o, e)
    \/ \E e \in ToSet(Members) : LinkedListUnlink(e)
    \/ LinkedListUnlinkAll

Spec == Init /\ [][Next]_vars

-----------------------------------------------------------------------------
(* Properties.                                                             *)

Abs == INSTANCE ListSpec WITH list <- AbsList, Capacity <- Cardinality(Elems),
                              NoObj <- NULL

TypeOK ==
    /\ next \in [Nodes -> Nodes]
    /\ prev \in [Nodes -> Nodes]
    /\ obj \in [Elems -> Objs \cup {NULL}]
    /\ num_members \in 0..Cardinality(Elems)
    /\ allocated \subseteq Elems
    /\ op \in Abs!Ops

\* After any sequence of calls the pointers form one cycle through the
\* anchor: walking next returns to the anchor, prev is the inverse of next
\* along it, the cells on it are exactly the allocated ones (nothing leaks
\* or is freed while linked), and num_members counts them.
WellFormed ==
    LET m == Members
        n == Len(m)
    IN /\ n <= Cardinality(Elems)
       /\ prev[Anchor] = IF n = 0 THEN Anchor ELSE m[n]
       /\ \A i \in 1..n : prev[m[i]] = IF i = 1 THEN Anchor ELSE m[i - 1]
       /\ ToSet(m) = allocated
       /\ num_members = n

\* The queries answer as the list they stand for: LinkedListEmpty, Length,
\* First and Last, LinkedListPrev stepping back along it, and
\* LinkedListFind returning the first element holding the object.
QueriesAgree ==
    LET l == AbsList IN
    /\ LinkedListEmpty <=> l = <<>>
    /\ LinkedListLength = Len(l)
    /\ l # <<>> => /\ obj[LinkedListFirst] = Head(l)
                   /\ obj[LinkedListLast] = l[Len(l)]
    /\ \A i \in 1..Len(l) :
          LinkedListPrev(Members[i]) = IF i = 1 THEN NULL ELSE Members[i - 1]
    /\ \A o \in Objs :
          IF \E i \in 1..Len(l) : l[i] = o
          THEN LET f == LinkedListFind(o)
               IN f # NULL /\ Index(f) = SelectInSeq(l, LAMBDA x : x = o)
          ELSE LinkedListFind(o) = NULL

\* Refinement: every call changes the list exactly as ListSpec says for
\* that call at that position (append at the end, prepend at the front,
\* insert before or after an element, unlink it, unlink all, or nothing
\* when malloc fails).
ImplementsListSpec == Abs!Spec

=============================================================================
