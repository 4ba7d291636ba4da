------------------------------ MODULE ListSpec ------------------------------
(***************************************************************************)
(* What the doubly linked list of src/src/linked_list.c promises its       *)
(* callers: an ordered sequence of objects (duplicates allowed) on which   *)
(* each call acts at a known position.  op records the call just made and  *)
(* where it acted, so each call is tied to the change it must cause.       *)
(***************************************************************************)
EXTENDS Naturals, Sequences, SequencesExt

CONSTANTS
    Objs,       \* the objects callers store (void *obj)
    Capacity,   \* at most this many elements exist at once
    NoObj       \* placeholder for op fields a call does not have

VARIABLES list, op

Ops == [name : {"append", "prepend", "insert", "remove", "clear", "failed"},
        obj : Objs \cup {NoObj}, pos : Nat]

Call(name, o, i) == [name |-> name, obj |-> o, pos |-> i]

Init ==
    /\ list = <<>>
    /\ op = Call("clear", NoObj, 0)

AppendA(o) ==
    /\ Len(list) < Capacity
    /\ list' = Append(list, o)
    /\ op' = Call("append", o, Len(list) + 1)

PrependA(o) ==
    /\ Len(list) < Capacity
    /\ list' = <<o>> \o list
    /\ op' = Call("prepend", o, 1)

\* Insert o so that it becomes element i.
InsertA(o, i) ==
    /\ Len(list) < Capacity
    /\ i \in 1..(Len(list) + 1)
    /\ list' = InsertAt(list, i, o)
    /\ op' = Call("insert", o, i)

RemoveA(i) ==
    /\ i \in 1..Len(list)
    /\ list' = RemoveAt(list, i)
    /\ op' = Call("remove", list[i], i)

ClearA ==
    /\ list' = <<>>
    /\ op' = Call("clear", NoObj, 0)

\* An insertion whose allocation failed leaves the list as it was.
FailedA(o) ==
    /\ list' = list
    /\ op' = Call("failed", o, 0)

Next ==
    \/ \E o \in Objs : AppendA(o) \/ PrependA(o) \/ FailedA(o)
    \/ \E o \in Objs, i \in 1..(Len(list) + 1) : InsertA(o, i)
    \/ \E i \in 1..Len(list) : RemoveA(i)
    \/ ClearA

Spec == Init /\ [][Next]_<<list, op>>

=============================================================================
