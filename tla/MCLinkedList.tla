---------------------------- MODULE MCLinkedList ----------------------------
(* Three heap cells and two objects: enough for every call on an empty,    *)
(* one-element and full list, duplicates for LinkedListFind, and a freed   *)
(* cell being reused.                                                      *)
EXTENDS LinkedList

CONSTANTS e1, e2, e3, o1, o2

MCElems == {e1, e2, e3}
MCObjs == {o1, o2}
=============================================================================
