CONSTANTS
    e1 = e1
    e2 = e2
    e3 = e3
    o1 = o1
    o2 = o2
    Anchor = Anchor
    NULL = NULL
    Elems <- MCElems
    Objs <- MCObjs
SPECIFICATION Spec
INVARIANT TypeOK
INVARIANT WellFormed
INVARIANT QueriesAgree
PROPERTY ImplementsListSpec
