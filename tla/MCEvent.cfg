\* Cells: two pending events plus the one being dispatched.
CONSTANTS
    Cells = {c1, c2, c3}
    NULL = NULL
    MaxId = 2
    Datas = {d0, d1}
    Contexts = {req, rsp}
    NoHandler = NoHandler
SPECIFICATION Spec
INVARIANTS TypeOK ListIntact
PROPERTIES ImplementsFifo EveryEventLeaves
