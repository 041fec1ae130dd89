SPECIFICATION Spec
CONSTANTS
    i1 = i1
    i2 = i2
    w1 = w1
    w2 = w2
    Id = {i1, i2}
    Question = {i1}
    Waiter = {w1, w2}
    ReadFails = TRUE
SYMMETRY Symmetry
INVARIANTS WokenIsSettled 
