SPECIFICATION Spec
CONSTANTS
    Conns = {c1, c2}
    Size = 2
    MaxAge = 0
    MaxHandshakes = 4
    MaxTime = 1
SYMMETRY Symmetry
CONSTRAINT InOrder
INVARIANTS
    TypeOK
    
    InUseHasOwner
    
