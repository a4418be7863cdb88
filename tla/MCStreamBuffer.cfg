CONSTANTS
    BUFFCNT = 4
    Bps = 2
    Period = 9
    Sizes = {1, 3}
    Lens = {1, 2}
SPECIFICATION Spec
INVARIANTS TypeOK RingInOrder
PROPERTIES ReadReturns StreamGoesOn
VIEW Observable
