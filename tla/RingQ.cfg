CONSTANTS
    Size = 3
    Elem = {b1, b2}
    NoElem = NoElem
SPECIFICATION RingSpec
INVARIANTS CountIsSafe
PROPERTIES ImplementsFifo
