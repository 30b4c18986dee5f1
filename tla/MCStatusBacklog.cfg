SPECIFICATION Spec
CONSTANTS
    Worker = {w1}
    MaxMessages = 2
INVARIANTS
    RemovedWasPrinted
