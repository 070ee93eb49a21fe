SPECIFICATION Spec
CONSTANTS
    CapacityBytes = 10
    Base = 3
    Requests <- MCRequests
    Pointers <- MCPointers
INVARIANTS
    FreeOrHeld
    HeldSlotsAreUsable
