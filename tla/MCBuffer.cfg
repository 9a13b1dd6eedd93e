SPECIFICATION FairSpec
CONSTANTS
    Size = 3
    Byte = {0, 1}
    Zero = 0
    MarkerId = {1, 2}
    MaxSlice = 2
    MaxAdded = 6
INVARIANTS TypeOK RingHoldsLatest LiveMarkerExact LoopCopiesInOrder
PROPERTIES GetEndsOffSlotZero LogSpec
