SPECIFICATION FairSpec
CONSTANTS
    Size = 3
    Byte = {0, 1}
    Zero = 0
    MarkerId = {1, 2}
    MaxSlice = 2
    MaxAdded = 5
PROPERTIES GetReturns
