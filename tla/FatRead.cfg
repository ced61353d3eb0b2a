SPECIFICATION Spec
CONSTANTS
    Bps = 4
    SectsPerClus = {1, 4}
    Clusters <- MCClusters
    MaxClusters = 3
    Fat32Ends <- MCFat32Ends
    Fat16Ends <- MCFat16Ends
    Offsets <- MCOffsets
    Lengths <- MCLengths
    MaxLost = 1
INVARIANTS ReadsFile WritesInside
