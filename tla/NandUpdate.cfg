SPECIFICATION Spec
CONSTANTS
    LoaderTypes = {"nand"}
    HasFip = TRUE
    AppBlk = 1
    SearchBlks = 3
    FipBlk = 5
    PagesPerBlk = 2
    PageSize = 2
    HdrSize = 1
    SignSize = 1
    MaxPages = 3
    Factories <- MCFactories
    Updates <- MCUpdates
    Fips <- MCFips
    Faults <- MCFaults
    Layouts <- MCLayouts
    Flaws <- MCFlaws
INVARIANT UpdatePreferred
