SPECIFICATION Spec
CONSTANTS
    N = 4
    Resource = {"self"}
    Surface = {"gui"}
    Freezes = FALSE
PROPERTIES
    CleanupFencesStarts
