SPECIFICATION FairSpec
CONSTANTS
    N = 3
    Frames <- MCFrames
    Bad = {"unknown"}
    None = None
    Need <- MCNeed
    PoolSize = 2
INVARIANTS
    TypeOK
    PbufsConserved
    FilledInOrder
PROPERTIES
    ImplementsFifo
    FramesAreTaken
