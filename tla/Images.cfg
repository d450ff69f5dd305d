SPECIFICATION ImagesSpec
CONSTANTS
    ClientIds = {1}
    Numbers = {7}
    PlacementIds = {1}
    Media = {"direct", "file"}
    ImageSizes = {1, 2}
    StorageLimit = 2
    FrameFactor = 1
    MaxImages = 3
    MaxFrameIds = 2
    MaxTouched = 3
    Gaps = {0, 1}
    MaxFrames = 3
    MaxIds = 4
    Loops = {0, 1, 2}
INVARIANTS
    
    
    ScansEnd
PROPERTIES
    GoesOnlyForSpace
