SPECIFICATION Spec
CONSTANTS
    Size = 32
    BlockSize = 2
    TrialSizes <- MCTrialSizes
    MaxSections = 7
    RowSize = 4
    Signatures <- MCSignatures
    Missing = Missing
    Images <- MCImages
    Devices = {14, 15}
    Accesses <- MCAccesses
INVARIANTS LoadedImage  SectionsFit
