SPECIFICATION Spec
CONSTANTS
    HeadLen = 3
    FlagLen = 1
    MarkLen = 1
    SegLen = 2
    Requests = {0, 2, 5}
    Payloads = {0, 2}
    ReadSizes = {1, 3}
    MaxPackets = 4
    MaxInterrupts = 1
INVARIANTS
    TypeOK
    FrameKept
    PayloadConserved
    RequestWhole
    ResendRepeats
PROPERTIES
    StreamSpec
