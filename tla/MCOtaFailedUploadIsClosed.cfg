SPECIFICATION Spec
CONSTANTS
    Chunks = 2
    MaxTimeouts = 3
INVARIANT
    FailedUploadIsClosed
