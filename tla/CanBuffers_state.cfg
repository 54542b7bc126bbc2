CONSTANTS
    WordCount = 2
    MaxReadAttempts = 3
    MaxPublications = 2
SPECIFICATION Spec
INVARIANT NoTornRead
