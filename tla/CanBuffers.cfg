CONSTANTS
    WordCount = 1
    MaxReadAttempts = 3
    MaxPublications = 3
SPECIFICATION Spec
INVARIANT DeliversValidated
