CONSTANTS
    Archives <- MCArchives
    MaxPages <- MCMaxPages
    Attempts = 4
SPECIFICATION Spec
INVARIANT AnswerIsWhole
PROPERTY EverySweepEnds
