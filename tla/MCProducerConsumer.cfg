CONSTANT
    NumLetters = 5
SPECIFICATION Spec
INVARIANTS
    QueueShape
    EachLetterOnce
    DestroyedLast
PROPERTY
    MainReturns
