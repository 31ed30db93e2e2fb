CONSTANTS
    N = 3
    W = 2
    Nil = Nil
    Histories <- MCHistories
SPECIFICATION Spec
INVARIANT AnswerCorrect
INVARIANT ListIntact
INVARIANT CallsLegal
INVARIANT LargestIsLongest
PROPERTY Terminates
