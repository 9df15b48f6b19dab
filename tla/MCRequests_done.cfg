SPECIFICATION RequestsSpec
CONSTANTS
    RequestId = 7
    MaxCalls = 2
    MaxOthers = 1
    Billed <- MCBilled
    Balances <- MCBalances
    Questions <- MCQuestions
    MaxTurns = 3
    Answers <- MCAnswers
    Searches <- MCSearches
    Limits <- MCLimits
    Budget = 14
    MarkerSize = 3
    NoteSize = 2
    HintSize = 2
INVARIANTS
    EveryStreamEndsWithDone
CHECK_DEADLOCK FALSE
