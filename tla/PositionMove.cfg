\* Sequences of moves in both directions; three commands in any order, two at once.
SPECIFICATION MCSpec
CONSTANTS
    UNIT = 4
    WORD_RANGE = 4
    MAX_POSITIONING_PULSES = 7
    Differences <- MCDifferences
    MOVES_BOUND = 4
    web = web
    input = input
    None = None
INVARIANTS
    ErrorBelowOnePulse
    ForwardMovesAddUp
    CommandFits
PROPERTIES
    CommandsTakeEffect
CHECK_DEADLOCK FALSE
