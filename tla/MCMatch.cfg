SPECIFICATION MatchSpec
CONSTANTS
    Vid = {v1, v2, v3, v4}
    None = None
    Score = {0, 4, 5, 6, 7, 8, 9, 10, 11}
    Floor <- MinusOne
    MATCH_REJECT = 7
    MATCH_ACCEPT = 9
    AMBIGUOUS_MARGIN = 2
INVARIANTS
    OneAnswer
PROPERTIES
    NoStolenMatch
