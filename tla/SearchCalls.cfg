\* Two currencies, two cabins, two calls at a time, two retries, three tokens; two writes, of which
\* one is refused by the guard rails.
CONSTANTS
    eco = eco
    biz = biz
    Currencies = 2
    Cabins = {eco, biz}
    Permits = 2
    MaxRetries = 2
    MaxTokens = 3
    Writes = {w1, w2}
    Blocked = {w2}
    Calls <- MCCalls
SPECIFICATION SearchFairSpec
INVARIANT AnswerIsComplete
PROPERTIES WritesAtMostOnce OAuthOnlyWhenNeeded SearchEnds
CHECK_DEADLOCK FALSE
