CONSTANTS
    a1 = a1
    b1 = b1
    A = A
    B = B
    Tokens <- TwoTokens
    Users = {A, B}
    Owner <- TwoOwners
    OtherTokens <- NoOtherTab
    MaxRequests = 1
    NoToken = NoToken
    NoUser = NoUser
    NoFetch = NoFetch
SPECIFICATION Spec
INVARIANT ConversationsShownAreOwn
CHECK_DEADLOCK FALSE
