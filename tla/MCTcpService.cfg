SPECIFICATION Spec
CONSTANTS
    c1 = c1
    c2 = c2
    Conns = {c1, c2}
    Kids = {k1, k2}
    NoConn = NoConn
    Bytes = {1}
    MaxBytes <- MCMaxBytes
    Moody = {c1}
    Offered <- MCOffered
    MaxRequest = 2
    MaxSteps = 2
    ReadTimeout = 1
    Initial <- MCInitial
    Stateful <- MCStateful
    Stateless <- MCStateless
INVARIANTS
    ConversationFollowsSource
    ReadLifetimeBounded
    NoDescriptorLeak
CHECK_DEADLOCK FALSE
PROPERTIES
    ForkedNeverMonopolised
    ConversationEnds
