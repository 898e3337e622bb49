SPECIFICATION Spec
CONSTANTS
    Fields <- MCFields
    Bound <- MCBound
    Initial <- MCInitial
    Sets <- MCSets
    Logs <- MCLogs
    Cached = 1
    Resources = 1
    Fetches = 2
    Draws = 1
    Requests <- MCRequests
    Bytes = {"?", "a", "b", "n"}
CHECK_DEADLOCK FALSE
INVARIANTS
    StateFollowsSource
    DescriptorsBalanced
