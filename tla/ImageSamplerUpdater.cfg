CONSTANTS
    Descriptors <- MCDescriptors
    Requests <- MCRequests
    Loading = Loading
    MaxQueued = 1

SPECIFICATION UpdaterSpec

INVARIANTS DescriptorsShowLatest
PROPERTIES EveryUpdateHandled
CHECK_DEADLOCK FALSE
