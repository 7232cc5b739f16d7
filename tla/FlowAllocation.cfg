SPECIFICATION SystemSpec
CHECK_DEADLOCK FALSE
CONSTANTS
    l1 = l1
    l2 = l2
    r1 = r1
    LocalReqs <- MCLocalReqs
    RemoteReqs <- MCRemoteReqs
    FAIs <- MCFAIs
    PortIds = {1}
    MaxCreateFlowRetries = 1
INVARIANTS
    SystemTypeOK
    AppPortIsFlowPort
    AnsweredAtMostOnce
    PortNotReusedBeforeTeardown
    NoPortLeak
PROPERTIES
    ServedRequestAnswered
    AllocationEventuallyAnswered
    ImplementsIPCPFlow
