SPECIFICATION Spec
CONSTANTS
    Versions = {1, 2}
    AENames = {ae1}
    Ports = {1, 2}
    ObjNames <- MCObjNames
    HandleArgs = {1}
    InvokeIds = {3, 4}
    HandleWrap = 3
    InstIdWrap = 3
    InitInstIds = {0, 1}
    NDEBUG = TRUE
    ClientOps = {"remote_open", "remote_close", "remote_read"}
    ClientPorts = {1}
INVARIANTS
    TypeOK
