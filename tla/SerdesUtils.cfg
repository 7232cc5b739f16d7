SPECIFICATION Spec
CONSTANTS
    ByteBits = 1
    Layouts <- MCLayouts
    NumEntries = 4
    Strings <- MCStrings
    JunkLen = 2
    PolicyStrings <- MCPolicyStrings
    MaxPolicyParams = 0
    DtcpConfigs <- MCDtcpConfigs
    Null = Null
    Colon = Colon
    Letters = {"a", "b"}
    MaxStrLen = 5
INVARIANTS
    TypeOK
    SerlenMatches
    RoundTrip
    WrongLengthRejected
    NameStringRoundTrip
    SernameValidMeansFields
    ValidNameValidString
    CmpIsEquality
