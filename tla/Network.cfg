SPECIFICATION Spec
CONSTANTS
    Lines <- MCLines
    MaxLines = 5
    NameLen = 8
    Octets = 4
    MaxOctet = 255
    MaxPort = 65535
    MaxInt = 99999
    Bridges <- MCBridges
    Datagrams <- MCDatagrams
    Segments <- MCSegments
    Answers <- MCAnswers
    AddrLists <- MCAddrLists
    Deployments <- MCDeployments
    OwnPort = 40001
    Capacity = 4
    Window = 1
    MaxSlaves = 2
    MaxPackets = 2
    MaxCaptures = 4
    MaxTime = 2
INVARIANTS
    ConfigUsable
    StationsUnmixed
    ScansAgree
    FilterExact
    OneReplyPerQuery
    OwnNumberAnswered
    FramesUnderstood
