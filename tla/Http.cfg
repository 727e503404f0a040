SPECIFICATION Spec
CONSTANTS
    Requests <- MCRequests
    Configs <- MCConfigs
    Parseable = {"home", "gate", "yard"}
    LiveIds = {"live"}
    DeadIds = {"old"}
    MAX_REQUEST_LINE_BYTES = 5
    MAX_HEADER_BYTES = 14
    MAX_HEADER_COUNT = 4
    MAX_BODY_BYTES = 25
INVARIANTS
    ActsAsAsked
    OneReply
PROPERTIES
    ServedOrClosed
CHECK_DEADLOCK FALSE
