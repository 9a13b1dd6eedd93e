SPECIFICATION FairSpec
CONSTANTS
    Cmd = {c1, c2, c3}
    Pid = {p1, p2, p3}
    NoFile = NoFile
    Empty = Empty
    OneByOne = TRUE
INVARIANTS TypeOK AtMostOneAgent PidfileNamesAgent SocketIsTheAgents
PROPERTIES SignalledAgentEnds
CHECK_DEADLOCK FALSE
