SPECIFICATION Spec
INVARIANTS
    PacketsCorrect
PROPERTIES
    RelaysProgress
    TcpProgress
    TimersProgress
    NetworkSettles
CHECK_DEADLOCK FALSE
