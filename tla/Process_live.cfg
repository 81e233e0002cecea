CONSTANTS
    Last = 4
    Prog <- WriteProg
    Succ <- WriteSucc
    Start = 0
    None = None
    Gone = Gone
    SwAddrs = {1, 3}
    HwAddrs = {}
    JumpTo = {}
    Policies <- AnyPolicy
SPECIFICATION FairSpec
PROPERTIES InterruptStops
