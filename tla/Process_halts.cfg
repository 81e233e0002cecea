CONSTANTS
    Last = 4
    Prog <- WriteProg
    Succ <- WriteSucc
    Start = 0
    None = None
    Gone = Gone
    SwAddrs = {1}
    HwAddrs = {}
    JumpTo = {}
    Policies <- OnlyAll
SPECIFICATION Spec
PROPERTIES HaltsTwicePerSyscall
