CONSTANTS
    Last = 4
    Prog <- TrapProg
    Succ <- TrapSucc
    Start = 0
    None = None
    Gone = Gone
    SwAddrs = {1, 2}
    HwAddrs = {0, 3}
    JumpTo = {0}
    Policies <- AnyPolicy
SPECIFICATION Spec
INVARIANTS TypeOK SitesInMemory RegistersCoherent EnabledAsWanted SyscallPhase DeathIsTold
PROPERTIES NoMissedBreakpoint BreakpointIsReal Transparency
