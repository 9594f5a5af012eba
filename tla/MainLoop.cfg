SPECIFICATION FairSpec
CONSTANTS
    c1 = c1
    c2 = c2
    f1 = f1
    f2 = f2
    Conn <- Conn2
    Fd <- Fd2
    None = None
    Loiter = 1
    ForkErrors = {"EAGAIN", "ENOMEM"}
    MaxBacklog = 1
INVARIANTS TypeOK NoUseAfterFree DescriptorsAgree
PROPERTIES ReapedUnlessCaught
