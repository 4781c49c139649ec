SPECIFICATION Spec
CONSTANTS
    Names <- MCNames
    Account <- MCAccount
    NoUser = "none"
    Nobody = "nobody"
    Root = 0
    MaxFd = 4
    IntMax = 4
INVARIANTS
    DaemonIsDetached
    IdsChangeTogether
    BufferedOutputIsCopied
PROPERTY OneRemains
CHECK_DEADLOCK FALSE
