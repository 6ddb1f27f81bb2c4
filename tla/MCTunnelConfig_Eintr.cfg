CONSTANTS
    ExitCodes <- MCExitCodes
    Signals <- MCSignals
SPECIFICATION Spec
INVARIANT ChildReapedOnReturn
