CONSTANTS
    Width = 8
    Masks <- MCNonZeroMasks
    V6Prefixes = {0, 64, 128}
    PrefixFloor <- MCPrefixFloor
SPECIFICATION Spec
INVARIANT
    V4PrefixMatchesMask
PROPERTIES
    GetRuntimeSettingsReturns
    RefinesContract
