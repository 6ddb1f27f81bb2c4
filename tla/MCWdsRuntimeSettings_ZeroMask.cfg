CONSTANTS
    Width = 8
    Masks <- MCContiguousMasks
    V6Prefixes = {0, 64, 128}
    PrefixFloor <- MCPrefixFloor
SPECIFICATION Spec
PROPERTY
    GetRuntimeSettingsReturns
