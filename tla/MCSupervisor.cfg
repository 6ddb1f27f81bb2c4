CONSTANTS
    EndReasons <- MCEndReasons
    VerboseTypes <- MCVerboseTypes
    VerboseReasons <- MCVerboseReasons
SPECIFICATION Spec
INVARIANTS
    TeardownOnlyOnNetworkEnd
    SessionNesting
PROPERTIES
    ChronyStartOrder
    TeardownLeadsToRelease
    NetworkEndLeadsToRelease
    ExitLeadsToTermination
