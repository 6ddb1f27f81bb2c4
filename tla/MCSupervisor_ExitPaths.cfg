CONSTANTS
    EndReasons <- MCEndReasons
    VerboseTypes <- MCVerboseTypes
    VerboseReasons <- MCVerboseReasons
SPECIFICATION Spec
INVARIANT ResourcesReleasedOnExitPaths
