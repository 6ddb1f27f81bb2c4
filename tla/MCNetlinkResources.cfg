CONSTANT FailPoints <- MCAllPoints
SPECIFICATION Spec
INVARIANTS ReleasesOnlyHeld ShutdownReleasesInReverse
