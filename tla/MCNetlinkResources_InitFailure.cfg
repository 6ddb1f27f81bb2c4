CONSTANT FailPoints = {"ifindex_check", "set_local4", "wg0_self_address"}
SPECIFICATION Spec
INVARIANT UnwindReleasesInReverse
