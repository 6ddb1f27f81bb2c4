-------------------------- MODULE MCNetlinkResources --------------------------
EXTENDS NetlinkResources

\* Every acquisition and every fallible call may fail.
MCAllPoints == Range(Points)

====
