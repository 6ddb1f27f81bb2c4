---------------------------- MODULE MCTunnelConfig ----------------------------
EXTENDS TunnelConfig

\* Every exit code, and the signals of an abort, a kill and a termination.
MCExitCodes == 0 .. 255
MCSignals == {6, 9, 15}

====
