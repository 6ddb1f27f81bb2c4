---------------------------- MODULE MCSupervisor ----------------------------
(* Model-checking instance of Supervisor: one non-client end reason, one   *)
(* other verbose type and one other verbose reason besides the markers.     *)
EXTENDS Supervisor

MCEndReasons == {2, 7}
MCVerboseTypes == {3, 6}
MCVerboseReasons == {2000, 1}
=============================================================================
