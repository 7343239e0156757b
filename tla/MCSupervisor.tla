---------------------------- MODULE MCSupervisor ----------------------------
(* Values of Supervisor's constants for the runs. *)
EXTENDS Supervisor

MCKin   == {"child", "stray"}
MCNoKin == {}
=============================================================================
