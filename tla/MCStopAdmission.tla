-------------------------- MODULE MCStopAdmission --------------------------
(* Small instances of StopAdmission.                                       *)
EXTENDS StopAdmission
=============================================================================
