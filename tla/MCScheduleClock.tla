-------------------------- MODULE MCScheduleClock --------------------------
(* Small instances of ScheduleClock.                                       *)
EXTENDS ScheduleClock

(* Every operation on every scheduler.                                     *)
AllRequests == {"enable", "disable", "triggerOn", "triggerOff", "down", "apply"} \X Schedulers
=============================================================================
