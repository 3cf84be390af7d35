-------------------------- MODULE MCEventDelivery --------------------------
(* Small instances of EventDelivery.                                       *)
EXTENDS EventDelivery

CONSTANTS Serial, Fanned

(* Trigger 2 belongs to the scheduler that runs one run at a time, the     *)
(* others to the parallel one.                                             *)
MCSchedulerOf == [t \in Targets |-> IF t = 2 THEN Serial ELSE Fanned]

(* The second event reaches the serial scheduler only.                     *)
SubscribeSerial == {[e \in Events |-> IF e = 2 THEN Targets \cap {2} ELSE Targets]}
(* The first event reaches both schedulers and the third nobody, or the    *)
(* first nobody and the third the parallel scheduler.                      *)
SubscribeOne ==
    {[e \in Events |-> IF e = 1 THEN Targets ELSE {}],
     [e \in Events |-> IF e = 3 THEN {1} ELSE {}]}
=============================================================================
