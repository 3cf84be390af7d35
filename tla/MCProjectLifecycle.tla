----------------------- MODULE MCProjectLifecycle -----------------------
(* Small instances of ProjectLifecycle.  Spec 1 has two schedulers, both   *)
(* enabled; spec 2 keeps the second one, disabled, and drops the first.    *)
EXTENDS ProjectLifecycle, TLC

TwoSpecs == {1, 2}
TwoSchedulers == {1, 2}
Contents == [p \in TwoSpecs |-> IF p = 1 THEN {1, 2} ELSE {2}]
EnabledContents == [p \in TwoSpecs |-> IF p = 1 THEN {1, 2} ELSE {}]
AllKinds == {"apply", "patch", "remove"}
CallerSymmetry == Permutations(Callers)
=============================================================================
