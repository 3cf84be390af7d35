------------------------ MODULE MCSandboxLifecycle ------------------------
(* Small instances of SandboxLifecycle.                                    *)
EXTENDS SandboxLifecycle, TLC

(* The operations that hold the lifecycle lock from their first read to    *)
(* their last write.                                                       *)
LockedOps == {"resume", "stop", "remove", "prune", "clean", "retention"}

(* Creation and reconciliation take no lock.                               *)
AllOps == LockedOps \cup {"create", "reconcile"}

(* Callers are interchangeable.                                            *)
CallerSymmetry == Permutations(Callers)
=============================================================================
