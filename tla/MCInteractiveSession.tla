----------------------- MODULE MCInteractiveSession -----------------------
(***************************************************************************)
(* InteractiveSession on small instances.                                  *)
(***************************************************************************)
EXTENDS InteractiveSession, TLC

ModesAll == {"bound", "detach", "supervised"}
ClientSymmetry == Permutations(Clients)
=============================================================================
