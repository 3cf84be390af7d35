-------------------------- MODULE MCStickyBinding --------------------------
(* A small instance of StickyBinding.                                      *)
EXTENDS StickyBinding, TLC

(* Requests differ in nothing but their names.                             *)
Symmetry == Permutations(Requests)
=============================================================================
