-------------------------- MODULE MCKernelLifecycle --------------------------
(* Symmetry for the runs of KernelLifecycle that check safety only. *)
EXTENDS KernelLifecycle, TLC

Symmetric == Permutations(Callers)
=============================================================================
