----------------------------- MODULE MCInitLock -----------------------------
EXTENDS InitLock, TLC

\* Control plane machines are interchangeable, and so are workers.
Symmetry == Permutations(ControlPlaneMachines) \cup Permutations(WorkerMachines)
=============================================================================
