-------------------------- MODULE MCHealthConditions --------------------------
EXTENDS HealthConditions, TLC

\* The machines differ in nothing but their names.
MachineSymmetry == Permutations(Machines)
=============================================================================
