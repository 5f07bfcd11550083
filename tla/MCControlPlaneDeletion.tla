------------------------ MODULE MCControlPlaneDeletion ------------------------
EXTENDS ControlPlaneDeletion

MCAttempts == 1 .. 2
=============================================================================
