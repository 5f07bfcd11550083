--------------------------- MODULE MCControlPlane ---------------------------
EXTENDS ControlPlaneSystem, TLC
=============================================================================
