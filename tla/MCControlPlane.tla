--------------------------- MODULE MCControlPlane ---------------------------
EXTENDS ControlPlane

CONSTANTS c1, c2
TwoClients == {c1, c2}
Alike == Permutations(TwoClients)
SomeSlugs == {"plan", "help"}
=============================================================================
