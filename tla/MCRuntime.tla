------------------------------ MODULE MCRuntime ------------------------------
EXTENDS Runtime

CONSTANTS comm, scm
TwoParts == {comm, scm}
JustSlots == {scm}
=============================================================================
