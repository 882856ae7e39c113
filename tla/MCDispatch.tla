------------------------------ MODULE MCDispatch -----------------------------
EXTENDS Dispatch

CONSTANTS p1, p2, p3, passed, failed

ThreeClients == {p1, p2, p3}
Found == {passed, failed}
=============================================================================
