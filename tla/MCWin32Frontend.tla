-------------------------- MODULE MCWin32Frontend --------------------------
EXTENDS Win32Frontend

CONSTANTS w1, w2
=============================================================================
