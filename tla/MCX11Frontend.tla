--------------------------- MODULE MCX11Frontend ---------------------------
EXTENDS X11Frontend

CONSTANTS w1, w2
=============================================================================
