---------------------------- MODULE MCSessionPage ----------------------------
EXTENDS SessionPage

CONSTANTS a, b
=============================================================================
