---------------------------- MODULE MCEventSocket ----------------------------
EXTENDS EventSocket

CONSTANTS a, b
=============================================================================
