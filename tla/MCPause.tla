------------------------------- MODULE MCPause -------------------------------
EXTENDS Pause, TLC

CONSTANTS b1, b2

BrowserSymmetry == Permutations(Browsers)
=============================================================================
