--------------------------- MODULE MCIpcMessenger ---------------------------
EXTENDS IpcMessenger, TLC
ClientSymmetry == Permutations(Client)
=============================================================================
