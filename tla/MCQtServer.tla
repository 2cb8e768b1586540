------------------------------ MODULE MCQtServer ------------------------------
EXTENDS QtServer, TLC

CONSTANTS p1, s1, s2, v1, v2, x1, x2, x3

\* The two snapshots are of two viewers of different size.
MCWant   == s1 :> v1 @@ s2 :> v2
MCSizeOf == v1 :> 1 @@ v2 :> 2
=============================================================================
