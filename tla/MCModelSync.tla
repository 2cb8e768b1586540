----------------------------- MODULE MCModelSync ----------------------------
EXTENDS ModelSync

CONSTANTS b1, b2, k1, k2, v1, v2

\* One writer for each element: k1 is the user's, k2 the job's.
OneEditor == [b \in Browser |-> IF b = b1 THEN {k1} ELSE {}]
\* Everyone writes everything.
AllEdit == [b \in Browser |-> Key]

\* Every element takes every value.
Unlimited == [k \in Key |-> {Value}]
\* The job may limit k1 to one value.
LimitedK1 == [k \in Key |-> IF k = k1 THEN {Value, {v1}} ELSE {Value}]
=============================================================================
