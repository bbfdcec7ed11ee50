---------------------------- MODULE MCRadioQueue ----------------------------
\* Instances of RadioQueue for TLC.
EXTENDS RadioQueue
MCLengthOf == [a \in Addresses |-> IF a = Status THEN 1 ELSE 2]
=============================================================================
