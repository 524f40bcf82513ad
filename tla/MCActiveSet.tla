---------------------------- MODULE MCActiveSet -----------------------------
(* The instances of MCGracePeriodSync, with one more stride.               *)
EXTENDS ActiveSet, MCGracePeriodSync

Far == [s \in SimsDef |-> IF s = net THEN {1} ELSE IF s = p THEN {1, 3} ELSE {3, 6}]
=============================================================================
