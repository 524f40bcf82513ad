--------------------------- MODULE MCSleepingTick ---------------------------
(***************************************************************************)
(* The instance of SleepingTick for TLC: q sends a message to p, which may *)
(* be asleep.                                                              *)
(***************************************************************************)
EXTENDS SleepingTick, MCGracePeriodSync

MailFrom == m1 :> q
MailTo   == m1 :> p
\* q can leave p two steps behind.
Strider == [s \in SimsDef |-> IF s = net THEN {1} ELSE IF s = q THEN {1, 2} ELSE {2}]
=============================================================================
