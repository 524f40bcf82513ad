------------------------- MODULE MCGracePeriodSync -------------------------
(***************************************************************************)
(* Instances of GracePeriodSync for TLC: two power simulators, p and q.    *)
(***************************************************************************)
EXTENDS GracePeriodSync, TLC

CONSTANTS p, q, net, m1, m2

TicksDef == {p, q}
SimsDef == {p, q, net}

\* m1 and m2 cross.
OneFrom == m1 :> p
OneTo   == m1 :> q
TwoFrom == (m1 :> p) @@ (m2 :> q)
TwoTo   == (m1 :> q) @@ (m2 :> p)

Fine == [s \in SimsDef |-> 1]
CoarseNet == [Fine EXCEPT ![net] = 2]
LongUnit == [Fine EXCEPT ![q] = 3]
OneStep == [s \in TicksDef |-> 1]
\* q takes one long step while p takes several short ones.
LongStep == [s \in TicksDef |-> LongUnit[s]]
OneOrTwo == [s \in SimsDef |-> {1, 2}]
OwnStep == [s \in SimsDef |-> {LongUnit[s]}]
StayOrOne == [OneOrTwo EXCEPT ![net] = {0, 1}]
=============================================================================
