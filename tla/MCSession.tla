----------------------------- MODULE MCSession ------------------------------
(* Two power simulators and the network simulator; the object of p and the *)
(* object of q exist in the simulated network too.                         *)
EXTENDS Session, TLC

CONSTANTS p, q, net, op, oq, m1

MCNames == p :> {op} @@ q :> {oq} @@ net :> {op, oq}
FromNet == m1 :> net
ToP == m1 :> op
AllRight == [s \in Sims |-> "right"]
Right == {AllRight}
\* At most one simulator's configuration is wrong.
AnyConfig == {c \in [Sims -> Kinds] : c[NetSim] # "type"
                /\ Cardinality({s \in Sims : c[s] # "right"}) <= 1}
NoMsgs == [m \in {} |-> p]
=============================================================================
