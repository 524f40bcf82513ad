---------------------------- MODULE MCSpeculation ---------------------------
(* Two power simulators, p with steps of one and q of two (or four and     *)
(* two).                                                                   *)
EXTENDS Speculation, TLC

CONSTANTS p, q, net

OneTwo == (p :> 1) @@ (q :> 2)
FourTwo == (p :> 4) @@ (q :> 2)

Never == [s \in Ticks |-> {}]
PAt(t) == [Never EXCEPT ![p] = {t}]

\* A speculation that succeeds, one that p's message ends when q's child has
\* come far, one that p's message ends when p's child waits for q's, and one
\* without an end.
Varied == {[sends |-> Never, strategy |-> "constant", lookAhead |-> 1, stop |-> 2],
           [sends |-> PAt(4), strategy |-> "constant", lookAhead |-> 5, stop |-> 5],
           [sends |-> PAt(1), strategy |-> "constant", lookAhead |-> 1, stop |-> 2],
           [sends |-> PAt(2), strategy |-> "infinitywithkill", lookAhead |-> 1, stop |-> 3]}

\* p's child stops at its message when q's has gone further, and q has a
\* message to send at a time its child was never at.
OffThePath == {[sends |-> (p :> {4}) @@ (q :> {7}), strategy |-> "constant",
                lookAhead |-> 10, stop |-> 9]}

Succeeds == {[sends |-> Never, strategy |-> "constant", lookAhead |-> 2, stop |-> 3]}
=============================================================================
