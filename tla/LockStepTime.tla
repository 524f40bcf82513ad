---------------------------- MODULE LockStepTime ----------------------------
(***************************************************************************)
(* What the conservative synchronisation of FNCS promises to the           *)
(* simulators, with no broker, no messages and no algorithm: one global    *)
(* virtual time that only moves forward, and simulators whose clocks only  *)
(* ever jump to it.  Time cannot move again while a simulator that was     *)
(* granted the present instant has not taken its grant.                    *)
(***************************************************************************)
EXTENDS Naturals

CONSTANT Sims

VARIABLES
  now,    \* the instant the simulation as a whole has reached
  clock,  \* the time each simulator has been granted
  owed    \* simulators granted now that have not returned to their code yet

vars == <<now, clock, owed>>

Init ==
  /\ now = 0
  /\ clock = [s \in Sims |-> 0]
  /\ owed = {}

\* All simulators agree on the next instant; those in S may proceed to it.
Advance(S) ==
  /\ owed = {}
  /\ now' \in Nat
  /\ now' >= now
  /\ S # {}
  /\ owed' = S
  /\ UNCHANGED clock

\* The call of s returns: its clock is the agreed instant.
Grant(s) ==
  /\ s \in owed
  /\ clock' = [clock EXCEPT ![s] = now]
  /\ owed' = owed \ {s}
  /\ UNCHANGED now

Next ==
  \/ \E S \in SUBSET Sims : Advance(S)
  \/ \E s \in Sims : Grant(s)

Spec == Init /\ [][Next]_vars
=============================================================================
