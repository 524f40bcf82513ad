------------------------------ MODULE Broadcast -----------------------------
(***************************************************************************)
(* Messages through the network simulator, broadcasts among them: what     *)
(* GracePeriodCommManager and CommunicationComManager count.  A broadcast  *)
(* is one message up to the network simulator, which makes a copy for      *)
(* every other object it knows; the sender counts the copies, from the     *)
(* number of objects it was told when the registrations were finalized.    *)
(* The network simulator only knows how many messages of a time stamp its  *)
(* simulated network holds: it forgets those it sends on and reports those *)
(* that are too old as received.                                           *)
(*                                                                         *)
(* The collectives are those of GracePeriodSync.  Here the simulators      *)
(* share one time, which the network simulator sees in its own metric, the *)
(* totals are added up at once, and a reduction is a look at them.         *)
(***************************************************************************)
EXTENDS Integers, FiniteSets, FiniteSetsExt

CONSTANTS
  Objects,    \* the objects the network simulator has registered
  Msgs,
  Bcast,      \* the messages that are broadcast, to "*"
  From, To,   \* [Msgs -> Objects]; what To says of a broadcast is not used
  Units,      \* the metrics of the network simulator, in framework time
  Loss,       \* packetLostPeriod
  LastSend,   \* bound: nothing is sent later
  Horizon     \* bound: time ends here

ASSUME BroadcastAssumption ==
  /\ IsFiniteSet(Objects) /\ IsFiniteSet(Msgs)
  /\ Bcast \subseteq Msgs
  /\ From \in [Msgs -> Objects] /\ To \in [Msgs -> Objects]
  /\ Units \subseteq Nat \ {0}
  /\ \E u \in Units : \A v \in Units : v <= u
  /\ Loss \in Nat /\ LastSend \in Nat /\ Horizon \in Nat
  /\ \A u \in Units : Horizon >= LastSend + Loss + u

VARIABLES
  unit,      \* the metric of this simulation
  now,       \* the simulators' time
  loc,       \* where a message is
  stamp,     \* its time stamp
  copy,      \* where the copy of a message for an object is
  packets,   \* the network simulator's table: how many of each time stamp
  sent, received,  \* reduce_sent_total, reduce_recv_total with what is not reduced yet
  lost       \* history: how many of each time stamp were reported

vars == <<unit, now, loc, stamp, copy, packets, sent, received, lost>>

Copies == Msgs \X Objects
Stamps == 0 .. Horizon * Max(Units)

Init ==
  /\ unit \in Units
  /\ now = 0
  /\ loc = [m \in Msgs |-> "unsent"]
  /\ stamp = [m \in Msgs |-> 0]
  /\ copy = [c \in Copies |-> "none"]
  /\ packets = [t \in Stamps |-> 0]
  /\ sent = 0
  /\ received = 0
  /\ lost = [t \in Stamps |-> 0]

-----------------------------------------------------------------------------
\* The sum of the counts in a table.
Total(f) == Cardinality(UNION {{t} \X (1 .. f[t]) : t \in DOMAIN f})

\* Subtracting the packet-lost period, and what overflows is zero.
GraceTime(t) == IF t >= Loss THEN t - Loss ELSE 0

\* The network simulator's time.
NetTime == (now \div unit) * unit

\* (mutant) The sender counts itself.
AllObjects(m) == IF m \in Bcast THEN Cardinality(Objects) ELSE 1

\* What a message counts for: globalObjectCount - 1 if it is a broadcast.
Counted(m) == IF m \in Bcast THEN Cardinality(Objects) - 1 ELSE 1

\* Who gets a copy.
Receivers(m) == IF m \in Bcast THEN Objects \ {From[m]} ELSE {To[m]}

\* A copy of a broadcast is a new message, whose constructor takes its time
\* for one in the simulator's metric and converts it.
StampOf(c) == IF c[1] \in Bcast THEN unit * stamp[c[1]] ELSE stamp[c[1]]

\* sendAll at a power simulator.
Send(m) ==
  /\ loc[m] = "unsent"
  /\ now <= LastSend
  /\ loc' = [loc EXCEPT ![m] = "toNet"]
  /\ stamp' = [stamp EXCEPT ![m] = now]
  /\ sent' = sent + Counted(m)
  /\ UNCHANGED <<unit, now, copy, packets, received, lost>>

\* messageReceived of the network simulator.
NetReceive(m) ==
  /\ loc[m] = "toNet"
  /\ IF stamp[m] < GraceTime(NetTime)
     THEN loc' = [loc EXCEPT ![m] = "dropped"] /\ UNCHANGED <<copy, packets>>
     ELSE /\ loc' = [loc EXCEPT ![m] = "taken"]
          /\ copy' = [c \in Copies |-> IF c[1] = m /\ c[2] \in Receivers(m)
                                       THEN "held" ELSE copy[c]]
          /\ packets' = [packets EXCEPT ![stamp[m]] = @ + Cardinality(Receivers(m))]
  /\ UNCHANGED <<unit, now, stamp, sent, received, lost>>

\* (mutant) What is not in the table any more is sent all the same.
SentAnyway(D) == {D}

WithStamp(S, t) == {c \in S : StampOf(c) = t}

\* removeMessageTimeout, for all messages in the outbox: of those with one
\* time stamp as many are sent as the table has.
SentOn(D) ==
  {S \in SUBSET D : \A t \in Stamps :
     Cardinality(WithStamp(S, t)) = Min({Cardinality(WithStamp(D, t)), packets[t]})}

\* (mutant) Only a message that has just become too old is reported.
JustTooOld(t, count) == count > 0 /\ t + 1 = GraceTime(NetTime) /\ sent # received

\* packetLostCalculator reports it, and is called while the totals differ.
Reported(t, count) == count > 0 /\ t < GraceTime(NetTime) /\ sent # received

\* GetNextTime of the network simulator.  Its outbox holds the messages its
\* simulated network has carried to their end, which it never has to do.
NetStep ==
  /\ \E D \in SUBSET {c \in Copies : copy[c] = "held"} : \E S \in SentOn(D) :
       LET left == [t \in Stamps |->
                      Max({0, packets[t] - Cardinality(WithStamp(S, t))})]
           late == {t \in Stamps : Reported(t, left[t])}
       IN /\ copy' = [c \in Copies |-> IF c \in S THEN "toTick"
                                       ELSE IF c \in D THEN "discarded" ELSE copy[c]]
          /\ packets' = [t \in Stamps |-> IF t \in late THEN 0 ELSE left[t]]
          /\ received' = received + Total([t \in late |-> left[t]])
          /\ lost' = [t \in Stamps |-> IF t \in late THEN lost[t] + left[t] ELSE lost[t]]
  /\ now' = IF now < Horizon THEN now + 1 ELSE now
  /\ UNCHANGED <<unit, loc, stamp, sent>>

\* messageReceived of a power simulator.
TickReceive(c) ==
  /\ copy[c] = "toTick"
  /\ IF StampOf(c) < GraceTime(now)
     THEN copy' = [copy EXCEPT ![c] = "dropped"] /\ UNCHANGED received
     ELSE copy' = [copy EXCEPT ![c] = "received"] /\ received' = received + 1
  /\ UNCHANGED <<unit, now, loc, stamp, packets, sent, lost>>

Next ==
  \/ \E m \in Msgs : Send(m) \/ NetReceive(m)
  \/ NetStep
  \/ \E c \in Copies : TickReceive(c)

Spec == Init /\ [][Next]_vars

\* What is in transit arrives and the network simulator goes on.  Nothing
\* obliges an application to send, nor the simulated network to deliver.
Fairness ==
  /\ \A m \in Msgs : WF_vars(NetReceive(m))
  /\ WF_vars(NetStep)
  /\ \A c \in Copies : WF_vars(TickReceive(c))

FairSpec == Spec /\ Fairness

-----------------------------------------------------------------------------
(* Properties.                                                             *)

InState(l) == {c \in Copies : copy[c] = l}

\* What the messages in state l count for, if they count for as many as there
\* are receivers.
CopiesOf(l) == {c \in Copies : loc[c[1]] = l /\ c[2] \in Receivers(c[1])}

\* What was dropped for its age; nobody reports it.
Dropped == Cardinality(CopiesOf("dropped")) + Cardinality(InState("dropped"))

\* The difference of the totals is what is under way, as the network
\* simulator's table has it, and what was dropped: the sender of a broadcast
\* counts what the network simulator will put into the table, and whatever
\* leaves the table is received or reported, in any metric.
Balanced ==
  sent - received = Cardinality(CopiesOf("toNet")) + Total(packets)
                      + Cardinality(InState("toTick")) + Dropped

\* In framework time no copy is sent on as well as reported as lost, though
\* the table does not know them one by one, and only as many are discarded
\* as were reported.
LostOrSent ==
  unit = 1 => \A t \in Stamps :
    LET made == WithStamp({c \in Copies : copy[c] # "none"}, t)
        on == WithStamp(InState("toTick") \cup InState("received")
                          \cup InState("dropped"), t)
    IN /\ Cardinality(made) = Cardinality(on) + packets[t] + lost[t]
       /\ Cardinality(WithStamp(InState("discarded"), t)) <= lost[t]

\* In the end all that was sent is received or reported, except what was
\* dropped: no message is left in the table for ever, and the network can be
\* found stable again.
Settles == <>[](sent - received = Dropped)
=============================================================================
