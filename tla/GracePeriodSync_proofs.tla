----------------------- MODULE GracePeriodSync_proofs -----------------------
(***************************************************************************)
(* What is proved of GracePeriodSync, for any number of simulators and of  *)
(* messages, any time steps and any loss period.                           *)
(***************************************************************************)
EXTENDS GracePeriodSync, FiniteSetTheorems, TLAPS

\* The reported counters are part of the current ones.
CopyBound ==
  \A s \in Sims : pc[s] = "sr" =>
    sendCopy[s] <= sendCount[s] /\ recvCopy[s] <= receiveCount[s]

-----------------------------------------------------------------------------
(* Lemmas about the helpers.                                               *)

\* Rounding down stays a time and does not go up.
LEMMA FloorType ==
  ASSUME NEW s \in Sims, NEW t \in Nat
  PROVE  FloorTo(s, t) \in Nat /\ FloorTo(s, t) <= t
  BY TimeAssumption DEF FloorTo, Sims

\* Less than one unit is lost.
LEMMA FloorBound ==
  ASSUME NEW s \in Sims, NEW t \in Nat
  PROVE  t < FloorTo(s, t) + Unit[s]
  BY TimeAssumption DEF FloorTo, Sims

LEMMA MsgsCard ==
  ASSUME NEW M \in SUBSET Msgs
  PROVE  Cardinality(M) \in Nat
  BY SimsAssumption, FS_Subset, FS_CardinalityType

\* sendAll touches the outbox's messages and the sender's counter only.
LEMMA SendAllType ==
  ASSUME TypeOK, NEW s \in Sims, NEW M \in SUBSET Msgs, SendAll(s, M)
  PROVE  /\ loc' \in [Msgs -> Locs]
         /\ mtime' \in [Msgs -> Nat]
         /\ packets' \subseteq Msgs
         /\ sendCount' \in [Sims -> Nat]
         /\ \A t \in Sims : t # s => sendCount'[t] = sendCount[t]
<1>1. CASE s = NetSim
  BY <1>1 DEF SendAll, TypeOK, Locs
<1>2. CASE s # NetSim
  BY <1>2, MsgsCard DEF SendAll, TypeOK, Locs
<1> QED BY <1>1, <1>2

LEMMA OutboxType ==
  ASSUME NEW s \in Sims
  PROVE  Outbox(s) \subseteq Msgs
  BY DEF Outbox

LEMMA AskedType ==
  ASSUME TypeOK, NEW s \in Sims
  PROVE  AskedTimes(s) \subseteq Nat
  BY TimeAssumption DEF AskedTimes, TypeOK

-----------------------------------------------------------------------------
(* Types.                                                                  *)

TypeInv == TypeOK /\ CopyBound

LEMMA TypeInit == Init => TypeInv
  BY TimeAssumption DEF Init, TypeInv, TypeOK, CopyBound, InApp, Waiting, Locs, NoneOr, Sims

LEMMA TypeNext == TypeInv /\ [Next]_vars => TypeInv'
<1> SUFFICES ASSUME TypeInv, [Next]_vars PROVE TypeInv'
  OBVIOUS
<1> USE DEF TypeInv, TypeOK, CopyBound, InApp, Waiting, NoneOr, countVars,
            Received, Sent
<1>1. CASE UNCHANGED vars
  BY <1>1 DEF vars, simVars, commVars, brokerVars, msgVars, histVars
<1>2. ASSUME NEW s \in Sims, StepStart(s) PROVE TypeInv'
  BY <1>2, SendAllType, OutboxType DEF StepStart, Call, brokerVars, histVars
<1>3. ASSUME NEW s \in Sims, StepStartEarly(s) PROVE TypeInv'
  BY <1>3 DEF StepStartEarly, commVars, brokerVars, msgVars, histVars
<1>4. ASSUME NEW s \in Sims, GetNextTime(s) PROVE TypeInv'
  BY <1>4, SendAllType, OutboxType, AskedType
  DEF GetNextTime, RequestDiff, Call, brokerVars
<1>5. ASSUME NEW s \in Sims, GetNextTimeEarly(s) PROVE TypeInv'
  BY <1>5, SendAllType, OutboxType, AskedType, FloorType
  DEF GetNextTimeEarly, brokerVars, histVars
<1>6. ASSUME NEW s \in Sims, BarrierDone(s) PROVE TypeInv'
  BY <1>6 DEF BarrierDone, TakeReply, commVars, brokerVars, msgVars, histVars
<1>7. ASSUME NEW s \in Sims, BusyBarrierDone(s) PROVE TypeInv'
  BY <1>7 DEF BusyBarrierDone, TakeReply, RequestDiff, Call, brokerVars,
              msgVars, histVars
<1>8. ASSUME NEW s \in Sims, TickDiff(s) PROVE TypeInv'
  BY <1>8, TimeAssumption
  DEF TickDiff, TakeReply, Subtract, OneStepOn, Call, brokerVars, msgVars,
      histVars
<1>9. ASSUME NetDiff PROVE TypeInv'
  <2> DEFINE lost == IF rep[NetSim] > 0 THEN LostPackets ELSE {}
  <2>1. lost \subseteq Msgs /\ Cardinality(lost) \in Nat
    BY MsgsCard DEF LostPackets
  <2> QED
    BY <1>9, <2>1, TimeAssumption
    DEF NetDiff, TakeReply, Subtract, Call, brokerVars, msgVars, histVars, Sims
<1>10. ASSUME NEW s \in Sims, DelayDone(s) PROVE TypeInv'
  BY <1>10 DEF DelayDone, TakeReply, Call, commVars, brokerVars, msgVars,
               histVars
<1>11. ASSUME NEW s \in Sims, BusyWait(s) PROVE TypeInv'
  BY <1>11, FloorType
  DEF BusyWait, NewBase, TakeReply, Call, commVars, brokerVars, msgVars, histVars
<1>12. ASSUME NEW s \in Sims, TickGranted(s) PROVE TypeInv'
  BY <1>12 DEF TickGranted, TakeReply, commVars, brokerVars, msgVars, histVars
<1>13. ASSUME NEW s \in Sims, TickEnded(s) PROVE TypeInv'
  BY <1>13 DEF TickEnded, TakeReply, commVars, brokerVars, msgVars, histVars
<1>14. ASSUME NetGranted PROVE TypeInv'
  BY <1>14, FloorType
  DEF NetGranted, TakeReply, commVars, brokerVars, msgVars, histVars, Sims
<1>15. ASSUME NetEnded PROVE TypeInv'
  BY <1>15, FloorType, TimeAssumption
  DEF NetEnded, TakeReply, commVars, brokerVars, msgVars, histVars, Sims
<1>16. ASSUME NEW m \in Msgs, TickReceive(m) PROVE TypeInv'
  <2>1. To[m] \in Ticks /\ To[m] \in Sims
    BY SimsAssumption DEF Sims
  <2> QED
    BY <1>16, <2>1 DEF TickReceive, simVars, brokerVars, histVars, Locs
<1>17. ASSUME NEW m \in Msgs, NetReceive(m) PROVE TypeInv'
  BY <1>17 DEF NetReceive, simVars, brokerVars, histVars, Locs
<1>18. ASSUME NEW s \in Sims, BarrierHandler(s) PROVE TypeInv'
  BY <1>18 DEF BarrierHandler, Serve, GracefulDeath, Reply, Entries, Ack,
               simVars, commVars, msgVars, histVars
<1>19. ASSUME NEW s \in Sims, SendRecvHandler(s) PROVE TypeInv'
  BY <1>19 DEF SendRecvHandler, Serve, GracefulDeath, Reply, Entries,
               Impossible, simVars, commVars, msgVars, histVars
<1>20. ASSUME NEW s \in Sims, ReduceMinHandler(s) PROVE TypeInv'
  BY <1>20, TimeAssumption
  DEF ReduceMinHandler, Serve, GracefulDeath, Reply, Proposal, Smallest,
      simVars, commVars, msgVars
<1>21. ASSUME NEW m \in Msgs, DelayHandler(m) \/ RouteHandler(m) PROVE TypeInv'
  BY <1>21 DEF DelayHandler, RouteHandler, simVars, commVars, brokerVars,
               histVars, Locs
<1> QED
  BY <1>1, <1>2, <1>3, <1>4, <1>5, <1>6, <1>7, <1>8, <1>9, <1>10, <1>11, <1>12,
     <1>13, <1>14, <1>15, <1>16, <1>17, <1>18, <1>19, <1>20, <1>21
  DEF Next, ClientStep, NetStep, BrokerStep, Carry

\* Every variable keeps its type: counters and times are never negative, and
\* the broker is never asked to subtract a larger total from a smaller one.
THEOREM TypeCorrect == Spec => []TypeOK
<1>1. Init => TypeInv
  BY TypeInit
<1>2. TypeInv /\ [Next]_vars => TypeInv'
  BY TypeNext
<1>3. TypeInv => TypeOK
  BY DEF TypeInv
<1> QED
  BY <1>1, <1>2, <1>3, PTL DEF Spec


-----------------------------------------------------------------------------
(* One request at a time.                                                  *)

LEMMA RequestNext == TypeInv /\ OneRequest /\ [Next]_vars => OneRequest'
<1> SUFFICES ASSUME TypeInv, OneRequest, [Next]_vars PROVE OneRequest'
  OBVIOUS
<1> USE DEF TypeInv, TypeOK, OneRequest, InApp, Waiting, NoneOr, Collected
<1>1. CASE UNCHANGED vars
  BY <1>1 DEF vars, simVars, commVars, brokerVars, msgVars, histVars
<1>2. ASSUME NEW s \in Sims, StepStart(s) PROVE OneRequest'
  BY <1>2 DEF StepStart, Call, brokerVars
<1>3. ASSUME NEW s \in Sims, StepStartEarly(s) PROVE OneRequest'
  BY <1>3 DEF StepStartEarly, brokerVars
<1>4. ASSUME NEW s \in Sims, GetNextTime(s) PROVE OneRequest'
  BY <1>4 DEF GetNextTime, RequestDiff, Call, brokerVars
<1>5. ASSUME NEW s \in Sims, GetNextTimeEarly(s) PROVE OneRequest'
  BY <1>5 DEF GetNextTimeEarly, brokerVars
<1>6. ASSUME NEW s \in Sims, BarrierDone(s) PROVE OneRequest'
  BY <1>6 DEF BarrierDone, TakeReply, brokerVars
<1>7. ASSUME NEW s \in Sims, BusyBarrierDone(s) PROVE OneRequest'
  BY <1>7 DEF BusyBarrierDone, TakeReply, RequestDiff, Call, brokerVars
<1>8. ASSUME NEW s \in Sims, TickDiff(s) PROVE OneRequest'
  BY <1>8 DEF TickDiff, TakeReply, Call, brokerVars
<1>9. ASSUME NetDiff PROVE OneRequest'
  BY <1>9 DEF NetDiff, TakeReply, Call, brokerVars, Sims
<1>10. ASSUME NEW s \in Sims, DelayDone(s) PROVE OneRequest'
  BY <1>10 DEF DelayDone, TakeReply, Call, brokerVars
<1>11. ASSUME NEW s \in Sims, BusyWait(s) PROVE OneRequest'
  BY <1>11 DEF BusyWait, TakeReply, Call, brokerVars
<1>12. ASSUME NEW s \in Sims, TickGranted(s) \/ TickEnded(s) PROVE OneRequest'
  BY <1>12 DEF TickGranted, TickEnded, TakeReply, brokerVars
<1>13. ASSUME NetGranted \/ NetEnded PROVE OneRequest'
  BY <1>13 DEF NetGranted, NetEnded, TakeReply, brokerVars, Sims
<1>14. ASSUME NEW m \in Msgs, Carry(m) PROVE OneRequest'
  BY <1>14 DEF Carry, TickReceive, NetReceive, DelayHandler, RouteHandler,
               simVars, brokerVars
<1>15. ASSUME NEW s \in Sims, BarrierHandler(s) PROVE OneRequest'
  <2>1. s \in req /\ s \notin barrier /\ pc[s] = "barrier" /\ rep[s] = None
    BY <1>15 DEF BarrierHandler, Serve
  <2>2. CASE barrier \cup {s} = Sims
    BY <1>15, <2>1, <2>2, TimeAssumption
    DEF BarrierHandler, Serve, Reply, Entries, Ack, simVars
  <2>3. CASE barrier \cup {s} # Sims
    BY <1>15, <2>1, <2>3 DEF BarrierHandler, Serve, Entries, simVars
  <2> QED BY <2>2, <2>3
<1>16. ASSUME NEW s \in Sims, SendRecvHandler(s) PROVE OneRequest'
  <2>1. s \in req /\ s \notin reduceSent /\ pc[s] = "sr" /\ rep[s] = None
    BY <1>16 DEF SendRecvHandler, Serve
  <2>2. CASE reduceSent \cup {s} = Sims
    <3>1. CASE Impossible(sentTotal', recvTotal')
      BY <1>16, <2>1, <2>2, <3>1
      DEF SendRecvHandler, Serve, GracefulDeath, Entries, simVars
    <3>2. CASE ~Impossible(sentTotal', recvTotal')
      BY <1>16, <2>1, <2>2, <3>2, TypeNext, TimeAssumption
      DEF SendRecvHandler, Serve, Reply, Entries, Impossible, simVars
    <3> QED BY <3>1, <3>2
  <2>3. CASE reduceSent \cup {s} # Sims
    BY <1>16, <2>1, <2>3 DEF SendRecvHandler, Serve, Entries, simVars
  <2> QED BY <2>2, <2>3
<1>17. ASSUME NEW s \in Sims, ReduceMinHandler(s) PROVE OneRequest'
  <2>1. /\ s \in req /\ reduceMin[s] = None /\ rep[s] = None
        /\ pc[s] \in {"delay", "min"}
    BY <1>17 DEF ReduceMinHandler, Serve
  <2> DEFINE entries == [reduceMin EXCEPT ![s] = Proposal(s)]
  <2>2. CASE \E t \in Sims : entries[t] = None
    BY <1>17, <2>1, <2>2, TimeAssumption
    DEF ReduceMinHandler, Serve, Proposal, simVars
  <2>3. CASE ~\E t \in Sims : entries[t] = None
    <3>1. PICK t \in Smallest(entries) :
            Reply(t) /\ reduceMin' = [r \in Sims |-> None]
      BY <1>17, <2>1, <2>3 DEF ReduceMinHandler, Serve
    <3>2. t \in Nat /\ t # None
      BY <2>3, TimeAssumption DEF Smallest, Proposal
    <3>3. \A r \in Sims : r # s => reduceMin[r] # None
      BY <2>3
    <3> QED
      BY <1>17, <2>1, <3>1, <3>2, <3>3
      DEF ReduceMinHandler, Serve, Reply, simVars
  <2> QED BY <2>2, <2>3
<1> QED
  BY <1>1, <1>2, <1>3, <1>4, <1>5, <1>6, <1>7, <1>8, <1>9, <1>10, <1>11, <1>12,
     <1>13, <1>14, <1>15, <1>16, <1>17
  DEF Next, ClientStep, NetStep, BrokerStep

\* For any metrics: the broker never meets an identity twice in a collection,
\* and every waiting simulator's request is somewhere.
THEOREM NoDuplicateRequest == Spec => []OneRequest
<1>1. Init => TypeInv /\ OneRequest
  BY TypeInit DEF Init, OneRequest, Collected, Waiting
<1>2. TypeInv /\ OneRequest /\ [Next]_vars => (TypeInv /\ OneRequest)'
  BY TypeNext, RequestNext
<1> QED
  BY <1>1, <1>2, PTL DEF Spec


-----------------------------------------------------------------------------
(* In step and on one virtual time, if no instant is lost to the network   *)
(* simulator's metric.                                                     *)

FineNet == Unit[NetSim] = 1

\* What else is needed of clocks and proposals: a simulator's clock is the
\* time it was granted and never ahead of the agreed instant, a latched
\* power simulator alone departs from what it asked, and the minimum does
\* not exceed a proposal.
ClockInv ==
  /\ now <= Infinity
  /\ ~busy[NetSim]
  /\ pc[NetSim] \in {"delay", "min"} => est[NetSim] = Infinity
  /\ \A s \in Sims :
       /\ pc[s] # "finished" => cur[s] = granted[s] /\ cur[s] <= now
       /\ pc[s] \in {"idle", "work"} => ~busy[s]
       /\ pc[s] = "min" /\ rep[s] # None => rep[s] <= est[s]
  /\ \A s \in Ticks :
       /\ pc[s] = "work" \/ (pc[s] = "barrier" /\ ~busy[s]) => cur[s] < Horizon
       /\ pc[s] \in {"delay", "min"} /\ ~respond[s] => est[s] = asked[s]

\* What the broker has collected is what the simulator proposed.
EntryInv ==
  \A s \in Sims : reduceMin[s] # None => reduceMin[s] = Proposal(s)

SyncInv == FineNet /\ TypeInv /\ OneRequest /\ InStep /\ OneInstant
           /\ ClockInv /\ EntryInv

LEMMA NetFloor == FineNet => \A t \in Nat : FloorTo(NetSim, t) = t
  BY DEF FineNet, FloorTo

\* With such a network simulator nobody returns early.
LEMMA NobodyEarly ==
  ASSUME SyncInv, NEW s \in Sims
  PROVE  ~StepStartEarly(s) /\ ~GetNextTimeEarly(s)
<1>1. ~StepStartEarly(s)
  BY DEF SyncInv, TypeInv, TypeOK, ClockInv, StepStartEarly, GrantedAlready
<1>2. ASSUME GetNextTimeEarly(s) PROVE FALSE
  <2>1. PICK next \in AskedTimes(s) : next < granted[s]
    BY <1>2 DEF GetNextTimeEarly, GrantedAlready
  <2>2. pc[s] = "work" /\ cur[s] = granted[s] /\ granted[s] <= Infinity
    BY <1>2, TimeAssumption
    DEF GetNextTimeEarly, SyncInv, TypeInv, TypeOK, ClockInv
  <2>3. next >= cur[s] \/ next = Infinity \/ granted[s] = 0
    BY <2>1, TimeAssumption DEF AskedTimes, SyncInv, TypeInv, TypeOK
  <2>4. next \in Nat /\ granted[s] \in Nat
    BY <2>1, AskedType DEF SyncInv, TypeInv, TypeOK
  <2> QED BY <2>1, <2>2, <2>3, <2>4, TimeAssumption
<1> QED BY <1>1, <1>2

LEMMA InStepNext == SyncInv /\ [Next]_vars => InStep'
<1> SUFFICES ASSUME SyncInv, [Next]_vars PROVE InStep'
  OBVIOUS
<1> USE DEF TypeInv, TypeOK, OneRequest, InApp, Waiting, NoneOr, Collected, InStep, Phase, After
<1>0. TypeInv /\ OneRequest /\ InStep
  BY DEF SyncInv
<1>1. CASE UNCHANGED vars
  BY <1>0, <1>1 DEF vars, simVars
<1>2. ASSUME NEW s \in Sims, StepStart(s) PROVE InStep'
  BY <1>0, <1>2 DEF StepStart, Call
<1>3. ASSUME NEW s \in Sims, GetNextTime(s) PROVE InStep'
  BY <1>0, <1>3 DEF GetNextTime, RequestDiff, Call
<1>4. ASSUME NEW s \in Sims, BarrierDone(s) PROVE InStep'
  BY <1>0, <1>4 DEF BarrierDone, TakeReply
<1>5. ASSUME NEW s \in Sims, BusyBarrierDone(s) PROVE InStep'
  BY <1>0, <1>5 DEF BusyBarrierDone, TakeReply, RequestDiff, Call
<1>6. ASSUME NEW s \in Sims, TickDiff(s) \/ DelayDone(s) PROVE InStep'
  BY <1>0, <1>6 DEF TickDiff, DelayDone, TakeReply, Call
<1>7. ASSUME NetDiff PROVE InStep'
  BY <1>0, <1>7 DEF NetDiff, TakeReply, Call, Sims
<1>8. ASSUME NEW s \in Sims, BusyWait(s) PROVE InStep'
  BY <1>0, <1>8 DEF BusyWait, TakeReply, Call
<1>9. ASSUME NEW s \in Sims, TickGranted(s) \/ TickEnded(s) PROVE InStep'
  BY <1>0, <1>9 DEF TickGranted, TickEnded, TakeReply
<1>10. ASSUME NetGranted \/ NetEnded PROVE InStep'
  BY <1>0, <1>10 DEF NetGranted, NetEnded, TakeReply, Sims
<1>11. ASSUME NEW m \in Msgs, Carry(m) PROVE InStep'
  BY <1>0, <1>11 DEF Carry, TickReceive, NetReceive, DelayHandler, RouteHandler,
                     simVars
<1>12. ASSUME NEW s \in Sims, BarrierHandler(s) PROVE InStep'
  <2>1. pc' = pc /\ s \in req /\ pc[s] = "barrier"
    BY <1>12 DEF BarrierHandler, Serve, simVars
  <2>2. CASE rep' = rep
    BY <1>0, <2>1, <2>2
  <2>3. CASE barrier \cup {s} = Sims /\ Reply(Ack)
    BY <1>0, <2>1, <2>3, TimeAssumption DEF Reply, Ack
  <2> QED BY <1>12, <2>2, <2>3 DEF BarrierHandler
<1>13. ASSUME NEW s \in Sims, SendRecvHandler(s) PROVE InStep'
  <2>1. pc' = pc /\ s \in req /\ pc[s] = "sr"
    BY <1>13 DEF SendRecvHandler, Serve, simVars
  <2>2. CASE rep' = rep
    BY <1>0, <2>1, <2>2
  <2>3. CASE rep' # rep
    <3>1. /\ reduceSent \cup {s} = Sims
          /\ Reply(sentTotal' - recvTotal')
          /\ ~Impossible(sentTotal', recvTotal')
          /\ sentTotal' = sentTotal + sendCopy[s]
          /\ recvTotal' = recvTotal + recvCopy[s]
      BY <1>13, <2>3 DEF SendRecvHandler
    <3>2. sentTotal' - recvTotal' \in Nat
      BY <1>0, <3>1 DEF Impossible
    <3>3. \A r \in Sims : pc[r] = "sr" /\ rep'[r] # None
      BY <1>0, <2>1, <3>1, <3>2, TimeAssumption DEF Reply
    <3> QED BY <2>1, <3>3
  <2> QED BY <2>2, <2>3
<1>14. ASSUME NEW s \in Sims, ReduceMinHandler(s) PROVE InStep'
  <2>1. pc' = pc /\ s \in req /\ pc[s] \in {"delay", "min"} /\ rep[s] = None
    BY <1>0, <1>14 DEF ReduceMinHandler, Serve, simVars
  <2>2. CASE rep' = rep
    BY <1>0, <2>1, <2>2
  <2>3. CASE rep' # rep
    <3> DEFINE entries == [reduceMin EXCEPT ![s] = Proposal(s)]
    <3>1. ~\E t \in Sims : entries[t] = None
      BY <1>14, <2>3 DEF ReduceMinHandler
    <3>2. PICK t \in Smallest(entries) : Reply(t)
      BY <1>14, <2>3, <3>1 DEF ReduceMinHandler
    <3>3. t \in Nat
      BY <1>0, <3>1, <3>2, TimeAssumption DEF Smallest, Proposal
    <3>4. \A r \in Sims : pc[r] \in {"delay", "min"} /\ rep[r] = None
      BY <1>0, <2>1, <3>1
    <3>5. \A r \in Sims : pc[r] = pc[s] /\ rep'[r] # None
      BY <1>0, <2>1, <3>2, <3>3, <3>4, TimeAssumption DEF Reply
    <3> QED BY <2>1, <3>5
  <2> QED BY <2>2, <2>3
<1> QED
  BY <1>1, <1>2, <1>3, <1>4, <1>5, <1>6, <1>7, <1>8, <1>9, <1>10, <1>11, <1>12,
     <1>13, <1>14, NobodyEarly
  DEF Next, ClientStep, NetStep, BrokerStep


\* A minimum is agreed on when all wait in the same call; in reduceMinTime it
\* is not before the present instant and not after any proposal.
LEMMA Agreement ==
  ASSUME SyncInv, NEW s \in Sims, ReduceMinHandler(s), rep' # rep
  PROVE  /\ \A r \in Sims : pc[r] = pc[s] /\ rep[r] = None
         /\ pc[s] = "delay" => now' = now
         /\ pc[s] = "min" => /\ now' \in Nat /\ now <= now'
                             /\ rep' = [r \in Sims |-> now']
                             /\ \A r \in Sims : now' <= est[r]
<1> USE DEF SyncInv, TypeInv, TypeOK
<1> DEFINE entries == [reduceMin EXCEPT ![s] = Proposal(s)]
<1>1. pc[s] \in {"delay", "min"} /\ rep[s] = None
  BY DEF ReduceMinHandler, Serve, OneRequest
<1>2. ~\E t \in Sims : entries[t] = None
  BY DEF ReduceMinHandler
<1>3. \A r \in Sims : pc[r] \in {"delay", "min"} /\ rep[r] = None
  BY <1>1, <1>2 DEF OneRequest
<1>4. \A r \in Sims : pc[r] = pc[s]
  BY <1>1, <1>3 DEF InStep, Phase
<1>5. PICK t \in Smallest(entries) :
        /\ Reply(t)
        /\ now' = IF pc[s] = "min" THEN t ELSE now
  BY <1>2 DEF ReduceMinHandler
<1>6. ASSUME pc[s] = "min"
      PROVE  /\ now' \in Nat /\ now <= now'
             /\ rep' = [r \in Sims |-> now']
             /\ \A r \in Sims : now' <= est[r]
  <2>1. \A r \in Sims : entries[r] = est[r]
    BY <1>2, <1>4, <1>6 DEF Proposal, EntryInv
  <2>2. \A r \in Sims : est[r] \in Nat /\ now <= est[r]
    BY <1>3, <1>4, <1>6, TimeAssumption DEF OneInstant, ClockInv, InCall, Sims
  <2> QED BY <1>5, <1>6, <2>1, <2>2 DEF Smallest, Reply
<1> QED BY <1>3, <1>4, <1>5, <1>6


\* Without an answer nothing is agreed on.
LEMMA NoAgreement ==
  ASSUME SyncInv, NEW s \in Sims, ReduceMinHandler(s), rep' = rep
  PROVE  now' = now
<1> DEFINE entries == [reduceMin EXCEPT ![s] = Proposal(s)]
<1>1. rep[s] = None /\ reduceMin[s] = None
  BY DEF ReduceMinHandler, Serve, SyncInv, OneRequest
<1>2. CASE \E t \in Sims : entries[t] = None
  BY <1>1, <1>2 DEF ReduceMinHandler
<1>3. CASE ~\E t \in Sims : entries[t] = None
  <2>1. PICK t \in Smallest(entries) : Reply(t)
    BY <1>1, <1>3 DEF ReduceMinHandler
  <2>2. t # None
    BY <1>3 DEF Smallest
  <2> QED BY <1>1, <2>1, <2>2 DEF Reply, SyncInv, TypeInv, TypeOK
<1> QED BY <1>2, <1>3

\* A power simulator asks for a time that is still to come, or gives the end
\* signal at time zero.
LEMMA AskedLater ==
  ASSUME SyncInv, NEW s \in Ticks, pc[s] = "work", NEW next \in AskedTimes(s)
  PROVE  next \in Nat /\ (next > now \/ (next = 0 /\ now = 0))
<1>1. cur[s] = now /\ cur[s] = granted[s] /\ cur[s] < Infinity
  BY TimeAssumption
  DEF SyncInv, TypeInv, TypeOK, ClockInv, OneInstant, InCall, Sims
<1>2. \A d \in Strides[s] : d \in Nat \ {0}
  BY TimeAssumption DEF Sims
<1>3. s \in Sims /\ now \in Nat
  BY DEF Sims, SyncInv, TypeInv, TypeOK
<1> QED BY <1>1, <1>2, <1>3, TimeAssumption DEF AskedTimes

ClockPart == OneInstant /\ ClockInv /\ EntryInv

LEMMA ClockNext == SyncInv /\ [Next]_vars => ClockPart'
<1> SUFFICES ASSUME SyncInv, [Next]_vars PROVE ClockPart'
  OBVIOUS
<1> USE DEF SyncInv, TypeInv, TypeOK, ClockPart, OneInstant, ClockInv, EntryInv,
            Proposal, InCall, OneRequest, Waiting, InApp, NoneOr
<1>0. \A s \in Ticks : s \in Sims /\ Step[s] \in Nat \ {0} /\ Step[s] >= Unit[s]
  BY TimeAssumption DEF Sims
<1>1. CASE UNCHANGED vars
  BY <1>1 DEF vars, simVars, commVars, brokerVars, msgVars, histVars
<1>2. ASSUME NEW s \in Sims, StepStart(s) PROVE ClockPart'
  BY <1>0, <1>2, SimsAssumption, TimeAssumption
  DEF StepStart, Call, brokerVars, histVars
<1>3. ASSUME NEW s \in Sims, GetNextTime(s) PROVE ClockPart'
  BY <1>0, <1>3, AskedLater, SimsAssumption, TimeAssumption
  DEF GetNextTime, GrantedAlready, RequestDiff, Call, brokerVars
<1>4. ASSUME NEW s \in Sims, BarrierDone(s) PROVE ClockPart'
  BY <1>0, <1>4, SimsAssumption, TimeAssumption
  DEF BarrierDone, TakeReply, brokerVars, histVars
<1>5. ASSUME NEW s \in Sims, BusyBarrierDone(s) PROVE ClockPart'
  BY <1>0, <1>5, SimsAssumption, TimeAssumption
  DEF BusyBarrierDone, TakeReply, RequestDiff, Call, brokerVars, histVars
<1>6. ASSUME NEW s \in Sims, TickDiff(s) PROVE ClockPart'
  <2>1. /\ s \in Ticks /\ s # NetSim /\ pc[s] = "sr"
        /\ reduceMin[s] = None /\ pc' = [pc EXCEPT ![s] = "delay"]
        /\ UNCHANGED <<cur, granted, asked, base, busy, reduceMin, now>>
    BY <1>6, SimsAssumption DEF TickDiff, TakeReply, Call, brokerVars, histVars
  <2>2. rep' = [rep EXCEPT ![s] = None]
    BY <1>6 DEF TickDiff, TakeReply
  <2>3. est'[s] > now \/ (est'[s] = 0 /\ now = 0)
    BY <1>0, <1>6, <2>1 DEF TickDiff, Stable, OneStepOn
  <2>4. ~respond'[s] => est'[s] = asked[s]
    BY <1>6 DEF TickDiff
  <2>5. asked[s] > now \/ respond'[s] \/ (asked[s] = 0 /\ now = 0)
    BY <1>6, <2>1 DEF TickDiff, Stable
  <2>6. \A r \in Sims : r # s => est'[r] = est[r] /\ respond'[r] = respond[r]
    BY <1>6 DEF TickDiff
  <2>7. OneInstant'
    BY <1>0, <2>1, <2>2, <2>3, <2>5, <2>6
  <2>8. ClockInv'
    BY <1>0, <2>1, <2>2, <2>4, <2>6, SimsAssumption DEF Sims
  <2>9. EntryInv'
    BY <2>1, <2>6
  <2> QED BY <2>7, <2>8, <2>9
<1>7. ASSUME NEW s \in Sims, DelayDone(s) PROVE ClockPart'
  BY <1>0, <1>7, SimsAssumption, TimeAssumption
  DEF DelayDone, TakeReply, Call, brokerVars, histVars
<1>8. ASSUME NEW s \in Sims, BusyWait(s) PROVE ClockPart'
  <2>1. /\ s \in Ticks /\ s # NetSim /\ pc[s] = "min" /\ rep[s] = now
        /\ rep[s] < est[s] /\ reduceMin[s] = None
        /\ base' = [base EXCEPT ![s] = NewBase(s)]
        /\ busy' = [busy EXCEPT ![s] = TRUE]
        /\ pc' = [pc EXCEPT ![s] = "barrier"]
        /\ rep' = [rep EXCEPT ![s] = None]
        /\ UNCHANGED <<cur, granted, asked, est, respond, reduceMin, now>>
    BY <1>8, SimsAssumption DEF BusyWait, TakeReply, Call, brokerVars, histVars
  <2>2. base'[s] <= now /\ now < base'[s] + Step[s]
    BY <1>0, <2>1, FloorType, FloorBound, TimeAssumption DEF NewBase, Sims
  <2>3. asked[s] > now \/ respond[s]
    BY <2>1
  <2>4. OneInstant'
    BY <1>0, <2>1, <2>2, <2>3
  <2>5. ClockInv'
    BY <1>0, <2>1, SimsAssumption DEF Sims
  <2>6. EntryInv'
    BY <2>1
  <2> QED BY <2>4, <2>5, <2>6
<1>9. ASSUME NEW s \in Sims, TickGranted(s) PROVE ClockPart'
  <2>0. est[s] = now
    <3>1. pc[s] = "min" /\ rep[s] # None /\ rep[s] >= est[s]
      BY <1>9 DEF TickGranted, TakeReply
    <3>2. rep[s] <= est[s] /\ rep[s] = now /\ est[s] \in Nat /\ now \in Nat
      BY <3>1
    <3> QED BY <3>1, <3>2
  <2>1. /\ s \in Ticks /\ s # NetSim /\ est[s] = now /\ reduceMin[s] = None
        /\ busy' = [busy EXCEPT ![s] = FALSE]
        /\ granted' = [granted EXCEPT ![s] = now]
        /\ cur' = [cur EXCEPT ![s] = now]
        /\ pc' = [pc EXCEPT ![s] = "idle"]
        /\ rep' = [rep EXCEPT ![s] = None]
        /\ UNCHANGED <<asked, base, est, respond, reduceMin, now>>
    BY <1>9, <2>0, SimsAssumption DEF TickGranted, TakeReply, brokerVars, histVars
  <2>2. OneInstant'
    BY <1>0, <2>1
  <2>3. ClockInv'
    BY <1>0, <2>1, SimsAssumption DEF Sims
  <2>4. EntryInv'
    BY <2>1
  <2> QED BY <2>2, <2>3, <2>4
<1>10. ASSUME NEW s \in Sims, TickEnded(s) PROVE ClockPart'
  BY <1>0, <1>10, SimsAssumption, TimeAssumption
  DEF TickEnded, TakeReply, brokerVars, histVars
<1>11. ASSUME NetDiff PROVE ClockPart'
  BY <1>0, <1>11, SimsAssumption, TimeAssumption
  DEF NetDiff, TakeReply, Call, brokerVars, histVars, Sims
<1>12. ASSUME NetGranted \/ NetEnded PROVE ClockPart'
  BY <1>0, <1>12, NetFloor, SimsAssumption, TimeAssumption
  DEF NetGranted, NetEnded, TakeReply, brokerVars, histVars, Sims
<1>13. ASSUME NEW m \in Msgs, Carry(m) PROVE ClockPart'
  BY <1>13 DEF Carry, TickReceive, NetReceive, DelayHandler, RouteHandler,
               simVars, brokerVars, histVars
<1>14. ASSUME NEW s \in Sims, BarrierHandler(s) \/ SendRecvHandler(s)
       PROVE  ClockPart'
  BY <1>0, <1>14, SimsAssumption
  DEF BarrierHandler, SendRecvHandler, Serve, Reply, simVars, histVars
<1>15. ASSUME NEW s \in Sims, ReduceMinHandler(s) PROVE ClockPart'
  <2> DEFINE entries == [reduceMin EXCEPT ![s] = Proposal(s)]
  <2>1. /\ pc[s] \in {"delay", "min"} /\ rep[s] = None /\ reduceMin[s] = None
        /\ UNCHANGED <<pc, cur, granted, asked, base, est, respond, busy>>
    BY <1>15 DEF ReduceMinHandler, Serve, simVars
  <2>2. CASE \E t \in Sims : entries[t] = None
    <3>1. reduceMin' = entries /\ UNCHANGED <<rep, now>>
      BY <1>15, <2>1, <2>2 DEF ReduceMinHandler
    <3> QED BY <2>1, <3>1
  <2>3. CASE ~\E t \in Sims : entries[t] = None
    <3>1. PICK t \in Smallest(entries) :
            Reply(t) /\ reduceMin' = [r \in Sims |-> None]
      BY <1>15, <2>1, <2>3 DEF ReduceMinHandler
    <3>2. t # None
      BY <2>3, <3>1 DEF Smallest
    <3>3. rep' # rep
      BY <2>1, <3>1, <3>2 DEF Reply
    <3>4. CASE pc[s] = "delay"
      <4>1. now' = now /\ \A r \in Sims : pc[r] = "delay"
        BY <1>15, <3>3, <3>4, Agreement DEF Sims
      <4> QED BY <1>0, <2>1, <3>1, <4>1
    <3>5. CASE pc[s] = "min"
      <4>1. /\ \A r \in Sims : pc[r] = "min" /\ now' <= est[r]
            /\ now' \in Nat /\ now <= now' /\ rep' = [r \in Sims |-> now']
        BY <1>15, <3>3, <3>5, Agreement
      <4>2. now' <= Infinity
        BY <4>1 DEF Sims
      <4>3. now' # None
        BY <4>1, TimeAssumption
      <4>4. OneInstant'
        BY <1>0, <2>1, <4>1, <4>3
      <4>5. ClockInv'
        BY <1>0, <2>1, <4>1, <4>2, TimeAssumption DEF Sims
      <4>6. EntryInv'
        BY <3>1
      <4> QED BY <4>4, <4>5, <4>6
    <3> QED BY <2>1, <3>4, <3>5
  <2> QED BY <2>2, <2>3
<1> QED
  BY <1>1, <1>2, <1>3, <1>4, <1>5, <1>6, <1>7, <1>8, <1>9, <1>10, <1>11, <1>12, <1>13, <1>14, <1>15, NobodyEarly
  DEF Next, ClientStep, NetStep, BrokerStep


LEMMA SyncInit == FineNet /\ Init => SyncInv
  BY TypeInit, TimeAssumption, SimsAssumption
  DEF SyncInv, Init, OneRequest, InStep, Phase, OneInstant, InCall, ClockInv,
      EntryInv, Collected, Waiting, Sims

LEMMA SyncNext == SyncInv /\ [Next]_vars => SyncInv'
  BY TypeNext, RequestNext, InStepNext, ClockNext DEF SyncInv, ClockPart, FineNet

\* All simulators are in the same call, so reduceNetworkDelay and
\* reduceMinTime never meet in the broker's map.
THEOREM Synchronised == FineNet => (Spec => []InStep)
<1>1. SyncInv => InStep
  BY DEF SyncInv
<1> QED
  BY <1>1, SyncInit, SyncNext, PTL DEF Spec

\* Every simulator in its own code is at the agreed instant, and whoever is
\* inside GetNextTime proposes only what is still ahead.
THEOREM SameInstant == FineNet => (Spec => []OneInstant)
<1>1. SyncInv => OneInstant
  BY DEF SyncInv
<1> QED
  BY <1>1, SyncInit, SyncNext, PTL DEF Spec


-----------------------------------------------------------------------------
(* The grace-period algorithm implements LockStepTime.                     *)

LEMMA StepRefines == SyncInv /\ [Next]_vars => [LockStep!Next]_(LockStep!vars)
<1> SUFFICES ASSUME SyncInv, [Next]_vars
             PROVE  LockStep!Next \/ UNCHANGED <<now, cur, Owed>>
  BY DEF LockStep!vars
<1> USE DEF SyncInv, TypeInv, TypeOK, NoneOr, Owed
<1>0. \A s \in Ticks : s \in Sims /\ s # NetSim
  BY SimsAssumption DEF Sims
<1>1. CASE UNCHANGED vars
  BY <1>1 DEF vars, simVars, histVars
<1>2. ASSUME NEW s \in Sims, StepStart(s) PROVE UNCHANGED <<now, cur, Owed>>
  BY <1>0, <1>2 DEF StepStart, Call, histVars
<1>3. ASSUME NEW s \in Sims, GetNextTime(s) PROVE UNCHANGED <<now, cur, Owed>>
  BY <1>0, <1>3 DEF GetNextTime, RequestDiff, Call
<1>4. ASSUME NEW s \in Sims, BarrierDone(s) PROVE UNCHANGED <<now, cur, Owed>>
  BY <1>0, <1>4 DEF BarrierDone, TakeReply, histVars
<1>5. ASSUME NEW s \in Sims, BusyBarrierDone(s) PROVE UNCHANGED <<now, cur, Owed>>
  BY <1>0, <1>5 DEF BusyBarrierDone, TakeReply, RequestDiff, Call, histVars
<1>6. ASSUME NEW s \in Sims, TickDiff(s) PROVE UNCHANGED <<now, cur, Owed>>
  BY <1>0, <1>6 DEF TickDiff, TakeReply, Call, histVars
<1>7. ASSUME NEW s \in Sims, DelayDone(s) PROVE UNCHANGED <<now, cur, Owed>>
  BY <1>0, <1>7 DEF DelayDone, TakeReply, Call, histVars
<1>8. ASSUME NEW s \in Sims, BusyWait(s) PROVE UNCHANGED <<now, cur, Owed>>
  BY <1>0, <1>8 DEF BusyWait, TakeReply, Call, histVars
<1>9. ASSUME NetDiff PROVE UNCHANGED <<now, cur, Owed>>
  BY <1>0, <1>9 DEF NetDiff, TakeReply, Call, histVars, Sims
<1>10. ASSUME NEW m \in Msgs, Carry(m) PROVE UNCHANGED <<now, cur, Owed>>
  BY <1>10 DEF Carry, TickReceive, NetReceive, DelayHandler, RouteHandler,
              simVars, histVars
<1>11. ASSUME NEW s \in Ticks, TickGranted(s) PROVE LockStep!Grant(s)
  <2>1. s \in Owed /\ est[s] = now
    BY <1>0, <1>11 DEF TickGranted, TakeReply, OneInstant, ClockInv
  <2>2. Owed' = Owed \ {s}
    BY <1>0, <1>11 DEF TickGranted, TakeReply
  <2> QED BY <1>11, <2>1, <2>2 DEF LockStep!Grant, TickGranted, histVars
<1>12. ASSUME NEW s \in Ticks, TickEnded(s)
      PROVE  LockStep!Grant(s) \/ UNCHANGED <<now, cur, Owed>>
  <2>1. /\ pc[s] = "min" /\ now = 0 /\ rep[s] = 0 /\ cur[s] = 0
        /\ cur' = [cur EXCEPT ![s] = 0] /\ now' = now
    BY <1>0, <1>12 DEF TickEnded, TakeReply, OneInstant, ClockInv, histVars
  <2>2. Owed' = Owed \ {s}
    BY <1>0, <1>12 DEF TickEnded, TakeReply
  <2> QED BY <2>1, <2>2 DEF LockStep!Grant
<1>13. ASSUME NetGranted \/ NetEnded PROVE LockStep!Grant(NetSim)
  <2>1. /\ pc[NetSim] = "min" /\ rep[NetSim] # None /\ rep[NetSim] = now
        /\ NetSim \in Sims
    BY <1>13 DEF NetGranted, NetEnded, TakeReply, OneInstant, Sims
  <2>2. NetSim \in Owed
    BY <1>0, <2>1
  <2>3. Owed' = Owed \ {NetSim}
    BY <1>0, <1>13, <2>1 DEF NetGranted, NetEnded, TakeReply
  <2>4. cur' = [cur EXCEPT ![NetSim] = now] /\ now' = now
    BY <1>13, <2>1, NetFloor DEF NetGranted, NetEnded, TakeReply, histVars
  <2> QED BY <2>2, <2>3, <2>4, <2>1 DEF LockStep!Grant
<1>14. ASSUME NEW s \in Sims, BarrierHandler(s) \/ SendRecvHandler(s)
       PROVE  UNCHANGED <<now, cur, Owed>>
  <2>1. /\ UNCHANGED <<pc, cur, est, now>>
        /\ pc[s] \in {"barrier", "sr"} /\ rep[s] = None
    BY <1>14 DEF BarrierHandler, SendRecvHandler, Serve, OneRequest, simVars, histVars
  <2>2. CASE rep' = rep
    BY <2>1, <2>2
  <2>3. CASE rep' # rep
    <3>1. barrier \cup {s} = Sims \/ reduceSent \cup {s} = Sims
      BY <1>14, <2>3 DEF BarrierHandler, SendRecvHandler
    <3>2. \A r \in Sims : pc[r] # "min"
      BY <2>1, <3>1 DEF OneRequest
    <3> QED BY <2>1, <3>2
  <2> QED BY <2>2, <2>3
<1>15. ASSUME NEW s \in Sims, ReduceMinHandler(s)
       PROVE  LockStep!Next \/ UNCHANGED <<now, cur, Owed>>
  <2>1. UNCHANGED <<pc, cur, est>> /\ pc[s] \in {"delay", "min"}
    BY <1>15 DEF ReduceMinHandler, Serve, simVars
  <2>2. CASE rep' = rep
    <3>1. now' = now
      BY <1>15, <2>2, NoAgreement
    <3> QED BY <2>1, <2>2, <3>1
  <2>3. CASE rep' # rep
    <3>1. \A r \in Sims : pc[r] = pc[s] /\ rep[r] = None
      BY <1>15, <2>3, Agreement
    <3>2. Owed = {}
      BY <3>1
    <3>3. CASE pc[s] = "delay"
      BY <1>15, <2>1, <2>3, <3>1, <3>2, <3>3, Agreement
    <3>4. CASE pc[s] = "min"
      <4>1. now' \in Nat /\ now' >= now /\ rep' = [r \in Sims |-> now']
        BY <1>15, <2>3, <3>4, Agreement
      <4>2. NetSim \in Owed'
        BY <1>0, <2>1, <3>1, <3>4, <4>1, TimeAssumption DEF Sims
      <4>3. Owed' \in SUBSET Sims
        OBVIOUS
      <4>4. LockStep!Advance(Owed')
        BY <2>1, <3>2, <4>1, <4>2 DEF LockStep!Advance
      <4> HIDE DEF Owed
      <4> QED BY <4>3, <4>4 DEF LockStep!Next
    <3> QED BY <2>1, <3>3, <3>4
  <2> QED BY <2>2, <2>3
<1> QED
  BY <1>0, <1>1, <1>2, <1>3, <1>4, <1>5, <1>6, <1>7, <1>8, <1>9, <1>10, <1>11, <1>12, <1>13, <1>14, <1>15, NobodyEarly
  DEF Next, ClientStep, NetStep, BrokerStep, LockStep!Next, TickGranted,
      TickEnded, Sims

\* What the applications see is one virtual time that never goes back, and
\* clocks that only ever jump to it.
THEOREM Implements == FineNet => (Spec => OneVirtualTime)
<1>1. Init => LockStep!Init
  BY DEF Init, LockStep!Init, Owed
<1> QED
  BY <1>1, SyncInit, SyncNext, StepRefines, PTL
  DEF Spec, OneVirtualTime, LockStep!Spec

-----------------------------------------------------------------------------
(* Nobody is moved past the time it asked for.                             *)

\* A whole number of steps of a simulator whose step is its unit.
Whole(s, t) == \E k \in Nat : t = Unit[s] * k

\* A power simulator's step is one unit of its metric, and its application
\* asks for whole steps.
WholeSteps ==
  \A s \in Ticks : Step[s] = Unit[s] /\ \A d \in Strides[s] : Whole(s, d)

\* Whole numbers of steps that differ, differ by a step.
LEMMA WholeApart ==
  ASSUME NEW s \in Sims, NEW t, NEW u, Whole(s, t), Whole(s, u), t < u
  PROVE  t + Unit[s] <= u
<1> DEFINE U == Unit[s]
<1>1. U \in Nat /\ U > 0
  BY TimeAssumption
<1>2. PICK j \in Nat, k \in Nat : t = U * j /\ u = U * k
  BY DEF Whole
<1> HIDE DEF U
<1>3. j < k
  BY <1>1, <1>2
<1>4. U * (j + 1) <= U * k
  BY <1>1, <1>2, <1>3
<1> QED BY <1>1, <1>2, <1>4 DEF U

LEMMA WholeSum ==
  ASSUME NEW s \in Sims, NEW t, NEW u, Whole(s, t), Whole(s, u)
  PROVE  Whole(s, t + u)
<1> DEFINE U == Unit[s]
<1>1. U \in Nat /\ U > 0
  BY TimeAssumption
<1>2. PICK j \in Nat, k \in Nat : t = U * j /\ u = U * k
  BY DEF Whole
<1> HIDE DEF U
<1>3. t + u = U * (j + k) /\ j + k \in Nat
  BY <1>1, <1>2
<1> QED BY <1>3 DEF Whole, U

LEMMA WholeFloor ==
  ASSUME NEW s \in Sims, NEW t \in Nat
  PROVE  Whole(s, FloorTo(s, t))
<1> DEFINE U == Unit[s]
<1>1. U \in Nat /\ U > 0
  BY TimeAssumption
<1> HIDE DEF U
<1>2. t \div U \in Nat /\ t - (t % U) = U * (t \div U)
  BY <1>1
<1> QED BY <1>2 DEF FloorTo, Whole, U

LEMMA WholeOne ==
  ASSUME NEW s \in Sims
  PROVE  Whole(s, Unit[s]) /\ Whole(s, 0)
<1> DEFINE U == Unit[s]
<1>1. U \in Nat /\ U > 0
  BY TimeAssumption
<1> HIDE DEF U
<1>2. U = U * 1 /\ 0 = U * 0
  BY <1>1
<1> QED BY <1>2 DEF Whole, U

\* Inside a call a power simulator's local time is a whole number of steps
\* before what it asked, so that one step on is not past it; the network
\* simulator keeps what is agreed on below Infinity.
AskInv ==
  /\ pc[NetSim] \in {"delay", "min"} => est[NetSim] = Infinity
  /\ reduceMin[NetSim] # None => reduceMin[NetSim] = Infinity
  /\ \A s \in Sims : pc[s] \in {"delay", "min"} /\ rep[s] # None => rep[s] <= Infinity
  /\ \A s \in Ticks :
       /\ pc[s] # "finished" => cur[s] = granted[s]
       /\ granted[s] <= Infinity
       /\ pc[s] \in {"idle", "work"} => ~busy[s]
       /\ pc[s] = "work" \/ (pc[s] = "barrier" /\ ~busy[s]) => cur[s] < Horizon
       /\ pc[s] # "finished" => cur[s] = Infinity \/ Whole(s, cur[s])
       /\ InCall(s) =>
            /\ granted[s] <= asked[s]
            /\ Whole(s, base[s])
            /\ asked[s] = Infinity \/ Whole(s, asked[s])
            /\ asked[s] \in {0, Infinity} \/ base[s] < asked[s]
       /\ pc[s] \in {"delay", "min"} =>
            est[s] = asked[s] \/ est[s] = base[s] + Unit[s]

AskSync == WholeSteps /\ TypeInv /\ OneRequest /\ AskInv /\ NeverPastAsked

\* A power simulator never returns early.
LEMMA TicksInTime ==
  ASSUME AskSync, NEW s \in Ticks
  PROVE  ~StepStartEarly(s) /\ ~GetNextTimeEarly(s)
<1> USE DEF AskSync, TypeInv, TypeOK, AskInv
<1>0. s \in Sims
  BY DEF Sims
<1>1. ~StepStartEarly(s)
  BY <1>0 DEF StepStartEarly, GrantedAlready
<1>2. ASSUME GetNextTimeEarly(s) PROVE FALSE
  <2>1. PICK next \in AskedTimes(s) : next < granted[s]
    BY <1>2 DEF GetNextTimeEarly, GrantedAlready
  <2>2. pc[s] = "work" /\ cur[s] = granted[s] /\ granted[s] <= Infinity
    BY <1>2 DEF GetNextTimeEarly
  <2>3. next >= cur[s] \/ next = Infinity \/ granted[s] = 0
    BY <1>0, <2>1, TimeAssumption DEF AskedTimes
  <2>4. next \in Nat /\ granted[s] \in Nat
    BY <1>0, <2>1, AskedType
  <2> QED BY <2>1, <2>2, <2>3, <2>4, TimeAssumption
<1> QED BY <1>1, <1>2

\* What an application asks for is a later whole number of steps.
LEMMA AskedWhole ==
  ASSUME AskSync, NEW s \in Ticks, pc[s] = "work", NEW next \in AskedTimes(s)
  PROVE  /\ next \in Nat
         /\ next = Infinity \/ Whole(s, next)
         /\ next \in {0, Infinity} \/ cur[s] < next
<1> USE DEF AskSync, TypeInv, TypeOK, AskInv
<1>0. s \in Sims /\ next \in Nat
  BY AskedType DEF Sims
<1>1. cur[s] # Infinity /\ cur[s] \in Nat /\ Whole(s, cur[s])
  BY <1>0, TimeAssumption
<1>2. CASE next \in {cur[s] + d : d \in Strides[s]}
  <2>1. PICK d \in Strides[s] : next = cur[s] + d
    BY <1>2
  <2>2. d \in Nat \ {0} /\ Whole(s, d)
    BY <1>0, <2>1, TimeAssumption DEF WholeSteps
  <2>3. Whole(s, cur[s] + d)
    BY <1>0, <1>1, <2>2, WholeSum
  <2> QED BY <1>0, <1>1, <2>1, <2>2, <2>3
<1>3. CASE next \in {0, Infinity}
  BY <1>0, <1>3, WholeOne
<1> QED BY <1>2, <1>3 DEF AskedTimes

\* What a minimum can be.
LEMMA MinBound ==
  ASSUME AskSync, NEW s \in Sims, ReduceMinHandler(s), reduceMin[s] = None,
         NEW t \in Smallest([reduceMin EXCEPT ![s] = Proposal(s)])
  PROVE  [reduceMin EXCEPT ![s] = Proposal(s)][NetSim] # None => t <= Infinity
<1> USE DEF AskSync, TypeInv, TypeOK, AskInv
<1>1. NetSim \in Sims /\ pc[s] \in {"delay", "min"}
  BY DEF Sims, ReduceMinHandler, Serve
<1>2. [reduceMin EXCEPT ![s] = Proposal(s)][NetSim] \in {None, Infinity}
  BY <1>1 DEF Proposal
<1> QED BY <1>1, <1>2 DEF Smallest

LEMMA AskNext == AskSync /\ [Next]_vars => AskInv' /\ NeverPastAsked'
<1> SUFFICES ASSUME AskSync, [Next]_vars PROVE AskInv' /\ NeverPastAsked'
  OBVIOUS
<1> USE DEF AskSync, TypeInv, TypeOK, AskInv, NeverPastAsked, InCall
<1>0. /\ NetSim \in Sims /\ NetSim \notin Ticks
      /\ \A s \in Ticks : s \in Sims /\ Unit[s] \in Nat \ {0} /\ Step[s] = Unit[s]
  BY SimsAssumption, TimeAssumption DEF Sims, WholeSteps
<1>1. CASE UNCHANGED vars
  BY <1>1 DEF vars, simVars, commVars, brokerVars, msgVars, histVars
<1>2. ASSUME NEW s \in Sims, StepStart(s) PROVE AskInv' /\ NeverPastAsked'
  BY <1>0, <1>2 DEF StepStart, Call, brokerVars
<1>3. ASSUME NEW s \in Sims, StepStartEarly(s) \/ GetNextTimeEarly(s)
      PROVE  AskInv' /\ NeverPastAsked'
  <2>1. s = NetSim
    BY <1>3, TicksInTime DEF Sims
  <2> QED
    BY <1>0, <1>3, <2>1 DEF StepStartEarly, GetNextTimeEarly, brokerVars
<1>4. ASSUME NEW s \in Sims, GetNextTime(s) PROVE AskInv' /\ NeverPastAsked'
  <2>1. /\ pc[s] = "work" /\ pc' = [pc EXCEPT ![s] = "sr"]
        /\ base' = [base EXCEPT ![s] = cur[s]]
        /\ busy' = [busy EXCEPT ![s] = FALSE]
        /\ UNCHANGED <<cur, granted, est, reduceMin, rep>>
    BY <1>4 DEF GetNextTime, RequestDiff, Call, brokerVars
  <2>2. PICK next \in AskedTimes(s) :
          ~(next < granted[s]) /\ asked' = [asked EXCEPT ![s] = next]
    BY <1>4 DEF GetNextTime, GrantedAlready
  <2>3. s \in Ticks => /\ next \in Nat /\ granted[s] <= next
                       /\ Whole(s, cur[s])
                       /\ next = Infinity \/ Whole(s, next)
                       /\ next \in {0, Infinity} \/ cur[s] < next
    BY <1>0, <2>1, <2>2, AskedWhole, TimeAssumption
  <2>4. next \in Nat
    BY <2>2, AskedType
  <2>5. NeverPastAsked'
    BY <1>0, <2>1, <2>2
  <2>6. AskInv'
    BY <1>0, <2>1, <2>2, <2>3, <2>4
  <2> QED BY <2>5, <2>6
<1>5. ASSUME NEW s \in Sims, BarrierDone(s) \/ BusyBarrierDone(s)
      PROVE  AskInv' /\ NeverPastAsked'
  BY <1>0, <1>5
  DEF BarrierDone, BusyBarrierDone, TakeReply, RequestDiff, Call, brokerVars
<1>6. ASSUME NEW s \in Sims, TickDiff(s) PROVE AskInv' /\ NeverPastAsked'
  BY <1>0, <1>6 DEF TickDiff, TakeReply, OneStepOn, Call, brokerVars
<1>7. ASSUME NEW s \in Sims, DelayDone(s) PROVE AskInv' /\ NeverPastAsked'
  BY <1>0, <1>7 DEF DelayDone, TakeReply, Call, brokerVars
<1>8. ASSUME NEW s \in Sims, BusyWait(s) PROVE AskInv' /\ NeverPastAsked'
  <2>1. /\ s \in Ticks /\ pc[s] = "min" /\ rep[s] \in Nat
        /\ rep[s] < est[s] /\ rep[s] <= Infinity
        /\ base' = [base EXCEPT ![s] = NewBase(s)]
        /\ busy' = [busy EXCEPT ![s] = TRUE]
        /\ pc' = [pc EXCEPT ![s] = "barrier"]
        /\ rep' = [rep EXCEPT ![s] = None]
        /\ UNCHANGED <<cur, granted, asked, est, reduceMin>>
    BY <1>8, TimeAssumption DEF BusyWait, TakeReply, Call, brokerVars, NoneOr
  <2>2. NewBase(s) \in Nat /\ NewBase(s) <= rep[s] /\ Whole(s, NewBase(s))
    BY <1>0, <2>1, FloorType, WholeFloor DEF NewBase
  <2>3. est[s] <= asked[s] \/ asked[s] \in {0, Infinity}
    BY <1>0, <2>1, WholeApart
  <2> QED
    BY <1>0, <2>1, <2>2, <2>3
<1>9. ASSUME NEW s \in Sims, TickGranted(s) PROVE AskInv' /\ NeverPastAsked'
  <2>1. /\ s \in Ticks /\ pc[s] = "min" /\ rep[s] \in Nat
        /\ est[s] <= rep[s] /\ rep[s] <= Infinity
        /\ busy' = [busy EXCEPT ![s] = FALSE]
        /\ granted' = [granted EXCEPT ![s] = est[s]]
        /\ cur' = [cur EXCEPT ![s] = est[s]]
        /\ pc' = [pc EXCEPT ![s] = "idle"]
        /\ rep' = [rep EXCEPT ![s] = None]
        /\ UNCHANGED <<asked, base, est, reduceMin>>
    BY <1>9, TimeAssumption DEF TickGranted, TakeReply, brokerVars, NoneOr
  <2>2. asked[s] = 0 \/ est[s] <= asked[s]
    BY <1>0, <2>1, WholeApart, TimeAssumption
  <2>3. est[s] = Infinity \/ Whole(s, est[s])
    BY <1>0, <2>1, WholeSum, WholeOne
  <2>4. est[s] \in Nat /\ est[s] <= Infinity
    BY <1>0, <2>1, TimeAssumption
  <2>5. NeverPastAsked'
    BY <1>0, <2>1, <2>2
  <2>6. AskInv'
    BY <1>0, <2>1, <2>3, <2>4
  <2> QED BY <2>5, <2>6
<1>10. ASSUME NEW s \in Sims, TickEnded(s) PROVE AskInv' /\ NeverPastAsked'
  BY <1>0, <1>10 DEF TickEnded, TakeReply, brokerVars
<1>11. ASSUME NetDiff PROVE AskInv' /\ NeverPastAsked'
  BY <1>0, <1>11 DEF NetDiff, TakeReply, Call, brokerVars
<1>12. ASSUME NetGranted \/ NetEnded PROVE AskInv' /\ NeverPastAsked'
  BY <1>0, <1>12 DEF NetGranted, NetEnded, TakeReply, brokerVars
<1>13. ASSUME NEW m \in Msgs, Carry(m) PROVE AskInv' /\ NeverPastAsked'
  BY <1>13 DEF Carry, TickReceive, NetReceive, DelayHandler, RouteHandler,
               simVars, brokerVars
<1>14. ASSUME NEW s \in Sims, BarrierHandler(s) \/ SendRecvHandler(s)
       PROVE  AskInv' /\ NeverPastAsked'
  <2>1. UNCHANGED <<pc, cur, granted, asked, base, est, busy, reduceMin>>
    BY <1>14 DEF BarrierHandler, SendRecvHandler, simVars
  <2>2. \A r \in Sims : pc[r] \in {"delay", "min"} => rep'[r] = rep[r]
    BY <1>14
    DEF BarrierHandler, SendRecvHandler, Serve, Reply, OneRequest
  <2> QED BY <1>0, <2>1, <2>2
<1>15. ASSUME NEW s \in Sims, ReduceMinHandler(s) PROVE AskInv' /\ NeverPastAsked'
  <2> DEFINE entries == [reduceMin EXCEPT ![s] = Proposal(s)]
  <2>1. /\ pc[s] \in {"delay", "min"} /\ reduceMin[s] = None
        /\ UNCHANGED <<pc, cur, granted, asked, base, est, busy>>
    BY <1>15 DEF ReduceMinHandler, Serve, simVars, OneRequest
  <2>2. CASE \E t \in Sims : entries[t] = None
    <3>1. reduceMin' = entries /\ UNCHANGED rep
      BY <1>15, <2>1, <2>2 DEF ReduceMinHandler
    <3>2. entries[NetSim] \in {None, Infinity}
      BY <1>0, <2>1 DEF Proposal
    <3> QED BY <1>0, <2>1, <3>1, <3>2
  <2>3. CASE ~\E t \in Sims : entries[t] = None
    <3>1. PICK t \in Smallest(entries) :
            Reply(t) /\ reduceMin' = [r \in Sims |-> None]
      BY <1>15, <2>1, <2>3 DEF ReduceMinHandler
    <3>2. t <= Infinity
      BY <1>0, <1>15, <2>1, <2>3, <3>1, MinBound
    <3> QED BY <1>0, <2>1, <3>1, <3>2 DEF Reply
  <2> QED BY <2>2, <2>3
<1> QED
  BY <1>1, <1>2, <1>3, <1>4, <1>5, <1>6, <1>7, <1>8, <1>9, <1>10, <1>11, <1>12,
     <1>13, <1>14, <1>15
  DEF Next, ClientStep, NetStep, BrokerStep

\* A power simulator whose step is one unit of its metric and that asks for
\* whole steps is never moved past what it asked for, in whatever metric the
\* network simulator runs.
THEOREM AskedIsKept == WholeSteps => (Spec => []NeverPastAsked)
<1>1. WholeSteps /\ Init => AskSync
  <2> SUFFICES ASSUME WholeSteps, Init PROVE AskSync
    OBVIOUS
  <2>1. TypeInv
    BY TypeInit
  <2>2. OneRequest
    BY DEF Init, OneRequest, Collected, Waiting
  <2>3. \A s \in Ticks : s \in Sims /\ Whole(s, 0)
    BY WholeOne DEF Sims
  <2>4. AskInv /\ NeverPastAsked
    BY <2>3, TimeAssumption DEF Init, AskInv, NeverPastAsked, InCall, Sims
  <2> QED BY <2>1, <2>2, <2>4 DEF AskSync
<1>2. AskSync /\ [Next]_vars => AskSync'
  BY TypeNext, RequestNext, AskNext DEF AskSync, WholeSteps, Whole
<1>3. AskSync => NeverPastAsked
  BY DEF AskSync
<1> QED
  BY <1>1, <1>2, <1>3, PTL DEF Spec
=============================================================================
