--------------------- MODULE GracePeriodCounting_proofs ---------------------
(***************************************************************************)
(* Why the sums of the counters can be trusted.  Each counter is shown to  *)
(* be the number of elements of a set: the broker's totals count the       *)
(* messages in sentIn and recvIn, a simulator's counters those it has sent *)
(* or received beyond that.  When a collection of counters is complete     *)
(* everything sent is in sentIn, so the totals agree only if everything    *)
(* sent was also received or given up.                                     *)
(***************************************************************************)
EXTENDS GracePeriodSync_proofs

\* The messages that were received or given up, whoever did it.
Done == {m \in Msgs : loc[m] = "delivered"}
        \cup ({m \in Msgs : loc[m] \in {"held", "discarded"}} \ packets)

\* The counters of s are on their way to the broker; are in its totals but
\* not yet subtracted by s.
Pending(s) == pc[s] = "sr" /\ s \in req
Tallied(s) == pc[s] = "sr" /\ s \notin req

SendTally(s) ==
  /\ Tallied(s) => Sent(s) \subseteq sentIn /\ sendCount[s] = sendCopy[s]
  /\ ~Tallied(s) => sendCount[s] = Cardinality(Sent(s) \ sentIn)
  /\ Pending(s) => sendCopy[s] = sendCount[s]

RecvTally(s) ==
  /\ Tallied(s) =>
       receiveCount[s] = recvCopy[s] + Cardinality(Received(s) \ recvIn)
  /\ ~Tallied(s) => receiveCount[s] = Cardinality(Received(s) \ recvIn)
  /\ Pending(s) =>
       recvCopy[s] = Cardinality((copied \cap Received(s)) \ recvIn)
  /\ ~Pending(s) => copied \cap Received(s) \subseteq recvIn

Totals ==
  /\ \A m \in packets : loc[m] = "held"
  /\ \A m \in sentIn : loc[m] # "unsent"
  /\ recvIn \subseteq copied
  /\ copied \subseteq Done
  /\ sentTotal = Cardinality(sentIn)
  /\ recvTotal = Cardinality(recvIn)

CountInv == Totals /\ \A s \in Sims : SendTally(s) /\ RecvTally(s)

\* Where a simulator can be, in SleepingTick too.
Places == InApp \cup Waiting \cup {"wake", "rest", "gather"}

\* The types this rests on: where a simulator waits otherwise does not matter.
CommTypes ==
  /\ pc \in [Sims -> Places]
  /\ DOMAIN rep = Sims
  /\ sendCount \in [Sims -> Nat] /\ receiveCount \in [Sims -> Nat]
  /\ sendCopy \in [Sims -> Nat] /\ recvCopy \in [Sims -> Nat]
  /\ packets \subseteq Msgs
  /\ sentTotal \in Nat /\ recvTotal \in Nat
  /\ req \subseteq Sims
  /\ loc \in [Msgs -> Locs]
  /\ copied \subseteq Msgs /\ sentIn \subseteq Msgs /\ recvIn \subseteq Msgs
  /\ CopyBound

LEMMA TypesOfComm == TypeInv => CommTypes
  BY DEF TypeInv, TypeOK, CommTypes, Places

-----------------------------------------------------------------------------
(* Cardinalities of sets of messages.                                      *)

LEMMA CardSplit ==
  ASSUME NEW A \in SUBSET Msgs, NEW B \in SUBSET Msgs, A \cap B = {}
  PROVE  Cardinality(A \cup B) = Cardinality(A) + Cardinality(B)
<1>1. IsFiniteSet(A) /\ IsFiniteSet(B)
  BY SimsAssumption, FS_Subset
<1>2. /\ Cardinality(A) \in Nat /\ Cardinality(B) \in Nat
      /\ Cardinality(A \cap B) = 0
  BY <1>1, FS_CardinalityType, FS_EmptySet
<1>3. Cardinality(A \cup B) =
        Cardinality(A) + Cardinality(B) - Cardinality(A \cap B)
  BY <1>1, FS_Union
<1> QED BY <1>2, <1>3

LEMMA CardSub ==
  ASSUME NEW B \in SUBSET Msgs, NEW A \in SUBSET B
  PROVE  /\ Cardinality(A) <= Cardinality(B)
         /\ Cardinality(A) = Cardinality(B) => A = B
  BY SimsAssumption, FS_Subset

\* What is sent by one is not sent by another, and what is received by one is
\* not received by another.
LEMMA Disjoint ==
  ASSUME CommTypes, NEW s \in Sims, NEW t \in Sims, s # t
  PROVE  Sent(s) \cap Sent(t) = {} /\ Received(s) \cap Received(t) = {}
  BY SimsAssumption DEF Sent, Received, Sims

LEMMA SetTypes ==
  ASSUME CommTypes, NEW s \in Sims
  PROVE  /\ Sent(s) \in SUBSET Msgs /\ Received(s) \in SUBSET Msgs
         /\ Received(s) \subseteq Done
  BY SimsAssumption DEF Sent, Received, Done, TypeInv, TypeOK

-----------------------------------------------------------------------------
(* The invariant is preserved.                                             *)

\* Steps that touch neither messages nor counters.
LEMMA QuietCount ==
  ASSUME CountInv,
         UNCHANGED <<commVars, loc, sentTotal, recvTotal, countVars>>,
         \A t \in Sims : /\ (pc'[t] = "sr") <=> (pc[t] = "sr")
                         /\ pc[t] = "sr" => ((t \in req') <=> (t \in req))
  PROVE  CountInv'
<1>1. Totals'
  BY DEF CountInv, Totals, Done, commVars, countVars
<1>2. ASSUME NEW t \in Sims PROVE SendTally(t)' /\ RecvTally(t)'
  <2>1. UNCHANGED <<Sent(t), Received(t), sentIn, recvIn, copied,
                    sendCount, receiveCount, sendCopy, recvCopy>>
    BY DEF Sent, Received, commVars, countVars
  <2>2. (Pending(t)' <=> Pending(t)) /\ (Tallied(t)' <=> Tallied(t))
    BY DEF Pending, Tallied
  <2>3. SendTally(t) /\ RecvTally(t)
    BY DEF CountInv
  <2> QED BY <2>1, <2>2, <2>3 DEF SendTally, RecvTally
<1> QED BY <1>1, <1>2 DEF CountInv

\* sendAll: the sender's set and its counter grow alike, no receipt changes.
LEMMA SendAllCount ==
  ASSUME CommTypes, CountInv, NEW s \in Sims, pc[s] # "sr",
         NEW M \in SUBSET Outbox(s), SendAll(s, M)
  PROVE  /\ \A t \in Sims : Received(t)' = Received(t)
         /\ \A t \in Sims : t # s => Sent(t)' = Sent(t)
         /\ \A m \in packets' : loc'[m] = "held"
         /\ \A m \in Msgs : loc[m] # "unsent" => loc'[m] # "unsent"
         /\ Done' = Done
         /\ sendCount'[s] = Cardinality(Sent(s)' \ sentIn)
         /\ \A t \in Sims : t # s => sendCount'[t] = sendCount[t]
<1> USE DEF CommTypes
<1>0. M \subseteq Msgs /\ \A m \in packets : loc[m] = "held"
  BY DEF Outbox, CountInv, Totals
<1>1. sendCount[s] = Cardinality(Sent(s) \ sentIn)
  BY DEF CountInv, SendTally, Tallied
<1>2. CASE s = NetSim
  <2>1. \A m \in M : loc[m] = "held"
    BY <1>2 DEF Outbox
  <2>2. /\ \A m \in Msgs : loc'[m] = IF m \notin M THEN loc[m]
                                    ELSE IF m \in packets THEN "routing"
                                    ELSE "discarded"
        /\ packets' = packets \ M
        /\ sendCount' = sendCount
    BY <1>2 DEF SendAll, NotTimedOut
  <2>3. \A t \in Sims : Received(t)' = Received(t) /\ Sent(t)' = Sent(t)
    BY <1>0, <2>1, <2>2 DEF Received, Sent
  <2>4. Done' = Done
    BY <1>0, <2>1, <2>2 DEF Done
  <2> QED BY <1>0, <1>1, <1>2, <2>1, <2>2, <2>3, <2>4
<1>3. CASE s # NetSim
  <2>1. \A m \in M : loc[m] = "unsent" /\ From[m] = s
    BY <1>3 DEF Outbox
  <2>2. /\ \A m \in Msgs : loc'[m] = IF m \notin M THEN loc[m]
                                    ELSE IF m \in Direct THEN "routing"
                                    ELSE "delaying"
        /\ packets' = packets
        /\ sendCount'[s] = sendCount[s] + Cardinality(M)
        /\ \A t \in Sims : t # s => sendCount'[t] = sendCount[t]
    BY <1>3 DEF SendAll
  <2>3. \A t \in Sims : Received(t)' = Received(t)
    BY <1>0, <2>1, <2>2 DEF Received
  <2>4. Sent(s)' = Sent(s) \cup M /\ Sent(s) \cap M = {} /\ sentIn \cap M = {}
    BY <1>0, <2>1, <2>2 DEF Sent, CountInv, Totals
  <2>5. \A t \in Sims : t # s => Sent(t)' = Sent(t)
    BY <1>0, <2>1, <2>2 DEF Sent
  <2>6. Done' = Done
    BY <1>0, <2>1, <2>2 DEF Done
  <2>7. /\ Sent(s)' \ sentIn = (Sent(s) \ sentIn) \cup M
        /\ (Sent(s) \ sentIn) \cap M = {}
        /\ Sent(s) \ sentIn \in SUBSET Msgs /\ M \in SUBSET Msgs
    BY <1>0, <2>4, SetTypes
  <2>8. sendCount'[s] = Cardinality(Sent(s)' \ sentIn)
    BY <1>1, <2>2, <2>7, CardSplit
  <2> QED BY <1>0, <2>1, <2>2, <2>3, <2>5, <2>6, <2>8
<1> QED BY <1>2, <1>3


\* Steps that change the state of the messages but neither what was sent or
\* received nor any counter.
LEMMA MovedCount ==
  ASSUME CountInv, Done' = Done,
         \A m \in packets' : loc'[m] = "held",
         \A m \in sentIn : loc'[m] # "unsent",
         UNCHANGED <<sendCount, receiveCount, sendCopy, recvCopy, pc, req,
                     sentTotal, recvTotal, countVars>>,
         \A t \in Sims : Sent(t)' = Sent(t) /\ Received(t)' = Received(t)
  PROVE  CountInv'
<1>1. Totals'
  BY DEF CountInv, Totals, countVars
<1>2. ASSUME NEW t \in Sims PROVE SendTally(t)' /\ RecvTally(t)'
  <2>1. UNCHANGED <<Sent(t), Received(t), sentIn, recvIn, copied, Pending(t),
                    Tallied(t)>>
    BY DEF countVars, Pending, Tallied
  <2>2. SendTally(t) /\ RecvTally(t)
    BY DEF CountInv
  <2> QED BY <2>1, <2>2 DEF SendTally, RecvTally
<1> QED BY <1>1, <1>2 DEF CountInv

\* The counters are copied: the simulator's receipts so far are all in copied.
LEMMA CopyCount ==
  ASSUME CommTypes, CountInv, NEW s \in Sims, pc[s] # "sr",
         pc' = [pc EXCEPT ![s] = "sr"], req' = req \cup {s},
         sendCopy' = [sendCopy EXCEPT ![s] = sendCount'[s]],
         recvCopy' = [recvCopy EXCEPT ![s] = receiveCount[s]],
         copied' = copied \cup Received(s),
         UNCHANGED <<receiveCount, sentTotal, recvTotal, sentIn, recvIn>>,
         \A t \in Sims : Received(t)' = Received(t),
         \A t \in Sims : t # s =>
           Sent(t)' = Sent(t) /\ sendCount'[t] = sendCount[t],
         \A m \in packets' : loc'[m] = "held",
         \A m \in sentIn : loc'[m] # "unsent",
         Done' = Done,
         sendCount'[s] = Cardinality(Sent(s)' \ sentIn)
  PROVE  CountInv'
<1> USE DEF CommTypes
<1>1. Totals'
  BY SetTypes DEF CountInv, Totals
<1>2. SendTally(s)' /\ RecvTally(s)'
  <2>1. ~Tallied(s)' /\ Pending(s)' /\ ~Tallied(s)
    BY DEF Tallied, Pending
  <2>2. sendCopy'[s] = sendCount'[s] /\ recvCopy'[s] = receiveCount'[s]
    OBVIOUS
  <2>3. receiveCount'[s] = Cardinality(Received(s) \ recvIn)
    BY <2>1 DEF CountInv, RecvTally
  <2>4. (copied' \cap Received(s)') \ recvIn' = Received(s) \ recvIn
    OBVIOUS
  <2> QED BY <2>1, <2>2, <2>3, <2>4 DEF SendTally, RecvTally
<1>3. ASSUME NEW t \in Sims, t # s PROVE SendTally(t)' /\ RecvTally(t)'
  <2>1. (Pending(t)' <=> Pending(t)) /\ (Tallied(t)' <=> Tallied(t))
    BY <1>3 DEF Pending, Tallied
  <2>2. SendTally(t) /\ RecvTally(t)
    BY DEF CountInv
  <2>3. copied' \cap Received(t)' = copied \cap Received(t)
    BY <1>3, Disjoint
  <2>4. UNCHANGED <<Sent(t), Received(t), sendCount[t], receiveCount[t],
                    sendCopy[t], recvCopy[t]>>
    BY <1>3
  <2> QED BY <2>1, <2>2, <2>3, <2>4 DEF SendTally, RecvTally
<1> QED BY <1>1, <1>2, <1>3 DEF CountInv

\* The tallied counters are subtracted; what is left are the receipts counted
\* since, the packets given up now included.
LEMMA SubtractCount ==
  ASSUME CommTypes, CountInv, NEW s \in Sims,
         TakeReply(s, "sr"), s \notin req, NEW lost \in SUBSET packets,
         s # NetSim => lost = {},
         packets' = packets \ lost,
         sendCount' = Subtract(sendCount, sendCopy, s),
         receiveCount' = [receiveCount EXCEPT
                            ![s] = @ - recvCopy[s] + Cardinality(lost)],
         Call(s, "delay"),
         UNCHANGED <<sendCopy, recvCopy, loc, sentTotal, recvTotal, countVars>>
  PROVE  CountInv'
<1> USE DEF CommTypes
<1>1. Tallied(s) /\ ~Tallied(s)' /\ ~Pending(s)' /\ pc' = [pc EXCEPT ![s] = "delay"]
  BY DEF Tallied, Pending, TakeReply, Call
<1>2. \A m \in lost : loc[m] = "held"
  BY DEF CountInv, Totals
<1>3. lost \in SUBSET Msgs /\ Done \subseteq Done'
  BY DEF Done
<1>4. Totals'
  BY <1>3 DEF CountInv, Totals, countVars
<1>5. \A t \in Sims : Sent(t)' = Sent(t)
  BY DEF Sent
<1>6. \A t \in Sims : t # s => Received(t)' = Received(t)
  BY DEF Received
<1>7. Received(s)' = Received(s) \cup lost /\ Received(s) \cap lost = {}
  BY <1>2, <1>3 DEF Received
<1>8. lost \cap copied = {} /\ recvIn \subseteq copied
  BY DEF CountInv, Totals, Done
<1>9. SendTally(s)' /\ RecvTally(s)'
  <2>0. Sent(s) \subseteq sentIn /\ sendCount[s] = sendCopy[s]
    BY <1>1 DEF CountInv, SendTally
  <2>1. Sent(s) \ sentIn = {} /\ sendCount'[s] = 0
    BY <2>0 DEF Subtract
  <2>2. sendCount'[s] = Cardinality(Sent(s)' \ sentIn')
    BY <1>5, <2>1, FS_EmptySet DEF countVars
  <2>3. /\ Received(s)' \ recvIn' = (Received(s) \ recvIn) \cup lost
        /\ (Received(s) \ recvIn) \cap lost = {}
        /\ Received(s) \ recvIn \in SUBSET Msgs
    BY <1>7, <1>8, SetTypes DEF countVars
  <2>4. receiveCount[s] = recvCopy[s] + Cardinality(Received(s) \ recvIn)
    BY <1>1 DEF CountInv, RecvTally
  <2>5. /\ Cardinality(Received(s)' \ recvIn') =
             Cardinality(Received(s) \ recvIn) + Cardinality(lost)
        /\ Cardinality(Received(s) \ recvIn) \in Nat
        /\ Cardinality(lost) \in Nat
    BY <1>3, <2>3, CardSplit, MsgsCard
  <2>6. receiveCount'[s] = Cardinality(Received(s)' \ recvIn')
    BY <2>4, <2>5
  <2>7. copied' \cap Received(s)' \subseteq recvIn'
    BY <1>1, <1>7, <1>8 DEF CountInv, RecvTally, countVars, Tallied, Pending
  <2> QED BY <1>1, <2>2, <2>6, <2>7 DEF SendTally, RecvTally
<1>10. ASSUME NEW t \in Sims, t # s PROVE SendTally(t)' /\ RecvTally(t)'
  <2>1. (Pending(t)' <=> Pending(t)) /\ (Tallied(t)' <=> Tallied(t))
    BY <1>10 DEF Pending, Tallied, Call
  <2>2. SendTally(t) /\ RecvTally(t)
    BY DEF CountInv
  <2>3. UNCHANGED <<Sent(t), Received(t), sendCount[t], receiveCount[t],
                    sendCopy[t], recvCopy[t], sentIn, recvIn, copied>>
    BY <1>5, <1>6, <1>10 DEF Subtract, countVars
  <2> QED BY <2>1, <2>2, <2>3 DEF SendTally, RecvTally
<1> QED BY <1>4, <1>9, <1>10 DEF CountInv

\* The broker adds the counters of s to its totals.
LEMMA TallyCount ==
  ASSUME CommTypes, CountInv, NEW s \in Sims,
         Pending(s),
         req' = req \ {s},
         sentTotal' = sentTotal + sendCopy[s],
         recvTotal' = recvTotal + recvCopy[s],
         sentIn' = sentIn \cup Sent(s),
         recvIn' = recvIn \cup (copied \cap Received(s)),
         UNCHANGED <<commVars, loc, pc, copied>>
  PROVE  CountInv'
<1> USE DEF CommTypes
<1> DEFINE S == Sent(s) \ sentIn
           R == (copied \cap Received(s)) \ recvIn
<1>1. /\ S \in SUBSET Msgs /\ R \in SUBSET Msgs
      /\ S \cap sentIn = {} /\ R \cap recvIn = {}
      /\ sentIn' = sentIn \cup S /\ recvIn' = recvIn \cup R
  BY SetTypes
<1>2. /\ sendCopy[s] = Cardinality(S) /\ recvCopy[s] = Cardinality(R)
      /\ sendCount[s] = sendCopy[s]
      /\ receiveCount[s] = Cardinality(Received(s) \ recvIn)
  BY DEF CountInv, SendTally, RecvTally, Pending, Tallied
<1>3. /\ Cardinality(sentIn') = sentTotal' /\ Cardinality(recvIn') = recvTotal'
  <2>1. /\ Cardinality(sentIn \cup S) = Cardinality(sentIn) + Cardinality(S)
        /\ Cardinality(recvIn \cup R) = Cardinality(recvIn) + Cardinality(R)
    BY <1>1, CardSplit
  <2>2. sentTotal = Cardinality(sentIn) /\ recvTotal = Cardinality(recvIn)
    BY DEF CountInv, Totals
  <2> HIDE DEF S, R
  <2> QED BY <1>1, <1>2, <2>1, <2>2
<1>4. Totals'
  <2>1. \A m \in sentIn' : loc[m] # "unsent"
    BY DEF Sent, CountInv, Totals
  <2> QED BY <1>3, <2>1 DEF CountInv, Totals, Done, commVars
<1>5. \A t \in Sims : Sent(t)' = Sent(t) /\ Received(t)' = Received(t)
  BY DEF Sent, Received, commVars
<1>6. SendTally(s)' /\ RecvTally(s)'
  <2>1. Tallied(s)' /\ ~Pending(s)'
    BY DEF Pending, Tallied
  <2>2. /\ Received(s) \ recvIn = R \cup (Received(s) \ recvIn')
        /\ R \cap (Received(s) \ recvIn') = {}
        /\ Received(s) \ recvIn' \in SUBSET Msgs
    BY SetTypes
  <2>3. receiveCount[s] = recvCopy[s] + Cardinality(Received(s) \ recvIn')
    BY <1>1, <1>2, <2>2, CardSplit
  <2>4. Sent(s)' \subseteq sentIn' /\ copied' \cap Received(s)' \subseteq recvIn'
    BY <1>5
  <2> QED BY <1>2, <1>5, <2>1, <2>3, <2>4 DEF SendTally, RecvTally, commVars
<1>7. ASSUME NEW t \in Sims, t # s PROVE SendTally(t)' /\ RecvTally(t)'
  <2>1. (Pending(t)' <=> Pending(t)) /\ (Tallied(t)' <=> Tallied(t))
    BY <1>7 DEF Pending, Tallied
  <2>2. /\ Sent(t) \ sentIn' = Sent(t) \ sentIn
        /\ Received(t) \ recvIn' = Received(t) \ recvIn
        /\ (copied \cap Received(t)) \ recvIn' =
             (copied \cap Received(t)) \ recvIn
    BY <1>7, Disjoint
  <2>3. SendTally(t) /\ RecvTally(t)
    BY DEF CountInv
  <2> QED BY <1>5, <2>1, <2>2, <2>3 DEF SendTally, RecvTally, commVars
<1> QED BY <1>4, <1>6, <1>7 DEF CountInv

\* A power simulator counts a message it accepts.
LEMMA ReceiveCount ==
  ASSUME CommTypes, CountInv, NEW m \in Msgs, loc[m] = "toSim",
         loc' = [loc EXCEPT ![m] = "delivered"],
         receiveCount' = [receiveCount EXCEPT ![To[m]] = @ + 1],
         UNCHANGED <<sendCount, sendCopy, recvCopy, packets, pc, req,
                     sentTotal, recvTotal, countVars>>
  PROVE  CountInv'
<1> USE DEF CommTypes
<1> DEFINE s == To[m]
<1>0. s \in Sims /\ s # NetSim /\ m \notin packets
  <2>1. s \in Sims /\ s # NetSim
    BY SimsAssumption DEF Sims
  <2>2. m \notin packets
    BY DEF CountInv, Totals
  <2> QED BY <2>1, <2>2
<1>1. Done' = Done \cup {m} /\ m \notin Done
  <2>1. \A k \in Msgs : loc'[k] = IF k = m THEN "delivered" ELSE loc[k]
    OBVIOUS
  <2>2. ASSUME NEW k \in Msgs PROVE k \in Done' <=> k \in Done \/ k = m
    BY <1>0, <2>1 DEF Done
  <2>3. m \notin Done
    BY DEF Done
  <2> QED BY <2>2, <2>3 DEF Done
<1>2. m \notin copied /\ m \notin recvIn
  BY <1>1 DEF CountInv, Totals
<1>3. Totals'
  BY <1>0, <1>1 DEF CountInv, Totals, countVars
<1>4. \A t \in Sims : Sent(t)' = Sent(t)
  BY DEF Sent
<1>5. \A t \in Sims : t # s => Received(t)' = Received(t)
  BY <1>0 DEF Received
<1>6. Received(s)' = Received(s) \cup {m} /\ m \notin Received(s)
  BY <1>0 DEF Received
<1> HIDE DEF s
<1>7. SendTally(s)' /\ RecvTally(s)'
  <2>1. /\ Received(s)' \ recvIn' = (Received(s) \ recvIn) \cup {m}
        /\ (Received(s) \ recvIn) \cap {m} = {}
        /\ Received(s) \ recvIn \in SUBSET Msgs /\ {m} \in SUBSET Msgs
    BY <1>0, <1>2, <1>6, SetTypes DEF countVars
  <2>2. Cardinality(Received(s)' \ recvIn') =
          Cardinality(Received(s) \ recvIn) + 1
    <3>1. Cardinality({m}) = 1
      BY FS_Singleton
    <3> QED BY <2>1, <3>1, CardSplit
  <2>3. copied' \cap Received(s)' = copied \cap Received(s)
    BY <1>2, <1>6 DEF countVars
  <2>4. receiveCount'[s] = receiveCount[s] + 1
    BY <1>0 DEF s
  <2>5. Cardinality(Received(s) \ recvIn) \in Nat
    BY <2>1, MsgsCard
  <2>6. SendTally(s) /\ RecvTally(s)
    BY <1>0 DEF CountInv
  <2>7. (Pending(s)' <=> Pending(s)) /\ (Tallied(s)' <=> Tallied(s))
    BY DEF Pending, Tallied
  <2>8. SendTally(s)'
    BY <1>0, <1>4, <2>6, <2>7 DEF SendTally, countVars
  <2>9. RecvTally(s)'
    <3>1. CASE Tallied(s)
      <4>1. ~Pending(s)
        BY <3>1 DEF Pending, Tallied
      <4>2. receiveCount[s] = recvCopy[s] + Cardinality(Received(s) \ recvIn)
        BY <2>6, <3>1 DEF RecvTally
      <4>3. receiveCount'[s] =
              recvCopy'[s] + Cardinality(Received(s)' \ recvIn')
        BY <1>0, <2>2, <2>4, <2>5, <4>2
      <4> QED BY <2>3, <2>6, <2>7, <3>1, <4>1, <4>3 DEF RecvTally, countVars
    <3>2. CASE ~Tallied(s)
      <4>1. receiveCount'[s] = Cardinality(Received(s)' \ recvIn')
        BY <2>2, <2>4, <2>6, <3>2 DEF RecvTally
      <4>2. Pending(s) => recvCopy'[s] =
              Cardinality((copied' \cap Received(s)') \ recvIn')
        BY <2>3, <2>6 DEF RecvTally, countVars
      <4> QED BY <2>3, <2>6, <2>7, <3>2, <4>1, <4>2 DEF RecvTally, countVars
    <3> QED BY <3>1, <3>2
  <2> QED BY <2>8, <2>9
<1>8. ASSUME NEW t \in Sims, t # s PROVE SendTally(t)' /\ RecvTally(t)'
  <2>1. (Pending(t)' <=> Pending(t)) /\ (Tallied(t)' <=> Tallied(t))
    BY DEF Pending, Tallied
  <2>2. SendTally(t) /\ RecvTally(t)
    BY DEF CountInv
  <2>3. receiveCount'[t] = receiveCount[t]
    BY <1>8 DEF s
  <2> QED BY <1>4, <1>5, <1>8, <2>1, <2>2, <2>3
           DEF SendTally, RecvTally, countVars
<1> QED BY <1>3, <1>7, <1>8 DEF CountInv

\* When the last counters come in, everything sent is in the sum, and what
\* was received is part of it.
LEMMA AllReported ==
  ASSUME TypeInv, OneRequest, CountInv, NEW s \in Sims, SendRecvHandler(s),
         reduceSent \cup {s} = Sims
  PROVE  /\ \A t \in Sims : pc[t] = "sr" /\ rep[t] = None
         /\ recvIn' \subseteq Done
         /\ Done \subseteq sentIn'
         /\ \A m \in Msgs : loc[m] # "unsent" => m \in sentIn'
<1> USE DEF TypeInv, TypeOK
<1>1. pc[s] = "sr" /\ s \in req
  BY DEF SendRecvHandler, Serve
<1>2. \A t \in Sims : pc[t] = "sr" /\ rep[t] = None
  BY <1>1 DEF OneRequest
<1>3. \A t \in Sims : Sent(t) \subseteq sentIn'
  <2>1. ASSUME NEW t \in Sims, t # s PROVE Sent(t) \subseteq sentIn
    <3>1. t \in reduceSent
      BY <2>1
    <3>2. Tallied(t)
      BY <1>2, <3>1 DEF OneRequest, Tallied
    <3> QED BY <3>2 DEF CountInv, SendTally
  <2>2. sentIn' = sentIn \cup Sent(s)
    BY DEF SendRecvHandler
  <2> QED BY <2>1, <2>2
<1>4. \A m \in Msgs : loc[m] # "unsent" => m \in Sent(From[m])
  BY SimsAssumption DEF Sent
<1>5. \A m \in Msgs : From[m] \in Sims
  BY SimsAssumption DEF Sims
<1>6. \A m \in Msgs : loc[m] # "unsent" => m \in sentIn'
  BY <1>3, <1>4, <1>5
<1>7. Done \subseteq sentIn'
  BY <1>6 DEF Done
<1>8. recvIn' = recvIn \cup (copied \cap Received(s))
  BY DEF SendRecvHandler
<1> QED BY <1>2, <1>6, <1>7, <1>8 DEF CountInv, Totals

LEMMA TallyHandler ==
  ASSUME TypeInv, OneRequest, CountInv, NEW s \in Sims, SendRecvHandler(s)
  PROVE  CountInv' /\ s \notin reduceSent
<1>1. s \notin reduceSent /\ Pending(s)
  BY DEF SendRecvHandler, Serve, OneRequest, Pending
<1>2. /\ req' = req \ {s}
      /\ sentTotal' = sentTotal + sendCopy[s]
      /\ recvTotal' = recvTotal + recvCopy[s]
      /\ sentIn' = sentIn \cup Sent(s)
      /\ recvIn' = recvIn \cup (copied \cap Received(s))
      /\ UNCHANGED <<commVars, loc, pc, copied>>
  BY <1>1 DEF SendRecvHandler, Serve, simVars, msgVars
<1> QED BY <1>1, <1>2, TallyCount, TypesOfComm

\* The counters are reported once more, with nothing sent in between.
LEMMA AgainCount ==
  ASSUME CommTypes, CountInv, NEW s \in Sims, pc[s] # "sr",
         RequestDiff(s, sendCount[s]),
         UNCHANGED <<sendCount, receiveCount, packets, loc, sentTotal,
                     recvTotal, sentIn, recvIn>>
  PROVE  CountInv'
<1> USE DEF CommTypes
<1>1. /\ \A t \in Sims : Sent(t)' = Sent(t) /\ Received(t)' = Received(t)
      /\ Done' = Done
  BY DEF Sent, Received, Done
<1>2. /\ \A m \in packets' : loc'[m] = "held"
      /\ \A m \in sentIn : loc'[m] # "unsent"
  BY DEF CountInv, Totals
<1>3. sendCount'[s] = Cardinality(Sent(s)' \ sentIn)
  BY <1>1 DEF CountInv, SendTally, Tallied
<1> QED BY <1>1, <1>2, <1>3, CopyCount DEF RequestDiff, Call

\* No request is still under way when its reply is.
Unanswered == \A s \in Sims : rep[s] # None => s \notin req

\* The steps of the simulators and of the messages.
LEMMA ClientCount ==
  ASSUME CommTypes, CountInv, Unanswered,
         (\E s \in Sims : ClientStep(s)) \/ NetStep \/ (\E m \in Msgs : Carry(m))
  PROVE  CountInv'
<1> USE DEF CommTypes
<1>1. ASSUME NEW s \in Sims, StepStart(s) \/ GetNextTimeEarly(s)
      PROVE  CountInv'
  <2>1. PICK M \in SUBSET Outbox(s) : SendAll(s, M)
    BY <1>1 DEF StepStart, GetNextTimeEarly
  <2>2. /\ pc[s] # "sr" /\ \A t \in Sims : (pc'[t] = "sr") <=> (pc[t] = "sr")
        /\ \A t \in Sims : pc[t] = "sr" => ((t \in req') <=> (t \in req))
        /\ UNCHANGED <<receiveCount, sendCopy, recvCopy, sentTotal, recvTotal,
                        countVars>>
    BY <1>1 DEF StepStart, GetNextTimeEarly, Call, brokerVars, histVars
  <2>3. /\ \A t \in Sims : Received(t)' = Received(t)
        /\ \A t \in Sims : t # s => Sent(t)' = Sent(t)
        /\ \A m \in packets' : loc'[m] = "held"
        /\ \A m \in Msgs : loc[m] # "unsent" => loc'[m] # "unsent"
        /\ Done' = Done
        /\ sendCount'[s] = Cardinality(Sent(s)' \ sentIn)
        /\ \A t \in Sims : t # s => sendCount'[t] = sendCount[t]
    BY <2>1, <2>2, SendAllCount
  <2>5. Totals'
    BY <2>2, <2>3 DEF CountInv, Totals, countVars
  <2>6. ASSUME NEW t \in Sims PROVE SendTally(t)' /\ RecvTally(t)'
    <3>1. (Pending(t)' <=> Pending(t)) /\ (Tallied(t)' <=> Tallied(t))
      BY <2>2 DEF Pending, Tallied
    <3>2. SendTally(t) /\ RecvTally(t)
      BY DEF CountInv
    <3>3. RecvTally(t)'
      BY <2>2, <2>3, <3>1, <3>2 DEF RecvTally, countVars
    <3>4. CASE t = s
      BY <2>2, <2>3, <3>1, <3>3, <3>4
      DEF SendTally, Pending, Tallied, countVars
    <3>5. CASE t # s
      BY <2>2, <2>3, <3>1, <3>2, <3>3, <3>5 DEF SendTally, countVars
    <3> QED BY <3>4, <3>5
  <2> QED BY <2>5, <2>6 DEF CountInv
<1>2. ASSUME NEW s \in Sims, GetNextTime(s) PROVE CountInv'
  <2>1. PICK M \in SUBSET Outbox(s) : SendAll(s, M)
    BY <1>2 DEF GetNextTime
  <2>2. /\ pc[s] = "work"
        /\ RequestDiff(s, sendCount'[s])
        /\ UNCHANGED <<receiveCount, sentTotal, recvTotal, sentIn, recvIn>>
    BY <1>2 DEF GetNextTime, brokerVars
  <2>3. /\ \A t \in Sims : Received(t)' = Received(t)
        /\ \A t \in Sims : t # s => Sent(t)' = Sent(t)
        /\ \A m \in packets' : loc'[m] = "held"
        /\ \A m \in Msgs : loc[m] # "unsent" => loc'[m] # "unsent"
        /\ Done' = Done
        /\ sendCount'[s] = Cardinality(Sent(s)' \ sentIn)
        /\ \A t \in Sims : t # s => sendCount'[t] = sendCount[t]
    BY <2>1, <2>2, SendAllCount
  <2>5. \A m \in sentIn : loc'[m] # "unsent"
    BY <2>3 DEF CountInv, Totals
  <2> QED BY <2>2, <2>3, <2>5, CopyCount DEF RequestDiff, Call
<1>3. ASSUME NEW s \in Sims, BusyBarrierDone(s) PROVE CountInv'
  BY <1>3, AgainCount
  DEF BusyBarrierDone, TakeReply, brokerVars, msgVars
<1>4. ASSUME NEW s \in Sims, TickDiff(s) PROVE CountInv'
  <2> DEFINE lost == {}
  <2>1. /\ TakeReply(s, "sr") /\ Call(s, "delay") /\ packets' = packets \ lost
        /\ sendCount' = Subtract(sendCount, sendCopy, s)
        /\ receiveCount' = Subtract(receiveCount, recvCopy, s)
        /\ UNCHANGED <<sendCopy, recvCopy, loc, sentTotal, recvTotal,
                        countVars>>
    BY <1>4 DEF TickDiff, brokerVars, msgVars, histVars
  <2>2. Cardinality(lost) = 0
    BY FS_EmptySet
  <2>3. receiveCount[s] - recvCopy[s] \in Nat
    BY <2>1 DEF CopyBound, TakeReply
  <2>4. receiveCount' = [receiveCount EXCEPT
                           ![s] = @ - recvCopy[s] + Cardinality(lost)]
    <3>1. receiveCount[s] - recvCopy[s] + Cardinality(lost) =
            receiveCount[s] - recvCopy[s]
      BY <2>2, <2>3
    <3> HIDE DEF lost
    <3> QED BY <2>1, <3>1 DEF Subtract
  <2>5. lost \in SUBSET packets
    OBVIOUS
  <2> HIDE DEF lost
  <2>6. s # NetSim => lost = {}
    BY DEF lost
  <2> QED BY <2>1, <2>4, <2>5, <2>6, SubtractCount DEF TakeReply, Unanswered
<1>5. CASE NetDiff
  <2> DEFINE lost == IF rep[NetSim] > 0 THEN LostPackets ELSE {}
  <2>1. lost \in SUBSET packets /\ NetSim \in Sims
    BY DEF LostPackets, Sims
  <2>2. /\ TakeReply(NetSim, "sr") /\ Call(NetSim, "delay")
        /\ packets' = packets \ lost
        /\ sendCount' = Subtract(sendCount, sendCopy, NetSim)
        /\ receiveCount' = [receiveCount EXCEPT
                ![NetSim] = @ - recvCopy[NetSim] + Cardinality(lost)]
        /\ UNCHANGED <<sendCopy, recvCopy, loc, sentTotal, recvTotal,
                        countVars>>
    BY <1>5 DEF NetDiff, brokerVars, msgVars, histVars
  <2> HIDE DEF lost
  <2> QED BY <2>1, <2>2, SubtractCount DEF TakeReply, Unanswered
<1>6. ASSUME NEW s \in Sims,
             StepStartEarly(s) \/ BarrierDone(s) \/ DelayDone(s) \/ BusyWait(s)
             \/ TickGranted(s) \/ TickEnded(s)
      PROVE  CountInv'
  BY <1>6, QuietCount
  DEF StepStartEarly, BarrierDone, DelayDone, BusyWait, TickGranted, TickEnded,
      TakeReply, Call, brokerVars, msgVars, histVars
<1>7. CASE NetGranted \/ NetEnded
  BY <1>7, QuietCount
  DEF NetGranted, NetEnded, TakeReply, brokerVars, msgVars, histVars, Sims
<1>8. ASSUME NEW m \in Msgs, TickReceive(m) PROVE CountInv'
  <2>1. /\ loc[m] = "toSim" /\ To[m] \in Sims /\ To[m] # NetSim
        /\ UNCHANGED <<sendCount, sendCopy, recvCopy, packets, pc, req,
                        sentTotal, recvTotal, countVars>>
    BY <1>8, SimsAssumption DEF TickReceive, simVars, brokerVars, histVars, Sims
  <2>2. CASE mtime[m] < GraceTime(cur[To[m]])
    <3>1. loc' = [loc EXCEPT ![m] = "dropped"] /\ receiveCount' = receiveCount
      BY <1>8, <2>2 DEF TickReceive
    <3>2. m \notin packets
      BY <2>1 DEF CountInv, Totals
    <3>3. /\ Done' = Done
          /\ \A t \in Sims : Sent(t)' = Sent(t) /\ Received(t)' = Received(t)
      BY <2>1, <3>1, <3>2 DEF Done, Sent, Received
    <3>4. /\ \A k \in packets' : loc'[k] = "held"
          /\ \A k \in sentIn : loc'[k] # "unsent"
      BY <2>1, <3>1, <3>2 DEF CountInv, Totals
    <3> QED BY <2>1, <3>1, <3>3, <3>4, MovedCount
  <2>3. CASE ~(mtime[m] < GraceTime(cur[To[m]]))
    <3>1. /\ loc' = [loc EXCEPT ![m] = "delivered"]
          /\ receiveCount' = [receiveCount EXCEPT ![To[m]] = @ + 1]
      BY <1>8, <2>3 DEF TickReceive
    <3> QED BY <2>1, <3>1, ReceiveCount
  <2> QED BY <2>2, <2>3
<1>9. ASSUME NEW m \in Msgs, NetReceive(m) \/ DelayHandler(m) \/ RouteHandler(m)
       PROVE  CountInv'
  <2>1. /\ loc[m] \in {"toNet", "delaying", "routing"}
        /\ \/ /\ loc' = [loc EXCEPT ![m] = "held"]
              /\ packets' = packets \cup {m}
           \/ /\ \E l \in {"dropped", "toNet", "toSim"} :
                    loc' = [loc EXCEPT ![m] = l]
              /\ packets' = packets
        /\ UNCHANGED <<sendCount, receiveCount, sendCopy, recvCopy, pc, req,
                        sentTotal, recvTotal, countVars>>
    BY <1>9
    DEF NetReceive, DelayHandler, RouteHandler, simVars, commVars, brokerVars,
        histVars
  <2>2. m \notin packets
    BY <2>1 DEF CountInv, Totals
  <2>3. Done' = Done
    <3>1. ASSUME NEW k \in Msgs PROVE k \in Done' <=> k \in Done
      BY <2>1, <2>2, <3>1 DEF Done
    <3> QED BY <3>1 DEF Done
  <2>4. \A t \in Sims : Sent(t)' = Sent(t) /\ Received(t)' = Received(t)
    <3>1. ASSUME NEW k \in Msgs
          PROVE  /\ loc'[k] # "unsent" <=> loc[k] # "unsent"
                 /\ loc'[k] = "delivered" <=> loc[k] = "delivered"
                 /\ loc'[k] \in {"held", "discarded"} /\ k \notin packets'
                      <=> loc[k] \in {"held", "discarded"} /\ k \notin packets
      BY <2>1, <2>2, <3>1
    <3> QED BY <3>1 DEF Sent, Received
  <2>5. \A k \in packets' : loc'[k] = "held"
    BY <2>1, <2>2 DEF CountInv, Totals
  <2>6. \A k \in sentIn : loc'[k] # "unsent"
    BY <2>1 DEF CountInv, Totals
  <2> QED BY <2>1, <2>3, <2>4, <2>5, <2>6, MovedCount
<1> QED
  BY <1>1, <1>2, <1>3, <1>4, <1>5, <1>6, <1>7, <1>8, <1>9
  DEF ClientStep, NetStep, Carry

LEMMA CountNext ==
  TypeInv /\ OneRequest /\ CountInv /\ [Next]_vars => CountInv'
<1> SUFFICES ASSUME TypeInv, OneRequest, CountInv, [Next]_vars
             PROVE  CountInv'
  OBVIOUS
<1> USE DEF TypeInv, TypeOK
<1>1. CASE UNCHANGED vars
  BY <1>1, QuietCount DEF vars, simVars, brokerVars, msgVars, histVars
<1>2. ASSUME NEW s \in Sims, BarrierHandler(s) \/ ReduceMinHandler(s)
      PROVE  CountInv'
  BY <1>2, QuietCount
  DEF BarrierHandler, ReduceMinHandler, Serve, simVars, msgVars, histVars
<1>3. ASSUME NEW s \in Sims, SendRecvHandler(s) PROVE CountInv'
  BY <1>3, TallyHandler
<1>4. CASE (\E s \in Sims : ClientStep(s)) \/ NetStep \/ \E m \in Msgs : Carry(m)
  BY <1>4, ClientCount, TypesOfComm DEF OneRequest, Unanswered
<1> QED BY <1>1, <1>2, <1>3, <1>4 DEF Next, BrokerStep

LEMMA CountInit == Init => CountInv
<1> SUFFICES ASSUME Init PROVE CountInv
  OBVIOUS
<1>1. /\ packets = {} /\ sentIn = {} /\ recvIn = {} /\ copied = {}
      /\ sentTotal = 0 /\ recvTotal = 0 /\ req = {}
      /\ loc = [m \in Msgs |-> "unsent"]
      /\ \A s \in Sims : /\ pc[s] = "idle"
                        /\ sendCount[s] = 0 /\ receiveCount[s] = 0
  BY DEF Init
<1>2. Cardinality({}) = 0
  BY FS_EmptySet
<1>3. Totals
  BY <1>1, <1>2 DEF Totals
<1>4. ASSUME NEW s \in Sims PROVE SendTally(s) /\ RecvTally(s)
  <2>1. ~Pending(s) /\ ~Tallied(s)
    BY <1>1 DEF Pending, Tallied
  <2>2. Sent(s) = {} /\ Received(s) = {}
    BY <1>1 DEF Sent, Received
  <2>3. /\ Sent(s) \ sentIn = {} /\ Received(s) \ recvIn = {}
        /\ copied \cap Received(s) \subseteq recvIn
    BY <2>2
  <2>4. sendCount[s] = 0 /\ receiveCount[s] = 0
    BY <1>1
  <2> QED BY <1>2, <2>1, <2>3, <2>4 DEF SendTally, RecvTally
<1> QED BY <1>3, <1>4 DEF CountInv

-----------------------------------------------------------------------------
(* The totals never contradict each other.                                 *)

LEMMA BrokerUpNext ==
  TypeInv /\ OneRequest /\ CountInv /\ BrokerUp /\ [Next]_vars => BrokerUp'
<1> SUFFICES ASSUME TypeInv, OneRequest, CountInv, BrokerUp, [Next]_vars,
                    broker' # broker
             PROVE  FALSE
  BY DEF BrokerUp
<1>1. \E s \in Sims : BrokerStep(s)
  BY DEF Next, vars, ClientStep, NetStep, Carry, StepStart, StepStartEarly,
         GetNextTime, GetNextTimeEarly, BarrierDone, BusyBarrierDone, TickDiff,
         NetDiff, DelayDone, BusyWait, TickGranted, TickEnded, NetGranted,
         NetEnded, TickReceive, NetReceive, DelayHandler, RouteHandler,
         brokerVars
<1>2. PICK s \in Sims : SendRecvHandler(s)
  BY <1>1 DEF BrokerStep, BarrierHandler, ReduceMinHandler, Serve, OneRequest
<1>3. /\ s \notin reduceSent
      /\ CountInv'
  BY <1>2, TallyHandler
<1>4. reduceSent \cup {s} = Sims /\ Impossible(sentTotal', recvTotal')
  BY <1>2, <1>3 DEF SendRecvHandler
<1>5. recvIn' \subseteq sentIn'
  BY <1>2, <1>4, AllReported
<1>6. sentIn' \in SUBSET Msgs /\ sentTotal' \in Nat /\ recvTotal' \in Nat
  BY TypeNext DEF TypeInv, TypeOK
<1>7. recvTotal' <= sentTotal'
  BY <1>3, <1>5, <1>6, CardSub DEF CountInv, Totals
<1> QED BY <1>4, <1>6, <1>7 DEF Impossible

\* The broker never gives up on a co-simulation that only uses the default
\* algorithms: neither a repeated identity nor a sum of receipts above the
\* sum of sends ever reaches graceful_death.
THEOREM BrokerNeverDies == Spec => []BrokerUp
<1> DEFINE Inv == TypeInv /\ OneRequest /\ CountInv /\ BrokerUp
<1>1. Init => Inv
  BY TypeInit, CountInit DEF Init, OneRequest, Collected, Waiting, BrokerUp
<1>2. Inv /\ [Next]_vars => Inv'
  BY TypeNext, RequestNext, CountNext, BrokerUpNext
<1>3. Inv => BrokerUp
  OBVIOUS
<1> HIDE DEF Inv
<1> QED BY <1>1, <1>2, <1>3, PTL DEF Spec

-----------------------------------------------------------------------------
(* A difference of zero means a quiet network.                             *)

\* A simulator has learned, or is about to learn, that the network is stable.
KnowsQuiet(s) ==
  \/ pc[s] = "sr" /\ rep[s] = 0
  \/ s \in Ticks /\ ~respond[s] /\ pc[s] = "delay"
  \/ s \in Ticks /\ ~respond[s] /\ pc[s] = "min" /\ rep[s] = None

QuietInv == (\E s \in Sims : KnowsQuiet(s)) => InFlight = {}

\* While one does, nobody is where it could send.
LEMMA NoSender ==
  ASSUME TypeInv, InStep, NEW s \in Sims, KnowsQuiet(s), NEW t \in Sims
  PROVE  pc[t] \notin {"idle", "work"}
  BY TimeAssumption
  DEF InStep, Phase, After, KnowsQuiet, TypeInv, TypeOK, NoneOr

\* Only sendAll of a power simulator puts a message under way.
LEMMA FlightShrinks ==
  ASSUME TypeInv, CountInv, [Next]_vars,
         \A t \in Sims : pc[t] \notin {"idle", "work"}
  PROVE  InFlight' \subseteq InFlight
<1> USE DEF TypeInv, TypeOK, InFlight
<1>1. CASE UNCHANGED <<loc, packets>>
  BY <1>1
<1>2. CASE ~UNCHANGED <<loc, packets>>
  <2>1. NetDiff \/ \E m \in Msgs : Carry(m)
    BY <1>2
    DEF Next, vars, ClientStep, NetStep, BrokerStep, StepStart, StepStartEarly,
        GetNextTime, GetNextTimeEarly, BarrierDone, BusyBarrierDone, TickDiff,
        DelayDone, BusyWait, TickGranted, TickEnded, NetGranted, NetEnded,
        BarrierHandler, SendRecvHandler, ReduceMinHandler, commVars, msgVars
  <2>2. CASE NetDiff
    <3>1. loc' = loc /\ packets' \subseteq packets
      BY <2>2 DEF NetDiff, msgVars
    <3> QED BY <3>1
  <2>3. ASSUME NEW m \in Msgs, Carry(m) PROVE InFlight' \subseteq InFlight
    <3>1. /\ m \in InFlight
          /\ packets' \subseteq packets \cup {m}
          /\ \A k \in Msgs : k # m => loc'[k] = loc[k]
      BY <2>3 DEF Carry, TickReceive, NetReceive, DelayHandler, RouteHandler,
                  commVars
    <3> QED BY <3>1
  <2> QED BY <2>1, <2>2, <2>3
<1> QED BY <1>1, <1>2

\* Equal totals when the last counters come in.
LEMMA ZeroIsQuiet ==
  ASSUME TypeInv, OneRequest, CountInv, NEW s \in Sims, SendRecvHandler(s),
         rep' # rep, \E t \in Sims : rep'[t] = 0
  PROVE  InFlight = {}
<1> USE DEF TypeInv, TypeOK
<1>1. s \notin reduceSent /\ CountInv'
  BY TallyHandler
<1>2. /\ reduceSent \cup {s} = Sims
      /\ Reply(sentTotal' - recvTotal')
  BY <1>1 DEF SendRecvHandler
<1>3. sentIn' \in SUBSET Msgs /\ sentTotal' \in Nat /\ recvTotal' \in Nat
  BY TypeNext DEF Next, BrokerStep
<1>4. sentTotal' = recvTotal'
  <2>1. PICK t \in Sims : rep'[t] = 0
    OBVIOUS
  <2>2. rep'[t] = sentTotal' - recvTotal'
    BY <1>2 DEF Reply
  <2> QED BY <1>3, <2>1, <2>2
<1>5. recvIn' \subseteq Done /\ Done \subseteq sentIn'
      /\ \A m \in Msgs : loc[m] # "unsent" => m \in sentIn'
  BY <1>2, AllReported
<1>6. recvIn' = sentIn'
  BY <1>1, <1>3, <1>4, <1>5, CardSub DEF CountInv, Totals
<1>7. \A m \in packets : loc[m] = "held"
  BY DEF CountInv, Totals
<1> QED BY <1>5, <1>6, <1>7 DEF InFlight, Done

LEMMA QuietNext ==
  SyncInv /\ CountInv /\ QuietInv /\ [Next]_vars => QuietInv'
<1> SUFFICES ASSUME SyncInv, CountInv, QuietInv, [Next]_vars,
                    NEW s \in Sims, KnowsQuiet(s)'
             PROVE  InFlight' = {}
  BY DEF QuietInv
<1> USE DEF SyncInv, TypeInv, TypeOK
<1>1. CASE \E t \in Sims : KnowsQuiet(t)
  <2>1. InFlight = {}
    BY <1>1 DEF QuietInv
  <2>2. \A t \in Sims : pc[t] \notin {"idle", "work"}
    BY <1>1, NoSender
  <2> QED BY <2>1, <2>2, FlightShrinks
<1>2. CASE ~\E t \in Sims : KnowsQuiet(t)
  <2>1. ~KnowsQuiet(s)
    BY <1>2
  <2>2. \E t \in Sims : SendRecvHandler(t) /\ rep' # rep /\ rep'[s] = 0
    <3> USE DEF KnowsQuiet
    <3>0. \A t \in Ticks : t # NetSim /\ t \in Sims
      BY SimsAssumption DEF Sims
    <3>1. CASE UNCHANGED <<pc, rep, respond>>
      BY <2>1, <3>1
    <3>2. ASSUME NEW t \in Sims,
                 StepStart(t) \/ StepStartEarly(t) \/ GetNextTimeEarly(t)
                 \/ BarrierDone(t) \/ BusyWait(t) \/ TickGranted(t)
                 \/ TickEnded(t) \/ NetGranted \/ NetEnded
          PROVE  FALSE
      BY <2>1, <3>0, <3>2, TimeAssumption
      DEF StepStart, StepStartEarly, GetNextTimeEarly, BarrierDone, BusyWait,
          TickGranted, TickEnded, NetGranted, NetEnded, TakeReply, Call
    <3>3. ASSUME NEW t \in Sims, GetNextTime(t) \/ BusyBarrierDone(t)
          PROVE  FALSE
      BY <2>1, <3>0, <3>3, TimeAssumption
      DEF GetNextTime, BusyBarrierDone, RequestDiff, TakeReply, Call,
          OneRequest, Waiting
    <3>4. ASSUME NEW t \in Sims, TickDiff(t) \/ DelayDone(t) \/ NetDiff
          PROVE  FALSE
      <4>1. CASE TickDiff(t)
        <5>1. /\ pc[t] = "sr" /\ ~(rep[t] = 0)
              /\ pc' = [pc EXCEPT ![t] = "delay"]
              /\ rep' = [rep EXCEPT ![t] = None]
          BY <1>2, <4>1 DEF TickDiff, TakeReply, Call
        <5>2. respond' = [respond EXCEPT ![t] = TRUE]
          BY <4>1, <5>1 DEF TickDiff, Stable
        <5> QED BY <2>1, <5>1, <5>2, TimeAssumption
      <4>2. CASE DelayDone(t)
        BY <2>1, <3>0, <4>2, TimeAssumption DEF DelayDone, TakeReply, Call
      <4>3. CASE NetDiff
        BY <2>1, <3>0, <4>3, TimeAssumption DEF NetDiff, TakeReply, Call
      <4> QED BY <3>4, <4>1, <4>2, <4>3
    <3>5. ASSUME NEW t \in Sims, BarrierHandler(t) \/ ReduceMinHandler(t),
                 rep' # rep
          PROVE  FALSE
      <4>1. UNCHANGED <<pc, respond>> /\ pc[t] \in {"barrier", "delay", "min"}
        BY <3>5 DEF BarrierHandler, ReduceMinHandler, Serve, simVars
      <4>2. \A r \in Sims : pc[r] # "sr"
        <5>1. CASE BarrierHandler(t)
          BY <3>5, <5>1 DEF BarrierHandler, OneRequest, Serve
        <5>2. CASE ReduceMinHandler(t)
          BY <3>5, <4>1, <5>2, Agreement
          DEF ReduceMinHandler, Serve
        <5> QED BY <3>5, <5>1, <5>2
      <4>3. CASE pc[s] = "min"
        <5>1. ReduceMinHandler(t)
          BY <3>5, <4>1, <4>3 DEF BarrierHandler, OneRequest, Serve
        <5>2. rep[s] = None
          BY <3>5, <5>1, Agreement
        <5> QED BY <2>1, <4>1, <4>3, <5>2
      <4> QED BY <2>1, <4>1, <4>2, <4>3
    <3>6. ASSUME NEW t \in Sims, SendRecvHandler(t), rep' # rep
          PROVE  rep'[s] = 0
      <4>1. UNCHANGED <<pc, respond>>
        BY <3>6 DEF SendRecvHandler, Serve, simVars
      <4>2. \A r \in Sims : pc[r] = "sr"
        <5>1. reduceSent \cup {t} = Sims
          BY <3>6 DEF SendRecvHandler
        <5> QED BY <3>6, <5>1, AllReported
      <4> QED BY <4>1, <4>2
    <3> QED
      BY <3>1, <3>2, <3>3, <3>4, <3>5, <3>6
      DEF Next, ClientStep, NetStep, BrokerStep, Carry, vars, TickReceive,
          NetReceive, DelayHandler, RouteHandler, BarrierHandler,
          ReduceMinHandler, SendRecvHandler, simVars
  <2>3. InFlight = {}
    BY <2>2, ZeroIsQuiet
  <2>4. UNCHANGED <<loc, packets>>
    BY <2>2 DEF SendRecvHandler, commVars, msgVars
  <2> QED BY <2>3, <2>4 DEF InFlight
<1> QED BY <1>1, <1>2

\* When a power simulator takes the network for stable and proposes the time
\* it asked for, no message is anywhere under way.
THEOREM QuietWhenStable == FineNet => (Spec => []StableMeansQuiet)
<1>1. FineNet /\ Init => SyncInv /\ CountInv /\ QuietInv
  BY SyncInit, CountInit DEF Init, QuietInv, InFlight
<1>2. SyncInv /\ CountInv /\ QuietInv /\ [Next]_vars
        => (SyncInv /\ CountInv /\ QuietInv)'
  BY SyncNext, CountNext, QuietNext DEF SyncInv
<1>3. QuietInv => StableMeansQuiet
  BY DEF QuietInv, KnowsQuiet, StableMeansQuiet, Sims
<1> QED BY <1>1, <1>2, <1>3, PTL DEF Spec

=============================================================================
