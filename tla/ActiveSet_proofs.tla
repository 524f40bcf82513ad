-------------------------- MODULE ActiveSet_proofs --------------------------
(***************************************************************************)
(* Why the broker's world size is right although simulators sleep through  *)
(* the collectives.  Awake is the set of those the broker has answered or  *)
(* has a request of; world counts it, those in it go through the same      *)
(* calls (AwakeInv), and therefore the last proposal finds everyone in     *)
(* reduceMinTimeSleep, the sleeping with what they proposed (MinGathers).  *)
(* It either wakes all, at the instant reached, or moves the instant to    *)
(* the earliest proposal.  That what is proposed lies ahead (ProposalInv)  *)
(* needs the local times of those that go round the loop, and that the     *)
(* instant does not leave a message behind (SenderInv) the flags of those  *)
(* that sent at it.                                                        *)
(***************************************************************************)
EXTENDS ActiveSet, GracePeriodCounting_proofs

\* A simulator that holds the reply of reduceMinTimeSleep.
Answered(s) == pc[s] = "min" /\ rep[s] # None

Awake == {s \in Sims : ~Asleep(s)}

ActiveTypeInv ==
  /\ TypeInv
  /\ even \in [Sims -> BOOLEAN]
  /\ sentMessage \in [Sims -> BOOLEAN]
  /\ world \in Nat
  /\ incoming \subseteq Sims
  /\ sleepState \in [Sims -> Nat]
  /\ sleepingSim \in BOOLEAN

\* A request is in one place at a time, as in OneRequest; a simulator that
\* sleeps has none anywhere.
RequestInv ==
  \A s \in Sims :
    /\ pc[s] # "finished" /\ ~busy[s]
    /\ s \in req => pc[s] \in Waiting /\ rep[s] = None
    /\ rep[s] # None => pc[s] \in Waiting
    /\ s \in barrier => pc[s] = "barrier" /\ s \notin req /\ rep[s] = None
    /\ s \in reduceSent => pc[s] = "sr" /\ s \notin req /\ rep[s] = None
    /\ s \in Delaying => pc[s] = "delay" /\ s \notin req /\ rep[s] = None
    /\ s \in incoming => pc[s] = "min" /\ s \notin req /\ rep[s] = None

\* The broker waits for those that are awake, and they go together.
Together == \A s, t \in Awake : NextCall(s) = NextCall(t)

AwakeInv ==
  /\ NetSim \in Awake
  /\ world = Cardinality(Awake)
  /\ Together
  /\ Awake # Sims => sleepingSim

\* The instant and the clocks.
InstantInv ==
  /\ now <= Infinity
  /\ \E s \in Sims : sleepState[s] = now
  /\ \A s \in Sims :
       /\ now <= sleepState[s]
       /\ cur[s] = granted[s] /\ cur[s] <= now
       /\ pc[s] \in {"idle", "work", "barrier"} => cur[s] = now
       /\ Answered(s) => rep[s] = now
  /\ pc[NetSim] \in {"delay", "min"} => est[NetSim] = Infinity
  /\ ~Answered(NetSim) => cur[NetSim] = now

\* What a power simulator inside GetNextTime proposes is ahead; only one that
\* was woken holds an instant before its proposal.
ProposalInv ==
  \A s \in Ticks :
    /\ pc[s] \in {"sr", "delay", "min"} /\ ~Answered(s) =>
         /\ asked[s] > now \/ respond[s]
         /\ ~Asleep(s) => base[s] <= now /\ now < base[s] + Step[s]
    /\ pc[s] \in {"delay", "min"} =>
         /\ ~respond[s] => est[s] = asked[s]
         /\ ~Answered(s) => now < est[s]
    /\ Asleep(s) => sleepState[s] = est[s]
    /\ Answered(s) => now <= est[s]
    /\ Answered(s) /\ now = est[s] => cur[s] < now
    /\ Answered(s) /\ now < est[s] => Awake = Sims

\* A message as recent as the instant makes its sender's next proposal wake
\* the receiver.
SenderInv ==
  /\ \A s \in Ticks : pc[s] \in {"barrier", "work"} => cur[s] < Horizon
  /\ \A m \in Msgs : loc[m] # "unsent" =>
       /\ mtime[m] <= cur[From[m]] /\ mtime[m] < Horizon
       /\ mtime[m] = now /\ Asleep(To[m]) =>
            ~Asleep(From[m]) /\ sentMessage[From[m]]

ActiveInv == /\ ActiveTypeInv /\ RequestInv /\ AwakeInv /\ InstantInv
             /\ ProposalInv /\ SenderInv
-----------------------------------------------------------------------------
(* What REDUCE_MIN_TIME_SLEEP does when the last proposal of a round is in.  *)

\* A message was sent: all are told the instant they are at.
Woke(s) ==
  /\ Complete(incoming \cup {s})
  /\ HadMessage(incoming \cup {s}) /\ sleepingSim
  /\ incoming' = {}
  /\ \E t \in Smallest(sleepState) : rep' = [r \in Sims |-> t]
  /\ world' = Cardinality(Sims)
  /\ sleepingSim' = FALSE
  /\ UNCHANGED <<broker, sleepState, now>>

\* Otherwise the instant moves to the earliest proposal.
Moved(s) ==
  LET f == Times(incoming \cup {s})
  IN /\ Complete(incoming \cup {s})
     /\ ~(HadMessage(incoming \cup {s}) /\ sleepingSim)
     /\ incoming' = {}
     /\ \E t \in Smallest(f) :
          /\ ReplyTo(Due(f, t), t)
          /\ world' = Cardinality(Due(f, t))
          /\ sleepingSim' = (Due(f, t) # Sims)
          /\ now' = t
     /\ sleepState' = f
     /\ UNCHANGED broker

LEMMA MinCases ==
  ASSUME NEW s \in Sims, ReduceMinSleep(s)
  PROVE  \/ /\ Excess(s, incoming)
            /\ broker' = "dead"
            /\ UNCHANGED <<rep, sleepVars, now>>
         \/ /\ incoming' = incoming \cup {s}
            /\ UNCHANGED <<broker, rep, world, sleepState, sleepingSim, now>>
         \/ Woke(s)
         \/ Moved(s)
<1>1. CASE Excess(s, incoming)
  BY <1>1 DEF ReduceMinSleep, GracefulDeath
<1>2. CASE ~Excess(s, incoming) /\ ~Complete(incoming \cup {s})
  BY <1>2 DEF ReduceMinSleep
<1>3. CASE /\ ~Excess(s, incoming) /\ Complete(incoming \cup {s})
           /\ HadMessage(incoming \cup {s}) /\ sleepingSim
  <2>1. \A t : ReplyTo(Woken(incoming \cup {s}), t) => rep' = [r \in Sims |-> t]
    BY DEF ReplyTo, Woken
  <2> QED BY <1>3, <2>1 DEF ReduceMinSleep, Woke
<1>4. CASE /\ ~Excess(s, incoming) /\ Complete(incoming \cup {s})
           /\ ~(HadMessage(incoming \cup {s}) /\ sleepingSim)
  BY <1>4 DEF ReduceMinSleep, Moved
<1> QED BY <1>1, <1>2, <1>3, <1>4

-----------------------------------------------------------------------------
(* Types.                                                                  *)

\* The steps shared with GracePeriodSync keep its types.
LEMMA SharedTypes ==
  ASSUME TypeInv, NEW s \in Sims,
         \/ StepStart(s) \/ BarrierDone(s) \/ GetNextTime(s) \/ TickDiff(s)
         \/ NetDiff \/ TickGranted(s)
  PROVE  TypeInv'
  BY TypeNext DEF Next, ClientStep, NetStep

LEMMA ReiterateTypes ==
  ASSUME ActiveTypeInv, NEW s \in Sims, TakeReply(s, "min"), Reiterate(s)
  PROVE  ActiveTypeInv'
<1> USE DEF ActiveTypeInv, TypeInv, TypeOK, CopyBound, InApp, Waiting, NoneOr
<1>1. rep[s] \in Nat
  BY DEF TakeReply
<1>2. NewBase(s) \in Nat
  BY <1>1, FloorType DEF NewBase
<1>3. Received(s) \in SUBSET Msgs
  BY DEF Received
<1> QED
  BY <1>1, <1>2, <1>3
  DEF Reiterate, RequestDiff, TakeReply, Call, brokerVars, msgVars, sleepVars

LEMMA ActiveTypeNext == ActiveTypeInv /\ [ActiveNext]_activeVars => ActiveTypeInv'
<1> SUFFICES ASSUME ActiveTypeInv, [ActiveNext]_activeVars PROVE ActiveTypeInv'
  OBVIOUS
<1>0. TypeInv
  BY DEF ActiveTypeInv
<1> USE DEF ActiveTypeInv
<1>1. CASE UNCHANGED activeVars
  <2>1. TypeInv'
    BY <1>0, <1>1, TypeNext DEF activeVars
  <2> QED BY <1>1, <2>1 DEF activeVars, localVars, sleepVars
<1>2. ASSUME NEW s \in Sims,
             \/ ActiveStepStart(s) \/ ActiveBarrierDone(s) \/ ActiveGetNextTime(s)
             \/ ActiveTickDiff(s) \/ ActiveNetDiff \/ ActiveTickGranted(s)
      PROVE  ActiveTypeInv'
  <2>1. TypeInv'
    BY <1>0, <1>2, SharedTypes
    DEF ActiveStepStart, ActiveBarrierDone, ActiveGetNextTime, ActiveTickDiff,
        ActiveNetDiff, ActiveTickGranted
  <2>2. sentMessage' \in [Sims -> BOOLEAN] /\ even' \in [Sims -> BOOLEAN]
    BY <1>2
    DEF ActiveStepStart, ActiveBarrierDone, ActiveGetNextTime, ActiveTickDiff,
        ActiveNetDiff, ActiveTickGranted, NodeSentMessage, localVars
  <2>3. UNCHANGED sleepVars
    BY <1>2
    DEF ActiveStepStart, ActiveBarrierDone, ActiveGetNextTime, ActiveTickDiff,
        ActiveNetDiff, ActiveTickGranted
  <2> QED BY <2>1, <2>2, <2>3 DEF sleepVars
<1>3. ASSUME NEW s \in Sims, ActiveDelayDone(s) PROVE ActiveTypeInv'
  BY <1>3
  DEF ActiveDelayDone, TakeReply, Call, brokerVars, msgVars, histVars, countVars,
      localVars, sleepVars, TypeInv, TypeOK, CopyBound, InApp, Waiting, NoneOr
<1>4. ASSUME NEW s \in Sims, WokenUp(s) \/ NetAgain PROVE ActiveTypeInv'
  BY <1>4, ReiterateTypes DEF WokenUp, NetAgain, Sims
<1>5. CASE ActiveNetGranted
  <2>1. NetSim \in Sims /\ rep[NetSim] \in Nat
    BY <1>0, <1>5
    DEF ActiveNetGranted, TakeReply, TypeInv, TypeOK, NoneOr, Sims
  <2>2. FloorTo(NetSim, rep[NetSim]) \in Nat
    BY <2>1, FloorType
  <2> QED
    BY <1>5, <2>1, <2>2
    DEF ActiveNetGranted, TakeReply, commVars, brokerVars, msgVars, histVars,
        countVars, localVars, sleepVars, TypeInv, TypeOK, CopyBound, InApp,
        Waiting, NoneOr
<1>6. ASSUME NEW s \in Sims, ActiveBarrier(s) PROVE ActiveTypeInv'
  BY <1>6
  DEF ActiveBarrier, Serve, GracefulDeath, ReplyTo, Ack, simVars, commVars,
      msgVars, histVars, countVars, localVars, sleepVars, TypeInv, TypeOK,
      CopyBound, InApp, Waiting, NoneOr
<1>7. ASSUME NEW s \in Sims, ActiveSendRecv(s) PROVE ActiveTypeInv'
  <2> USE DEF TypeInv, TypeOK, NoneOr
  <2>1. /\ sentTotal' \in Nat /\ recvTotal' \in Nat
        /\ reduceSent' \subseteq Sims /\ broker' \in {"up", "dead"}
        /\ req' \subseteq Sims
    BY <1>7 DEF ActiveSendRecv, Serve, GracefulDeath
  <2>2. rep' \in [Sims -> NoneOr(Nat)]
    BY <1>7, <2>1 DEF ActiveSendRecv, ReplyTo, Impossible
  <2>3. sentIn' \subseteq Msgs /\ recvIn' \subseteq Msgs
    BY <1>0, <1>7 DEF ActiveSendRecv, Sent, Received
  <2> QED
    BY <1>7, <2>1, <2>2, <2>3
    DEF ActiveSendRecv, simVars, commVars, msgVars, localVars, sleepVars, CopyBound
<1>8. ASSUME NEW s \in Sims, ActiveDelay(s) PROVE ActiveTypeInv'
  BY <1>8, TimeAssumption
  DEF ActiveDelay, Serve, GracefulDeath, ReplyTo, simVars, commVars,
      msgVars, histVars, countVars, localVars, sleepVars, TypeInv, TypeOK,
      CopyBound, InApp, Waiting, NoneOr
<1>9. ASSUME NEW s \in Sims, ReduceMinSleep(s) PROVE ActiveTypeInv'
  <2> DEFINE in == incoming \cup {s}
  <2>1. \A t \in Smallest(Times(in)) \cup Smallest(sleepState) : t \in Nat
    BY <1>0 DEF Smallest, Times, TypeInv, TypeOK
  <2>2. Times(in) \in [Sims -> Nat]
    BY <1>0 DEF Times, TypeInv, TypeOK
  <2>3. \A t : Due(Times(in), t) \subseteq Sims
    BY DEF Due, Sims
  <2>4. \A S \in SUBSET Sims : Cardinality(S) \in Nat
    BY ActiveAssumption, FS_AddElement, FS_Subset, FS_CardinalityType DEF Sims
  <2> DEFINE Typed == /\ rep' \in [Sims -> NoneOr(Nat)] /\ world' \in Nat
                      /\ now' \in Nat /\ incoming' \subseteq Sims
                      /\ sleepState' \in [Sims -> Nat]
                      /\ sleepingSim' \in BOOLEAN
  <2>5. Typed
    <3> SUFFICES Typed
      OBVIOUS
    <3>0. rep \in [Sims -> NoneOr(Nat)] /\ now \in Nat
      BY <1>0 DEF TypeInv, TypeOK
    <3>1. CASE /\ UNCHANGED <<rep, world, sleepState, sleepingSim, now>>
               /\ incoming' \subseteq incoming \cup {s}
      BY <3>0, <3>1
    <3>2. CASE Woke(s)
      BY <2>1, <2>4, <3>0, <3>2 DEF Woke, ReplyTo, NoneOr
    <3>3. CASE Moved(s)
      BY <2>1, <2>2, <2>3, <2>4, <3>0, <3>3 DEF Moved, ReplyTo, NoneOr
    <3> QED BY <1>9, <3>1, <3>2, <3>3, MinCases DEF sleepVars
  <2>6. broker' \in {"up", "dead"} /\ req' \subseteq Sims
    BY <1>0, <1>9 DEF ReduceMinSleep, Serve, GracefulDeath, TypeInv, TypeOK
  <2> QED
    BY <1>9, <2>5, <2>6
    DEF ReduceMinSleep, simVars, commVars, msgVars, countVars, localVars, TypeInv,
        TypeOK, CopyBound
<1>10. ASSUME NEW m \in Msgs, ActiveCarry(m) PROVE ActiveTypeInv'
  <2>1. TypeInv'
    BY <1>0, <1>10, TypeNext DEF ActiveCarry, Next
  <2> QED BY <1>10, <2>1 DEF ActiveCarry, localVars, sleepVars
<1> QED
  BY <1>1, <1>2, <1>3, <1>4, <1>5, <1>6, <1>7, <1>8, <1>9, <1>10
  DEF ActiveNext, ActiveClientStep, ActiveNetStep, ActiveBrokerStep, Sims

-----------------------------------------------------------------------------
(* A complete collection holds those that are awake.                       *)

LEMMA SimsFinite == IsFiniteSet(Sims)
  BY ActiveAssumption, FS_AddElement DEF Sims

\* One that is awake and not in yet is never one too many, and the last of
\* them completes the collection.
LEMMA Room ==
  ASSUME ActiveTypeInv, AwakeInv, NEW S \in SUBSET Awake, NEW s \in Awake, s \notin S
  PROVE  ~Excess(s, S) /\ (Complete(S \cup {s}) => S \cup {s} = Awake)
<1>1. IsFiniteSet(Awake) /\ S \cup {s} \subseteq Awake
  BY SimsFinite, FS_Subset DEF Awake
<1>2. /\ Cardinality(S \cup {s}) <= Cardinality(Awake)
      /\ Cardinality(S \cup {s}) = Cardinality(Awake) => S \cup {s} = Awake
      /\ Cardinality(S \cup {s}) \in Nat /\ Cardinality(Awake) \in Nat
  BY <1>1, FS_Subset, FS_CardinalityType
<1>3. world = Cardinality(Awake)
  BY DEF AwakeInv
<1> QED BY <1>2, <1>3 DEF Excess, Complete

\* Who waits in one of the first three calls, has a request on its way, or
\* was collected, is awake.
LEMMA WhoIsAwake ==
  ASSUME RequestInv, NEW s \in Sims,
         pc[s] # "min" \/ s \in req \cup incoming \/ rep[s] # None
  PROVE  s \in Awake
  BY DEF Awake, Asleep

LEMMA BarrierGathers ==
  ASSUME ActiveTypeInv, RequestInv, AwakeInv, NEW s \in Sims, ActiveBarrier(s)
  PROVE  /\ broker' = broker
         /\ \/ barrier' = barrier \cup {s} /\ rep' = rep
            \/ /\ barrier' = {} /\ ReplyTo(Awake, Ack)
               /\ \A t \in Awake : pc[t] = "barrier" /\ rep[t] = None /\ t \notin req'
<1>1. s \in req /\ pc[s] = "barrier" /\ s \notin barrier /\ rep[s] = None
  BY DEF ActiveBarrier, Serve, RequestInv
<1>2. barrier \subseteq Awake /\ s \in Awake
  BY <1>1, WhoIsAwake DEF RequestInv, ActiveTypeInv, TypeInv, TypeOK
<1>3. /\ ~Excess(s, barrier)
      /\ Complete(barrier \cup {s}) => barrier \cup {s} = Awake
  BY <1>1, <1>2, Room
<1>4. \A t \in barrier \cup {s} : pc[t] = "barrier" /\ rep[t] = None /\ t \notin req'
  BY <1>1, <1>2 DEF ActiveBarrier, Serve, RequestInv, Awake
<1> QED BY <1>3, <1>4 DEF ActiveBarrier

LEMMA SendRecvGathers ==
  ASSUME ActiveTypeInv, RequestInv, AwakeInv, NEW s \in Sims, ActiveSendRecv(s)
  PROVE  /\ s \notin reduceSent
         /\ \/ reduceSent' = reduceSent \cup {s} /\ rep' = rep /\ broker' = broker
            \/ /\ reduceSent' = {} /\ reduceSent \cup {s} = Awake
               /\ \A t \in Awake : pc[t] = "sr" /\ rep[t] = None /\ t \notin req'
               /\ \/ /\ Impossible(sentTotal', recvTotal')
                     /\ GracefulDeath /\ rep' = rep
                  \/ /\ ReplyTo(Awake, sentTotal' - recvTotal')
                     /\ sentTotal' - recvTotal' \in Nat
                     /\ broker' = broker
<1>1. s \in req /\ pc[s] = "sr" /\ s \notin reduceSent /\ rep[s] = None
  BY DEF ActiveSendRecv, Serve, RequestInv
<1>2. reduceSent \subseteq Awake /\ s \in Awake
  BY <1>1, WhoIsAwake DEF RequestInv, ActiveTypeInv, TypeInv, TypeOK
<1>3. /\ ~Excess(s, reduceSent)
      /\ Complete(reduceSent \cup {s}) => reduceSent \cup {s} = Awake
  BY <1>1, <1>2, Room
<1>4. \A t \in reduceSent \cup {s} : pc[t] = "sr" /\ rep[t] = None /\ t \notin req'
  BY <1>1, <1>2 DEF ActiveSendRecv, Serve, RequestInv, Awake
<1>5. /\ sentTotal' = sentTotal + sendCopy[s] /\ recvTotal' = recvTotal + recvCopy[s]
      /\ sentTotal' \in Nat /\ recvTotal' \in Nat
  BY <1>3 DEF ActiveSendRecv, ActiveTypeInv, TypeInv, TypeOK
<1>6. CASE ~Complete(reduceSent \cup {s})
  BY <1>1, <1>3, <1>6 DEF ActiveSendRecv
<1>7. CASE Complete(reduceSent \cup {s}) /\ Impossible(sentTotal', recvTotal')
  BY <1>1, <1>3, <1>4, <1>7 DEF ActiveSendRecv
<1>8. CASE Complete(reduceSent \cup {s}) /\ ~Impossible(sentTotal', recvTotal')
  <2>1. sentTotal' - recvTotal' \in Nat
    BY <1>5, <1>8 DEF Impossible
  <2>2. /\ reduceSent' = {} /\ broker' = broker
        /\ ReplyTo(reduceSent \cup {s}, sentTotal' - recvTotal')
    BY <1>3, <1>8 DEF ActiveSendRecv
  <2> QED BY <1>1, <1>3, <1>4, <1>8, <2>1, <2>2
<1> QED BY <1>6, <1>7, <1>8

LEMMA DelayGathers ==
  ASSUME ActiveTypeInv, RequestInv, AwakeInv, NEW s \in Sims, ActiveDelay(s)
  PROVE  /\ broker' = broker
         /\ \/ reduceMin' = [reduceMin EXCEPT ![s] = Infinity] /\ rep' = rep
            \/ /\ reduceMin' = [t \in Sims |-> None] /\ ReplyTo(Awake, Infinity)
               /\ \A t \in Awake : pc[t] = "delay" /\ rep[t] = None /\ t \notin req'
<1>1. s \in req /\ pc[s] = "delay" /\ s \notin Delaying /\ rep[s] = None
  BY DEF ActiveDelay, Serve, RequestInv
<1>2. Delaying \subseteq Awake /\ s \in Awake
  BY <1>1, WhoIsAwake DEF RequestInv, Delaying
<1>3. /\ ~Excess(s, Delaying)
      /\ Complete(Delaying \cup {s}) => Delaying \cup {s} = Awake
  BY <1>1, <1>2, Room
<1>4. \A t \in Delaying \cup {s} : pc[t] = "delay" /\ rep[t] = None /\ t \notin req'
  BY <1>1, <1>2 DEF ActiveDelay, Serve, RequestInv, Awake
<1>5. CASE Complete(Delaying \cup {s})
  BY <1>3, <1>4, <1>5 DEF ActiveDelay
<1>6. CASE ~Complete(Delaying \cup {s})
  BY <1>3, <1>6 DEF ActiveDelay
<1> QED BY <1>5, <1>6

\* Those whose time t has come.
Ready(t) == {r \in Sims : est[r] = t} \cup {NetSim}

\* Everyone waits in reduceMinTimeSleep, awake or asleep.
AllIn == /\ incoming' = {}
         /\ \A t \in Sims : pc[t] = "min" /\ rep[t] = None /\ t \notin req'

WokeAll ==
  /\ AllIn
  /\ rep' = [r \in Sims |-> now]
  /\ world' = Cardinality(Sims) /\ sleepingSim' = FALSE
  /\ UNCHANGED <<sleepState, now>>

MovedAll ==
  /\ AllIn
  /\ now' \in Nat /\ (\A r \in Sims : now' <= est[r]) /\ \E r \in Sims : est[r] = now'
  /\ rep' = [r \in Sims |-> IF r \in Ready(now') THEN now' ELSE None]
  /\ world' = Cardinality(Ready(now')) /\ sleepingSim' = (Ready(now') # Sims)
  /\ \A r \in Sims : sleepState'[r] = est[r]
  /\ Awake # Sims => \A r \in Awake : ~sentMessage[r]

\* A proposal is added, or it is the last one.
LEMMA MinGathers ==
  ASSUME ActiveTypeInv, RequestInv, AwakeInv, InstantInv, ProposalInv,
         NEW s \in Sims, ReduceMinSleep(s)
  PROVE  /\ broker' = broker
         /\ \/ /\ incoming' = incoming \cup {s}
               /\ UNCHANGED <<rep, world, sleepState, sleepingSim, now>>
            \/ WokeAll
            \/ MovedAll
<1> DEFINE in == incoming \cup {s}
<1> USE DEF ActiveTypeInv, TypeInv, TypeOK
<1>1. /\ s \in req /\ pc[s] = "min" /\ s \notin incoming /\ rep[s] = None
      /\ req' = req \ {s}
  BY DEF ReduceMinSleep, Serve, RequestInv
<1>2. incoming \subseteq Awake /\ s \in Awake
  BY <1>1, WhoIsAwake DEF RequestInv
<1>3. ~Excess(s, incoming) /\ (Complete(in) => in = Awake)
  BY <1>1, <1>2, Room
<1>4. ASSUME Complete(in)
      PROVE  /\ \A t \in Sims : pc[t] = "min" /\ rep[t] = None /\ t \notin req'
             /\ \A t \in Sims : Times(in)[t] = est[t]
  <2>1. in = Awake
    BY <1>3, <1>4
  <2>2. \A t \in in : pc[t] = "min" /\ rep[t] = None /\ t \notin req'
    BY <1>1, <1>2 DEF RequestInv, Awake
  <2>3. \A t \in Sims \ in : Asleep(t)
    BY <2>1 DEF Awake
  <2>4. \A t \in Sims \ in : t \in Ticks /\ sleepState[t] = est[t]
    BY <2>1, <2>3 DEF AwakeInv, ProposalInv, Sims
  <2> QED BY <1>1, <2>2, <2>3, <2>4 DEF Asleep, Times
<1>5. CASE Woke(s)
  <2>1. \A t \in Smallest(sleepState) : t = now
    BY DEF InstantInv, Smallest
  <2> QED BY <1>4, <1>5, <2>1 DEF Woke, WokeAll, AllIn
<1>6. CASE Moved(s)
  <2>1. Complete(in) /\ incoming' = {} /\ sleepState' = Times(in) /\ broker' = broker
    BY <1>6 DEF Moved
  <2>2. PICK t \in Smallest(Times(in)) :
          /\ ReplyTo(Due(Times(in), t), t)
          /\ world' = Cardinality(Due(Times(in), t))
          /\ sleepingSim' = (Due(Times(in), t) # Sims)
          /\ now' = t
    BY <1>6 DEF Moved
  <2>3. Due(Times(in), t) = Ready(t)
    BY <1>4, <2>1 DEF Due, Ready
  <2>4. t \in Nat /\ (\A r \in Sims : t <= est[r]) /\ \E r \in Sims : est[r] = t
    <3>1. \A r \in Sims : Times(in)[r] = est[r] /\ est[r] \in Nat
      BY <1>4, <2>1
    <3>2. \E r \in Sims : Times(in)[r] = t
      BY DEF Smallest
    <3>3. \A r \in Sims : t <= Times(in)[r]
      BY DEF Smallest
    <3> HIDE DEF in, ActiveTypeInv, TypeInv, TypeOK
    <3> QED BY <3>1, <3>2, <3>3
  <2>5. rep' = [r \in Sims |-> IF r \in Ready(t) THEN t ELSE None]
    BY <1>4, <2>1, <2>2, <2>3 DEF ReplyTo
  <2>6. Awake # Sims => \A r \in Awake : ~sentMessage[r]
    <3>1. ~(HadMessage(in) /\ sleepingSim) /\ in = Awake
      BY <1>3, <1>6 DEF Moved
    <3> QED BY <3>1 DEF HadMessage, AwakeInv
  <2> QED BY <1>4, <2>1, <2>2, <2>3, <2>4, <2>5, <2>6 DEF MovedAll, AllIn
<1> QED BY <1>3, <1>5, <1>6, MinCases

-----------------------------------------------------------------------------
(* Requests.                                                               *)

LEMMA ActiveRequestNext ==
  /\ ActiveTypeInv /\ RequestInv /\ AwakeInv /\ InstantInv /\ ProposalInv
  /\ [ActiveNext]_activeVars
  => RequestInv'
<1> SUFFICES ASSUME ActiveTypeInv, RequestInv, AwakeInv, InstantInv, ProposalInv,
                    [ActiveNext]_activeVars
             PROVE  RequestInv'
  OBVIOUS
<1> USE DEF ActiveTypeInv, TypeInv, TypeOK, RequestInv, InApp, Waiting, NoneOr, Delaying
<1>1. CASE UNCHANGED activeVars
  BY <1>1 DEF activeVars, vars, simVars, brokerVars, sleepVars
<1>2. ASSUME NEW s \in Sims, ActiveStepStart(s) PROVE RequestInv'
  BY <1>2 DEF ActiveStepStart, StepStart, Call, brokerVars, sleepVars
<1>3. ASSUME NEW s \in Sims, ActiveBarrierDone(s) PROVE RequestInv'
  BY <1>3 DEF ActiveBarrierDone, BarrierDone, TakeReply, brokerVars, sleepVars
<1>4. ASSUME NEW s \in Sims, ActiveGetNextTime(s) PROVE RequestInv'
  BY <1>4 DEF ActiveGetNextTime, GetNextTime, RequestDiff, Call, brokerVars, sleepVars
<1>5. ASSUME NEW s \in Sims, ActiveTickDiff(s) PROVE RequestInv'
  BY <1>5 DEF ActiveTickDiff, TickDiff, TakeReply, Call, brokerVars, sleepVars
<1>6. CASE ActiveNetDiff
  BY <1>6 DEF ActiveNetDiff, NetDiff, TakeReply, Call, brokerVars, sleepVars, Sims
<1>7. ASSUME NEW s \in Sims, ActiveDelayDone(s) PROVE RequestInv'
  BY <1>7 DEF ActiveDelayDone, TakeReply, Call, brokerVars, sleepVars
<1>8. ASSUME NEW s \in Sims, WokenUp(s) \/ NetAgain PROVE RequestInv'
  <2>1. PICK r \in Sims : TakeReply(r, "min") /\ Reiterate(r)
    BY <1>8 DEF WokenUp, NetAgain, Sims
  <2> QED BY <2>1 DEF Reiterate, TakeReply, RequestDiff, Call, brokerVars, sleepVars
<1>9. ASSUME NEW s \in Sims, ActiveTickGranted(s) PROVE RequestInv'
  BY <1>9 DEF ActiveTickGranted, TickGranted, TakeReply, brokerVars, sleepVars
<1>10. CASE ActiveNetGranted
  BY <1>10 DEF ActiveNetGranted, TakeReply, brokerVars, sleepVars, Sims
<1>11. ASSUME NEW m \in Msgs, ActiveCarry(m) PROVE RequestInv'
  BY <1>11 DEF ActiveCarry, Carry, TickReceive, NetReceive, DelayHandler,
               RouteHandler, simVars, brokerVars, sleepVars
<1>12. ASSUME NEW s \in Sims, ActiveBarrier(s) PROVE RequestInv'
  <2>1. /\ s \in req /\ pc[s] = "barrier" /\ req' = req \ {s}
        /\ UNCHANGED <<pc, busy, reduceSent, reduceMin, incoming>>
    BY <1>12 DEF ActiveBarrier, Serve, simVars, sleepVars
  <2>2. CASE barrier' = barrier \cup {s} /\ rep' = rep
    BY <2>1, <2>2
  <2>3. CASE barrier' = {} /\ ReplyTo(Awake, Ack)
    BY <1>12, <2>1, <2>3, BarrierGathers DEF ReplyTo, Awake
  <2> QED BY <1>12, <2>2, <2>3, BarrierGathers
<1>13. ASSUME NEW s \in Sims, ActiveSendRecv(s) PROVE RequestInv'
  <2>1. /\ s \in req /\ pc[s] = "sr" /\ req' = req \ {s}
        /\ UNCHANGED <<pc, busy, barrier, reduceMin, incoming>>
    BY <1>13 DEF ActiveSendRecv, Serve, simVars, sleepVars
  <2>2. CASE (reduceSent' = reduceSent \cup {s} \/ reduceSent' = {}) /\ rep' = rep
    BY <2>1, <2>2
  <2>3. CASE reduceSent' = {} /\ ReplyTo(Awake, sentTotal' - recvTotal')
             /\ \A t \in Awake : pc[t] = "sr" /\ rep[t] = None /\ t \notin req'
    BY <2>1, <2>3 DEF ReplyTo
  <2> QED BY <1>13, <2>2, <2>3, SendRecvGathers
<1>14. ASSUME NEW s \in Sims, ActiveDelay(s) PROVE RequestInv'
  <2>1. /\ s \in req /\ pc[s] = "delay" /\ req' = req \ {s}
        /\ UNCHANGED <<pc, busy, barrier, reduceSent, incoming>>
    BY <1>14 DEF ActiveDelay, Serve, simVars, sleepVars
  <2>2. CASE reduceMin' = [reduceMin EXCEPT ![s] = Infinity] /\ rep' = rep
    BY <2>1, <2>2
  <2>3. CASE /\ reduceMin' = [t \in Sims |-> None] /\ ReplyTo(Awake, Infinity)
             /\ \A t \in Awake : pc[t] = "delay" /\ rep[t] = None /\ t \notin req'
    BY <2>1, <2>3 DEF ReplyTo
  <2> QED BY <1>14, <2>2, <2>3, DelayGathers
<1>15. ASSUME NEW s \in Sims, ReduceMinSleep(s) PROVE RequestInv'
  <2>1. /\ s \in req /\ pc[s] = "min" /\ req' = req \ {s}
        /\ UNCHANGED <<pc, busy, barrier, reduceSent, reduceMin>>
    BY <1>15 DEF ReduceMinSleep, Serve, simVars
  <2>2. CASE incoming' = incoming \cup {s} /\ rep' = rep
    BY <2>1, <2>2
  <2>3. CASE WokeAll
    BY <2>1, <2>3 DEF WokeAll, AllIn
  <2>4. CASE MovedAll
    BY <2>1, <2>4 DEF MovedAll, AllIn
  <2> QED BY <1>15, <2>2, <2>3, <2>4, MinGathers
<1> QED
  BY <1>1, <1>2, <1>3, <1>4, <1>5, <1>6, <1>7, <1>8, <1>9, <1>10, <1>11, <1>12,
     <1>13, <1>14, <1>15
  DEF ActiveNext, ActiveClientStep, ActiveNetStep, ActiveBrokerStep, Sims

-----------------------------------------------------------------------------
(* Who is awake, and in which call.                                        *)

LEMMA OneMoves ==
  ASSUME NEW s \in Sims, s \in Awake, pc'[s] # "min" \/ s \in req',
         NextCall(s)' = NextCall(s),
         UNCHANGED <<incoming, world, sleepingSim>>,
         \A t \in Sims : t # s =>
           /\ pc'[t] = pc[t] /\ rep'[t] = rep[t]
           /\ est'[t] = est[t] /\ granted'[t] = granted[t]
           /\ (t \in req' <=> t \in req),
         AwakeInv
  PROVE  AwakeInv' /\ Awake' = Awake
<1>1. \A t \in Sims : t # s => (Asleep(t)' <=> Asleep(t)) /\ NextCall(t)' = NextCall(t)
  BY DEF Asleep, NextCall, ActiveOwed, Phase
<1>2. s \in Awake'
  BY DEF Awake, Asleep
<1>3. Awake' = Awake
  BY <1>1, <1>2 DEF Awake
<1>4. \A t \in Sims : NextCall(t)' = NextCall(t)
  BY <1>1
<1>5. Together'
  BY <1>3, <1>4 DEF AwakeInv, Together, Awake
<1> QED BY <1>3, <1>5 DEF AwakeInv

\* A simulator's step leaves it as far as it was: what it takes a reply from
\* it has completed already.
LEMMA SimulatorMoves ==
  ASSUME ActiveTypeInv, RequestInv, AwakeInv, NEW s \in Sims,
         ActiveClientStep(s) \/ (s = NetSim /\ ActiveNetStep)
  PROVE  AwakeInv' /\ Awake' = Awake /\ s \in Awake
<1> USE DEF ActiveTypeInv, TypeInv, TypeOK, NoneOr, InApp, Waiting
<1> DEFINE Same == \A t \in Sims : t # s =>
                     /\ pc'[t] = pc[t] /\ rep'[t] = rep[t]
                     /\ est'[t] = est[t] /\ granted'[t] = granted[t]
                     /\ (t \in req' <=> t \in req)
           Mover == /\ pc[s] # "min" \/ rep[s] # None
                    /\ pc'[s] # "min" \/ s \in req'
                    /\ NextCall(s)' = NextCall(s)
                    /\ UNCHANGED <<incoming, world, sleepingSim>>
<1>0. (s \in Ticks <=> s # NetSim) /\ (rep[s] # None => pc[s] \in Waiting)
  BY SimsAssumption DEF Sims, RequestInv
<1> SUFFICES Same /\ Mover
  <2>1. ASSUME Same, Mover PROVE AwakeInv' /\ Awake' = Awake /\ s \in Awake
    <3>1. s \in Awake
      BY <2>1, WhoIsAwake
    <3> QED BY <2>1, <3>1, OneMoves
  <2> QED BY <2>1
<1> USE DEF NextCall, ActiveOwed, Phase, After, sleepVars
<1>1. CASE ActiveStepStart(s)
  BY <1>0, <1>1 DEF ActiveStepStart, StepStart, Call
<1>2. CASE ActiveBarrierDone(s)
  BY <1>0, <1>2 DEF ActiveBarrierDone, BarrierDone, TakeReply
<1>3. CASE ActiveGetNextTime(s)
  BY <1>0, <1>3 DEF ActiveGetNextTime, GetNextTime, RequestDiff, Call
<1>4. CASE ActiveTickDiff(s)
  BY <1>0, <1>4 DEF ActiveTickDiff, TickDiff, TakeReply, Call
<1>5. CASE s = NetSim /\ ActiveNetDiff
  BY <1>0, <1>5 DEF ActiveNetDiff, NetDiff, TakeReply, Call
<1>6. CASE ActiveDelayDone(s)
  BY <1>0, <1>6 DEF ActiveDelayDone, TakeReply, Call
<1>7. CASE WokenUp(s) \/ (s = NetSim /\ NetAgain)
  BY <1>0, <1>7 DEF WokenUp, NetAgain, TakeReply, Reiterate, RequestDiff, Call
<1>8. CASE ActiveTickGranted(s)
  BY <1>0, <1>8 DEF ActiveTickGranted, TickGranted, TakeReply
<1>9. CASE s = NetSim /\ ActiveNetGranted
  BY <1>0, <1>9 DEF ActiveNetGranted, TakeReply
<1> QED
  BY <1>1, <1>2, <1>3, <1>4, <1>5, <1>6, <1>7, <1>8, <1>9
  DEF ActiveClientStep, ActiveNetStep

\* A handler of the first three collectives leaves who is awake alone, and
\* answers all of them or nobody.
LEMMA HandlerMoves ==
  ASSUME ActiveTypeInv, RequestInv, AwakeInv, NEW s \in Sims,
         ActiveBarrier(s) \/ ActiveSendRecv(s) \/ ActiveDelay(s)
  PROVE  AwakeInv' /\ Awake' = Awake
<1> USE DEF ActiveTypeInv, TypeInv, TypeOK, NoneOr
<1>1. /\ UNCHANGED <<pc, est, granted, world, sleepingSim, incoming>>
      /\ pc[s] # "min" /\ req' = req \ {s} /\ rep[s] = None
  BY DEF ActiveBarrier, ActiveSendRecv, ActiveDelay, Serve, RequestInv, simVars,
         sleepVars
<1>2. CASE rep' = rep
  <2>1. \A t \in Sims : (Asleep(t)' <=> Asleep(t)) /\ NextCall(t)' = NextCall(t)
    BY <1>1, <1>2 DEF Asleep, NextCall, ActiveOwed, Phase
  <2>2. Awake' = Awake
    BY <2>1 DEF Awake
  <2> QED BY <1>1, <2>1, <2>2 DEF AwakeInv, Together, Awake
<1>3. CASE /\ \E v \in Nat : ReplyTo(Awake, v)
           /\ \E c \in {"barrier", "sr", "delay"} :
                \A t \in Awake : pc[t] = c /\ rep[t] = None /\ t \notin req'
  <2>1. PICK v \in Nat : ReplyTo(Awake, v)
    BY <1>3
  <2>2. \A t \in Sims \ Awake : Asleep(t) /\ rep'[t] = rep[t]
    BY <2>1 DEF Awake, ReplyTo
  <2>3. \A t \in Sims : Asleep(t)' <=> Asleep(t)
    BY <1>1, <1>3, <2>2 DEF Asleep, Awake
  <2>4. Awake' = Awake
    BY <2>3 DEF Awake
  <2>5. \A t \in Awake : rep'[t] # None /\ pc'[t] = pc[t] /\ pc'[t] # "min"
    BY <1>1, <1>3, <2>1, TimeAssumption DEF ReplyTo, Awake
  <2>6. Together'
    BY <1>1, <1>3, <2>4, <2>5 DEF Together, NextCall, Phase
  <2> QED BY <1>1, <2>4, <2>6 DEF AwakeInv
<1>4. CASE ActiveBarrier(s)
  BY <1>2, <1>3, <1>4, BarrierGathers DEF Ack
<1>5. CASE ActiveSendRecv(s)
  BY <1>2, <1>3, <1>5, SendRecvGathers
<1>6. CASE ActiveDelay(s)
  BY <1>2, <1>3, <1>6, DelayGathers, TimeAssumption
<1> QED BY <1>4, <1>5, <1>6

\* After the last proposal all are awake and go again, or those whose time
\* has come are awake and return.
LEMMA MinAwake ==
  ASSUME ActiveTypeInv, RequestInv, AwakeInv, InstantInv, ProposalInv,
         NEW s \in Sims, ReduceMinSleep(s)
  PROVE  /\ WokeAll => Awake' = Sims
         /\ MovedAll => Awake' = Ready(now')
         /\ ~WokeAll /\ ~MovedAll => Awake' = Awake
         /\ AwakeInv'
<1> USE DEF ActiveTypeInv, TypeInv, TypeOK, NoneOr
<1>1. /\ UNCHANGED <<pc, est, granted, cur>> /\ pc[s] = "min" /\ req' = req \ {s}
      /\ s \in req /\ rep[s] = None
  BY DEF ReduceMinSleep, Serve, RequestInv, simVars
<1>2. CASE /\ incoming' = incoming \cup {s}
           /\ UNCHANGED <<rep, world, sleepState, sleepingSim, now>>
  <2>1. \A t \in Sims : (Asleep(t)' <=> Asleep(t)) /\ NextCall(t)' = NextCall(t)
    BY <1>1, <1>2 DEF Asleep, NextCall, ActiveOwed, Phase
  <2>2. Awake' = Awake
    BY <2>1 DEF Awake
  <2>3. ~WokeAll /\ ~MovedAll
    BY <1>2 DEF WokeAll, MovedAll, AllIn
  <2> QED BY <1>2, <2>1, <2>2, <2>3 DEF AwakeInv, Together, Awake
<1>3. CASE WokeAll
  <2>1. now # None /\ now \in Nat
    BY TimeAssumption
  <2>2. Awake' = Sims
    BY <1>3, <2>1 DEF WokeAll, Awake, Asleep
  <2>3. \A t \in Sims : /\ pc'[t] = "min" /\ rep'[t] = now /\ rep'[t] # None
    BY <1>1, <1>3, <2>1 DEF WokeAll, AllIn
  <2>4. granted[NetSim] = now /\ \A t \in Ticks : now < est[t]
    BY <1>3 DEF WokeAll, AllIn, InstantInv, ProposalInv, Answered, Sims
  <2>5. \A t \in Sims : t \notin ActiveOwed'
    BY <1>1, <2>3, <2>4 DEF ActiveOwed, Sims
  <2>6. Together'
    BY <2>2, <2>3, <2>5 DEF Together, NextCall
  <2>7. ~MovedAll \/ Awake' = Ready(now')
    <3>1. ASSUME MovedAll PROVE Ready(now') = Sims
      BY <2>3, <3>1 DEF MovedAll, Ready, Sims
    <3> QED BY <2>2, <3>1
  <2>8. world' = Cardinality(Sims) /\ NetSim \in Sims
    BY <1>3 DEF WokeAll, Sims
  <2>9. AwakeInv'
    BY <2>2, <2>6, <2>8 DEF AwakeInv
  <2> QED BY <1>3, <2>2, <2>7, <2>9
<1>4. CASE MovedAll /\ ~WokeAll
  <2>1. now' # None /\ now' \in Nat
    BY <1>4, TimeAssumption DEF MovedAll
  <2>2. Awake' = Ready(now')
    BY <1>1, <1>4, <2>1 DEF MovedAll, AllIn, Awake, Asleep, Ready, Sims
  <2>3. \A t \in Ready(now') : pc'[t] = "min" /\ rep'[t] = now' /\ rep'[t] # None
    BY <1>1, <1>4, <2>1 DEF MovedAll, AllIn, Ready, Sims
  <2>4. /\ granted[NetSim] = now /\ est[NetSim] = Infinity /\ now <= now'
        /\ \A t \in Ticks : now < est[t]
    <3>1. \A t \in Sims : pc[t] = "min" /\ ~Answered(t)
      BY <1>4 DEF MovedAll, AllIn, Answered
    <3>2. /\ granted[NetSim] = now /\ est[NetSim] = Infinity
          /\ \A t \in Ticks : now < est[t]
      BY <3>1 DEF InstantInv, ProposalInv, Sims
    <3>3. PICK t \in Sims : est[t] = now'
      BY <1>4 DEF MovedAll
    <3>4. now <= est[t]
      BY <3>2 DEF InstantInv, Sims
    <3> QED BY <3>2, <3>3, <3>4
  <2>5. Together'
    <3>1. CASE now' = now
      <4>1. Ready(now') = {NetSim}
        BY <2>4, <3>1 DEF Ready, Sims
      <4> QED BY <2>2, <4>1 DEF Together
    <3>2. CASE now' # now
      <4>1. Ready(now') \subseteq ActiveOwed'
        BY <1>1, <2>3, <2>4, <3>2 DEF ActiveOwed, Ready, Sims
      <4> QED BY <2>2, <2>3, <4>1 DEF Together, NextCall, Phase
    <3> QED BY <3>1, <3>2
  <2> QED BY <1>4, <2>2, <2>5 DEF MovedAll, AwakeInv, Ready
<1> QED BY <1>2, <1>3, <1>4, MinGathers

-----------------------------------------------------------------------------
(* Clocks and proposals.                                                   *)

Clocks == InstantInv /\ ProposalInv

LEMMA BaseBound ==
  ASSUME NEW s \in Ticks, NEW t \in Nat
  PROVE  /\ FloorTo(s, t) \in Nat /\ FloorTo(s, t) <= t
         /\ t < FloorTo(s, t) + Step[s]
<1>1. s \in Sims /\ Unit[s] \in Nat /\ Step[s] \in Nat /\ Step[s] >= Unit[s]
  BY TimeAssumption DEF Sims
<1>2. FloorTo(s, t) \in Nat /\ FloorTo(s, t) <= t /\ t < FloorTo(s, t) + Unit[s]
  BY <1>1, FloorType, FloorBound
<1> QED BY <1>1, <1>2

\* A simulator returns from GetNextTime at the instant, and is granted it anew.
LEMMA TimeHasCome ==
  ASSUME ActiveTypeInv, InstantInv, ProposalInv, NEW s \in Ticks,
         Answered(s), rep[s] >= est[s]
  PROVE  rep[s] = now /\ est[s] = now /\ cur[s] < now
<1>1. s \in Sims
  BY DEF Sims
<1>2. now \in Nat /\ est[s] \in Nat
  BY <1>1 DEF ActiveTypeInv, TypeInv, TypeOK
<1>3. rep[s] = now
  BY <1>1 DEF InstantInv
<1>4. now <= est[s] /\ (now = est[s] => cur[s] < now)
  BY DEF ProposalInv
<1> QED BY <1>2, <1>3, <1>4

LEMMA SimulatorClocks ==
  ASSUME ActiveTypeInv, RequestInv, AwakeInv, InstantInv, ProposalInv, NEW s \in Sims,
         ActiveClientStep(s) \/ (s = NetSim /\ ActiveNetStep)
  PROVE  Clocks'
<1> USE DEF ActiveTypeInv, TypeInv, TypeOK, NoneOr, InApp, Waiting, InstantInv,
            ProposalInv, Clocks, Answered
<1>0. /\ NetSim \in Sims /\ \A t \in Sims : t \in Ticks <=> t # NetSim
      /\ \A t \in Ticks : t \in Sims /\ Step[t] \in Nat \ {0} /\ Step[t] >= Unit[t]
      /\ \A t \in Sims : rep[t] # None => pc[t] \in Waiting
  BY SimsAssumption, TimeAssumption DEF Sims, RequestInv
<1>a. /\ Awake' = Awake /\ s \in Awake
      /\ \A t \in Sims : Asleep(t)' <=> Asleep(t)
      /\ ~Asleep(s)
  BY SimulatorMoves DEF Awake
<1>1. CASE ActiveStepStart(s)
  BY <1>0, <1>a, <1>1
  DEF ActiveStepStart, StepStart, Call, brokerVars, histVars, sleepVars
<1>2. CASE ActiveBarrierDone(s)
  BY <1>0, <1>a, <1>2
  DEF ActiveBarrierDone, BarrierDone, TakeReply, brokerVars, histVars, sleepVars
<1>3. CASE ActiveGetNextTime(s)
  BY <1>0, <1>a, <1>3, AskedType
  DEF ActiveGetNextTime, GetNextTime, RequestDiff, Call, brokerVars, sleepVars
<1>4. CASE ActiveTickDiff(s)
  <2>1. /\ s \in Ticks /\ pc[s] = "sr" /\ ~Answered(s) /\ ~Answered(s)'
        /\ pc' = [pc EXCEPT ![s] = "delay"] /\ rep' = [rep EXCEPT ![s] = None]
        /\ UNCHANGED <<cur, granted, asked, base, sleepState, now>>
    BY <1>4
    DEF ActiveTickDiff, TickDiff, TakeReply, Call, brokerVars, histVars, sleepVars
  <2>2. \A t \in Sims : t # s => est'[t] = est[t] /\ respond'[t] = respond[t]
    BY <1>4 DEF ActiveTickDiff, TickDiff
  <2>3. /\ asked[s] > now \/ respond[s]
        /\ base[s] <= now /\ now < base[s] + Step[s]
    BY <1>0, <1>a, <2>1
  <2>4. /\ now < est'[s]
        /\ asked[s] > now \/ respond'[s]
        /\ ~respond'[s] => est'[s] = asked[s]
    BY <1>0, <1>4, <2>1, <2>3
    DEF ActiveTickDiff, TickDiff, Stable, OneStepOn
  <2>5. InstantInv'
    BY <1>0, <2>1, <2>2
  <2>6. ProposalInv'
    BY <1>0, <1>a, <2>1, <2>2, <2>3, <2>4
  <2> QED BY <2>5, <2>6
<1>5. CASE s = NetSim /\ ActiveNetDiff
  BY <1>0, <1>a, <1>5
  DEF ActiveNetDiff, NetDiff, TakeReply, Call, brokerVars, histVars, sleepVars
<1>6. CASE ActiveDelayDone(s)
  BY <1>0, <1>a, <1>6
  DEF ActiveDelayDone, TakeReply, Call, brokerVars, histVars, sleepVars
<1>7. CASE WokenUp(s)
  <2>1. /\ s \in Ticks /\ Answered(s) /\ rep[s] = now /\ now < est[s]
        /\ base' = [base EXCEPT ![s] = FloorTo(s, now)]
        /\ pc' = [pc EXCEPT ![s] = "sr"] /\ rep' = [rep EXCEPT ![s] = None]
        /\ UNCHANGED <<cur, granted, asked, est, respond, sleepState, now>>
    BY <1>7 DEF WokenUp, TakeReply, Reiterate, RequestDiff, Call, NewBase, sleepVars
  <2>2. base'[s] <= now /\ now < base'[s] + Step[s]
    <3>1. base'[s] = FloorTo(s, now) /\ now \in Nat
      BY <1>0, <2>1
    <3>2. s \in Ticks
      BY <2>1
    <3> QED BY <3>1, <3>2, BaseBound
  <2> QED BY <1>0, <1>a, <2>1, <2>2
<1>8. CASE s = NetSim /\ NetAgain
  BY <1>0, <1>a, <1>8
  DEF NetAgain, TakeReply, Reiterate, RequestDiff, Call, sleepVars
<1>9. CASE ActiveTickGranted(s)
  <2>1. s \in Ticks /\ Answered(s) /\ rep[s] = now /\ rep[s] >= est[s]
    BY <1>9 DEF ActiveTickGranted, TickGranted, TakeReply
  <2>2. est[s] = now
    BY <2>1, TimeHasCome
  <2>3. /\ pc' = [pc EXCEPT ![s] = "idle"] /\ rep' = [rep EXCEPT ![s] = None]
        /\ cur' = [cur EXCEPT ![s] = now] /\ granted' = [granted EXCEPT ![s] = now]
        /\ UNCHANGED <<asked, base, est, respond, sleepState, now>>
    BY <1>9, <2>2
    DEF ActiveTickGranted, TickGranted, TakeReply, brokerVars, histVars, sleepVars
  <2> QED BY <1>0, <1>a, <2>1, <2>3
<1>10. CASE s = NetSim /\ ActiveNetGranted
  <2>1. FloorTo(NetSim, rep[NetSim]) = rep[NetSim]
    BY <1>10, NetFloor, ActiveAssumption DEF FineNet, ActiveNetGranted, TakeReply
  <2> QED
    BY <1>0, <1>a, <1>10, <2>1
    DEF ActiveNetGranted, TakeReply, brokerVars, histVars, sleepVars
<1> QED
  BY <1>1, <1>2, <1>3, <1>4, <1>5, <1>6, <1>7, <1>8, <1>9, <1>10
  DEF ActiveClientStep, ActiveNetStep

LEMMA HandlerClocks ==
  ASSUME ActiveTypeInv, RequestInv, AwakeInv, InstantInv, ProposalInv, NEW s \in Sims,
         ActiveBarrier(s) \/ ActiveSendRecv(s) \/ ActiveDelay(s)
  PROVE  Clocks'
<1> USE DEF ActiveTypeInv, TypeInv, TypeOK, NoneOr
<1>1. /\ UNCHANGED <<pc, cur, granted, asked, base, est, respond, sleepState, now>>
      /\ Awake' = Awake
  BY HandlerMoves
  DEF ActiveBarrier, ActiveSendRecv, ActiveDelay, simVars, sleepVars, histVars
<1>2. \A t \in Sims : Asleep(t)' <=> Asleep(t)
  BY <1>1 DEF Awake
<1>3. \A t \in Sims : pc[t] = "min" => rep'[t] = rep[t]
  <2>1. CASE rep' = rep
    BY <2>1
  <2>2. CASE /\ \E v : ReplyTo(Awake, v)
             /\ \A t \in Awake : pc[t] # "min"
    BY <2>2 DEF ReplyTo
  <2> QED BY <2>1, <2>2, BarrierGathers, SendRecvGathers, DelayGathers
<1>4. \A t \in Sims : Answered(t)' <=> Answered(t)
  BY <1>1, <1>3 DEF Answered
<1>5. InstantInv'
  BY <1>1, <1>3, <1>4 DEF InstantInv, Answered, Sims
<1>6. ProposalInv'
  BY <1>1, <1>2, <1>4 DEF ProposalInv, Sims
<1> QED BY <1>5, <1>6 DEF Clocks

LEMMA MinClocks ==
  ASSUME ActiveTypeInv, RequestInv, AwakeInv, InstantInv, ProposalInv, NEW s \in Sims,
         ReduceMinSleep(s)
  PROVE  Clocks'
<1> USE DEF ActiveTypeInv, TypeInv, TypeOK, NoneOr
<1>0. /\ UNCHANGED <<pc, cur, granted, asked, base, est, respond>>
      /\ \A t \in Sims : t \in Ticks <=> t # NetSim
      /\ \A t \in Ticks : t \in Sims
      /\ NetSim \in Sims
  BY SimsAssumption DEF ReduceMinSleep, simVars, Sims
<1>1. CASE UNCHANGED <<rep, sleepState, now>> /\ ~WokeAll /\ ~MovedAll
  <2>1. Awake' = Awake /\ \A t \in Sims : Asleep(t)' <=> Asleep(t)
    BY <1>1, MinAwake DEF Awake
  <2> QED BY <1>0, <1>1, <2>1 DEF Clocks, InstantInv, ProposalInv, Answered
<1>2. ASSUME AllIn
      PROVE  /\ \A t \in Sims : pc[t] = "min" /\ ~Answered(t)
             /\ \A t \in Ticks : now < est[t]
             /\ est[NetSim] = Infinity /\ cur[NetSim] = now
  BY <1>0, <1>2 DEF AllIn, Answered, InstantInv, ProposalInv
<1>3. CASE WokeAll
  <2>1. now # None /\ now \in Nat
    BY TimeAssumption
  <2>2. Awake' = Sims /\ \A t \in Sims : ~Asleep(t)'
    BY <1>3, MinAwake DEF Awake
  <2>3. UNCHANGED <<sleepState, now>> /\ \A t \in Sims : rep'[t] = now /\ Answered(t)'
    BY <1>0, <1>2, <1>3, <2>1 DEF WokeAll, Answered
  <2>4. InstantInv'
    BY <1>0, <1>2, <1>3, <2>3 DEF InstantInv, WokeAll
  <2>5. ProposalInv'
    BY <1>0, <1>2, <1>3, <2>2, <2>3 DEF ProposalInv, WokeAll
  <2> QED BY <2>4, <2>5 DEF Clocks
<1>4. CASE MovedAll /\ ~WokeAll
  <2>1. now' # None /\ now' \in Nat
    BY <1>4, TimeAssumption DEF MovedAll
  <2>2. Awake' = Ready(now') /\ \A t \in Sims : ~Asleep(t)' <=> t \in Ready(now')
    BY <1>4, MinAwake DEF Awake
  <2>3. \A t \in Sims : /\ Answered(t)' <=> t \in Ready(now')
                        /\ Answered(t)' => rep'[t] = now'
                        /\ sleepState'[t] = est[t] /\ now' <= est[t]
    BY <1>0, <1>2, <1>4, <2>1 DEF MovedAll, Answered
  <2>4. now <= now' /\ now' <= Infinity /\ \E t \in Sims : est[t] = now'
    <3>1. PICK t \in Sims : est[t] = now'
      BY <1>4 DEF MovedAll
    <3>2. now <= est[t] /\ now' <= est[NetSim]
      BY <1>0, <1>2, <1>4 DEF MovedAll, InstantInv
    <3> QED BY <1>2, <1>4, <3>1, <3>2 DEF MovedAll
  <2>5. InstantInv'
    BY <1>0, <1>2, <1>4, <2>1, <2>3, <2>4 DEF InstantInv, MovedAll, Ready
  <2>6. \A t \in Ticks : Answered(t)' => now' = est[t] /\ cur[t] < now'
    <3>1. ASSUME NEW t \in Ticks, Answered(t)' PROVE now' = est[t] /\ cur[t] < now'
      <4>1. est[t] = now'
        BY <1>0, <2>3, <3>1 DEF Ready
      <4>2. now < est[t] /\ cur[t] <= now /\ cur[t] \in Nat /\ est[t] \in Nat
        BY <1>0, <1>2, <1>4 DEF InstantInv, MovedAll
      <4> QED BY <4>1, <4>2
    <3> QED BY <3>1
  <2>7. \A t \in Ticks : ~Answered(t)' => Asleep(t)' /\ now' < est[t]
    BY <1>0, <2>1, <2>2, <2>3 DEF Ready
  <2>8. ProposalInv'
    <3>1. \A t \in Ticks : pc'[t] = "min" /\ (Asleep(t)' => ~Answered(t)')
      BY <1>0, <1>2, <1>4 DEF MovedAll, Answered, Asleep
    <3>2. \A t \in Ticks : Answered(t)' => ~(now' < est[t])
      BY <2>1, <2>6
    <3>3. \A t \in Ticks : ~respond[t] => est[t] = asked[t]
      BY <1>0, <1>2, <1>4 DEF MovedAll, ProposalInv
    <3>4. \A t \in Ticks : ~Answered(t)' => asked[t] > now' \/ respond[t]
      BY <1>0, <2>1, <2>7, <3>3
    <3> QED BY <1>0, <2>1, <2>3, <2>6, <2>7, <3>1, <3>2, <3>3, <3>4 DEF ProposalInv
  <2> QED BY <2>5, <2>8 DEF Clocks
<1> QED BY <1>1, <1>3, <1>4, MinGathers

-----------------------------------------------------------------------------
(* Time stamps, and what the senders remember.                             *)

\* A message that has been sent keeps its stamp; a new one has its sender's
\* time, and shows.
LEMMA SendAllStamps ==
  ASSUME ActiveTypeInv, NEW s \in Sims, NEW M \in SUBSET Outbox(s), SendAll(s, M),
         NEW m \in Msgs, loc'[m] # "unsent"
  PROVE  \/ loc[m] # "unsent" /\ mtime'[m] = mtime[m]
         \/ s \in Ticks /\ From[m] = s /\ mtime'[m] = cur[s] /\ loc' # loc
<1> USE DEF ActiveTypeInv, TypeInv, TypeOK
<1>1. CASE s = NetSim
  BY <1>1 DEF SendAll, Outbox
<1>2. CASE s # NetSim
  <2>1. CASE m \in M
    BY <1>2, <2>1 DEF SendAll, Outbox, Sims
  <2>2. CASE m \notin M
    BY <1>2, <2>2 DEF SendAll
  <2> QED BY <2>1, <2>2
<1> QED BY <1>1, <1>2

\* Steps that send nothing and leave the clocks and who sleeps alone.
LEMMA SenderStays ==
  ASSUME SenderInv, ActiveTypeInv,
         UNCHANGED <<cur, now, mtime, sentMessage>>,
         \A s \in Ticks : pc'[s] \in {"barrier", "work"} => pc[s] \in {"barrier", "work"},
         \A s \in Sims : Asleep(s)' <=> Asleep(s),
         \A m \in Msgs : loc'[m] # "unsent" => loc[m] # "unsent"
  PROVE  SenderInv'
<1>1. \A m \in Msgs : From[m] \in Sims /\ To[m] \in Sims
  BY SimsAssumption DEF Sims
<1> QED BY <1>1 DEF SenderInv

LEMMA SimulatorSends ==
  ASSUME ActiveInv, NEW s \in Sims,
         ActiveClientStep(s) \/ (s = NetSim /\ ActiveNetStep)
  PROVE  SenderInv'
<1> USE DEF ActiveInv, ActiveTypeInv, TypeInv, TypeOK, NoneOr
<1>0. /\ \A t \in Sims : t \in Ticks <=> t # NetSim
      /\ \A t \in Ticks : t \in Sims
      /\ \A m \in Msgs : From[m] \in Ticks /\ To[m] \in Ticks
  BY SimsAssumption DEF Sims
<1>a. /\ Awake' = Awake /\ s \in Awake
      /\ \A t \in Sims : Asleep(t)' <=> Asleep(t)
  BY SimulatorMoves DEF Awake
<1>1. CASE ActiveStepStart(s) \/ ActiveGetNextTime(s)
  <2>1. PICK M \in SUBSET Outbox(s) : SendAll(s, M)
    BY <1>1 DEF ActiveStepStart, StepStart, ActiveGetNextTime, GetNextTime
  <2>2. /\ UNCHANGED <<cur, now>> /\ NodeSentMessage(s)
        /\ pc[s] \in {"idle", "work"} /\ (s \in Ticks => cur[s] < Horizon)
        /\ pc' = [pc EXCEPT ![s] = IF pc[s] = "idle" THEN "barrier" ELSE "sr"]
    BY <1>1
    DEF ActiveStepStart, StepStart, ActiveGetNextTime, GetNextTime, RequestDiff,
        Call, SenderInv, histVars
  <2>3. /\ \A t \in Sims : sentMessage[t] => sentMessage'[t]
        /\ s \in Ticks /\ loc' # loc => sentMessage'[s]
    BY <2>2 DEF NodeSentMessage
  <2>4. \A t \in Ticks : pc'[t] \in {"barrier", "work"} => cur'[t] < Horizon
    BY <1>0, <2>2 DEF SenderInv
  <2>5. ASSUME NEW m \in Msgs, loc'[m] # "unsent"
        PROVE  /\ mtime'[m] <= cur'[From[m]] /\ mtime'[m] < Horizon
               /\ mtime'[m] = now' /\ Asleep(To[m])' =>
                    ~Asleep(From[m])' /\ sentMessage'[From[m]]
    <3>1. CASE loc[m] # "unsent" /\ mtime'[m] = mtime[m]
      BY <1>0, <1>a, <2>2, <2>3, <3>1 DEF SenderInv
    <3>2. CASE s \in Ticks /\ From[m] = s /\ mtime'[m] = cur[s] /\ loc' # loc
      BY <1>0, <1>a, <2>2, <2>3, <3>2 DEF Awake
    <3> QED BY <2>1, <2>5, <3>1, <3>2, SendAllStamps
  <2> QED BY <2>4, <2>5 DEF SenderInv
<1>2. CASE \/ ActiveBarrierDone(s) \/ ActiveTickDiff(s) \/ ActiveDelayDone(s)
           \/ (s = NetSim /\ ActiveNetDiff)
  <2>1. UNCHANGED <<cur, sentMessage>> /\ UNCHANGED <<now, loc, mtime>>
    BY <1>2
    DEF ActiveBarrierDone, BarrierDone, ActiveTickDiff, TickDiff, ActiveDelayDone,
        ActiveNetDiff, NetDiff, msgVars, histVars, localVars
  <2>2. \/ pc[s] = "barrier" /\ pc' = [pc EXCEPT ![s] = "work"]
        \/ pc' = [pc EXCEPT ![s] = "delay"]
        \/ pc' = [pc EXCEPT ![s] = "min"]
    BY <1>2
    DEF ActiveBarrierDone, BarrierDone, ActiveTickDiff, TickDiff, ActiveDelayDone,
        ActiveNetDiff, NetDiff, TakeReply, Call
  <2>3. \A t \in Ticks :
          pc'[t] \in {"barrier", "work"} => pc[t] \in {"barrier", "work"}
    BY <1>0, <2>2
  <2>4. ActiveTypeInv /\ SenderInv
    OBVIOUS
  <2> HIDE DEF ActiveInv, ActiveTypeInv, TypeInv, TypeOK
  <2> QED BY <1>a, <2>1, <2>3, <2>4, SenderStays
<1>3. CASE WokenUp(s)
  <2>1. /\ s \in Ticks /\ Answered(s) /\ rep[s] = now /\ now < est[s]
        /\ pc' = [pc EXCEPT ![s] = "sr"]
        /\ UNCHANGED <<cur, now, mtime, loc>>
    BY <1>3
    DEF WokenUp, TakeReply, Reiterate, RequestDiff, Call, msgVars, Answered, InstantInv
  <2>2. \A t \in Sims : ~Asleep(t)'
    BY <1>0, <1>a, <2>1 DEF ProposalInv, Awake
  <2> QED BY <1>0, <2>1, <2>2 DEF SenderInv
<1>4. CASE s = NetSim /\ NetAgain
  <2>1. /\ pc' = [pc EXCEPT ![NetSim] = "sr"]
        /\ sentMessage' = [sentMessage EXCEPT ![NetSim] = FALSE]
        /\ UNCHANGED <<cur, now, mtime, loc>>
    BY <1>4 DEF NetAgain, Reiterate, RequestDiff, Call, msgVars
  <2>2. \A t \in Ticks : sentMessage'[t] = sentMessage[t] /\ pc'[t] = pc[t]
    BY <1>0, <2>1
  <2> QED BY <1>0, <1>a, <2>1, <2>2 DEF SenderInv
<1>5. CASE ActiveTickGranted(s)
  <2>1. s \in Ticks /\ Answered(s) /\ rep[s] >= est[s]
    BY <1>5 DEF ActiveTickGranted, TickGranted, TakeReply, Answered
  <2>2. est[s] = now /\ cur[s] < now
    BY <2>1, TimeHasCome
  <2>3. /\ pc' = [pc EXCEPT ![s] = "idle"]
        /\ cur' = [cur EXCEPT ![s] = now]
        /\ sentMessage' = [sentMessage EXCEPT ![s] = FALSE]
        /\ UNCHANGED <<now, mtime, loc>>
    BY <1>5, <2>2
    DEF ActiveTickGranted, TickGranted, TakeReply, msgVars, histVars
  <2>4. ASSUME NEW m \in Msgs, loc'[m] # "unsent"
        PROVE  /\ mtime'[m] <= cur'[From[m]] /\ mtime'[m] < Horizon
               /\ mtime'[m] = now' /\ Asleep(To[m])' =>
                    ~Asleep(From[m])' /\ sentMessage'[From[m]]
    <3>1. mtime[m] <= cur[From[m]] /\ mtime[m] < Horizon /\ mtime[m] \in Nat
      BY <2>3, <2>4 DEF SenderInv
    <3>2. CASE From[m] = s
      BY <1>0, <2>2, <2>3, <3>1, <3>2
    <3>3. CASE From[m] # s
      BY <1>0, <1>a, <2>3, <2>4, <3>1, <3>3 DEF SenderInv
    <3> QED BY <3>2, <3>3
  <2>5. \A t \in Ticks : pc'[t] \in {"barrier", "work"} => cur'[t] < Horizon
    BY <1>0, <2>3 DEF SenderInv
  <2> QED BY <2>4, <2>5 DEF SenderInv
<1>6. CASE s = NetSim /\ ActiveNetGranted
  <2>1. /\ \A t \in Ticks : pc'[t] = pc[t] /\ cur'[t] = cur[t]
        /\ UNCHANGED <<now, mtime, loc, sentMessage>>
    BY <1>0, <1>6
    DEF ActiveNetGranted, msgVars, histVars, localVars
  <2> QED BY <1>0, <1>a, <2>1 DEF SenderInv
<1> QED
  BY <1>1, <1>2, <1>3, <1>4, <1>5, <1>6 DEF ActiveClientStep, ActiveNetStep

LEMMA HandlerSends ==
  ASSUME ActiveInv, NEW s \in Sims,
         ActiveBarrier(s) \/ ActiveSendRecv(s) \/ ActiveDelay(s)
  PROVE  SenderInv'
<1>1. UNCHANGED <<pc, cur, now, mtime, loc, sentMessage>>
  BY DEF ActiveBarrier, ActiveSendRecv, ActiveDelay, simVars, msgVars, histVars,
         localVars
<1>2. \A t \in Sims : Asleep(t)' <=> Asleep(t)
  BY HandlerMoves DEF ActiveInv, Awake
<1> QED BY <1>1, <1>2, SenderStays DEF ActiveInv

LEMMA MinSends ==
  ASSUME ActiveInv, NEW s \in Sims, ReduceMinSleep(s)
  PROVE  SenderInv'
<1> USE DEF ActiveInv, ActiveTypeInv, TypeInv, TypeOK
<1>0. /\ UNCHANGED <<pc, cur, est, mtime, loc, sentMessage>>
      /\ \A m \in Msgs : From[m] \in Sims /\ To[m] \in Sims
  BY SimsAssumption DEF ReduceMinSleep, simVars, msgVars, localVars, Sims
<1>1. CASE ~WokeAll /\ ~MovedAll
  <2>1. now' = now /\ \A t \in Sims : Asleep(t)' <=> Asleep(t)
    BY <1>1, MinAwake, MinGathers DEF Awake
  <2> QED BY <1>0, <2>1, SenderStays
<1>2. CASE WokeAll
  <2>1. now' = now /\ \A t \in Sims : ~Asleep(t)'
    BY <1>2, MinAwake DEF Awake, WokeAll
  <2> QED BY <1>0, <2>1 DEF SenderInv
<1>3. CASE MovedAll
  <2>1. \A m \in Msgs : loc[m] # "unsent" => mtime[m] # now'
    <3>1. PICK t \in Sims : est[t] = now'
      BY <1>3 DEF MovedAll
    <3>2. now < est[t] \/ now' = Infinity
      BY <1>3, <3>1 DEF MovedAll, AllIn, Answered, InstantInv, ProposalInv, Sims
    <3>3. \A m \in Msgs : loc[m] # "unsent" => mtime[m] <= now /\ mtime[m] < Horizon
      BY <1>0 DEF SenderInv, InstantInv
    <3> QED BY <3>1, <3>2, <3>3, TimeAssumption
  <2> QED BY <1>0, <2>1 DEF SenderInv
<1> QED BY <1>1, <1>2, <1>3

LEMMA CarryStays ==
  ASSUME ActiveInv, NEW m \in Msgs, ActiveCarry(m)
  PROVE  AwakeInv' /\ Clocks' /\ SenderInv'
<1> USE DEF ActiveInv, ActiveTypeInv, TypeInv, TypeOK
<1>1. /\ UNCHANGED <<simVars, req, rep, mtime, now, localVars, sleepVars>>
      /\ \A k \in Msgs : loc'[k] # "unsent" => loc[k] # "unsent"
  BY DEF ActiveCarry, Carry, TickReceive, NetReceive, DelayHandler, RouteHandler,
         histVars
<1>2. \A t \in Sims : (Asleep(t)' <=> Asleep(t)) /\ NextCall(t)' = NextCall(t)
  BY <1>1 DEF Asleep, NextCall, ActiveOwed, Phase, simVars, sleepVars
<1>3. Awake' = Awake
  BY <1>2 DEF Awake
<1>4. AwakeInv'
  BY <1>1, <1>2, <1>3 DEF AwakeInv, Together, Awake, sleepVars
<1>5. Clocks'
  BY <1>1, <1>2, <1>3 DEF Clocks, InstantInv, ProposalInv, Answered, simVars,
                          sleepVars, Sims
<1>6. SenderInv'
  BY <1>1, <1>2, SenderStays DEF simVars, localVars
<1> QED BY <1>4, <1>5, <1>6


-----------------------------------------------------------------------------
(* The invariant, and what follows from it.                                *)

LEMMA ActiveInvInit == ActiveInit => ActiveInv
<1> SUFFICES ASSUME ActiveInit PROVE ActiveInv
  OBVIOUS
<1> USE DEF ActiveInit
<1>1. /\ NetSim \in Sims /\ \A s \in Ticks : s \in Sims /\ s # NetSim
      /\ None \notin Nat /\ Horizon \in Nat /\ Infinity \in Nat /\ Horizon < Infinity
  BY SimsAssumption, TimeAssumption DEF Sims
<1>2. ActiveTypeInv
  BY SimsFinite, FS_CardinalityType, TypeInit DEF ActiveTypeInv
<1>3. RequestInv
  BY <1>1 DEF Init, RequestInv, Delaying
<1>4. \A s \in Sims : ~Asleep(s)
  BY DEF Init, Asleep
<1>5. Awake = Sims
  BY <1>4 DEF Awake
<1>6. \A s \in Sims : NextCall(s) = "barrier"
  BY <1>1 DEF Init, NextCall, Phase
<1>7. AwakeInv
  BY <1>1, <1>5, <1>6 DEF AwakeInv, Together
<1>8. InstantInv
  BY <1>1 DEF Init, InstantInv, Answered
<1>9. ProposalInv
  BY <1>1, <1>4 DEF Init, ProposalInv, Answered
<1>10. SenderInv
  BY <1>1 DEF Init, SenderInv
<1> QED BY <1>2, <1>3, <1>7, <1>8, <1>9, <1>10 DEF ActiveInv

LEMMA ActiveInvNext == ActiveInv /\ [ActiveNext]_activeVars => ActiveInv'
<1> SUFFICES ASSUME ActiveInv, [ActiveNext]_activeVars
             PROVE  AwakeInv' /\ Clocks' /\ SenderInv'
  BY ActiveTypeNext, ActiveRequestNext DEF ActiveInv, Clocks
<1>1. CASE UNCHANGED activeVars
  BY <1>1
  DEF ActiveInv, activeVars, vars, simVars, commVars, brokerVars, msgVars, histVars,
      localVars, sleepVars, AwakeInv, Together, Awake, Asleep, NextCall, ActiveOwed,
      Phase, Clocks, InstantInv, ProposalInv, Answered, SenderInv
<1>2. ASSUME NEW s \in Sims, ActiveClientStep(s) \/ (s = NetSim /\ ActiveNetStep)
      PROVE  AwakeInv' /\ Clocks' /\ SenderInv'
  BY <1>2, SimulatorMoves, SimulatorClocks, SimulatorSends DEF ActiveInv
<1>3. ASSUME NEW s \in Sims, ActiveBarrier(s) \/ ActiveSendRecv(s) \/ ActiveDelay(s)
      PROVE  AwakeInv' /\ Clocks' /\ SenderInv'
  BY <1>3, HandlerMoves, HandlerClocks, HandlerSends DEF ActiveInv
<1>4. ASSUME NEW s \in Sims, ReduceMinSleep(s)
      PROVE  AwakeInv' /\ Clocks' /\ SenderInv'
  BY <1>4, MinAwake, MinClocks, MinSends DEF ActiveInv
<1>5. ASSUME NEW m \in Msgs, ActiveCarry(m)
      PROVE  AwakeInv' /\ Clocks' /\ SenderInv'
  BY <1>5, CarryStays
<1>6. NetSim \in Sims
  BY DEF Sims
<1> QED BY <1>1, <1>2, <1>3, <1>4, <1>5, <1>6 DEF ActiveNext, ActiveBrokerStep

\* Whom reduceMinTimeSleep lets sleep is ahead of the instant with what it
\* proposed, and so is what the broker keeps of it in
\* reduce_min_time_sleep_state; whoever runs its own code is at the instant.
THEOREM SleepersAreAhead == ActiveSpec => []SleepersAhead
<1>1. ActiveInv => SleepersAhead
  <2> SUFFICES ASSUME ActiveInv, NEW s \in Sims
               PROVE  IF Asleep(s) THEN sleepState[s] = est[s] /\ est[s] > now
                      ELSE pc[s] \in InApp => cur[s] = now
    BY DEF SleepersAhead
  <2>1. CASE Asleep(s)
    <3>1. s \in Ticks /\ pc[s] = "min" /\ ~Answered(s)
      BY <2>1 DEF ActiveInv, AwakeInv, Awake, Asleep, Answered, Sims
    <3>2. sleepState[s] = est[s] /\ now < est[s]
      BY <2>1, <3>1 DEF ActiveInv, ProposalInv
    <3>3. now \in Nat /\ est[s] \in Nat
      BY DEF ActiveInv, ActiveTypeInv, TypeInv, TypeOK
    <3> QED BY <2>1, <3>2, <3>3
  <2>2. CASE ~Asleep(s)
    BY <2>2 DEF ActiveInv, RequestInv, InstantInv, InApp
  <2> QED BY <2>1, <2>2
<1> QED BY <1>1, ActiveInvInit, ActiveInvNext, PTL DEF ActiveSpec

\* Only the last proposal moves the instant.
LEMMA InstantMoves ==
  ASSUME ActiveInv, ActiveNext
  PROVE  now' = now \/ MovedAll
<1>1. ASSUME NEW s \in Sims, ActiveClientStep(s) PROVE now' = now
  BY <1>1
  DEF ActiveClientStep, ActiveStepStart, StepStart, ActiveBarrierDone, BarrierDone,
      ActiveGetNextTime, GetNextTime, ActiveTickDiff, TickDiff, ActiveDelayDone,
      WokenUp, Reiterate, ActiveTickGranted, TickGranted, histVars
<1>2. ASSUME ActiveNetStep PROVE now' = now
  BY <1>2
  DEF ActiveNetStep, ActiveNetDiff, NetDiff, NetAgain, Reiterate, ActiveNetGranted,
      histVars
<1>3. ASSUME NEW s \in Sims, ActiveBrokerStep(s) PROVE now' = now \/ MovedAll
  <2>1. CASE ReduceMinSleep(s)
    BY <2>1, MinGathers DEF ActiveInv, WokeAll
  <2>2. CASE ActiveBarrier(s) \/ ActiveSendRecv(s) \/ ActiveDelay(s)
    BY <2>2 DEF ActiveBarrier, ActiveSendRecv, ActiveDelay, histVars
  <2> QED BY <1>3, <2>1, <2>2 DEF ActiveBrokerStep
<1>4. ASSUME NEW m \in Msgs, ActiveCarry(m) PROVE now' = now
  BY <1>4 DEF ActiveCarry, Carry, TickReceive, NetReceive, DelayHandler,
              RouteHandler, histVars
<1> QED BY <1>1, <1>2, <1>3, <1>4 DEF ActiveNext

\* The broker does not let time pass the instant of a message to a simulator
\* that sleeps through it: the sender's next reduceMinTimeSleep, with the
\* flag of nodeSentMessage, wakes everyone.
THEOREM SendersAreHeard == ActiveSpec => SendersWake
<1>1. ActiveInv /\ [ActiveNext]_activeVars =>
        [\A m \in Msgs :
           now' # now /\ loc[m] # "unsent" /\ mtime[m] = now =>
             ~(Asleep(To[m]) /\ Asleep(To[m])')]_activeVars
  <2> SUFFICES ASSUME ActiveInv, ActiveNext, now' # now, NEW m \in Msgs,
                      loc[m] # "unsent", mtime[m] = now, Asleep(To[m])
               PROVE  FALSE
    OBVIOUS
  <2>1. MovedAll
    BY InstantMoves
  <2>2. From[m] \in Sims /\ To[m] \in Sims
    BY SimsAssumption DEF Sims
  <2>3. From[m] \in Awake /\ sentMessage[From[m]] /\ To[m] \notin Awake
    BY <2>2 DEF ActiveInv, SenderInv, Awake
  <2> QED BY <2>1, <2>2, <2>3 DEF MovedAll
<1> QED BY <1>1, ActiveInvInit, ActiveInvNext, PTL DEF ActiveSpec, SendersWake

-----------------------------------------------------------------------------
(* The active set implements LockStepTime.                                 *)

LEMMA SimulatorSteps ==
  ASSUME ActiveInv, NEW s \in Sims,
         ActiveClientStep(s) \/ (s = NetSim /\ ActiveNetStep)
  PROVE  ActiveLockStep!Grant(s) \/ UNCHANGED <<now, cur, ActiveOwed>>
<1> USE DEF ActiveInv, ActiveTypeInv, TypeInv, TypeOK, NoneOr
<1>0. /\ \A t \in Ticks : t \in Sims /\ t # NetSim
      /\ NetSim \in Sims /\ None \notin Nat
  BY SimsAssumption, TimeAssumption DEF Sims
<1>1. CASE ActiveStepStart(s) \/ ActiveGetNextTime(s)
  <2>1. UNCHANGED <<cur, now, rep, est, granted>>
    BY <1>1 DEF ActiveStepStart, StepStart, ActiveGetNextTime, GetNextTime,
                RequestDiff, Call, histVars
  <2>2. /\ pc[s] # "min"
        /\ pc' = [pc EXCEPT ![s] = IF pc[s] = "idle" THEN "barrier" ELSE "sr"]
    BY <1>1 DEF ActiveStepStart, StepStart, ActiveGetNextTime, GetNextTime,
                RequestDiff, Call
  <2> QED BY <2>1, <2>2 DEF ActiveOwed
<1>2. CASE ActiveBarrierDone(s) \/ ActiveTickDiff(s) \/ ActiveDelayDone(s)
           \/ (s = NetSim /\ ActiveNetDiff)
  <2>1. UNCHANGED <<cur, now, granted>> /\ pc[s] # "min"
        /\ rep' = [rep EXCEPT ![s] = None]
    BY <1>2 DEF ActiveBarrierDone, BarrierDone, ActiveTickDiff, TickDiff,
                ActiveDelayDone, ActiveNetDiff, NetDiff, TakeReply, histVars
  <2>2. \A t \in Sims : t # s => pc'[t] = pc[t] /\ est'[t] = est[t]
    BY <1>2 DEF ActiveBarrierDone, BarrierDone, ActiveTickDiff, TickDiff,
                ActiveDelayDone, ActiveNetDiff, NetDiff, TakeReply, Call
  <2> QED BY <2>1, <2>2 DEF ActiveOwed
<1>3. CASE WokenUp(s) \/ (s = NetSim /\ NetAgain)
  <2>1. /\ UNCHANGED <<cur, now, granted, est>>
        /\ pc' = [pc EXCEPT ![s] = "sr"] /\ rep' = [rep EXCEPT ![s] = None]
    BY <1>3 DEF WokenUp, NetAgain, TakeReply, Reiterate, RequestDiff, Call
  <2>2. IF s = NetSim THEN rep[s] = granted[s] ELSE ~(rep[s] >= est[s])
    BY <1>0, <1>3 DEF WokenUp, NetAgain, TakeReply
  <2> QED BY <2>1, <2>2 DEF ActiveOwed
<1>4. CASE ActiveTickGranted(s)
  <2>1. s \in Ticks /\ Answered(s) /\ rep[s] >= est[s]
    BY <1>4 DEF ActiveTickGranted, TickGranted, TakeReply, Answered
  <2>2. est[s] = now /\ s \in ActiveOwed
    BY <1>0, <2>1, TimeHasCome DEF ActiveOwed, Answered
  <2>3. /\ cur' = [cur EXCEPT ![s] = now] /\ UNCHANGED <<now, est>>
        /\ pc' = [pc EXCEPT ![s] = "idle"] /\ rep' = [rep EXCEPT ![s] = None]
        /\ granted' = [granted EXCEPT ![s] = now]
    BY <1>4, <2>2 DEF ActiveTickGranted, TickGranted, TakeReply, histVars
  <2>4. ActiveOwed' = ActiveOwed \ {s}
    BY <1>0, <2>1, <2>3 DEF ActiveOwed
  <2> QED BY <2>2, <2>3, <2>4 DEF ActiveLockStep!Grant
<1>5. CASE s = NetSim /\ ActiveNetGranted
  <2>1. /\ pc[s] = "min" /\ rep[s] # None /\ rep[s] # granted[s] /\ rep[s] = now
        /\ s \in ActiveOwed
    BY <1>5 DEF ActiveNetGranted, TakeReply, InstantInv, ActiveOwed, Answered
  <2>2. /\ cur' = [cur EXCEPT ![s] = FloorTo(NetSim, now)] /\ UNCHANGED <<now, est>>
        /\ granted' = [granted EXCEPT ![s] = now]
        /\ pc' = [pc EXCEPT ![s] = "idle"] /\ rep' = [rep EXCEPT ![s] = None]
    BY <1>5, <2>1 DEF ActiveNetGranted, TakeReply, histVars
  <2>3. FloorTo(NetSim, now) = now
    BY ActiveAssumption DEF FloorTo
  <2>4. ActiveOwed' = ActiveOwed \ {s}
    BY <2>2 DEF ActiveOwed
  <2> QED BY <2>1, <2>2, <2>3, <2>4 DEF ActiveLockStep!Grant
<1> QED BY <1>1, <1>2, <1>3, <1>4, <1>5 DEF ActiveClientStep, ActiveNetStep

LEMMA HandlerSteps ==
  ASSUME ActiveInv, NEW s \in Sims,
         ActiveBarrier(s) \/ ActiveSendRecv(s) \/ ActiveDelay(s)
  PROVE  UNCHANGED <<now, cur, ActiveOwed>>
<1>1. UNCHANGED <<now, pc, cur, est, granted>>
  BY DEF ActiveBarrier, ActiveSendRecv, ActiveDelay, simVars, histVars
<1>2. \/ rep' = rep
      \/ \E v : ReplyTo(Awake, v) /\ \A t \in Awake : pc[t] # "min"
  BY BarrierGathers, SendRecvGathers, DelayGathers DEF ActiveInv
<1>3. \A t \in Sims : pc[t] = "min" => rep'[t] = rep[t]
  BY <1>2 DEF ReplyTo, Awake
<1> QED BY <1>1, <1>3 DEF ActiveOwed

LEMMA MinSteps ==
  ASSUME ActiveInv, NEW s \in Sims, ReduceMinSleep(s)
  PROVE  \/ \E S \in SUBSET Sims : ActiveLockStep!Advance(S)
         \/ UNCHANGED <<now, cur, ActiveOwed>>
<1> USE DEF ActiveInv, ActiveTypeInv, TypeInv, TypeOK, NoneOr
<1>0. /\ UNCHANGED <<pc, cur, est, granted>>
      /\ NetSim \in Sims /\ None \notin Nat
      /\ \A t \in Sims : t # NetSim => t \in Ticks
  BY TimeAssumption DEF ReduceMinSleep, simVars, Sims
<1>1. CASE ~WokeAll /\ ~MovedAll
  <2>1. now' = now /\ rep' = rep
    BY <1>1, MinGathers
  <2> QED BY <1>0, <2>1 DEF ActiveOwed
<1>2. ASSUME AllIn
      PROVE  /\ ActiveOwed = {} /\ granted[NetSim] = now /\ cur[NetSim] = now
             /\ est[NetSim] = Infinity
             /\ \A t \in Sims : t # NetSim => now < est[t]
             /\ \A t \in Sims : pc'[t] = "min"
  BY <1>0, <1>2 DEF AllIn, ActiveOwed, Answered, InstantInv, ProposalInv
<1>3. CASE WokeAll
  <2>1. \A t \in Sims : pc'[t] = "min" /\ rep'[t] = now /\ now' = now
    BY <1>2, <1>3 DEF WokeAll
  <2>2. \A t \in Sims : t \notin ActiveOwed'
    BY <1>0, <1>2, <1>3, <2>1 DEF ActiveOwed, WokeAll
  <2>3. ActiveOwed' = {}
    BY <2>2 DEF ActiveOwed
  <2> QED BY <1>0, <1>2, <1>3, <2>1, <2>3 DEF WokeAll
<1>4. CASE MovedAll
  <2>1. /\ now' \in Nat /\ now <= now' /\ ActiveOwed = {} /\ ActiveOwed' \in SUBSET Sims
        /\ rep' = [r \in Sims |-> IF r \in Ready(now') THEN now' ELSE None]
    <3>1. PICK t \in Sims : est[t] = now'
      BY <1>4 DEF MovedAll
    <3>2. ActiveOwed' \in SUBSET Sims
      BY DEF ActiveOwed
    <3>3. now <= est[t]
      BY <1>2, <1>4, <3>1 DEF MovedAll, InstantInv
    <3> QED BY <1>2, <1>4, <3>1, <3>2, <3>3 DEF MovedAll
  <2>2. CASE now' = now
    <3>1. \A t \in Sims : t \notin ActiveOwed'
      BY <1>0, <1>2, <1>4, <2>1, <2>2 DEF ActiveOwed, Ready, MovedAll
    <3>2. ActiveOwed' = {}
      BY <3>1 DEF ActiveOwed
    <3> QED BY <1>0, <2>1, <2>2, <3>2
  <2>3. CASE now' # now
    <3>1. NetSim \in ActiveOwed'
      BY <1>0, <1>2, <1>4, <2>1, <2>3 DEF ActiveOwed, Ready, MovedAll
    <3>2. ActiveLockStep!Advance(ActiveOwed')
      BY <1>0, <2>1, <3>1 DEF ActiveLockStep!Advance
    <3> HIDE DEF ActiveOwed
    <3> QED BY <2>1, <3>2
  <2> QED BY <2>2, <2>3
<1> QED BY <1>1, <1>3, <1>4

LEMMA ActiveStepRefines ==
  ActiveInv /\ [ActiveNext]_activeVars => [ActiveLockStep!Next]_(ActiveLockStep!vars)
<1> SUFFICES ASSUME ActiveInv, [ActiveNext]_activeVars
             PROVE  ActiveLockStep!Next \/ UNCHANGED <<now, cur, ActiveOwed>>
  BY DEF ActiveLockStep!vars
<1>1. CASE UNCHANGED activeVars
  BY <1>1 DEF activeVars, vars, simVars, histVars, ActiveOwed
<1>2. ASSUME NEW s \in Sims, ActiveClientStep(s) \/ (s = NetSim /\ ActiveNetStep)
      PROVE  ActiveLockStep!Grant(s) \/ UNCHANGED <<now, cur, ActiveOwed>>
  BY <1>2, SimulatorSteps
<1>3. ASSUME NEW s \in Sims, ActiveBarrier(s) \/ ActiveSendRecv(s) \/ ActiveDelay(s)
      PROVE  UNCHANGED <<now, cur, ActiveOwed>>
  BY <1>3, HandlerSteps
<1>4. ASSUME NEW s \in Sims, ReduceMinSleep(s)
      PROVE  \/ \E S \in SUBSET Sims : ActiveLockStep!Advance(S)
             \/ UNCHANGED <<now, cur, ActiveOwed>>
  BY <1>4, MinSteps
<1>5. ASSUME NEW m \in Msgs, ActiveCarry(m)
      PROVE  UNCHANGED <<now, cur, ActiveOwed>>
  BY <1>5 DEF ActiveCarry, Carry, TickReceive, NetReceive, DelayHandler,
              RouteHandler, simVars, histVars, ActiveOwed
<1>6. NetSim \in Sims
  BY DEF Sims
<1> QED
  BY <1>1, <1>2, <1>3, <1>4, <1>5, <1>6
  DEF ActiveNext, ActiveBrokerStep, ActiveLockStep!Next

\* Although some sleep through the collectives, the applications under the
\* active-set algorithms see what those under the grace-period ones see: one
\* virtual time that never goes back, and clocks that only jump to it.
THEOREM ActiveImplements == ActiveSpec => ActiveVirtualTime
<1>1. ActiveInv => (ActiveInit => ActiveLockStep!Init)
  BY TimeAssumption DEF ActiveInit, Init, ActiveLockStep!Init, ActiveOwed
<1> QED
  BY <1>1, ActiveInvInit, ActiveInvNext, ActiveStepRefines, PTL
  DEF ActiveSpec, ActiveVirtualTime, ActiveLockStep!Spec

-----------------------------------------------------------------------------
(***************************************************************************)
(* Why the active set may conclude from the counters of those that are     *)
(* awake.  A sleeping simulator reported everything it had sent before it  *)
(* fell asleep and counts on what it receives until it is back, so when    *)
(* the last of the awake has reported, all that was sent is in the         *)
(* broker's totals and what was received is part of it.  The totals agree  *)
(* only when everything sent was received and reported (Settled): nothing  *)
(* is under way, and resetCounters, which the conservative algorithms call *)
(* after a difference of zero, sets to zero what is zero already.          *)
(***************************************************************************)

\* Everything sent was received or given up, and the totals have it.
Settled == \A m \in Msgs : loc[m] # "unsent" => m \in recvIn

\* A simulator has learned, or is about to learn, that the totals agree.
KnowsSettled(s) ==
  \/ pc[s] = "sr" /\ rep[s] = 0
  \/ s \in Ticks /\ pc[s] = "delay" /\ even[s]
  \/ s \in Ticks /\ pc[s] = "min" /\ even[s] /\ rep[s] = None

SettledInv ==
  /\ \A s \in Sims : pc[s] \in {"delay", "min"} => Sent(s) \subseteq sentIn
  /\ \A s \in Ticks : pc[s] \in {"delay", "min"} /\ ~respond[s] => even[s]
  /\ (\E s \in Awake : KnowsSettled(s)) => Settled

CountingInv == ActiveInv /\ CountInv /\ SettledInv /\ broker = "up"

-----------------------------------------------------------------------------
(* The collection of the counters.                                         *)

LEMMA ActiveTally ==
  ASSUME ActiveInv, CountInv, NEW s \in Sims, ActiveSendRecv(s)
  PROVE  CountInv' /\ ~Excess(s, reduceSent)
<1>1. s \notin reduceSent /\ Pending(s)
  BY SendRecvGathers DEF ActiveInv, ActiveSendRecv, Serve, Pending
<1>2. ~Excess(s, reduceSent)
  <2>1. s \in Awake /\ reduceSent \in SUBSET Awake
    BY <1>1, WhoIsAwake DEF ActiveInv, RequestInv, ActiveTypeInv, TypeInv, TypeOK, Pending
  <2> QED BY <1>1, <2>1, Room DEF ActiveInv
<1>3. /\ req' = req \ {s}
      /\ sentTotal' = sentTotal + sendCopy[s]
      /\ recvTotal' = recvTotal + recvCopy[s]
      /\ sentIn' = sentIn \cup Sent(s)
      /\ recvIn' = recvIn \cup (copied \cap Received(s))
      /\ UNCHANGED <<commVars, loc, pc, copied>>
  BY <1>2 DEF ActiveSendRecv, Serve, simVars, msgVars
<1> QED BY <1>1, <1>2, <1>3, TallyCount, TypesOfComm DEF ActiveInv, ActiveTypeInv

\* When all that are awake have reported, everything sent is in the sum, and
\* what was received is part of it.
LEMMA AwakeReported ==
  ASSUME ActiveInv, CountInv, SettledInv, NEW s \in Sims, ActiveSendRecv(s),
         reduceSent \cup {s} = Awake
  PROVE  /\ \A m \in Msgs : loc'[m] # "unsent" => m \in sentIn'
         /\ recvIn' \subseteq sentIn'
         /\ recvTotal' <= sentTotal'
         /\ sentTotal' - recvTotal' = 0 => Settled'
<1> USE DEF ActiveInv, ActiveTypeInv, TypeInv, TypeOK
<1>1. /\ CountInv' /\ TypeInv'
      /\ UNCHANGED <<pc, loc, packets, copied>> /\ req' = req \ {s}
      /\ sentIn' = sentIn \cup Sent(s)
      /\ s \notin reduceSent
  <2>1. TypeInv'
    BY ActiveTypeNext DEF ActiveNext, ActiveBrokerStep
  <2> QED BY <2>1, ActiveTally, SendRecvGathers
          DEF ActiveSendRecv, Serve, simVars, msgVars, commVars
<1>2. ASSUME NEW t \in Sims PROVE Sent(t) \subseteq sentIn'
  <2>1. CASE t = s
    BY <1>1, <2>1
  <2>2. CASE t \in reduceSent
    <3>1. Tallied(t)
      BY <2>2 DEF RequestInv, Tallied
    <3> QED BY <1>1, <3>1 DEF CountInv, SendTally
  <2>3. CASE t \notin Awake
    BY <1>1, <2>3 DEF SettledInv, Awake, Asleep
  <2> QED BY <2>1, <2>2, <2>3
<1>3. \A m \in Msgs : loc'[m] # "unsent" => m \in sentIn'
  BY <1>1, <1>2, SimsAssumption DEF Sent, Sims
<1>4. recvIn' \subseteq sentIn'
  <2>1. Done' \subseteq {m \in Msgs : loc'[m] # "unsent"}
    BY <1>1 DEF Done
  <2> QED BY <1>1, <1>3, <2>1 DEF CountInv, Totals
<1>5. /\ sentIn' \in SUBSET Msgs /\ recvIn' \in SUBSET sentIn'
      /\ sentTotal' \in Nat /\ recvTotal' \in Nat
      /\ sentTotal' = Cardinality(sentIn') /\ recvTotal' = Cardinality(recvIn')
  BY <1>1, <1>4 DEF CountInv, Totals
<1>6. recvTotal' <= sentTotal' /\ (recvTotal' = sentTotal' => recvIn' = sentIn')
  BY <1>5, CardSub
<1>7. sentTotal' - recvTotal' = 0 => Settled'
  BY <1>3, <1>5, <1>6 DEF Settled
<1> QED BY <1>3, <1>4, <1>6, <1>7

LEMMA CountingTally ==
  ASSUME CountingInv, NEW s \in Sims, ActiveSendRecv(s)
  PROVE  CountInv' /\ SettledInv' /\ broker' = "up"
<1> USE DEF CountingInv, ActiveInv, ActiveTypeInv, TypeInv, TypeOK, NoneOr
<1>0. /\ UNCHANGED <<pc, loc, respond, even>> /\ CountInv'
      /\ sentIn \subseteq sentIn' /\ recvIn \subseteq recvIn'
      /\ \A t \in Sims : Sent(t)' = Sent(t)
      /\ Awake' = Awake
      /\ \A t \in Ticks : t \in Sims
  BY ActiveTally, HandlerMoves
  DEF ActiveSendRecv, simVars, msgVars, localVars, Sent, Sims
<1>1. CASE reduceSent' = reduceSent \cup {s} /\ rep' = rep /\ broker' = broker
  <2>1. Settled => Settled'
    BY <1>0 DEF Settled
  <2>2. \A t \in Sims : KnowsSettled(t)' <=> KnowsSettled(t)
    BY <1>0, <1>1 DEF KnowsSettled
  <2> QED BY <1>0, <1>1, <2>1, <2>2 DEF SettledInv, Awake
<1>2. CASE /\ reduceSent \cup {s} = Awake
           /\ \A t \in Awake : pc[t] = "sr" /\ rep[t] = None /\ t \notin req'
           /\ \/ Impossible(sentTotal', recvTotal')
              \/ /\ ReplyTo(Awake, sentTotal' - recvTotal')
                 /\ sentTotal' - recvTotal' \in Nat
  <2>1. /\ recvTotal' <= sentTotal'
        /\ sentTotal' - recvTotal' = 0 => Settled'
    BY <1>2, AwakeReported
  <2>2. sentTotal' \in Nat /\ recvTotal' \in Nat
    BY ActiveTypeNext DEF ActiveNext, ActiveBrokerStep
  <2>3. ReplyTo(Awake, sentTotal' - recvTotal') /\ ~Impossible(sentTotal', recvTotal')
    <3>1. ~Impossible(sentTotal', recvTotal')
      BY <2>1, <2>2 DEF Impossible
    <3> QED BY <1>2, <3>1
  <2>4. broker' = "up"
    <3>1. broker = "up" /\ ~Excess(s, reduceSent)
      BY ActiveTally
    <3> HIDE DEF CountingInv, ActiveInv, ActiveTypeInv, TypeInv, TypeOK, NoneOr
    <3> QED BY <2>3, <3>1 DEF ActiveSendRecv
  <2>5. ASSUME NEW t \in Awake, KnowsSettled(t)' PROVE Settled'
    <3>1. pc'[t] = "sr" /\ rep'[t] = sentTotal' - recvTotal'
      BY <1>0, <1>2, <2>3 DEF ReplyTo, Awake
    <3>2. sentTotal' - recvTotal' = 0
      BY <2>5, <3>1 DEF KnowsSettled
    <3> QED BY <2>1, <3>2
  <2> QED BY <1>0, <2>4, <2>5 DEF SettledInv
<1> QED BY <1>1, <1>2, SendRecvGathers

-----------------------------------------------------------------------------
(* The other steps.                                                        *)

LEMMA RequestsOnce == RequestInv => Unanswered
  BY DEF RequestInv, Unanswered

\* Resetting the counters after a difference of zero changes nothing.
LEMMA NothingToReset ==
  ASSUME CountingInv, NEW s \in Sims, ActiveDelayDone(s)
  PROVE  UNCHANGED commVars
<1> USE DEF CountingInv, ActiveInv, ActiveTypeInv, TypeInv, TypeOK
<1>1. CASE Resets(s)
  <2>1. pc[s] = "delay" /\ s \in Awake /\ KnowsSettled(s)
    BY <1>1, WhoIsAwake DEF ActiveDelayDone, TakeReply, Resets, KnowsSettled
  <2>2. Settled /\ Sent(s) \subseteq sentIn
    BY <2>1 DEF SettledInv
  <2>3. Received(s) \subseteq recvIn
    BY <2>2 DEF Settled, Received
  <2>4. Sent(s) \ sentIn = {} /\ Received(s) \ recvIn = {}
    BY <2>2, <2>3
  <2>5. /\ sendCount[s] = Cardinality(Sent(s) \ sentIn)
        /\ receiveCount[s] = Cardinality(Received(s) \ recvIn)
    BY <2>1 DEF CountInv, SendTally, RecvTally, Tallied
  <2>6. sendCount[s] = 0 /\ receiveCount[s] = 0
    BY <2>4, <2>5, FS_EmptySet
  <2> QED BY <1>1, <2>6 DEF ActiveDelayDone, commVars
<1>2. CASE ~Resets(s)
  BY <1>2 DEF ActiveDelayDone, commVars
<1> QED BY <1>1, <1>2

LEMMA SimulatorCounts ==
  ASSUME CountingInv, NEW s \in Sims,
         ActiveClientStep(s) \/ (s = NetSim /\ ActiveNetStep)
  PROVE  CountInv'
<1> USE DEF CountingInv, ActiveInv, ActiveTypeInv
<1>1. CASE \/ ActiveStepStart(s) \/ ActiveBarrierDone(s) \/ ActiveGetNextTime(s)
           \/ ActiveTickDiff(s) \/ ActiveTickGranted(s)
           \/ (s = NetSim /\ ActiveNetDiff)
  <2>1. ClientStep(s) \/ NetStep
    BY <1>1 DEF ActiveStepStart, ActiveBarrierDone, ActiveGetNextTime, ActiveTickDiff,
                ActiveTickGranted, ActiveNetDiff, ClientStep, NetStep
  <2> QED BY <2>1, RequestsOnce, ClientCount, TypesOfComm
<1>2. CASE ActiveDelayDone(s)
  <2>1. UNCHANGED <<commVars, loc, sentTotal, recvTotal, countVars>>
    BY <1>2, NothingToReset DEF ActiveDelayDone, brokerVars, msgVars, histVars
  <2>2. pc[s] = "delay" /\ pc' = [pc EXCEPT ![s] = "min"] /\ req' = req \cup {s}
    BY <1>2 DEF ActiveDelayDone, TakeReply, Call
  <2> QED BY <2>1, <2>2, QuietCount DEF TypeInv, TypeOK
<1>3. CASE WokenUp(s) \/ (s = NetSim /\ NetAgain)
  <2>1. /\ pc[s] # "sr" /\ RequestDiff(s, sendCount[s])
        /\ UNCHANGED <<sendCount, receiveCount, packets, loc, sentTotal,
                        recvTotal, sentIn, recvIn>>
    BY <1>3 DEF WokenUp, NetAgain, TakeReply, Reiterate, brokerVars, msgVars
  <2> QED BY <2>1, AgainCount, TypesOfComm
<1>4. CASE s = NetSim /\ ActiveNetGranted
  <2>1. /\ UNCHANGED <<commVars, loc, sentTotal, recvTotal, countVars, req>>
        /\ pc[s] = "min" /\ pc' = [pc EXCEPT ![s] = "idle"]
    BY <1>4 DEF ActiveNetGranted, TakeReply, brokerVars, msgVars, histVars
  <2> QED BY <2>1, QuietCount DEF TypeInv, TypeOK
<1> QED BY <1>1, <1>2, <1>3, <1>4 DEF ActiveClientStep, ActiveNetStep

\* While one that is awake knows, all that are awake are past sendAll.
LEMMA NobodySends ==
  ASSUME ActiveInv, NEW s \in Awake, KnowsSettled(s), NEW t \in Awake
  PROVE  pc[t] \notin {"idle", "work"}
<1> USE DEF ActiveInv, ActiveTypeInv, TypeInv, TypeOK, NoneOr
<1>1. None \notin Nat
  BY TimeAssumption
<1>2. s \in Sims /\ t \in Sims
  BY DEF Awake
<1>3. NextCall(s) \notin {"barrier", "sr"}
  BY <1>1, <1>2 DEF KnowsSettled, NextCall, ActiveOwed, Phase, After
<1>4. pc[t] \in {"idle", "work"} => NextCall(t) \in {"barrier", "sr"}
  BY <1>2 DEF NextCall, ActiveOwed, Phase
<1>5. NextCall(s) = NextCall(t)
  BY DEF AwakeInv, Together
<1> QED BY <1>3, <1>4, <1>5

LEMMA SimulatorSettles ==
  ASSUME CountingInv, NEW s \in Sims,
         ActiveClientStep(s) \/ (s = NetSim /\ ActiveNetStep)
  PROVE  SettledInv'
<1> USE DEF CountingInv, ActiveInv, ActiveTypeInv, TypeInv, TypeOK, NoneOr
<1>0. /\ Awake' = Awake /\ s \in Awake
      /\ \A t \in Ticks : t \in Sims /\ t # NetSim
      /\ \A t \in Awake : t \in Sims
      /\ None \notin Nat
  BY SimulatorMoves, SimsAssumption, TimeAssumption DEF Sims, Awake
<1>1. CASE ActiveStepStart(s) \/ ActiveGetNextTime(s)
  <2>1. PICK M \in SUBSET Outbox(s) : SendAll(s, M)
    BY <1>1 DEF ActiveStepStart, StepStart, ActiveGetNextTime, GetNextTime
  <2>2. /\ UNCHANGED <<rep, even, sentIn>>
        /\ \A t \in Sims : t # s => respond'[t] = respond[t]
        /\ pc[s] \in {"idle", "work"}
        /\ pc' = [pc EXCEPT ![s] = IF pc[s] = "idle" THEN "barrier" ELSE "sr"]
    BY <1>1 DEF ActiveStepStart, StepStart, ActiveGetNextTime, GetNextTime,
                RequestDiff, Call, histVars, countVars
  <2>3. \A t \in Sims : t # s => Sent(t)' = Sent(t)
    BY <2>1, <2>2, SendAllCount, TypesOfComm
  <2>4. rep[s] = None
    BY <2>2 DEF RequestInv, Waiting
  <2>5. ASSUME NEW t \in Awake, KnowsSettled(t)' PROVE FALSE
    <3>1. t # s
      BY <1>0, <2>2, <2>4, <2>5 DEF KnowsSettled
    <3>2. KnowsSettled(t)
      BY <1>0, <2>2, <2>5, <3>1 DEF KnowsSettled
    <3> QED BY <1>0, <2>2, <3>2, NobodySends
  <2> QED BY <1>0, <2>2, <2>3, <2>5 DEF SettledInv
<1>2. ASSUME ~(ActiveStepStart(s) \/ ActiveGetNextTime(s))
      PROVE  SettledInv'
  <2>1. UNCHANGED <<loc, sentIn, recvIn>>
    BY <1>2
    DEF ActiveClientStep, ActiveNetStep, ActiveBarrierDone, BarrierDone,
        ActiveTickDiff, TickDiff, ActiveDelayDone, WokenUp, Reiterate,
        ActiveTickGranted, TickGranted, ActiveNetDiff, NetDiff, NetAgain,
        ActiveNetGranted, msgVars, histVars, countVars
  <2>2. /\ Settled' <=> Settled
        /\ \A t \in Sims : Sent(t)' = Sent(t)
    BY <2>1 DEF Settled, Sent
  <2>3. /\ \A t \in Sims : t # s => pc'[t] = pc[t] /\ rep'[t] = rep[t]
        /\ \A t \in Sims : t # s => even'[t] = even[t] /\ respond'[t] = respond[t]
        /\ rep' = [rep EXCEPT ![s] = None]
    BY <1>2
    DEF ActiveClientStep, ActiveNetStep, ActiveBarrierDone, BarrierDone,
        ActiveTickDiff, TickDiff, ActiveDelayDone, WokenUp, Reiterate, RequestDiff,
        ActiveTickGranted, TickGranted, ActiveNetDiff, NetDiff, NetAgain,
        ActiveNetGranted, Call, TakeReply, localVars
  <2>4. /\ pc'[s] \in {"delay", "min"} => Sent(s) \subseteq sentIn
        /\ s \in Ticks /\ pc'[s] \in {"delay", "min"} /\ ~respond'[s] => even'[s]
        /\ KnowsSettled(s)' => KnowsSettled(s)
    <3>1. CASE ActiveTickDiff(s) \/ (s = NetSim /\ ActiveNetDiff)
      <4>1. /\ Tallied(s) /\ pc' = [pc EXCEPT ![s] = "delay"]
        BY <3>1 DEF ActiveTickDiff, TickDiff, ActiveNetDiff, NetDiff, TakeReply, Call,
                    RequestInv, Tallied
      <4>2. s \in Ticks => /\ even' = [even EXCEPT ![s] = rep[s] = 0]
                           /\ respond' = [respond EXCEPT ![s] = ~Stable(s)]
        BY <1>0, <3>1 DEF ActiveTickDiff, TickDiff
      <4>3. Sent(s) \subseteq sentIn
        BY <4>1 DEF CountInv, SendTally
      <4> QED BY <1>0, <4>1, <4>2, <4>3 DEF KnowsSettled, Stable, Tallied
    <3>2. CASE ActiveDelayDone(s)
      <4>1. /\ pc[s] = "delay" /\ pc' = [pc EXCEPT ![s] = "min"]
            /\ UNCHANGED <<respond, even>>
        BY <3>2 DEF ActiveDelayDone, TakeReply, Call, localVars
      <4> QED BY <4>1 DEF KnowsSettled, SettledInv
    <3>3. CASE /\ ~ActiveTickDiff(s) /\ ~(s = NetSim /\ ActiveNetDiff)
               /\ ~ActiveDelayDone(s)
      <4>1. pc'[s] \in {"work", "sr", "idle"} /\ rep'[s] = None
        BY <1>2, <2>3, <3>3
        DEF ActiveClientStep, ActiveNetStep, ActiveBarrierDone, BarrierDone,
            WokenUp, Reiterate, RequestDiff, ActiveTickGranted, TickGranted,
            NetAgain, ActiveNetGranted, Call
      <4> QED BY <1>0, <4>1 DEF KnowsSettled
    <3> QED BY <3>1, <3>2, <3>3
  <2>5. \A t \in Sims : KnowsSettled(t)' => KnowsSettled(t)
    BY <2>3, <2>4 DEF KnowsSettled
  <2>6. \A t \in Sims : pc'[t] \in {"delay", "min"} => Sent(t)' \subseteq sentIn'
    BY <2>1, <2>2, <2>3, <2>4 DEF SettledInv
  <2>7. \A t \in Ticks : pc'[t] \in {"delay", "min"} /\ ~respond'[t] => even'[t]
    BY <1>0, <2>3, <2>4 DEF SettledInv
  <2>8. (\E t \in Awake' : KnowsSettled(t)') => Settled'
    BY <1>0, <2>2, <2>5 DEF SettledInv
  <2> QED BY <2>6, <2>7, <2>8 DEF SettledInv
<1> QED BY <1>1, <1>2

LEMMA HandlerCounts ==
  ASSUME CountingInv, NEW s \in Sims, ActiveBarrier(s) \/ ActiveDelay(s)
  PROVE  CountInv' /\ SettledInv'
<1> USE DEF CountingInv, ActiveInv, ActiveTypeInv
<1>1. /\ UNCHANGED <<pc, respond, even, commVars, loc, sentTotal, recvTotal, countVars>>
      /\ pc[s] # "sr" /\ req' = req \ {s}
  BY DEF ActiveBarrier, ActiveDelay, Serve, simVars, localVars, msgVars, histVars
<1>2. CountInv'
  BY <1>1, QuietCount
<1>3. \A t \in Sims : pc[t] \notin {"barrier", "delay"} => rep'[t] = rep[t]
  BY BarrierGathers, DelayGathers DEF ReplyTo
<1>4. \A t \in Sims : KnowsSettled(t)' <=> KnowsSettled(t)
  BY <1>1, <1>3 DEF KnowsSettled
<1>5. Awake' = Awake /\ \A t \in Awake : t \in Sims
  BY HandlerMoves DEF Awake
<1>6. UNCHANGED <<sentIn, Settled>> /\ \A t \in Sims : Sent(t)' = Sent(t)
  BY <1>1 DEF countVars, Settled, Sent
<1> QED BY <1>1, <1>2, <1>4, <1>5, <1>6 DEF SettledInv, Sims

LEMMA MinCounts ==
  ASSUME CountingInv, NEW s \in Sims, ReduceMinSleep(s)
  PROVE  CountInv' /\ SettledInv'
<1> USE DEF CountingInv, ActiveInv, ActiveTypeInv
<1>1. /\ UNCHANGED <<pc, respond, even, commVars, loc, sentTotal, recvTotal, countVars>>
      /\ pc[s] # "sr" /\ req' = req \ {s}
  BY DEF ReduceMinSleep, Serve, simVars, localVars, msgVars
<1>2. CountInv'
  BY <1>1, QuietCount
<1>3. UNCHANGED <<sentIn, Settled>> /\ \A t \in Sims : Sent(t)' = Sent(t)
  BY <1>1 DEF countVars, Settled, Sent
<1>4. (\E t \in Awake' : KnowsSettled(t)') => Settled
  <2>1. CASE WokeAll \/ MovedAll
    <3>1. \A t \in Sims : pc'[t] = "min"
      BY <1>1, <2>1 DEF WokeAll, MovedAll, AllIn
    <3>2. CASE WokeAll
      <4>1. now # None
        BY TimeAssumption DEF TypeInv, TypeOK
      <4>2. \A t \in Sims : rep'[t] # None
        BY <3>2, <4>1 DEF WokeAll
      <4> QED BY <3>1, <3>2, <4>2, MinAwake DEF KnowsSettled
    <3>3. CASE MovedAll
      <4>1. Awake' = Ready(now') /\ Ready(now') \subseteq Sims /\ now' # None
        BY <3>3, MinAwake, TimeAssumption DEF MovedAll, Ready, Sims
      <4>2. \A t \in Ready(now') : rep'[t] # None
        BY <3>3, <4>1 DEF MovedAll
      <4> QED BY <3>1, <4>1, <4>2 DEF KnowsSettled
    <3> QED BY <2>1, <3>2, <3>3
  <2>2. CASE ~WokeAll /\ ~MovedAll
    <3>1. Awake' = Awake /\ rep' = rep
      BY <2>2, MinAwake, MinGathers
    <3>2. \A t \in Awake : KnowsSettled(t)' <=> KnowsSettled(t)
      BY <1>1, <3>1 DEF KnowsSettled
    <3> QED BY <3>1, <3>2 DEF SettledInv
  <2> QED BY <2>1, <2>2
<1> QED BY <1>1, <1>2, <1>3, <1>4 DEF SettledInv, Sims

LEMMA CarryCounts ==
  ASSUME CountingInv, NEW m \in Msgs, ActiveCarry(m)
  PROVE  CountInv' /\ SettledInv'
<1> USE DEF CountingInv, ActiveInv, ActiveTypeInv, TypeInv, TypeOK
<1>1. CountInv'
  BY RequestsOnce, ClientCount, TypesOfComm DEF ActiveCarry
<1>2. /\ UNCHANGED <<simVars, req, rep, sentIn, recvIn, even, incoming>>
      /\ \A k \in Msgs : loc'[k] # "unsent" <=> loc[k] # "unsent"
  BY DEF ActiveCarry, Carry, TickReceive, NetReceive, DelayHandler, RouteHandler,
         histVars, countVars, localVars, sleepVars
<1>3. Settled' <=> Settled
  BY <1>2 DEF Settled
<1>4. \A t \in Sims : Sent(t)' = Sent(t)
  BY <1>2 DEF Sent
<1>5. /\ Awake' = Awake
      /\ \A t \in Sims : KnowsSettled(t)' <=> KnowsSettled(t)
  BY <1>2 DEF Awake, Asleep, KnowsSettled, simVars
<1> QED BY <1>1, <1>2, <1>3, <1>4, <1>5 DEF SettledInv, Awake, Sims, simVars

\* Only a collection of counters can end the broker.
LEMMA BrokerStays ==
  ASSUME CountingInv, [ActiveNext]_activeVars,
         \A s \in Sims : ~ActiveSendRecv(s)
  PROVE  broker' = "up"
<1> USE DEF CountingInv, ActiveInv
<1>1. ASSUME NEW s \in Sims, ActiveBrokerStep(s) PROVE broker' = broker
  BY <1>1, BarrierGathers, DelayGathers, MinGathers DEF ActiveBrokerStep
<1>2. ASSUME \/ \E s \in Sims : ActiveClientStep(s)
             \/ ActiveNetStep \/ \E m \in Msgs : ActiveCarry(m)
      PROVE  broker' = broker
  BY <1>2
  DEF ActiveClientStep, ActiveNetStep, ActiveStepStart, StepStart, ActiveBarrierDone,
      BarrierDone, ActiveGetNextTime, GetNextTime, ActiveTickDiff, TickDiff,
      ActiveDelayDone, WokenUp, Reiterate, ActiveTickGranted, TickGranted,
      ActiveNetDiff, NetDiff, NetAgain, ActiveNetGranted, ActiveCarry, Carry,
      TickReceive, NetReceive, DelayHandler, RouteHandler, brokerVars
<1>3. CASE UNCHANGED activeVars
  BY <1>3 DEF activeVars, vars, brokerVars
<1> QED BY <1>1, <1>2, <1>3 DEF ActiveNext

-----------------------------------------------------------------------------
(* The invariant, and what follows from it.                                *)

LEMMA CountingInit == ActiveInit => CountingInv
<1> SUFFICES ASSUME ActiveInit PROVE CountingInv
  OBVIOUS
<1>1. ActiveInv /\ CountInv
  BY ActiveInvInit, CountInit DEF ActiveInit
<1>2. \A s \in Sims : pc[s] = "idle"
  BY DEF ActiveInit, Init
<1>3. SettledInv
  BY <1>2 DEF SettledInv, KnowsSettled, Awake, Sims
<1> QED BY <1>1, <1>3 DEF CountingInv, ActiveInit, Init

LEMMA CountingNext == CountingInv /\ [ActiveNext]_activeVars => CountingInv'
<1> SUFFICES ASSUME CountingInv, [ActiveNext]_activeVars
             PROVE  CountInv' /\ SettledInv' /\ broker' = "up"
  BY ActiveInvNext DEF CountingInv
<1>1. CASE UNCHANGED activeVars
  <2>1. /\ UNCHANGED <<pc, rep, req, respond, even, incoming, broker>>
        /\ UNCHANGED <<commVars, loc, sentTotal, recvTotal, countVars>>
    BY <1>1 DEF activeVars, vars, simVars, brokerVars, msgVars, histVars, localVars,
                sleepVars
  <2>2. CountInv'
    BY <2>1, QuietCount DEF CountingInv
  <2>3. SettledInv'
    BY <2>1 DEF CountingInv, SettledInv, Settled, KnowsSettled, Awake, Asleep, Sent,
                countVars
  <2> QED BY <2>1, <2>2, <2>3 DEF CountingInv
<1>2. ASSUME NEW s \in Sims, ActiveClientStep(s) \/ (s = NetSim /\ ActiveNetStep)
      PROVE  CountInv' /\ SettledInv'
  BY <1>2, SimulatorCounts, SimulatorSettles
<1>3. ASSUME NEW s \in Sims, ActiveBrokerStep(s), ~ActiveSendRecv(s)
      PROVE  CountInv' /\ SettledInv'
  BY <1>3, HandlerCounts, MinCounts DEF ActiveBrokerStep
<1>4. ASSUME NEW m \in Msgs, ActiveCarry(m)
      PROVE  CountInv' /\ SettledInv'
  BY <1>4, CarryCounts
<1>5. CASE \E s \in Sims : ActiveSendRecv(s)
  BY <1>5, CountingTally
<1>6. CASE \A s \in Sims : ~ActiveSendRecv(s)
  <2>1. CountInv' /\ SettledInv'
    BY <1>1, <1>2, <1>3, <1>4, <1>6 DEF ActiveNext, Sims
  <2> QED BY <2>1, <1>6, BrokerStays
<1> QED BY <1>5, <1>6

\* The broker counts on as many as are awake, they go through the collectives
\* together, and it never ends: not in graceful_death for a second request of
\* an identity or one too many, nor for more receipts than sends.
THEOREM AwakeTogether == ActiveSpec => []AwakeInStep
<1>1. CountingInv => AwakeInStep
  BY DEF CountingInv, ActiveInv, AwakeInv, Together, Awake, AwakeInStep
<1> QED BY <1>1, CountingInit, CountingNext, PTL DEF ActiveSpec

\* Outside the reductions the counters of a power simulator hold just what the
\* broker's totals do not: resetCounters never drops a message that
\* messageReceived or nodeSentMessage counted while they were being reduced.
THEOREM CountersKeep == ActiveSpec => []NothingForgotten
<1>1. CountingInv => NothingForgotten
  BY DEF CountingInv, CountInv, SendTally, RecvTally, Tallied, NothingForgotten,
         InApp, Sims
<1> QED BY <1>1, CountingInit, CountingNext, PTL DEF ActiveSpec

\* A conservative simulator that found no difference and proposes the time it
\* was asked for is right that nothing is under way, though the sleeping
\* simulators were not asked.
THEOREM AwakeAreRight == ActiveSpec => []AwakeMeansQuiet
<1>1. CountingInv => AwakeMeansQuiet
  <2> SUFFICES ASSUME CountingInv, NEW s \in Ticks, pc[s] \in {"delay", "min"},
                      rep[s] = None, ~respond[s], ~Asleep(s)
               PROVE  InFlight = {}
    BY DEF AwakeMeansQuiet
  <2>1. s \in Awake /\ KnowsSettled(s)
    BY DEF CountingInv, SettledInv, KnowsSettled, Awake, Sims
  <2>2. Settled
    BY <2>1 DEF CountingInv, SettledInv
  <2>3. recvIn \subseteq Done /\ \A m \in packets : loc[m] = "held"
    BY DEF CountingInv, CountInv, Totals
  <2> QED BY <2>2, <2>3
          DEF InFlight, Settled, Done, CountingInv, ActiveInv, ActiveTypeInv, TypeInv,
              TypeOK
<1> QED BY <1>1, CountingInit, CountingNext, PTL DEF ActiveSpec

=============================================================================
