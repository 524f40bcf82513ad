------------------------- MODULE SleepingTick_proofs -------------------------
(***************************************************************************)
(* Theorems about SleepingTick for two power simulators, with any          *)
(* messages, metrics, steps and times.                                     *)
(*                                                                         *)
(* The inductive invariant SleepInv says what one of the two can be doing  *)
(* for everything that the other can be doing (Beside): whoever sleeps is  *)
(* beside one that goes on and stays before the sleeper's time (Goes), one *)
(* that learns of the sleep just now (Knows), or one that sleeps to wake   *)
(* it (Wakes); and while both are awake neither believes that the other    *)
(* may be asleep once it goes into a reduction.  The collectives are then  *)
(* those of GracePeriodSync among the simulators that are awake            *)
(* (Together), and no request is one too many.                             *)
(*                                                                         *)
(* CountInv, of GracePeriodCounting_proofs, says that the counters and the *)
(* broker's totals count sets of messages.  SettledInv carries the         *)
(* difference of zero from the broker to those that act on it: all that    *)
(* was sent is in both totals, a sleeper's messages too, because what it   *)
(* has sent is in the totals before it sleeps, and it sends nothing while  *)
(* it does.                                                                *)
(***************************************************************************)
EXTENDS SleepingTick, GracePeriodCounting_proofs

\* The instances these theorems are about: two power simulators that ask for
\* a step or more, and no time they can ask for is beyond the largest TIME.
Pair ==
  /\ Cardinality(Ticks) = 2
  /\ \A s \in Ticks : Horizon + Step[s] <= Infinity
  /\ \A s \in Ticks : \A d \in Strides[s] : d >= Step[s] /\ Horizon + d <= Infinity

Other(s) == CHOOSE t \in Ticks : t # s

-----------------------------------------------------------------------------
(* The inductive invariant.                                                *)

\* What ALL_GATHER answers.
Lists == {<<>>} \cup {<<t>> : t \in Nat}

SleepTypes ==
  /\ pc \in [Sims -> Places]
  /\ cur \in [Sims -> Nat] /\ granted \in [Sims -> Nat] /\ asked \in [Sims -> Nat]
  /\ base \in [Sims -> Nat] /\ est \in [Sims -> Nat]
  /\ respond \in [Sims -> BOOLEAN] /\ busy \in [Sims -> BOOLEAN]
  /\ rep \in [Sims -> NoneOr(Nat) \cup Lists]
  /\ \A s \in Sims : rep[s] \in IF pc[s] = "gather" THEN Lists \cup {None} ELSE NoneOr(Nat)
  /\ reduceMin \in [Sims -> NoneOr(Nat)]
  /\ barrier \subseteq Sims /\ reduceSent \subseteq Sims
  /\ now \in Nat
  /\ even \in [Ticks -> BOOLEAN] /\ mightSleep \in [Ticks -> BOOLEAN]
  /\ otherTimes \in [Ticks -> [Slots -> Nat]]
  /\ agreed \in [Ticks -> Nat]
  /\ slot \in [Ticks -> Nat] /\ \A s \in Ticks : pc[s] = "wake" => slot[s] >= 1
  /\ nextTimes \in [Ticks -> NoneOr(Nat)]
  /\ asleep \subseteq Ticks

\* Where a simulator is on its way around the collectives.
Stage(s) ==
  IF pc[s] \in {"idle", "finished", "gather"} THEN "barrier"
  ELSE IF pc[s] \in {"work", "wake"} THEN "sr"
  ELSE IF pc[s] = "rest" THEN (IF rep[s] = None THEN "barrier" ELSE "sr")
  ELSE IF rep[s] = None THEN pc[s] ELSE After(pc[s])

\* What a power simulator does: it is out of the collectives, wakes the
\* others, is back, goes around freely, waits for an instant that is not its
\* own, reduces, or has been told the minimum.
Out(s)   == pc[s] = "rest" /\ rep[s] = None
Wakes(s) == pc[s] = "wake" /\ rep[s] = None
Back(s)  == pc[s] \in {"rest", "wake"} /\ rep[s] # None
Told(s)  == pc[s] = "min" /\ rep[s] # None
Free(s)  == pc[s] \in {"idle", "work"} \/ (pc[s] = "barrier" /\ ~busy[s])
Waits(s) == pc[s] = "barrier" /\ busy[s]
Reduces(s) == pc[s] \in {"sr", "delay"} \/ (pc[s] = "min" /\ rep[s] = None)
Asks(s)  == pc[s] = "gather" /\ rep[s] = None
Knows(s) == pc[s] = "gather" /\ rep[s] # None

\* A simulator whose request is under way or collected waits for its answer.
RequestOf(s) ==
  /\ s \in req => pc[s] \notin InApp /\ rep[s] = None /\ s \notin asleep
  /\ rep[s] # None => pc[s] \notin InApp
  /\ s \in barrier => pc[s] = "barrier" /\ s \notin req /\ rep[s] = None
  /\ s \in reduceSent => pc[s] = "sr" /\ s \notin req /\ rep[s] = None
  /\ reduceMin[s] # None => /\ pc[s] \in {"delay", "min"}
                            /\ s \notin req /\ rep[s] = None
                            /\ reduceMin[s] = Proposal(s)
  /\ s \in asleep => Out(s) \/ Wakes(s)

GatherOf(s) ==
  /\ nextTimes[s] # None => /\ Asks(s) /\ s \notin req
                            /\ nextTimes[s] = est[s]
  /\ pc[s] # "finished"

NetInv ==
  /\ pc[NetSim] \notin {"wake", "rest", "gather"}
  /\ ~busy[NetSim]
  /\ pc[NetSim] \in {"delay", "min"} => est[NetSim] = Infinity

Together == \A s, t \in Awake : Stage(s) = Stage(t)

\* The time s asks for next will be too late for the other.
MustWake(s) == mightSleep[s] /\ otherTimes[s][1] <= cur[s]

\* s goes on while the other is out.
Goes(s, o) ==
  /\ mightSleep[s]
  /\ otherTimes[s][1] <= est[o]
  /\ Reduces(s) \/ Told(s) =>
       /\ asleep = {o}
       /\ asked[s] < est[o] /\ base[s] + Step[s] <= asked[s]
       /\ pc[s] \in {"delay", "min"} => est[s] < est[o]
  /\ Reduces(s) => now <= base[s]
  /\ Reduces(s) /\ pc[s] # "sr" => now <= est[s]
  /\ Told(s) => now = est[s]

Listed(o) == IF est[o] = Infinity THEN <<>> ELSE <<est[o]>>

\* What the other one, o, can do meanwhile.
OutBeside(s, o) == Out(s) =>
  /\ now < est[s] /\ base[s] <= now
  /\ \/ Knows(o) /\ now = est[o]
     \/ (Free(o) \/ Reduces(o) \/ Told(o)) /\ Goes(o, s)
     \/ Wakes(o) /\ asleep = {s}

WakesBeside(s, o) == Wakes(s) =>
  /\ now < Horizon
  /\ \/ Out(o) /\ asleep = {o}
     \/ Free(o) /\ Stage(o) = "sr" /\ MustWake(o)
     \/ Wakes(o)

BackBeside(s, o) == Back(s) =>
  /\ asleep = {}
  /\ Back(o) \/ (pc[o] = "sr" /\ rep[o] = None /\ ~mightSleep[o])

WaitsBeside(s, o) == Waits(s) =>
  /\ asleep = {} /\ ~mightSleep[s] /\ ~even[s]
  /\ base[s] <= now /\ now < est[s]
  /\ \/ Free(o) /\ ~mightSleep[o]
     \/ Told(o) /\ ~mightSleep[o] /\ ~even[o] /\ now = est[o] /\ rep[s] = None
     \/ pc[o] = "sr" /\ rep[o] = None /\ ~mightSleep[o]

ReducesBeside(s, o) == Reduces(s) /\ ~Out(o) =>
  /\ asleep = {} /\ ~mightSleep[s]
  /\ \/ Reduces(o)
     \/ Stage(s) = "sr" /\ (Back(o) \/ Waits(o) \/ (Free(o) /\ ~mightSleep[o]))

ToldBeside(s, o) == Told(s) /\ ~Out(o) =>
  /\ asleep = {} /\ ~mightSleep[s]
  /\ now <= est[s]
  /\ \/ Told(o) /\ even[o] = even[s] /\ (now = est[s] \/ now = est[o])
     \/ even[s] /\ Asks(o) /\ (now = est[s] \/ now = est[o])
     \/ ~even[s] /\ ~mightSleep[o] /\ (Waits(o) \/ Free(o)) /\ (now = est[s] \/ Free(o))

AsksBeside(s, o) == Asks(s) =>
  /\ agreed[s] = now /\ now <= est[s] /\ even[s]
  /\ asleep = {} /\ ~mightSleep[s]
  /\ now = est[s] \/ now = est[o]
  /\ Told(o) \/ Asks(o)

KnowsBeside(s, o) == Knows(s) =>
  /\ agreed[s] = now /\ now <= est[s] /\ even[s]
  /\ rep[s] = Listed(o)
  /\ \/ Knows(o) /\ (now = est[s] \/ now = est[o])
     \/ Out(o) /\ now = est[s]
     \/ Free(o) /\ mightSleep[o] /\ now = est[o]

FreeBeside(s, o) == Free(s) =>
  /\ cur[s] = now
  /\ pc[s] # "idle" => cur[s] < Horizon
  /\ mightSleep[s] =>
       \/ Knows(o) /\ otherTimes[s][1] <= est[o]
       \/ Out(o) /\ Goes(s, o)
       \/ Free(o) /\ MustWake(o) /\ MustWake(s)
       \/ Wakes(o) /\ MustWake(s)

Beside(s, o) ==
  /\ OutBeside(s, o) /\ WakesBeside(s, o) /\ BackBeside(s, o)
  /\ WaitsBeside(s, o) /\ ReducesBeside(s, o) /\ ToldBeside(s, o)
  /\ AsksBeside(s, o) /\ KnowsBeside(s, o) /\ FreeBeside(s, o)

\* What s knows of the difference.
Verdict(s) == IF pc[s] = "sr" THEN rep[s] = 0 ELSE even[s]
Judges(s) == pc[s] \in {"delay", "min"} \/ (pc[s] = "sr" /\ rep[s] # None)
Agree(s, o) == Judges(s) /\ Judges(o) => (Verdict(s) <=> Verdict(o))

TimeOf(s) ==
  /\ pc[s] \in {"idle", "work"} => ~busy[s]
  /\ Told(s) => rep[s] = now
  /\ \A i \in Slots : otherTimes[s][i] <= Infinity
  /\ Reduces(s) \/ Back(s) \/ Wakes(s) \/ (Waits(s) /\ rep[s] # None) =>
       base[s] < Horizon
  /\ ~Free(s) => asked[s] <= Infinity
  /\ est[s] <= Infinity
  /\ Reduces(s) \/ Wakes(s) \/ Back(s) => asked[s] > now \/ respond[s]
  /\ pc[s] \in {"delay", "min"} /\ rep[s] = None => est[s] > now \/ respond[s]
  /\ pc[s] \in {"delay", "min", "gather"} \/ Out(s) \/ Waits(s) =>
       est[s] = asked[s] \/ respond[s]

PairOf(s, o) == Beside(s, o) /\ TimeOf(s) /\ Agree(s, o)

ControlInv ==
  /\ \A s \in Sims : RequestOf(s)
  /\ \A s \in Ticks : GatherOf(s)
  /\ NetInv
  /\ Together /\ asleep # Ticks
  /\ \A s \in Ticks : PairOf(s, Other(s))

\* Everything sent was received or given up, and the totals have it.
AllSettled == \A m \in Msgs : loc[m] # "unsent" => m \in recvIn

\* s has learned, or is about to learn, that the totals agree.
KnowsSettled(s) ==
  \/ pc[s] = "sr" /\ rep[s] = 0
  \/ s \in Ticks /\ pc[s] = "delay" /\ even[s]
  \/ s \in Ticks /\ pc[s] = "min" /\ even[s] /\ rep[s] = None

SettledInv ==
  /\ \A s \in Sims : pc[s] \in {"delay", "min", "gather"} \/ Out(s) =>
       Sent(s) \subseteq sentIn
  /\ \A s \in Ticks : pc[s] \in {"delay", "min"} /\ ~respond[s] => even[s]
  /\ (\E s \in Sims : KnowsSettled(s)) => AllSettled

SleepInv ==
  /\ SleepTypes /\ CommTypes /\ ControlInv /\ CountInv /\ SettledInv
  /\ broker = "up"
-----------------------------------------------------------------------------
(* Two power simulators.                                                   *)

\* s and o are the two.
Mates(s, o) ==
  /\ s \in Ticks /\ o \in Ticks /\ s # o /\ Ticks = {s, o}
  /\ o = Other(s) /\ s = Other(o)

LEMMA Pairing ==
  ASSUME Pair, NEW s \in Ticks
  PROVE  Mates(s, Other(s)) /\ Mates(Other(s), s)
<1>1. IsFiniteSet(Ticks \ {s}) /\ Cardinality(Ticks \ {s}) = 1
  BY SleepingAssumption, FS_RemoveElement DEF Pair
<1>2. PICK o : Ticks \ {s} = {o}
  BY <1>1, FS_Singleton
<1>3. o \in Ticks /\ o # s /\ Ticks = {s, o}
  BY <1>2
<1>4. Other(s) = o /\ Other(o) = s
  BY <1>3 DEF Other
<1> QED BY <1>3, <1>4 DEF Mates

LEMMA OneSlot == Pair => Slots = {1}
  BY DEF Pair, Slots

LEMMA NetApart == NetSim \in Sims /\ NetSim \notin Ticks /\ Ticks \subseteq Sims
  BY SimsAssumption DEF Sims

\* Those that are awake fit into a collection.
LEMMA Room ==
  ASSUME NEW S \in SUBSET Awake, NEW s \in Awake, s \notin S
  PROVE  ~Excess(s, S)
<1>1. IsFiniteSet(Sims)
  BY SleepingAssumption, FS_AddElement DEF Sims
<1>2. IsFiniteSet(Awake) /\ S \cup {s} \subseteq Awake
  BY <1>1, FS_Subset DEF Awake
<1>3. /\ Cardinality(S \cup {s}) <= Cardinality(Awake)
      /\ Cardinality(S \cup {s}) \in Nat /\ Cardinality(Awake) \in Nat
  BY <1>2, FS_Subset, FS_CardinalityType
<1> QED BY <1>3 DEF Excess

\* What the invariant says of the two, one by one.
LEMMA BothOf ==
  ASSUME Pair, ControlInv, NEW s \in Ticks
  PROVE  /\ PairOf(s, Other(s)) /\ PairOf(Other(s), s)
         /\ Mates(s, Other(s))
         /\ RequestOf(s) /\ RequestOf(Other(s)) /\ RequestOf(NetSim)
         /\ GatherOf(s) /\ GatherOf(Other(s))
<1>1. Mates(s, Other(s)) /\ Mates(Other(s), s)
  BY Pairing
<1>2. \A t \in Ticks : PairOf(t, Other(t)) /\ RequestOf(t) /\ GatherOf(t)
  BY NetApart DEF ControlInv
<1>3. RequestOf(NetSim)
  BY NetApart DEF ControlInv
<1> QED BY <1>1, <1>2, <1>3 DEF Mates

-----------------------------------------------------------------------------
(* The broker's collections.                                               *)

LEMMA BarrierGathers ==
  ASSUME Pair, SleepInv, NEW s \in Sims, SleepingBarrier(s)
  PROVE  /\ broker' = broker /\ s \in req /\ pc[s] = "barrier"
         /\ \/ rep' = rep /\ barrier' = barrier \cup {s}
            \/ /\ barrier' = {} /\ ReplyTo(Awake, Ack)
               /\ \A t \in Awake : pc[t] = "barrier" /\ rep[t] = None /\ t \notin req'
<1>1. /\ s \in req /\ pc[s] = "barrier" /\ req' = req \ {s}
      /\ \A t \in Sims : RequestOf(t)
  BY DEF SleepingBarrier, Serve, SleepInv, ControlInv
<1>2. s \notin barrier /\ s \in Awake /\ rep[s] = None
  BY <1>1 DEF RequestOf, Awake
<1>3. barrier \in SUBSET Awake
  <2> SUFFICES ASSUME NEW t \in barrier PROVE t \in Awake
    OBVIOUS
  <2>1. t \in Sims
    BY DEF SleepInv, SleepTypes
  <2>2. pc[t] = "barrier"
    BY <1>1, <2>1 DEF RequestOf
  <2> QED BY <1>1, <2>1, <2>2 DEF RequestOf, Out, Wakes, Awake
<1>4. ~Excess(s, barrier)
  BY <1>2, <1>3, Room
<1>5. \A t \in barrier : pc[t] = "barrier" /\ rep[t] = None /\ t \notin req
  BY <1>1 DEF RequestOf, SleepInv, SleepTypes
<1>6. CASE barrier \cup {s} = Awake /\ Awake # {NetSim}
  BY <1>1, <1>2, <1>4, <1>5, <1>6 DEF SleepingBarrier
<1>7. CASE ~(barrier \cup {s} = Awake /\ Awake # {NetSim})
  BY <1>1, <1>4, <1>7 DEF SleepingBarrier
<1> QED BY <1>6, <1>7

LEMMA SendRecvGathers ==
  ASSUME Pair, SleepInv, NEW s \in Sims, SleepingSendRecv(s)
  PROVE  /\ s \in req /\ pc[s] = "sr" /\ s \notin reduceSent
         /\ sentTotal' = sentTotal + sendCopy[s]
         /\ recvTotal' = recvTotal + recvCopy[s]
         /\ \/ UNCHANGED <<rep, broker>> /\ reduceSent' = reduceSent \cup {s}
            \/ /\ reduceSent' = {} /\ reduceSent \cup {s} = Awake
               /\ \A t \in Awake : pc[t] = "sr" /\ rep[t] = None /\ t \notin req'
               /\ \/ Impossible(sentTotal', recvTotal') /\ rep' = rep
                  \/ /\ ~Impossible(sentTotal', recvTotal')
                     /\ ReplyTo(Awake, sentTotal' - recvTotal') /\ broker' = broker
<1>1. /\ s \in req /\ pc[s] = "sr" /\ req' = req \ {s}
      /\ \A t \in Sims : RequestOf(t)
  BY DEF SleepingSendRecv, Serve, SleepInv, ControlInv
<1>2. s \notin reduceSent /\ s \in Awake /\ rep[s] = None
  BY <1>1 DEF RequestOf, Awake
<1>3. reduceSent \in SUBSET Awake
  <2> SUFFICES ASSUME NEW t \in reduceSent PROVE t \in Awake
    OBVIOUS
  <2>1. t \in Sims
    BY DEF SleepInv, SleepTypes
  <2>2. pc[t] = "sr"
    BY <1>1, <2>1 DEF RequestOf
  <2> QED BY <1>1, <2>1, <2>2 DEF RequestOf, Out, Wakes, Awake
<1>4. ~Excess(s, reduceSent)
  BY <1>2, <1>3, Room
<1>5. \A t \in reduceSent : pc[t] = "sr" /\ rep[t] = None /\ t \notin req
  BY <1>1 DEF RequestOf, SleepInv, SleepTypes
<1>6. CASE reduceSent \cup {s} = Awake
  <2>1. \A t \in Awake : pc[t] = "sr" /\ rep[t] = None /\ t \notin req'
    BY <1>1, <1>2, <1>5, <1>6
  <2> QED BY <1>1, <1>2, <1>4, <1>6, <2>1 DEF SleepingSendRecv
<1>7. CASE reduceSent \cup {s} # Awake
  BY <1>1, <1>2, <1>4, <1>7 DEF SleepingSendRecv
<1> QED BY <1>6, <1>7

LEMMA MinGathers ==
  ASSUME Pair, SleepInv, NEW s \in Sims, SleepingReduceMin(s)
  PROVE  /\ broker' = broker /\ s \in req /\ pc[s] \in {"delay", "min"}
         /\ \/ UNCHANGED <<rep, now>> /\ reduceMin' = [reduceMin EXCEPT ![s] = Proposal(s)]
            \/ /\ reduceMin' = [r \in Sims |-> None]
               /\ \A t \in Awake : pc[t] = pc[s] /\ rep[t] = None /\ t \notin req'
               /\ \E v \in Nat :
                    /\ ReplyTo(Awake, v) /\ v <= Infinity
                    /\ \A t \in Awake : v <= Proposal(t)
                    /\ v = Infinity \/ \E t \in Awake : v = Proposal(t)
                    /\ now' = IF pc[s] = "min" THEN v ELSE now
<1> DEFINE in == Proposing \cup {s}
           f == [reduceMin EXCEPT ![s] = Proposal(s)]
           times == [t \in Sims |-> IF t \in in THEN f[t] ELSE Infinity]
<1>1. /\ s \in req /\ pc[s] \in {"delay", "min"} /\ req' = req \ {s}
      /\ \A t \in Sims : RequestOf(t)
  BY DEF SleepingReduceMin, Serve, SleepInv, ControlInv
<1>2. s \notin Proposing /\ s \in Awake /\ rep[s] = None
  BY <1>1 DEF RequestOf, Awake, Proposing
<1>3. Proposing \in SUBSET Awake
  BY <1>1 DEF RequestOf, Out, Wakes, Awake, Proposing
<1>4. ~Excess(s, Proposing)
  BY <1>2, <1>3, Room
<1>5. \A t \in Proposing : /\ pc[t] \in {"delay", "min"} /\ rep[t] = None
                           /\ t \notin req /\ reduceMin[t] = Proposal(t)
  BY <1>1 DEF RequestOf, Proposing
<1>6. reduceMin \in [Sims -> NoneOr(Nat)]
  BY DEF SleepInv, SleepTypes
<1>7. CASE in = Awake
  <2>1. \A t \in Awake : pc[t] \in {"delay", "min"} /\ rep[t] = None /\ t \notin req'
    BY <1>1, <1>2, <1>5, <1>7
  <2>2. \A t \in Awake : pc[t] = pc[s]
    <3>1. \A t \in Awake : Stage(t) = pc[t]
      BY <2>1 DEF Stage
    <3> QED BY <1>2, <3>1 DEF SleepInv, ControlInv, Together
  <2>3. \A t \in Awake : f[t] = Proposal(t)
    BY <1>5, <1>6, <1>7 DEF Awake
  <2>4. PICK v \in Smallest(times) : /\ ReplyTo(in, v)
                                    /\ reduceMin' = [r \in Sims |-> None]
                                    /\ now' = IF pc[s] = "min" THEN v ELSE now
    BY <1>4, <1>7 DEF SleepingReduceMin
  <2>5. \A t \in Sims : times[t] = IF t \in Awake THEN Proposal(t) ELSE Infinity
    BY <1>7, <2>3
  <2> HIDE DEF times
  <2>6. /\ v \in {times[t] : t \in Sims}
        /\ \A t \in Sims : v <= times[t]
    BY DEF Smallest
  <2>7. \A t \in Awake : v <= Proposal(t)
    BY <2>5, <2>6 DEF Awake
  <2>8. v = Infinity \/ \E t \in Awake : v = Proposal(t)
    BY <2>5, <2>6
  <2>9. NetSim \in Awake /\ Proposal(NetSim) = Infinity
    <3>1. NetSim \in Awake
      BY NetApart DEF SleepInv, SleepTypes, Awake
    <3> QED BY <2>1, <3>1 DEF Proposal, SleepInv, ControlInv, NetInv
  <2>10. v \in Nat
    BY <2>8, TimeAssumption DEF Proposal, SleepInv, SleepTypes, Awake
  <2>11. broker' = broker
    BY <1>4 DEF SleepingReduceMin
  <2> HIDE DEF f
  <2> QED BY <1>1, <1>7, <2>1, <2>2, <2>4, <2>7, <2>8, <2>9, <2>10, <2>11
<1>8. CASE in # Awake
  BY <1>1, <1>4, <1>8 DEF SleepingReduceMin
<1> QED BY <1>7, <1>8

\* The list a power simulator is given holds the time of the other one.
LEMMA OneOther ==
  ASSUME Pair, NEW t \in Ticks, NEW f
  PROVE  OthersTimes(t, Ticks, f) =
           IF f[Other(t)] = Infinity THEN <<>> ELSE <<f[Other(t)]>>
<1> DEFINE o == Other(t)
           others == {u \in Ticks \ {t} : f[u] # Infinity}
           upTo(u) == {u} \cup {x \in others : Place[x] < Place[u]}
           nth(i) == CHOOSE u \in others : Cardinality(upTo(u)) = i
<1>1. Ticks \ {t} = {o}
  BY Pairing DEF Mates
<1>2. OthersTimes(t, Ticks, f) = [i \in 1 .. Cardinality(others) |-> f[nth(i)]]
  BY DEF OthersTimes
<1>3. CASE f[o] = Infinity
  <2>1. others = {}
    BY <1>1, <1>3
  <2>2. Cardinality(others) = 0
    BY <2>1, FS_EmptySet
  <2> HIDE DEF others, nth
  <2>3. 1 .. 0 = {}
    OBVIOUS
  <2>4. [i \in 1 .. Cardinality(others) |-> f[nth(i)]] = <<>>
    BY <2>2, <2>3
  <2> QED BY <1>2, <1>3, <2>4
<1>4. CASE f[o] # Infinity
  <2>1. others = {o}
    BY <1>1, <1>4
  <2>2. Cardinality(others) = 1
    BY <2>1, FS_Singleton
  <2>4. \A i \in 1 .. 1 : nth(i) = o
    <3>1. upTo(o) = {o}
      BY <2>1
    <3>2. Cardinality(upTo(o)) = 1
      BY <3>1, FS_Singleton
    <3> HIDE DEF upTo
    <3> QED BY <2>1, <3>2
  <2>5. [i \in 1 .. Cardinality(others) |-> f[nth(i)]] = [i \in 1 .. 1 |-> f[o]]
    <3> HIDE DEF nth, others
    <3> QED BY <2>2, <2>4
  <2>6. [i \in 1 .. 1 |-> f[o]] = <<f[o]>>
    OBVIOUS
  <2> QED BY <1>2, <1>4, <2>5, <2>6
<1> QED BY <1>3, <1>4

\* What the next time of the other is told by is an answer.
LEMMA ListIsAnswer ==
  ASSUME Pair, SleepTypes, NEW t \in Ticks
  PROVE  Listed(Other(t)) \in Lists /\ Listed(Other(t)) # None
<1>1. Listed(Other(t)) \in Lists
  BY Pairing, NetApart DEF Mates, SleepTypes, Listed, Lists
<1>2. None \notin [1 .. 0 -> Nat] /\ None \notin [1 .. 1 -> Nat]
  <2>1. Cardinality(Ticks) = 2
    BY DEF Pair
  <2> QED BY <2>1, SleepingAssumption
<1>3. <<>> \in [1 .. 0 -> Nat]
  <2>1. 1 .. 0 = {}
    OBVIOUS
  <2> QED BY <2>1
<1>4. \A v \in Nat : <<v>> \in [1 .. 1 -> Nat]
  OBVIOUS
<1> QED BY <1>1, <1>2, <1>3, <1>4 DEF Lists

LEMMA GatherGathers ==
  ASSUME Pair, SleepInv, NEW s \in Sims, AllGather(s)
  PROVE  /\ broker' = broker /\ s \in req /\ s \in Ticks /\ Asks(s)
         /\ \/ rep' = rep /\ nextTimes' = [nextTimes EXCEPT ![s] = est[s]]
            \/ /\ nextTimes' = [t \in Ticks |-> None]
               /\ \A t \in Ticks : Asks(t) /\ t \notin req'
               /\ rep' = [t \in Sims |-> IF t \in Ticks THEN Listed(Other(t)) ELSE rep[t]]
<1> DEFINE f == [nextTimes EXCEPT ![s] = est[s]]
           in == {t \in Ticks : f[t] # None}
           o == Other(s)
<1>1. s \in req /\ pc[s] = "gather" /\ req' = req \ {s}
  BY DEF AllGather, Serve
<1>2. s \in Ticks
  BY <1>1 DEF SleepInv, ControlInv, NetInv, Sims
<1>3. /\ Mates(s, o) /\ PairOf(s, o) /\ RequestOf(s) /\ GatherOf(s) /\ GatherOf(o)
  BY <1>2, BothOf DEF SleepInv
<1>4. Asks(s) /\ nextTimes[s] = None
  BY <1>1, <1>3 DEF RequestOf, GatherOf, Asks
<1>5. Awake = Sims
  BY <1>3, <1>4 DEF PairOf, Beside, AsksBeside, Awake
<1>6. Cardinality(Awake) = 3
  <2>1. IsFiniteSet(Ticks) /\ Cardinality(Ticks) = 2
    BY SleepingAssumption DEF Pair
  <2> QED BY <1>5, <2>1, NetApart, FS_AddElement DEF Sims
<1>7. IsFiniteSet(in) /\ Cardinality(in) \in Nat /\ Cardinality(in) <= 2
      /\ (Cardinality(in) = 2 => in = Ticks)
  <2>1. in \subseteq Ticks /\ IsFiniteSet(Ticks) /\ Cardinality(Ticks) = 2
    BY SleepingAssumption DEF Pair
  <2> HIDE DEF in
  <2> QED BY <2>1, FS_Subset, FS_CardinalityType
<1>8. ~(nextTimes[s] # None \/ Cardinality(in) > Cardinality(Awake))
  BY <1>4, <1>6, <1>7
<1>12. IF Cardinality(in) # Cardinality(Awake) - 1
       THEN nextTimes' = f /\ rep' = rep
       ELSE /\ nextTimes' = [t \in Ticks |-> None]
            /\ rep' = [t \in Sims |-> IF t \in Ticks \cap Awake
                                      THEN OthersTimes(t, in, f) ELSE rep[t]]
  BY <1>8 DEF AllGather
<1>13. broker' = broker
  BY <1>8 DEF AllGather
<1>9. nextTimes \in [Ticks -> NoneOr(Nat)]
  BY DEF SleepInv, SleepTypes
<1>10. CASE Cardinality(in) = 2
  <2>1. in = Ticks
    BY <1>7, <1>10
  <2>2. nextTimes[o] # None
    BY <1>3, <1>9, <2>1 DEF Mates
  <2>3. Asks(o) /\ o \notin req /\ nextTimes[o] = est[o]
    BY <1>3, <2>2 DEF GatherOf
  <2>4. \A t \in Ticks : f[t] = est[t] /\ Asks(t) /\ t \notin req'
    BY <1>1, <1>3, <1>4, <1>9, <2>3 DEF Mates
  <2>5. \A t \in Ticks : Other(t) \in Ticks
    BY Pairing DEF Mates
  <2>6. \A t \in Ticks : OthersTimes(t, in, f) = Listed(Other(t))
    <3> HIDE DEF f, in
    <3>1. \A t \in Ticks : f[Other(t)] = est[Other(t)]
      BY <2>4, <2>5
    <3> QED BY <2>1, <3>1, OneOther DEF Listed
  <2>7. /\ broker' = broker /\ nextTimes' = [t \in Ticks |-> None]
        /\ rep' = [t \in Sims |-> IF t \in Ticks \cap Awake
                                  THEN OthersTimes(t, in, f) ELSE rep[t]]
    <3> HIDE DEF f, in
    <3> QED BY <1>6, <1>10, <1>12, <1>13
  <2>8. Ticks \cap Awake = Ticks
    BY <1>5, NetApart
  <2> HIDE DEF f, in
  <2> QED BY <1>1, <1>2, <1>4, <2>4, <2>6, <2>7, <2>8
<1>11. CASE Cardinality(in) # 2
  BY <1>1, <1>2, <1>4, <1>6, <1>7, <1>11, <1>12, <1>13
<1> QED BY <1>10, <1>11

\* A sleep is the second one, or it leaves the other one to go on, whom it may
\* have kept at the barrier.
LEMMA SleepGathers ==
  ASSUME Pair, SleepInv, NEW s \in Sims, SleepHandler(s)
  PROVE  /\ s \in Ticks /\ s \in req /\ s \notin asleep
         /\ pc[s] \in {"wake", "rest"} /\ rep[s] = None
         /\ UNCHANGED <<broker, reduceSent, reduceMin, now>>
         /\ \/ /\ asleep = {Other(s)} /\ asleep' = {} /\ barrier' = barrier
               /\ ReplyTo(Ticks, Ack)
            \/ /\ asleep = {} /\ asleep' = {s}
               /\ \/ rep' = rep /\ barrier' = barrier
                  \/ /\ barrier' = {} /\ ReplyTo({Other(s), NetSim}, Ack)
                     /\ \A t \in {Other(s), NetSim} : pc[t] = "barrier" /\ rep[t] = None
                                                      /\ t \notin req
<1> DEFINE o == Other(s)
           left == Awake \ {s}
<1>1. s \in req /\ pc[s] \in {"wake", "rest"} /\ req' = req \ {s}
  BY DEF SleepHandler, Serve
<1>2. s \in Ticks
  BY <1>1 DEF SleepInv, ControlInv, NetInv, Sims
<1>3. /\ Mates(s, o) /\ PairOf(s, o) /\ PairOf(o, s)
      /\ RequestOf(s) /\ RequestOf(o) /\ RequestOf(NetSim)
  BY <1>2, BothOf DEF SleepInv
<1>4. s \notin asleep /\ rep[s] = None /\ (Out(s) \/ Wakes(s))
  BY <1>1, <1>3 DEF RequestOf, Out, Wakes
<1>5. asleep = {} \/ asleep = {o}
  BY <1>3, <1>4 DEF SleepInv, SleepTypes, Mates
<1>6. CASE asleep = {o}
  <2>1. left = {NetSim}
    BY <1>2, <1>3, <1>6, NetApart DEF Awake, Sims, Mates
  <2> QED BY <1>1, <1>2, <1>4, <1>6, <2>1 DEF SleepHandler, WakeAll
<1>7. CASE asleep = {}
  <2>1. left = {o, NetSim} /\ left # {NetSim}
    BY <1>2, <1>3, <1>7, NetApart DEF Awake, Sims, Mates
  <2>2. FallAsleep(s, left)
    BY <1>4, <2>1 DEF SleepHandler
  <2>3. o \in Sims /\ NetSim \in Sims
    BY <1>3, NetApart DEF Mates
  <2>4. ~Reduces(o) /\ pc[o] # "sr"
    <3>1. pc[o] = "sr" => Reduces(o)
      BY DEF Reduces
    <3>2. Out(s) /\ Reduces(o) => asleep = {s}
      BY <1>3, <1>4
      DEF PairOf, Beside, OutBeside, Goes, Out, Wakes, Free, Reduces, Told, Knows
    <3>3. Wakes(s) /\ Reduces(o) => FALSE
      BY <1>3 DEF PairOf, Beside, WakesBeside, Out, Wakes, Free, Reduces
    <3> QED BY <1>4, <1>7, <3>1, <3>2, <3>3
  <2>5. o \notin reduceSent /\ o \notin Proposing
    BY <1>3, <2>4 DEF RequestOf, Proposing, Reduces
  <2>6. ~CompleteWithout(reduceSent, left) /\ ~CompleteWithout(Proposing, left)
    BY <2>1, <2>5 DEF CompleteWithout
  <2>7. /\ asleep' = {s} /\ UNCHANGED <<broker, reduceSent, reduceMin, now>>
        /\ barrier' = IF CompleteWithout(barrier, left) THEN {} ELSE barrier
        /\ rep' = [r \in Sims |-> IF r \notin left THEN rep[r]
                     ELSE IF CompleteWithout(barrier, left) THEN Ack ELSE rep[r]]
    BY <1>7, <2>2, <2>6 DEF FallAsleep
  <2>8. CASE CompleteWithout(barrier, left)
    <3>1. barrier = {o, NetSim}
      BY <2>1, <2>8 DEF CompleteWithout
    <3>2. \A t \in {o, NetSim} : pc[t] = "barrier" /\ rep[t] = None /\ t \notin req
      BY <1>3, <3>1 DEF RequestOf
    <3> QED BY <1>1, <1>2, <1>4, <1>7, <2>1, <2>7, <2>8, <3>2 DEF ReplyTo
  <2>9. CASE ~CompleteWithout(barrier, left)
    <3>1. rep' = rep
      BY <2>7, <2>9 DEF SleepInv, SleepTypes
    <3> QED BY <1>1, <1>2, <1>4, <1>7, <2>7, <2>9, <3>1
  <2> QED BY <2>8, <2>9
<1> QED BY <1>5, <1>6, <1>7

-----------------------------------------------------------------------------
(* Types.                                                                  *)

AllTypes == SleepTypes /\ CommTypes

\* sendAll touches the outbox's messages and the sender's counter only.
LEMMA SendAllTypes ==
  ASSUME CommTypes, NEW s \in Sims, NEW M \in SUBSET Outbox(s), SendAll(s, M)
  PROVE  /\ loc' \in [Msgs -> Locs]
         /\ packets' \subseteq Msgs
         /\ sendCount' \in [Sims -> Nat]
         /\ \A t \in Sims : sendCount[t] <= sendCount'[t]
<1>1. M \subseteq Msgs /\ Cardinality(M) \in Nat
  BY MsgsCard DEF Outbox
<1>2. CASE s = NetSim
  BY <1>1, <1>2 DEF SendAll, CommTypes, Locs
<1>3. CASE s # NetSim
  BY <1>1, <1>3 DEF SendAll, CommTypes, Locs
<1> QED BY <1>2, <1>3

LEMMA AskedTypes ==
  ASSUME SleepTypes, NEW s \in Sims
  PROVE  AskedTimes(s) \subseteq Nat
  BY TimeAssumption DEF AskedTimes, SleepTypes

\* The counters are copied, and what arrived is counted.
LEMMA TakeAllTypes ==
  ASSUME CommTypes, NEW s \in Ticks, NEW A \in SUBSET Arrived(s), TakeAll(s, A)
  PROVE  /\ loc' \in [Msgs -> Locs]
         /\ receiveCount' \in [Sims -> Nat]
         /\ sendCopy' = [sendCopy EXCEPT ![s] = sendCount[s]]
         /\ recvCopy' = [recvCopy EXCEPT ![s] = receiveCount[s]]
         /\ copied' \subseteq Msgs
         /\ pc' = [pc EXCEPT ![s] = "sr"] /\ req' = req \cup {s}
         /\ \A t \in Sims : t # s => receiveCount'[t] = receiveCount[t]
         /\ \A t \in Sims : receiveCount[t] <= receiveCount'[t]
<1> DEFINE old == {m \in A : mtime[m] < GraceTime(cur[s])}
<1>1. A \subseteq Msgs /\ Cardinality(A \ old) \in Nat
  BY MsgsCard DEF Arrived
<1>2. /\ loc' = [m \in Msgs |-> IF m \notin A THEN loc[m]
                               ELSE IF m \in old THEN "dropped" ELSE "delivered"]
      /\ receiveCount' = [receiveCount EXCEPT ![s] = @ + Cardinality(A \ old)]
      /\ sendCopy' = [sendCopy EXCEPT ![s] = sendCount[s]]
      /\ recvCopy' = [recvCopy EXCEPT ![s] = receiveCount[s]]
      /\ copied' = copied \cup Received(s)
      /\ pc' = [pc EXCEPT ![s] = "sr"] /\ req' = req \cup {s}
  BY DEF TakeAll, RequestDiff, Call
<1>3. Received(s) \subseteq Msgs
  BY NetApart DEF Received
<1> HIDE DEF old
<1> QED BY <1>1, <1>2, <1>3, NetApart DEF CommTypes, Locs

\* What the loop does with the minimum t.
Sleeps(s, t) ==
  /\ t < est[s] /\ even[s]
  /\ base' = [base EXCEPT ![s] = FloorTo(s, t)] /\ busy' = [busy EXCEPT ![s] = TRUE]
  /\ pc' = [pc EXCEPT ![s] = "rest"] /\ req' = req \cup {s}
  /\ UNCHANGED <<granted, cur>>

Repeats(s, t) ==
  /\ t < est[s] /\ ~even[s]
  /\ base' = [base EXCEPT ![s] = FloorTo(s, t)] /\ busy' = [busy EXCEPT ![s] = TRUE]
  /\ pc' = [pc EXCEPT ![s] = "barrier"] /\ req' = req \cup {s}
  /\ UNCHANGED <<granted, cur>>

Returns(s, t) ==
  /\ ~(t < est[s])
  /\ granted' = [granted EXCEPT ![s] = est[s]] /\ cur' = [cur EXCEPT ![s] = est[s]]
  /\ busy' = [busy EXCEPT ![s] = FALSE] /\ pc' = [pc EXCEPT ![s] = "idle"]
  /\ UNCHANGED <<base, req>>

LEMMA ProceedIs ==
  ASSUME NEW s, NEW t, Proceed(s, t)
  PROVE  Sleeps(s, t) \/ Repeats(s, t) \/ Returns(s, t)
<1>1. CASE t < est[s]
  BY <1>1 DEF Proceed, Sleeps, Repeats, Call
<1>2. CASE ~(t < est[s])
  BY <1>2 DEF Proceed, Returns
<1> QED BY <1>1, <1>2

LEMMA ProceedTypes ==
  ASSUME AllTypes, NEW s \in Ticks, NEW t \in Nat, Proceed(s, t),
         rep' = [rep EXCEPT ![s] = None],
         UNCHANGED <<asked, est, respond, commVars, brokerVars, loc, histVars, even,
                     slot, asleep, nextTimes>>,
         otherTimes' \in [Ticks -> [Slots -> Nat]],
         mightSleep' \in [Ticks -> BOOLEAN], agreed' \in [Ticks -> Nat]
  PROVE  AllTypes'
<1> USE DEF AllTypes, SleepTypes, CommTypes, CopyBound, Places, NoneOr, commVars,
            brokerVars, histVars, countVars
<1>1. s \in Sims /\ FloorTo(s, t) \in Nat
  BY NetApart, FloorType
<1>2. CASE Sleeps(s, t)
  BY <1>1, <1>2 DEF Sleeps
<1>3. CASE Repeats(s, t)
  BY <1>1, <1>3 DEF Repeats, Waiting
<1>4. CASE Returns(s, t)
  BY <1>1, <1>4 DEF Returns, InApp
<1> QED BY <1>2, <1>3, <1>4, ProceedIs

LEMMA ClientTypes ==
  ASSUME Pair, AllTypes, NEW s \in Sims, SleepingClientStep(s)
  PROVE  AllTypes'
<1> USE DEF AllTypes, SleepTypes, CommTypes, CopyBound, Places, InApp, Waiting, NoneOr
<1>0. /\ s \in Ticks => s # NetSim
      /\ Ticks \subseteq Sims /\ Slots = {1} /\ None \notin Nat
  BY NetApart, OneSlot, TimeAssumption
<1>1. CASE SleepingStepStart(s)
  <2>1. PICK M \in SUBSET Outbox(s) : SendAll(s, M)
    BY <1>1 DEF SleepingStepStart, StepStart
  <2> QED BY <1>0, <1>1, <2>1, SendAllTypes
          DEF SleepingStepStart, StepStart, Call, brokerVars, histVars, countVars,
              sleepVars, tickVars
<1>2. CASE SleepingBarrierDone(s)
  <2>1. Received(s) \subseteq Msgs
    BY DEF Received
  <2>2. CASE BarrierDone(s)
    BY <1>0, <1>2, <2>2
    DEF SleepingBarrierDone, BarrierDone, TakeReply, commVars, brokerVars, msgVars,
        histVars, countVars, sleepVars, tickVars
  <2>3. CASE BusyBarrierDone(s)
    BY <1>0, <1>2, <2>1, <2>3
    DEF SleepingBarrierDone, BusyBarrierDone, RequestDiff, Call, TakeReply, brokerVars,
        msgVars, countVars, sleepVars, tickVars
  <2> QED BY <1>2, <2>2, <2>3 DEF SleepingBarrierDone
<1>3. CASE SleepingGetNextTime(s)
  <2>1. PICK M \in SUBSET Outbox(s), next \in AskedTimes(s) :
          /\ SendAll(s, M)
          /\ asked' = [asked EXCEPT ![s] = next]
          /\ IF s \in Ticks /\ mightSleep[s] /\ LeftBehind(s, next, 1) # {}
             THEN /\ Call(s, "wake")
                  /\ \E i \in LeftBehind(s, next, 1) : slot' = [slot EXCEPT ![s] = i]
                  /\ UNCHANGED <<sendCopy, recvCopy, copied>>
             ELSE RequestDiff(s, sendCount'[s]) /\ UNCHANGED slot
    BY <1>3 DEF SleepingGetNextTime
  <2>2. next \in Nat /\ Received(s) \subseteq Msgs
    BY AskedTypes DEF Received
  <2>3. /\ pc[s] = "work" /\ base' = [base EXCEPT ![s] = cur[s]]
        /\ respond' = [respond EXCEPT ![s] = FALSE] /\ busy' = [busy EXCEPT ![s] = FALSE]
        /\ UNCHANGED <<cur, granted, est, receiveCount, brokerVars, rep, now,
                       sentIn, recvIn, even, mightSleep, otherTimes, agreed, asleep,
                       nextTimes>>
    BY <1>3 DEF SleepingGetNextTime
  <2>4. /\ loc' \in [Msgs -> Locs] /\ packets' \subseteq Msgs
        /\ sendCount' \in [Sims -> Nat] /\ \A t \in Sims : sendCount[t] <= sendCount'[t]
    BY <2>1, SendAllTypes
  <2>5. CASE s \in Ticks /\ mightSleep[s] /\ LeftBehind(s, next, 1) # {}
    <3>1. /\ pc' = [pc EXCEPT ![s] = "wake"] /\ req' = req \cup {s}
          /\ slot' = [slot EXCEPT ![s] = 1]
          /\ UNCHANGED <<sendCopy, recvCopy, copied>>
      BY <1>0, <2>1, <2>5 DEF Call, LeftBehind
    <3> QED BY <1>0, <2>1, <2>2, <2>3, <2>4, <2>5, <3>1 DEF brokerVars
  <2>6. CASE ~(s \in Ticks /\ mightSleep[s] /\ LeftBehind(s, next, 1) # {})
    <3>1. /\ pc' = [pc EXCEPT ![s] = "sr"] /\ req' = req \cup {s}
          /\ sendCopy' = [sendCopy EXCEPT ![s] = sendCount'[s]]
          /\ recvCopy' = [recvCopy EXCEPT ![s] = receiveCount[s]]
          /\ copied' = copied \cup Received(s) /\ slot' = slot
      BY <2>1, <2>6 DEF RequestDiff, Call
    <3> QED BY <1>0, <2>1, <2>2, <2>3, <2>4, <3>1 DEF brokerVars
  <2> QED BY <2>5, <2>6
<1>4. CASE WakeDone(s)
  <2>1. s \in Ticks /\ pc[s] = "wake" /\ rep' = [rep EXCEPT ![s] = None] /\ slot[s] >= 1
    BY <1>4 DEF WakeDone, TakeReply
  <2>2. LeftBehind(s, asked[s], slot[s] + 1) = {}
    BY <1>0, <2>1 DEF LeftBehind
  <2>3. PICK A \in SUBSET Arrived(s) : TakeAll(s, A)
    BY <1>4, <2>2 DEF WakeDone
  <2>4. /\ slot' = [slot EXCEPT ![s] = 0]
        /\ mightSleep' = [mightSleep EXCEPT ![s] = FALSE]
        /\ UNCHANGED <<cur, granted, asked, base, est, respond, busy, sendCount,
                 packets, brokerVars, mtime, now, sentIn, recvIn, even,
                 otherTimes, agreed, asleep, nextTimes>>
    BY <1>4, <2>2 DEF WakeDone, Awoken
  <2>5. /\ loc' \in [Msgs -> Locs] /\ copied' \subseteq Msgs
        /\ receiveCount' \in [Sims -> Nat]
        /\ sendCopy' = [sendCopy EXCEPT ![s] = sendCount[s]]
        /\ recvCopy' = [recvCopy EXCEPT ![s] = receiveCount[s]]
        /\ pc' = [pc EXCEPT ![s] = "sr"] /\ req' = req \cup {s}
        /\ \A t \in Sims : t # s => receiveCount'[t] = receiveCount[t]
        /\ \A t \in Sims : receiveCount[t] <= receiveCount'[t]
    BY <2>1, <2>3, TakeAllTypes
  <2>6. CopyBound'
    BY <1>0, <2>4, <2>5
  <2>7. sendCopy' \in [Sims -> Nat] /\ recvCopy' \in [Sims -> Nat] /\ req' \subseteq Sims
    BY <2>4, <2>5
  <2>8. SleepTypes'
    BY <1>0, <2>1, <2>3, <2>4, <2>5 DEF brokerVars
  <2> HIDE DEF SleepTypes
  <2> QED BY <1>0, <2>1, <2>3, <2>4, <2>5, <2>6, <2>7, <2>8 DEF brokerVars
<1>5. CASE RestDone(s)
  <2>1. s \in Ticks /\ pc[s] = "rest" /\ rep' = [rep EXCEPT ![s] = None]
    BY <1>5 DEF RestDone, TakeReply
  <2>2. PICK A \in SUBSET Arrived(s) : /\ TakeAll(s, A)
                                       /\ respond' = [respond EXCEPT ![s] = @ \/ A # {}]
    BY <1>5 DEF RestDone
  <2>3. /\ mightSleep' = [mightSleep EXCEPT ![s] = FALSE]
        /\ UNCHANGED <<cur, granted, asked, base, est, busy, sendCount, packets,
                 brokerVars, mtime, now, sentIn, recvIn, even, otherTimes,
                 slot, agreed, asleep, nextTimes>>
    BY <1>5 DEF RestDone, Awoken
  <2>4. respond' \in [Sims -> BOOLEAN]
    BY <2>2
  <2>5. /\ loc' \in [Msgs -> Locs] /\ copied' \subseteq Msgs
        /\ receiveCount' \in [Sims -> Nat]
        /\ sendCopy' = [sendCopy EXCEPT ![s] = sendCount[s]]
        /\ recvCopy' = [recvCopy EXCEPT ![s] = receiveCount[s]]
        /\ pc' = [pc EXCEPT ![s] = "sr"] /\ req' = req \cup {s}
        /\ \A t \in Sims : t # s => receiveCount'[t] = receiveCount[t]
        /\ \A t \in Sims : receiveCount[t] <= receiveCount'[t]
    BY <2>1, <2>2, TakeAllTypes
  <2>6. CopyBound'
    BY <1>0, <2>3, <2>5
  <2>7. sendCopy' \in [Sims -> Nat] /\ recvCopy' \in [Sims -> Nat] /\ req' \subseteq Sims
    BY <2>3, <2>5
  <2>8. SleepTypes'
    BY <1>0, <2>1, <2>2, <2>3, <2>4, <2>5 DEF brokerVars
  <2> HIDE DEF SleepTypes
  <2> QED BY <1>0, <2>1, <2>2, <2>3, <2>4, <2>5, <2>6, <2>7, <2>8 DEF brokerVars
<1>6. CASE SleepingTickDiff(s)
  <2>1. /\ s \in Ticks /\ pc[s] = "sr" /\ pc' = [pc EXCEPT ![s] = "delay"]
        /\ req' = req \cup {s} /\ rep' = [rep EXCEPT ![s] = None]
        /\ sendCount' = [sendCount EXCEPT ![s] = @ - sendCopy[s]]
        /\ receiveCount' = [receiveCount EXCEPT ![s] = @ - recvCopy[s]]
        /\ est' = [est EXCEPT ![s] = IF Stable(s) THEN asked[s] ELSE OneStepOn(s)]
        /\ respond' = [respond EXCEPT ![s] = ~Stable(s)]
        /\ even' = [even EXCEPT ![s] = rep[s] = 0]
        /\ otherTimes' = IF respond'[s] /\ mightSleep[s]
                         THEN [otherTimes EXCEPT ![s][1] = 0] ELSE otherTimes
        /\ UNCHANGED <<cur, granted, asked, base, busy, sendCopy, recvCopy, packets,
                       brokerVars, msgVars, histVars, mightSleep, slot, agreed, asleep,
                       nextTimes>>
    BY <1>6 DEF SleepingTickDiff, TickDiff, TakeReply, Call, Subtract
  <2>2. OneStepOn(s) \in Nat /\ asked[s] \in Nat
    <3>1. base[s] \in Nat /\ Step[s] \in Nat /\ asked[s] \in Nat
      BY <1>0, <2>1, TimeAssumption
    <3> QED BY <3>1 DEF OneStepOn
  <2>3. est' \in [Sims -> Nat]
    BY <2>1, <2>2
  <2>4. otherTimes' \in [Ticks -> [Slots -> Nat]]
    BY <1>0, <2>1
  <2>5. respond' \in [Sims -> BOOLEAN] /\ even' \in [Ticks -> BOOLEAN]
    BY <2>1
  <2>6. /\ receiveCount' \in [Sims -> Nat] /\ sendCount' \in [Sims -> Nat]
        /\ \A t \in Sims : t # s =>
             receiveCount'[t] = receiveCount[t] /\ sendCount'[t] = sendCount[t]
    BY <1>0, <2>1
  <2> QED BY <1>0, <2>1, <2>3, <2>4, <2>5, <2>6
          DEF brokerVars, msgVars, histVars, countVars
<1>7. CASE SleepingDelayDone(s)
  <2>1. /\ pc[s] = "delay" /\ pc' = [pc EXCEPT ![s] = "min"]
        /\ req' = req \cup {s} /\ rep' = [rep EXCEPT ![s] = None]
        /\ sendCount' = [sendCount EXCEPT ![s] = IF Settled(s) THEN 0 ELSE @]
        /\ receiveCount' = [receiveCount EXCEPT ![s] = IF Settled(s) THEN 0 ELSE @]
        /\ UNCHANGED <<cur, granted, asked, base, est, respond, busy, sendCopy,
                    recvCopy, packets, brokerVars, msgVars, histVars, sleepVars>>
    BY <1>7 DEF SleepingDelayDone, TakeReply, Call
  <2>2. /\ receiveCount' \in [Sims -> Nat] /\ sendCount' \in [Sims -> Nat]
        /\ \A t \in Sims : t # s =>
             receiveCount'[t] = receiveCount[t] /\ sendCount'[t] = sendCount[t]
    BY <2>1
  <2> QED BY <1>0, <2>1, <2>2
          DEF brokerVars, msgVars, histVars, countVars, sleepVars, tickVars
<1>8. CASE SleepingMinDone(s)
  <2>1. /\ s \in Ticks /\ pc[s] = "min" /\ rep[s] \in Nat
        /\ rep' = [rep EXCEPT ![s] = None]
        /\ UNCHANGED <<asked, est, respond, commVars, brokerVars, msgVars, histVars,
                       even, mightSleep, otherTimes, slot, asleep, nextTimes>>
    BY <1>0, <1>8 DEF SleepingMinDone, TakeReply
  <2>2. CASE ~mightSleep[s] /\ even[s]
    <3>1. /\ agreed' = [agreed EXCEPT ![s] = rep[s]]
          /\ pc' = [pc EXCEPT ![s] = "gather"] /\ req' = req \cup {s}
          /\ UNCHANGED <<base, busy, granted, cur>>
      BY <1>8, <2>2 DEF SleepingMinDone, Call
    <3> QED BY <1>0, <2>1, <3>1
            DEF commVars, brokerVars, msgVars, histVars, countVars
  <2>3. CASE ~(~mightSleep[s] /\ even[s])
    <3>1. Proceed(s, rep[s]) /\ agreed' = agreed
      BY <1>8, <2>3 DEF SleepingMinDone
    <3> QED BY <2>1, <3>1, ProceedTypes DEF msgVars
  <2> QED BY <2>2, <2>3
<1>9. CASE GatherDone(s)
  <2>1. /\ s \in Ticks /\ pc[s] = "gather" /\ rep' = [rep EXCEPT ![s] = None]
        /\ rep[s] \in Lists
        /\ UNCHANGED <<asked, est, respond, commVars, brokerVars, msgVars, histVars,
                       even, slot, asleep, nextTimes>>
        /\ mightSleep' = [mightSleep EXCEPT ![s] = TRUE]
        /\ agreed' = [agreed EXCEPT ![s] = 0] /\ Proceed(s, agreed[s])
        /\ otherTimes' = [otherTimes EXCEPT ![s] =
                      [j \in Slots |-> IF j <= Len(rep[s]) THEN rep[s][j] ELSE @[j]]]
    BY <1>0, <1>9 DEF GatherDone, TakeReply
  <2>3. otherTimes' \in [Ticks -> [Slots -> Nat]]
    <3>1. rep[s] = <<>> \/ \E t \in Nat : rep[s] = <<t>>
      BY <2>1 DEF Lists
    <3>2. \A j \in Slots :
            (IF j <= Len(rep[s]) THEN rep[s][j] ELSE otherTimes[s][j]) \in Nat
      BY <1>0, <2>1, <3>1
    <3> QED BY <2>1, <3>2
  <2>4. mightSleep' \in [Ticks -> BOOLEAN] /\ agreed' \in [Ticks -> Nat]
        /\ agreed[s] \in Nat
    BY <2>1
  <2> QED BY <2>1, <2>3, <2>4, ProceedTypes DEF msgVars
<1> QED BY <1>1, <1>2, <1>3, <1>4, <1>5, <1>6, <1>7, <1>8, <1>9 DEF SleepingClientStep

LEMMA NetTypes ==
  ASSUME Pair, AllTypes, SleepingNetStep
  PROVE  AllTypes'
<1> USE DEF AllTypes, SleepTypes, CommTypes, CopyBound, Places, InApp, Waiting, NoneOr
<1>0. NetSim \in Sims /\ Ticks \subseteq Sims /\ NetSim \notin Ticks /\ None \notin Nat
      /\ Infinity \in Nat
  BY NetApart, TimeAssumption
<1>1. CASE NetReset /\ UNCHANGED sleepVars
  BY <1>0, <1>1 DEF NetReset, TakeReply, Call, brokerVars, msgVars, histVars, countVars,
                    sleepVars, tickVars
<1>2. CASE NetDiff /\ UNCHANGED sleepVars
  <2> DEFINE lost == IF rep[NetSim] > 0 THEN LostPackets ELSE {}
  <2>1. lost \subseteq Msgs /\ Cardinality(lost) \in Nat
    BY MsgsCard DEF LostPackets
  <2>2. /\ sendCount' = Subtract(sendCount, sendCopy, NetSim)
        /\ receiveCount' = [receiveCount EXCEPT
                              ![NetSim] = @ - recvCopy[NetSim] + Cardinality(lost)]
        /\ packets' = packets \ lost
        /\ pc[NetSim] = "sr" /\ pc' = [pc EXCEPT ![NetSim] = "delay"]
        /\ req' = req \cup {NetSim} /\ rep' = [rep EXCEPT ![NetSim] = None]
        /\ est' = [est EXCEPT ![NetSim] = Infinity]
        /\ UNCHANGED <<cur, granted, asked, base, respond, busy, sendCopy, recvCopy,
                       brokerVars, msgVars, histVars, sleepVars>>
    BY <1>2 DEF NetDiff, TakeReply, Call
  <2> HIDE DEF lost
  <2>3. /\ receiveCount' \in [Sims -> Nat] /\ sendCount' \in [Sims -> Nat]
        /\ \A t \in Sims : t # NetSim =>
             receiveCount'[t] = receiveCount[t] /\ sendCount'[t] = sendCount[t]
    BY <1>0, <2>1, <2>2 DEF Subtract
  <2> QED BY <1>0, <2>1, <2>2, <2>3
          DEF brokerVars, msgVars, histVars, countVars, sleepVars, tickVars
<1>3. CASE SleepingNetGranted
  <2>1. FloorTo(NetSim, Infinity) \in Nat
    BY <1>0, FloorType
  <2>2. \A t \in Nat : FloorTo(NetSim, t) \in Nat
    BY <1>0, FloorType
  <2>3. CASE NetGranted
    <3>1. rep[NetSim] \in Nat /\ FloorTo(NetSim, rep[NetSim]) \in Nat
      BY <1>0, <2>2, <2>3 DEF NetGranted, TakeReply
    <3> QED BY <1>0, <1>3, <2>3, <3>1
            DEF SleepingNetGranted, NetGranted, TakeReply, commVars, brokerVars, msgVars,
                histVars, countVars, sleepVars, tickVars
  <2>4. CASE NetEnded
    BY <1>0, <1>3, <2>1, <2>4
    DEF SleepingNetGranted, NetEnded, TakeReply, commVars, brokerVars, msgVars,
        histVars, countVars, sleepVars, tickVars
  <2> QED BY <1>3, <2>3, <2>4 DEF SleepingNetGranted
<1> QED BY <1>1, <1>2, <1>3 DEF SleepingNetStep, SleepingNetDiff

\* Steps of the broker, which may reply, count and forget.
LEMMA ServedTypes ==
  ASSUME AllTypes,
         UNCHANGED <<simVars, commVars, loc, copied, tickVars>>,
         req' \subseteq req, barrier' \subseteq Sims, reduceSent' \subseteq Sims,
         sentTotal' \in Nat, recvTotal' \in Nat, sentIn' \subseteq Msgs,
         recvIn' \subseteq Msgs, reduceMin' \in [Sims -> NoneOr(Nat)],
         now' \in Nat, asleep' \subseteq Ticks, nextTimes' \in [Ticks -> NoneOr(Nat)],
         rep' \in [Sims -> NoneOr(Nat) \cup Lists],
         \A t \in Sims : rep'[t] = rep[t] \/ rep'[t] \in IF pc[t] = "gather" THEN Lists
                                                      ELSE Nat
  PROVE  AllTypes'
<1>1. /\ UNCHANGED <<pc, cur, granted, asked, base, est, respond, busy, sendCount,
                     receiveCount, sendCopy, recvCopy, packets, even, mightSleep,
                     otherTimes, slot, agreed>>
  BY DEF simVars, commVars, tickVars
<1>2. CommTypes'
  BY <1>1 DEF AllTypes, CommTypes, CopyBound
<1>3. SleepTypes'
  BY <1>1 DEF AllTypes, SleepTypes, NoneOr
<1> QED BY <1>2, <1>3 DEF AllTypes

LEMMA ReplyTypes ==
  ASSUME AllTypes, NEW S \in SUBSET Sims, NEW v \in Nat, ReplyTo(S, v),
         \A t \in S : pc[t] # "gather"
  PROVE  /\ rep' \in [Sims -> NoneOr(Nat) \cup Lists]
         /\ \A t \in Sims : rep'[t] = rep[t] \/ rep'[t] \in IF pc[t] = "gather" THEN Lists
                                                      ELSE Nat
<1>1. rep' = [t \in Sims |-> IF t \in S THEN v ELSE rep[t]]
  BY DEF ReplyTo
<1>2. \A t \in Sims : rep[t] \in NoneOr(Nat) \cup Lists
  BY DEF AllTypes, SleepTypes
<1> QED BY <1>1, <1>2 DEF NoneOr

LEMMA BrokerTypes ==
  ASSUME Pair, SleepInv, NEW s \in Sims, SleepingBrokerStep(s)
  PROVE  AllTypes'
<1>0. AllTypes /\ Awake \subseteq Sims /\ Ticks \subseteq Sims /\ NetSim \in Sims
  BY NetApart DEF SleepInv, AllTypes, Awake
<1>1. /\ \A t \in Sims : rep[t] \in NoneOr(Nat) \cup Lists
      /\ rep \in [Sims -> NoneOr(Nat) \cup Lists]
      /\ barrier \subseteq Sims /\ reduceSent \subseteq Sims /\ now \in Nat
      /\ reduceMin \in [Sims -> NoneOr(Nat)] /\ nextTimes \in [Ticks -> NoneOr(Nat)]
      /\ asleep \subseteq Ticks /\ est \in [Sims -> Nat]
      /\ sentTotal \in Nat /\ recvTotal \in Nat /\ req \subseteq Sims
      /\ sentIn \subseteq Msgs /\ recvIn \subseteq Msgs /\ copied \subseteq Msgs
      /\ sendCopy \in [Sims -> Nat] /\ recvCopy \in [Sims -> Nat]
  BY <1>0 DEF AllTypes, SleepTypes, CommTypes
<1>2. \A S \in SUBSET Sims : Ack \in Nat
  BY DEF Ack
<1>3. CASE SleepingBarrier(s)
  <2>1. /\ req' = req \ {s}
        /\ UNCHANGED <<simVars, commVars, reduceSent, sentTotal, recvTotal,
                       reduceMin, msgVars, histVars, sleepVars>>
    BY <1>3 DEF SleepingBarrier, Serve
  <2>2. /\ barrier' \subseteq Sims
        /\ rep' = rep \/ (ReplyTo(Awake, Ack) /\ \A t \in Awake : pc[t] = "barrier")
    BY <1>1, <1>3, BarrierGathers
  <2>3. /\ rep' \in [Sims -> NoneOr(Nat) \cup Lists]
        /\ \A t \in Sims : rep'[t] = rep[t] \/ rep'[t] \in IF pc[t] = "gather" THEN Lists
                                                      ELSE Nat
    BY <1>0, <1>1, <1>2, <2>2, ReplyTypes
  <2> QED BY <1>0, <1>1, <2>1, <2>2, <2>3, ServedTypes
          DEF msgVars, histVars, countVars, sleepVars
<1>4. CASE SleepingSendRecv(s)
  <2>1. /\ req' = req \ {s} /\ sentIn' = sentIn \cup Sent(s)
        /\ recvIn' = recvIn \cup (copied \cap Received(s))
        /\ UNCHANGED <<simVars, commVars, barrier, reduceMin, msgVars, now,
                       copied, sleepVars>>
    BY <1>4 DEF SleepingSendRecv, Serve
  <2>2. /\ sentTotal' \in Nat /\ recvTotal' \in Nat /\ reduceSent' \subseteq Sims
        /\ sentIn' \subseteq Msgs /\ recvIn' \subseteq Msgs
    <3>1. Sent(s) \subseteq Msgs
      BY DEF Sent
    <3> QED BY <1>1, <1>4, <2>1, <3>1, SendRecvGathers
  <2>3. rep' = rep \/ (/\ ReplyTo(Awake, sentTotal' - recvTotal')
                       /\ sentTotal' - recvTotal' \in Nat
                       /\ \A t \in Awake : pc[t] = "sr")
    BY <1>4, <2>2, SendRecvGathers DEF Impossible
  <2>4. /\ rep' \in [Sims -> NoneOr(Nat) \cup Lists]
        /\ \A t \in Sims : rep'[t] = rep[t] \/ rep'[t] \in IF pc[t] = "gather" THEN Lists
                                                      ELSE Nat
    BY <1>0, <1>1, <2>3, ReplyTypes
  <2> QED BY <1>0, <1>1, <2>1, <2>2, <2>4, ServedTypes DEF msgVars, sleepVars
<1>5. CASE SleepingReduceMin(s)
  <2>1. /\ req' = req \ {s}
        /\ UNCHANGED <<simVars, commVars, barrier, reduceSent, sentTotal, recvTotal,
                       msgVars, countVars, sleepVars>>
    BY <1>5 DEF SleepingReduceMin, Serve
  <2>2. Proposal(s) \in Nat
    BY <1>1, TimeAssumption DEF Proposal
  <2>3. /\ reduceMin' \in [Sims -> NoneOr(Nat)]
        /\ now' \in Nat
        /\ rep' = rep \/ \E v \in Nat : ReplyTo(Awake, v) /\ \A t \in Awake : pc[t] # "gather"
    BY <1>1, <1>5, <2>2, MinGathers DEF NoneOr
  <2>4. /\ rep' \in [Sims -> NoneOr(Nat) \cup Lists]
        /\ \A t \in Sims : rep'[t] = rep[t] \/ rep'[t] \in IF pc[t] = "gather" THEN Lists
                                                      ELSE Nat
    BY <1>0, <1>1, <2>3, ReplyTypes
  <2> QED BY <1>0, <1>1, <2>1, <2>3, <2>4, ServedTypes DEF msgVars, countVars, sleepVars
<1>6. CASE AllGather(s)
  <2>1. /\ req' = req \ {s}
        /\ UNCHANGED <<simVars, commVars, barrier, reduceSent, sentTotal, recvTotal,
                       reduceMin, msgVars, histVars, tickVars, asleep>>
    BY <1>6 DEF AllGather, Serve
  <2>2. nextTimes' \in [Ticks -> NoneOr(Nat)]
    BY <1>0, <1>1, <1>6, GatherGathers DEF NoneOr
  <2>3. /\ rep' \in [Sims -> NoneOr(Nat) \cup Lists]
        /\ \A t \in Sims : rep'[t] = rep[t] \/ rep'[t] \in IF pc[t] = "gather" THEN Lists
                                                      ELSE Nat
    <3>1. \A t \in Ticks : Listed(Other(t)) \in Lists
      BY <1>0, <1>1, Pairing DEF Mates, Listed, Lists
    <3>2. CASE rep' = rep
      BY <1>1, <3>2
    <3>3. CASE /\ \A t \in Ticks : Asks(t)
               /\ rep' = [t \in Sims |-> IF t \in Ticks THEN Listed(Other(t)) ELSE rep[t]]
      BY <1>1, <3>1, <3>3, NetApart DEF Asks, Sims
    <3> QED BY <1>6, <3>2, <3>3, GatherGathers
  <2> QED BY <1>0, <1>1, <2>1, <2>2, <2>3, ServedTypes DEF msgVars, histVars, countVars
<1>7. CASE SleepHandler(s)
  <2>1. /\ req' = req \ {s}
        /\ UNCHANGED <<simVars, commVars, sentTotal, recvTotal, msgVars, countVars,
                       tickVars, nextTimes>>
    BY <1>7 DEF SleepHandler, Serve
  <2>2. /\ asleep' \subseteq Ticks /\ barrier' \subseteq Sims
        /\ UNCHANGED <<reduceSent, reduceMin, now>>
    BY <1>1, <1>7, SleepGathers
  <2>3. \/ rep' = rep
        \/ ReplyTo(Ticks, Ack) /\ \A t \in Ticks : pc[t] # "gather"
        \/ /\ ReplyTo({Other(s), NetSim}, Ack) /\ {Other(s), NetSim} \subseteq Sims
           /\ \A t \in {Other(s), NetSim} : pc[t] # "gather"
    <3>1. s \in Ticks /\ Mates(s, Other(s)) /\ RequestOf(Other(s))
      BY <1>7, SleepGathers, BothOf DEF SleepInv
    <3>2. CASE asleep = {Other(s)} /\ ReplyTo(Ticks, Ack)
      BY <1>7, <3>1, <3>2, SleepGathers DEF Mates, RequestOf, Out, Wakes
    <3>3. {Other(s), NetSim} \subseteq Sims
      BY <1>0, <3>1 DEF Mates
    <3> QED BY <1>7, <3>2, <3>3, SleepGathers
  <2>4. /\ rep' \in [Sims -> NoneOr(Nat) \cup Lists]
        /\ \A t \in Sims : rep'[t] = rep[t] \/ rep'[t] \in IF pc[t] = "gather" THEN Lists
                                                      ELSE Nat
    BY SMTT(30), <1>0, <1>1, <1>2, <2>3, ReplyTypes
  <2> QED BY <1>0, <1>1, <2>1, <2>2, <2>4, ServedTypes DEF msgVars, countVars
<1> QED BY <1>3, <1>4, <1>5, <1>6, <1>7 DEF SleepingBrokerStep

LEMMA CarryTypes ==
  ASSUME AllTypes, NEW m \in Msgs, SleepingCarry(m)
  PROVE  AllTypes'
<1>1. To[m] \in Sims /\ receiveCount[To[m]] \in Nat
  BY NetApart, SimsAssumption DEF AllTypes, CommTypes
<1>2. /\ UNCHANGED <<simVars, brokerVars, req, rep, histVars, sleepVars>>
      /\ UNCHANGED <<sendCount, sendCopy, recvCopy>>
  BY DEF SleepingCarry, Carry, TickReceive, NetReceive, DelayHandler, RouteHandler,
         commVars
<1>3. /\ \E l \in Locs : loc' = [loc EXCEPT ![m] = l]
      /\ packets' = packets \/ packets' = packets \cup {m}
      /\ \/ receiveCount' = receiveCount
         \/ receiveCount' = [receiveCount EXCEPT ![To[m]] = @ + 1]
  <2>1. CASE TickReceive(m)
    <3>1. CASE mtime[m] < GraceTime(cur[To[m]])
      BY <1>1, <2>1, <3>1 DEF TickReceive, Locs, AllTypes, CommTypes
    <3>2. CASE ~(mtime[m] < GraceTime(cur[To[m]]))
      BY <1>1, <2>1, <3>2 DEF TickReceive, Locs
    <3> QED BY <3>1, <3>2
  <2>2. CASE NetReceive(m)
    BY <2>2 DEF NetReceive, Locs
  <2>3. CASE DelayHandler(m) \/ RouteHandler(m)
    BY <2>3 DEF DelayHandler, RouteHandler, commVars, Locs
  <2> QED BY <2>1, <2>2, <2>3 DEF SleepingCarry, Carry
<1>4. /\ loc' \in [Msgs -> Locs] /\ packets' \subseteq Msgs
      /\ receiveCount' \in [Sims -> Nat] /\ \A t \in Sims : receiveCount[t] <= receiveCount'[t]
  BY <1>1, <1>3 DEF AllTypes, CommTypes
<1> QED BY <1>2, <1>4 DEF AllTypes, SleepTypes, CommTypes, CopyBound, simVars, brokerVars,
                          histVars, countVars, sleepVars, tickVars

LEMMA SleepTypesNext ==
  ASSUME Pair, SleepInv, [SleepingNext]_sleepingVars
  PROVE  AllTypes'
<1>1. AllTypes
  BY DEF SleepInv, AllTypes
<1>2. CASE UNCHANGED sleepingVars
  BY <1>1, <1>2
  DEF AllTypes, SleepTypes, CommTypes, CopyBound, sleepingVars, vars, simVars, commVars,
      brokerVars, msgVars, histVars, countVars, sleepVars, tickVars
<1> QED BY <1>1, <1>2, ClientTypes, NetTypes, BrokerTypes, CarryTypes DEF SleepingNext

-----------------------------------------------------------------------------
(* Steps of one simulator.                                                 *)

\* The variables of t itself do not change.
Same(t) ==
  /\ pc'[t] = pc[t] /\ cur'[t] = cur[t] /\ asked'[t] = asked[t] /\ base'[t] = base[t]
  /\ est'[t] = est[t] /\ respond'[t] = respond[t] /\ busy'[t] = busy[t]
  /\ t \in Ticks => /\ even'[t] = even[t] /\ mightSleep'[t] = mightSleep[t]
                    /\ otherTimes'[t] = otherTimes[t] /\ agreed'[t] = agreed[t]

\* The step is not about t.
Still(t) == Same(t) /\ rep'[t] = rep[t]

\* s goes on from its own code or with an answer.
Moves(s) ==
  /\ UNCHANGED <<brokerVars, now, asleep, nextTimes>>
  /\ \A t \in Sims \ {s} : Still(t) /\ (t \in req' <=> t \in req)
  /\ pc[s] \in {"idle", "work"} \/ rep[s] # None
  /\ rep'[s] = None
  /\ pc'[s] \in InApp => s \notin req'
  /\ s \in Ticks => pc'[s] # "finished"
  /\ Stage(s)' = Stage(s)

LEMMA GetNextIs ==
  ASSUME Pair, SleepInv, NEW s \in Sims, SleepingGetNextTime(s)
  PROVE  \E M \in SUBSET Outbox(s), next \in AskedTimes(s) :
    /\ pc[s] = "work" /\ next > cur[s] /\ SendAll(s, M)
    /\ asked' = [asked EXCEPT ![s] = next] /\ base' = [base EXCEPT ![s] = cur[s]]
    /\ respond' = [respond EXCEPT ![s] = FALSE] /\ busy' = [busy EXCEPT ![s] = FALSE]
    /\ UNCHANGED <<cur, granted, est, receiveCount, brokerVars, rep, now,
                   sentIn, recvIn, even, mightSleep, otherTimes, agreed, asleep,
                   nextTimes>>
    /\ req' = req \cup {s}
    /\ \/ /\ s \in Ticks /\ mightSleep[s] /\ next >= otherTimes[s][1]
          /\ pc' = [pc EXCEPT ![s] = "wake"]
          /\ UNCHANGED <<sendCopy, recvCopy, copied>>
       \/ /\ s \in Ticks /\ mightSleep[s] => next < otherTimes[s][1]
          /\ pc' = [pc EXCEPT ![s] = "sr"] /\ RequestDiff(s, sendCount'[s])
<1>1. PICK M \in SUBSET Outbox(s), next \in AskedTimes(s) :
        /\ next > cur[s] /\ SendAll(s, M)
        /\ asked' = [asked EXCEPT ![s] = next]
        /\ IF s \in Ticks /\ mightSleep[s] /\ LeftBehind(s, next, 1) # {}
           THEN /\ Call(s, "wake") /\ UNCHANGED <<sendCopy, recvCopy, copied>>
           ELSE RequestDiff(s, sendCount'[s])
  BY DEF SleepingGetNextTime
<1>2. Slots = {1} /\ next \in Nat
  BY OneSlot, AskedTypes DEF SleepInv
<1>3. s \in Ticks => (LeftBehind(s, next, 1) # {} <=> next >= otherTimes[s][1])
  BY <1>2 DEF LeftBehind
<1>4. /\ pc[s] = "work" /\ base' = [base EXCEPT ![s] = cur[s]]
      /\ respond' = [respond EXCEPT ![s] = FALSE] /\ busy' = [busy EXCEPT ![s] = FALSE]
      /\ UNCHANGED <<cur, granted, est, receiveCount, brokerVars, rep, now,
                     sentIn, recvIn, even, mightSleep, otherTimes, agreed, asleep,
                     nextTimes>>
  BY DEF SleepingGetNextTime
<1>5. CASE s \in Ticks /\ mightSleep[s] /\ LeftBehind(s, next, 1) # {}
  BY <1>1, <1>3, <1>4, <1>5 DEF Call
<1>6. CASE ~(s \in Ticks /\ mightSleep[s] /\ LeftBehind(s, next, 1) # {})
  <2>1. s \in Ticks => otherTimes[s][1] \in Nat
    BY <1>2 DEF SleepInv, SleepTypes
  <2>2. s \in Ticks /\ mightSleep[s] => next < otherTimes[s][1]
    BY <1>2, <1>3, <1>6, <2>1
  <2>3. /\ pc' = [pc EXCEPT ![s] = "sr"] /\ req' = req \cup {s}
        /\ RequestDiff(s, sendCount'[s])
    BY <1>1, <1>6 DEF RequestDiff, Call
  <2> QED BY <1>1, <1>4, <2>2, <2>3
<1> QED BY <1>5, <1>6

LEMMA WakeIs ==
  ASSUME Pair, SleepInv, NEW s \in Sims, WakeDone(s)
  PROVE  /\ s \in Ticks /\ TakeReply(s, "wake")
         /\ \E A \in SUBSET Arrived(s) : TakeAll(s, A)
         /\ mightSleep' = [mightSleep EXCEPT ![s] = FALSE]
         /\ UNCHANGED <<cur, granted, asked, base, est, respond, busy, sendCount,
                        packets, brokerVars, mtime, now, sentIn, recvIn, even,
                        otherTimes, agreed, asleep, nextTimes>>
         /\ pc' = [pc EXCEPT ![s] = "sr"] /\ req' = req \cup {s}
<1>1. s \in Ticks /\ TakeReply(s, "wake") /\ slot[s] >= 1 /\ slot[s] \in Nat
  BY DEF WakeDone, TakeReply, SleepInv, SleepTypes
<1>2. LeftBehind(s, asked[s], slot[s] + 1) = {}
  BY <1>1, OneSlot DEF LeftBehind
<1>3. PICK A \in SUBSET Arrived(s) : TakeAll(s, A)
  BY <1>2 DEF WakeDone
<1> QED BY <1>1, <1>2, <1>3 DEF WakeDone, Awoken, TakeAll, RequestDiff, Call

LEMMA RestIs ==
  ASSUME Pair, SleepInv, NEW s \in Sims, RestDone(s)
  PROVE  /\ s \in Ticks /\ TakeReply(s, "rest")
         /\ \E A \in SUBSET Arrived(s) :
              TakeAll(s, A) /\ respond' = [respond EXCEPT ![s] = @ \/ A # {}]
         /\ \E b \in BOOLEAN : (respond[s] => b) /\ respond' = [respond EXCEPT ![s] = b]
         /\ mightSleep' = [mightSleep EXCEPT ![s] = FALSE]
         /\ UNCHANGED <<cur, granted, asked, base, est, busy, sendCount, packets,
                        brokerVars, mtime, now, sentIn, recvIn, even, otherTimes,
                        agreed, asleep, nextTimes>>
         /\ pc' = [pc EXCEPT ![s] = "sr"] /\ req' = req \cup {s}
<1>1. PICK A \in SUBSET Arrived(s) :
        TakeAll(s, A) /\ respond' = [respond EXCEPT ![s] = @ \/ A # {}]
  BY DEF RestDone
<1>2. \E b \in BOOLEAN : (respond[s] => b) /\ respond' = [respond EXCEPT ![s] = b]
  BY <1>1 DEF SleepInv, SleepTypes
<1> QED BY <1>1, <1>2 DEF RestDone, Awoken, TakeAll, RequestDiff, Call

LEMMA TickDiffIs ==
  ASSUME SleepInv, NEW s \in Sims, SleepingTickDiff(s)
  PROVE  /\ s \in Ticks /\ TakeReply(s, "sr")
         /\ est' = [est EXCEPT ![s] = IF Stable(s) THEN asked[s] ELSE OneStepOn(s)]
         /\ respond' = [respond EXCEPT ![s] = ~Stable(s)]
         /\ even' = [even EXCEPT ![s] = rep[s] = 0]
         /\ pc' = [pc EXCEPT ![s] = "delay"] /\ req' = req \cup {s}
         /\ \/ ~(~Stable(s) /\ mightSleep[s]) /\ otherTimes' = otherTimes
            \/ /\ ~Stable(s) /\ mightSleep[s]
               /\ otherTimes' = [otherTimes EXCEPT ![s][1] = 0]
         /\ UNCHANGED <<cur, granted, asked, base, busy, sendCopy, recvCopy, packets,
                        brokerVars, msgVars, histVars, mightSleep, slot, agreed, asleep,
                        nextTimes>>
<1>1. /\ s \in Ticks /\ TakeReply(s, "sr")
      /\ est' = [est EXCEPT ![s] = IF Stable(s) THEN asked[s] ELSE OneStepOn(s)]
      /\ respond' = [respond EXCEPT ![s] = ~Stable(s)]
      /\ even' = [even EXCEPT ![s] = rep[s] = 0]
      /\ pc' = [pc EXCEPT ![s] = "delay"] /\ req' = req \cup {s}
      /\ otherTimes' = IF respond'[s] /\ mightSleep[s]
                       THEN [otherTimes EXCEPT ![s][1] = 0] ELSE otherTimes
      /\ UNCHANGED <<cur, granted, asked, base, busy, sendCopy, recvCopy, packets,
                     brokerVars, msgVars, histVars, mightSleep, slot, agreed, asleep,
                     nextTimes>>
  BY DEF SleepingTickDiff, TickDiff, Call
<1>2. respond'[s] = ~Stable(s)
  BY <1>1 DEF SleepInv, SleepTypes
<1> HIDE DEF Stable
<1> QED BY <1>1, <1>2

LEMMA ClientMoves ==
  ASSUME Pair, SleepInv, NEW s \in Sims, SleepingClientStep(s)
  PROVE  Moves(s)
<1>0. /\ \A t \in Sims : RequestOf(t)
      /\ RequestOf(s) /\ s \in Sims /\ None \notin Nat
      /\ pc \in [Sims -> Places] /\ cur \in [Sims -> Nat] /\ asked \in [Sims -> Nat]
      /\ base \in [Sims -> Nat] /\ est \in [Sims -> Nat]
      /\ respond \in [Sims -> BOOLEAN] /\ busy \in [Sims -> BOOLEAN]
      /\ rep \in [Sims -> NoneOr(Nat) \cup Lists]
      /\ even \in [Ticks -> BOOLEAN] /\ mightSleep \in [Ticks -> BOOLEAN]
      /\ otherTimes \in [Ticks -> [Slots -> Nat]] /\ agreed \in [Ticks -> Nat]
  BY TimeAssumption DEF SleepInv, ControlInv, SleepTypes
<1>1. CASE SleepingStepStart(s)
  <2>1. /\ pc[s] = "idle" /\ pc' = [pc EXCEPT ![s] = "barrier"] /\ req' = req \cup {s}
        /\ UNCHANGED <<cur, granted, asked, base, est, respond, busy, receiveCount,
                 sendCopy, recvCopy, brokerVars, rep, histVars, sleepVars>>
    BY <1>1 DEF SleepingStepStart, StepStart, Call
  <2>2. rep[s] = None
    BY <1>0, <2>1 DEF RequestOf, InApp
  <2> QED BY <1>0, <2>1, <2>2
          DEF Moves, Still, Same, Stage, After, InApp, histVars, sleepVars, tickVars
<1>2. CASE SleepingBarrierDone(s)
  <2>1. /\ TakeReply(s, "barrier")
        /\ \/ pc' = [pc EXCEPT ![s] = "work"] /\ req' = req
           \/ pc' = [pc EXCEPT ![s] = "sr"] /\ req' = req \cup {s}
        /\ UNCHANGED <<cur, asked, base, est, respond, busy, brokerVars, now, sleepVars>>
    BY <1>2 DEF SleepingBarrierDone, BarrierDone, BusyBarrierDone, RequestDiff, Call, histVars
  <2>2. s \notin req
    BY <1>0, <2>1 DEF RequestOf, TakeReply
  <2> QED BY <1>0, <2>1, <2>2
          DEF Moves, Still, Same, Stage, After, InApp, TakeReply, sleepVars, tickVars
<1>3. CASE SleepingGetNextTime(s)
  <2>1. PICK next \in AskedTimes(s) :
          /\ pc[s] = "work"
          /\ asked' = [asked EXCEPT ![s] = next] /\ base' = [base EXCEPT ![s] = cur[s]]
          /\ respond' = [respond EXCEPT ![s] = FALSE] /\ busy' = [busy EXCEPT ![s] = FALSE]
          /\ UNCHANGED <<cur, granted, est, receiveCount, brokerVars, rep, now,
                         sentIn, recvIn, even, mightSleep, otherTimes, agreed, asleep,
                         nextTimes>>
          /\ req' = req \cup {s}
          /\ pc' = [pc EXCEPT ![s] = "wake"] \/ pc' = [pc EXCEPT ![s] = "sr"]
    BY <1>3, GetNextIs
  <2>2. rep[s] = None
    BY <1>0, <2>1 DEF RequestOf, InApp
  <2> QED BY <1>0, <2>1, <2>2 DEF Moves, Still, Same, Stage, After, InApp
<1>4. CASE WakeDone(s)
  BY <1>0, <1>4, WakeIs DEF Moves, Still, Same, Stage, After, InApp, TakeReply
<1>5. CASE RestDone(s)
  BY <1>0, <1>5, RestIs DEF Moves, Still, Same, Stage, After, InApp, TakeReply
<1>6. CASE SleepingTickDiff(s)
  <2>1. \A t \in Ticks \ {s} : otherTimes'[t] = otherTimes[t]
    BY <1>0, <1>6, TickDiffIs
  <2> QED BY <1>0, <1>6, <2>1, TickDiffIs
          DEF Moves, Still, Same, Stage, After, InApp, TakeReply, histVars
<1>7. CASE SleepingDelayDone(s)
  BY <1>0, <1>7
    DEF SleepingDelayDone, Call, Moves, Still, Same, Stage, After, InApp, TakeReply, histVars,
                    sleepVars, tickVars
<1>8. CASE SleepingMinDone(s)
  <2>1. /\ s \in Ticks /\ TakeReply(s, "min")
        /\ UNCHANGED <<asked, est, respond, brokerVars, now,
                 even, mightSleep, otherTimes, slot, asleep, nextTimes>>
        /\ \/ /\ agreed' = [agreed EXCEPT ![s] = rep[s]] /\ UNCHANGED <<base, busy, cur>>
              /\ pc' = [pc EXCEPT ![s] = "gather"] /\ req' = req \cup {s}
           \/ Proceed(s, rep[s]) /\ agreed' = agreed
    BY <1>8 DEF SleepingMinDone, Call, histVars
  <2>2. s \notin req
    BY <1>0, <2>1 DEF RequestOf, TakeReply
  <2>3. CASE Proceed(s, rep[s]) /\ agreed' = agreed
    BY <1>0, <2>1, <2>2, <2>3, ProceedIs
      DEF Sleeps, Repeats, Returns, Moves, Still, Same, Stage, After, InApp, TakeReply
  <2>4. CASE ~(Proceed(s, rep[s]) /\ agreed' = agreed)
    BY <1>0, <2>1, <2>4 DEF Moves, Still, Same, Stage, After, InApp, TakeReply
  <2> QED BY <2>3, <2>4
<1>9. CASE GatherDone(s)
  <2>1. /\ s \in Ticks /\ TakeReply(s, "gather")
        /\ UNCHANGED <<asked, est, respond, brokerVars, now, even, slot, asleep, nextTimes>>
        /\ mightSleep' = [mightSleep EXCEPT ![s] = TRUE]
        /\ agreed' = [agreed EXCEPT ![s] = 0] /\ Proceed(s, agreed[s])
        /\ \A t \in Ticks \ {s} : otherTimes'[t] = otherTimes[t]
    BY <1>0, <1>9 DEF GatherDone, histVars
  <2>2. s \notin req
    BY <1>0, <2>1 DEF RequestOf, TakeReply
  <2> QED BY <1>0, <2>1, <2>2, ProceedIs
          DEF Sleeps, Repeats, Returns, Moves, Still, Same, Stage, After, InApp, TakeReply
<1> QED BY <1>1, <1>2, <1>3, <1>4, <1>5, <1>6, <1>7, <1>8, <1>9 DEF SleepingClientStep

LEMMA NetMoves ==
  ASSUME SleepInv, SleepingNetStep
  PROVE  Moves(NetSim) /\ NetInv' /\ UNCHANGED <<sleepVars, brokerVars, now>>
<1>0. /\ RequestOf(NetSim) /\ NetSim \in Sims /\ None \notin Nat /\ NetSim \notin Ticks /\ NetInv
      /\ pc \in [Sims -> Places] /\ cur \in [Sims -> Nat] /\ asked \in [Sims -> Nat]
      /\ base \in [Sims -> Nat] /\ est \in [Sims -> Nat]
      /\ respond \in [Sims -> BOOLEAN] /\ busy \in [Sims -> BOOLEAN]
      /\ rep \in [Sims -> NoneOr(Nat) \cup Lists]
  BY NetApart, TimeAssumption DEF SleepInv, ControlInv, SleepTypes
<1>1. CASE SleepingNetDiff
  <2>1. /\ TakeReply(NetSim, "sr") /\ pc' = [pc EXCEPT ![NetSim] = "delay"]
        /\ req' = req \cup {NetSim} /\ est' = [est EXCEPT ![NetSim] = Infinity]
        /\ UNCHANGED <<cur, granted, asked, base, respond, busy, brokerVars, now, sleepVars>>
    BY <1>1 DEF SleepingNetDiff, NetReset, NetDiff, Call, histVars
  <2> QED BY <1>0, <2>1
          DEF Moves, Still, Same, Stage, After, InApp, TakeReply, NetInv, sleepVars, tickVars
<1>2. CASE SleepingNetGranted
  <2>1. /\ TakeReply(NetSim, "min")
        /\ pc' = [pc EXCEPT ![NetSim] = "idle"] \/ pc' = [pc EXCEPT ![NetSim] = "finished"]
        /\ \E c : cur' = [cur EXCEPT ![NetSim] = c]
        /\ UNCHANGED <<asked, base, est, respond, busy, brokerVars, req, now, sleepVars>>
    BY <1>2 DEF SleepingNetGranted, NetGranted, NetEnded, histVars
  <2>2. NetSim \notin req
    BY <1>0, <2>1 DEF RequestOf, TakeReply
  <2> QED BY <1>0, <2>1, <2>2
          DEF Moves, Still, Same, Stage, After, InApp, TakeReply, NetInv, sleepVars, tickVars
<1> QED BY <1>1, <1>2 DEF SleepingNetStep

\* What the invariant says of two simulators is about them, now and asleep.
LEMMA StillPair ==
  ASSUME NEW s \in Ticks, NEW o \in Ticks, PairOf(s, o), Still(s), Still(o),
         now' = now, asleep' = asleep
  PROVE  PairOf(s, o)'
<1>1. /\ pc'[s] = pc[s] /\ cur'[s] = cur[s] /\ asked'[s] = asked[s] /\ base'[s] = base[s]
      /\ est'[s] = est[s] /\ respond'[s] = respond[s] /\ busy'[s] = busy[s]
      /\ rep'[s] = rep[s] /\ even'[s] = even[s] /\ mightSleep'[s] = mightSleep[s]
      /\ otherTimes'[s] = otherTimes[s] /\ agreed'[s] = agreed[s]
      /\ pc'[o] = pc[o] /\ cur'[o] = cur[o] /\ asked'[o] = asked[o] /\ base'[o] = base[o]
      /\ est'[o] = est[o] /\ respond'[o] = respond[o] /\ busy'[o] = busy[o]
      /\ rep'[o] = rep[o] /\ even'[o] = even[o] /\ mightSleep'[o] = mightSleep[o]
      /\ otherTimes'[o] = otherTimes[o] /\ agreed'[o] = agreed[o]
  BY DEF Still, Same
<1>2. /\ Out(s)' = Out(s) /\ Wakes(s)' = Wakes(s) /\ Back(s)' = Back(s) /\ Told(s)' = Told(s)
      /\ Free(s)' = Free(s) /\ Waits(s)' = Waits(s) /\ Reduces(s)' = Reduces(s)
      /\ Asks(s)' = Asks(s) /\ Knows(s)' = Knows(s)
      /\ Verdict(s)' = Verdict(s) /\ Judges(s)' = Judges(s) /\ MustWake(s)' = MustWake(s)
      /\ Goes(s, o)' = Goes(s, o)
  BY <1>1 DEF Out, Wakes, Back, Told, Free, Waits, Reduces, Asks, Knows, Verdict, Judges,
              MustWake, Goes
<1>3. /\ Out(o)' = Out(o) /\ Wakes(o)' = Wakes(o) /\ Back(o)' = Back(o) /\ Told(o)' = Told(o)
      /\ Free(o)' = Free(o) /\ Waits(o)' = Waits(o) /\ Reduces(o)' = Reduces(o)
      /\ Asks(o)' = Asks(o) /\ Knows(o)' = Knows(o) /\ Stage(o)' = Stage(o)
      /\ Verdict(o)' = Verdict(o) /\ Judges(o)' = Judges(o) /\ MustWake(o)' = MustWake(o)
      /\ Goes(o, s)' = Goes(o, s) /\ Listed(o)' = Listed(o) /\ Stage(s)' = Stage(s)
  BY <1>1 DEF Out, Wakes, Back, Told, Free, Waits, Reduces, Asks, Knows, Verdict, Judges,
              MustWake, Goes, Listed, Stage
<1>4. TimeOf(s)' = TimeOf(s)
  BY <1>1, <1>2 DEF TimeOf
<1>5. Agree(s, o)' = Agree(s, o)
  BY <1>2, <1>3 DEF Agree
<1>6. Beside(s, o)' = Beside(s, o)
  BY <1>1, <1>2, <1>3
  DEF Beside, OutBeside, WakesBeside, BackBeside, WaitsBeside, ReducesBeside, ToldBeside,
      AsksBeside, KnowsBeside, FreeBeside
<1> QED BY <1>4, <1>5, <1>6 DEF PairOf

\* What a step of s has to establish.
LEMMA ControlAfter ==
  ASSUME Pair, SleepInv, NEW s \in Sims, Moves(s),
         s = NetSim => NetInv',
         s \in Ticks => PairOf(s, Other(s))' /\ PairOf(Other(s), s)'
  PROVE  ControlInv'
<1>1. /\ \A t \in Sims : RequestOf(t)
      /\ \A t \in Ticks : GatherOf(t)
      /\ NetInv /\ Together /\ asleep # Ticks
      /\ \A t \in Ticks : PairOf(t, Other(t))
  BY DEF SleepInv, ControlInv
<1>2. /\ UNCHANGED <<barrier, reduceSent, reduceMin, now, asleep, nextTimes>>
      /\ \A t \in Sims \ {s} : Still(t) /\ (t \in req' <=> t \in req)
      /\ pc[s] \in {"idle", "work"} \/ rep[s] # None
      /\ rep'[s] = None
      /\ pc'[s] \in InApp => s \notin req'
      /\ s \in Ticks => pc'[s] # "finished"
      /\ Stage(s)' = Stage(s)
  BY DEF Moves, brokerVars
<1>3. s \notin asleep /\ s \notin barrier /\ s \notin reduceSent /\ reduceMin[s] = None
  BY <1>1, <1>2 DEF RequestOf, Out, Wakes
<1>4. \A t \in Sims : RequestOf(t)'
  <2> TAKE t \in Sims
  <2>1. CASE t = s
    BY <1>2, <1>3, <2>1 DEF RequestOf
  <2>2. CASE t # s
    <3>1. RequestOf(t) /\ Still(t) /\ (t \in req' <=> t \in req)
      BY <1>1, <1>2, <2>2
    <3> QED BY <1>2, <3>1 DEF RequestOf, Still, Same, Out, Wakes, Proposal
  <2> QED BY <2>1, <2>2
<1>5. \A t \in Ticks : GatherOf(t)'
  <2> TAKE t \in Ticks
  <2>1. CASE t = s
    BY <1>1, <1>2, <2>1 DEF GatherOf, Asks
  <2>2. CASE t # s
    <3>1. GatherOf(t) /\ Still(t) /\ (t \in req' <=> t \in req)
      BY <1>1, <1>2, <2>2, NetApart
    <3> QED BY <1>2, <3>1 DEF GatherOf, Still, Same, Asks
  <2> QED BY <2>1, <2>2
<1>6. NetInv'
  <2>1. CASE s # NetSim
    <3>1. Still(NetSim)
      BY <1>2, <2>1, NetApart
    <3> QED BY <1>1, <3>1 DEF NetInv, Still, Same
  <2> QED BY <2>1
<1>7. Together'
  <2>1. \A t \in Sims : Stage(t)' = Stage(t)
    BY <1>2 DEF Still, Same, Stage
  <2>2. Awake' = Awake /\ Awake \subseteq Sims
    BY <1>2 DEF Awake
  <2> QED BY <1>1, <2>1, <2>2 DEF Together
<1>8. \A t \in Ticks : PairOf(t, Other(t))'
  <2> TAKE t \in Ticks
  <2>1. Mates(t, Other(t)) /\ PairOf(t, Other(t))
    BY <1>1, Pairing
  <2>2. CASE s \in Ticks
    <3>1. Mates(s, Other(s)) /\ (t = s \/ t = Other(s))
      BY <2>2, Pairing DEF Mates
    <3> QED BY <2>2, <3>1 DEF Mates
  <2>3. CASE s \notin Ticks
    <3>1. Still(t) /\ Still(Other(t)) /\ Other(t) \in Ticks
      BY <1>2, <2>1, <2>3, NetApart DEF Mates
    <3> QED BY <1>2, <2>1, <3>1, StillPair
  <2> QED BY <2>2, <2>3
<1>9. (asleep # Ticks)'
  BY <1>1, <1>2
<1> QED BY <1>4, <1>5, <1>6, <1>7, <1>8, <1>9 DEF ControlInv

-----------------------------------------------------------------------------
(* The two power simulators, step by step.                                 *)

\* The variables of a simulator have their types.
TypesOf(s) ==
  /\ pc[s] \in Places /\ cur[s] \in Nat /\ asked[s] \in Nat /\ base[s] \in Nat
  /\ est[s] \in Nat /\ respond[s] \in BOOLEAN /\ busy[s] \in BOOLEAN
  /\ pc[s] # "gather" => rep[s] \in NoneOr(Nat)
  /\ even[s] \in BOOLEAN /\ mightSleep[s] \in BOOLEAN
  /\ otherTimes[s] \in [Slots -> Nat] /\ otherTimes[s][1] \in Nat
  /\ agreed[s] \in Nat

LEMMA TypesOfBoth ==
  ASSUME Pair, SleepTypes, NEW s \in Ticks
  PROVE  TypesOf(s) /\ now \in Nat /\ Infinity \in Nat /\ None \notin Nat /\ Horizon \in Nat
<1>1. Slots = {1} /\ s \in Sims /\ None \notin Nat
  BY OneSlot, NetApart, TimeAssumption
<1> QED BY <1>1, TimeAssumption DEF SleepTypes, TypesOf, NoneOr

\* s takes a step, o does not.
Scene(s, o) ==
  /\ s \in Ticks /\ o \in Ticks /\ s # o
  /\ PairOf(s, o) /\ PairOf(o, s)
  /\ TypesOf(s) /\ TypesOf(o) /\ now \in Nat /\ Infinity \in Nat /\ None \notin Nat
  /\ Horizon \in Nat /\ Horizon < Infinity /\ Step[s] \in Nat /\ Step[s] > 0
  /\ Horizon + Step[s] <= Infinity
  /\ now' = now /\ asleep' = asleep /\ rep'[s] = None
  /\ Still(o)
  /\ asleep = {} \/ (asleep = {o} /\ (Out(o) \/ Wakes(o)))
  /\ asleep = {} => Stage(s) = Stage(o)

LEMMA SceneOf ==
  ASSUME Pair, SleepInv, NEW s \in Ticks, Moves(s)
  PROVE  Scene(s, Other(s)) /\ RequestOf(s)
<1> DEFINE o == Other(s)
<1>1. /\ Mates(s, o) /\ PairOf(s, o) /\ PairOf(o, s) /\ RequestOf(s) /\ RequestOf(o)
      /\ s \in Sims /\ o \in Sims
  BY BothOf, NetApart DEF SleepInv, Mates
<1> HIDE DEF o
<1>2. TypesOf(s) /\ TypesOf(o) /\ now \in Nat
  BY <1>1, TypesOfBoth DEF SleepInv, Mates
<1>3. /\ now' = now /\ asleep' = asleep /\ rep'[s] = None /\ Still(o)
      /\ pc[s] \in {"idle", "work"} \/ rep[s] # None
  BY <1>1 DEF Moves, Mates
<1>4. s \notin asleep
  BY <1>1, <1>3 DEF RequestOf, Out, Wakes
<1>5. asleep = {} \/ (asleep = {o} /\ (Out(o) \/ Wakes(o)))
  BY <1>1, <1>4 DEF SleepInv, SleepTypes, Mates, RequestOf
<1>6. asleep = {} => Stage(s) = Stage(o)
  BY <1>1 DEF SleepInv, ControlInv, Together, Awake
<1>7. /\ Infinity \in Nat /\ None \notin Nat
      /\ Horizon \in Nat /\ Horizon < Infinity /\ Step[s] \in Nat /\ Step[s] > 0
      /\ Horizon + Step[s] <= Infinity
  BY TimeAssumption DEF Pair
<1> QED BY <1>1, <1>2, <1>3, <1>5, <1>6, <1>7 DEF Scene, Mates, o


\* A step of s leaves the two in one of the situations of the invariant.
LEMMA ClientPair ==
  ASSUME Pair, SleepInv, AllTypes', NEW s \in Ticks, SleepingClientStep(s),
         NEW o, o = Other(s)
  PROVE  PairOf(s, o)' /\ PairOf(o, s)'
<1>0. /\ s \in Sims /\ RequestOf(s) /\ SleepTypes /\ SleepInv /\ Slots = {1}
      /\ Moves(s) /\ Pair
  BY SceneOf, ClientMoves, NetApart, OneSlot DEF SleepInv
<1>1. Scene(s, o) /\ TypesOf(s)' /\ Slots = {1}
  <2>1. Scene(s, o) /\ Slots = {1}
    BY <1>0, SceneOf
  <2>2. TypesOf(s)'
    BY <1>0 DEF AllTypes, SleepTypes, TypesOf, NoneOr
  <2> QED BY <2>1, <2>2
<1>2. CASE SleepingStepStart(s)
  <2>1. /\ pc[s] = "idle" /\ pc'[s] = "barrier" /\ cur[s] < Horizon /\ rep[s] = None
        /\ cur'[s] = cur[s]
        /\ asked'[s] = asked[s]
        /\ base'[s] = base[s]
        /\ est'[s] = est[s]
        /\ respond'[s] = respond[s]
        /\ busy'[s] = busy[s]
        /\ even'[s] = even[s]
        /\ mightSleep'[s] = mightSleep[s]
        /\ otherTimes'[s] = otherTimes[s]
        /\ agreed'[s] = agreed[s]
    BY <1>0, <1>2, NetApart
    DEF SleepingStepStart, StepStart, Call, RequestOf, InApp, sleepVars, tickVars, SleepTypes
  <2>8. PairOf(s, o)'
    BY SMTT(30), <1>1, <2>1
    DEF Scene, PairOf, Beside, OutBeside, WakesBeside, BackBeside, WaitsBeside, ReducesBeside,
      ToldBeside, AsksBeside, KnowsBeside, FreeBeside, TimeOf, Agree, Judges, Verdict,
      Goes, MustWake, Listed, Out, Wakes, Back, Told, Free, Waits, Reduces, Asks, Knows,
      TypesOf, Still, Same, Stage, After
  <2>9. PairOf(o, s)'
    BY SMTT(30), <1>1, <2>1
    DEF Scene, PairOf, Beside, OutBeside, WakesBeside, BackBeside, WaitsBeside, ReducesBeside,
      ToldBeside, AsksBeside, KnowsBeside, FreeBeside, TimeOf, Agree, Judges, Verdict,
      Goes, MustWake, Listed, Out, Wakes, Back, Told, Free, Waits, Reduces, Asks, Knows,
      TypesOf, Still, Same, Stage, After
  <2> QED BY <2>8, <2>9
<1>3. CASE SleepingBarrierDone(s)
  <2>1. /\ pc[s] = "barrier" /\ pc'[s] = (IF busy[s] THEN "sr" ELSE "work") /\ rep[s] # None
        /\ cur'[s] = cur[s]
        /\ asked'[s] = asked[s]
        /\ base'[s] = base[s]
        /\ est'[s] = est[s]
        /\ respond'[s] = respond[s]
        /\ busy'[s] = busy[s]
        /\ even'[s] = even[s]
        /\ mightSleep'[s] = mightSleep[s]
        /\ otherTimes'[s] = otherTimes[s]
        /\ agreed'[s] = agreed[s]
    BY <1>0, <1>3, NetApart
    DEF SleepingBarrierDone, BarrierDone, BusyBarrierDone, RequestDiff, TakeReply, Call,
        sleepVars, tickVars, SleepTypes
  <2>8. PairOf(s, o)'
    BY SMTT(30), <1>1, <2>1
    DEF Scene, PairOf, Beside, OutBeside, WakesBeside, BackBeside, WaitsBeside, ReducesBeside,
      ToldBeside, AsksBeside, KnowsBeside, FreeBeside, TimeOf, Agree, Judges, Verdict,
      Goes, MustWake, Listed, Out, Wakes, Back, Told, Free, Waits, Reduces, Asks, Knows,
      TypesOf, Still, Same, Stage, After
  <2>9. PairOf(o, s)'
    <3> USE DEF Scene, PairOf, Beside, OutBeside, WakesBeside, BackBeside, WaitsBeside,
                ReducesBeside, ToldBeside, AsksBeside, KnowsBeside, FreeBeside, TimeOf, Agree,
                Judges, Verdict, Goes, MustWake, Listed, Out, Wakes, Back, Told, Free, Waits,
                Reduces, Asks, Knows, TypesOf, Still, Same, Stage, After
    <3>1. OutBeside(o, s)' /\ WakesBeside(o, s)' /\ BackBeside(o, s)' /\ WaitsBeside(o, s)'
      BY ZenonT(60), <1>1, <2>1
    <3>2. ReducesBeside(o, s)' /\ ToldBeside(o, s)' /\ AsksBeside(o, s)'
      BY SMTT(30), <1>1, <2>1
    <3>3. KnowsBeside(o, s)' /\ FreeBeside(o, s)' /\ Agree(o, s)' /\ TimeOf(o)'
      BY SMTT(30), <1>1, <2>1
    <3> QED BY <3>1, <3>2, <3>3
  <2> QED BY <2>8, <2>9
<1>4. CASE SleepingGetNextTime(s)
  <2>1. PICK next \in AskedTimes(s) :
          /\ pc[s] = "work" /\ next > cur[s]
          /\ asked'[s] = next /\ base'[s] = cur[s]
          /\ respond'[s] = FALSE /\ busy'[s] = FALSE
          /\ cur'[s] = cur[s] /\ est'[s] = est[s] /\ even'[s] = even[s]
          /\ mightSleep'[s] = mightSleep[s] /\ otherTimes'[s] = otherTimes[s]
          /\ agreed'[s] = agreed[s]
          /\ \/ mightSleep[s] /\ next >= otherTimes[s][1] /\ pc'[s] = "wake"
             \/ (mightSleep[s] => next < otherTimes[s][1]) /\ pc'[s] = "sr"
    BY <1>0, <1>4, NetApart, GetNextIs
    DEF SleepTypes
  <2>2. rep[s] = None
    BY <1>0, <2>1 DEF RequestOf, InApp
  <2>3. next = Infinity \/ \E d \in Strides[s] : next = cur[s] + d
    <3>1. next # 0
      BY <1>1, <2>1 DEF Scene, TypesOf
    <3> QED BY <3>1 DEF AskedTimes
  <2>4. next \in Nat /\ (cur[s] < Horizon => next <= Infinity /\ cur[s] + Step[s] <= next)
    <3>1. next \in Nat
      BY <1>0, AskedTypes
    <3>2. \A d \in Strides[s] : d \in Nat /\ d >= Step[s] /\ Horizon + d <= Infinity
      BY <1>0, TimeAssumption DEF Pair
    <3> QED BY <1>1, <2>3, <3>1, <3>2 DEF Scene, TypesOf
  <2>5. pc'[s] = "sr" => ~Wakes(o) /\ (mightSleep[s] => Out(o))
    <3>1. Free(s) /\ ~Out(s) /\ ~Wakes(s)
      BY <2>1 DEF Free, Out, Wakes
    <3>2. pc'[s] = "sr" => ~MustWake(s)
      BY <1>1, <2>1, <2>4 DEF MustWake, Scene, TypesOf
    <3>3. pc'[s] = "sr" => ~Wakes(o)
      BY <1>1, <3>1, <3>2 DEF Scene, PairOf, Beside, WakesBeside
    <3>4. ~Knows(o)
      BY <1>1, <2>1, <2>2 DEF Scene, Knows, Out, Wakes, Stage
    <3> QED BY <1>1, <3>1, <3>2, <3>3, <3>4 DEF Scene, PairOf, Beside, FreeBeside
  <2>8. PairOf(s, o)'
    <3>1. ReducesBeside(s, o)'
      <4> SUFFICES ASSUME pc'[s] = "sr", ~Out(o)
                   PROVE  ReducesBeside(s, o)'
        BY <1>1, <2>1 DEF ReducesBeside, Reduces, Out, Scene, Still, Same
      <4>1. asleep = {} /\ ~mightSleep[s] /\ Stage(o) = "sr"
        BY <1>1, <2>1, <2>5 DEF Scene, Stage
      <4>2. Free(o) => ~mightSleep[o]
        <5>1. Free(s) /\ ~Out(s) /\ ~Wakes(s) /\ ~Knows(s) /\ ~MustWake(s)
          BY <2>1, <4>1 DEF Free, Out, Wakes, Knows, MustWake
        <5> QED BY <1>1, <5>1 DEF Scene, PairOf, Beside, FreeBeside
      <4>3. Reduces(o) \/ Back(o) \/ Waits(o) \/ Free(o)
        BY <1>1, <2>5, <4>1
       
          DEF Scene, TypesOf, Places, InApp, Waiting, Reduces, Back, Waits, Free, Stage, Out,
              Wakes, After
      <4> QED BY <1>1, <2>1, <4>1, <4>2, <4>3
              DEF Scene, Still, Same, ReducesBeside, Reduces, Back, Waits, Free, Stage
    <3> USE DEF Scene, PairOf, Beside, OutBeside, WakesBeside, BackBeside, WaitsBeside,
                ReducesBeside, ToldBeside, AsksBeside, KnowsBeside, FreeBeside, TimeOf, Agree,
                Judges, Verdict, Goes, MustWake, Listed, Out, Wakes, Back, Told, Free, Waits,
                Reduces, Asks, Knows, TypesOf, Still, Same, Stage, After
    <3>2. OutBeside(s, o)' /\ WakesBeside(s, o)' /\ BackBeside(s, o)' /\ WaitsBeside(s, o)'
          /\ ToldBeside(s, o)' /\ AsksBeside(s, o)' /\ KnowsBeside(s, o)' /\ FreeBeside(s, o)'
          /\ Agree(s, o)' /\ TimeOf(s)'
      BY SMTT(30), <1>1, <2>1, <2>2, <2>4, <2>5
    <3> QED BY <3>1, <3>2
  <2>9. PairOf(o, s)'
    <3> USE DEF Scene, PairOf, Beside, OutBeside, WakesBeside, BackBeside, WaitsBeside,
                ReducesBeside, ToldBeside, AsksBeside, KnowsBeside, FreeBeside, TimeOf, Agree,
                Judges, Verdict, Goes, MustWake, Listed, Out, Wakes, Back, Told, Free, Waits,
                Reduces, Asks, Knows, TypesOf, Still, Same, Stage, After
    <3>1. OutBeside(o, s)'
      BY <1>1, <2>1, <2>2, <2>4, <2>5
    <3>2. WakesBeside(o, s)'
      BY <1>1, <2>1, <2>2, <2>4, <2>5
    <3>3. BackBeside(o, s)' /\ WaitsBeside(o, s)'
      BY <1>1, <2>1, <2>2, <2>4, <2>5
    <3>4. ReducesBeside(o, s)' /\ ToldBeside(o, s)' /\ AsksBeside(o, s)'
      BY <1>1, <2>1, <2>2, <2>4, <2>5
    <3>5. KnowsBeside(o, s)' /\ FreeBeside(o, s)' /\ Agree(o, s)' /\ TimeOf(o)'
      BY SMTT(30), <1>1, <2>1, <2>2, <2>4, <2>5
    <3> QED BY <3>1, <3>2, <3>3, <3>4, <3>5
  <2> QED BY <2>8, <2>9
<1>5. CASE WakeDone(s)
  <2>1. /\ pc[s] = "wake" /\ pc'[s] = "sr" /\ rep[s] # None /\ mightSleep'[s] = FALSE
        /\ cur'[s] = cur[s]
        /\ asked'[s] = asked[s]
        /\ base'[s] = base[s]
        /\ est'[s] = est[s]
        /\ respond'[s] = respond[s]
        /\ busy'[s] = busy[s]
        /\ even'[s] = even[s]
        /\ otherTimes'[s] = otherTimes[s]
        /\ agreed'[s] = agreed[s]
    BY <1>0, <1>5, NetApart, WakeIs
    DEF TakeReply, SleepTypes
  <2>8. PairOf(s, o)'
    BY <1>1, <2>1
    DEF Scene, PairOf, Beside, OutBeside, WakesBeside, BackBeside, WaitsBeside, ReducesBeside,
        ToldBeside, AsksBeside, KnowsBeside, FreeBeside, TimeOf, Agree, Judges, Verdict, Goes,
        MustWake, Listed, Out, Wakes, Back, Told, Free, Waits, Reduces, Asks, Knows, TypesOf, Still,
        Same, Stage, After
  <2>9. PairOf(o, s)'
    BY <1>1, <2>1
    DEF Scene, PairOf, Beside, OutBeside, WakesBeside, BackBeside, WaitsBeside, ReducesBeside,
        ToldBeside, AsksBeside, KnowsBeside, FreeBeside, TimeOf, Agree, Judges, Verdict, Goes,
        MustWake, Listed, Out, Wakes, Back, Told, Free, Waits, Reduces, Asks, Knows, TypesOf, Still,
        Same, Stage, After
  <2> QED BY <2>8, <2>9
<1>6. CASE RestDone(s)
  <2>1. /\ pc[s] = "rest" /\ pc'[s] = "sr" /\ rep[s] # None /\ mightSleep'[s] = FALSE
        /\ respond[s] => respond'[s]
        /\ cur'[s] = cur[s]
        /\ asked'[s] = asked[s]
        /\ base'[s] = base[s]
        /\ est'[s] = est[s]
        /\ busy'[s] = busy[s]
        /\ even'[s] = even[s]
        /\ otherTimes'[s] = otherTimes[s]
        /\ agreed'[s] = agreed[s]
    BY <1>0, <1>6, NetApart, RestIs
    DEF TakeReply, SleepTypes
  <2>8. PairOf(s, o)'
    BY <1>1, <2>1
    DEF Scene, PairOf, Beside, OutBeside, WakesBeside, BackBeside, WaitsBeside, ReducesBeside,
        ToldBeside, AsksBeside, KnowsBeside, FreeBeside, TimeOf, Agree, Judges, Verdict, Goes,
        MustWake, Listed, Out, Wakes, Back, Told, Free, Waits, Reduces, Asks, Knows, TypesOf, Still,
        Same, Stage, After
  <2>9. PairOf(o, s)'
    BY <1>1, <2>1
    DEF Scene, PairOf, Beside, OutBeside, WakesBeside, BackBeside, WaitsBeside, ReducesBeside,
        ToldBeside, AsksBeside, KnowsBeside, FreeBeside, TimeOf, Agree, Judges, Verdict, Goes,
        MustWake, Listed, Out, Wakes, Back, Told, Free, Waits, Reduces, Asks, Knows, TypesOf, Still,
        Same, Stage, After
  <2> QED BY <2>8, <2>9
<1>7. CASE SleepingTickDiff(s)
  <2>1. /\ pc[s] = "sr" /\ pc'[s] = "delay" /\ rep[s] # None
        /\ est'[s] = (IF Stable(s) THEN asked[s] ELSE OneStepOn(s))
        /\ respond'[s] = ~Stable(s)
        /\ even'[s] = (rep[s] = 0)
        /\ cur'[s] = cur[s]
        /\ asked'[s] = asked[s]
        /\ base'[s] = base[s]
        /\ busy'[s] = busy[s]
        /\ mightSleep'[s] = mightSleep[s]
        /\ agreed'[s] = agreed[s]
    BY <1>0, <1>7, NetApart, TickDiffIs
    DEF TakeReply, SleepTypes
  <2>2. /\ Stable(s) <=> rep[s] = 0 /\ ~respond[s]
        /\ OneStepOn(s) = base[s] + Step[s]
    BY DEF Stable, OneStepOn
  <2>3. otherTimes'[s][1] = (IF ~Stable(s) /\ mightSleep[s] THEN 0 ELSE otherTimes[s][1])
    <3>1. otherTimes[s] = [otherTimes[s] EXCEPT ![1] = otherTimes[s][1]] /\ 1 \in Slots
      BY <1>0, <1>1 DEF SleepTypes
    <3>2. CASE ~(~Stable(s) /\ mightSleep[s]) /\ otherTimes' = otherTimes
      BY <3>2
    <3>3. CASE /\ ~Stable(s) /\ mightSleep[s]
               /\ otherTimes' = [otherTimes EXCEPT ![s][1] = 0]
      BY <1>0, <3>1, <3>3 DEF SleepTypes
    <3> QED BY <1>0, <1>7, <3>2, <3>3, TickDiffIs
  <2>8. PairOf(s, o)'
    <3>1. TimeOf(s)'
      <4>1. TimeOf(s) /\ Reduces(s) /\ TypesOf(s) /\ now \in Nat /\ now' = now /\ rep'[s] = None
            /\ Infinity \in Nat /\ Horizon + Step[s] <= Infinity /\ Horizon \in Nat
            /\ Step[s] \in Nat
        BY <1>1, <2>1 DEF Scene, PairOf, Reduces
      <4>2. est'[s] <= Infinity
        BY <2>1, <2>2, <4>1 DEF TimeOf, TypesOf, Free
      <4>3. est'[s] > now \/ respond'[s]
        BY <2>1, <2>2, <4>1 DEF TimeOf, TypesOf
      <4>4. \A i \in Slots : otherTimes'[s][i] <= Infinity
        BY <1>0, <2>1, <2>3, <4>1 DEF TimeOf, TypesOf
      <4> QED BY <2>1, <2>2, <4>1, <4>2, <4>3, <4>4
              DEF TimeOf, TypesOf, Told, Reduces, Back, Wakes, Waits, Out, Free
    <3> USE DEF Scene, PairOf, Beside, OutBeside, WakesBeside, BackBeside, WaitsBeside,
                ReducesBeside, ToldBeside, AsksBeside, KnowsBeside, FreeBeside, TimeOf, Agree,
                Judges, Verdict, Goes, MustWake, Listed, Out, Wakes, Back, Told, Free, Waits,
                Reduces, Asks, Knows, TypesOf, Still, Same, Stage, After
    <3>2. OutBeside(s, o)' /\ WakesBeside(s, o)' /\ BackBeside(s, o)' /\ WaitsBeside(s, o)'
          /\ ReducesBeside(s, o)' /\ ToldBeside(s, o)' /\ AsksBeside(s, o)' /\ KnowsBeside(s, o)'
          /\ FreeBeside(s, o)' /\ Agree(s, o)'
      BY SMTT(30), ZenonT(60), <1>1, <2>1, <2>2, <2>3
    <3> QED BY <3>1, <3>2
  <2>9. PairOf(o, s)'
    <3> USE DEF Scene, PairOf, Beside, OutBeside, WakesBeside, BackBeside, WaitsBeside,
                ReducesBeside, ToldBeside, AsksBeside, KnowsBeside, FreeBeside, TimeOf, Agree,
                Judges, Verdict, Goes, MustWake, Listed, Out, Wakes, Back, Told, Free, Waits,
                Reduces, Asks, Knows, TypesOf, Still, Same, Stage, After
    <3>1. OutBeside(o, s)' /\ WakesBeside(o, s)' /\ BackBeside(o, s)' /\ WaitsBeside(o, s)'
      BY <1>1, <2>1, <2>2, <2>3
    <3>2. ReducesBeside(o, s)' /\ ToldBeside(o, s)' /\ AsksBeside(o, s)'
      BY <1>1, <2>1, <2>2, <2>3
    <3>3. KnowsBeside(o, s)' /\ FreeBeside(o, s)' /\ Agree(o, s)' /\ TimeOf(o)'
      BY SMTT(30), ZenonT(60), <1>1, <2>1, <2>2, <2>3
    <3> QED BY <3>1, <3>2, <3>3
  <2> QED BY <2>8, <2>9
<1>8. CASE SleepingDelayDone(s)
  <2>1. /\ pc[s] = "delay" /\ pc'[s] = "min" /\ rep[s] # None
        /\ cur'[s] = cur[s]
        /\ asked'[s] = asked[s]
        /\ base'[s] = base[s]
        /\ est'[s] = est[s]
        /\ respond'[s] = respond[s]
        /\ busy'[s] = busy[s]
        /\ even'[s] = even[s]
        /\ mightSleep'[s] = mightSleep[s]
        /\ otherTimes'[s] = otherTimes[s]
        /\ agreed'[s] = agreed[s]
    BY <1>0, <1>8, NetApart
    DEF SleepingDelayDone, TakeReply, Call, SleepTypes, sleepVars, tickVars
  <2>8. PairOf(s, o)'
    BY <1>1, <2>1
    DEF Scene, PairOf, Beside, OutBeside, WakesBeside, BackBeside, WaitsBeside, ReducesBeside,
        ToldBeside, AsksBeside, KnowsBeside, FreeBeside, TimeOf, Agree, Judges, Verdict, Goes,
        MustWake, Listed, Out, Wakes, Back, Told, Free, Waits, Reduces, Asks, Knows, TypesOf, Still,
        Same, Stage, After
  <2>9. PairOf(o, s)'
    BY <1>1, <2>1
    DEF Scene, PairOf, Beside, OutBeside, WakesBeside, BackBeside, WaitsBeside, ReducesBeside,
        ToldBeside, AsksBeside, KnowsBeside, FreeBeside, TimeOf, Agree, Judges, Verdict, Goes,
        MustWake, Listed, Out, Wakes, Back, Told, Free, Waits, Reduces, Asks, Knows, TypesOf, Still,
        Same, Stage, After
  <2> QED BY <2>8, <2>9
<1>9. CASE SleepingMinDone(s) /\ ~mightSleep[s] /\ even[s]
  <2>1. /\ pc[s] = "min" /\ pc'[s] = "gather" /\ rep[s] # None
        /\ ~mightSleep[s] /\ even[s] /\ agreed'[s] = rep[s]
        /\ cur'[s] = cur[s]
        /\ asked'[s] = asked[s]
        /\ base'[s] = base[s]
        /\ est'[s] = est[s]
        /\ respond'[s] = respond[s]
        /\ busy'[s] = busy[s]
        /\ even'[s] = even[s]
        /\ mightSleep'[s] = mightSleep[s]
        /\ otherTimes'[s] = otherTimes[s]
    BY <1>0, <1>9, NetApart
    DEF SleepingMinDone, TakeReply, Call, SleepTypes
  <2>8. PairOf(s, o)'
    <3> USE DEF Scene, PairOf, Beside, OutBeside, WakesBeside, BackBeside, WaitsBeside,
                ReducesBeside, ToldBeside, AsksBeside, KnowsBeside, FreeBeside, TimeOf, Agree,
                Judges, Verdict, Goes, MustWake, Listed, Out, Wakes, Back, Told, Free, Waits,
                Reduces, Asks, Knows, TypesOf, Still, Same, Stage, After
    <3>1. OutBeside(s, o)' /\ WakesBeside(s, o)' /\ BackBeside(s, o)' /\ WaitsBeside(s, o)'
      BY <1>1, <2>1
    <3>2. ReducesBeside(s, o)' /\ ToldBeside(s, o)' /\ AsksBeside(s, o)'
      BY SMTT(30), ZenonT(60), <1>1, <2>1
    <3>3. KnowsBeside(s, o)' /\ FreeBeside(s, o)' /\ Agree(s, o)' /\ TimeOf(s)'
      BY <1>1, <2>1
    <3> QED BY <3>1, <3>2, <3>3
  <2>9. PairOf(o, s)'
    <3> USE DEF Scene, PairOf, Beside, OutBeside, WakesBeside, BackBeside, WaitsBeside,
                ReducesBeside, ToldBeside, AsksBeside, KnowsBeside, FreeBeside, TimeOf, Agree,
                Judges, Verdict, Goes, MustWake, Listed, Out, Wakes, Back, Told, Free, Waits,
                Reduces, Asks, Knows, TypesOf, Still, Same, Stage, After
    <3>1. OutBeside(o, s)' /\ WakesBeside(o, s)' /\ BackBeside(o, s)' /\ WaitsBeside(o, s)'
      BY <1>1, <2>1
    <3>2. ReducesBeside(o, s)' /\ ToldBeside(o, s)' /\ AsksBeside(o, s)'
      BY SMTT(30), ZenonT(60), <1>1, <2>1
    <3>3. KnowsBeside(o, s)' /\ FreeBeside(o, s)' /\ Agree(o, s)' /\ TimeOf(o)'
      BY <1>1, <2>1
    <3> QED BY <3>1, <3>2, <3>3
  <2> QED BY <2>8, <2>9
<1>10. CASE SleepingMinDone(s) /\ ~(~mightSleep[s] /\ even[s])
  <2>1. /\ pc[s] = "min" /\ rep[s] # None /\ ~(~mightSleep[s] /\ even[s])
        /\ asked'[s] = asked[s]
        /\ est'[s] = est[s]
        /\ respond'[s] = respond[s]
        /\ even'[s] = even[s]
        /\ mightSleep'[s] = mightSleep[s]
        /\ otherTimes'[s] = otherTimes[s]
        /\ agreed'[s] = agreed[s]
        /\ \/ /\ rep[s] < est[s] /\ even[s] /\ pc'[s] = "rest"
              /\ busy'[s] = TRUE /\ base'[s] = FloorTo(s, rep[s]) /\ cur'[s] = cur[s]
           \/ /\ rep[s] < est[s] /\ ~even[s] /\ pc'[s] = "barrier"
              /\ busy'[s] = TRUE /\ base'[s] = FloorTo(s, rep[s]) /\ cur'[s] = cur[s]
           \/ /\ ~(rep[s] < est[s]) /\ pc'[s] = "idle"
              /\ busy'[s] = FALSE /\ base'[s] = base[s] /\ cur'[s] = est[s]
    BY <1>0, <1>10, NetApart, ProceedIs
    DEF SleepingMinDone, TakeReply, SleepTypes, Sleeps, Repeats, Returns
  <2>2. rep[s] = now /\ FloorTo(s, now) \in Nat /\ FloorTo(s, now) <= now
    BY <1>0, <1>1, <2>1, FloorType DEF Scene, PairOf, TimeOf, Told
  <2>8. PairOf(s, o)'
    BY <1>1, <2>1, <2>2
    DEF Scene, PairOf, Beside, OutBeside, WakesBeside, BackBeside, WaitsBeside, ReducesBeside,
        ToldBeside, AsksBeside, KnowsBeside, FreeBeside, TimeOf, Agree, Judges, Verdict, Goes,
        MustWake, Listed, Out, Wakes, Back, Told, Free, Waits, Reduces, Asks, Knows, TypesOf, Still,
        Same, Stage, After
  <2>9. PairOf(o, s)'
    <3> USE DEF Scene, PairOf, Beside, OutBeside, WakesBeside, BackBeside, WaitsBeside,
                ReducesBeside, ToldBeside, AsksBeside, KnowsBeside, FreeBeside, TimeOf, Agree,
                Judges, Verdict, Goes, MustWake, Listed, Out, Wakes, Back, Told, Free, Waits,
                Reduces, Asks, Knows, TypesOf, Still, Same, Stage, After
    <3>1. OutBeside(o, s)' /\ WakesBeside(o, s)' /\ BackBeside(o, s)' /\ WaitsBeside(o, s)'
      BY <1>1, <2>1, <2>2
    <3>2. ReducesBeside(o, s)' /\ ToldBeside(o, s)' /\ AsksBeside(o, s)'
      BY <1>1, <2>1, <2>2
    <3>3. KnowsBeside(o, s)' /\ FreeBeside(o, s)' /\ Agree(o, s)' /\ TimeOf(o)'
      BY SMTT(30), <1>1, <2>1, <2>2
    <3> QED BY <3>1, <3>2, <3>3
  <2> QED BY <2>8, <2>9
<1>11. CASE GatherDone(s)
  <2>1. /\ pc[s] = "gather" /\ rep[s] # None
        /\ mightSleep'[s] = TRUE /\ agreed'[s] = 0
        /\ asked'[s] = asked[s]
        /\ est'[s] = est[s]
        /\ respond'[s] = respond[s]
        /\ even'[s] = even[s]
        /\ \/ /\ agreed[s] < est[s] /\ even[s] /\ pc'[s] = "rest"
              /\ busy'[s] = TRUE /\ base'[s] = FloorTo(s, agreed[s]) /\ cur'[s] = cur[s]
           \/ /\ agreed[s] < est[s] /\ ~even[s] /\ pc'[s] = "barrier"
              /\ busy'[s] = TRUE /\ base'[s] = FloorTo(s, agreed[s]) /\ cur'[s] = cur[s]
           \/ /\ ~(agreed[s] < est[s]) /\ pc'[s] = "idle"
              /\ busy'[s] = FALSE /\ base'[s] = base[s] /\ cur'[s] = est[s]
    BY <1>0, <1>11, NetApart, ProceedIs
    DEF GatherDone, TakeReply, SleepTypes, Sleeps, Repeats, Returns
  <2>2. agreed[s] = now /\ FloorTo(s, now) \in Nat /\ FloorTo(s, now) <= now
    BY <1>0, <1>1, <2>1, FloorType DEF Scene, PairOf, Beside, KnowsBeside, Knows
  <2>3. rep[s] = Listed(o)
    BY <1>1, <2>1 DEF Scene, PairOf, Beside, KnowsBeside, Knows
  <2>4. otherTimes'[s][1] = IF est[o] = Infinity THEN otherTimes[s][1] ELSE est[o]
    <3>1. otherTimes'[s] = [j \in Slots |-> IF j <= Len(rep[s]) THEN rep[s][j]
                                            ELSE otherTimes[s][j]]
      BY <1>0, <1>11 DEF GatherDone, SleepTypes
    <3>2. Len(<<>>) = 0 /\ Len(<<est[o]>>) = 1 /\ <<est[o]>>[1] = est[o]
      OBVIOUS
    <3> QED BY <1>1, <2>3, <3>1, <3>2 DEF Listed
  <2>5. est[o] <= Infinity
    BY <1>1, <2>1 DEF Scene, PairOf, TimeOf
  <2>6. /\ otherTimes'[s][1] <= est[o] /\ \A i \in Slots : otherTimes'[s][i] <= Infinity
        /\ now <= est[s] /\ even[s]
    BY <1>1, <2>1, <2>4, <2>5
    DEF Scene, PairOf, TimeOf, TypesOf, Beside, KnowsBeside, Knows
  <2>8. PairOf(s, o)'
    <3> USE DEF Scene, PairOf, Beside, OutBeside, WakesBeside, BackBeside, WaitsBeside,
                ReducesBeside, ToldBeside, AsksBeside, KnowsBeside, FreeBeside, TimeOf, Agree,
                Judges, Verdict, Goes, MustWake, Listed, Out, Wakes, Back, Told, Free, Waits,
                Reduces, Asks, Knows, TypesOf, Still, Same, Stage, After
    <3>1. OutBeside(s, o)'
      BY SMTT(30), <1>1, <2>1, <2>2, <2>3, <2>5, <2>6
    <3>2. WakesBeside(s, o)'
      BY <1>1, <2>1, <2>2, <2>3, <2>5, <2>6
    <3>3. BackBeside(s, o)' /\ WaitsBeside(s, o)'
      BY <1>1, <2>1, <2>2, <2>3, <2>5, <2>6
    <3>4. ReducesBeside(s, o)' /\ ToldBeside(s, o)' /\ AsksBeside(s, o)'
      BY <1>1, <2>1, <2>2, <2>3, <2>5, <2>6
    <3>5. KnowsBeside(s, o)'
      BY <1>1, <2>1, <2>2, <2>3, <2>5, <2>6
    <3>6. FreeBeside(s, o)'
      BY SMTT(30), <1>1, <2>1, <2>2, <2>3, <2>5, <2>6
    <3>7. Agree(s, o)' /\ TimeOf(s)'
      BY <1>1, <2>1, <2>2, <2>3, <2>5, <2>6
    <3> QED BY <3>1, <3>2, <3>3, <3>4, <3>5, <3>6, <3>7
  <2>9. PairOf(o, s)'
    BY SMTT(30), <1>1, <2>1, <2>2, <2>3, <2>5, <2>6
    DEF Scene, PairOf, Beside, OutBeside, WakesBeside, BackBeside, WaitsBeside, ReducesBeside,
        ToldBeside, AsksBeside, KnowsBeside, FreeBeside, TimeOf, Agree, Judges, Verdict, Goes,
        MustWake, Listed, Out, Wakes, Back, Told, Free, Waits, Reduces, Asks, Knows, TypesOf, Still,
        Same, Stage, After
  <2> QED BY <2>8, <2>9
<1> QED BY <1>2, <1>3, <1>4, <1>5, <1>6, <1>7, <1>8, <1>9, <1>10, <1>11 DEF SleepingClientStep

-----------------------------------------------------------------------------
(* Steps of the broker.                                                    *)

\* The broker takes a step; s and o are the power simulators.
Aside(s, o) ==
  /\ s \in Ticks /\ o \in Ticks /\ s # o
  /\ PairOf(s, o) /\ PairOf(o, s)
  /\ TypesOf(s) /\ TypesOf(o) /\ now \in Nat /\ Infinity \in Nat /\ None \notin Nat
  /\ Horizon \in Nat /\ Horizon < Infinity
  /\ RequestOf(s) /\ RequestOf(o)
  /\ Same(s) /\ Same(o)
  /\ asleep = {} \/ asleep = {s} \/ asleep = {o}
  /\ asleep = {} => Stage(s) = Stage(o)

LEMMA AsideOf ==
  ASSUME Pair, SleepInv, NEW s \in Ticks, UNCHANGED <<simVars, tickVars>>
  PROVE  Aside(s, Other(s)) /\ Mates(s, Other(s))
<1> DEFINE o == Other(s)
<1>1. /\ Mates(s, o) /\ PairOf(s, o) /\ PairOf(o, s) /\ RequestOf(s) /\ RequestOf(o)
      /\ s \in Sims /\ o \in Sims
  BY BothOf, NetApart DEF SleepInv, Mates
<1> HIDE DEF o
<1>2. TypesOf(s) /\ TypesOf(o) /\ now \in Nat
  BY <1>1, TypesOfBoth DEF SleepInv, Mates
<1>3. Same(s) /\ Same(o)
  BY DEF Same, simVars, tickVars
<1>5. asleep = {} \/ asleep = {s} \/ asleep = {o}
  BY <1>1 DEF SleepInv, SleepTypes, ControlInv, Mates
<1>6. asleep = {} => Stage(s) = Stage(o)
  BY <1>1 DEF SleepInv, ControlInv, Together, Awake
<1>7. /\ Infinity \in Nat /\ None \notin Nat
      /\ Horizon \in Nat /\ Horizon < Infinity
  BY TimeAssumption
<1> QED BY <1>1, <1>2, <1>3, <1>5, <1>6, <1>7 DEF Aside, Mates, o

\* The broker takes a request and keeps it.
Keeps(s) ==
  /\ UNCHANGED <<simVars, tickVars, rep, now, asleep>>
  /\ s \in req /\ req' = req \ {s}

LEMMA KeepsControl ==
  ASSUME Pair, SleepInv, NEW s \in Sims, Keeps(s),
         \A t \in Sims \ {s} : /\ t \in barrier' <=> t \in barrier
                               /\ t \in reduceSent' <=> t \in reduceSent
                               /\ reduceMin'[t] = reduceMin[t],
         \A t \in Ticks \ {s} : nextTimes'[t] = nextTimes[t],
         RequestOf(s)', s \in Ticks => GatherOf(s)'
  PROVE  ControlInv'
<1>1. /\ \A t \in Sims : RequestOf(t)
      /\ \A t \in Ticks : GatherOf(t)
      /\ NetInv /\ Together /\ asleep # Ticks
      /\ \A t \in Ticks : PairOf(t, Other(t))
  BY DEF SleepInv, ControlInv
<1>2. /\ UNCHANGED <<simVars, tickVars, rep, now, asleep>> /\ req' = req \ {s}
      /\ UNCHANGED <<pc, est, busy>>
  BY DEF Keeps, simVars
<1>3. \A t \in Sims : Still(t)
  BY <1>2 DEF Still, Same, simVars, tickVars
<1>4. \A t \in Sims : RequestOf(t)'
  <2> TAKE t \in Sims
  <2>1. CASE t # s
    BY <1>1, <1>2, <2>1 DEF RequestOf, Out, Wakes, Proposal
  <2> QED BY <2>1
<1>5. \A t \in Ticks : GatherOf(t)'
  <2> TAKE t \in Ticks
  <2>1. CASE t # s
    BY <1>1, <1>2, <2>1 DEF GatherOf, Asks
  <2> QED BY <2>1
<1>6. NetInv' /\ Together' /\ (asleep # Ticks)'
  BY <1>1, <1>2 DEF NetInv, Together, Stage, Awake
<1>7. \A t \in Ticks : PairOf(t, Other(t))'
  <2> TAKE t \in Ticks
  <2>1. Mates(t, Other(t)) /\ PairOf(t, Other(t))
    BY <1>1, Pairing
  <2>2. Still(t) /\ Still(Other(t)) /\ Other(t) \in Ticks
    BY <1>3, <2>1, NetApart DEF Mates
  <2> QED BY <1>2, <2>1, <2>2, StillPair
<1> QED BY <1>4, <1>5, <1>6, <1>7 DEF ControlInv

LEMMA BarrierControl ==
  ASSUME Pair, SleepInv, NEW s \in Sims, SleepingBarrier(s)
  PROVE  ControlInv'
<1>0. /\ \A t \in Sims : RequestOf(t)
      /\ \A t \in Ticks : GatherOf(t)
      /\ NetInv /\ Together /\ asleep # Ticks
      /\ None \notin Nat /\ barrier \subseteq Sims
  BY TimeAssumption DEF SleepInv, ControlInv, SleepTypes
<1>1. /\ UNCHANGED <<simVars, tickVars, now, asleep, reduceSent, reduceMin, nextTimes>>
      /\ s \in req /\ req' = req \ {s} /\ pc[s] = "barrier"
  BY DEF SleepingBarrier, Serve, histVars, sleepVars
<1>2. pc' = pc /\ est' = est /\ busy' = busy
  BY <1>1 DEF simVars
<1>3. CASE rep' = rep /\ barrier' = barrier \cup {s}
  <2>1. Keeps(s)
    BY <1>1, <1>3 DEF Keeps
  <2>2. RequestOf(s)'
    BY <1>0, <1>1, <1>2, <1>3 DEF RequestOf, Out, Wakes, Proposal
  <2>3. s \in Ticks => GatherOf(s)'
    BY <1>0, <1>1, <1>2, <1>3 DEF GatherOf, Asks
  <2> QED BY <1>1, <1>3, <2>1, <2>2, <2>3, KeepsControl
<1>4. CASE /\ barrier' = {} /\ ReplyTo(Awake, Ack)
           /\ \A t \in Awake : pc[t] = "barrier" /\ rep[t] = None /\ t \notin req'
  <2>1. \A t \in Sims : rep'[t] = IF t \notin asleep THEN 0 ELSE rep[t]
    BY <1>4 DEF ReplyTo, Awake, Ack
  <2>2. \A t \in Sims : t \notin asleep => pc[t] = "barrier" /\ rep[t] = None /\ t \notin req'
    BY <1>4 DEF Awake
  <2>3. \A t \in Sims : RequestOf(t)'
    BY <1>0, <1>1, <1>2, <1>4, <2>1, <2>2 DEF RequestOf, InApp, Out, Wakes, Proposal
  <2>4. \A t \in Ticks : GatherOf(t)'
    BY <1>0, <1>1, <1>2, <2>1, <2>2, NetApart DEF GatherOf, Asks
  <2>5. NetInv'
    BY <1>0, <1>2 DEF NetInv
  <2>6. Together'
    BY <1>0, <1>1, <1>2, <2>1, <2>2 DEF Together, Awake, Stage, After
  <2>7. ASSUME NEW t \in Ticks, NEW o, o = Other(t)
        PROVE  PairOf(t, o)'
    <3>1. Aside(t, o) /\ now' = now /\ asleep' = asleep /\ Slots = {1}
      BY <1>1, <2>7, AsideOf, OneSlot
    <3>2. /\ rep'[t] = (IF t \notin asleep THEN 0 ELSE rep[t])
          /\ rep'[o] = (IF o \notin asleep THEN 0 ELSE rep[o])
          /\ t \notin asleep => pc[t] = "barrier" /\ rep[t] = None
          /\ o \notin asleep => pc[o] = "barrier" /\ rep[o] = None
      BY <2>1, <2>2, <3>1, NetApart DEF Aside
    <3> QED BY SMTT(30), <3>1, <3>2
        DEF Aside, PairOf, Beside, OutBeside, WakesBeside, BackBeside, WaitsBeside, ReducesBeside,
            ToldBeside, AsksBeside, KnowsBeside, FreeBeside, TimeOf, Agree, Judges, Verdict, Goes,
            MustWake, Listed, Out, Wakes, Back, Told, Free, Waits, Reduces, Asks, Knows, TypesOf,
            Same, Stage, After, RequestOf
  <2> QED BY <1>0, <1>1, <2>3, <2>4, <2>5, <2>6, <2>7 DEF ControlInv
<1> QED BY <1>3, <1>4, BarrierGathers

LEMMA SendRecvControl ==
  ASSUME Pair, SleepInv, NEW s \in Sims, SleepingSendRecv(s), broker' = "up"
  PROVE  ControlInv'
<1>0. /\ \A t \in Sims : RequestOf(t)
      /\ \A t \in Ticks : GatherOf(t)
      /\ NetInv /\ Together /\ asleep # Ticks
      /\ None \notin Nat /\ reduceSent \subseteq Sims
  BY TimeAssumption DEF SleepInv, ControlInv, SleepTypes
<1>1. /\ UNCHANGED <<simVars, tickVars, now, asleep, barrier, reduceMin, nextTimes>>
      /\ s \in req /\ req' = req \ {s} /\ pc[s] = "sr"
  BY DEF SleepingSendRecv, Serve, sleepVars
<1>2. pc' = pc /\ est' = est /\ busy' = busy
  BY <1>1 DEF simVars
<1>3. CASE rep' = rep /\ reduceSent' = reduceSent \cup {s}
  <2>1. Keeps(s)
    BY <1>1, <1>3 DEF Keeps
  <2>2. RequestOf(s)'
    BY <1>0, <1>1, <1>2, <1>3 DEF RequestOf, Out, Wakes, Proposal
  <2>3. s \in Ticks => GatherOf(s)'
    BY <1>0, <1>1, <1>2, <1>3 DEF GatherOf, Asks
  <2> QED BY <1>1, <1>3, <2>1, <2>2, <2>3, KeepsControl
<1>4. CASE \E d \in Nat : /\ reduceSent' = {} /\ ReplyTo(Awake, d)
           /\ \A t \in Awake : pc[t] = "sr" /\ rep[t] = None /\ t \notin req'
  <2>0. PICK d \in Nat : reduceSent' = {} /\ ReplyTo(Awake, d)
    BY <1>4
  <2>1. \A t \in Sims : rep'[t] = IF t \notin asleep THEN d ELSE rep[t]
    BY <2>0 DEF ReplyTo, Awake
  <2>2. \A t \in Sims : t \notin asleep => pc[t] = "sr" /\ rep[t] = None /\ t \notin req'
    BY <1>4 DEF Awake
  <2>3. \A t \in Sims : RequestOf(t)'
    BY <1>0, <1>1, <1>2, <2>0, <2>1, <2>2 DEF RequestOf, InApp, Out, Wakes, Proposal
  <2>4. \A t \in Ticks : GatherOf(t)'
    BY <1>0, <1>1, <1>2, <2>1, <2>2, NetApart DEF GatherOf, Asks
  <2>5. NetInv'
    BY <1>0, <1>2 DEF NetInv
  <2>6. Together'
    BY <1>0, <1>1, <1>2, <2>1, <2>2 DEF Together, Awake, Stage, After
  <2>7. ASSUME NEW t \in Ticks, NEW o, o = Other(t)
        PROVE  PairOf(t, o)'
    <3>1. Aside(t, o) /\ now' = now /\ asleep' = asleep /\ Slots = {1}
      BY <1>1, <2>7, AsideOf, OneSlot
    <3>2. /\ rep'[t] = (IF t \notin asleep THEN d ELSE rep[t])
          /\ rep'[o] = (IF o \notin asleep THEN d ELSE rep[o])
          /\ t \notin asleep => pc[t] = "sr" /\ rep[t] = None
          /\ o \notin asleep => pc[o] = "sr" /\ rep[o] = None
          /\ d \in Nat
      BY <2>1, <2>2, <3>1, NetApart DEF Aside
    <3> QED BY SMTT(30), <3>1, <3>2
        DEF Aside, PairOf, Beside, OutBeside, WakesBeside, BackBeside, WaitsBeside, ReducesBeside,
            ToldBeside, AsksBeside, KnowsBeside, FreeBeside, TimeOf, Agree, Judges, Verdict, Goes,
            MustWake, Listed, Out, Wakes, Back, Told, Free, Waits, Reduces, Asks, Knows, TypesOf,
            Same, Stage, After, RequestOf
  <2> QED BY <1>0, <1>1, <2>3, <2>4, <2>5, <2>6, <2>7 DEF ControlInv
<1>5. CASE Impossible(sentTotal', recvTotal') /\ reduceSent \cup {s} = Awake
  BY <1>0, <1>1, <1>5 DEF SleepingSendRecv, Excess, GracefulDeath, RequestOf, Out, Wakes,
                          SleepInv
<1>6. sentTotal' \in Nat /\ recvTotal' \in Nat
  BY SendRecvGathers DEF SleepInv, CommTypes
<1>7. ~Impossible(sentTotal', recvTotal') => sentTotal' - recvTotal' \in Nat
  <2>1. ASSUME NEW a \in Nat, NEW b \in Nat, ~Impossible(a, b) PROVE a - b \in Nat
    BY <2>1 DEF Impossible
  <2> QED BY <1>6, <2>1
<1> QED BY <1>3, <1>4, <1>5, <1>7, SendRecvGathers

LEMMA MinControl ==
  ASSUME Pair, SleepInv, NEW s \in Sims, SleepingReduceMin(s)
  PROVE  ControlInv'
<1>0. /\ \A t \in Sims : RequestOf(t)
      /\ \A t \in Ticks : GatherOf(t)
      /\ NetInv /\ Together /\ asleep # Ticks
      /\ None \notin Nat /\ Infinity \in Nat /\ reduceMin \in [Sims -> NoneOr(Nat)]
      /\ est \in [Sims -> Nat]
  BY TimeAssumption DEF SleepInv, ControlInv, SleepTypes
<1>1. /\ UNCHANGED <<simVars, tickVars, asleep, barrier, reduceSent, nextTimes>>
      /\ s \in req /\ req' = req \ {s} /\ pc[s] \in {"delay", "min"}
  BY DEF SleepingReduceMin, Serve, sleepVars
<1>2. pc' = pc /\ est' = est /\ busy' = busy
  BY <1>1 DEF simVars
<1>3. CASE UNCHANGED <<rep, now>> /\ reduceMin' = [reduceMin EXCEPT ![s] = Proposal(s)]
  <2>1. Keeps(s)
    BY <1>1, <1>3 DEF Keeps
  <2>2. RequestOf(s)'
    BY <1>0, <1>1, <1>2, <1>3 DEF RequestOf, Out, Wakes, Proposal
  <2>3. s \in Ticks => GatherOf(s)'
    BY <1>0, <1>1, <1>2, <1>3 DEF GatherOf, Asks
  <2>4. \A t \in Sims \ {s} : reduceMin'[t] = reduceMin[t]
    BY <1>0, <1>3
  <2> QED BY <1>1, <1>3, <2>1, <2>2, <2>3, <2>4, KeepsControl
<1>4. CASE /\ reduceMin' = [r \in Sims |-> None]
           /\ \A t \in Awake : pc[t] = pc[s] /\ rep[t] = None /\ t \notin req'
           /\ \E v \in Nat :
                /\ ReplyTo(Awake, v) /\ v <= Infinity
                /\ \A t \in Awake : v <= Proposal(t)
                /\ v = Infinity \/ \E t \in Awake : v = Proposal(t)
                /\ now' = IF pc[s] = "min" THEN v ELSE now
  <2>0. PICK v \in Nat :
                /\ ReplyTo(Awake, v) /\ v <= Infinity
                /\ \A t \in Awake : v <= Proposal(t)
                /\ v = Infinity \/ \E t \in Awake : v = Proposal(t)
                /\ now' = IF pc[s] = "min" THEN v ELSE now
    BY <1>4
  <2>1. \A t \in Sims : rep'[t] = IF t \notin asleep THEN v ELSE rep[t]
    BY <2>0 DEF ReplyTo, Awake
  <2>2. \A t \in Sims : t \notin asleep => pc[t] = pc[s] /\ rep[t] = None /\ t \notin req'
    BY <1>4 DEF Awake
  <2>3. \A t \in Sims : RequestOf(t)'
    BY <1>0, <1>1, <1>2, <1>4, <2>1, <2>2 DEF RequestOf, InApp, Out, Wakes, Proposal
  <2>4. \A t \in Ticks : GatherOf(t)'
    BY <1>0, <1>1, <1>2, <2>1, <2>2, NetApart DEF GatherOf, Asks
  <2>5. NetInv'
    BY <1>0, <1>2 DEF NetInv
  <2>6. Together'
    BY <1>0, <1>1, <1>2, <2>1, <2>2 DEF Together, Awake, Stage, After
  <2>7. ASSUME NEW t \in Ticks, NEW o, o = Other(t)
        PROVE  PairOf(t, o)'
    <3>1. Aside(t, o) /\ asleep' = asleep /\ Slots = {1} /\ Mates(t, o)
      BY <1>1, <2>7, AsideOf, OneSlot
    <3>2. /\ rep'[t] = (IF t \notin asleep THEN v ELSE rep[t])
          /\ rep'[o] = (IF o \notin asleep THEN v ELSE rep[o])
          /\ t \notin asleep => pc[t] = pc[s] /\ rep[t] = None
          /\ o \notin asleep => pc[o] = pc[s] /\ rep[o] = None
          /\ v \in Nat /\ pc[s] \in {"delay", "min"}
          /\ now' = IF pc[s] = "min" THEN v ELSE now
      BY <1>1, <2>0, <2>1, <2>2, <3>1, NetApart DEF Aside
    <3>3. pc[s] = "min" =>
            /\ t \notin asleep => v <= est[t]
            /\ o \notin asleep => v <= est[o]
            /\ \/ t \notin asleep /\ v = est[t]
               \/ o \notin asleep /\ v = est[o]
      <4> SUFFICES ASSUME pc[s] = "min"
                   PROVE  /\ t \notin asleep => v <= est[t]
                          /\ o \notin asleep => v <= est[o]
                          /\ \/ t \notin asleep /\ v = est[t]
                             \/ o \notin asleep /\ v = est[o]
        OBVIOUS
      <4>1. \A r \in Awake : Proposal(r) = est[r]
        BY <1>4 DEF Proposal
      <4>2. est[NetSim] = Infinity /\ NetSim \in Awake
        BY <1>0, <2>2, NetApart DEF NetInv, Awake, SleepInv, SleepTypes
      <4>3. /\ t \in Sims /\ o \in Sims /\ est[t] <= Infinity /\ est[o] <= Infinity
            /\ t \notin asleep \/ o \notin asleep
            /\ \A r \in Sims : r = t \/ r = o \/ r = NetSim
        BY <1>0, <3>1, NetApart DEF Aside, PairOf, TimeOf, Mates, Sims
      <4>4. /\ t \notin asleep => v <= est[t]
            /\ o \notin asleep => v <= est[o]
        BY <2>0, <4>1, <4>3 DEF Awake
      <4>5. v = Infinity \/ (t \notin asleep /\ v = est[t]) \/ (o \notin asleep /\ v = est[o])
        BY <2>0, <4>1, <4>2, <4>3 DEF Awake
      <4> QED BY <1>0, <2>0, <4>3, <4>4, <4>5
    <3> QED
      <4>1. OutBeside(t, o)'
        <5> SUFFICES ASSUME Out(t)' PROVE OutBeside(t, o)'
          BY DEF OutBeside
        <5>1. Out(t) /\ t \in asleep /\ asleep = {t} /\ o \notin asleep
          BY <3>1, <3>2 DEF Aside, Same, Out
        <5>2. Reduces(o) /\ pc[o] # "sr" /\ ~Wakes(o) /\ ~Knows(o)
          BY <3>2, <5>1 DEF Reduces, Wakes, Knows
        <5>3. Goes(o, t) /\ now < est[t] /\ base[t] <= now /\ now <= est[o]
          BY <3>1, <5>1, <5>2 DEF Aside, PairOf, Beside, OutBeside, Goes, Reduces, Free, Told
        <5>4. CASE pc[s] = "delay"
          BY <3>1, <3>2, <5>1, <5>2, <5>3, <5>4
          DEF Aside, Same, OutBeside, Goes, Reduces, Told
        <5>5. CASE pc[s] = "min"
          <6>1. now' = est[o] /\ est[o] < est[t] /\ asked[o] < est[t]
                /\ base[o] + Step[o] <= asked[o]
            BY <3>2, <3>3, <5>1, <5>2, <5>3, <5>5 DEF Goes, Reduces
          <6>2. Told(o)' /\ ~Reduces(o)'
            BY <3>1, <3>2, <5>1, <5>5 DEF Aside, Same, Told, Reduces
          <6>3. Goes(o, t)'
            BY <3>1, <3>2, <5>1, <5>3, <6>1, <6>2 DEF Aside, Same, Goes, Told
          <6> QED BY <3>1, <5>3, <6>1, <6>2, <6>3 DEF Aside, Same, OutBeside, TypesOf
        <5> QED BY <3>2, <5>4, <5>5
      <4> USE DEF Aside, PairOf, Beside, OutBeside, WakesBeside, BackBeside, WaitsBeside,
                  ReducesBeside, ToldBeside, AsksBeside, KnowsBeside, FreeBeside, TimeOf, Agree,
                  Judges, Verdict, Goes, MustWake, Listed, Out, Wakes, Back, Told, Free, Waits,
                  Reduces, Asks, Knows, TypesOf, Same, Stage, After, RequestOf
      <4>2. WakesBeside(t, o)' /\ BackBeside(t, o)' /\ WaitsBeside(t, o)' /\ ReducesBeside(t, o)'
            /\ ToldBeside(t, o)' /\ AsksBeside(t, o)' /\ KnowsBeside(t, o)' /\ FreeBeside(t, o)'
            /\ Agree(t, o)' /\ TimeOf(t)'
        BY SMTT(60), <3>1, <3>2, <3>3
      <4> QED BY <4>1, <4>2
  <2> QED BY <1>0, <1>1, <2>3, <2>4, <2>5, <2>6, <2>7 DEF ControlInv
<1> QED BY <1>3, <1>4, MinGathers

LEMMA GatherControl ==
  ASSUME Pair, SleepInv, NEW s \in Sims, AllGather(s)
  PROVE  ControlInv'
<1>0. /\ \A t \in Sims : RequestOf(t)
      /\ \A t \in Ticks : GatherOf(t)
      /\ NetInv /\ Together /\ asleep # Ticks
      /\ None \notin Nat /\ nextTimes \in [Ticks -> NoneOr(Nat)] /\ est \in [Sims -> Nat]
  BY TimeAssumption DEF SleepInv, ControlInv, SleepTypes
<1>1. /\ UNCHANGED <<simVars, tickVars, now, asleep, barrier, reduceSent, reduceMin>>
      /\ s \in req /\ req' = req \ {s} /\ s \in Ticks /\ Asks(s)
  BY GatherGathers DEF AllGather, Serve, histVars
<1>2. pc' = pc /\ est' = est /\ busy' = busy
  BY <1>1 DEF simVars
<1>3. CASE rep' = rep /\ nextTimes' = [nextTimes EXCEPT ![s] = est[s]]
  <2>1. Keeps(s)
    BY <1>1, <1>3 DEF Keeps
  <2>2. RequestOf(s)'
    BY <1>0, <1>1, <1>2, <1>3, NetApart DEF RequestOf, Out, Wakes, Proposal
  <2>3. GatherOf(s)'
    BY <1>0, <1>1, <1>2, <1>3 DEF GatherOf, Asks
  <2>4. \A t \in Ticks \ {s} : nextTimes'[t] = nextTimes[t]
    BY <1>0, <1>3
  <2> QED BY <1>1, <1>3, <2>1, <2>2, <2>3, <2>4, KeepsControl
<1>4. CASE /\ nextTimes' = [t \in Ticks |-> None]
           /\ \A t \in Ticks : Asks(t) /\ t \notin req'
           /\ rep' = [t \in Sims |-> IF t \in Ticks THEN Listed(Other(t)) ELSE rep[t]]
  <2>1. \A t \in Sims : rep'[t] = IF t \in Ticks THEN Listed(Other(t)) ELSE rep[t]
    BY <1>4
  <2>2. \A t \in Ticks : pc[t] = "gather" /\ rep[t] = None /\ t \notin req'
                        /\ Listed(Other(t)) # None
    <3>1. \A t \in Ticks : Listed(Other(t)) # None
      BY ListIsAnswer DEF SleepInv
    <3> QED BY <1>4, <3>1 DEF Asks
  <2>3. \A t \in Sims : RequestOf(t)'
    BY <1>0, <1>1, <1>2, <2>1, <2>2 DEF RequestOf, InApp, Out, Wakes, Proposal
  <2>4. \A t \in Ticks : GatherOf(t)'
    BY <1>0, <1>1, <1>2, <1>4 DEF GatherOf
  <2>5. NetInv'
    BY <1>0, <1>2 DEF NetInv
  <2>6. Together'
    <3>1. \A t \in Sims : Stage(t)' = Stage(t)
      BY <1>2, <2>1, <2>2 DEF Stage
    <3> QED BY <1>0, <1>1, <3>1 DEF Together, Awake
  <2>7. ASSUME NEW t \in Ticks, NEW o, o = Other(t)
        PROVE  PairOf(t, o)'
    <3>1. Aside(t, o) /\ now' = now /\ asleep' = asleep /\ Slots = {1} /\ Mates(t, o)
      BY <1>1, <2>7, AsideOf, OneSlot
    <3>2. /\ rep'[t] = Listed(o) /\ Listed(o)' = Listed(o) /\ rep'[t] # None
          /\ rep'[o] # None
          /\ pc[t] = "gather" /\ rep[t] = None
          /\ pc[o] = "gather" /\ rep[o] = None
      BY <1>2, <2>1, <2>2, <3>1, NetApart DEF Mates, Listed
    <3> QED BY <3>1, <3>2
        DEF Aside, PairOf, Beside, OutBeside, WakesBeside, BackBeside, WaitsBeside, ReducesBeside,
            ToldBeside, AsksBeside, KnowsBeside, FreeBeside, TimeOf, Agree, Judges, Verdict, Goes,
            MustWake, Out, Wakes, Back, Told, Free, Waits, Reduces, Asks, Knows, TypesOf, Same,
            Stage, After, RequestOf
  <2> QED BY <1>0, <1>1, <2>3, <2>4, <2>5, <2>6, <2>7 DEF ControlInv
<1> QED BY <1>3, <1>4, GatherGathers

LEMMA SleepControl ==
  ASSUME Pair, SleepInv, NEW s \in Sims, SleepHandler(s)
  PROVE  ControlInv'
<1> DEFINE m == Other(s)
<1>0. /\ \A t \in Sims : RequestOf(t)
      /\ \A t \in Ticks : GatherOf(t)
      /\ NetInv /\ Together /\ asleep # Ticks
      /\ None \notin Nat
  BY TimeAssumption DEF SleepInv, ControlInv, SleepTypes
<1>1. /\ UNCHANGED <<simVars, tickVars, now, reduceSent, reduceMin, nextTimes>>
      /\ s \in req /\ req' = req \ {s} /\ s \in Ticks /\ s \notin asleep
      /\ pc[s] \in {"wake", "rest"} /\ rep[s] = None
  BY SleepGathers DEF SleepHandler, Serve
<1>2. /\ pc' = pc /\ est' = est /\ busy' = busy
      /\ Mates(s, m) /\ PairOf(s, m) /\ PairOf(m, s)
      /\ \A r \in Sims : r = s \/ r = m \/ r = NetSim
      /\ s \in Sims /\ m \in Sims /\ NetSim \in Sims /\ NetSim \notin Ticks
  BY <1>1, BothOf, NetApart DEF simVars, Sims, Mates, SleepInv
<1> HIDE DEF m
<1>3. CASE /\ asleep = {m} /\ asleep' = {} /\ barrier' = barrier
           /\ ReplyTo(Ticks, Ack)
  <2>1. rep'[s] = 0 /\ rep'[m] = 0 /\ rep'[NetSim] = rep[NetSim]
    BY <1>2, <1>3 DEF ReplyTo, Ack, Mates
  <2>2. Wakes(s) /\ (Out(m) \/ Wakes(m))
    <3>1. Out(m) \/ Wakes(m)
      BY <1>0, <1>2, <1>3 DEF RequestOf
    <3>2. s # m
      BY <1>2 DEF Mates
    <3> QED BY <1>1, <1>2, <1>3, <3>1, <3>2
            DEF PairOf, Beside, OutBeside, WakesBeside, Out, Wakes, Knows, Free, Reduces, Told
  <2>3. \A t \in Sims : RequestOf(t)'
    <3>1. RequestOf(s)' /\ RequestOf(m)'
      BY <1>0, <1>1, <1>2, <1>3, <2>1, <2>2 DEF RequestOf, InApp, Out, Wakes, Proposal
    <3>2. RequestOf(NetSim)'
      BY <1>0, <1>1, <1>2, <1>3, <2>1 DEF RequestOf, Out, Wakes, Proposal
    <3> QED BY <1>2, <3>1, <3>2
  <2>4. \A t \in Ticks : GatherOf(t)'
    BY <1>0, <1>1, <1>2, <2>1, <2>2 DEF GatherOf, Asks, Mates, Out, Wakes
  <2>5. NetInv'
    BY <1>0, <1>2 DEF NetInv
  <2>6. Together'
    <3>1. Stage(s) = Stage(NetSim)
      BY <1>0, <1>1, <1>2, <1>3 DEF Together, Awake, SleepInv, SleepTypes
    <3>2. Stage(s)' = "sr" /\ Stage(m)' = "sr" /\ Stage(NetSim)' = "sr"
      BY <1>0, <1>1, <1>2, <2>1, <2>2, <3>1 DEF Stage, Out, Wakes
    <3> QED BY <1>2, <3>2 DEF Together, Awake
  <2>7. ASSUME NEW t \in Ticks, NEW o, o = Other(t)
        PROVE  PairOf(t, o)'
    <3>1. Aside(t, o) /\ now' = now /\ asleep' = {} /\ Slots = {1}
      BY <1>1, <1>3, <2>7, AsideOf, OneSlot
    <3>2. /\ rep'[t] = 0 /\ rep'[o] = 0
          /\ Out(t) \/ Wakes(t)
          /\ Out(o) \/ Wakes(o)
      BY <1>2, <2>1, <2>2, <3>1 DEF Mates, Aside
    <3> QED BY SMTT(30), <3>1, <3>2
        DEF Aside, PairOf, Beside, OutBeside, WakesBeside, BackBeside, WaitsBeside, ReducesBeside,
            ToldBeside, AsksBeside, KnowsBeside, FreeBeside, TimeOf, Agree, Judges, Verdict, Goes,
            MustWake, Listed, Out, Wakes, Back, Told, Free, Waits, Reduces, Asks, Knows, TypesOf,
            Same, Stage, After, RequestOf
  <2> QED BY <1>0, <1>1, <1>2, <1>3, <2>3, <2>4, <2>5, <2>6, <2>7 DEF ControlInv
<1>4. CASE /\ asleep = {} /\ asleep' = {s} /\ rep' = rep /\ barrier' = barrier
  <2>3. \A t \in Sims : RequestOf(t)'
    BY <1>0, <1>1, <1>2, <1>4 DEF RequestOf, Out, Wakes, Proposal
  <2>4. \A t \in Ticks : GatherOf(t)'
    BY <1>0, <1>1, <1>2, <1>4 DEF GatherOf, Asks
  <2>5. NetInv'
    BY <1>0, <1>2 DEF NetInv
  <2>6. Together' /\ asleep' # Ticks
    BY <1>0, <1>2, <1>4 DEF Together, Awake, Stage, Mates
  <2>7. ASSUME NEW t \in Ticks, NEW o, o = Other(t)
        PROVE  PairOf(t, o)'
    <3>1. Aside(t, o) /\ now' = now /\ asleep' = {s} /\ asleep = {} /\ Slots = {1}
          /\ Mates(t, o)
      BY <1>1, <1>4, <2>7, AsideOf, OneSlot
    <3>2. /\ rep'[t] = rep[t] /\ rep'[o] = rep[o]
          /\ s = t \/ s = o
          /\ Out(s) \/ Wakes(s)
      BY <1>1, <1>2, <1>4, <3>1 DEF Mates, Out, Wakes
    <3> QED BY SMTT(30), <3>1, <3>2
        DEF Aside, PairOf, Beside, OutBeside, WakesBeside, BackBeside, WaitsBeside, ReducesBeside,
            ToldBeside, AsksBeside, KnowsBeside, FreeBeside, TimeOf, Agree, Judges, Verdict, Goes,
            MustWake, Listed, Out, Wakes, Back, Told, Free, Waits, Reduces, Asks, Knows, TypesOf,
            Same, Stage, After, RequestOf
  <2> QED BY <1>0, <2>3, <2>4, <2>5, <2>6, <2>7 DEF ControlInv
<1>5. CASE /\ asleep = {} /\ asleep' = {s}
           /\ barrier' = {} /\ ReplyTo({m, NetSim}, Ack)
           /\ \A t \in {m, NetSim} : pc[t] = "barrier" /\ rep[t] = None /\ t \notin req
  <2>1. rep'[s] = None /\ rep'[m] = 0 /\ rep'[NetSim] = 0
    BY <1>1, <1>2, <1>5 DEF ReplyTo, Ack, Mates
  <2>2. /\ pc[m] = "barrier" /\ rep[m] = None /\ m \notin req
        /\ pc[NetSim] = "barrier" /\ rep[NetSim] = None /\ NetSim \notin req
    BY <1>5
  <2>3. \A t \in Sims : RequestOf(t)'
    <3>1. RequestOf(s)'
      BY <1>0, <1>1, <1>2, <1>5, <2>1 DEF RequestOf, InApp, Out, Wakes, Proposal
    <3>2. RequestOf(NetSim)' /\ RequestOf(m)'
      BY <1>0, <1>1, <1>2, <1>5, <2>1, <2>2 DEF RequestOf, InApp, Out, Wakes, Proposal, Mates
    <3> QED BY <1>2, <3>1, <3>2
  <2>4. \A t \in Ticks : GatherOf(t)'
    BY <1>0, <1>1, <1>2, <2>1, <2>2 DEF GatherOf, Asks, Mates
  <2>5. NetInv'
    BY <1>0, <1>2 DEF NetInv
  <2>6. Together' /\ asleep' # Ticks
    <3>1. Stage(m)' = "sr" /\ Stage(NetSim)' = "sr" /\ s # m
      BY <1>0, <1>2, <2>1, <2>2 DEF Stage, After, Mates
    <3> QED BY <1>2, <1>5, <3>1 DEF Together, Awake, Mates
  <2>7. ASSUME NEW t \in Ticks, NEW o, o = Other(t)
        PROVE  PairOf(t, o)'
    <3>1. Aside(t, o) /\ now' = now /\ asleep' = {s} /\ asleep = {} /\ Slots = {1}
          /\ Mates(t, o)
      BY <1>1, <1>5, <2>7, AsideOf, OneSlot
    <3>2. /\ rep'[t] = (IF s = t THEN None ELSE 0) /\ rep'[o] = (IF s = o THEN None ELSE 0)
          /\ s = t => pc[o] = "barrier" /\ rep[o] = None
          /\ s = o => pc[t] = "barrier" /\ rep[t] = None
          /\ s = t \/ s = o
          /\ Out(s) \/ Wakes(s)
      BY <1>1, <1>2, <1>5, <2>1, <2>2, <3>1 DEF Mates, Out, Wakes
    <3> QED BY ZenonT(60), <3>1, <3>2
        DEF Aside, PairOf, Beside, OutBeside, WakesBeside, BackBeside, WaitsBeside, ReducesBeside,
            ToldBeside, AsksBeside, KnowsBeside, FreeBeside, TimeOf, Agree, Judges, Verdict, Goes,
            MustWake, Listed, Out, Wakes, Back, Told, Free, Waits, Reduces, Asks, Knows, TypesOf,
            Same, Stage, After, RequestOf
  <2> QED BY <1>0, <2>3, <2>4, <2>5, <2>6, <2>7 DEF ControlInv
<1> QED BY <1>3, <1>4, <1>5, SleepGathers DEF m

\* Messages on their way change nothing the collectives depend on.
LEMMA QuietControl ==
  ASSUME Pair, SleepInv,
         UNCHANGED <<simVars, brokerVars, req, rep, now, sleepVars>>
  PROVE  ControlInv'
<1>1. /\ \A t \in Sims : RequestOf(t)
      /\ \A t \in Ticks : GatherOf(t)
      /\ NetInv /\ Together /\ asleep # Ticks
      /\ \A t \in Ticks : PairOf(t, Other(t))
  BY DEF SleepInv, ControlInv
<1>2. /\ UNCHANGED <<tickVars, rep, now, asleep, nextTimes>>
      /\ UNCHANGED <<pc, est, busy, barrier, reduceSent, reduceMin, req>>
  BY DEF simVars, brokerVars, sleepVars
<1>3. \A t \in Sims : Still(t)
  BY <1>2 DEF Still, Same, simVars, tickVars
<1>4. \A t \in Sims : RequestOf(t)'
  BY <1>1, <1>2 DEF RequestOf, Out, Wakes, Proposal
<1>5. \A t \in Ticks : GatherOf(t)'
  BY <1>1, <1>2 DEF GatherOf, Asks
<1>6. NetInv' /\ Together' /\ (asleep # Ticks)'
  BY <1>1, <1>2 DEF NetInv, Together, Stage, Awake
<1>7. \A t \in Ticks : PairOf(t, Other(t))'
  <2> TAKE t \in Ticks
  <2>1. Mates(t, Other(t)) /\ PairOf(t, Other(t))
    BY <1>1, Pairing
  <2>2. Still(t) /\ Still(Other(t)) /\ Other(t) \in Ticks
    BY <1>3, <2>1, NetApart DEF Mates
  <2> QED BY <1>2, <2>1, <2>2, StillPair
<1> QED BY <1>4, <1>5, <1>6, <1>7 DEF ControlInv

LEMMA ControlNext ==
  ASSUME Pair, SleepInv, AllTypes', broker' = "up", [SleepingNext]_sleepingVars
  PROVE  ControlInv'
<1>1. CASE UNCHANGED sleepingVars
  BY <1>1, QuietControl DEF sleepingVars, vars, histVars
<1>2. ASSUME NEW s \in Sims, SleepingClientStep(s)
      PROVE  ControlInv'
  <2>1. Moves(s)
    BY <1>2, ClientMoves
  <2>2. CASE s = NetSim
    <3>1. NetInv'
      <4>1. /\ NetInv /\ RequestOf(NetSim) /\ NetSim \in Sims /\ NetSim \notin Ticks
            /\ pc \in [Sims -> Places] /\ est \in [Sims -> Nat]
            /\ busy \in [Sims -> BOOLEAN]
        BY NetApart DEF SleepInv, ControlInv, SleepTypes
      <4>2. CASE SleepingStepStart(NetSim)
        BY <4>1, <4>2 DEF SleepingStepStart, StepStart, Call, NetInv
      <4>3. CASE SleepingBarrierDone(NetSim)
        BY <4>1, <4>3 DEF SleepingBarrierDone, BarrierDone, BusyBarrierDone, NetInv
      <4>4. CASE SleepingGetNextTime(NetSim)
        BY <4>1, <4>4, GetNextIs DEF NetInv
      <4>5. CASE SleepingDelayDone(NetSim)
        BY <4>1, <4>5 DEF SleepingDelayDone, TakeReply, Call, NetInv
      <4> QED BY <1>2, <2>2, <4>1, <4>2, <4>3, <4>4, <4>5
              DEF SleepingClientStep, WakeDone, RestDone, SleepingTickDiff, TickDiff,
                  SleepingMinDone, GatherDone
    <3> QED BY <2>1, <2>2, <3>1, NetApart, ControlAfter
  <2>3. CASE s \in Ticks
    <3>1. s # NetSim
      BY <2>3, NetApart
    <3>2. PairOf(s, Other(s))' /\ PairOf(Other(s), s)'
      BY <1>2, <2>3, ClientPair
    <3> QED BY <2>1, <3>1, <3>2, ControlAfter
  <2> QED BY <2>2, <2>3 DEF Sims
<1>3. CASE SleepingNetStep
  BY <1>3, NetMoves, NetApart, ControlAfter
<1>4. ASSUME NEW s \in Sims, SleepingBrokerStep(s)
      PROVE  ControlInv'
  BY <1>4, BarrierControl, SendRecvControl, MinControl, GatherControl, SleepControl
  DEF SleepingBrokerStep
<1>5. ASSUME NEW m \in Msgs, SleepingCarry(m)
      PROVE  ControlInv'
  <2>1. UNCHANGED <<simVars, brokerVars, req, rep, now, sleepVars>>
    BY <1>5 DEF SleepingCarry, Carry, TickReceive, NetReceive, DelayHandler, RouteHandler,
                histVars
  <2> QED BY <2>1, QuietControl
<1> QED BY <1>1, <1>2, <1>3, <1>4, <1>5 DEF SleepingNext

-----------------------------------------------------------------------------
(* The counters.                                                           *)

\* What has arrived is counted, after the counters were copied.
LEMMA TakeAllCount ==
  ASSUME CommTypes, CountInv, NEW s \in Ticks, NEW A \in SUBSET Arrived(s), pc[s] # "sr",
         TakeAll(s, A), UNCHANGED <<sendCount, packets, sentTotal, recvTotal, sentIn, recvIn>>
  PROVE  CountInv'
<1> DEFINE new == A \ {m \in A : mtime[m] < GraceTime(cur[s])}
<1>0. s \in Sims /\ s # NetSim /\ loc \in [Msgs -> Locs] /\ packets \subseteq Msgs
      /\ copied \subseteq Msgs /\ recvIn \subseteq Msgs
  BY NetApart DEF CommTypes
<1>1. /\ new \in SUBSET Msgs /\ \A m \in A : m \in Msgs /\ loc[m] = "toSim" /\ To[m] = s
      /\ \A m \in Msgs : m \notin A => loc'[m] = loc[m]
      /\ \A m \in new : loc'[m] = "delivered"
      /\ \A m \in A : m \notin new => loc'[m] = "dropped"
      /\ new \subseteq A
  BY DEF TakeAll, Arrived
<1>2. /\ receiveCount' = [receiveCount EXCEPT ![s] = @ + Cardinality(new)]
      /\ sendCopy' = [sendCopy EXCEPT ![s] = sendCount[s]]
      /\ recvCopy' = [recvCopy EXCEPT ![s] = receiveCount[s]]
      /\ copied' = copied \cup Received(s)
      /\ pc' = [pc EXCEPT ![s] = "sr"] /\ req' = req \cup {s}
  BY DEF TakeAll, RequestDiff, Call
<1> HIDE DEF new
<1>3. Received(s)' = Received(s) \cup new /\ Received(s) \cap new = {}
  BY <1>0, <1>1 DEF Received
<1>4. \A t \in Sims : t # s => Received(t)' = Received(t) /\ new \cap Received(t) = {}
  BY SMTT(30), <1>0, <1>1, SimsAssumption DEF Received, Sims
<1>5. \A t \in Sims : Sent(t)' = Sent(t)
  BY <1>0, <1>1 DEF Sent
<1>6. Done \subseteq Done' /\ Received(s) \subseteq Done' /\ new \cap copied = {}
  <2>1. Done \subseteq Done'
    BY <1>0, <1>1 DEF Done
  <2>2. Received(s) \subseteq Done
    BY <1>0, SetTypes
  <2>3. new \cap copied = {}
    BY <1>0, <1>1 DEF CountInv, Totals, Done
  <2> QED BY <2>1, <2>2, <2>3
<1>7. Totals'
  <2>1. \A m \in packets : m \notin A /\ loc'[m] = "held"
    BY <1>0, <1>1 DEF CountInv, Totals
  <2>2. \A m \in sentIn : loc'[m] # "unsent"
    BY <1>0, <1>1 DEF CountInv, Totals, CommTypes
  <2> QED BY <1>2, <1>6, <2>1, <2>2 DEF CountInv, Totals
<1>8. SendTally(s)' /\ RecvTally(s)'
  <2>1. ~Tallied(s)' /\ Pending(s)' /\ ~Tallied(s)
    BY <1>0, <1>2 DEF Tallied, Pending, CommTypes
  <2>2. /\ sendCopy'[s] = sendCount'[s] /\ recvCopy'[s] = receiveCount[s]
        /\ receiveCount'[s] = receiveCount[s] + Cardinality(new)
    BY <1>0, <1>2 DEF CommTypes
  <2>3. /\ receiveCount[s] = Cardinality(Received(s) \ recvIn)
        /\ sendCount[s] = Cardinality(Sent(s) \ sentIn)
    BY <1>0, <2>1 DEF CountInv, RecvTally, SendTally
  <2>4. new \cap recvIn = {}
    BY <1>0, <1>1 DEF CountInv, Totals, Done
  <2>5. /\ Received(s)' \ recvIn' = (Received(s) \ recvIn) \cup new
        /\ (Received(s) \ recvIn) \cap new = {} /\ Received(s) \ recvIn \in SUBSET Msgs
    BY <1>0, <1>3, <2>4, SetTypes
  <2>6. receiveCount'[s] = Cardinality(Received(s)' \ recvIn')
    BY <1>1, <2>2, <2>3, <2>5, CardSplit
  <2>7. (copied' \cap Received(s)') \ recvIn' = Received(s) \ recvIn
    BY <1>0, <1>2, <1>3, <1>6
  <2> QED BY <1>0, <1>5, <2>1, <2>2, <2>3, <2>6, <2>7 DEF SendTally, RecvTally
<1>9. ASSUME NEW t \in Sims, t # s PROVE SendTally(t)' /\ RecvTally(t)'
  <2>1. (Pending(t)' <=> Pending(t)) /\ (Tallied(t)' <=> Tallied(t))
    BY <1>0, <1>2, <1>9 DEF Pending, Tallied, CommTypes
  <2>2. SendTally(t) /\ RecvTally(t)
    BY DEF CountInv
  <2>3. copied' \cap Received(t)' = copied \cap Received(t)
    BY <1>0, <1>2, <1>3, <1>4, <1>9, Disjoint
  <2>4. UNCHANGED <<Sent(t), Received(t), sendCount[t], receiveCount[t],
                    sendCopy[t], recvCopy[t]>>
    BY <1>0, <1>2, <1>4, <1>5, <1>9 DEF CommTypes
  <2> QED BY <2>1, <2>2, <2>3, <2>4 DEF SendTally, RecvTally
<1> QED BY <1>7, <1>8, <1>9 DEF CountInv

LEMMA SleepUnanswered == ControlInv => Unanswered
  BY DEF ControlInv, RequestOf, Unanswered

\* While somebody knows, nobody is before sendAll.
LEMMA NobodySends ==
  ASSUME SleepInv, NEW s \in Sims, KnowsSettled(s), NEW t \in Sims
  PROVE  pc[t] \notin {"idle", "work"}
<1>1. /\ None \notin Nat /\ \A r \in Sims : RequestOf(r)
      /\ Together
  BY TimeAssumption DEF SleepInv, ControlInv
<1>2. s \in Awake /\ Stage(s) \in {"delay", "min"}
  BY <1>1 DEF KnowsSettled, RequestOf, Out, Wakes, Awake, Stage, After
<1>3. CASE t \in asleep
  BY <1>1, <1>3 DEF RequestOf, Out, Wakes
<1>4. CASE t \notin asleep
  <2>1. Stage(t) \in {"delay", "min"}
    BY <1>1, <1>2, <1>4 DEF Together, Awake
  <2> QED BY <2>1 DEF Stage
<1> QED BY <1>3, <1>4

\* The messages are all received, and reported, where the totals agree.
LEMMA KnownSettled ==
  ASSUME SleepInv, NEW s \in Sims, KnowsSettled(s), pc[s] # "sr"
  PROVE  /\ AllSettled /\ Sent(s) \subseteq sentIn
         /\ sendCount[s] = 0 /\ receiveCount[s] = 0
<1>1. AllSettled /\ Sent(s) \subseteq sentIn
  BY DEF SleepInv, SettledInv, KnowsSettled
<1>2. Sent(s) \ sentIn = {} /\ Received(s) \ recvIn = {}
  BY <1>1 DEF AllSettled, Received
<1>3. /\ sendCount[s] = Cardinality(Sent(s) \ sentIn)
      /\ receiveCount[s] = Cardinality(Received(s) \ recvIn)
  BY DEF SleepInv, CountInv, SendTally, RecvTally, Tallied
<1> QED BY <1>1, <1>2, <1>3, FS_EmptySet

\* Resetting the counters after a difference of zero changes nothing.
LEMMA NothingToReset ==
  ASSUME SleepInv, NEW s \in Sims, SleepingDelayDone(s)
  PROVE  UNCHANGED commVars
<1>1. sendCount \in [Sims -> Nat] /\ receiveCount \in [Sims -> Nat]
  BY DEF SleepInv, CommTypes
<1>2. /\ pc[s] = "delay" /\ UNCHANGED <<sendCopy, recvCopy, packets>>
      /\ sendCount' = [sendCount EXCEPT ![s] = IF Settled(s) THEN 0 ELSE @]
      /\ receiveCount' = [receiveCount EXCEPT ![s] = IF Settled(s) THEN 0 ELSE @]
  BY DEF SleepingDelayDone, TakeReply
<1>3. CASE Settled(s)
  <2>1. KnowsSettled(s)
    BY <1>2, <1>3 DEF Settled, KnowsSettled, Sims
  <2> QED BY <1>1, <1>2, <1>3, <2>1, KnownSettled DEF commVars
<1>4. CASE ~Settled(s)
  BY <1>1, <1>2, <1>4 DEF commVars
<1> QED BY <1>3, <1>4

\* Nor does it where the network simulator resets them instead of subtracting
\* what it reported.
LEMMA ResetSubtracts ==
  ASSUME SleepInv, NetReset
  PROVE  NetDiff
<1>1. /\ sendCount \in [Sims -> Nat] /\ receiveCount \in [Sims -> Nat] /\ NetSim \in Sims
      /\ sendCopy \in [Sims -> Nat] /\ recvCopy \in [Sims -> Nat]
  BY NetApart DEF SleepInv, CommTypes
<1>2. pc[NetSim] = "sr" /\ rep[NetSim] = 0 /\ rep[NetSim] # None
  BY DEF NetReset, TakeReply
<1>3. AllSettled
  BY <1>1, <1>2 DEF SleepInv, SettledInv, KnowsSettled
<1>4. NetSim \notin req
  BY <1>1, <1>2 DEF SleepInv, ControlInv, RequestOf
<1>5. Received(NetSim) \ recvIn = {}
  BY <1>3 DEF AllSettled, Received
<1>6. sendCount[NetSim] = sendCopy[NetSim] /\ receiveCount[NetSim] = recvCopy[NetSim]
  <2>1. Tallied(NetSim) /\ Cardinality({}) = 0
    BY <1>2, <1>4, FS_EmptySet DEF Tallied
  <2>2. /\ sendCount[NetSim] = sendCopy[NetSim]
        /\ receiveCount[NetSim] = recvCopy[NetSim] + Cardinality(Received(NetSim) \ recvIn)
    BY <1>1, <2>1 DEF SleepInv, CountInv, SendTally, RecvTally
  <2>3. receiveCount[NetSim] = recvCopy[NetSim] + 0
    BY <1>5, <2>1, <2>2
  <2> QED BY <1>1, <2>2, <2>3
<1>7. /\ Subtract(sendCount, sendCopy, NetSim) = [sendCount EXCEPT ![NetSim] = 0]
      /\ [receiveCount EXCEPT ![NetSim] = @ - recvCopy[NetSim] + Cardinality({})]
           = [receiveCount EXCEPT ![NetSim] = 0]
  <2>1. sendCount[NetSim] - sendCopy[NetSim] = 0
    BY <1>1, <1>6
  <2>2. receiveCount[NetSim] - recvCopy[NetSim] + Cardinality({}) = 0
    <3>1. Cardinality({}) = 0
      BY FS_EmptySet
    <3> QED BY <1>1, <1>6, <3>1
  <2> QED BY <2>1, <2>2 DEF Subtract
<1>8. ~(rep[NetSim] > 0) /\ packets \ {} = packets
  BY <1>2
<1> QED BY <1>7, <1>8 DEF NetReset, NetDiff

-----------------------------------------------------------------------------
(* The collection of the counters.                                         *)

LEMMA SleepTally ==
  ASSUME Pair, SleepInv, NEW s \in Sims, SleepingSendRecv(s)
  PROVE  /\ CountInv' /\ s \notin reduceSent
         /\ UNCHANGED <<pc, loc, packets, copied, respond, even, asleep>>
         /\ req' = req \ {s}
         /\ sentIn' = sentIn \cup Sent(s)
         /\ recvIn' = recvIn \cup (copied \cap Received(s))
<1>1. Pending(s) /\ s \notin reduceSent
  BY SendRecvGathers DEF Pending
<1>2. /\ req' = req \ {s}
      /\ sentTotal' = sentTotal + sendCopy[s]
      /\ recvTotal' = recvTotal + recvCopy[s]
      /\ sentIn' = sentIn \cup Sent(s)
      /\ recvIn' = recvIn \cup (copied \cap Received(s))
      /\ UNCHANGED <<commVars, loc, pc, copied, respond, even, asleep>>
  BY SendRecvGathers DEF SleepingSendRecv, Serve, simVars, msgVars, sleepVars, tickVars
<1> QED BY <1>1, <1>2, TallyCount DEF SleepInv, commVars

\* When all that are awake have reported, everything sent is in the sum, and
\* what was received is part of it.
LEMMA AwakeReported ==
  ASSUME Pair, SleepInv, NEW s \in Sims, SleepingSendRecv(s), AllTypes',
         reduceSent \cup {s} = Awake
  PROVE  /\ recvTotal' <= sentTotal'
         /\ sentTotal' - recvTotal' = 0 => AllSettled'
<1>1. /\ CountInv' /\ s \notin reduceSent
      /\ UNCHANGED <<pc, loc, packets, copied>> /\ req' = req \ {s}
      /\ sentIn' = sentIn \cup Sent(s)
      /\ \A t \in Sims : RequestOf(t)
      /\ pc[s] = "sr" /\ rep[s] = None /\ s \in req
  <2>1. pc[s] = "sr" /\ s \in req
    BY SendRecvGathers
  <2> QED BY <2>1, SleepTally DEF SleepInv, ControlInv, RequestOf
<1>2. ASSUME NEW t \in Sims PROVE Sent(t) \subseteq sentIn'
  <2>1. CASE t = s
    BY <1>1, <2>1
  <2>2. CASE t \in reduceSent
    <3>1. Tallied(t)
      BY <1>1, <2>2 DEF RequestOf, Tallied
    <3> QED BY <1>1, <3>1 DEF SleepInv, CountInv, SendTally
  <2>3. CASE t \in asleep
    <3>1. t \in Ticks /\ s \notin asleep
      BY <1>1, <2>3 DEF SleepInv, SleepTypes, RequestOf
    <3>2. Out(t)
      <4>1. CASE s = NetSim
        <5>1. Awake = Sims \ asleep /\ t \in Sims
          BY DEF Awake
        <5>2. /\ Mates(t, Other(t)) /\ PairOf(t, Other(t)) /\ RequestOf(t)
          BY <3>1, BothOf DEF SleepInv
        <5>3. Other(t) \in Sims /\ Other(t) # NetSim /\ asleep # Ticks
          BY <5>2, NetApart DEF Mates, SleepInv, ControlInv
        <5>4. Other(t) \notin asleep
          BY <2>3, <5>2, <5>3 DEF Mates, SleepInv, SleepTypes
        <5>5. Other(t) \in reduceSent
          BY <4>1, <5>3, <5>4 DEF Awake
        <5>6. pc[Other(t)] = "sr" /\ rep[Other(t)] = None
          BY <1>1, <5>3, <5>5 DEF RequestOf
        <5> QED BY <2>3, <5>2, <5>6
                DEF RequestOf, PairOf, Beside, WakesBeside, Out, Wakes, Free
      <4>2. CASE s # NetSim
        <5>1. s = Other(t) /\ PairOf(t, Other(t)) /\ RequestOf(t)
          BY <2>3, <3>1, <4>2, BothOf DEF SleepInv, Sims, Mates
        <5> QED BY <1>1, <2>3, <5>1
                DEF RequestOf, PairOf, Beside, WakesBeside, Out, Wakes, Free
      <4> QED BY <4>1, <4>2
    <3> QED BY <1>1, <3>2 DEF SleepInv, SettledInv
  <2> QED BY <2>1, <2>2, <2>3 DEF Awake
<1>3. \A m \in Msgs : loc'[m] # "unsent" => m \in sentIn'
  BY <1>1, <1>2, SimsAssumption DEF Sent, Sims
<1>4. recvIn' \subseteq sentIn'
  <2>1. Done' \subseteq {m \in Msgs : loc'[m] # "unsent"}
    BY <1>1 DEF Done
  <2> QED BY <1>1, <1>3, <2>1 DEF CountInv, Totals
<1>5. /\ sentIn' \in SUBSET Msgs /\ recvIn' \in SUBSET sentIn'
      /\ sentTotal' \in Nat /\ recvTotal' \in Nat
      /\ sentTotal' = Cardinality(sentIn') /\ recvTotal' = Cardinality(recvIn')
  BY <1>1, <1>4 DEF CountInv, Totals, AllTypes, CommTypes
<1>6. recvTotal' <= sentTotal' /\ (recvTotal' = sentTotal' => recvIn' = sentIn')
  BY <1>5, CardSub
<1>7. sentTotal' - recvTotal' = 0 => AllSettled'
  BY <1>3, <1>5, <1>6 DEF AllSettled
<1> QED BY <1>6, <1>7

LEMMA SendRecvCounts ==
  ASSUME Pair, SleepInv, NEW s \in Sims, SleepingSendRecv(s), AllTypes'
  PROVE  CountInv' /\ SettledInv' /\ broker' = "up"
<1>0. /\ UNCHANGED <<pc, loc, respond, even, asleep>> /\ CountInv'
      /\ sentIn \subseteq sentIn' /\ recvIn \subseteq recvIn'
      /\ \A t \in Sims : Sent(t)' = Sent(t)
  BY SleepTally DEF Sent
<1>1. /\ broker = "up" /\ SettledInv /\ Ticks \subseteq Sims
      /\ \A t \in Sims : RequestOf(t)
  BY NetApart DEF SleepInv, ControlInv
<1>2. AllSettled => AllSettled'
  BY <1>0 DEF AllSettled
<1>3. CASE rep' = rep /\ broker' = broker
  <2>1. \A t \in Sims : (KnowsSettled(t)' <=> KnowsSettled(t)) /\ Out(t)' = Out(t)
    BY <1>0, <1>3 DEF KnowsSettled, Out
  <2> QED BY <1>0, <1>1, <1>2, <1>3, <2>1 DEF SettledInv
<1>4. CASE /\ reduceSent \cup {s} = Awake
           /\ \A t \in Awake : pc[t] = "sr" /\ rep[t] = None /\ t \notin req'
           /\ \/ Impossible(sentTotal', recvTotal') /\ rep' = rep
              \/ /\ ~Impossible(sentTotal', recvTotal')
                 /\ ReplyTo(Awake, sentTotal' - recvTotal') /\ broker' = broker
  <2>1. /\ recvTotal' <= sentTotal'
        /\ sentTotal' - recvTotal' = 0 => AllSettled'
    BY <1>4, AwakeReported
  <2>2. ~Impossible(sentTotal', recvTotal')
    <3>1. sentTotal' \in Nat /\ recvTotal' \in Nat
      BY DEF AllTypes, CommTypes
    <3> QED BY <2>1, <3>1 DEF Impossible
  <2>3. /\ broker' = broker
        /\ \A t \in Sims : rep'[t] = IF t \in Awake THEN sentTotal' - recvTotal' ELSE rep[t]
    BY <1>4, <2>2 DEF ReplyTo
  <2>4. \A t \in Sims : Out(t)' => Out(t)
    BY <1>0, <1>4, <2>3 DEF Out
  <2>5. ASSUME NEW t \in Sims, KnowsSettled(t)' PROVE AllSettled'
    <3>1. CASE t \in Awake
      <4>1. pc'[t] = "sr" /\ rep'[t] = sentTotal' - recvTotal'
        BY <1>0, <1>4, <2>3, <3>1
      <4> QED BY <2>1, <2>5, <4>1 DEF KnowsSettled
    <3>2. CASE t \notin Awake
      <4>1. KnowsSettled(t)
        BY <1>0, <2>3, <2>5, <3>2 DEF KnowsSettled
      <4> QED BY <1>1, <1>2, <4>1 DEF SettledInv
    <3> QED BY <3>1, <3>2
  <2> QED BY <1>0, <1>1, <2>3, <2>4, <2>5 DEF SettledInv
<1> QED BY <1>0, <1>1, <1>3, <1>4, SendRecvGathers

-----------------------------------------------------------------------------
(* The steps of the simulators.                                            *)

\* sendAll, followed by a step that reports nothing.
LEMMA SendingCounts ==
  ASSUME CommTypes, CountInv, NEW s \in Sims, NEW M \in SUBSET Outbox(s), SendAll(s, M),
         pc[s] # "sr", pc'[s] # "sr", req' = req \cup {s},
         \A t \in Sims \ {s} : pc'[t] = pc[t],
         UNCHANGED <<receiveCount, sendCopy, recvCopy, sentTotal, recvTotal, countVars>>
  PROVE  CountInv'
<1>1. /\ \A t \in Sims : Received(t)' = Received(t)
      /\ \A t \in Sims : t # s => Sent(t)' = Sent(t)
      /\ \A m \in packets' : loc'[m] = "held"
      /\ \A m \in Msgs : loc[m] # "unsent" => loc'[m] # "unsent"
      /\ Done' = Done
      /\ sendCount'[s] = Cardinality(Sent(s)' \ sentIn)
      /\ \A t \in Sims : t # s => sendCount'[t] = sendCount[t]
  BY SendAllCount
<1>2. Totals'
  <2>1. sentIn \subseteq Msgs
    BY DEF CommTypes
  <2> QED BY <1>1, <2>1 DEF CountInv, Totals, countVars
<1>3. ASSUME NEW t \in Sims PROVE SendTally(t)' /\ RecvTally(t)'
  <2>1. (Pending(t)' <=> Pending(t)) /\ (Tallied(t)' <=> Tallied(t))
    BY DEF Pending, Tallied
  <2>2. SendTally(t) /\ RecvTally(t)
    BY DEF CountInv
  <2>3. RecvTally(t)'
    BY <1>1, <2>1, <2>2 DEF RecvTally, countVars
  <2>4. CASE t = s
    BY <1>1, <2>1, <2>3, <2>4 DEF SendTally, Pending, Tallied, countVars
  <2>5. CASE t # s
    BY <1>1, <2>1, <2>2, <2>3, <2>5 DEF SendTally, countVars
  <2> QED BY <2>4, <2>5
<1> QED BY <1>2, <1>3 DEF CountInv

\* sendAll, after which the counters are copied.
LEMMA ReportingCounts ==
  ASSUME CommTypes, CountInv, NEW s \in Sims, NEW M \in SUBSET Outbox(s), SendAll(s, M),
         pc[s] # "sr", RequestDiff(s, sendCount'[s]),
         UNCHANGED <<receiveCount, sentTotal, recvTotal, sentIn, recvIn>>
  PROVE  CountInv'
<1>1. /\ \A t \in Sims : Received(t)' = Received(t)
      /\ \A t \in Sims : t # s => Sent(t)' = Sent(t)
      /\ \A m \in packets' : loc'[m] = "held"
      /\ \A m \in Msgs : loc[m] # "unsent" => loc'[m] # "unsent"
      /\ Done' = Done
      /\ sendCount'[s] = Cardinality(Sent(s)' \ sentIn)
      /\ \A t \in Sims : t # s => sendCount'[t] = sendCount[t]
  BY SendAllCount
<1>2. \A m \in sentIn : loc'[m] # "unsent"
  <2>1. sentIn \subseteq Msgs
    BY DEF CommTypes
  <2> QED BY <1>1, <2>1 DEF CountInv, Totals
<1> QED BY <1>1, <1>2, CopyCount DEF RequestDiff, Call

LEMMA SimulatorCounts ==
  ASSUME Pair, SleepInv, NEW s \in Sims, SleepingClientStep(s)
  PROVE  CountInv'
<1>0. CommTypes /\ CountInv /\ Unanswered
  BY SleepUnanswered DEF SleepInv
<1>1. CASE SleepingStepStart(s)
  <2>1. ClientStep(s)
    BY <1>1 DEF SleepingStepStart, ClientStep
  <2> QED BY <1>0, <2>1, ClientCount
<1>2. CASE SleepingBarrierDone(s) \/ SleepingTickDiff(s)
  <2>1. ClientStep(s)
    BY <1>2 DEF SleepingBarrierDone, SleepingTickDiff, ClientStep
  <2> QED BY <1>0, <2>1, ClientCount
<1>3. CASE SleepingGetNextTime(s)
  <2>1. PICK M \in SUBSET Outbox(s), next \in AskedTimes(s) :
          /\ pc[s] = "work" /\ SendAll(s, M)
          /\ UNCHANGED <<receiveCount, brokerVars, sentIn, recvIn>>
          /\ req' = req \cup {s}
          /\ \/ /\ pc' = [pc EXCEPT ![s] = "wake"]
                /\ UNCHANGED <<sendCopy, recvCopy, copied>>
             \/ pc' = [pc EXCEPT ![s] = "sr"] /\ RequestDiff(s, sendCount'[s])
    BY <1>3, GetNextIs
  <2>2. CASE pc' = [pc EXCEPT ![s] = "wake"] /\ UNCHANGED <<sendCopy, recvCopy, copied>>
    <3>1. pc'[s] = "wake" /\ \A t \in Sims \ {s} : pc'[t] = pc[t]
      BY <1>0, <2>2 DEF CommTypes
    <3> QED BY <1>0, <2>1, <2>2, <3>1, SendingCounts DEF brokerVars, countVars
  <2>3. CASE RequestDiff(s, sendCount'[s])
    BY <1>0, <2>1, <2>3, ReportingCounts DEF brokerVars
  <2> QED BY <2>1, <2>2, <2>3
<1>4. CASE WakeDone(s)
  <2>1. PICK A \in SUBSET Arrived(s) : TakeAll(s, A)
    BY <1>4, WakeIs
  <2>2. /\ s \in Ticks /\ pc[s] = "wake"
        /\ UNCHANGED <<sendCount, packets, sentTotal, recvTotal, sentIn, recvIn>>
    BY <1>4, WakeIs DEF TakeReply, brokerVars
  <2> QED BY <1>0, <2>1, <2>2, TakeAllCount
<1>5. CASE RestDone(s)
  <2>1. PICK A \in SUBSET Arrived(s) : TakeAll(s, A)
    BY <1>5, RestIs
  <2>2. /\ s \in Ticks /\ pc[s] = "rest"
        /\ UNCHANGED <<sendCount, packets, sentTotal, recvTotal, sentIn, recvIn>>
    BY <1>5, RestIs DEF TakeReply, brokerVars
  <2> QED BY <1>0, <2>1, <2>2, TakeAllCount
<1>6. CASE SleepingDelayDone(s)
  <2>1. UNCHANGED <<commVars, loc, sentTotal, recvTotal, countVars>>
    BY <1>6, NothingToReset DEF SleepingDelayDone, brokerVars, msgVars, histVars
  <2>2. pc[s] = "delay" /\ pc' = [pc EXCEPT ![s] = "min"] /\ req' = req \cup {s}
    BY <1>6 DEF SleepingDelayDone, TakeReply, Call
  <2> QED BY <1>0, <2>1, <2>2, QuietCount DEF CommTypes
<1>7. CASE SleepingMinDone(s) \/ GatherDone(s)
  <2>1. UNCHANGED <<commVars, loc, sentTotal, recvTotal, countVars>>
    BY <1>7 DEF SleepingMinDone, GatherDone, brokerVars, msgVars, histVars
  <2>2. /\ pc[s] \in {"min", "gather"}
        /\ \E p \in {"gather", "rest", "barrier", "idle"} : pc' = [pc EXCEPT ![s] = p]
        /\ req' = req \cup {s} \/ req' = req
    BY <1>7 DEF SleepingMinDone, GatherDone, TakeReply, Proceed, Call
  <2> QED BY <1>0, <2>1, <2>2, QuietCount DEF CommTypes
<1> QED BY <1>1, <1>2, <1>3, <1>4, <1>5, <1>6, <1>7 DEF SleepingClientStep

LEMMA NetCounts ==
  ASSUME Pair, SleepInv, SleepingNetStep
  PROVE  CountInv'
<1>0. CommTypes /\ CountInv /\ Unanswered
  BY SleepUnanswered DEF SleepInv
<1>1. NetStep
  BY ResetSubtracts DEF SleepingNetStep, SleepingNetDiff, SleepingNetGranted, NetStep
<1> QED BY <1>0, <1>1, ClientCount

\* What is known of the messages stays true.
LEMMA StepSettles ==
  ASSUME SleepInv, NEW s \in Sims, Moves(s), UNCHANGED <<sentIn, recvIn>>,
         \A t \in Sims : Sent(t)' = Sent(t),
         AllSettled => AllSettled',
         pc'[s] \in {"delay", "min", "gather", "rest"} => Sent(s) \subseteq sentIn,
         s \in Ticks /\ pc'[s] \in {"delay", "min"} /\ ~respond'[s] => even'[s],
         KnowsSettled(s)' => KnowsSettled(s)
  PROVE  SettledInv'
<1>1. Ticks \subseteq Sims /\ SettledInv
  BY NetApart DEF SleepInv
<1>2. \A t \in Sims \ {s} : /\ pc'[t] = pc[t] /\ rep'[t] = rep[t]
                            /\ t \in Ticks => even'[t] = even[t] /\ respond'[t] = respond[t]
  BY DEF Moves, Still, Same
<1>3. \A t \in Sims : KnowsSettled(t)' => KnowsSettled(t)
  BY <1>2 DEF KnowsSettled
<1>4. \A t \in Sims : pc'[t] \in {"delay", "min", "gather"} \/ Out(t)' =>
                        Sent(t)' \subseteq sentIn'
  BY <1>1, <1>2 DEF SettledInv, Out
<1>5. \A t \in Ticks : pc'[t] \in {"delay", "min"} /\ ~respond'[t] => even'[t]
  BY <1>1, <1>2 DEF SettledInv
<1> QED BY <1>1, <1>3, <1>4, <1>5 DEF SettledInv

LEMMA SimulatorSettles ==
  ASSUME Pair, SleepInv, NEW s \in Sims, SleepingClientStep(s)
  PROVE  SettledInv'
<1>0. /\ Ticks \subseteq Sims /\ SettledInv /\ Moves(s) /\ None \notin Nat
      /\ pc \in [Sims -> Places] /\ DOMAIN rep = Sims
      /\ RequestOf(s) /\ loc \in [Msgs -> Locs]
      /\ even \in [Ticks -> BOOLEAN] /\ respond \in [Sims -> BOOLEAN]
  BY ClientMoves, NetApart, TimeAssumption
  DEF SleepInv, SleepTypes, CommTypes, ControlInv
<1>1. CASE SleepingStepStart(s) \/ SleepingGetNextTime(s)
  <2>1. PICK M \in SUBSET Outbox(s) : SendAll(s, M)
    BY <1>1 DEF SleepingStepStart, StepStart, SleepingGetNextTime
  <2>2. /\ UNCHANGED <<rep, even, sentIn, recvIn>> /\ pc[s] \in {"idle", "work"}
        /\ \E p \in {"barrier", "sr", "wake"} : pc' = [pc EXCEPT ![s] = p]
    BY <1>1, GetNextIs
    DEF SleepingStepStart, StepStart, Call, histVars, countVars, sleepVars, tickVars
  <2>3. rep[s] = None /\ \A t \in Sims \ {s} : Still(t)
    BY <1>0, <2>2 DEF RequestOf, InApp, Moves
  <2>4. \A t \in Sims : t # s => Sent(t)' = Sent(t)
    BY <2>1, <2>2, SendAllCount DEF SleepInv
  <2>5. \A t \in Sims : ~KnowsSettled(t)
    BY <2>2, NobodySends
  <2>6. \A t \in Sims : ~KnowsSettled(t)'
    <3>1. ~KnowsSettled(s)'
      BY <1>0, <2>2, <2>3, TimeAssumption DEF KnowsSettled
    <3>2. \A t \in Sims \ {s} : KnowsSettled(t)' <=> KnowsSettled(t)
      BY <2>3 DEF KnowsSettled, Still, Same
    <3> QED BY <2>5, <3>1, <3>2
  <2>7. /\ pc'[s] \notin {"delay", "min", "gather", "rest"}
        /\ \A t \in Sims \ {s} : /\ pc'[t] = pc[t] /\ rep'[t] = rep[t]
                                 /\ t \in Ticks => even'[t] = even[t] /\ respond'[t] = respond[t]
    BY <1>0, <2>2, <2>3 DEF Still, Same
  <2> QED BY <1>0, <2>2, <2>4, <2>6, <2>7 DEF SettledInv, Out
<1>2. CASE WakeDone(s) \/ RestDone(s)
  <2>1. PICK A \in SUBSET Arrived(s) : TakeAll(s, A)
    BY <1>2, WakeIs, RestIs
  <2>2. /\ UNCHANGED <<sentIn, recvIn>> /\ pc' = [pc EXCEPT ![s] = "sr"]
        /\ TakeReply(s, pc[s])
    BY <1>2, WakeIs, RestIs DEF TakeReply
  <2>3. \A m \in Msgs : loc'[m] # "unsent" <=> loc[m] # "unsent"
    BY <1>0, <2>1 DEF TakeAll, Arrived
  <2>4. (AllSettled => AllSettled') /\ \A t \in Sims : Sent(t)' = Sent(t)
    BY <2>2, <2>3 DEF AllSettled, Sent
  <2>5. pc'[s] = "sr" /\ rep'[s] = None
    BY <1>0, <2>2 DEF TakeReply
  <2>6. ~KnowsSettled(s)'
    BY <1>0, <2>5 DEF KnowsSettled
  <2> QED BY <1>0, <2>2, <2>4, <2>5, <2>6, StepSettles
<1>3. CASE /\ ~SleepingStepStart(s) /\ ~SleepingGetNextTime(s)
           /\ ~WakeDone(s) /\ ~RestDone(s)
  <2>1. UNCHANGED <<loc, sentIn, recvIn>>
    BY <1>3
    DEF SleepingClientStep, SleepingBarrierDone, BarrierDone, BusyBarrierDone,
        SleepingTickDiff, TickDiff, SleepingDelayDone, SleepingMinDone, GatherDone,
        msgVars, histVars, countVars
  <2>2. (AllSettled => AllSettled') /\ \A t \in Sims : Sent(t)' = Sent(t)
    BY <2>1 DEF AllSettled, Sent
  <2>3. rep'[s] = None
    BY <1>0 DEF Moves
  <2>4. CASE SleepingBarrierDone(s)
    <3>1. pc'[s] \in {"work", "sr"}
      BY <1>0, <2>4
      DEF SleepingBarrierDone, BarrierDone, BusyBarrierDone, RequestDiff, Call
    <3>2. ~KnowsSettled(s)'
      BY <1>0, <2>3, <3>1 DEF KnowsSettled
    <3> QED BY <1>0, <2>1, <2>2, <3>1, <3>2, StepSettles
  <2>5. CASE SleepingTickDiff(s)
    <3>1. /\ s \in Ticks /\ TakeReply(s, "sr") /\ pc'[s] = "delay"
          /\ respond'[s] = ~Stable(s) /\ even'[s] = (rep[s] = 0)
      BY <1>0, <2>5, TickDiffIs
    <3>2. Tallied(s)
      BY <1>0, <3>1 DEF TakeReply, RequestOf, Tallied
    <3>3. Sent(s) \subseteq sentIn
      BY <3>2 DEF SleepInv, CountInv, SendTally
    <3>4. KnowsSettled(s)' => KnowsSettled(s)
      BY <3>1 DEF KnowsSettled, TakeReply
    <3> QED BY <1>0, <2>1, <2>2, <3>1, <3>3, <3>4, StepSettles DEF Stable
  <2>6. CASE SleepingDelayDone(s)
    <3>1. /\ pc[s] = "delay" /\ pc'[s] = "min" /\ UNCHANGED <<even, respond>>
      BY <1>0, <2>6 DEF SleepingDelayDone, TakeReply, Call, sleepVars, tickVars
    <3>2. KnowsSettled(s)' => KnowsSettled(s)
      BY <3>1 DEF KnowsSettled
    <3> QED BY <1>0, <2>1, <2>2, <3>1, <3>2, StepSettles DEF SettledInv
  <2>7. CASE SleepingMinDone(s) \/ GatherDone(s)
    <3>1. pc[s] \in {"min", "gather"} /\ pc'[s] \in {"gather", "rest", "barrier", "idle"}
      BY <1>0, <2>7 DEF SleepingMinDone, GatherDone, TakeReply, Proceed, Call
    <3>2. ~KnowsSettled(s)' /\ Sent(s) \subseteq sentIn
      BY <1>0, <3>1 DEF KnowsSettled, SettledInv
    <3> QED BY <1>0, <2>1, <2>2, <3>1, <3>2, StepSettles
  <2> QED BY <1>3, <2>4, <2>5, <2>6, <2>7 DEF SleepingClientStep
<1> QED BY <1>1, <1>2, <1>3

LEMMA NetSettles ==
  ASSUME Pair, SleepInv, SleepingNetStep
  PROVE  SettledInv'
<1>0. /\ NetSim \in Sims /\ NetSim \notin Ticks /\ Moves(NetSim)
      /\ pc \in [Sims -> Places] /\ RequestOf(NetSim)
  BY NetMoves, NetApart DEF SleepInv, SleepTypes, ControlInv
<1>1. UNCHANGED <<loc, sentIn, recvIn>>
  BY DEF SleepingNetStep, SleepingNetDiff, NetReset, NetDiff, SleepingNetGranted,
         NetGranted, NetEnded, msgVars, histVars, countVars
<1>2. (AllSettled => AllSettled') /\ \A t \in Sims : Sent(t)' = Sent(t)
  BY <1>1 DEF AllSettled, Sent
<1>3. pc'[NetSim] \in {"delay", "idle", "finished"}
  BY <1>0 DEF SleepingNetStep, SleepingNetDiff, NetReset, NetDiff, SleepingNetGranted,
              NetGranted, NetEnded, Call
<1>4. pc'[NetSim] = "delay" => Sent(NetSim) \subseteq sentIn
  <2>1. CASE SleepingNetDiff
    <3>1. TakeReply(NetSim, "sr")
      BY <2>1 DEF SleepingNetDiff, NetReset, NetDiff
    <3>2. Tallied(NetSim)
      BY <1>0, <3>1 DEF TakeReply, RequestOf, Tallied
    <3> QED BY <1>0, <3>2 DEF SleepInv, CountInv, SendTally
  <2>2. CASE SleepingNetGranted
    BY <1>0, <2>2 DEF SleepingNetGranted, NetGranted, NetEnded
  <2> QED BY <2>1, <2>2 DEF SleepingNetStep
<1>5. ~KnowsSettled(NetSim)'
  BY <1>0, <1>3 DEF KnowsSettled
<1> QED BY <1>0, <1>1, <1>2, <1>3, <1>4, <1>5, StepSettles

-----------------------------------------------------------------------------
(* The other requests, and the messages on their way.                      *)

LEMMA HandlerCounts ==
  ASSUME Pair, SleepInv, NEW s \in Sims,
         SleepingBarrier(s) \/ SleepingReduceMin(s) \/ AllGather(s) \/ SleepHandler(s)
  PROVE  CountInv' /\ SettledInv' /\ broker' = "up"
<1>0. /\ SettledInv /\ CountInv /\ broker = "up" /\ Ticks \subseteq Sims
      /\ \A t \in Sims : RequestOf(t)
      /\ None \notin Nat /\ Ack # None
  BY NetApart, TimeAssumption DEF SleepInv, ControlInv, Ack
<1>1. /\ UNCHANGED <<pc, respond, even, commVars, loc, sentTotal, recvTotal, countVars>>
      /\ req' = req \ {s}
      /\ pc[s] \in {"barrier", "delay", "min", "gather", "wake", "rest"}
  BY DEF SleepingBarrier, SleepingReduceMin, AllGather, SleepHandler, Serve, simVars,
         msgVars, histVars, sleepVars, tickVars
<1>2. CountInv'
  BY <1>0, <1>1, QuietCount
<1>3. broker' = broker
  BY BarrierGathers, MinGathers, GatherGathers, SleepGathers
<1>4. /\ \A t \in Sims : Sent(t)' = Sent(t)
      /\ UNCHANGED <<sentIn, AllSettled>>
  BY <1>1 DEF Sent, AllSettled, countVars
\* An answer is for one who waits.
<1>5. \A t \in Sims : rep'[t] # rep[t] => rep'[t] # None /\ pc[t] \notin {"sr"}
  <2>1. CASE SleepingBarrier(s)
    BY <1>0, <2>1, BarrierGathers DEF ReplyTo
  <2>2. CASE SleepingReduceMin(s)
    BY <1>0, <2>2, MinGathers DEF ReplyTo
  <2>3. CASE AllGather(s)
    <3>1. \A t \in Ticks : Listed(Other(t)) # None
      BY ListIsAnswer DEF SleepInv
    <3> QED BY <2>3, <3>1, GatherGathers DEF Asks
  <2>4. CASE SleepHandler(s)
    <3>1. s \in Ticks /\ pc[s] \in {"wake", "rest"} /\ Mates(s, Other(s))
      BY <2>4, SleepGathers, Pairing
    <3>2. asleep = {Other(s)} => pc[Other(s)] \in {"wake", "rest"}
      BY <1>0, <3>1 DEF Mates, RequestOf, Out, Wakes
    <3>3. \A t \in Ticks : t = s \/ t = Other(s)
      BY <3>1 DEF Mates
    <3>4. CASE asleep = {Other(s)} /\ ReplyTo(Ticks, Ack)
      BY <1>0, <3>1, <3>2, <3>3, <3>4 DEF ReplyTo
    <3>5. CASE rep' = rep
      BY <3>5
    <3>6. CASE /\ ReplyTo({Other(s), NetSim}, Ack)
               /\ \A t \in {Other(s), NetSim} : pc[t] = "barrier"
      BY <1>0, <3>6 DEF ReplyTo
    <3> QED BY <2>4, <3>4, <3>5, <3>6, SleepGathers
  <2> QED BY <2>1, <2>2, <2>3, <2>4
<1>6. \A t \in Sims : (KnowsSettled(t)' => KnowsSettled(t)) /\ (Out(t)' => Out(t))
  BY <1>1, <1>5 DEF KnowsSettled, Out
<1> QED BY <1>0, <1>1, <1>2, <1>3, <1>4, <1>6 DEF SettledInv

LEMMA CarryCounts ==
  ASSUME Pair, SleepInv, NEW m \in Msgs, SleepingCarry(m)
  PROVE  CountInv' /\ SettledInv' /\ broker' = "up"
<1>1. CountInv'
  BY SleepUnanswered, ClientCount DEF SleepInv, SleepingCarry
<1>2. /\ UNCHANGED <<simVars, rep, sentIn, recvIn, even, broker>>
      /\ \A k \in Msgs : loc'[k] # "unsent" <=> loc[k] # "unsent"
  BY DEF SleepingCarry, Carry, TickReceive, NetReceive, DelayHandler, RouteHandler,
         histVars, countVars, brokerVars, sleepVars, tickVars, SleepInv, CommTypes
<1>3. /\ AllSettled' <=> AllSettled
      /\ \A t \in Sims : Sent(t)' = Sent(t)
  BY <1>2 DEF AllSettled, Sent
<1>4. \A t \in Sims : (KnowsSettled(t)' <=> KnowsSettled(t)) /\ (Out(t)' <=> Out(t))
  BY <1>2 DEF KnowsSettled, Out, simVars
<1> QED BY <1>1, <1>2, <1>3, <1>4 DEF SleepInv, SettledInv, simVars

LEMMA CountingNext ==
  ASSUME Pair, SleepInv, AllTypes', [SleepingNext]_sleepingVars
  PROVE  CountInv' /\ SettledInv' /\ broker' = "up"
<1>1. CASE UNCHANGED sleepingVars
  <2>1. /\ UNCHANGED <<pc, rep, req, respond, even, broker>>
        /\ UNCHANGED <<commVars, loc, sentTotal, recvTotal, countVars>>
    BY <1>1 DEF sleepingVars, vars, simVars, brokerVars, msgVars, histVars, sleepVars,
                tickVars
  <2>2. CountInv'
    BY <2>1, QuietCount DEF SleepInv
  <2>3. SettledInv'
    BY <2>1 DEF SleepInv, SettledInv, AllSettled, KnowsSettled, Out, Sent, countVars
  <2> QED BY <2>1, <2>2, <2>3 DEF SleepInv
<1>2. ASSUME NEW s \in Sims, SleepingClientStep(s)
      PROVE  CountInv' /\ SettledInv' /\ broker' = "up"
  <2>1. broker' = "up"
    BY <1>2, ClientMoves DEF Moves, brokerVars, SleepInv
  <2> QED BY <1>2, <2>1, SimulatorCounts, SimulatorSettles
<1>3. CASE SleepingNetStep
  <2>1. broker' = "up"
    BY <1>3, NetMoves DEF brokerVars, SleepInv
  <2> QED BY <1>3, <2>1, NetCounts, NetSettles
<1>4. ASSUME NEW s \in Sims, SleepingBrokerStep(s)
      PROVE  CountInv' /\ SettledInv' /\ broker' = "up"
  BY <1>4, SendRecvCounts, HandlerCounts DEF SleepingBrokerStep
<1> QED BY <1>1, <1>2, <1>3, <1>4, CarryCounts DEF SleepingNext

-----------------------------------------------------------------------------
(* The invariant, and what follows from it.                                *)

LEMMA SleepInit == Pair /\ SleepingInit => SleepInv
<1> SUFFICES ASSUME Pair, SleepingInit PROVE SleepInv
  OBVIOUS
<1>1. /\ Init /\ Slots = {1} /\ None \notin Nat /\ Infinity \in Nat
      /\ NetSim \in Sims /\ NetSim \notin Ticks /\ Ticks \subseteq Sims
      /\ Horizon \in Nat
  BY OneSlot, NetApart, TimeAssumption DEF SleepingInit
<1>2. CountInv
  BY <1>1, CountInit
<1>3. CommTypes
  BY <1>1, TypeInit, TypesOfComm DEF TypeInv
<1>4. SleepTypes
  BY <1>1 DEF SleepingInit, Init, SleepTypes, Places, InApp, Waiting, NoneOr
<1>5. \A s \in Sims : pc[s] = "idle" /\ rep[s] = None
  BY <1>1 DEF Init
<1>6. SettledInv
  BY <1>1, <1>5 DEF SettledInv, KnowsSettled, Out
<1>7. ControlInv
  <2>1. \A s \in Sims : RequestOf(s) /\ Stage(s) = "barrier"
    BY <1>1, <1>5 DEF SleepingInit, Init, RequestOf, Stage, InApp
  <2>2. \A s \in Ticks : GatherOf(s)
    BY <1>1, <1>5 DEF SleepingInit, GatherOf
  <2>3. NetInv
    BY <1>1, <1>5 DEF Init, NetInv
  <2>4. asleep # Ticks
    <3>1. Cardinality(Ticks) # 0
      BY DEF Pair
    <3> QED BY <3>1, FS_EmptySet DEF SleepingInit
  <2>5. \A s \in Ticks : PairOf(s, Other(s))
    <3> TAKE s \in Ticks
    <3>1. Mates(s, Other(s))
      BY Pairing
    <3>2. /\ pc[s] = "idle" /\ ~busy[s] /\ ~mightSleep[s] /\ est[s] <= Infinity
          /\ cur[s] = now /\ asked[s] <= Infinity /\ rep[s] = None
          /\ \A i \in Slots : otherTimes[s][i] <= Infinity
      BY <1>1, <1>5 DEF SleepingInit, Init
    <3> QED BY <3>2
            DEF PairOf, Beside, OutBeside, WakesBeside, BackBeside, WaitsBeside, ReducesBeside,
                ToldBeside, AsksBeside, KnowsBeside, FreeBeside, TimeOf, Agree, Judges,
                Out, Wakes, Back, Waits, Reduces, Told, Asks, Knows, Free
  <2> QED BY <2>1, <2>2, <2>3, <2>4, <2>5 DEF ControlInv, Together, Awake
<1> QED BY <1>1, <1>2, <1>3, <1>4, <1>6, <1>7 DEF SleepInv, Init

LEMMA SleepNext ==
  Pair /\ SleepInv /\ [SleepingNext]_sleepingVars => Pair' /\ SleepInv'
<1> SUFFICES ASSUME Pair, SleepInv, [SleepingNext]_sleepingVars PROVE Pair' /\ SleepInv'
  OBVIOUS
<1>1. AllTypes'
  BY SleepTypesNext
<1>2. CountInv' /\ SettledInv' /\ broker' = "up"
  BY <1>1, CountingNext
<1>3. ControlInv'
  BY <1>1, <1>2, ControlNext
<1>4. Pair'
  BY DEF Pair
<1> QED BY <1>1, <1>2, <1>3, <1>4 DEF SleepInv, AllTypes

\* For two power simulators: those that have been told the minimum agree on
\* what to gather, no collection is half complete or receives one too many,
\* and the broker never ends in graceful_death, for a second request of an
\* identity or for more receipts than sends.
THEOREM GatheringTogether == Pair => (SleepingSpec => []GatherTogether)
<1>1. Pair /\ SleepInv => GatherTogether
  <2> SUFFICES ASSUME Pair, SleepInv PROVE GatherTogether
    OBVIOUS
  <2>1. ASSUME NEW s \in Ticks, NEW t \in Ticks, pc[s] = "min", pc[t] = "min", s # t
        PROVE  mightSleep[s] = mightSleep[t] /\ even[s] = even[t]
    <3>1. /\ t = Other(s) /\ PairOf(s, t) /\ PairOf(t, s) /\ RequestOf(s) /\ RequestOf(t)
      BY <2>1, BothOf DEF SleepInv, Mates
    <3>2. TypesOf(s) /\ TypesOf(t)
      BY TypesOfBoth DEF SleepInv
    <3>3. even[s] <=> even[t]
      BY <2>1, <3>1 DEF PairOf, Agree, Judges, Verdict
    <3>4. mightSleep[s] <=> mightSleep[t]
      BY <2>1, <3>1
      DEF PairOf, Beside, ReducesBeside, ToldBeside, Reduces, Told, Out
    <3> QED BY <3>2, <3>3, <3>4 DEF TypesOf
  <2> QED BY <2>1 DEF GatherTogether, SleepInv
<1> QED BY <1>1, SleepInit, SleepNext, PTL DEF SleepingSpec

\* For two power simulators: the agreed instant never reaches the time that a
\* simulator waits for that sleeps and is left out of the collectives.
THEOREM SleepersNotPassed == Pair => (SleepingSpec => []NotLeftBehind)
<1>1. Pair /\ SleepInv => NotLeftBehind
  <2> SUFFICES ASSUME Pair, SleepInv PROVE NotLeftBehind
    OBVIOUS
  <2>1. ASSUME NEW s \in asleep, pc[s] = "rest" PROVE now < est[s]
    <3>1. s \in Ticks
      BY DEF SleepInv, SleepTypes
    <3>2. RequestOf(s) /\ PairOf(s, Other(s))
      BY <3>1, BothOf DEF SleepInv
    <3> QED BY <2>1, <3>2 DEF RequestOf, PairOf, Beside, OutBeside, Out, Wakes
  <2> QED BY <2>1 DEF NotLeftBehind
<1> QED BY <1>1, SleepInit, SleepNext, PTL DEF SleepingSpec

\* For two power simulators: outside the reductions the counters of one, awake
\* or asleep, hold just what the broker's totals do not.
THEOREM ResetsForgetNothing == Pair => (SleepingSpec => []ForgetsNothing)
<1>1. Pair /\ SleepInv => ForgetsNothing
  <2> SUFFICES ASSUME Pair, SleepInv PROVE ForgetsNothing
    OBVIOUS
  <2> QED BY NetApart
          DEF ForgetsNothing, SleepInv, CountInv, SendTally, RecvTally, Tallied, InApp
<1> QED BY <1>1, SleepInit, SleepNext, PTL DEF SleepingSpec

\* For two power simulators: one that found no difference and proposes the
\* time it was asked for is right that nothing is under way.
THEOREM SleepersReportAll == Pair => (SleepingSpec => []SleepersHoldNothing)
<1>1. Pair /\ SleepInv => SleepersHoldNothing
  <2> SUFFICES ASSUME Pair, SleepInv, NEW s \in Ticks, pc[s] \in {"delay", "min"}, rep[s] = None,
                      ~respond[s]
               PROVE  InFlight = {}
    BY DEF SleepersHoldNothing
  <2>1. AllSettled
    BY NetApart DEF SleepInv, SettledInv, KnowsSettled
  <2>2. recvIn \subseteq Done /\ \A m \in packets : loc[m] = "held"
    BY DEF SleepInv, CountInv, Totals
  <2>3. loc \in [Msgs -> Locs] /\ packets \subseteq Msgs
    BY DEF SleepInv, CommTypes
  <2> QED BY <2>1, <2>2, <2>3 DEF InFlight, AllSettled, Done
<1> QED BY <1>1, SleepInit, SleepNext, PTL DEF SleepingSpec

\* For two power simulators: the agreed instant moves back only to the time of
\* one that was woken by a message and answers it.
THEOREM OnlyAnswersGoBack == Pair => (SleepingSpec => BackOnlyToAnswer)
<1>1. Pair /\ SleepInv /\ [SleepingNext]_sleepingVars
        => [now' < now => \E s \in Ticks : respond[s] /\ est[s] = now']_sleepingVars
  <2> SUFFICES ASSUME Pair, SleepInv, [SleepingNext]_sleepingVars, now' < now
             PROVE  \E s \in Ticks : respond[s] /\ est[s] = now'
    OBVIOUS
  <2>0. now \in Nat
    BY DEF SleepInv, SleepTypes
  <2>1. ASSUME now' = now PROVE FALSE
    BY <2>0, <2>1
  <2>2. PICK s \in Sims : SleepingReduceMin(s)
    <3>1. ~(\E s \in Sims : SleepingClientStep(s))
      BY <2>1, ClientMoves DEF Moves
    <3>2. ~SleepingNetStep
      BY <2>1, NetMoves
    <3>3. ~(\E m \in Msgs : SleepingCarry(m))
      BY <2>1 DEF SleepingCarry, Carry, TickReceive, NetReceive, DelayHandler,
                  RouteHandler, histVars
    <3>4. \A s \in Sims : ~SleepingBarrier(s) /\ ~SleepingSendRecv(s) /\ ~AllGather(s)
      BY <2>1 DEF SleepingBarrier, SleepingSendRecv, AllGather, histVars
    <3>5. \A s \in Sims : ~SleepHandler(s)
      BY <2>1, SleepGathers
    <3>6. ~(UNCHANGED sleepingVars)
      BY <2>1 DEF sleepingVars, vars, histVars
    <3> QED BY <3>1, <3>2, <3>3, <3>4, <3>5, <3>6 DEF SleepingNext, SleepingBrokerStep
  <2>3. /\ pc[s] = "min" /\ now' <= Infinity
        /\ \A t \in Awake : pc[t] = "min" /\ rep[t] = None /\ now' <= Proposal(t)
        /\ now' = Infinity \/ \E t \in Awake : now' = Proposal(t)
    <3>1. \A t \in Awake : pc[t] = pc[s] /\ rep[t] = None
      BY <2>1, <2>2, MinGathers
    <3>2. PICK v \in Nat : /\ v <= Infinity /\ \A t \in Awake : v <= Proposal(t)
                           /\ v = Infinity \/ \E t \in Awake : v = Proposal(t)
                           /\ now' = IF pc[s] = "min" THEN v ELSE now
      BY <2>1, <2>2, MinGathers
    <3> QED BY <2>1, <3>1, <3>2
  <2>4. \A t \in Sims : pc[t] = "min" => Proposal(t) = est[t]
    BY DEF Proposal
  <2>5. NetSim \in Awake /\ est[NetSim] = Infinity
    <3>1. NetSim \in Awake
      BY NetApart DEF SleepInv, SleepTypes, Awake
    <3> QED BY <2>3, <3>1 DEF SleepInv, ControlInv, NetInv
  <2>6. PICK t \in Ticks : t \in Awake /\ now' = est[t]
    <3>1. PICK t \in Ticks : t \notin asleep
      BY DEF SleepInv, ControlInv, SleepTypes
    <3>2. t \in Awake /\ pc[t] = "min" /\ est[t] <= Infinity /\ now' <= est[t]
      <4>1. t \in Awake
        BY <3>1, NetApart DEF Awake
      <4>2. est[t] <= Infinity
        BY <3>1, BothOf DEF SleepInv, PairOf, TimeOf
      <4> QED BY <2>3, <2>4, <4>1, <4>2 DEF Awake
    <3>3. now' \in Nat /\ Infinity \in Nat /\ est[t] \in Nat
      BY <2>2, NetApart, TimeAssumption, SleepTypesNext
      DEF SleepInv, SleepTypes, AllTypes
    <3>4. CASE now' = Infinity
      <4>1. now' = est[t]
        BY <3>2, <3>3, <3>4
      <4> QED BY <3>2, <4>1
    <3>5. CASE now' # Infinity
      <4>1. PICK u \in Awake : now' = Proposal(u)
        BY <2>3, <3>5
      <4>2. u \in Sims /\ now' = est[u]
        BY <2>3, <2>4, <4>1 DEF Awake
      <4> QED BY <2>5, <3>5, <4>2 DEF Sims
    <3> QED BY <3>4, <3>5
  <2>7. est[t] > now \/ respond[t]
    <3>1. pc[t] = "min" /\ rep[t] = None
      BY <2>3, <2>6
    <3> QED BY <2>6, <3>1, BothOf DEF SleepInv, PairOf, TimeOf
  <2>8. now' \in Nat
    BY SleepTypesNext DEF AllTypes, SleepTypes
  <2> QED BY <2>0, <2>6, <2>7, <2>8
<1> QED BY <1>1, SleepInit, SleepNext, PTL DEF SleepingSpec, BackOnlyToAnswer

=============================================================================
