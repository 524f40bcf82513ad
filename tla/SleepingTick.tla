---------------------------- MODULE SleepingTick ----------------------------
(***************************************************************************)
(* The sleeping variant of the conservative synchronisation: power         *)
(* simulators under ConservativeSleepingTickAlgo and the network simulator *)
(* under ConservativeSleepingCommAlgo.  While the network is quiet, a      *)
(* power simulator that has to wait for an earlier one does not go through *)
(* the collectives, it calls SLEEP, and the broker leaves it out.  The     *)
(* others learn with ALL_GATHER_NEXT_TIME for how long they may leave it   *)
(* asleep; one that wants to go further calls SLEEP too, and when all the  *)
(* power simulators have, the broker wakes them.                           *)
(*                                                                         *)
(* The application, the communication managers, the messages and the       *)
(* requests are those of GracePeriodSync.  Simulators ask for times ahead  *)
(* of theirs: the end signal is left out.  The network simulator runs in   *)
(* framework time and steps are whole units, so that nobody is behind what *)
(* it was granted.                                                         *)
(***************************************************************************)
EXTENDS GracePeriodSync, Sequences

ASSUME SleepingAssumption ==
  /\ Unit[NetSim] = 1
  /\ \A s \in Ticks : Step[s] % Unit[s] = 0
  /\ IsFiniteSet(Ticks)
  /\ \A n \in 0 .. Cardinality(Ticks) : None \notin [1 .. n -> Nat]

VARIABLES
  \* a power simulator
  even,       \* diff is zero
  mightSleep, \* others may be asleep, and otherTimes is about them
  otherTimes, \* powersimgrantedTime, the slots a sequence
  slot,       \* where the loop that wakes the others is
  agreed,     \* minNextTime, while the next times are gathered
  \* the broker's context
  asleep,     \* who has called SLEEP; contexts is without them
  nextTimes   \* all_gather

tickVars == <<even, mightSleep, otherTimes, slot, agreed>>
sleepVars == <<tickVars, asleep, nextTimes>>
sleepingVars == <<vars, sleepVars>>

Slots == 1 .. Cardinality(Ticks) - 1

\* The order of the identities, in which the next times are listed.
Place == CHOOSE f \in [Ticks -> 1 .. Cardinality(Ticks)] :
           \A s, t \in Ticks : f[s] = f[t] => s = t

\* The slots are not initialised: what they hold is small or large.
SleepingInit ==
  /\ Init
  /\ even = [s \in Ticks |-> TRUE]
  /\ mightSleep = [s \in Ticks |-> FALSE]
  /\ otherTimes \in [Ticks -> [Slots -> {0, Infinity}]]
  /\ slot = [s \in Ticks |-> 0]
  /\ agreed = [s \in Ticks |-> 0]
  /\ asleep = {}
  /\ nextTimes = [s \in Ticks |-> None]

-----------------------------------------------------------------------------
(* The simulators.                                                         *)

\* timeStepStart.  A power simulator sends nothing, it only waits for all.
SleepingStepStart(s) ==
  /\ StepStart(s)
  /\ s \in Ticks => UNCHANGED msgVars
  /\ UNCHANGED sleepVars

SleepingBarrierDone(s) ==
  (BarrierDone(s) \/ BusyBarrierDone(s)) /\ UNCHANGED sleepVars

\* (mutant) The others are woken when their time has passed.
LeftBehindNow(s, next, i) == {j \in Slots : j >= i /\ cur[s] >= otherTimes[s][j]}

\* The slots from i on whose simulator the time asked for would leave behind.
LeftBehind(s, next, i) == {j \in Slots : j >= i /\ next >= otherTimes[s][j]}

\* GetNextTime, up to its first wait: SLEEP if others have to be woken.
\* The network simulator begins with the difference.
SleepingGetNextTime(s) ==
  /\ pc[s] = "work"
  /\ \E M \in SUBSET Outbox(s), next \in AskedTimes(s) :
       /\ next > cur[s]
       /\ SendAll(s, M)
       /\ asked' = [asked EXCEPT ![s] = next]
       /\ IF s \in Ticks /\ mightSleep[s] /\ LeftBehind(s, next, 1) # {}
          THEN /\ Call(s, "wake")
               /\ \E i \in LeftBehind(s, next, 1) :
                    /\ \A j \in LeftBehind(s, next, 1) : i <= j
                    /\ slot' = [slot EXCEPT ![s] = i]
               /\ UNCHANGED <<sendCopy, recvCopy, copied>>
          ELSE RequestDiff(s, sendCount'[s]) /\ UNCHANGED slot
  /\ base' = [base EXCEPT ![s] = cur[s]]
  /\ respond' = [respond EXCEPT ![s] = FALSE]
  /\ busy' = [busy EXCEPT ![s] = FALSE]
  /\ UNCHANGED <<cur, granted, est, receiveCount, brokerVars, rep, now,
                 sentIn, recvIn, even, mightSleep, otherTimes, agreed, asleep,
                 nextTimes>>

\* reduceTotalSendReceive after a sleep, in which nothing was taken.  The
\* counters are copied first; what makeProgress takes before the request goes
\* out is not in the copy.  Messages that are too old are dropped.
Arrived(s) == {m \in Msgs : To[m] = s /\ loc[m] = "toSim"}

TakeAll(s, A) ==
  LET old == {m \in A : mtime[m] < GraceTime(cur[s])}
  IN /\ loc' = [m \in Msgs |-> IF m \notin A THEN loc[m]
                               ELSE IF m \in old THEN "dropped" ELSE "delivered"]
     /\ receiveCount' = [receiveCount EXCEPT ![s] = @ + Cardinality(A \ old)]
     /\ RequestDiff(s, sendCount[s])

\* (mutant) One that wakes the others still takes them for asleep.
RestersAwoken(s) ==
  [mightSleep EXCEPT ![s] = @ /\ pc[s] = "wake"]

\* All have slept, and nobody is left asleep.
Awoken(s) == [mightSleep EXCEPT ![s] = FALSE]

\* Everyone slept.  The loop goes on with the slots that are left, and sleeps
\* again for each that holds an earlier time.
WakeDone(s) ==
  /\ s \in Ticks
  /\ TakeReply(s, "wake")
  /\ mightSleep' = Awoken(s)
  /\ LET left == LeftBehind(s, asked[s], slot[s] + 1)
     IN IF left = {}
        THEN /\ \E A \in SUBSET Arrived(s) : TakeAll(s, A)
             /\ slot' = [slot EXCEPT ![s] = 0]
        ELSE /\ \E i \in left : /\ \A j \in left : i <= j
                                /\ slot' = [slot EXCEPT ![s] = i]
             /\ Call(s, "wake")
             /\ UNCHANGED <<loc, receiveCount, sendCopy, recvCopy, copied>>
  /\ UNCHANGED <<cur, granted, asked, base, est, respond, busy, sendCount,
                 packets, brokerVars, mtime, now, sentIn, recvIn, even,
                 otherTimes, agreed, asleep, nextTimes>>

\* A simulator that slept while it waited is awake.  It responds if messages
\* have arrived meanwhile; its local time is what it was when it fell asleep.
RestDone(s) ==
  /\ s \in Ticks
  /\ TakeReply(s, "rest")
  /\ mightSleep' = Awoken(s)
  /\ \E A \in SUBSET Arrived(s) :
       /\ TakeAll(s, A)
       /\ respond' = [respond EXCEPT ![s] = @ \/ A # {}]
  /\ UNCHANGED <<cur, granted, asked, base, est, busy, sendCount, packets,
                 brokerVars, mtime, now, sentIn, recvIn, even, otherTimes,
                 slot, agreed, asleep, nextTimes>>

\* The difference is in, and reduceNetworkDelay is called.  A simulator that
\* has to respond while others may sleep will wake them.
SleepingTickDiff(s) ==
  /\ TickDiff(s)
  /\ even' = [even EXCEPT ![s] = rep[s] = 0]
  /\ otherTimes' = IF respond'[s] /\ mightSleep[s]
                   THEN [otherTimes EXCEPT ![s][1] = 0] ELSE otherTimes
  /\ UNCHANGED <<mightSleep, slot, agreed, asleep, nextTimes>>

\* The network simulator resets its counters when the difference is zero.
NetReset ==
  /\ TakeReply(NetSim, "sr")
  /\ rep[NetSim] = 0
  /\ sendCount' = [sendCount EXCEPT ![NetSim] = 0]
  /\ receiveCount' = [receiveCount EXCEPT ![NetSim] = 0]
  /\ est' = [est EXCEPT ![NetSim] = Infinity]
  /\ Call(NetSim, "delay")
  /\ UNCHANGED <<cur, granted, asked, base, respond, busy, sendCopy, recvCopy,
                 packets, brokerVars, msgVars, histVars>>

SleepingNetDiff ==
  (NetReset \/ (rep[NetSim] # 0 /\ NetDiff)) /\ UNCHANGED sleepVars

\* (mutant) The counters are reset whatever the difference was.
AfterAny(s) == s \in Ticks

\* A power simulator resets its counters after a difference of zero, once the
\* network delay has been reduced too.
Settled(s) == IF s = NetSim THEN FALSE ELSE even[s]

SleepingDelayDone(s) ==
  LET resets == Settled(s)
  IN /\ TakeReply(s, "delay")
     /\ sendCount' = [sendCount EXCEPT ![s] = IF resets THEN 0 ELSE @]
     /\ receiveCount' = [receiveCount EXCEPT ![s] = IF resets THEN 0 ELSE @]
     /\ Call(s, "min")
     /\ UNCHANGED <<cur, granted, asked, base, est, respond, busy, sendCopy,
                    recvCopy, packets, brokerVars, msgVars, histVars, sleepVars>>

\* The rest of the loop, with the minimum t: the call returns, or the
\* simulator waits for the others, asleep if the network is quiet.
Proceed(s, t) ==
  IF t < est[s]
  THEN /\ base' = [base EXCEPT ![s] = FloorTo(s, t)]
       /\ busy' = [busy EXCEPT ![s] = TRUE]
       /\ Call(s, IF even[s] THEN "rest" ELSE "barrier")
       /\ UNCHANGED <<granted, cur>>
  ELSE /\ busy' = [busy EXCEPT ![s] = FALSE]
       /\ granted' = [granted EXCEPT ![s] = est[s]]
       /\ cur' = [cur EXCEPT ![s] = est[s]]
       /\ pc' = [pc EXCEPT ![s] = "idle"]
       /\ UNCHANGED <<base, req>>

\* The minimum is in: if nobody sleeps and the network is quiet, the next
\* times of all are gathered first.
SleepingMinDone(s) ==
  /\ s \in Ticks
  /\ TakeReply(s, "min")
  /\ IF ~mightSleep[s] /\ even[s]
     THEN /\ agreed' = [agreed EXCEPT ![s] = rep[s]]
          /\ Call(s, "gather")
          /\ UNCHANGED <<base, busy, granted, cur>>
     ELSE Proceed(s, rep[s]) /\ UNCHANGED agreed
  /\ UNCHANGED <<asked, est, respond, commVars, brokerVars, msgVars, histVars,
                 even, mightSleep, otherTimes, slot, asleep, nextTimes>>

\* The next times of the others, without Infinity, go into the first slots.
GatherDone(s) ==
  /\ s \in Ticks
  /\ TakeReply(s, "gather")
  /\ otherTimes' = [otherTimes EXCEPT ![s] =
                      [j \in Slots |-> IF j <= Len(rep[s]) THEN rep[s][j] ELSE @[j]]]
  /\ mightSleep' = [mightSleep EXCEPT ![s] = TRUE]
  /\ Proceed(s, agreed[s])
  /\ agreed' = [agreed EXCEPT ![s] = 0]
  /\ UNCHANGED <<asked, est, respond, commVars, brokerVars, msgVars, histVars,
                 even, slot, asleep, nextTimes>>

SleepingNetGranted == (NetGranted \/ NetEnded) /\ UNCHANGED sleepVars

-----------------------------------------------------------------------------
(* The broker.  Collectives are complete when all that are awake are in.   *)

Awake == Sims \ asleep

ReplyTo(S, v) == rep' = [s \in Sims |-> IF s \in S THEN v ELSE rep[s]]

\* A request of s for a collection S that cannot be.
Excess(s, S) == s \in S \/ Cardinality(S \cup {s}) > Cardinality(Awake)

SleepingBarrier(s) ==
  /\ Serve(s, "barrier")
  /\ LET in == barrier \cup {s}
     IN IF Excess(s, barrier)
        THEN GracefulDeath /\ UNCHANGED <<barrier, rep>>
        ELSE /\ IF in = Awake /\ Awake # {NetSim}
                THEN barrier' = {} /\ ReplyTo(in, Ack)
                ELSE barrier' = in /\ UNCHANGED rep
             /\ UNCHANGED broker
  /\ UNCHANGED <<simVars, commVars, reduceSent, sentTotal, recvTotal,
                 reduceMin, msgVars, histVars, sleepVars>>

SleepingSendRecv(s) ==
  /\ Serve(s, "sr")
  /\ LET in == reduceSent \cup {s}
     IN IF Excess(s, reduceSent)
        THEN GracefulDeath /\ UNCHANGED <<reduceSent, sentTotal, recvTotal, rep>>
        ELSE /\ sentTotal' = sentTotal + sendCopy[s]
             /\ recvTotal' = recvTotal + recvCopy[s]
             /\ IF in # Awake
                THEN reduceSent' = in /\ UNCHANGED <<rep, broker>>
                ELSE /\ reduceSent' = {}
                     /\ IF Impossible(sentTotal', recvTotal')
                        THEN GracefulDeath /\ UNCHANGED rep
                        ELSE ReplyTo(in, sentTotal' - recvTotal') /\ UNCHANGED broker
  /\ sentIn' = sentIn \cup Sent(s)
  /\ recvIn' = recvIn \cup (copied \cap Received(s))
  /\ UNCHANGED <<simVars, commVars, barrier, reduceMin, msgVars, now,
                 copied, sleepVars>>

Proposing == {s \in Sims : reduceMin[s] # None}

SleepingReduceMin(s) ==
  /\ \E c \in {"delay", "min"} : Serve(s, c)
  /\ LET in == Proposing \cup {s}
         f == [reduceMin EXCEPT ![s] = Proposal(s)]
         times == [t \in Sims |-> IF t \in in THEN f[t] ELSE Infinity]
     IN IF Excess(s, Proposing)
        THEN GracefulDeath /\ UNCHANGED <<reduceMin, rep, now>>
        ELSE /\ UNCHANGED broker
             /\ IF in # Awake
                THEN reduceMin' = f /\ UNCHANGED <<rep, now>>
                ELSE \E t \in Smallest(times) :
                       /\ ReplyTo(in, t)
                       /\ reduceMin' = [r \in Sims |-> None]
                       /\ now' = IF pc[s] = "min" THEN t ELSE now
  /\ UNCHANGED <<simVars, commVars, barrier, reduceSent, sentTotal, recvTotal,
                 msgVars, countVars, sleepVars>>

\* The times of the others of S, Infinity left out by the one who receives.
OthersTimes(s, S, f) ==
  LET others == {t \in S \ {s} : f[t] # Infinity}
      upTo(t) == {t} \cup {u \in others : Place[u] < Place[t]}
      nth(i) == CHOOSE t \in others : Cardinality(upTo(t)) = i
  IN [i \in 1 .. Cardinality(others) |-> f[nth(i)]]

\* all_gather_handler: all but the network simulator, who has no part in it.
AllGather(s) ==
  /\ Serve(s, "gather")
  /\ LET f == [nextTimes EXCEPT ![s] = est[s]]
         in == {t \in Ticks : f[t] # None}
     IN IF nextTimes[s] # None \/ Cardinality(in) > Cardinality(Awake)
        THEN GracefulDeath /\ UNCHANGED <<nextTimes, rep>>
        ELSE /\ UNCHANGED broker
             /\ IF Cardinality(in) # Cardinality(Awake) - 1
                THEN nextTimes' = f /\ UNCHANGED rep
                ELSE /\ nextTimes' = [t \in Ticks |-> None]
                     /\ rep' = [t \in Sims |->
                                  IF t \in Ticks \cap Awake
                                  THEN OthersTimes(t, in, f) ELSE rep[t]]
  /\ UNCHANGED <<simVars, commVars, barrier, reduceSent, sentTotal, recvTotal,
                 reduceMin, msgVars, histVars, tickVars, asleep>>

\* (mutant) The collections are not looked at again.
NoLook(S, left) == FALSE

\* A collection that the one who leaves makes complete.
CompleteWithout(S, left) == S # {} /\ S = left

\* sleep_handler.  The others may be waiting for s in a collective; they are
\* answered now.  When all the power simulators sleep they are woken.
WakeAll ==
  /\ asleep' = {}
  /\ ReplyTo(Ticks, Ack)
  /\ UNCHANGED <<broker, barrier, reduceSent, reduceMin, now>>

\* The collection that becomes complete without s is answered, with the
\* difference or the minimum if it is a reduction.
FallAsleep(s, left) ==
  /\ asleep' = asleep \cup {s}
  /\ barrier' = IF CompleteWithout(barrier, left) THEN {} ELSE barrier
  /\ reduceSent' = IF CompleteWithout(reduceSent, left) THEN {} ELSE reduceSent
  /\ reduceMin' = IF CompleteWithout(Proposing, left)
                  THEN [r \in Sims |-> None] ELSE reduceMin
  /\ IF CompleteWithout(reduceSent, left) /\ Impossible(sentTotal, recvTotal)
     THEN GracefulDeath /\ UNCHANGED <<rep, now>>
     ELSE \E t \in Smallest([r \in Sims |-> IF r \in Proposing THEN reduceMin[r]
                                            ELSE Infinity]) :
            /\ rep' = [r \in Sims |->
                 IF r \notin left THEN rep[r]
                 ELSE IF CompleteWithout(barrier, left) THEN Ack
                 ELSE IF CompleteWithout(reduceSent, left) THEN sentTotal - recvTotal
                 ELSE IF CompleteWithout(Proposing, left) THEN t
                 ELSE rep[r]]
            /\ now' = IF CompleteWithout(Proposing, left)
                          /\ \A r \in left : pc[r] = "min" THEN t ELSE now
            /\ UNCHANGED broker

SleepHandler(s) ==
  /\ \E c \in {"wake", "rest"} : Serve(s, c)
  /\ IF s \in asleep
     THEN GracefulDeath
          /\ UNCHANGED <<asleep, rep, barrier, reduceSent, reduceMin, now>>
     ELSE IF Awake \ {s} = {NetSim} THEN WakeAll
     ELSE FallAsleep(s, Awake \ {s})
  /\ UNCHANGED <<simVars, commVars, sentTotal, recvTotal, msgVars, countVars, tickVars, nextTimes>>

SleepingCarry(m) == Carry(m) /\ UNCHANGED sleepVars

-----------------------------------------------------------------------------
SleepingClientStep(s) ==
  \/ SleepingStepStart(s) \/ SleepingBarrierDone(s) \/ SleepingGetNextTime(s)
  \/ WakeDone(s) \/ RestDone(s) \/ SleepingTickDiff(s) \/ SleepingDelayDone(s)
  \/ SleepingMinDone(s) \/ GatherDone(s)

SleepingNetStep == SleepingNetDiff \/ SleepingNetGranted

SleepingBrokerStep(s) ==
  \/ SleepingBarrier(s) \/ SleepingSendRecv(s) \/ SleepingReduceMin(s)
  \/ AllGather(s) \/ SleepHandler(s)

SleepingNext ==
  \/ \E s \in Sims : SleepingClientStep(s) \/ SleepingBrokerStep(s)
  \/ SleepingNetStep
  \/ \E m \in Msgs : SleepingCarry(m)

SleepingSpec == SleepingInit /\ [][SleepingNext]_sleepingVars

\* As in GracePeriodSync.
SleepingFairness ==
  /\ \A s \in Sims : WF_sleepingVars(SleepingClientStep(s))
                     /\ WF_sleepingVars(SleepingBrokerStep(s))
  /\ WF_sleepingVars(SleepingNetStep)
  /\ \A m \in Msgs : WF_sleepingVars(SleepingCarry(m))

SleepingFairSpec == SleepingSpec /\ SleepingFairness

-----------------------------------------------------------------------------
(* Properties.  They are those of two power simulators, where a loop that  *)
(* wakes the other sleeps once.  With three it may sleep once per slot:    *)
(* the second sleep finds nobody to wake and leaves the sleeper's messages *)
(* out of the next reduction.  Of these properties GatherTogether,         *)
(* ForgetsNothing and SleepersHoldNothing are lost.                        *)

\* Whether to gather the next times is decided by each power simulator for
\* itself, from the difference and from what it knows of the others' sleep:
\* those that are awake always decide alike, so the gathering that the broker
\* answers only when all are in is never half complete, and no collective
\* receives one too many.
GatherTogether ==
  /\ broker = "up"
  /\ \A s, t \in Ticks : pc[s] = "min" /\ pc[t] = "min" =>
       mightSleep[s] = mightSleep[t] /\ even[s] = even[t]

\* Nobody passes a sleeper.  The agreed instant is before the time at which a
\* simulator that is left out of the collectives wants to go on, whatever the
\* slots of the others held before they were filled.
NotLeftBehind == \A s \in asleep : pc[s] = "rest" => now < est[s]

\* Resetting the counters forgets nothing: outside the reductions they hold
\* just what is not in the broker's totals, asleep or awake.
ForgetsNothing ==
  \A s \in Ticks : pc[s] \in InApp \cup {"barrier"} =>
    /\ sendCount[s] = Cardinality(Sent(s) \ sentIn)
    /\ receiveCount[s] = Cardinality(Received(s) \ recvIn)

\* A simulator that concludes that the network is stable is right, though
\* sleepers do not report what they hold.
SleepersHoldNothing ==
  \A s \in Ticks :
    pc[s] \in {"delay", "min"} /\ rep[s] = None /\ ~respond[s] => InFlight = {}

\* The agreed instant only moves back for a simulator that was woken by a
\* message and answers it.
BackOnlyToAnswer ==
  [][now' < now => \E s \in Ticks : respond[s] /\ est[s] = now']_sleepingVars

\* Every call for a time within the bound returns: whoever sleeps is woken,
\* and the others do not wait for a sleeper.
SleepReturns ==
  \A s \in Ticks :
    pc[s] \notin InApp /\ asked[s] <= Horizon ~> pc[s] \in InApp
=============================================================================
